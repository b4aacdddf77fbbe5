# aimarket-playground: models, model checking and proofs

This directory specifies the AIMarket Playground in TLA+: its server, its pages,
its starters and the rules they apply to receipts and provider answers. TLC checks
the modules on small instances; TLAPS proves the invariants for every instance. Paths
below are relative to the repository root.

Contents: [the system](#the-system) · [what can go wrong](#what-can-go-wrong) ·
[modules](#modules) · [runs](#runs) · [proofs](#proofs) ·
[disagreements found](#where-the-code-and-its-documents-disagree) ·
[not modelled](#not-modelled) · [plan](#plan)

## The system

The Playground is one ASGI process (FastAPI on one event loop, plus the worker
threads FastAPI uses for plain `def` routes), a static browser page per task, and
a few starter programs that developers download. All server state is in process
memory.

| Component | Source | State it keeps | Operations |
|---|---|---|---|
| Run service | `playground/app.py` | `RUNS`, `RUN_OWNERS`, `VISITS`, `RUN_SLOTS`, the tasks | `create_run` (POST), `_execute_run` (task), `get_run` (GET, on a worker thread), `_trim_runs`, `_prune_visits` |
| Golden-path runner | `playground/runner.py` | the local variables of one run | Hub invoke, origin key, Metis verdict, event; `_verify`, `_verdict_object`, `_emit` |
| Receipt verification | `playground/receipts.py` | none | `verify_receipt`, `canonical_receipt` |
| Provider check API | `playground/provider_api.py` | `CHALLENGES`, `VISITS`, `SLOTS`, the handlers' locals | `challenge` (POST), `run_check` (POST), `allowance`, `prune` |
| Pinned HTTP | `playground/provider_http.py` | none | `parse_target`, `public_address`, `pin_target`, `request_json` |
| Provider invoke profile | `playground/provider_check.py` | none | `read_json`, `validate_*`, `check_provider`, the CLI |
| Playground page | `static/playground.js` | the shown result, one run's poll loop | run, poll, render, retry, copy |
| Language switch | `static/i18n.js` | `cache`, `dictionary`, `current`, the stored choice | `setLang`, listeners, `ready` |
| Connect page | `static/connect.js` | the form, `challenge`, `report`, `busy` | edit, import, prepare, run, `invalidate` |
| Start and guide pages | `static/start.js`, `provider-guide.js` | role and stack, `catalog`, `downloading`, `notice` | load, select, download, copy |
| Consumer starters | `starters/consumer-*/` | `attempt.json`, `report.json` | discover; one price-capped invoke |
| Provider starter check | `starters/provider/check_local.py` | the provider's process | start, wait for the port, check, stop |
| Starter packaging | `scripts/build_starters.py`, `smoke_starters.py` | archives and `catalog.json` on disk | build, `--check`; try the archives |

How they interact. The page posts a run and polls it; the run service starts a
background task per run, which calls the runner, which calls four outside services
in turn: the Hub (invoke), the origin's well-known document (key of the receipt),
Metis (verdict) and, when configured, an event sink. The task stores two results:
one marked `verifying` with the reading and the receipt, and a final one. The
connect page posts a manifest and gets a challenge; the developer publishes its
token on their endpoint; the check API then resolves and pins the endpoint's
address, fetches the token from it and sends it exactly one real invoke. The two
server parts share nothing but the process; each has its own `VISITS`. The start page
offers the archives that `build_starters.py` left on disk, by the catalog it wrote
last. A provider starter runs the same `provider_check.py` on the developer's machine.
All pages take their language from `i18n.js`.

What makes each part correct:

* **Run service.** Hourly allowances hold in every hour, not only in those that
  start at a request; slots are neither lost nor invented; a live run is stored
  and a stored pending result has a live task; a public result only moves forward;
  every run ends; a run is known only to its creator; the store is bounded.
* **Runner.** A verdict counts only if it echoes this run's id; no answer of an
  outside service makes a reading VERIFIED without a plausible verdict and a good
  receipt.
* **Provider check.** At most one invoke per challenge, to an address that proved
  control in the same attempt; the challenge is marked running exactly while
  somebody executes it; an invoke in flight always ends in a report; the report
  does not change; slots, attempts, allowances and the store are bounded.
* **Receipts and profile.** A receipt or an answer passes exactly if it follows the
  rules, whatever order the code checks them in.
* **Pages.** What is shown belongs to the run, challenge, kit and language that are
  selected, and waiting ends. What is saved is what was shown.
* **Packaging and local check.** A `--check` that passes is true of every archive; exit
  0 means one invoke that followed the profile, and nothing is left running.
* **Starters.** At most one charge per directory and authorization, whatever
  crashes; a success is one that is saved.

## What can go wrong

`PROJECT.json` lists every hazard with its line. They come from a few sources:

* *Awaits and threads.* Everything between two awaits is atomic on the event
  loop, but state read before an await is used after it (capacity of the
  challenge store, expiry of a challenge), and `get_run` runs beside the loop.
* *Time.* Windows and budgets (one hour, 15 min, 640 s, 25 s, 20 s) start at
  different moments and include waiting for a slot.
* *Timeouts and cancellation.* A task is cancelled while it waits, holds a slot,
  has just dispatched the invoke, or has already published a reading.
* *Bounds.* Two eviction rules, two semaphores and six allowances.
* *Outside services.* They may never answer, answer out of form, or answer late.
* *Restarts and deaths.* A page goes on with what the server has forgotten; a starter or
  a build dies between two writes, and the next one finds what is left.

## Modules

| Module | What it is |
|---|---|
| `RunService` | The run service with the control flow of the runner |
| `RunLifecycle` | Abstract: what a polling visitor is promised about a run's result |
| `RunBudget` | `RunService` with a note of when Metis was asked: whose limit ends a verification |
| `RunServiceRefinement` | The mapping from `RunService` to `RunLifecycle`, and the documented promises |
| `RunServiceProofs` | Theorems about `RunService`, the refinement included |
| `MetisVerdict` | One verification by Metis: the envelope, the search for a verdict, and what the page displays of it |
| `ReceiptCheck` | `verify_receipt` as operators, and which receipts deserve to pass |
| `RunTrust` | One run from the Hub's answer on: the receipt, then Metis, then VERIFIED or not |
| `RunTrustProofs` | Theorems about the three |
| `ProviderCheckApi` | The provider check with pinning and the invoke's outcome |
| `OneInvoke` | Abstract: issue, at most one invoke, report, forget |
| `ProviderCheckProofs` | Theorems about them |
| `ProviderProfile` | The profile's rules without state: documents, schemas, targets |
| `StarterCheck` | The local provider check: its processes, its one request, its report |
| `StarterCheckProofs` | Theorems about both |
| `ConsumerStarter`, `ConsumerStarterProofs` | Processes of the two consumer starters in one directory |
| `PlaygroundPage`, `PlaygroundPageProofs` | The page's run and poll loop, with `RunLifecycle` as its server |
| `ConnectPage`, `ConnectPageProofs` | The connect page, with `OneInvoke` as its server |
| `LanguageSwitch` | `setLang` with overlapping loads |
| `LanguageStorage` | What a switch leaves for the next page: the address and the storage |
| `StarterBuild` | Builds and `--check` runs of the starter archives |
| `StartPage` | The start page, composed with `LanguageSwitch` and `StarterBuild` |
| `StartPageProofs` | Theorems about the four |
| `MCRunService` | The symmetry of one run; the other modules are checked directly |

How they compose. `RunService` implements `RunLifecycle` and `ProviderCheckApi`
implements `OneInvoke`, by proofs as well as by TLC, so `PlaygroundPage` and
`ConnectPage` may take the abstract modules for their servers instead of the services
with all their timers and stamps; restarts, which empty the stores, are added there.
`MetisVerdict` refines what is one step of a run (`MetisAnswers`, or `RunRaises` for its
`raised`) into the loop the code runs; `RunTrust` puts it behind the receipt's check, as
`run()` does. `StarterCheck` refines in the same way what is one step of a check
(`Reported` of `ProviderCheckApi`) into `check_provider`'s. `StartPage` is a
conjunction of components: each step is one of the page's, of `LanguageSwitch` or of
`StarterBuild`, and they meet where a language arrives and where a file is read.
`LanguageStorage` adds to the switch what no page reads before its next load.
`ConsumerStarter` shares nothing with the rest.

Operators marked "mutant" in a comment are deliberate mistakes that are not part
of the specification; each exists to show that a property can fail (see
`PROJECT.json`, "mutants").

### RunService

| Code | Model |
|---|---|
| `RUNS`, `RUN_OWNERS`, `VISITS` | variables of the same names; a result keeps its `status` and `error_code` only |
| a run id (`uuid4`) | the position in admission order; dictionary order is then numeric order, which is what `_trim_runs` walks |
| a stamp in a `VISITS` list | the number of the run that left it; its time is `req[r].at` |
| the await at which a task is suspended | `pc[r]`: `queued`, `hub`, `origin`, `metis`, `emit`, `done` |
| `RUN_SLOTS` | `slots`, with the first-come order of `asyncio.Semaphore` |
| `wait_for(execute(), RUN_TIMEOUT_S)` | `RunTimeout`, at exactly the deadline; `Tick` lets no time pass while a timer is due |
| `get_run` on a worker thread | three steps `GetRun`, `CheckOwner`, `ReadRun`, interleaved with everything |
| everything between two awaits | one action, with the trailing `_trim_runs` or `_prune_visits` in it |

An error nobody names (a transport error at the Hub, a receipt of the wrong shape,
`int(inf)` or `float` of a huge integer, a value that cannot be encoded into the
next request, a body nested too deep to be decoded) is `RunRaises`: it may happen at any
stage that holds a slot.
`_verify`'s verdict is data the run's control does not depend on.

### ProviderCheckApi

| Code | Model |
|---|---|
| `CHALLENGES` | variable of that name; an item keeps owner, expiry, `running`, `report`, `attempts` |
| a suspended handler | `task[q]`: `upload` (awaiting the body), `pin` (DNS), `proof` (GET), `invoke` (POST) with the locals it carries over the await |
| `async with SLOTS` | taken in `RunStarts` itself: `locked()` has just been false, so it does not wait |
| `pin_target` | an answer is any set of addresses; refused unless all are public; any member is then pinned (getaddrinfo's order is the system's) |
| `invoked = True` and the POST | one step, `ProofMatches`, recorded in `posts`: nothing is awaited between them |
| `except` and `finally` of `run_check` | `Ends(q, report)`: slot, `running` and report change in one step, as the code between the last await and the return does |
| cancellation, unexpected errors | `CheckRefused` before the dispatch, `Interrupted` after it |
| `prune()` and `allowance()` | part of each request's action, in the code's order: a 503, a 409 for attempts and a busy 429 are charged, a 404 or a cached report is not |

`posts` and `proofs` record what the provider's endpoint received and served, `born`
when a challenge was issued; they only serve to state properties.

### PlaygroundPage

| Code | Model |
|---|---|
| the server behind `fetch` | `view`, stepped by `RunLifecycle!Next`: runs of this page, of its lost requests and of others |
| one execution of `runGoldenPath` | `loop[l]`: the await it is at (`post`, `postBody`, `sleep`, `poll`, `pollBody`) and its locals. Two executions are allowed for; that one suffices is a property |
| `running`, `lastResult`, `lastError` | variables of the same names; a result keeps its run and status |
| the three panels, `setState` | `panel`, `statusLabel` |
| `fetchWithTimeout` | a timer until the headers arrive, none while the body is read, as in the code |
| `pollRun`'s `while` | `PollOn` and `GiveUp`, tested after each answer |
| the listener of a language change | `LanguageChanged`, at any moment, its branches in the code's order |
| the Enter key, the button, Retry | `MayStart`: the first two are disabled while running, Retry is in the error panel |

A run id unknown to the server (evicted, lost in a restart, or cut off with the POST's
body) is polled like any other and ends in the 404 that `PollRead` throws on.

### MetisVerdict

| Code | Model |
|---|---|
| an answer's text | the sequence of its opening braces, each `broken` (no JSON), `deep` (nested too deep for the decoder) or the start of an object that spans some of the following ones; objects nest |
| `audit_id` | part of the object's kind: `foreign` objects do not echo it |
| `_verdict_object` | the loop itself (`Candidate`), with `start`, the count and the verdict so far |
| `_assessment_verdict`, the VERDICT line | the word of the first such line, a field of the answer |
| `timed_out`, `verified`, `verify_performed`, jury split | Booleans of the answer |
| its status | any of `Statuses`; `OwnStatuses` are the words `_verify` uses itself, which an answer may use too |
| an exception no handler names | `PostRaises`, and `raised` in `Candidate` (`Unnamed`) |
| what `_verify` returns | `verdict`, as far as `showResult` reads it |
| `showResult`'s choice of text | `Shown`, in the code's order of tests |

`FoundIsLast` compares the loop with a definition that has no loop: the outermost
braces (`Outermost`; a broken one encloses nothing), the first `MaxCandidates` of them,
the last verdict among these. It and `GreenIsDeserved` speak of no more of the answer
than that; what is behind has no effect. Scores, arguments and wording are left out; a
score `float()` cannot take is `huge`.

### ReceiptCheck and RunTrust

| Code | Model |
|---|---|
| a receipt | `Bodies`: the text of nonce, price, timestamp and plain latency (`details`), product and capability (the expected one or another), `success` as JSON spells it, the fields only version 2 signs as a digest (`extra`), and what `latency_ms` has behind its plain text (`tail`) |
| `canonical_receipt` | `Canonical`: the record of what the text says. Version 2 appends a labelled digest, exactly as a `tail` of the last field would: the text is not parsed |
| an Ed25519 signature | the key it was made with and the text it was made for; garbled or empty otherwise |
| keys of small order, malformed keys | `Weak`, under which everything verifies, and `Malformed` |
| `verify_receipt`'s early returns | `Reason`, in their order; `raises` for the two exceptions nobody names |
| whoever relays a receipt | `OriginAnswers`: a text the origin signed for one receipt, on a receipt that is any other (`RelayedBodies`) |
| `receipt_verification`, then `_verify` | `receipt`, then the steps of `MetisVerdict` |

`Deserves` says without an order which receipts should pass, in terms of what the origin
signed; `VerifiedIffDeserved` compares the two. They differ for receipts that are read as
of the version they were not signed as (`Misread`; see the remarks below). Two things
are assumed of texts. The origin's own nonce, ids, price and timestamp hold no separator
`|`, so that a relayed value of these that holds one is only another value; and the only
end of `latency_ms` that matters is one of the form version 2 appends. A signature that
is a string or a list is taken to raise only if the receipt has a nonce.

### ProviderProfile and StarterCheck

| Code | Model |
|---|---|
| a JSON document | `Documents`: any tree of up to `TreeBound` nodes, or a text that is refused before the walk |
| `read_json`'s stack, `depth`, `nodes` | `ReadTurn`, one turn of the loop; `Within` says the same without a walk |
| a schema | a tree whose nodes are subschemas or values of `enum` and `const`, with or without unknown keywords |
| `validate_schema`'s stack | `SchemaTurn`; `Positions` and `Supported` say the same without a walk |
| the order in which children are pushed | any one: `SetToSeq`. No theorem uses more of it than that it lists each child once |
| `while stack` | as many turns as the tree has nodes; that the stack is empty then is proved |
| `parse_target`, `pin_target` | `ParseTarget`, `PinTarget` over classes of URLs and of addresses |
| `check()` | `Popen`, the readiness poll (`HealthAsked`, then an answer or a failure), then `main()`, then `Ends` for the `finally` |
| the process it starts, port 8080 | `agent`, `port`; another process may take or leave the port at any time |
| `check_provider` | `ValidateFields`, `ValidateSchemas`, `Invoke`, `Headers`, `Chunk`, `Judge`; `checks` is the report's list |
| httpx' timeout of 8 s, urlopen's of 0.2 s | `timer`, reset by whatever arrives (`Trickle`) |
| `wait_for(..., 20)` | `budget`; there is none around the readiness poll |

`sound` and `invokes` are history: the first says, in terms of the rules without the
walks, whether everything judged so far follows the profile.

### ConnectPage

| Code | Model |
|---|---|
| manifest and input | `form`: one content, of which `Unreadable` is what `JSON.parse` or the length test refuses |
| `file.text()` | `reading`: contents that arrive in any order, while a request is awaited or not |
| `busy` | a request is awaited: `req`, with its stage (sent, executed by the server, answered, stalled) |
| `challenge`, `report`, the three panels, `status`, `error` | variables of these names |
| a connection that breaks | `NetworkFails`; the request becomes a stray one that may still be served |
| no timeout on `fetch` | `Stall` |
| the server | `OneInvoke`'s actions, with what a challenge was issued for (`bound`) and its report (`outcome`); `Expire`, `Restart` |
| a reload | `Reload`: the page forgets, the visitor id stays |

### LanguageSwitch, LanguageStorage, StarterBuild, StartPage

| Code | Model |
|---|---|
| a call of `setLang` | a record in `calls`: what was asked for, what it loads, its number |
| `load` | looks into the cache when the call begins (`SetCached`), and never again: a call that awaits a fetch may fail though another has loaded its language |
| the `catch` that loads English | `FallsBack` if English is loaded; else `LoadFails` replaces the call's `load`, or rejects |
| `localStorage`, the parameter `lang` | `stored`, `url`. A `setItem` that throws leaves `stored`; `OtherTabStores` changes it |
| `detect()` | `Detected`; what is not in address or storage is the browser's language, any one |
| the inputs, an archive | version numbers: of the files copied into it, and of its `SOURCES.json` |
| `build()`, then the loop over artifacts | `StartRun` hashes, `Copy` per kit, then `Truncate` and `Fill`, or `Compare`, per artifact, the catalog last |
| an edit, a death | `Edit`, `Die`, at any moment. Two runs at once are left out: nothing in the script prevents them, it is assumed that nobody starts them |
| a file cut short | `Partial` |
| `starter_download` | reads the file of that moment: `CatalogArrives`, `ArchiveArrives` |
| length and checksum | equality of the archive with the catalog's entry |
| `AbortSignal.timeout` | `CatalogFails`, `DownloadFails`, which are fair |

### ConsumerStarter

| Code | Model |
|---|---|
| a started process | `pc[p]`, and a fresh attempt number for its uuid |
| `attempt.json` | `marker`: created empty and exclusively (`OpenMarker`), then written (`WriteMarker`) |
| `report.json` | `report`; a crash within the write leaves it cut short (`TearsReport`) |
| Python searches before it marks, TypeScript within `market.run` after it | `Discovers`, `SdkDiscovers`, and the two cases of `ReadyToMark` and `ReadyToInvoke` |
| any exception, refusal, lost answer or crash | `Stops`, at every step of an active process |
| the request the Hub may have taken | `sent`, from the moment it goes out |
| "reconcile before authorizing again" | `RemovesMarker`, at any moment, even under a running process |

The receipt of another invocation is noticed only if it is of another product or
capability: `client.py:54` compares no more, and neither does `mismatched`.
TypeScript draws its own id for the marker and does not send it to the Hub; the
model's number stands for the process's one invocation in both languages.

## Runs

Every run sets `CHECK_DEADLOCK FALSE`, because the bounded clock and the bounded
number of runs, charges, challenges or attempts end every behaviour of the model;
the service itself never stops.

| Run | Question | Instance |
|---|---|---|
| `run_store` | Is some hour over an allowance? Do store, owners, tasks and slots agree? Is the public result the abstract life cycle, and does every run end with silent upstreams? Can a poll reveal a run to a stranger? | fair timers; 2 visitors behind one source, limits 1/2/2, 3 runs, 2 slots, store of 1, 1 worker thread, 5 time units of which an hour is 3, event sink on |
| `check_invoke` | Is there a second invoke, an unproven one, a stuck or lost challenge? Is some hour over an allowance? Does every execution end? By how much can the store exceed its capacity? | fair timers; 2 handlers, 1 visitor behind two sources, limits 3/2/3, 4 charges, 3 challenges, capacity 1, 1 slot, 2 attempts, two public addresses and a private one, lifetime 2, timeout 1 |
| `page_run` | Is one run polled at a time, is what is shown its own and published, and what can keep the page waiting? | 3 runs, 2 executions, deadline 3, fetch timeout 2, server store of 1, restarts |
| `verdict_search` | Which answers and receipts turn a reading green, and is each failure displayed as what it is? | every text of up to 3 braces, 2 candidates, every envelope and status; every receipt over 2 keys, 2 texts, 2 digests, each as tail or as fields |
| `starter_check` | Are exit 0 and each failure earned, is nothing left running, does the check end? | documents and schemas of up to 4 nodes against limits of depth 1 and 3 nodes; 3 polls; timeouts of 1 for a poll, then 1, 2, 4 and 1; bodies of up to 2 chunks |
| `connect` | Does what the connect page shows belong to its challenge, and can a lost report be asked for again? | 2 manifests, 2 submissions and challenges, 2 files read at once |
| `delivery` | Do texts and current language agree, whichever locale file arrives or fails? Is what is saved what was shown, is a `--check` that passes true, is the page of the kit and language selected, and do loading and downloading end? | 2 languages, 2 calls of `setLang`, 2 kits, 2 versions, 2 builds |
| `starter_charge` | Is a directory charged once per authorization, on record, and a success saved? | 2 Python processes, 1 TypeScript process, 3 attempts |
| `run_emit_timeout`, `run_reading_lost`, `run_poll_race`, `verdict_unchecked` | Four documented promises that fail | smallest instances |

Why the bounds are enough.

* The allowance arguments concern one key and one window: the limits let each kind of
  limit be the binding one, clocks longer than an hour let stamps leave the window, and
  keys overlap (two visitors behind one source, one visitor behind two).
* Eviction needs a store smaller than the number of runs, with both live and
  finished entries in it. Two slots and three runs give holders, a waiter and ended
  runs; with four runs and two sources the safety properties are proved, not checked.
* The invoke protocol concerns one challenge, two handlers that contend for it, a
  second challenge that contends for the slot and for expiry, and one attempt more
  than the limit. Of the time constants only the order matters: a lifetime shorter
  than, equal to and longer than the remaining execution all occur.
* The page needs two runs of its own, one from a lost POST, and a store of one so that
  a polled run can be evicted; a deadline longer than a fetch timeout lets polls both
  time out and reach the deadline.
* Three braces hold an object in an object beside a third, a broken one before a
  verdict, and one candidate more than the limit of two. Receipts need another key,
  another text and another digest, no third.
* Trees of four nodes hold a chain, and a branching, one level and one node beyond the
  limits of the instance; budget and timeouts are such that each can be the one that
  fires.
* The connect page needs a second challenge beside one whose request was given up, and
  two files so that they can arrive in the other order.
* Two calls of `setLang` are an earlier choice and a later one, whose loads arrive or fail
  in either order; two languages are English, to fall back to, and one that may fail.
* A mixture of builds needs two versions and two archives; two builds let one die before
  the other, or compare what it left.
* Three attempts cover a crash, a removed marker and a second removal; the theorems
  say the rest.

Symmetry is used in `run_poll_race` only, which checks an invariant: its two visitors
are interchangeable. The other runs have liveness properties or nothing to permute.

**Fairness.** `WF(Tick)` says that time passes; `WF(RunTimeout)`,
`WF(CheckTimeout)`, and on the page `WF(Poll)` and `WF(FetchTimesOut)`, say that the
event loop eventually runs a due timer and its task. `StarterCheck` assumes time and
its own steps (`Program`), `StartPage` that promises are handled and
`AbortSignal.timeout` fires. Nothing is assumed of any outside service, of uploads, of
threads or of the network: these progress properties hold by the timers alone. On the
page the timer is cleared when the headers arrive, so a body that never ends is the one
thing that can keep it waiting, and `OnlyBodiesStall` says that it is the only one. In
`check_local.py` the readiness poll's `timeout=0.2` bounds each socket operation only, so
an answer that arrives bit by bit holds it; `EveryCheckEnds` of `StarterCheck` names this
as the one way for the local check not to end. The connect page has no timer at all:
`WaitsOnlyForNetwork` assumes that the server serves what has arrived and ends every
invoke, which is what `EveryCheckEnds` of `ProviderCheckApi` shows, and leaves the
connection that stalls to the conclusion.

## Proofs

TLAPS checks the theorems for all values of the constants that satisfy the named
assumptions: the kinds of keys are disjoint (the code's prefixes), limits are
natural numbers in the order the environment clamps give them, for the run service a
run's budget is shorter than an hour (650 s against 3600 s), and "none" is the name of
no language and of no kit (`LocalesNamed`, `KitsNamed`).

**RunServiceProofs**

* `TypeCorrect`: one lemma per kind of step. The task's steps are first sorted
  (`TaskCases`) by what they do to the store, so that its seven ways of ending are
  one case.
* `SlotsAreAccounted`: by counting holders; a waiter that times out is the case
  that needs `Release` to look at the stage.
* `HourlyAllowanceHolds`: the property quantifies over all windows, the code only
  looks at those that end now. `AllowanceInv` adds that no stamp of the last hour is
  missing from a key (`StampsKept`) and that no list is over its limit; a window
  ending before now has not changed, and one that ends now or later is contained in
  the list just checked.
* `PendingIffLiveHolds`, `StoreBoundHolds`: `StoreInv` adds that a store above
  `MAX_STORED_RUNS` holds pending results only. Pending results have live tasks,
  live tasks are younger than a budget, so younger than an hour, so at most the
  global allowance.
* `ForgettingNeedsPressure`: an action property of trimming.
* `OnlyOwnerLearnsHolds`: owners never change, so an owner compared once still
  holds when the thread reads the result.
* `ServiceImplementsLifecycle`: each step maps to one step of `RunLifecycle`, whose
  forgotten runs are those trimming removed, or to a stutter; `StoreInv` supplies that
  a task's result is stored and pending when it stores the next one.

**ProviderCheckProofs** sorts the steps first (`StepCases`): most requests only
prune, and the five ways an execution can end are one case.

* `TypeCorrect` carries the locals a handler has at each stage over the awaits.
* `InvokedAtMostOnce` and `RunningIsExact` need one inductive invariant,
  `CheckInv`. At most one invoke is not inductive, because the code never asks
  whether a challenge was invoked: it asks whether it is running and whether it has a
  report. `Unreported` (an execution's challenge has no report) and
  `InvokeAccounted` (an invoke of a stored challenge is reported or still in flight)
  connect the two: a handler about to send holds its challenge alone, unreported and
  not in flight, so no invoke of it exists.
* `InvokesAreProven` adds that an item's `expires_at` is its lifetime's end.
* `SlotsAreAccounted` counts executions; `OvershootIsBounded` counts the places
  promised to handlers that await a body (`PlacesPromised`).
* `HourlyAllowanceHolds` follows the argument of the run service's.
* `ReportsAreStable` and `CheckImplementsOneInvoke` follow from `CheckInv`: only
  challenges that are not running are pruned, so none whose invoke is in flight.

The assumptions are the named ones of the module: kinds of keys disjoint, numbers
natural (limits, times and capacities positive), finitely many handlers.

**ConsumerStarterProofs**, for any sets of processes and any number of attempts,
crashes and removals. `ChargesAreAuthorized` counts, and counting is not
inductive. `ChargeInv` says instead where each charge is on record:

* `Numbered`: attempts under way have numbers of their own;
* `MarkedOnRecord`: who is past the marker is the marker's attempt, written, or one
  that was removed; so of two processes past it, at least one has been removed;
* `SentIsOnRecord`: what was sent and not removed is the marker's attempt, of which
  there is one. The count follows from it;
* `PaidIsSaved`: what a process saved is still there, unless one of the two
  writers was removed.

**RunTrustProofs**, for answers of any length and any limit. The loop of
`_verdict_object` needs an invariant about nesting (`SearchInv`): every brace left
behind ends before the brace the loop is at (`Passed`), so that brace is outermost
(`StepFacts`); the braces inside its object are not, so one step passes exactly one
outermost brace, and `seen` is the cardinality of those passed. `FoundIsLast`
follows step by step (`NextVerdicts`). When the loop ends, at the end of the text or
at the limit (`LimitReached`), every verdict has been passed (`AllPassed`), which
`GreenIsDeserved` needs. `Returned` lists what `_verify` returns by what it was
answered, for `CausesAreShown`.

And for any keys and texts. A run behind its receipt's check is still one verification
(the lemma `RunVerifies`: each of its steps is one of `MetisVerdict` or leaves it alone),
so what holds of one holds within a run (`RunKeepsVerdict`). `PassedIffDeserves` compares
the returns of `verify_receipt`, in their order, with `Deserves`, which has none, on every
receipt and key. `TextsEqual` says when two texts are one: read as of the version they
were signed as, only if all that is signed is equal, and otherwise only if `latency_ms`
ends differently, which is the exception `Misread`; and a key of small order never reaches
`Verifies`. `VerifiedAlwaysNeedsBoth` then follows from the theorems about `MetisVerdict`.
For `OnlyUnnamedRaises` the search's invariant gets a third part (`UnnamedInv`): nothing
passed so far raises, and what raised is where the search was.

**PlaygroundPageProofs**, for any executions, runs, store and time limits. The four
properties hold only together (`PageInv`): that Retry cannot start a second execution
rests on no error being shown while one is active, which rests on the language handler
finding a result of the run that is polled (`ShownIsPolled`), which rests on no second
execution having changed it. `Published` says of each answer under way that it was public
when it was given, and `ServerMoves` and `RestartMoves` that the server only moves
forward from there.

**ConnectPageProofs**, for any manifests, submissions and files. `ConnectInv` adds what
the request under way may bring: a challenge no one has seen, issued for the form
(`PrepareOK`), or the report stored for the challenge it names (`RunOK`), and that the
server stores a report as the invoke ends (`Stored`). Of stray requests it says only that
they name challenges and are not answered (`Issued`): whatever they do to the server,
`OneInvoke` lets no report change.

**StartPageProofs**, for any languages, kits, versions, calls and builds. The page is a
conjunction of components, and so is the proof: each of its steps is a step of
`LanguageSwitch` or none, and of `StarterBuild` or none (the lemmas `StartKeepsLanguages`
and `StartKeepsBuilds`), so that each of the two is reasoned about alone.

* `LanguagesAlwaysAgree` needs beside the agreement what the calls under way carry: a
  number no later than the last one asked for, and with that number the language that was
  asked for (`LanguageInv`). So a call that loads while no call has the last number came
  late, and is marked.
* `ReloadAlwaysAgrees`, of `LanguageStorage`: address and storage are written in the step
  that changes the texts (`StorageInv`), so only English, which the address does not name,
  depends on what the storage kept.
* `CheckedIsAlwaysFaithful` follows the loop of `--check`: what was compared so far
  (`CheckInv`) is what it would be now, unless something was edited. An ordinary build
  needs the same of what it wrote so far (`ProgressInv`).
* `OneBuild`, for `SavedIsAlwaysOneBuild`: the archives a catalog describes have one
  `SOURCES.json`, whatever died while it was written.

**StarterCheckProofs** begins with the walks. `ReadJsonIsWithin` and
`ValidateSchemaIsSupported` are about trees of every size, so they need an induction. The
library's theorems that take the statement to prove as an operator cannot be used here;
`Least` (a set of numbers has a least member) and `Induction` (a set that holds 0 and
successors holds every number) are set forms of it, obtained from `WFMin`, and a
recursive function is shown to exist by the set of those lengths up to which it does
(`DepthDef`, `PositionsDef`, `ReadWalkDef`, `SchemaWalkDef`). What the two walks have in
common is `Reached`: the nodes on the stack and the nodes visited are apart, and
together they are the root and the children, along the edges that are followed, of
those visited.

* A turn keeps this (`ReachedStep`) and visits one more node (`ReachedCount`), so after
  as many turns as there are nodes the stack is empty (`ReachedAll`).
* With an empty stack, what was visited is exactly what the edges lead to
  (`ReachedIsClosure`, by a least node that is in one and not in the other): every node
  for `read_json`, the positions for `validate_schema`.
* The stack itself is a sequence; `Push` and `Listing` say that it holds each node once.

Then `CheckInv` says what a report may be at each stage (`RunInv`) and at the end
(`EndInv`, six forms), from which both `ReportsAreOrdered` and `ReportsAreDeserved` are
read off. Neither property is inductive: that a failed step was deserved and a passed
one was sound is known while the step is judged, and `sound` must be still true when the
next one begins.

**Left to TLC.** Liveness, as fairness and ENABLED are out of the prover's reach:
`EveryRunEnds`, both `EveryCheckEnds`, `OnlyBodiesStall`, `WaitsOnlyForNetwork` and
`WaitsEnd`. Every invariant and every action property that a passing run checks is proved.

**Left to TLAPS.** The type invariants of the modules with proofs (`TypeCorrect`,
`TrustTypeCorrect`), `ForgettingNeedsPressure`, `VerifiedAlwaysNeedsBoth` and
`ReloadAlwaysAgrees` are proved for every instance, and no run repeats them. So
`LanguageStorage` is in no run.

## Where the code and its documents disagree

1. **A visibility event can fail a run** (`run_emit_timeout`). `runner.py:303` and
   `.env.example:7` say it cannot. The event is awaited inside the run's budget, so
   the budget may end there, and `_execute_run` then replaces the verdict by a
   failure.
2. **A shown reading can disappear** (`run_reading_lost`). `README.md:141-145` says
   that the budget leaves Metis the authoritative limit and that reading and receipt
   stay visible as PARTIAL. The 640 s start with the task and also pay for the slot, the
   Hub and the origin's key; when these took more than the 40 s that are left over, the
   budget ends before Metis' own 600 s do. In the trace of the run the origin's key was
   slow.
3. **A poll can be answered 500** (`run_poll_race`). `tests/test_api_edges.py:146-152`
   expects 404 for a run that is not there; an eviction between the thread's last
   two reads is a `KeyError`.
4. **An unchecked answer can be displayed as a low score** (`verdict_unchecked`).
   `README.md:134-135` says that a response without `verify_performed: true` is
   displayed as not checked, never as a genuine zero-score verdict. `runner.py:167`
   asks for the flag only when the status is `success`; an answer of another status
   (not an error) goes on to `playground.js:165`, "completed ... below threshold".

Remarks without a run:

* `runner.py:25` and `:251` speak of JSON objects, of which the last that echoes the id
  counts. The limit of 24 at `runner.py:260` counts the braces that are tried, those
  included that begin no object; a verdict behind them is not read, and the answer falls
  back to its `VERDICT:` line. `GreenIsDeserved` says so.
* `README.md:142-144` says that the playground's timeout and the network are displayed
  separately. `runner.py:146` hands on any status of an answer but `error`, so one with
  status `timeout` or `unavailable` is displayed as one of these; `CausesAreShown` names
  the case.
* `tests/test_receipts.py:62-66` is named for fields that a version 2 signature covers. The
  text of version 2 is that of version 1 with an appendix (`receipts.py:74`), and neither
  is parsed, so it is also the text of a version 1 receipt whose `latency_ms` ends in the
  appendix; the additional fields of that one are not compared. What the page shows of
  product, capability and success is signed all the same. `VerifiedIffDeserved` names the
  case (`Misread`).
* `docs/provider-check.md:43` says that at most 250 challenges are stored. The
  capacity is not asked again after the body has been awaited, so there can be
  more; `OvershootBounded`, checked and proved, says how many.
* A page that shows an error after a failed poll still has `lastResult` at
  `verifying`; a language switch then shows that old panel again
  (`playground.js:299`). No document promises otherwise.
* `runner.py:131` says that only a verdict that echoes the run's id counts. An
  answer without any such object falls back to its free-text `VERDICT:` line, which
  `GreenIsDeserved` states as the code has it.
* `tests/test_receipts.py:56` is named for malformed signatures that never raise. A version
  that JSON spells as an infinite number does (`receipts.py:50`, `OverflowError`), as do
  a signature that is no object and a value nested too deep to be formatted; the run then
  fails (`raised`) instead of showing a reading that is not verified. So does a value
  nested too deep in an answer of Metis (`runner.py:262`): a `RecursionError` is no
  `ValueError`.
* A file chosen on the connect page and read only after the form was submitted replaces
  the form and leaves the challenge of the old one (`connect.js:66`, `invalidate` returns
  because busy). `FormIsBound` excepts exactly this; `overtaken` marks it.
* The readiness poll of `check_local.py` has no budget around it: who sends bytes of an
  answer for ever holds it (see Fairness).
* Another process on port 8080 that speaks the profile with the same key passes the local
  check in place of the provider. `ReportIsDeserved` says no more than that the answer
  followed the profile.
* A URL that `parse_target` takes and httpx refuses ends the check with an exception
  (`InvalidURL` is no `HTTPError`), without the JSON that `docs/provider-check.md:63-64`
  describes; the exit code is 1 all the same.
* The start page stays at "loading" if the first language cannot be loaded, English
  included: `WaitsEnd` therefore begins at a language that is ready.

## Not modelled

The routes that serve files and the header middleware keep no state. Wording,
HTTP framing, TLS and cryptography are abstracted to their outcomes, JSON Schema
validation and what the SDKs and the generators do to external ones. A restart of the
server empties all its state and recovers nothing, so it is modelled where it is seen, by
the two pages. `smoke_starters.py` unpacks each archive and runs the commands the catalog
names, one after the other; it has no state to go wrong. `provider-guide.js` shows the
article of the current language, and the copy buttons of the pages a notice; neither
interacts with what is modelled. Markup, styles, translations and deployment files hold
no protocol.

## Plan

Done: every part of the server, the three pages with a protocol, the language switch,
the starters, their packaging and the local check; proofs of all their safety, and of the
refinements between them. What is left:

1. `ConnectPage` composed with `LanguageSwitch`, if the language handler ever comes to
   write more than texts.
2. A theorem that `StarterCheck` and `ProviderCheckApi` agree on what `Reported` may say,
   if the server's report is ever to be modelled step by step.

Questions that share an instance share a run, so that each run asks one part of the
system everything there is to ask of it.

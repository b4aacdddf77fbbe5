-------------------------- MODULE ProviderCheckApi --------------------------
(***************************************************************************)
(* The self-service provider check: playground/provider_api.py, with the   *)
(* address pinning of provider_http.py and the outcome of                  *)
(* provider_check.py's check_provider.                                     *)
(*                                                                         *)
(* A visitor prepares a challenge, publishes its token on the endpoint and *)
(* asks for the check, which resolves and pins the endpoint's address,     *)
(* fetches the proof from it and sends it one real invoke.  That invoke    *)
(* must be the only one the challenge ever causes, whatever times out, is  *)
(* cancelled, is repeated or expires.  Handlers run on one event loop: what *)
(* lies between two awaits is one step.                                    *)
(***************************************************************************)
EXTENDS Integers, FiniteSets

CONSTANTS
    Visitors, NoVisitor,       \* owner(request), and nobody
    Sources, Global,           \* the other keys of VISITS
    VisitorLimit, SourceLimit, GlobalLimit,   \* 20, 60 and 500
    HOUR,                      \* the 3600 of allowance
    TTL, MAX_CHALLENGES,
    MaxChecks,                 \* the 4 of SLOTS
    MaxAttempts,               \* the 3 of run_check
    CheckTime,                 \* the 25 of wait_for
    Addresses, Public,         \* what DNS may return, what public_address accepts
    NoAddress,                 \* an execution that has not pinned one yet
    Requests,                  \* handlers that may be suspended at one time
    ChargeBound,               \* bound of the model: charged requests ever
    ChallengeBound,            \* bound of the model: challenges ever issued
    MaxTime                    \* bound of the model: the clock stops here

Keys == Visitors \cup Sources \cup {Global}

\* The prefixes of allowance keep the kinds of keys apart (line 39).
ASSUME KeysDisjoint ==
    /\ Visitors \cap Sources = {}
    /\ Global \notin Visitors \cup Sources
    /\ NoVisitor \notin Visitors
ASSUME AddressesTyped == Public \subseteq Addresses /\ NoAddress \notin Addresses
ASSUME NumbersTyped ==
    /\ \A n \in {VisitorLimit, SourceLimit, GlobalLimit, HOUR, TTL,
                 MAX_CHALLENGES, MaxChecks, MaxAttempts, CheckTime} : n \in Nat \ {0}
    /\ \A n \in {ChargeBound, ChallengeBound, MaxTime} : n \in Nat
ASSUME RequestsFinite == IsFiniteSet(Requests)

VARIABLES
    now,          \* the clock
    charged,      \* every charge, in order: [visitor, source, at]
    VISITS,       \* key -> the charges whose stamp it still lists
    born,         \* challenge -> when it was issued, for every one ever issued
    CHALLENGES,   \* stored challenge -> its item
    SLOTS,        \* the value of the semaphore
    task,         \* handler -> the await it is suspended at, and its locals
    proofs,       \* proofs that matched: [chal, attempt, ip]
    posts         \* invokes dispatched: [chal, attempt, ip, at]

vars == <<now, charged, VISITS, born, CHALLENGES, SLOTS, task, proofs, posts>>

Charges   == DOMAIN charged
Issued    == DOMAIN born
Checking  == {"pin", "proof", "invoke"}
Verdicts  == {"passed", "failed", "incomplete", "interrupted"}
Idle      == [stage |-> "idle", visitor |-> NoVisitor, chal |-> 0,
              attempt |-> 0, ip |-> NoAddress, deadline |-> 0]
Uploading(v) == [stage |-> "upload", visitor |-> v, chal |-> 0,
                 attempt |-> 0, ip |-> NoAddress, deadline |-> 0]
Started(item) == [owner |-> item.owner, expires_at |-> item.expires_at,
                  running |-> TRUE, report |-> item.report,
                  attempts |-> item.attempts + 1]
Executing(q) == task[q].stage \in Checking
Limit(k)  == IF k = Global THEN GlobalLimit
             ELSE IF k \in Sources THEN SourceLimit ELSE VisitorLimit

Init ==
    /\ now = 0
    /\ charged = [n \in {} |-> 0]
    /\ VISITS = [k \in Keys |-> {}]
    /\ born = [c \in {} |-> 0]
    /\ CHALLENGES = [c \in {} |-> 0]
    /\ SLOTS = MaxChecks
    /\ task = [q \in Requests |-> Idle]
    /\ proofs = {}
    /\ posts = {}

-----------------------------------------------------------------------------
(* allowance and prune *)

RecentTooShort(k) ==             \* mutant: the window is one unit short
    {n \in VISITS[k] : now - charged[n].at < HOUR - 1}

\* The stamps of a key that are younger than an hour.
Recent(k) == {n \in VISITS[k] : now - charged[n].at < HOUR}

Allowed(v, s) == \A k \in {v, s, Global} : Cardinality(Recent(k)) < Limit(k)

\* allowance(request) returns: the request is stamped under its three keys.
Charge(v, s) ==
    LET n == Cardinality(Charges) + 1
    IN  /\ n <= ChargeBound
        /\ Allowed(v, s)
        /\ charged' = [m \in 1..n |-> IF m = n
                          THEN [visitor |-> v, source |-> s, at |-> now]
                          ELSE charged[m]]
        /\ VISITS' = [k \in Keys |-> IF k \in {v, s, Global}
                                     THEN Recent(k) \cup {n} ELSE Recent(k)]

\* allowance(request) raises 429, having pruned.
Refuse(v, s) ==
    /\ ~Allowed(v, s)
    /\ VISITS' = [k \in Keys |-> Recent(k)]
    /\ UNCHANGED charged

KeptUnexpired ==                 \* mutant: a running check expires too
    {c \in DOMAIN CHALLENGES : CHALLENGES[c].expires_at >= now}

\* The challenges that prune() keeps.
Kept == {c \in DOMAIN CHALLENGES : \/ CHALLENGES[c].expires_at >= now
                                   \/ CHALLENGES[c].running}

Pruned == [c \in Kept |-> CHALLENGES[c]]

-----------------------------------------------------------------------------
(* POST /challenges *)

ChallengeRefused(v, s) ==
    /\ Refuse(v, s)
    /\ UNCHANGED <<now, born, CHALLENGES, SLOTS, task, proofs, posts>>

\* 503, charged all the same.
ChallengeFull(v, s) ==
    /\ Charge(v, s)
    /\ Cardinality(Kept) >= MAX_CHALLENGES
    /\ CHALLENGES' = Pruned
    /\ UNCHANGED <<now, born, SLOTS, task, proofs, posts>>

ChallengeAcceptedWhenFull(q, v, s) ==   \* mutant: no capacity check
    /\ task[q].stage = "idle"
    /\ Charge(v, s)
    /\ CHALLENGES' = Pruned
    /\ task' = [task EXCEPT ![q] = Uploading(v)]
    /\ UNCHANGED <<now, born, SLOTS, proofs, posts>>

\* There is room now; the handler goes on to await the request's body.
ChallengeAccepted(q, v, s) ==
    /\ task[q].stage = "idle"
    /\ Charge(v, s)
    /\ Cardinality(Kept) < MAX_CHALLENGES
    /\ CHALLENGES' = Pruned
    /\ task' = [task EXCEPT ![q] = Uploading(v)]
    /\ UNCHANGED <<now, born, SLOTS, proofs, posts>>

\* The body is too long, malformed, without consent, or never completed.
UploadFails(q) ==
    /\ task[q].stage = "upload"
    /\ task' = [task EXCEPT ![q] = Idle]
    /\ UNCHANGED <<now, charged, VISITS, born, CHALLENGES, SLOTS, proofs, posts>>

\* The manifest is valid: a challenge is stored.
CreateChallenge(q) ==
    LET c == Cardinality(Issued) + 1
    IN  /\ task[q].stage = "upload"
        /\ c <= ChallengeBound
        /\ born' = [d \in 1..c |-> IF d = c THEN now ELSE born[d]]
        /\ CHALLENGES' = [d \in DOMAIN CHALLENGES \cup {c} |->
              IF d = c THEN [owner |-> task[q].visitor, expires_at |-> now + TTL,
                             running |-> FALSE, report |-> "none", attempts |-> 0]
              ELSE CHALLENGES[d]]
        /\ task' = [task EXCEPT ![q] = Idle]
        /\ UNCHANGED <<now, charged, VISITS, SLOTS, proofs, posts>>

-----------------------------------------------------------------------------
(* POST /challenges/{challenge_id}/run, up to the start of the execution *)

RunnableAgain(v, c) ==           \* mutant: a cached report is not returned
    /\ c \in Kept
    /\ CHALLENGES[c].owner = v
    /\ ~CHALLENGES[c].running

\* Found, the visitor's own, not running and not reported yet.
Runnable(v, c) ==
    /\ c \in Kept
    /\ CHALLENGES[c].owner = v
    /\ ~CHALLENGES[c].running
    /\ CHALLENGES[c].report = "none"

AttemptsLeft(c) == CHALLENGES[c].attempts < MaxAttempts

\* 404, 409, or the report of an earlier run.
RunAnswered(v, c) ==
    /\ ~Runnable(v, c)
    /\ CHALLENGES' = Pruned
    /\ UNCHANGED <<now, charged, VISITS, born, SLOTS, task, proofs, posts>>

RunOverAllowance(v, s, c) ==
    /\ Runnable(v, c)
    /\ Refuse(v, s)
    /\ CHALLENGES' = Pruned
    /\ UNCHANGED <<now, born, SLOTS, task, proofs, posts>>

\* 409 or 429, charged all the same.
RunNotStarted(v, s, c) ==
    /\ Runnable(v, c)
    /\ Charge(v, s)
    /\ ~AttemptsLeft(c) \/ SLOTS = 0
    /\ CHALLENGES' = Pruned
    /\ UNCHANGED <<now, born, SLOTS, task, proofs, posts>>

\* The slot is taken in this step: locked() has just been false, so entering
\* `async with SLOTS' does not wait.
RunStarts(q, v, s, c) ==
    /\ task[q].stage = "idle"
    /\ Runnable(v, c)
    /\ Charge(v, s)
    /\ AttemptsLeft(c)
    /\ SLOTS > 0
    /\ now + CheckTime <= MaxTime
    /\ SLOTS' = SLOTS - 1
    /\ CHALLENGES' = [Pruned EXCEPT ![c] = Started(@)]
    /\ task' = [task EXCEPT ![q] =
          [stage |-> "pin", visitor |-> v, chal |-> c, ip |-> NoAddress,
           attempt |-> CHALLENGES[c].attempts + 1, deadline |-> now + CheckTime]]
    /\ UNCHANGED <<now, born, proofs, posts>>

-----------------------------------------------------------------------------
(* execute() and the end of run_check *)

\* Every address of the answer is public.
Accepts(answer) == answer # {} /\ answer \subseteq Public

\* pin_target: the name resolved, and one of its addresses is used from here.
PinTarget(q) ==
    /\ task[q].stage = "pin"
    /\ \E answer \in SUBSET Addresses :
           /\ Accepts(answer)
           /\ \E ip \in answer :
                  task' = [task EXCEPT ![q].stage = "proof", ![q].ip = ip]
    /\ UNCHANGED <<now, charged, VISITS, born, CHALLENGES, SLOTS, proofs, posts>>

ProofMatchesUnpinned(q) ==       \* mutant: the invoke resolves the name again
    /\ task[q].stage = "proof"
    /\ CHALLENGES[task[q].chal].expires_at >= now
    /\ task' = [task EXCEPT ![q].stage = "invoke"]
    /\ proofs' = proofs \cup {[chal |-> task[q].chal, attempt |-> task[q].attempt,
                               ip |-> task[q].ip]}
    /\ \E ip \in Public :
           posts' = posts \cup {[chal |-> task[q].chal, attempt |-> task[q].attempt,
                                 ip |-> ip, at |-> now]}
    /\ UNCHANGED <<now, charged, VISITS, born, CHALLENGES, SLOTS>>

\* The pinned address served the token, the challenge has not expired while
\* it was fetched, and check_provider sends the invoke to that address.
ProofMatches(q) ==
    LET seen == [chal |-> task[q].chal, attempt |-> task[q].attempt, ip |-> task[q].ip]
    IN  /\ task[q].stage = "proof"
        /\ CHALLENGES[seen.chal].expires_at >= now
        /\ task' = [task EXCEPT ![q].stage = "invoke"]
        /\ proofs' = proofs \cup {seen}
        /\ posts' = posts \cup {[chal |-> seen.chal, attempt |-> seen.attempt,
                                 ip |-> seen.ip, at |-> now]}
        /\ UNCHANGED <<now, charged, VISITS, born, CHALLENGES, SLOTS>>

EndsHoldingSlot(q, report) ==    \* mutant: a refused execution keeps its slot
    /\ SLOTS' = IF task[q].stage = "invoke" THEN SLOTS + 1 ELSE SLOTS
    /\ CHALLENGES' = [CHALLENGES EXCEPT ![task[q].chal].running = FALSE,
                                        ![task[q].chal].report = report]
    /\ task' = [task EXCEPT ![q] = Idle]
    /\ UNCHANGED <<now, charged, VISITS, born, proofs, posts>>

\* run_check ends: the slot is free and the check is no longer running.
Ends(q, report) ==
    /\ SLOTS' = SLOTS + 1
    /\ CHALLENGES' = [CHALLENGES EXCEPT ![task[q].chal].running = FALSE,
                                        ![task[q].chal].report = report]
    /\ task' = [task EXCEPT ![q] = Idle]
    /\ UNCHANGED <<now, charged, VISITS, born, proofs, posts>>

\* check_provider returned its report, passed or failed.
Reported(q) ==
    /\ task[q].stage = "invoke"
    /\ \E report \in {"passed", "failed"} : Ends(q, report)

\* An error or a cancellation before the invoke: no report, so another
\* attempt may follow.
CheckRefused(q) ==
    /\ task[q].stage \in {"pin", "proof"}
    /\ Ends(q, "none")

InterruptedSilently(q) ==        \* mutant: `finally' stores no report
    /\ task[q].stage = "invoke"
    /\ Ends(q, "none")

\* Cancelled, or an error nothing names, after the invoke was dispatched.
Interrupted(q) ==
    /\ task[q].stage = "invoke"
    /\ Ends(q, "interrupted")

CheckTimeoutOfProof(q) ==        \* mutant: the invoke is not timed
    /\ task[q].stage \in {"pin", "proof"}
    /\ now = task[q].deadline
    /\ Ends(q, "none")

\* wait_for gives up.
CheckTimeout(q) ==
    /\ Executing(q)
    /\ now = task[q].deadline
    /\ Ends(q, IF task[q].stage = "invoke" THEN "incomplete" ELSE "none")

\* The event loop runs a due timer before more time passes.
Tick ==
    /\ now < MaxTime
    /\ \A q \in Requests : Executing(q) => now < task[q].deadline
    /\ now' = now + 1
    /\ UNCHANGED <<charged, VISITS, born, CHALLENGES, SLOTS, task, proofs, posts>>

-----------------------------------------------------------------------------
Handler(q) ==
    \/ UploadFails(q)
    \/ CreateChallenge(q)
    \/ PinTarget(q)
    \/ ProofMatches(q)
    \/ Reported(q)
    \/ CheckRefused(q)
    \/ Interrupted(q)
    \/ CheckTimeout(q)

Request(v, s) ==
    \/ ChallengeRefused(v, s)
    \/ ChallengeFull(v, s)
    \/ \E q \in Requests : ChallengeAccepted(q, v, s)
    \/ \E c \in 1..ChallengeBound :
           \/ RunAnswered(v, c)
           \/ RunOverAllowance(v, s, c)
           \/ RunNotStarted(v, s, c)
           \/ \E q \in Requests : RunStarts(q, v, s, c)

Next ==
    \/ \E v \in Visitors, s \in Sources : Request(v, s)
    \/ \E q \in Requests : Handler(q)
    \/ Tick

Spec == Init /\ [][Next]_vars

\* Time passes and due timers fire; the provider need never answer, and a
\* request body need never arrive.
Fairness == WF_vars(Tick) /\ \A q \in Requests : WF_vars(CheckTimeout(q))
FairSpec == Spec /\ Fairness

-----------------------------------------------------------------------------
(* Properties *)

\* Every variable stays in its type, a handler's locals in that of its stage;
\* no challenge is attempted more often than run_check allows.
Items == [owner : Visitors, expires_at : Nat, running : BOOLEAN,
          report : {"none"} \cup Verdicts, attempts : 0..MaxAttempts]
TypeOK ==
    /\ now \in 0..MaxTime
    /\ \E n \in 0..ChargeBound : charged \in
           [1..n -> [visitor : Visitors, source : Sources, at : 0..MaxTime]]
    /\ VISITS \in [Keys -> SUBSET Charges]
    /\ \E n \in 0..ChallengeBound : born \in [1..n -> 0..MaxTime]
    /\ DOMAIN CHALLENGES \subseteq Issued
    /\ CHALLENGES \in [DOMAIN CHALLENGES -> Items]
    /\ SLOTS \in Nat
    /\ task \in [Requests ->
          [stage : {"idle", "upload"} \cup Checking, visitor : Visitors \cup {NoVisitor},
           chal : 0..ChallengeBound, attempt : 0..MaxAttempts,
           ip : Public \cup {NoAddress}, deadline : Nat]]
    /\ \A q \in Requests :
           /\ task[q].stage = "upload" => task[q].visitor \in Visitors
           /\ Executing(q) => task[q].chal \in Issued /\ task[q].attempt > 0
           /\ task[q].stage \in {"proof", "invoke"} => task[q].ip \in Public
    /\ proofs \subseteq [chal : Issued, attempt : 1..MaxAttempts, ip : Public]
    /\ posts \subseteq [chal : Issued, attempt : 1..MaxAttempts, ip : Public,
                        at : 0..MaxTime]

\* A challenge causes at most one invoke of the provider, over all its
\* attempts and however each of them ended.
AtMostOneInvoke == \A p1, p2 \in posts : p1.chal = p2.chal => p1 = p2

\* Every invoke goes to a public address that served the challenge's token
\* in the same attempt, and not after the challenge expired: neither a second
\* DNS answer nor a slow proof gets between the check and its use.
InvokeProven ==
    \A p \in posts :
        /\ [chal |-> p.chal, attempt |-> p.attempt, ip |-> p.ip] \in proofs
        /\ p.ip \in Public
        /\ p.at <= born[p.chal] + TTL

\* A challenge says it is running exactly while one handler executes it: it
\* is not pruned from under that handler, no two handlers execute it, and it
\* is never left answering 409 with nobody working on it.
RunningIffExecuting ==
    /\ \A q \in Requests : Executing(q) =>
           /\ task[q].chal \in DOMAIN CHALLENGES
           /\ CHALLENGES[task[q].chal].running
    /\ \A c \in DOMAIN CHALLENGES : CHALLENGES[c].running =>
           \E q \in Requests : Executing(q) /\ task[q].chal = c
    /\ \A q1, q2 \in Requests :
           Executing(q1) /\ Executing(q2) /\ task[q1].chal = task[q2].chal => q1 = q2

\* Every slot is free or held by exactly one execution, however it ends.
SlotsAccounted ==
    SLOTS + Cardinality({q \in Requests : Executing(q)}) = MaxChecks

\* Challenge creation and run attempts share the hourly allowances: no hour
\* of the clock has more charges of one key than its limit.
ChargedIn(k, t) ==
    {n \in Charges : /\ k \in {charged[n].visitor, charged[n].source, Global}
                     /\ t - HOUR < charged[n].at /\ charged[n].at <= t}
HourlyAllowance ==
    \A k \in Keys, t \in 0..MaxTime : Cardinality(ChargedIn(k, t)) <= Limit(k)

\* The capacity check is made before the body is awaited, so the store may
\* exceed MAX_CHALLENGES (docs/provider-check.md:43 says it does not), but by
\* less than the handlers that can wait there.
OvershootBounded ==
    Cardinality(DOMAIN CHALLENGES) <= MAX_CHALLENGES - 1 + Cardinality(Requests)

\* A repeated run request gets the report of the first: once stored, a
\* report is not replaced while its challenge is kept.
ReportStable ==
    [][\A c \in DOMAIN CHALLENGES \cap DOMAIN CHALLENGES' :
          CHALLENGES[c].report # "none" =>
              CHALLENGES'[c].report = CHALLENGES[c].report]_vars

\* Each challenge's course, as the provider and the visitor see it, is the
\* abstract one: an invoke in flight always ends in a report and is never
\* forgotten before.
View == [c \in 1..ChallengeBound |->
    IF c \notin Issued THEN "none"
    ELSE IF c \notin DOMAIN CHALLENGES THEN "gone"
    ELSE IF CHALLENGES[c].report # "none" THEN "reported"
    ELSE IF \E q \in Requests : task[q].stage = "invoke" /\ task[q].chal = c
         THEN "invoking" ELSE "open"]
Promise == INSTANCE OneInvoke WITH Challenges <- 1..ChallengeBound, phase <- View
ImplementsOneInvoke == Promise!Spec

\* With time passing, every execution ends and every invoke is reported,
\* though the provider never answers.
EveryCheckEnds == \A q \in Requests : Executing(q) ~> ~Executing(q)

=============================================================================

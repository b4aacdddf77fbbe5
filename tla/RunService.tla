----------------------------- MODULE RunService -----------------------------
(***************************************************************************)
(* The golden-path run service: playground/app.py, and the control of      *)
(* playground/runner.py that its background tasks go through.              *)
(*                                                                         *)
(* create_run admits a run under three hourly allowances, stores it and    *)
(* starts a task.  The task waits for one of MAX_CONCURRENCY slots, calls  *)
(* the Hub, the origin, Metis and (when configured) the event sink, under  *)
(* one RUN_TIMEOUT_S budget that includes the wait for the slot.  Results  *)
(* live in a store that evicts its oldest finished entries.  get_run is    *)
(* a plain `def', so FastAPI runs it on a worker thread: its three reads   *)
(* are three steps here, and everything on the event loop between two      *)
(* awaits is one.                                                          *)
(*                                                                         *)
(* A run is its position in admission order.  Python dictionaries keep     *)
(* insertion order and a stored result is replaced in place, so "oldest    *)
(* in RUNS" is "smallest number".  One clock stands for time.time() and    *)
(* for the event loop's timers.                                            *)
(***************************************************************************)
EXTENDS Integers, FiniteSets

CONSTANTS
    Visitors,          \* visitor keys, "visitor:" + hash of the header
    NoHeader,          \* the key of an absent header: it never admits a run
    Sources,           \* source keys, "source:" + hash of the client address
    Global,            \* the key "global"
    MAX_RUNS, MAX_SOURCE_RUNS, MAX_GLOBAL_RUNS,   \* hourly allowances
    HOUR,              \* the 3600 of _prune_visits
    MAX_CONCURRENCY,   \* slots of RUN_SLOTS
    RUN_TIMEOUT_S,     \* the wait_for around a task
    MAX_STORED_RUNS,   \* what _trim_runs aims at
    EventUrl,          \* whether PLAYGROUND_EVENT_URL is set
    Readers,           \* worker threads that may execute get_run
    RunBound,          \* bound of the model: runs ever admitted
    MaxTime            \* bound of the model: the clock stops here

Keys == Visitors \cup Sources \cup {Global}

\* The prefixes keep the three kinds of keys apart (lines 104-107), and the
\* environment clamps of lines 33-41 give the order between the numbers.
ASSUME KeysDisjoint ==
    /\ Visitors \cap Sources = {}
    /\ Global \notin Visitors \cup Sources
    /\ NoHeader \notin Visitors
ASSUME LimitsClamped ==
    /\ MAX_RUNS \in Nat \ {0}
    /\ MAX_SOURCE_RUNS \in Nat /\ MAX_SOURCE_RUNS >= MAX_RUNS
    /\ MAX_GLOBAL_RUNS \in Nat /\ MAX_GLOBAL_RUNS >= MAX_RUNS
    /\ MAX_CONCURRENCY \in Nat \ {0}
    /\ MAX_STORED_RUNS \in Nat \ {0}
ASSUME TimesClamped ==
    /\ RUN_TIMEOUT_S \in Nat \ {0}
    /\ HOUR \in Nat /\ RUN_TIMEOUT_S < HOUR
ASSUME BoundsNat ==
    /\ RunBound \in Nat
    /\ MaxTime \in Nat
    /\ EventUrl \in BOOLEAN

VARIABLES
    now,         \* the clock
    last,        \* runs admitted so far
    req,         \* run -> who asked, from where, and when (the task's arguments)
    VISITS,      \* key -> admitted runs whose stamp it still lists
    RUNS,        \* stored run -> its public result
    RUN_OWNERS,  \* stored run -> visitor key
    pc,          \* run -> the await its task is suspended at
    slots,       \* the value of RUN_SLOTS
    rd           \* reader thread -> the get_run call it executes

vars == <<now, last, req, VISITS, RUNS, RUN_OWNERS, pc, slots, rd>>

Admitted  == 1..last
Pending   == {"running", "verifying"}
Holding   == {"hub", "origin", "metis", "emit"}
Stages    == {"queued", "done"} \cup Holding
ErrorCodes == {"none", "upstream_timeout", "hub_refused",
               "hub_returned_no_output", "upstream_unavailable"}
Results   == [status : Pending \cup {"completed", "failed"},
              error_code : ErrorCodes]

Running     == [status |-> "running",   error_code |-> "none"]
Verifying   == [status |-> "verifying", error_code |-> "none"]
Completed   == [status |-> "completed", error_code |-> "none"]
Failed(why) == [status |-> "failed",    error_code |-> why]

Live(r)   == pc[r] # "done"
KeysOf(v, s) == {v, s, Global}

Limit(k) == IF k = Global THEN MAX_GLOBAL_RUNS
            ELSE IF k \in Sources THEN MAX_SOURCE_RUNS ELSE MAX_RUNS

Idle == [step |-> "idle", visitor |-> NoHeader, run |-> 0, body |-> Running]

Init ==
    /\ now = 0
    /\ last = 0
    /\ req = [r \in {} |-> 0]
    /\ VISITS = [k \in Keys |-> {}]
    /\ RUNS = [r \in {} |-> Running]
    /\ RUN_OWNERS = [r \in {} |-> NoHeader]
    /\ pc = [r \in {} |-> "done"]
    /\ slots = MAX_CONCURRENCY
    /\ rd = [t \in Readers |-> Idle]

-----------------------------------------------------------------------------
(* _trim_runs and _prune_visits *)

TrimmedVerifying(runs, kept) ==  \* mutant: only `running' is spared
    LET done == {r \in DOMAIN runs : runs[r].status # "running"}
        gone == DOMAIN runs \ kept
    IN  /\ kept \subseteq DOMAIN runs
        /\ gone \subseteq done
        /\ \A g \in gone, d \in done \ gone : g < d
        /\ Cardinality(kept) > MAX_STORED_RUNS => gone = done
        /\ gone # {} => Cardinality(kept) >= MAX_STORED_RUNS

\* What the loop of _trim_runs leaves of the store: the oldest finished
\* entries go, one by one, until MAX_STORED_RUNS are left or no finished
\* one is.  There is exactly one such set.
TrimmedTo(runs, kept) ==
    LET done == {r \in DOMAIN runs : runs[r].status \notin Pending}
        gone == DOMAIN runs \ kept
    IN  /\ kept \subseteq DOMAIN runs
        /\ gone \subseteq done
        /\ \A g \in gone, d \in done \ gone : g < d
        /\ Cardinality(kept) > MAX_STORED_RUNS => gone = done
        /\ gone # {} => Cardinality(kept) >= MAX_STORED_RUNS

\* RUNS and RUN_OWNERS become runs and owners, trimmed.
StoreTrimmed(runs, owners) ==
    \E kept \in SUBSET DOMAIN runs :
        /\ TrimmedTo(runs, kept)
        /\ RUNS' = [r \in kept |-> runs[r]]
        /\ RUN_OWNERS' = [r \in kept |-> owners[r]]

RecentTooShort(k) ==             \* mutant: the window is one unit short
    {r \in VISITS[k] : now - req[r].at < HOUR - 1}

\* The stamps of a key that _prune_visits(now) keeps.
Recent(k) == {r \in VISITS[k] : now - req[r].at < HOUR}

-----------------------------------------------------------------------------
(* POST /api/playground/runs *)

AllowanceLeft(v, s) ==
    \A k \in KeysOf(v, s) : Cardinality(Recent(k)) < Limit(k)

\* A run is admitted: stamped under its three keys, stored as running with
\* its owner, given a task, and the store is trimmed.
CreateRun(v, s) ==
    LET r == last + 1
    IN  /\ last < RunBound
        /\ now + RUN_TIMEOUT_S <= MaxTime
        /\ AllowanceLeft(v, s)
        /\ VISITS' = [k \in Keys |-> IF k \in KeysOf(v, s)
                                     THEN Recent(k) \cup {r} ELSE Recent(k)]
        /\ StoreTrimmed([q \in DOMAIN RUNS \cup {r} |->
                            IF q = r THEN Running ELSE RUNS[q]],
                        [q \in DOMAIN RUN_OWNERS \cup {r} |->
                            IF q = r THEN v ELSE RUN_OWNERS[q]])
        /\ last' = r
        /\ req' = [q \in 1..r |-> IF q = r
                       THEN [visitor |-> v, source |-> s, at |-> now]
                       ELSE req[q]]
        /\ pc' = [q \in 1..r |-> IF q = r THEN "queued" ELSE pc[q]]
        /\ UNCHANGED <<now, slots, rd>>

\* The 429 answer: the stamps have been pruned before the limits are read.
RefuseRun(v, s) ==
    /\ ~AllowanceLeft(v, s)
    /\ VISITS' = [k \in Keys |-> Recent(k)]
    /\ UNCHANGED <<now, last, req, RUNS, RUN_OWNERS, pc, slots, rd>>

-----------------------------------------------------------------------------
(* _execute_run: the task of one run *)

\* store_result(result)
StoreResult(r, result) ==
    IF r \in DOMAIN RUN_OWNERS
    THEN StoreTrimmed([RUNS EXCEPT ![r] = result], RUN_OWNERS)
    ELSE UNCHANGED <<RUNS, RUN_OWNERS>>

\* The asyncio semaphore is fair: waiters are served in the order in which
\* they queued, which is the order in which their tasks were created.
Acquire(r) ==
    /\ pc[r] = "queued"
    /\ slots > 0
    /\ \A q \in Admitted : q < r => pc[q] # "queued"
    /\ slots' = slots - 1
    /\ pc' = [pc EXCEPT ![r] = "hub"]
    /\ UNCHANGED <<now, last, req, VISITS, RUNS, RUN_OWNERS, rd>>

ReleaseAlways(r) == slots' = slots + 1   \* mutant: a waiter also releases

\* Leaving `async with RUN_SLOTS', which only a holder has entered.
Release(r) == slots' = IF pc[r] \in Holding THEN slots + 1 ELSE slots

\* The task ends with this result.
Finish(r, result) ==
    /\ Release(r)
    /\ pc' = [pc EXCEPT ![r] = "done"]
    /\ StoreResult(r, result)
    /\ UNCHANGED <<now, last, req, VISITS, rd>>

\* The Hub answered with output: on to the origin's key.
HubAnswers(r) ==
    /\ pc[r] = "hub"
    /\ pc' = [pc EXCEPT ![r] = "origin"]
    /\ UNCHANGED <<now, last, req, VISITS, RUNS, RUN_OWNERS, slots, rd>>

\* The Hub answered with an error status, or with neither output nor result.
HubRefuses(r) ==
    /\ pc[r] = "hub"
    /\ \E why \in {"hub_refused", "hub_returned_no_output"} :
           Finish(r, Failed(why))

\* The receipt has been judged, whatever the origin answered: the result is
\* published as verifying (a copy of it), and Metis is asked.
OriginAnswers(r) ==
    /\ pc[r] = "origin"
    /\ pc' = [pc EXCEPT ![r] = "metis"]
    /\ StoreResult(r, Verifying)
    /\ UNCHANGED <<now, last, req, VISITS, slots, rd>>

\* mutant: the result published as verifying was not a copy, so setting its
\* status shows in the store before the run is over
MetisAnswersShared(r) ==
    /\ pc[r] = "metis"
    /\ IF EventUrl
       THEN /\ pc' = [pc EXCEPT ![r] = "emit"]
            /\ RUNS' = [RUNS EXCEPT ![r] = Completed]
            /\ UNCHANGED <<now, last, req, VISITS, RUN_OWNERS, slots, rd>>
       ELSE Finish(r, Completed)

\* _verify returned, with whatever verdict: it turns a timeout or an
\* unreachable Metis into one.  Without an event sink the run is complete.
MetisAnswers(r) ==
    /\ pc[r] = "metis"
    /\ IF EventUrl
       THEN /\ pc' = [pc EXCEPT ![r] = "emit"]
            /\ UNCHANGED <<now, last, req, VISITS, RUNS, RUN_OWNERS, slots, rd>>
       ELSE Finish(r, Completed)

\* The event was delivered, refused, or failed in a way _emit swallows.
EmitReturns(r) ==
    /\ pc[r] = "emit"
    /\ Finish(r, Completed)

\* An exception that no handler on the way names reaches _execute_run: a
\* transport error or an oversized answer at the Hub, a receipt of the wrong
\* shape, a receipt version or a score that overflows a conversion, a value
\* in the reading or the nonce that cannot be encoded into the next request.
RunRaises(r) ==
    /\ pc[r] \in Holding
    /\ Finish(r, Failed("upstream_unavailable"))

RunTimeoutOfHolder(r) ==         \* mutant: the wait for a slot is not timed
    /\ pc[r] \in Holding
    /\ now = req[r].at + RUN_TIMEOUT_S
    /\ Finish(r, Failed("upstream_timeout"))

\* wait_for gives up, wherever the task is suspended.
RunTimeout(r) ==
    /\ Live(r)
    /\ now = req[r].at + RUN_TIMEOUT_S
    /\ Finish(r, Failed("upstream_timeout"))

\* The clock.  The event loop runs a timer that is due before more time
\* passes, so no run outlives its deadline.
Tick ==
    /\ now < MaxTime
    /\ \A r \in Admitted : Live(r) => now < req[r].at + RUN_TIMEOUT_S
    /\ now' = now + 1
    /\ UNCHANGED <<last, req, VISITS, RUNS, RUN_OWNERS, pc, slots, rd>>

-----------------------------------------------------------------------------
(* GET /api/playground/runs/{run_id}, on a worker thread *)

\* `if run_id not in RUNS'
GetRun(t, v, r) ==
    /\ rd[t].step \in {"idle", "200", "404", "500"}
    /\ rd' = [rd EXCEPT ![t] =
                [step |-> IF r \in DOMAIN RUNS THEN "stored" ELSE "404",
                 visitor |-> v, run |-> r, body |-> Running]]
    /\ UNCHANGED <<now, last, req, VISITS, RUNS, RUN_OWNERS, pc, slots>>

CheckExists(t) ==                \* mutant: the owner is not compared
    /\ rd[t].step = "stored"
    /\ rd' = [rd EXCEPT ![t].step =
                IF rd[t].run \in DOMAIN RUN_OWNERS THEN "owned" ELSE "404"]
    /\ UNCHANGED <<now, last, req, VISITS, RUNS, RUN_OWNERS, pc, slots>>

\* `compare_digest(RUN_OWNERS.get(run_id, ""), visitor_key)'
CheckOwner(t) ==
    /\ rd[t].step = "stored"
    /\ rd' = [rd EXCEPT ![t].step =
                IF /\ rd[t].run \in DOMAIN RUN_OWNERS
                   /\ RUN_OWNERS[rd[t].run] = rd[t].visitor
                THEN "owned" ELSE "404"]
    /\ UNCHANGED <<now, last, req, VISITS, RUNS, RUN_OWNERS, pc, slots>>

\* `return RUNS[run_id]', a KeyError when the run went away meanwhile.
ReadRun(t) ==
    /\ rd[t].step = "owned"
    /\ rd' = IF rd[t].run \in DOMAIN RUNS
             THEN [rd EXCEPT ![t].step = "200", ![t].body = RUNS[rd[t].run]]
             ELSE [rd EXCEPT ![t].step = "500"]
    /\ UNCHANGED <<now, last, req, VISITS, RUNS, RUN_OWNERS, pc, slots>>

-----------------------------------------------------------------------------
Task(r) ==
    \/ Acquire(r)
    \/ HubAnswers(r)
    \/ HubRefuses(r)
    \/ OriginAnswers(r)
    \/ MetisAnswers(r)
    \/ EmitReturns(r)
    \/ RunRaises(r)
    \/ RunTimeout(r)

Thread(t) ==
    \/ \E v \in Visitors \cup {NoHeader}, r \in 1..RunBound : GetRun(t, v, r)
    \/ CheckOwner(t)
    \/ ReadRun(t)

Next ==
    \/ \E v \in Visitors, s \in Sources : CreateRun(v, s)
    \/ \E v \in Visitors, s \in Sources : RefuseRun(v, s)
    \/ \E r \in Admitted : Task(r)
    \/ \E t \in Readers : Thread(t)
    \/ Tick

Spec == Init /\ [][Next]_vars

\* Time passes and the event loop runs its due timers.  Nothing is assumed
\* of the Hub, the origin, Metis or the event sink: they may never answer.
Fairness ==
    /\ WF_vars(Tick)
    /\ \A r \in 1..RunBound : WF_vars(r \in Admitted /\ RunTimeout(r))

FairSpec == Spec /\ Fairness

-----------------------------------------------------------------------------
(* Properties *)

\* Every variable stays in its type; the stamps are of admitted runs, and
\* the store and the owners have the same runs.
TypeOK ==
    /\ now \in 0..MaxTime
    /\ last \in 0..RunBound
    /\ req \in [Admitted -> [visitor : Visitors, source : Sources, at : 0..MaxTime]]
    /\ VISITS \in [Keys -> SUBSET Admitted]
    /\ DOMAIN RUNS \subseteq Admitted
    /\ RUNS \in [DOMAIN RUNS -> Results]
    /\ RUN_OWNERS \in [DOMAIN RUNS -> Visitors]
    /\ pc \in [Admitted -> Stages]
    /\ slots \in Nat
    /\ rd \in [Readers -> [step : {"idle", "stored", "owned", "200", "404", "500"},
                           visitor : Visitors \cup {NoHeader},
                           run : 0..RunBound, body : Results]]

\* No hour of the clock, wherever it starts, has more admitted runs of one
\* visitor, one source or the whole service than its allowance: pruning,
\* checking and stamping in create_run never lose a stamp that counts.
AdmittedIn(k, t) ==
    {r \in Admitted : /\ k \in KeysOf(req[r].visitor, req[r].source)
                      /\ t - HOUR < req[r].at /\ req[r].at <= t}
HourlyAllowance ==
    \A k \in Keys, t \in 0..MaxTime : Cardinality(AdmittedIn(k, t)) <= Limit(k)

\* The store never outgrows both of its bounds.  _trim_runs alone does not
\* bound it, as it never evicts a live run; the task deadline and the
\* global allowance together bound the live ones.
StoreBound ==
    \/ Cardinality(DOMAIN RUNS) <= MAX_STORED_RUNS
    \/ Cardinality(DOMAIN RUNS) <= MAX_GLOBAL_RUNS

\* The semaphore counts right: every slot is free or has exactly one holder,
\* whichever way the holders leave and whenever a waiter gives up.
Holders == {r \in Admitted : pc[r] \in Holding}
SlotsAccounted == slots + Cardinality(Holders) = MAX_CONCURRENCY

\* A run whose task is alive is stored under its owner with a pending status,
\* and a stored pending status has a live task: no eviction loses a run that
\* is still being worked on, and no result says "wait" forever.
PendingIffLive ==
    /\ \A r \in Admitted : Live(r) => r \in DOMAIN RUNS
    /\ \A r \in DOMAIN RUNS :
           /\ RUNS[r].status \in Pending <=> Live(r)
           /\ RUNS[r].status = "verifying" <=> pc[r] \in {"metis", "emit"}
           /\ RUN_OWNERS[r] = req[r].visitor

\* A step forgets a finished run only when the store is full with runs that
\* are newer or still pending.
ForgetsOnlyUnderPressure ==
    [][\A g \in DOMAIN RUNS \ DOMAIN RUNS' :
          Cardinality({q \in DOMAIN RUNS' : q > g \/ RUNS'[q].status \in Pending})
             >= MAX_STORED_RUNS]_vars

\* Only the visitor that created a run can tell from an answer of get_run,
\* body or server error, that the run exists.
OnlyOwnerLearns ==
    \A t \in Readers : rd[t].step \in {"200", "500"} =>
        /\ rd[t].run \in Admitted
        /\ req[rd[t].run].visitor = rd[t].visitor

\* Every admitted run ends within its budget, though no upstream need ever
\* answer and a run may never get a slot.
EveryRunEnds == \A r \in 1..RunBound : (r \in Admitted) ~> (r \in Admitted /\ ~Live(r))

=============================================================================

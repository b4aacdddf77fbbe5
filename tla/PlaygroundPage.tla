--------------------------- MODULE PlaygroundPage ---------------------------
(***************************************************************************)
(* The Playground page, playground/static/playground.js: one visitor's     *)
(* page that posts a run, polls it once a second and shows what it gets,   *)
(* while the language may be switched at any moment.  The server is what   *)
(* RunLifecycle promises: runs of this page, of its lost requests and of   *)
(* other visitors.  Script code between two awaits is one step.            *)
(***************************************************************************)
EXTENDS Naturals

CONSTANTS
    Runs, NoRun,       \* run ids, and the run of an answer without one
    Capacity,          \* finished results the server keeps
    Loops,             \* executions of runGoldenPath that may overlap
    Deadline,          \* the 650 s of pollRun
    FetchTimeout       \* the 15 s of fetchWithTimeout

ASSUME NoRunIsNoRun == NoRun \notin Runs
ASSUME TimesPositive == Deadline \in Nat \ {0} /\ FetchTimeout \in Nat \ {0}

VARIABLES
    view,         \* the server: run -> its public status
    loop,         \* execution -> the await it is suspended at, and its locals
    running,      \* the script's variable; runButton.disabled goes with it
    lastResult,   \* the result renderResultPanel showed last: [run, status]
    lastError,    \* the error showError showed last
    panel,        \* the one of the three panels that is not hidden
    statusLabel   \* what setState last said

page == <<running, lastResult, lastError, panel, statusLabel>>
vars == <<view, loop, page>>

Server == INSTANCE RunLifecycle

NoResult == [run |-> NoRun, status |-> "none"]
Errors   == {"invalid_device", "rejected", "failed", "unavailable", "timeout"}
\* In flight until the headers arrive, then without a timer until the body
\* does.
Fetching == {"post", "poll"}
Reading  == {"postBody", "pollBody"}
Idle     == [stage |-> "idle", run |-> NoRun, answer |-> "none",
             timer |-> 0, elapsed |-> 0]
Active(l) == loop[l].stage # "idle"

Init ==
    /\ Server!Init
    /\ loop = [l \in Loops |-> Idle]
    /\ running = FALSE
    /\ lastResult = NoResult
    /\ lastError = "none"
    /\ panel = "empty"
    /\ statusLabel = "ready"

-----------------------------------------------------------------------------
(* What the page shows *)

ShowError(code) ==
    /\ lastError' = code
    /\ panel' = "error"
    /\ statusLabel' = "failed"
    /\ UNCHANGED lastResult

RenderResultPanel(result) ==
    /\ lastResult' = result
    /\ lastError' = "none"
    /\ panel' = "result"

ShowVerifying(result) == RenderResultPanel(result) /\ statusLabel' = "verifying"

\* VERIFIED or PARTIAL.
ShowResult(result) == RenderResultPanel(result) /\ statusLabel' = "done"

\* `finally' of runGoldenPath.
Finish(l) ==
    /\ running' = FALSE
    /\ loop' = [loop EXCEPT ![l] = Idle]

Throws(l) == ShowError("unavailable") /\ Finish(l)

Goes(l, stage, run, answer, timer) ==
    loop' = [loop EXCEPT ![l] =
        [stage |-> stage, run |-> run, answer |-> answer, timer |-> timer,
         elapsed |-> loop[l].elapsed]]

\* Suspends l at another await.
Suspend(l, stage, run, timer) == Goes(l, stage, run, "none", timer)

-----------------------------------------------------------------------------
(* runGoldenPath *)

MayStartAlways == TRUE           \* mutant: no trigger is ever disabled

\* The button and the Enter key are disabled while running; Retry is in the
\* error panel.
MayStart == ~running \/ panel = "error"

InvalidDevice ==
    /\ MayStart
    /\ ShowError("invalid_device")
    /\ UNCHANGED <<view, loop, running>>

ResetKeepingResult ==            \* mutant: the last result survives
    /\ lastError' = "none" /\ panel' = "empty" /\ statusLabel' = "running"
    /\ UNCHANGED lastResult

Reset ==
    /\ lastResult' = NoResult
    /\ lastError' = "none"
    /\ panel' = "empty"
    /\ statusLabel' = "running"

Start(l) ==
    /\ MayStart
    /\ loop[l].stage = "idle"
    /\ running' = TRUE
    /\ Reset
    /\ Suspend(l, "post", NoRun, FetchTimeout)
    /\ UNCHANGED view

\* The server admits the run, or refuses it, and the page gets the headers.
PostAdmitted(l) ==
    /\ loop[l].stage = "post"
    /\ \E r \in Runs :
          /\ Server!Admit(r)
          /\ Goes(l, "postBody", r, "running", 0)
    /\ UNCHANGED page

PostRefused(l) ==
    /\ loop[l].stage = "post"
    /\ Goes(l, "postBody", NoRun, "refused", 0)
    /\ UNCHANGED <<view, page>>

\* `while' of pollRun, from one await to the next.
PollOn(l, run) ==
    /\ loop[l].elapsed < Deadline
    /\ Suspend(l, "sleep", run, 1)
    /\ UNCHANGED running

GiveUp(l) == loop[l].elapsed >= Deadline /\ Finish(l)

\* The answer of the POST is read: a refusal ends the run, anything else is
\* polled, even a body that was cut short and names no run.
PostRead(l) ==
    /\ loop[l].stage = "postBody"
    /\ \/ loop[l].answer = "refused" /\ ShowError("rejected") /\ Finish(l)
       \/ /\ loop[l].answer = "running"
          /\ \E run \in {loop[l].run, NoRun} :
                \/ PollOn(l, run) /\ UNCHANGED <<lastResult, lastError, panel, statusLabel>>
                \/ GiveUp(l) /\ ShowError("timeout")
    /\ UNCHANGED view

-----------------------------------------------------------------------------
(* pollRun *)

Poll(l) ==
    /\ loop[l].stage = "sleep"
    /\ loop[l].timer = 0
    /\ Suspend(l, "poll", loop[l].run, FetchTimeout)
    /\ UNCHANGED <<view, page>>

\* get_run answers with what is public now; 404 for what is not stored.
PollAnswered(l) ==
    /\ loop[l].stage = "poll"
    /\ Goes(l, "pollBody", loop[l].run,
            IF loop[l].run \in Server!Shown(view) THEN view[loop[l].run] ELSE "not_found", 0)
    /\ UNCHANGED <<view, page>>

RunningIsPending(answer) ==      \* mutant: every unfinished run is rendered
    answer \in {"running", "verifying"}

IsPending(answer) == answer = "verifying"

IsFinal(answer) == answer = "completed"

\* The answer of a poll is read, or its body is cut short or is an error.  A
\* last `verifying' answer at the deadline is rendered and then replaced.
PollRead(l) ==
    LET result == [run |-> loop[l].run, status |-> loop[l].answer]
    IN  /\ loop[l].stage = "pollBody"
        /\ \/ /\ loop[l].answer = "running"
              /\ \/ PollOn(l, loop[l].run)
                    /\ UNCHANGED <<lastResult, lastError, panel, statusLabel>>
                 \/ GiveUp(l) /\ ShowError("timeout")
           \/ IsPending(loop[l].answer) /\ PollOn(l, loop[l].run) /\ ShowVerifying(result)
           \/ /\ IsPending(loop[l].answer)
              /\ GiveUp(l)
              /\ lastResult' = result /\ lastError' = "timeout"
              /\ panel' = "error" /\ statusLabel' = "failed"
           \/ IsFinal(loop[l].answer) /\ ShowResult(result) /\ Finish(l)
           \/ loop[l].answer = "failed" /\ ShowError("failed") /\ Finish(l)
           \/ Throws(l)
        /\ UNCHANGED view

\* The connection fails, or the abort timer fires.
FetchFails(l) ==
    /\ loop[l].stage \in Fetching
    /\ Throws(l)
    /\ UNCHANGED view

PostTimesOut(l) ==               \* mutant: polls are fetched without a timer
    loop[l].stage = "post" /\ loop[l].timer = 0 /\ FetchFails(l)

FetchTimesOut(l) == loop[l].timer = 0 /\ FetchFails(l)

-----------------------------------------------------------------------------
(* The language handler, the server and time *)

\* What is shown is written again, in the new language, in this order.
LanguageChanged ==
    /\ \/ lastResult.status = "verifying" /\ ShowVerifying(lastResult)
       \/ /\ lastResult.status # "verifying" /\ running
          /\ statusLabel' = "running"
          /\ UNCHANGED <<lastResult, lastError, panel>>
       \/ ~running /\ lastResult.status = "completed" /\ ShowResult(lastResult)
       \/ ~running /\ lastResult = NoResult /\ lastError # "none" /\ ShowError(lastError)
       \/ /\ ~running /\ lastResult = NoResult /\ lastError = "none"
          /\ statusLabel' = "ready"
          /\ UNCHANGED <<lastResult, lastError, panel>>
    /\ UNCHANGED <<view, loop, running>>

\* A restart of the process: RUNS is empty again.
Restarts == view' = [r \in Runs |-> IF view[r] = "none" THEN "none" ELSE "gone"]

\* Runs go on, and other requests are admitted, one whose answer this page
\* lost among them; and all of them may be forgotten.
ServerStep == (Server!Next \/ Restarts) /\ UNCHANGED <<loop, page>>

\* One unit of time; a due timer runs first.
Tick ==
    /\ \E l \in Loops : Active(l)
    /\ \A l \in Loops : loop[l].stage \in Fetching \cup {"sleep"} => loop[l].timer > 0
    /\ loop' = [l \in Loops |->
          IF ~Active(l) THEN loop[l]
          ELSE [stage |-> loop[l].stage, run |-> loop[l].run, answer |-> loop[l].answer,
                timer |-> IF loop[l].timer > 0 THEN loop[l].timer - 1 ELSE 0,
                elapsed |-> IF loop[l].elapsed < Deadline THEN loop[l].elapsed + 1
                            ELSE loop[l].elapsed]]
    /\ UNCHANGED <<view, page>>

Script(l) == PostRead(l) \/ Poll(l) \/ PollRead(l)
Network(l) == PostAdmitted(l) \/ PostRefused(l) \/ PollAnswered(l) \/ FetchFails(l)

Next ==
    \/ InvalidDevice
    \/ \E l \in Loops : Start(l) \/ Script(l) \/ Network(l)
    \/ LanguageChanged
    \/ ServerStep
    \/ Tick

Spec == Init /\ [][Next]_vars

\* Time passes and due timers run.  Nothing is assumed of the network: a
\* body may never arrive.
Fairness == WF_vars(Tick) /\ \A l \in Loops : WF_vars(Poll(l)) /\ WF_vars(FetchTimesOut(l))
FairSpec == Spec /\ Fairness

-----------------------------------------------------------------------------
(* Properties *)

\* Every variable stays in its type.
TypeOK ==
    /\ view \in [Runs -> Server!Statuses]
    /\ loop \in [Loops ->
          [stage : {"idle", "sleep"} \cup Fetching \cup Reading,
           run : Runs \cup {NoRun},
           answer : {"none", "refused", "running", "verifying", "completed",
                     "failed", "not_found"},
           timer : 0..FetchTimeout, elapsed : 0..Deadline]]
    /\ running \in BOOLEAN
    /\ lastResult \in {NoResult} \cup [run : Runs, status : {"verifying", "completed"}]
    /\ lastError \in {"none"} \cup Errors
    /\ panel \in {"empty", "result", "error"}
    /\ statusLabel \in {"ready", "running", "verifying", "done", "failed"}

\* One execution at a time, exactly while the page says it is running: Retry
\* has no guard of its own, so this rests on no error being shown, by a
\* language switch for instance, while a run is polled.
OneRunAtATime ==
    /\ running <=> \E l \in Loops : Active(l)
    /\ \A l, m \in Loops : Active(l) /\ Active(m) => l = m

\* While a run is polled, a result on the page is of that run, and the
\* status and panel agree with it through every language switch.
ShownIsPolled ==
    \A l \in Loops : Active(l) =>
        IF lastResult = NoResult
        THEN panel = "empty" /\ statusLabel = "running"
        ELSE /\ lastResult = [run |-> loop[l].run, status |-> "verifying"]
             /\ panel = "result" /\ statusLabel = "verifying"

\* The page never shows of a run what the server has not published of it,
\* however late the answer is, and keeps it when the server restarts.
ShownWasPublished ==
    panel = "result" =>
        view[lastResult.run] \in {"completed", "gone"} \cup
            IF statusLabel = "done" THEN {} ELSE {"verifying", "failed"}

\* Every wait but one is timed: only a body that never ends, or a deadline
\* not yet reached, keeps the page running.
OnlyBodiesStall ==
    \A l \in Loops : <>[](loop[l].stage \in Reading) \/ []<>~Active(l)

=============================================================================

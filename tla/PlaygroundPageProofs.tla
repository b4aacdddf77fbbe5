------------------------ MODULE PlaygroundPageProofs ------------------------
(***************************************************************************)
(* Theorems about PlaygroundPage: one run at a time, and nothing on the    *)
(* page that its server has not published, for any number of executions,   *)
(* of runs and of runs kept, and any deadlines.                            *)
(***************************************************************************)
EXTENDS PlaygroundPage, TLAPS

-----------------------------------------------------------------------------
(* The inductive invariant *)

\* What view[r] may be once r's reading, or its end, has been published.
AfterReading(r)    == view[r] \in {"verifying", "completed", "failed", "gone"}
AfterCompletion(r) == view[r] \in {"completed", "gone"}

\* A result was published when it was seen, and remains so.
WasPublished(run, status) ==
    /\ status = "verifying" => run \in Runs /\ AfterReading(run)
    /\ status = "completed" => run \in Runs /\ AfterCompletion(run)

\* Nothing has been rendered until the first poll is read.
Awaiting ==
    \A l \in Loops :
        loop[l].stage \in {"post", "postBody"} => lastResult = NoResult

Published ==
    /\ WasPublished(lastResult.run, lastResult.status)
    /\ \A l \in Loops : WasPublished(loop[l].run, loop[l].answer)
    /\ panel = "result" =>
          /\ lastResult # NoResult
          /\ statusLabel = "done" <=> lastResult.status = "completed"

PageInv == TypeOK /\ OneRunAtATime /\ Awaiting /\ ShownIsPolled /\ Published

-----------------------------------------------------------------------------
(* The server *)

Answers == {"none", "refused", "running", "verifying", "completed", "failed", "not_found"}
Stages  == {"idle", "sleep"} \cup Fetching \cup Reading
States  == [stage : Stages, run : Runs \cup {NoRun}, answer : Answers,
            timer : 0..FetchTimeout, elapsed : 0..Deadline]
Results == {NoResult} \cup [run : Runs, status : {"verifying", "completed"}]

\* The server keeps what it has published of a run, until it forgets it.
LEMMA ServerMoves ==
    ASSUME view \in [Runs -> Server!Statuses], Server!Next
    PROVE  /\ view' \in [Runs -> Server!Statuses]
           /\ \A r \in Runs : /\ AfterReading(r) => AfterReading(r)'
                              /\ AfterCompletion(r) => AfterCompletion(r)'
<1>1. PICK r \in Runs, status \in {"running", "verifying", "completed", "failed"} :
          /\ Server!Shows(r, status)
          /\ status = "running" => view[r] = "none"
          /\ status = "verifying" => view[r] = "running"
          /\ status = "completed" => view[r] = "verifying"
          /\ status = "failed" => view[r] \in {"running", "verifying"}
  BY DEF Server!Next, Server!Admit, Server!ShowReading, Server!Complete, Server!Fail
<1>2. PICK forgotten \in SUBSET Runs :
          /\ \A f \in forgotten : [view EXCEPT ![r] = status][f] \in Server!Final
          /\ view' = [q \in Runs |-> IF q \in forgotten THEN "gone"
                                     ELSE [view EXCEPT ![r] = status][q]]
  BY <1>1 DEF Server!Shows
<1>3. \A q \in Runs : view'[q] = IF q \in forgotten THEN "gone"
                                 ELSE IF q = r THEN status ELSE view[q]
  BY <1>2
<1>4. view' \in [Runs -> Server!Statuses]
  BY <1>1, <1>2, <1>3 DEF Server!Statuses, Server!Final
<1>5. \A q \in Runs : AfterReading(q) => AfterReading(q)'
  BY <1>1, <1>3 DEF AfterReading
<1>6. \A q \in Runs : AfterCompletion(q) => AfterCompletion(q)'
  BY <1>1, <1>3 DEF AfterCompletion
<1> QED BY <1>4, <1>5, <1>6

LEMMA RestartMoves ==
    ASSUME view \in [Runs -> Server!Statuses], Restarts
    PROVE  /\ view' \in [Runs -> Server!Statuses]
           /\ \A r \in Runs : /\ AfterReading(r) => AfterReading(r)'
                              /\ AfterCompletion(r) => AfterCompletion(r)'
BY DEF Restarts, Server!Statuses, AfterReading, AfterCompletion

LEMMA PublishedStays ==
    ASSUME view \in [Runs -> Server!Statuses], Server!Next \/ Restarts \/ UNCHANGED view,
           NEW run, NEW status, WasPublished(run, status)
    PROVE  WasPublished(run, status)'
BY ServerMoves, RestartMoves DEF WasPublished, AfterReading, AfterCompletion

-----------------------------------------------------------------------------
(* Executions *)

LEMMA Types ==
    /\ TypeOK <=>
          /\ view \in [Runs -> Server!Statuses] /\ loop \in [Loops -> States]
          /\ running \in BOOLEAN /\ lastResult \in Results
          /\ lastError \in {"none"} \cup Errors /\ panel \in {"empty", "result", "error"}
          /\ statusLabel \in {"ready", "running", "verifying", "done", "failed"}
    /\ Idle \in States /\ Idle.stage = "idle" /\ Idle.answer = "none"
<1>1. Idle \in States /\ Idle.stage = "idle" /\ Idle.answer = "none"
  BY TimesPositive DEF Idle, States, Stages, Answers
<1> QED BY <1>1 DEF TypeOK, States, Stages, Answers, Results

LEMMA NoResultFacts == NoResult.run = NoRun /\ NoResult.status = "none"
BY DEF NoResult

LEMMA TypedResult ==
    ASSUME NEW run, NEW status \in {"verifying", "completed"}
    PROVE  /\ [run |-> run, status |-> status] # NoResult
           /\ [run |-> run, status |-> status].run = run
           /\ [run |-> run, status |-> status].status = status
           /\ run \in Runs => [run |-> run, status |-> status] \in Results
BY DEF NoResult, Results

\* What becomes of the execution that goes on, and of the others.
LEMMA GoesFacts ==
    ASSUME loop \in [Loops -> States], NEW l \in Loops, NEW stage \in Stages,
           NEW run \in Runs \cup {NoRun}, NEW answer \in Answers, NEW timer \in 0..FetchTimeout,
           Goes(l, stage, run, answer, timer)
    PROVE  /\ loop' \in [Loops -> States]
           /\ loop'[l].stage = stage /\ loop'[l].run = run /\ loop'[l].answer = answer
           /\ \A m \in Loops \ {l} : loop'[m] = loop[m]
<1>1. loop[l].elapsed \in 0..Deadline
  BY DEF States
<1>2. PICK s : s = [stage |-> stage, run |-> run, answer |-> answer, timer |-> timer,
                    elapsed |-> loop[l].elapsed]
  OBVIOUS
<1>3. s \in States /\ s.stage = stage /\ s.run = run /\ s.answer = answer
  BY <1>1, <1>2 DEF States
<1>4. loop' = [loop EXCEPT ![l] = s]
  BY <1>2 DEF Goes
<1> QED BY <1>3, <1>4

\* An execution goes on and the page stays as it is.
LEMMA GoesOnInv ==
    ASSUME PageInv, NEW l \in Loops, Active(l), NEW stage \in Stages \ {"idle"},
           NEW run \in Runs \cup {NoRun}, NEW answer \in Answers, NEW timer \in 0..FetchTimeout,
           Goes(l, stage, run, answer, timer),
           stage \in {"post", "postBody"} => loop[l].stage \in {"post", "postBody"},
           lastResult = NoResult \/ run = loop[l].run,
           WasPublished(run, answer)', Server!Next \/ UNCHANGED view, UNCHANGED page
    PROVE  PageInv'
<1>1. /\ loop' \in [Loops -> States]
      /\ loop'[l].stage = stage /\ loop'[l].run = run /\ loop'[l].answer = answer
      /\ \A m \in Loops \ {l} : loop'[m] = loop[m]
  BY GoesFacts, Types DEF PageInv
<1>2. \A m \in Loops : Active(m)' <=> Active(m)
  BY <1>1 DEF Active
<1>3. view \in [Runs -> Server!Statuses] /\ view' \in [Runs -> Server!Statuses]
  BY ServerMoves, Types DEF PageInv
<1>4. TypeOK'
  BY <1>1, <1>3, Types DEF PageInv, TypeOK, page, States, Stages, Answers
<1>5. OneRunAtATime'
  BY <1>2 DEF PageInv, OneRunAtATime, page
<1>6. Awaiting'
  BY <1>1 DEF PageInv, Awaiting, page
<1>7. ShownIsPolled'
  BY <1>1, <1>2 DEF PageInv, ShownIsPolled, page
<1>8. Published'
  <2>1. WasPublished(lastResult.run, lastResult.status)'
    BY <1>3, PublishedStays DEF PageInv, Published, page
  <2>2. ASSUME NEW m \in Loops PROVE WasPublished(loop[m].run, loop[m].answer)'
    <3>1. CASE m = l
      BY <1>1, <3>1 DEF WasPublished
    <3>2. CASE m # l
      BY <1>1, <1>3, <3>2, PublishedStays DEF PageInv, Published
    <3> QED BY <3>1, <3>2
  <2> QED BY <2>1, <2>2 DEF PageInv, Published, page
<1> QED BY <1>4, <1>5, <1>6, <1>7, <1>8 DEF PageInv

\* The execution ends, and leaves on the page what it has seen.
LEMMA FinishInv ==
    ASSUME PageInv, NEW l \in Loops, Active(l), Finish(l), UNCHANGED view,
           lastResult' \in Results, lastError' \in {"none"} \cup Errors,
           panel' \in {"result", "error"}, statusLabel' \in {"done", "failed"},
           WasPublished(lastResult.run, lastResult.status)',
           panel' = "result" =>
              lastResult'.status = "completed" /\ statusLabel' = "done"
    PROVE  PageInv'
<1>1. /\ loop' \in [Loops -> States] /\ loop'[l].stage = "idle" /\ loop'[l].answer = "none"
      /\ \A m \in Loops \ {l} : loop'[m] = loop[m]
  BY Types DEF PageInv, Finish
<1>2. \A m \in Loops : ~Active(m)' /\ loop'[m].stage = "idle"
  BY <1>1 DEF Active, PageInv, OneRunAtATime
<1>3. TypeOK'
  BY <1>1, Types DEF PageInv, TypeOK, Finish, States, Stages, Answers, Results
<1>4. OneRunAtATime' /\ Awaiting' /\ ShownIsPolled'
  BY <1>2 DEF OneRunAtATime, Awaiting, ShownIsPolled, Finish
<1>5. Published'
  <2>1. ASSUME NEW m \in Loops PROVE WasPublished(loop[m].run, loop[m].answer)'
    BY <1>1 DEF WasPublished, PageInv, Published, AfterReading, AfterCompletion
  <2> QED BY <2>1, NoResultFacts DEF Published
<1> QED BY <1>3, <1>4, <1>5 DEF PageInv

-----------------------------------------------------------------------------
(* Steps *)

LEMMA InitInv == Init => PageInv
<1> SUFFICES ASSUME Init PROVE PageInv
  OBVIOUS
<1>1. loop \in [Loops -> States] /\ \A l \in Loops : loop[l].stage = "idle" /\ loop[l].answer = "none"
  BY Types DEF Init
<1>2. view \in [Runs -> Server!Statuses]
  BY DEF Init, Server!Init, Server!Statuses
<1>3. TypeOK
  BY <1>1, <1>2, Types DEF Init, TypeOK, States, Stages, Answers, Results
<1>4. OneRunAtATime /\ Awaiting /\ ShownIsPolled
  BY <1>1 DEF Init, OneRunAtATime, Awaiting, ShownIsPolled, Active
<1>5. Published
  BY <1>1, NoResultFacts DEF Init, Published, WasPublished
<1> QED BY <1>3, <1>4, <1>5 DEF PageInv

\* While a run is polled nothing but it can be started: no error is shown.
LEMMA MayStartFacts == PageInv /\ MayStart => ~running /\ \A l \in Loops : ~Active(l)
BY DEF PageInv, MayStart, OneRunAtATime, ShownIsPolled

\* A step of the page alone, while no run is polled.
LEMMA PageInvAtRest ==
    ASSUME PageInv, ~running, UNCHANGED <<view, loop, running>>,
           UNCHANGED lastResult, lastError' \in {"none"} \cup Errors,
           panel' \in {"empty", "result", "error"},
           statusLabel' \in {"ready", "verifying", "done", "failed"},
           panel' = "result" =>
              /\ lastResult # NoResult
              /\ statusLabel' = "done" <=> lastResult.status = "completed"
    PROVE  PageInv'
<1>1. TypeOK'
  BY Types DEF PageInv, TypeOK
<1>2. \A l \in Loops : ~Active(l)' /\ ~Active(l)
  BY DEF PageInv, OneRunAtATime, Active
<1>3. OneRunAtATime' /\ ShownIsPolled'
  BY <1>2 DEF OneRunAtATime, ShownIsPolled
<1>4. Awaiting'
  BY DEF PageInv, Awaiting
<1>5. Published'
  BY DEF PageInv, Published, WasPublished, AfterReading, AfterCompletion
<1> QED BY <1>1, <1>3, <1>4, <1>5 DEF PageInv

LEMMA InvalidDeviceInv == PageInv /\ InvalidDevice => PageInv'
<1> SUFFICES ASSUME PageInv, InvalidDevice PROVE PageInv'
  OBVIOUS
<1>1. ~running
  BY MayStartFacts DEF InvalidDevice
<1> QED BY <1>1, PageInvAtRest DEF InvalidDevice, ShowError, Errors

LEMMA StartInv == PageInv /\ (\E l \in Loops : Start(l)) => PageInv'
<1> SUFFICES ASSUME PageInv, NEW l \in Loops, Start(l) PROVE PageInv'
  OBVIOUS
<1>1. \A m \in Loops : ~Active(m)
  BY MayStartFacts DEF Start
<1>2. /\ loop' \in [Loops -> States]
      /\ loop'[l].stage = "post" /\ loop'[l].run = NoRun /\ loop'[l].answer = "none"
      /\ \A m \in Loops \ {l} : loop'[m] = loop[m]
  <2>1. FetchTimeout \in 0..FetchTimeout
    BY TimesPositive
  <2>2. loop \in [Loops -> States] /\ "post" \in Stages /\ "none" \in Answers
    BY Types DEF PageInv, Stages, Fetching, Answers
  <2>3. Goes(l, "post", NoRun, "none", FetchTimeout)
    BY DEF Start, Suspend
  <2> QED BY <2>1, <2>2, <2>3, GoesFacts
<1>3. UNCHANGED view /\ running' = TRUE /\ Reset
  BY DEF Start
<1>4. TypeOK'
  BY <1>2, <1>3, Types DEF PageInv, TypeOK, Reset, States, Stages, Answers, Results
<1>5. OneRunAtATime' /\ ShownIsPolled'
  BY <1>1, <1>2, <1>3 DEF OneRunAtATime, ShownIsPolled, Active, Reset
<1>6. Awaiting'
  BY <1>3 DEF Awaiting, Reset
<1>7. Published'
  <2>1. ASSUME NEW m \in Loops PROVE WasPublished(loop[m].run, loop[m].answer)'
    BY <1>2, <1>3 DEF WasPublished, PageInv, Published, AfterReading, AfterCompletion
  <2> QED BY <2>1, <1>3, NoResultFacts DEF Published, Reset, WasPublished
<1> QED BY <1>4, <1>5, <1>6, <1>7 DEF PageInv

LEMMA StageFacts ==
    /\ Fetching = {"post", "poll"} /\ Reading = {"postBody", "pollBody"}
    /\ {"post", "postBody", "poll", "pollBody", "sleep"} \subseteq Stages \ {"idle"}
    /\ 0 \in 0..FetchTimeout /\ 1 \in 0..FetchTimeout /\ FetchTimeout \in 0..FetchTimeout
BY TimesPositive DEF Fetching, Reading, Stages

LEMMA PostAdmittedInv ==
    ASSUME PageInv, NEW l \in Loops, PostAdmitted(l)
    PROVE  PageInv'
<1>1. PICK r \in Runs : Server!Admit(r) /\ Goes(l, "postBody", r, "running", 0)
  BY DEF PostAdmitted
<1>2. Server!Next
  BY <1>1 DEF Server!Next
<1>3. lastResult = NoResult /\ loop[l].stage = "post" /\ Active(l)
  BY DEF PostAdmitted, PageInv, Awaiting, Active
<1>4. WasPublished(r, "running")'
  BY DEF WasPublished
<1> QED BY <1>1, <1>2, <1>3, <1>4, GoesOnInv, StageFacts DEF PostAdmitted, Answers

LEMMA PostRefusedInv ==
    ASSUME PageInv, NEW l \in Loops, PostRefused(l)
    PROVE  PageInv'
<1>1. lastResult = NoResult /\ loop[l].stage = "post" /\ Active(l)
  BY DEF PostRefused, PageInv, Awaiting, Active
<1>2. WasPublished(NoRun, "refused")'
  BY DEF WasPublished
<1> QED BY <1>1, <1>2, GoesOnInv, StageFacts DEF PostRefused, Answers

\* The next second of the poll, with the page as it is.
LEMMA PollOnInv ==
    ASSUME PageInv, NEW l \in Loops, Active(l), NEW run \in Runs \cup {NoRun}, PollOn(l, run),
           lastResult = NoResult \/ run = loop[l].run,
           UNCHANGED <<view, lastResult, lastError, panel, statusLabel>>
    PROVE  PageInv'
<1>1. Goes(l, "sleep", run, "none", 1) /\ UNCHANGED page
  BY DEF PollOn, Suspend, page
<1>2. WasPublished(run, "none")'
  BY DEF WasPublished
<1> QED BY <1>1, <1>2, GoesOnInv, StageFacts DEF Answers

\* An error is shown as the execution ends, with the last result behind it.
LEMMA FailsInv ==
    ASSUME PageInv, NEW l \in Loops, Active(l), NEW code \in Errors, ShowError(code), Finish(l),
           UNCHANGED view
    PROVE  PageInv'
<1>1. lastResult \in Results /\ WasPublished(lastResult.run, lastResult.status)
  BY Types DEF PageInv, Published
<1>2. WasPublished(lastResult.run, lastResult.status)'
  BY <1>1 DEF ShowError, WasPublished, AfterReading, AfterCompletion
<1> QED BY <1>1, <1>2, FinishInv DEF ShowError

LEMMA PostReadInv ==
    ASSUME PageInv, NEW l \in Loops, PostRead(l)
    PROVE  PageInv'
<1>1. lastResult = NoResult /\ Active(l) /\ loop[l].run \in Runs \cup {NoRun}
  BY Types DEF PostRead, PageInv, Awaiting, Active, States
<1>2. CASE ShowError("rejected") /\ Finish(l)
  BY <1>1, <1>2, FailsInv DEF Errors, PostRead
<1>3. ASSUME NEW run \in {loop[l].run, NoRun}, PollOn(l, run),
             UNCHANGED <<lastResult, lastError, panel, statusLabel>>
      PROVE  PageInv'
  BY <1>1, <1>3, PollOnInv DEF PostRead
<1>4. CASE GiveUp(l) /\ ShowError("timeout")
  BY <1>1, <1>4, FailsInv DEF Errors, PostRead, GiveUp
<1> QED BY <1>2, <1>3, <1>4 DEF PostRead

LEMMA PollInv ==
    ASSUME PageInv, NEW l \in Loops, Poll(l)
    PROVE  PageInv'
<1>1. Active(l) /\ loop[l].run \in Runs \cup {NoRun}
  BY Types DEF Poll, PageInv, Active, States
<1>2. PICK run : run = loop[l].run
  OBVIOUS
<1>3. Goes(l, "poll", run, "none", FetchTimeout) /\ UNCHANGED <<view, page>>
  BY <1>2 DEF Poll, Suspend
<1>4. WasPublished(run, "none")'
  BY DEF WasPublished
<1> QED BY <1>1, <1>2, <1>3, <1>4, GoesOnInv, StageFacts DEF Answers

\* What is answered was public when it was.
LEMMA PollAnsweredInv ==
    ASSUME PageInv, NEW l \in Loops, PollAnswered(l)
    PROVE  PageInv'
<1>1. Active(l) /\ loop[l].run \in Runs \cup {NoRun} /\ view \in [Runs -> Server!Statuses]
  BY Types DEF PollAnswered, PageInv, Active, States
<1>2. PICK run, answer :
          /\ run = loop[l].run
          /\ answer = IF run \in Server!Shown(view) THEN view[run] ELSE "not_found"
  OBVIOUS
<1>3. Goes(l, "pollBody", run, answer, 0)
  BY <1>2 DEF PollAnswered
<1>4. answer \in Answers /\ (answer # "not_found" => run \in Runs /\ answer = view[run])
  BY <1>1, <1>2 DEF Server!Shown, Server!Statuses, Server!Final, Answers
<1>5. UNCHANGED <<view, page>>
  BY DEF PollAnswered
<1>6. WasPublished(run, answer)'
  <2>1. WasPublished(run, answer)
    BY <1>4 DEF WasPublished, AfterReading, AfterCompletion
  <2> QED BY <1>1, <1>5, <2>1, PublishedStays
<1> QED BY <1>1, <1>2, <1>3, <1>4, <1>5, <1>6, GoesOnInv, StageFacts

\* A reading is rendered as its run is polled on.
LEMMA ShowVerifyingInv ==
    ASSUME PageInv, NEW l \in Loops, loop[l].stage = "pollBody", loop[l].answer = "verifying",
           PollOn(l, loop[l].run), UNCHANGED view,
           ShowVerifying([run |-> loop[l].run, status |-> "verifying"])
    PROVE  PageInv'
<1>1. PICK run : run = loop[l].run
  OBVIOUS
<1>2. /\ loop' \in [Loops -> States] /\ loop'[l].stage = "sleep"
      /\ loop'[l].run = run /\ loop'[l].answer = "none"
      /\ \A m \in Loops \ {l} : loop'[m] = loop[m]
  <2>1. Goes(l, "sleep", run, "none", 1)
    BY <1>1 DEF PollOn, Suspend
  <2>2. loop \in [Loops -> States] /\ run \in Runs \cup {NoRun}
    BY <1>1, Types DEF PageInv, States
  <2> QED BY <2>1, <2>2, GoesFacts, StageFacts DEF Answers
<1>3. run \in Runs /\ AfterReading(run)
  BY <1>1 DEF PageInv, Published, WasPublished
<1>4. /\ lastResult' # NoResult /\ lastResult' \in Results
      /\ lastResult'.run = run /\ lastResult'.status = "verifying"
      /\ lastResult' = [run |-> run, status |-> "verifying"]
  BY <1>1, <1>3, TypedResult DEF ShowVerifying, RenderResultPanel
<1>5. \A m \in Loops : Active(m)' <=> Active(m)
  BY <1>2 DEF Active
<1>6. Active(l) /\ UNCHANGED <<view, running>>
  BY DEF Active, PollOn
<1>7. TypeOK'
  BY <1>2, <1>4, <1>6, Types
     DEF PageInv, TypeOK, ShowVerifying, RenderResultPanel, States, Stages, Answers, Results
<1>8. OneRunAtATime'
  BY <1>5, <1>6 DEF PageInv, OneRunAtATime
<1>9. \A m \in Loops \ {l} : loop'[m].stage = "idle"
  BY <1>2, <1>6 DEF PageInv, OneRunAtATime, Active
<1>10. Awaiting' /\ ShownIsPolled'
  BY <1>2, <1>4, <1>9 DEF Awaiting, ShownIsPolled, Active, ShowVerifying, RenderResultPanel
<1>11. Published'
  <2>1. WasPublished(lastResult.run, lastResult.status)'
    BY <1>3, <1>4, <1>6 DEF WasPublished, AfterReading
  <2>2. ASSUME NEW m \in Loops PROVE WasPublished(loop[m].run, loop[m].answer)'
    BY <1>2, <1>6 DEF WasPublished, PageInv, Published, AfterReading, AfterCompletion
  <2> QED BY <2>1, <2>2, <1>4 DEF Published, ShowVerifying, RenderResultPanel
<1> QED BY <1>7, <1>8, <1>10, <1>11 DEF PageInv

LEMMA PollReadInv ==
    ASSUME PageInv, NEW l \in Loops, PollRead(l)
    PROVE  PageInv'
<1>1. /\ Active(l) /\ loop[l].run \in Runs \cup {NoRun} /\ UNCHANGED view
      /\ loop[l].stage = "pollBody"
  BY Types DEF PollRead, PageInv, Active, States
<1>2. PICK result : result = [run |-> loop[l].run, status |-> loop[l].answer]
  OBVIOUS
<1>3. CASE /\ loop[l].answer = "running" /\ PollOn(l, loop[l].run)
           /\ UNCHANGED <<lastResult, lastError, panel, statusLabel>>
  <2>1. PICK run : run = loop[l].run
    OBVIOUS
  <2>2. PollOn(l, run)
    BY <1>3, <2>1
  <2> QED BY <1>1, <1>3, <2>1, <2>2, PollOnInv
<1>4. CASE GiveUp(l) /\ ShowError("timeout")
  BY <1>1, <1>4, FailsInv DEF Errors, GiveUp
<1>5. CASE IsPending(loop[l].answer) /\ PollOn(l, loop[l].run) /\ ShowVerifying(result)
  BY <1>1, <1>2, <1>5, ShowVerifyingInv DEF IsPending
<1>6. CASE /\ IsPending(loop[l].answer) /\ GiveUp(l)
           /\ lastResult' = result /\ lastError' = "timeout"
           /\ panel' = "error" /\ statusLabel' = "failed"
  <2>1. loop[l].run \in Runs /\ AfterReading(loop[l].run) /\ loop[l].answer = "verifying"
    BY <1>6 DEF IsPending, PageInv, Published, WasPublished
  <2>2. /\ lastResult' \in Results /\ lastResult'.run = loop[l].run
        /\ lastResult'.status = "verifying"
    BY <1>2, <1>6, <2>1, TypedResult
  <2>3. WasPublished(lastResult.run, lastResult.status)'
    BY <1>1, <2>1, <2>2 DEF WasPublished, AfterReading
  <2> QED BY <1>1, <1>6, <2>2, <2>3, FinishInv DEF GiveUp, Errors
<1>7. CASE IsFinal(loop[l].answer) /\ ShowResult(result) /\ Finish(l)
  <2>1. loop[l].run \in Runs /\ AfterCompletion(loop[l].run) /\ loop[l].answer = "completed"
    BY <1>7 DEF IsFinal, PageInv, Published, WasPublished
  <2>2. /\ lastResult' \in Results /\ lastResult'.run = loop[l].run
        /\ lastResult'.status = "completed"
    BY <1>2, <1>7, <2>1, TypedResult DEF ShowResult, RenderResultPanel
  <2>3. WasPublished(lastResult.run, lastResult.status)'
    BY <1>1, <2>1, <2>2 DEF WasPublished, AfterCompletion
  <2> QED BY <1>1, <1>7, <2>2, <2>3, FinishInv DEF ShowResult, RenderResultPanel
<1>8. CASE ShowError("failed") /\ Finish(l)
  BY <1>1, <1>8, FailsInv DEF Errors
<1>9. CASE Throws(l)
  BY <1>1, <1>9, FailsInv DEF Errors, Throws
<1> QED BY <1>2, <1>3, <1>4, <1>5, <1>6, <1>7, <1>8, <1>9 DEF PollRead

LEMMA FetchFailsInv ==
    ASSUME PageInv, NEW l \in Loops, FetchFails(l)
    PROVE  PageInv'
<1>1. Active(l)
  BY StageFacts DEF FetchFails, Active
<1> QED BY <1>1, FailsInv DEF FetchFails, Throws, Errors

-----------------------------------------------------------------------------
(* The language handler, the server and time *)

\* A language switch shows an error only while no run is polled.
LEMMA LanguageChangedInv == PageInv /\ LanguageChanged => PageInv'
<1> SUFFICES ASSUME PageInv, LanguageChanged PROVE PageInv'
  OBVIOUS
<1>1. UNCHANGED <<view, loop, running>>
  BY DEF LanguageChanged
<1>2. lastResult \in Results /\ lastError \in {"none"} \cup Errors
  BY Types DEF PageInv
<1>3. CASE lastResult.status = "verifying" /\ ShowVerifying(lastResult)
  <2> USE DEF ShowVerifying, RenderResultPanel
  <2>1. CASE ~running
    BY <1>1, <1>3, <2>1, NoResultFacts, PageInvAtRest
  <2>2. CASE running
    <3>1. PICK l \in Loops : Active(l)
      BY <2>2 DEF PageInv, OneRunAtATime
    <3>2. lastResult # NoResult
      BY <1>3, NoResultFacts
    <3>3. panel = "result" /\ statusLabel = "verifying"
      BY <3>1, <3>2 DEF PageInv, ShownIsPolled
    <3>4. UNCHANGED <<view, loop, running, lastResult, panel, statusLabel>>
      BY <1>1, <1>3, <3>3
    <3>5. TypeOK'
      BY <1>3, <3>4 DEF PageInv, TypeOK
    <3>6. OneRunAtATime' /\ Awaiting' /\ ShownIsPolled'
      BY <3>4 DEF PageInv, OneRunAtATime, Awaiting, ShownIsPolled, Active
    <3>7. Published'
      BY <3>4 DEF PageInv, Published, WasPublished, AfterReading, AfterCompletion
    <3> QED BY <3>5, <3>6, <3>7 DEF PageInv
  <2> QED BY <2>1, <2>2
<1>4. CASE /\ lastResult.status # "verifying" /\ running /\ statusLabel' = "running"
           /\ UNCHANGED <<lastResult, lastError, panel>>
  <2>1. PICK l \in Loops : Active(l)
    BY <1>4 DEF PageInv, OneRunAtATime
  <2>2. lastResult = NoResult /\ statusLabel = "running"
    <3>1. lastResult # NoResult => lastResult = [run |-> loop[l].run, status |-> "verifying"]
      BY <2>1 DEF PageInv, ShownIsPolled
    <3>2. lastResult = NoResult
      BY <1>4, <3>1
    <3> QED BY <2>1, <3>2 DEF PageInv, ShownIsPolled
  <2>3. UNCHANGED vars
    BY <1>1, <1>4, <2>2 DEF vars, page
  <2> QED BY <2>3 DEF vars, page, PageInv, TypeOK, OneRunAtATime, Awaiting, ShownIsPolled,
                      Published, WasPublished, AfterReading, AfterCompletion, Active
<1>5. CASE ~running /\ lastResult.status = "completed" /\ ShowResult(lastResult)
  BY <1>1, <1>5, NoResultFacts, PageInvAtRest DEF ShowResult, RenderResultPanel
<1>6. CASE ~running /\ lastResult = NoResult /\ lastError # "none" /\ ShowError(lastError)
  BY <1>1, <1>2, <1>6, PageInvAtRest DEF ShowError
<1>7. CASE /\ ~running /\ lastResult = NoResult /\ statusLabel' = "ready"
           /\ UNCHANGED <<lastResult, lastError, panel>>
  <2>1. panel # "result"
    BY <1>7 DEF PageInv, Published
  <2>2. panel \in {"empty", "result", "error"}
    BY Types DEF PageInv
  <2> QED BY <1>1, <1>2, <1>7, <2>1, <2>2, PageInvAtRest
<1> QED BY <1>3, <1>4, <1>5, <1>6, <1>7 DEF LanguageChanged

LEMMA ServerStepInv == PageInv /\ ServerStep => PageInv'
<1> SUFFICES ASSUME PageInv, ServerStep PROVE PageInv'
  OBVIOUS
<1>1. /\ view \in [Runs -> Server!Statuses]
      /\ Server!Next \/ Restarts
      /\ UNCHANGED <<loop, page>>
  BY Types DEF PageInv, ServerStep
<1>2. TypeOK'
  BY <1>1, ServerMoves, RestartMoves DEF PageInv, TypeOK, page
<1>3. OneRunAtATime' /\ Awaiting' /\ ShownIsPolled'
  BY <1>1 DEF PageInv, OneRunAtATime, Awaiting, ShownIsPolled, Active, page
<1>4. WasPublished(lastResult.run, lastResult.status)'
  BY <1>1, PublishedStays DEF PageInv, Published, page
<1>5. ASSUME NEW m \in Loops PROVE WasPublished(loop[m].run, loop[m].answer)'
  BY <1>1, PublishedStays DEF PageInv, Published
<1>6. Published'
  BY <1>1, <1>4, <1>5 DEF PageInv, Published, page
<1> QED BY <1>2, <1>3, <1>6 DEF PageInv

LEMMA TickInv == PageInv /\ Tick => PageInv'
<1> SUFFICES ASSUME PageInv, Tick PROVE PageInv'
  OBVIOUS
<1>1. \A l \in Loops :
          /\ loop'[l] \in States /\ loop'[l].stage = loop[l].stage
          /\ loop'[l].run = loop[l].run /\ loop'[l].answer = loop[l].answer
  <2> SUFFICES ASSUME NEW l \in Loops
               PROVE  /\ loop'[l] \in States /\ loop'[l].stage = loop[l].stage
                      /\ loop'[l].run = loop[l].run /\ loop'[l].answer = loop[l].answer
    OBVIOUS
  <2>1. loop[l] \in States
    BY Types DEF PageInv
  <2>2. CASE ~Active(l)
    BY <2>1, <2>2 DEF Tick
  <2>3. CASE Active(l)
    <3>1. loop'[l] =
              [stage |-> loop[l].stage, run |-> loop[l].run, answer |-> loop[l].answer,
               timer |-> IF loop[l].timer > 0 THEN loop[l].timer - 1 ELSE 0,
               elapsed |-> IF loop[l].elapsed < Deadline THEN loop[l].elapsed + 1
                           ELSE loop[l].elapsed]
      BY <2>3 DEF Tick
    <3>2. (IF loop[l].timer > 0 THEN loop[l].timer - 1 ELSE 0) \in 0..FetchTimeout
      BY <2>1, TimesPositive DEF States
    <3>3. (IF loop[l].elapsed < Deadline THEN loop[l].elapsed + 1 ELSE loop[l].elapsed)
              \in 0..Deadline
      BY <2>1, TimesPositive DEF States
    <3> QED BY <2>1, <3>1, <3>2, <3>3 DEF States
  <2> QED BY <2>2, <2>3
<1>2. loop' \in [Loops -> States] /\ UNCHANGED <<view, page>>
  BY <1>1 DEF Tick
<1>3. TypeOK'
  BY <1>2, Types DEF PageInv, TypeOK, page, States, Stages, Answers
<1>4. OneRunAtATime' /\ Awaiting' /\ ShownIsPolled'
  BY <1>1, <1>2 DEF PageInv, OneRunAtATime, Awaiting, ShownIsPolled, Active, page
<1>5. Published'
  BY <1>1, <1>2 DEF PageInv, Published, WasPublished, AfterReading, AfterCompletion, page
<1> QED BY <1>3, <1>4, <1>5 DEF PageInv

-----------------------------------------------------------------------------
(* Theorems *)

LEMMA Invariance == Spec => []PageInv
<1>1. PageInv /\ UNCHANGED vars => PageInv'
  BY DEF vars, page, PageInv, TypeOK, OneRunAtATime, Awaiting, ShownIsPolled, Published,
     WasPublished, AfterReading, AfterCompletion, Active
<1>2. PageInv /\ [Next]_vars => PageInv'
  <2> SUFFICES ASSUME PageInv, Next PROVE PageInv'
    BY <1>1
  <2>1. ASSUME NEW l \in Loops, Script(l) PROVE PageInv'
    BY <2>1, PostReadInv, PollInv, PollReadInv DEF Script
  <2>2. ASSUME NEW l \in Loops, Network(l) PROVE PageInv'
    BY <2>2, PostAdmittedInv, PostRefusedInv, PollAnsweredInv, FetchFailsInv DEF Network
  <2> QED BY <2>1, <2>2, InvalidDeviceInv, StartInv, LanguageChangedInv, ServerStepInv,
             TickInv DEF Next
<1> QED BY InitInv, <1>2, PTL DEF Spec

\* Every variable of the page stays in its type.
THEOREM TypeCorrect == Spec => []TypeOK
<1>1. PageInv => TypeOK
  BY DEF PageInv
<1> QED BY <1>1, Invariance, PTL

\* playground.js: no second execution of runGoldenPath starts while one is
\* under way, though Retry does not look.
THEOREM OneRunAlways == Spec => []OneRunAtATime
<1>1. PageInv => OneRunAtATime
  BY DEF PageInv
<1> QED BY <1>1, Invariance, PTL

\* playground.js: what is shown while a run is polled is of that run, through
\* every language switch.
THEOREM ShownIsAlwaysPolled == Spec => []ShownIsPolled
<1>1. PageInv => ShownIsPolled
  BY DEF PageInv
<1> QED BY <1>1, Invariance, PTL

\* playground.js and get_run: nothing is shown of a run that the server has
\* not published of it.
THEOREM ShownWasAlwaysPublished == Spec => []ShownWasPublished
<1>1. PageInv => ShownWasPublished
  <2> SUFFICES ASSUME PageInv, panel = "result" PROVE ShownWasPublished
    BY DEF ShownWasPublished
  <2>1. lastResult # NoResult /\ (statusLabel = "done" <=> lastResult.status = "completed")
    BY DEF PageInv, Published
  <2>2. lastResult.status \in {"verifying", "completed"}
    BY <2>1, Types DEF PageInv, Results
  <2>3. WasPublished(lastResult.run, lastResult.status)
    BY DEF PageInv, Published
  <2> QED BY <2>1, <2>2, <2>3 DEF ShownWasPublished, WasPublished, AfterReading, AfterCompletion
<1> QED BY <1>1, Invariance, PTL

=============================================================================

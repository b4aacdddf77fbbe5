--------------------------- MODULE ConsumerStarter ---------------------------
(***************************************************************************)
(* The consumer starters, starters/consumer-python/client.py and           *)
(* starters/consumer-typescript/src/client.ts: processes that run in one   *)
(* directory with --invoke, may crash at any point, and share two files.   *)
(* attempt.json is created exclusively, before the one paid invocation it  *)
(* stands for.  The developer may remove it at any time, which authorizes  *)
(* another charge; the Hub may take a request whose answer is lost.        *)
(***************************************************************************)
EXTENDS Naturals, FiniteSets

CONSTANTS
    Python, TypeScript,   \* processes of the two starters
    AttemptBound          \* bound of the model: attempts ever started

ASSUME StartersDiffer == Python \cap TypeScript = {}
ASSUME BoundNatural == AttemptBound \in Nat

Procs    == Python \cup TypeScript
Attempts == 1..AttemptBound

VARIABLES
    pc,           \* process -> the step of run() it is at
    attempt,      \* process -> the uuid of its attempt, numbered as drawn
    result,       \* process -> what it was answered
    last,         \* attempts started
    marker,       \* attempt.json: the attempt, and whether it is written
    report,       \* report.json: the attempt and its result
    sent,         \* attempts whose invocation the Hub may have received
    removed       \* attempts whose marker the developer removed

vars == <<pc, attempt, result, last, marker, report, sent, removed>>

NoMarker == [attempt |-> 0, written |-> FALSE]
NoReport == [attempt |-> 0, result |-> "none"]
\* Not completed; receipt not verified; receipt of another product or capability
\* (client.py:54 compares no more of the invocation), of a failed one, or of a
\* price over the budget; or none of these.
Results  == {"incomplete", "unverified", "mismatched", "good"}
Rest     == {"idle", "ok"}
Active(p) == pc[p] \notin Rest

Init ==
    /\ pc = [p \in Procs |-> "idle"]
    /\ attempt = [p \in Procs |-> 0]
    /\ result = [p \in Procs |-> "none"]
    /\ last = 0
    /\ marker = NoMarker
    /\ report = NoReport
    /\ sent = {}
    /\ removed = {}

Goes(p, step) == pc' = [pc EXCEPT ![p] = step]
Files == <<marker, report, sent, removed>>
Locals == <<attempt, result, last>>

\* An exception of any kind, or a crash, at any step.
Stops(p) ==
    /\ Active(p)
    /\ Goes(p, "idle")
    /\ UNCHANGED <<Locals, Files>>

\* The process starts and draws its uuid.
Start(p) ==
    /\ ~Active(p)
    /\ last < AttemptBound
    /\ last' = last + 1
    /\ attempt' = [attempt EXCEPT ![p] = last + 1]
    /\ result' = [result EXCEPT ![p] = "none"]
    /\ Goes(p, "start")
    /\ UNCHANGED Files

\* Python searches first: an offer of the one service, from its hub, at a
\* finite price within the budget; otherwise it Stops.
Discovers(p) ==
    /\ p \in Python
    /\ pc[p] = "start"
    /\ Goes(p, "offered")
    /\ UNCHANGED <<Locals, Files>>

ReadyToMark(p) == pc[p] = IF p \in Python THEN "offered" ELSE "start"

OpenMarkerShared(p) ==           \* mutant: open("w") in place of open("x")
    /\ ReadyToMark(p)
    /\ marker' = [attempt |-> attempt[p], written |-> FALSE]
    /\ Goes(p, "opened")
    /\ UNCHANGED <<Locals, report, sent, removed>>

\* Exclusive creation: the file is there, empty; it fails if one is there.
OpenMarker(p) ==
    /\ ReadyToMark(p)
    /\ marker = NoMarker
    /\ marker' = [attempt |-> attempt[p], written |-> FALSE]
    /\ Goes(p, "opened")
    /\ UNCHANGED <<Locals, report, sent, removed>>

MarkerExists(p) ==
    /\ ReadyToMark(p)
    /\ marker # NoMarker
    /\ Goes(p, "idle")
    /\ UNCHANGED <<Locals, Files>>

\* Its contents are written and it is closed; a removed file stays removed.
WriteMarker(p) ==
    /\ pc[p] = "opened"
    /\ marker' = IF marker.attempt = attempt[p]
                 THEN [attempt |-> attempt[p], written |-> TRUE] ELSE marker
    /\ Goes(p, "marked")
    /\ UNCHANGED <<Locals, report, sent, removed>>

\* TypeScript searches only now, within market.run.
SdkDiscovers(p) ==
    /\ p \in TypeScript
    /\ pc[p] = "marked"
    /\ Goes(p, "cleared")
    /\ UNCHANGED <<Locals, Files>>

ReadyAnyway(p) ==                \* mutant: the contents are written afterwards
    pc[p] \in {"opened", "marked", "cleared"}

ReadyToInvoke(p) == pc[p] = IF p \in Python THEN "marked" ELSE "cleared"

\* The one paid request goes out.
Invokes(p) ==
    /\ ReadyToInvoke(p)
    /\ sent' = sent \cup {attempt[p]}
    /\ Goes(p, "sent")
    /\ UNCHANGED <<Locals, marker, report, removed>>

\* The task, with its receipt checked by the SDK; a lost answer is Stops.
Answered(p) ==
    /\ pc[p] = "sent"
    /\ \E r \in Results : result' = [result EXCEPT ![p] = r]
    /\ Goes(p, "answered")
    /\ UNCHANGED <<attempt, last, Files>>

\* Whatever it is, it is saved before it is judged.
SavesReport(p) ==
    /\ pc[p] = "answered"
    /\ report' = [attempt |-> attempt[p], result |-> result[p]]
    /\ Goes(p, "reported")
    /\ UNCHANGED <<Locals, marker, sent, removed>>

\* A crash within the write leaves the file cut short.
TearsReport(p) ==
    /\ pc[p] = "answered"
    /\ report' = [attempt |-> attempt[p], result |-> "none"]
    /\ Goes(p, "idle")
    /\ UNCHANGED <<Locals, marker, sent, removed>>

Trusts(r) == r \in {"good", "mismatched"}   \* mutant: the receipt is not compared

IsTrusted(r) == r = "good"

Succeeds(p) ==
    /\ pc[p] = "reported"
    /\ IsTrusted(result[p])
    /\ Goes(p, "ok")
    /\ UNCHANGED <<Locals, Files>>

\* The developer authorizes another charge.
RemovesMarker ==
    /\ marker # NoMarker
    /\ removed' = removed \cup {marker.attempt}
    /\ marker' = NoMarker
    /\ UNCHANGED <<pc, Locals, report, sent>>

Run(p) ==
    \/ Start(p) \/ Discovers(p) \/ OpenMarker(p) \/ MarkerExists(p) \/ WriteMarker(p)
    \/ SdkDiscovers(p) \/ Invokes(p) \/ Answered(p) \/ SavesReport(p) \/ TearsReport(p)
    \/ Succeeds(p) \/ Stops(p)

Next == RemovesMarker \/ \E p \in Procs : Run(p)

Spec == Init /\ [][Next]_vars

-----------------------------------------------------------------------------
(* Properties *)

\* Every variable stays in its type.
TypeOK ==
    /\ pc \in [Procs -> Rest \cup {"start", "offered", "opened", "marked", "cleared",
                                   "sent", "answered", "reported"}]
    /\ attempt \in [Procs -> 0..last]
    /\ result \in [Procs -> Results \cup {"none"}]
    /\ last \in 0..AttemptBound
    /\ marker \in [attempt : 0..last, written : BOOLEAN]
    /\ report \in [attempt : 0..last, result : Results \cup {"none"}]
    /\ sent \subseteq 1..last
    /\ removed \subseteq 1..last

\* README.md:57-58: attempt.json prevents accidental repeat runs.  Whatever
\* crashes, is lost or runs at the same time, the directory is charged at
\* most once, and once more for each marker the developer removed.
ChargesAreAuthorized == Cardinality(sent) <= 1 + Cardinality(removed)

\* No charge without a trace: an invocation that may have been sent has its
\* attempt written in the marker, or had it in one the developer removed.
SentIsOnRecord ==
    \A a \in sent \ removed : marker = [attempt |-> a, written |-> TRUE]

\* Success is of a good result of the process's own invocation, and saved:
\* report.json is still that result, unless a marker was removed under one of
\* the two processes that wrote it.
SuccessIsSaved ==
    \A p \in Procs : pc[p] = "ok" =>
        /\ attempt[p] \in sent
        /\ report.attempt = attempt[p] => report.result = "good"
        /\ report.attempt # attempt[p] =>
              report.attempt \in removed \/ attempt[p] \in removed

=============================================================================

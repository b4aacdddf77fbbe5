----------------------- MODULE ConsumerStarterProofs -----------------------
(***************************************************************************)
(* Theorems about ConsumerStarter: no charge without a marker, at most one *)
(* for each marker, for any number of processes, crashes and removals.     *)
(***************************************************************************)
EXTENDS ConsumerStarter, FiniteSetTheorems, TLAPS

-----------------------------------------------------------------------------
(* The inductive invariant *)

\* An attempt under way has a number, its own, and so has a marker.
Numbered ==
    /\ \A p \in Procs : Active(p) \/ pc[p] = "ok" => attempt[p] # 0
    /\ \A p, q \in Procs : attempt[p] = attempt[q] /\ attempt[p] # 0 => p = q
    /\ marker.attempt = 0 => marker = NoMarker

OnRecord(a) == a = marker.attempt \/ a \in removed

Closed == {"marked", "cleared", "sent", "answered", "reported", "ok"}
Marked == {"opened"} \cup Closed
Paid   == {"sent", "answered", "reported", "ok"}

\* Who is past the marker has it on record, written as soon as it is closed.
MarkedOnRecord ==
    \A p \in Procs :
        /\ pc[p] \in Marked => OnRecord(attempt[p])
        /\ pc[p] \in Closed /\ attempt[p] \notin removed => marker.written

\* Who has sent its invocation is counted, and what it saved stays, unless a
\* marker was removed.
PaidIsSaved ==
    \A p \in Procs :
        /\ pc[p] \in Paid => attempt[p] \in sent
        /\ pc[p] \in {"reported", "ok"} =>
              /\ report.attempt = attempt[p] => report.result = result[p]
              /\ report.attempt # attempt[p] =>
                    report.attempt \in removed \/ attempt[p] \in removed
        /\ pc[p] = "ok" => result[p] = "good"

ChargeInv == TypeOK /\ Numbered /\ MarkedOnRecord /\ SentIsOnRecord /\ PaidIsSaved

LEMMA InitInv == Init => ChargeInv
BY BoundNatural DEF Init, ChargeInv, TypeOK, Numbered, MarkedOnRecord, SentIsOnRecord,
   PaidIsSaved, Active, Rest, Marked, Closed, Paid, NoMarker, NoReport

-----------------------------------------------------------------------------
(* One lemma for each kind of step *)

\* Steps that only move a process along, before its invocation or back to
\* rest, touch no file and no other process.
Moves(p, step) == Goes(p, step) /\ UNCHANGED <<Locals, Files>>

LEMMA MovesInv ==
    ASSUME ChargeInv, NEW p \in Procs, NEW step, Moves(p, step),
           \/ step = "idle"
           \/ step = "offered" /\ Active(p)
           \/ step = "cleared" /\ pc[p] = "marked"
           \/ step = "ok" /\ pc[p] = "reported" /\ result[p] = "good"
    PROVE  ChargeInv'
<1> USE DEF ChargeInv, Moves, Goes, Locals, Files, Rest
<1>1. TypeOK'
  BY DEF TypeOK
<1>2. Numbered'
  BY DEF TypeOK, Numbered, Active, NoMarker
<1>3. MarkedOnRecord'
  BY DEF TypeOK, MarkedOnRecord, OnRecord, Marked, Closed
<1>4. SentIsOnRecord'
  BY DEF SentIsOnRecord
<1>5. PaidIsSaved'
  BY DEF TypeOK, PaidIsSaved, Paid
<1> QED BY <1>1, <1>2, <1>3, <1>4, <1>5

\* A fresh number differs from every number drawn.
LEMMA StartInv ==
    ASSUME ChargeInv, NEW p \in Procs, Start(p)
    PROVE  ChargeInv'
<1> USE DEF ChargeInv, Start, Goes, Files, Rest
<1>0. \A q \in Procs : attempt[q] # last + 1
  BY BoundNatural DEF TypeOK
<1>1. TypeOK'
  BY BoundNatural DEF TypeOK, Results
<1>2. Numbered'
  BY <1>0, BoundNatural DEF TypeOK, Numbered, Active, NoMarker
<1>3. MarkedOnRecord'
  BY DEF TypeOK, MarkedOnRecord, OnRecord, Marked, Closed
<1>4. SentIsOnRecord'
  BY DEF SentIsOnRecord
<1>5. PaidIsSaved'
  BY DEF TypeOK, PaidIsSaved, Paid
<1> QED BY <1>1, <1>2, <1>3, <1>4, <1>5

\* Nobody else is on record by the marker while there is none.
LEMMA OpenInv ==
    ASSUME ChargeInv, NEW p \in Procs, OpenMarker(p)
    PROVE  ChargeInv'
<1> USE DEF ChargeInv, OpenMarker, Goes, Locals
<1>0. pc[p] \notin Rest /\ attempt[p] # 0
  BY DEF ReadyToMark, Numbered, Active, Rest
<1>1. TypeOK'
  BY DEF TypeOK, Rest
<1>2. Numbered'
  BY <1>0 DEF TypeOK, Numbered, Active, Rest
<1>3. \A q \in Procs : pc[q] \in Marked => attempt[q] \in removed
  BY DEF MarkedOnRecord, OnRecord, Numbered, Active, Rest, NoMarker, Marked, Closed
<1>4. MarkedOnRecord'
  BY <1>3 DEF TypeOK, MarkedOnRecord, OnRecord, Marked, Closed
<1>5. SentIsOnRecord'
  BY DEF SentIsOnRecord, NoMarker
<1>6. PaidIsSaved'
  BY DEF TypeOK, PaidIsSaved, Paid
<1> QED BY <1>1, <1>2, <1>4, <1>5, <1>6

LEMMA WriteInv ==
    ASSUME ChargeInv, NEW p \in Procs, WriteMarker(p)
    PROVE  ChargeInv'
<1> USE DEF ChargeInv, WriteMarker, Goes, Locals
<1>0. attempt[p] # 0
  BY DEF Numbered, Active, Rest
<1>1. TypeOK'
  BY DEF TypeOK, Rest
<1>2. Numbered'
  BY <1>0 DEF TypeOK, Numbered, Active, Rest
<1>3. MarkedOnRecord'
  BY DEF TypeOK, MarkedOnRecord, OnRecord, Marked, Closed
<1>4. SentIsOnRecord'
  <2>1. ASSUME NEW a \in sent \ removed PROVE marker' = [attempt |-> a, written |-> TRUE]
    <3>1. marker = [attempt |-> a, written |-> TRUE]
      BY DEF SentIsOnRecord
    <3>2. marker.attempt = a
      BY <3>1
    <3>3. CASE marker.attempt = attempt[p]
      BY <3>2, <3>3
    <3>4. CASE marker.attempt # attempt[p]
      BY <3>1, <3>4
    <3> QED BY <3>3, <3>4
  <2> QED BY <2>1 DEF SentIsOnRecord
<1>5. PaidIsSaved'
  BY DEF TypeOK, PaidIsSaved, Paid
<1> QED BY <1>1, <1>2, <1>3, <1>4, <1>5

\* The invocation is on record because its process is past the marker.
LEMMA InvokesInv ==
    ASSUME ChargeInv, NEW p \in Procs, Invokes(p)
    PROVE  ChargeInv'
<1> USE DEF ChargeInv, Invokes, Goes, Locals
<1>0. pc[p] \in Closed \ Paid /\ attempt[p] # 0
  BY DEF ReadyToInvoke, Closed, Paid, Numbered, Active, Rest
<1>1. TypeOK'
  <2>1. last \in Nat /\ attempt[p] \in 0..last
    BY BoundNatural DEF TypeOK
  <2>2. attempt[p] \in 1..last
    BY <2>1, <1>0
  <2> QED BY <2>2 DEF TypeOK, Rest
<1>2. Numbered'
  BY <1>0 DEF TypeOK, Numbered, Active, Rest, Paid
<1>3. MarkedOnRecord'
  BY <1>0 DEF TypeOK, MarkedOnRecord, OnRecord, Marked, Closed
<1>4. SentIsOnRecord'
  <2>1. attempt[p] \notin removed => marker = [attempt |-> attempt[p], written |-> TRUE]
    BY <1>0 DEF TypeOK, MarkedOnRecord, OnRecord, Marked
  <2> QED BY <2>1 DEF SentIsOnRecord
<1>5. PaidIsSaved'
  BY <1>0 DEF TypeOK, PaidIsSaved, Paid
<1> QED BY <1>1, <1>2, <1>3, <1>4, <1>5

LEMMA AnsweredInv ==
    ASSUME ChargeInv, NEW p \in Procs, Answered(p)
    PROVE  ChargeInv'
<1> USE DEF ChargeInv, Answered, Goes, Files
<1>1. TypeOK'
  BY DEF TypeOK, Rest
<1>2. Numbered'
  BY DEF TypeOK, Numbered, Active, Rest, NoMarker
<1>3. MarkedOnRecord'
  BY DEF TypeOK, MarkedOnRecord, OnRecord, Marked, Closed
<1>4. SentIsOnRecord'
  BY DEF SentIsOnRecord
<1>5. PaidIsSaved'
  BY DEF TypeOK, PaidIsSaved, Paid
<1> QED BY <1>1, <1>2, <1>3, <1>4, <1>5

\* Two attempts that both have a report to write are not both the marker's.
LEMMA ReportInv ==
    ASSUME ChargeInv, NEW p \in Procs, SavesReport(p) \/ TearsReport(p)
    PROVE  ChargeInv'
<1> USE DEF ChargeInv, SavesReport, TearsReport, Goes, Locals
<1>0. pc[p] = "answered" /\ attempt[p] # 0
  BY DEF Numbered, Active, Rest
<1>1. TypeOK'
  <2>1. /\ attempt[p] \in 0..last /\ result[p] \in Results \cup {"none"}
        /\ pc' \in [Procs -> Rest \cup {"start", "offered", "opened", "marked",
                                       "cleared", "sent", "answered", "reported"}]
    BY DEF TypeOK, Rest
  <2>2. report' \in [attempt : 0..last, result : Results \cup {"none"}]
    BY <2>1
  <2> QED BY <2>1, <2>2 DEF TypeOK
<1>2. Numbered'
  BY <1>0 DEF TypeOK, Numbered, Active, Rest, NoMarker
<1>3. MarkedOnRecord'
  BY DEF TypeOK, MarkedOnRecord, OnRecord, Marked, Closed
<1>4. SentIsOnRecord'
  BY DEF SentIsOnRecord
<1>5. \A q \in Procs \ {p} : pc[q] \in {"reported", "ok"} =>
          /\ attempt[q] # attempt[p]
          /\ attempt[p] \in removed \/ attempt[q] \in removed
  BY <1>0 DEF Numbered, MarkedOnRecord, OnRecord, Marked, Closed
<1>6. PaidIsSaved'
  BY <1>0, <1>5 DEF TypeOK, PaidIsSaved, Paid
<1> QED BY <1>1, <1>2, <1>3, <1>4, <1>6

LEMMA RemovesInv ==
    ASSUME ChargeInv, RemovesMarker
    PROVE  ChargeInv'
<1> USE DEF ChargeInv, RemovesMarker, Locals
<1>1. TypeOK'
  <2>1. last \in Nat /\ marker.attempt \in 0..last /\ marker.attempt # 0
    BY BoundNatural DEF TypeOK, Numbered
  <2>2. marker.attempt \in 1..last /\ 0 \in 0..last
    BY <2>1
  <2> QED BY <2>2 DEF TypeOK, NoMarker
<1>2. Numbered'
  BY DEF Numbered, Active, NoMarker
<1>3. MarkedOnRecord'
  BY DEF MarkedOnRecord, OnRecord, Marked, Closed
<1>4. SentIsOnRecord'
  BY DEF SentIsOnRecord
<1>5. PaidIsSaved'
  BY DEF PaidIsSaved
<1> QED BY <1>1, <1>2, <1>3, <1>4, <1>5

\* Every step preserves the invariant.
LEMMA NextInv == ChargeInv /\ [Next]_vars => ChargeInv'
<1> SUFFICES ASSUME ChargeInv, [Next]_vars PROVE ChargeInv'
  OBVIOUS
<1>1. CASE RemovesMarker
  BY <1>1, RemovesInv
<1>2. ASSUME NEW p \in Procs, Run(p) PROVE ChargeInv'
  <2>1. CASE Start(p)
    BY <2>1, StartInv
  <2>2. CASE Stops(p) \/ MarkerExists(p)
    <3>1. Moves(p, "idle")
      BY <2>2 DEF Stops, MarkerExists, Moves
    <3> QED BY <3>1, MovesInv
  <2>3. CASE Discovers(p)
    <3>1. Moves(p, "offered") /\ Active(p)
      BY <2>3 DEF Discovers, Moves, Active, Rest
    <3> QED BY <3>1, MovesInv
  <2>4. CASE SdkDiscovers(p)
    <3>1. Moves(p, "cleared") /\ pc[p] = "marked"
      BY <2>4 DEF SdkDiscovers, Moves
    <3> QED BY <3>1, MovesInv
  <2>5. CASE Succeeds(p)
    <3>1. Moves(p, "ok") /\ pc[p] = "reported" /\ result[p] = "good"
      BY <2>5 DEF Succeeds, Moves, IsTrusted
    <3> QED BY <3>1, MovesInv
  <2>6. CASE OpenMarker(p)
    BY <2>6, OpenInv
  <2>7. CASE WriteMarker(p)
    BY <2>7, WriteInv
  <2>8. CASE Invokes(p)
    BY <2>8, InvokesInv
  <2>9. CASE Answered(p)
    BY <2>9, AnsweredInv
  <2>10. CASE SavesReport(p) \/ TearsReport(p)
    BY <2>10, ReportInv
  <2> QED BY <1>2, <2>1, <2>2, <2>3, <2>4, <2>5, <2>6, <2>7, <2>8, <2>9, <2>10 DEF Run
<1>3. CASE UNCHANGED vars
  BY <1>3 DEF vars, Locals, ChargeInv, TypeOK, Numbered, MarkedOnRecord, OnRecord,
     SentIsOnRecord, PaidIsSaved, Active, NoMarker
<1> QED BY <1>1, <1>2, <1>3 DEF Next

LEMMA Invariance == Spec => []ChargeInv
BY InitInv, NextInv, PTL DEF Spec

-----------------------------------------------------------------------------
(* The theorems *)

\* Every variable keeps its type, for all sets of processes.
THEOREM TypeCorrect == Spec => []TypeOK
<1>1. ChargeInv => TypeOK
  BY DEF ChargeInv
<1> QED BY <1>1, Invariance, PTL

\* No invocation is sent without its attempt on record, written.
THEOREM SentStaysOnRecord == Spec => []SentIsOnRecord
<1>1. ChargeInv => SentIsOnRecord
  BY DEF ChargeInv
<1> QED BY <1>1, Invariance, PTL

\* A directory is charged at most once, and once more for each marker its
\* developer removed: what was sent and not removed is the marker's attempt.
THEOREM ChargesStayAuthorized == Spec => []ChargesAreAuthorized
<1>1. ChargeInv => ChargesAreAuthorized
  <2> SUFFICES ASSUME ChargeInv PROVE ChargesAreAuthorized
    OBVIOUS
  <2>1. sent \subseteq removed \cup {marker.attempt}
    BY DEF ChargeInv, SentIsOnRecord
  <2>2. IsFiniteSet(removed)
    <3>1. last \in Nat /\ removed \subseteq 1..last
      BY BoundNatural DEF ChargeInv, TypeOK
    <3>2. IsFiniteSet(1..last)
      BY <3>1, FS_Interval
    <3> QED BY <3>1, <3>2, FS_Subset
  <2>3. /\ IsFiniteSet(removed \cup {marker.attempt})
        /\ Cardinality(removed \cup {marker.attempt}) \in
               {Cardinality(removed), Cardinality(removed) + 1}
    BY <2>2, FS_AddElement
  <2>4. Cardinality(sent) <= Cardinality(removed \cup {marker.attempt})
    BY <2>1, <2>3, FS_Subset
  <2>5. Cardinality(removed) \in Nat /\ Cardinality(sent) \in Nat
    BY <2>1, <2>2, <2>3, FS_Subset, FS_CardinalityType
  <2> QED BY <2>3, <2>4, <2>5 DEF ChargesAreAuthorized
<1> QED BY <1>1, Invariance, PTL

\* What a process reports as its success is good, its own, and on disk.
THEOREM SuccessStaysSaved == Spec => []SuccessIsSaved
<1>1. ChargeInv => SuccessIsSaved
  BY DEF ChargeInv, PaidIsSaved, SuccessIsSaved, Paid
<1> QED BY <1>1, Invariance, PTL
=============================================================================

---------------------------- MODULE RunLifecycle ----------------------------
(***************************************************************************)
(* What the run service promises about a run's public result, as the       *)
(* visitor who polls it sees it: nothing, then running, then verifying     *)
(* with a reading, then completed or failed for good, and at last gone.    *)
(* Only a finished result is ever forgotten, and only to make room.        *)
(***************************************************************************)
EXTENDS Naturals, FiniteSets

CONSTANTS Runs,      \* the runs that may ever be admitted
          Capacity   \* finished results are kept while this many fit

VARIABLE view        \* run -> what a poll by its owner shows

Final   == {"completed", "failed"}
Statuses == {"none", "running", "verifying", "gone"} \cup Final
Shown(v) == {r \in Runs : v[r] \notin {"none", "gone"}}

Init == view = [r \in Runs |-> "none"]

\* Run r shows `status' next, and finished results may be forgotten for it,
\* r's own among them.
Shows(r, status) ==
    \E forgotten \in SUBSET Runs :
        LET v == [view EXCEPT ![r] = status]
        IN  /\ \A f \in forgotten : v[f] \in Final
            /\ forgotten # {} =>
                   Cardinality(Shown(v) \ forgotten) >= Capacity
            /\ view' = [q \in Runs |-> IF q \in forgotten THEN "gone" ELSE v[q]]

Admit(r)       == view[r] = "none" /\ Shows(r, "running")
ShowReading(r) == view[r] = "running" /\ Shows(r, "verifying")
Complete(r)    == view[r] = "verifying" /\ Shows(r, "completed")
Fail(r)        == view[r] \in {"running", "verifying"} /\ Shows(r, "failed")

Next == \E r \in Runs : Admit(r) \/ ShowReading(r) \/ Complete(r) \/ Fail(r)

Spec == Init /\ [][Next]_view

=============================================================================

----------------------------- MODULE OneInvoke -----------------------------
(***************************************************************************)
(* What the provider check promises for each challenge: it is issued, it   *)
(* may send the provider one invoke, that invoke ends in a report, and the *)
(* challenge is forgotten only when no invoke is in flight.  Nothing leads *)
(* back, so a challenge never causes a second invoke.                      *)
(***************************************************************************)
CONSTANT Challenges

VARIABLE phase       \* challenge -> how far it has come

Phases == {"none", "open", "invoking", "reported", "gone"}

Init == phase = [c \in Challenges |-> "none"]

Moves(c, from, to) == phase[c] = from /\ phase' = [phase EXCEPT ![c] = to]

Issue(c)  == Moves(c, "none", "open")
Invoke(c) == Moves(c, "open", "invoking")
Report(c) == Moves(c, "invoking", "reported")

\* Expired challenges go, any number of them in one step.
Forget(gone) ==
    /\ \A c \in gone : phase[c] \in {"open", "reported"}
    /\ phase' = [c \in Challenges |-> IF c \in gone THEN "gone" ELSE phase[c]]

Next ==
    \/ \E c \in Challenges : Issue(c) \/ Invoke(c) \/ Report(c)
    \/ \E gone \in SUBSET Challenges : Forget(gone)

Spec == Init /\ [][Next]_phase

=============================================================================

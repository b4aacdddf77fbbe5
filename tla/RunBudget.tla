------------------------------ MODULE RunBudget ------------------------------
(***************************************************************************)
(* Whose limit ends a verification: the budget of _execute_run, which      *)
(* starts with the task, against the time Metis gives itself, which starts *)
(* when it is asked.  RunService with a note of when that was.             *)
(***************************************************************************)
EXTENDS RunService

CONSTANT METIS_CEILING_S      \* Metis' own limit; external, 600 s: less than RUN_TIMEOUT_S

VARIABLE askedAt              \* run -> when Metis was asked; 0 before that

BudgetInit == Init /\ askedAt = [r \in {} |-> 0]

\* The runs whose reading a step publishes, on which run() asks Metis.
Asks == {r \in Admitted : pc[r] = "origin" /\ pc'[r] = "metis"}

BudgetNext ==
    /\ Next
    /\ askedAt' = [r \in 1..last' |-> IF r \in Asks THEN now
                                      ELSE IF r \in Admitted THEN askedAt[r] ELSE 0]

BudgetSpec == BudgetInit /\ [][BudgetNext]_<<vars, askedAt>> /\ Fairness

\* README.md:140-145, "Metis remains the authoritative limit" and "the valid
\* reading and receipt remain visible as PARTIAL": a run that waits for Metis
\* does not lose its reading to the budget before Metis' own limit is over.
ReadingStaysVisible ==
    [][\A r \in DOMAIN RUNS \cap DOMAIN RUNS' :
          pc[r] = "metis" /\ now < askedAt[r] + METIS_CEILING_S =>
              RUNS'[r] # Failed("upstream_timeout")]_<<vars, askedAt>>

=============================================================================

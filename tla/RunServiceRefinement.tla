------------------------ MODULE RunServiceRefinement ------------------------
(***************************************************************************)
(* RunService implements RunLifecycle: the abstract view of a run is the   *)
(* status stored in RUNS.  Stamps, slots, stages, the clock and the        *)
(* reader threads are invisible in it.                                     *)
(***************************************************************************)
EXTENDS RunService

View == [r \in 1..RunBound |->
            IF r \in DOMAIN RUNS THEN RUNS[r].status
            ELSE IF r \in Admitted THEN "gone" ELSE "none"]

Lifecycle == INSTANCE RunLifecycle
                 WITH Runs <- 1..RunBound, Capacity <- MAX_STORED_RUNS, view <- View

\* What a polling visitor sees of any run goes through running, verifying
\* and one final status that never changes again, whatever the tasks, the
\* evictions and the timeouts interleave; completed is reached only from a
\* shown reading.
ImplementsLifecycle == Lifecycle!Spec

\* README.md and the .env.example say what a failed event must not do.
\* "visibility must never turn a successful invoke into a failed run": once
\* the verdict is in, the run ends completed.
EmitNeverFailsRun ==
    [][\A r \in Admitted :
          /\ pc[r] = "emit"
          /\ pc'[r] = "done"
          /\ r \in DOMAIN RUNS'
          => RUNS'[r].status = "completed"]_vars

\* A poll is answered with the result or with 404, never a server error.
PollIsAnswered == \A t \in Readers : rd[t].step # "500"

=============================================================================

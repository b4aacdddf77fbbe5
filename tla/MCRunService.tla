---------------------------- MODULE MCRunService ----------------------------
(* TLC instances of the run service: see the cfg files for the bounds.     *)
EXTENDS RunServiceRefinement, TLC

\* Two visitors are interchangeable; run_poll_race checks an invariant, for
\* which that is sound.
VisitorSymmetry == Permutations(Visitors)

=============================================================================

--------------------------- MODULE MCScheduler ---------------------------
(* Scheduler on small sets of targets and runs.                          *)
EXTENDS Scheduler, TLC

\* Runs are interchangeable: no definition names or orders them.
RunSymmetry == Permutations(Runs)
=============================================================================

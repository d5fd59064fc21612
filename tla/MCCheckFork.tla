----------------------------- MODULE MCCheckFork -----------------------------
(* Model values for the runs of CheckFork.                                 *)
EXTENDS CheckFork, TLC

CONSTANTS t1, t2, t3

CallerSymmetry == Permutations(Caller)

=============================================================================

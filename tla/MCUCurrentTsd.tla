---------------------------- MODULE MCUCurrentTsd ----------------------------
(* Model values for the runs of UCurrentTsd.                               *)
EXTENDS UCurrentTsd, TLC

CONSTANTS t1, t2, t3, tableA, tableB

ModelSymmetry == Permutations(Thread) \cup Permutations(Table)

=============================================================================

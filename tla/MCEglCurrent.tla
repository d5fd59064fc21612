---------------------------- MODULE MCEglCurrent ----------------------------
(* EglCurrent for TLC: two vendors, the first of them with two bindings.   *)
EXTENDS EglCurrent, TLC

CONSTANTS t1, t2, v1, v2, b1, b2, b3

MCVendorOf == b1 :> v1 @@ b2 :> v1 @@ b3 :> v2

ThreadSymmetry == Permutations(Thread)

=============================================================================

---------------------------- MODULE MCGlxContext ----------------------------
(* Model values for the runs of GlxContext.                                *)
EXTENDS GlxContext, TLC

CONSTANTS t1, t2, t3, vendorA, vendorB, c1, c2, dpyA, dpyB

ModelSymmetry ==
  Permutations(Thread) \cup Permutations(Vendor) \cup Permutations(Handle)
    \cup Permutations(Display)

=============================================================================

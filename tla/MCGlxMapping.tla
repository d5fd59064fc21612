---------------------------- MODULE MCGlxMapping -----------------------------
(* Model values for the run of GlxMapping: a display with two screens, for *)
(* which the X server names different vendors.                             *)
EXTENDS GlxMapping, TLC

CONSTANTS t1, t2, vendorA, vendorB, s1, s2, d1, xid1, config1, config2,
  config3

MCDisplayOf == s1 :> d1 @@ s2 :> d1

MCVendorOf == s1 :> vendorA @@ s2 :> vendorB

MCConfigVendor == config1 :> vendorA @@ config2 :> vendorA @@ config3 :> vendorB

ModelSymmetry == Permutations({t1, t2}) \cup Permutations({config1, config2})

=============================================================================

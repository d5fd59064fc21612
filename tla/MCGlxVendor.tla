----------------------------- MODULE MCGlxVendor -----------------------------
(* Model values for the run of GlxVendor: vendorA is the one the           *)
(* environment names for the screen of one display, vendorB is named by    *)
(* the X server for that of the other, and is the fallback.                *)
EXTENDS GlxVendor

CONSTANTS t1, t2, vendorA, vendorB, s1, s2, d1, d2, glxBoth, glFunction

MCGlxOf == vendorA :> {glxBoth} @@ vendorB :> {glxBoth}

MCGlOf == vendorA :> {} @@ vendorB :> {glFunction}

MCDisplayOf == s1 :> d1 @@ s2 :> d2

MCSpecified == s1 :> vendorA @@ s2 :> None

MCQueried == s1 :> <<>> @@ s2 :> <<vendorA, vendorB>>

MCSupports == {<<vendorA, s1>>, <<vendorB, s2>>}

=============================================================================

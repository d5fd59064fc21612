----------------------------- MODULE MCEglDebug -------------------------------
(* Model values for the runs of EglDebug: a vendor with the extension and  *)
(* one without it.                                                         *)
EXTENDS EglDebug, TLC

CONSTANTS t1, t2, vendorA, vendorC, callback1, label1

MCVendorList == <<vendorC, vendorA>>

\* From the default settings, these lead to every set of types.
MCAttributeList == {[type |-> "warn", on |-> TRUE], [type |-> "error", on |-> FALSE]}

ModelSymmetry == Permutations({t1, t2})

===============================================================================

---------------------------- MODULE MCEglDisplay ------------------------------
(* Model values for the run of EglDisplay: no vendors, or two that support   *)
(* X11.  The first is named by two config files and has a device; the other  *)
(* has a default display, with the handle of the first one's device display. *)
EXTENDS EglDisplay, TLC

CONSTANTS t1, t2, vendorA, vendorB, n1, dflt, devA, h1, h2, ext

MCConfigFiles == {<<vendorA, vendorB, vendorA>>, <<>>}

MCDeviceVendor == devA :> vendorA

MCSupported ==
  LET has == <<vendorA, "x11", n1>> :> h1 @@ <<vendorB, "x11", n1>> :> h2
             @@ <<vendorA, "device", devA>> :> h2 @@ <<vendorB, "none", dflt>> :> h2
  IN [a \in Vendor \X Platform \X Native |-> IF a \in DOMAIN has THEN has[a] ELSE None]

MCRecognised == n1 :> "x11" @@ dflt :> "none" @@ devA :> None

MCProvided == ext :> {vendorB}

ModelSymmetry == Permutations({t1, t2})

===============================================================================

SPECIFICATION Spec
CONSTANTS
  t1 = t1
  t2 = t2
  vendorA = vendorA
  vendorB = vendorB
  s1 = s1
  s2 = s2
  d1 = d1
  xid1 = xid1
  config1 = config1
  config2 = config2
  config3 = config3
  None = None
  Thread = {t1, t2}
  Display = {d1}
  Screen = {s1, s2}
  DisplayOf <- MCDisplayOf
  Vendor = {vendorA, vendorB}
  VendorOf <- MCVendorOf
  Fallback = vendorB
  Xid = {xid1}
  Config = {config1, config2, config3}
  ConfigVendor <- MCConfigVendor
  MaxInfos = 3
  MaxFailures = 1
  DestroyInUse = FALSE
  ForeignReuse = FALSE
  LateHook = FALSE
SYMMETRY ModelSymmetry
INVARIANT DisplayInv
INVARIANT RightVendor
INVARIANT OwnDrawablesMapped
INVARIANT ConfigsKnown
INVARIANT StringComplete

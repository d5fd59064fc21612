SPECIFICATION Spec
CONSTANTS
  t1 = t1
  t2 = t2
  vendorA = vendorA
  vendorB = vendorB
  n1 = n1
  dflt = dflt
  devA = devA
  h1 = h1
  h2 = h2
  ext = ext
  None = None
  Thread = {t1, t2}
  Vendor = {vendorA, vendorB}
  ConfigFiles <- MCConfigFiles
  Native = {n1, dflt, devA}
  Device = {devA}
  DeviceVendor <- MCDeviceVendor
  Handle = {h1, h2}
  Supported <- MCSupported
  Recognised <- MCRecognised
  Name = {ext}
  Provided <- MCProvided
  MaxFailures = 1
  MaxForks = 1
  ForkDuringTell = FALSE
  ForkDuringMerge = FALSE
  ForkDuringLoad = FALSE
SYMMETRY ModelSymmetry
INVARIANT ListInv
INVARIANT HandlesKnown
INVARIANT ErrorTellsWhy
INVARIANT AddressesWork
INVARIANT HolderAlive

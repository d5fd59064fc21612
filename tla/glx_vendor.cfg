SPECIFICATION FairSpec
CONSTANTS
  t1 = t1
  t2 = t2
  vendorA = vendorA
  vendorB = vendorB
  s1 = s1
  s2 = s2
  d1 = d1
  d2 = d2
  glxBoth = glxBoth
  glFunction = glFunction
  None = None
  Thread = {t1, t2}
  Vendor = {vendorA, vendorB}
  Screen = {s1, s2}
  Display = {d1, d2}
  DisplayOf <- MCDisplayOf
  Name = {glxBoth, glFunction}
  GlxOf <- MCGlxOf
  GlOf <- MCGlOf
  Specified <- MCSpecified
  Queried <- MCQueried
  Fallback = vendorB
  Supports <- MCSupports
  MaxGenerated = 1
  MaxFailures = 1
  MaxLeftLocked = 1
  EarlyCalls = FALSE
  ForkDuringLoad = FALSE
INVARIANT OnceOnly
INVARIANT EntrypointsResolved
INVARIANT OwnFunction
PROPERTY DecidedStays
PROPERTY CallsReturn
\* A child whose threads all wait for the lock of a vendor's table really stops;
\* CallsReturn says that nothing else stops it.
CHECK_DEADLOCK FALSE

SPECIFICATION Spec
CONSTANTS
  t1 = t1
  t2 = t2
  t3 = t3
  vendorA = vendorA
  vendorB = vendorB
  c1 = c1
  c2 = c2
  dpyA = dpyA
  dpyB = dpyB
  Gone = Gone
  None = None
  Thread = {t1, t2}
  Vendor = {vendorA, vendorB}
  Handle = {c1, c2}
  Display = {dpyA, dpyB}
  MaxForks = 2
SYMMETRY ModelSymmetry
INVARIANT ContextInv
INVARIANT NoFreedInfo
INVARIANT Agreement
INVARIANT ContextKnown
\* A child may wait for ever for a lock that another thread held at the fork.
CHECK_DEADLOCK FALSE

SPECIFICATION Spec
CONSTANTS
  t1 = t1
  t2 = t2
  vendorA = vendorA
  vendorC = vendorC
  callback1 = callback1
  label1 = label1
  None = None
  Gone = Gone
  Thread = {t1, t2}
  VendorList <- MCVendorList
  Supports = {vendorA}
  Callback = {callback1}
  Type = {"error", "warn"}
  ErrorType = {"error"}
  AttributeList <- MCAttributeList
  ThreadLabel = {label1}
  MaxForks = 1
  NewThreadResets = FALSE
SYMMETRY ModelSymmetry
INVARIANT StateInv
INVARIANT VendorsAgree
INVARIANT LabelsAgree
\* A child may wait for ever for a lock that another thread had at the fork.
CHECK_DEADLOCK FALSE

SPECIFICATION Spec
CONSTANTS
  t1 = t1
  t2 = t2
  v1 = v1
  v2 = v2
  b1 = b1
  b2 = b2
  b3 = b3
  Glx = Glx
  None = None
  Thread = {t1, t2}
  Vendor = {v1, v2}
  Binding = {b1, b2, b3}
  VendorOf <- MCVendorOf
  MaxForks = 1
  GlxAfterEgl = TRUE
SYMMETRY ThreadSymmetry
INVARIANT Agreement

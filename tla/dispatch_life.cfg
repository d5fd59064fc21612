SPECIFICATION Spec
CONSTANTS
  t1 = t1
  t2 = t2
  t3 = t3
  glx = glx
  egl = egl
  glxA = glxA
  glxB = glxB
  eglA = eglA
  libGL = libGL
  glClear = glClear
  glFoo = glFoo
  glBar = glBar
  Local = Local
  Default = Default
  None = None
  Api <- MCApi
  StaticProc = {glClear}
  PatchingDisabled = FALSE
  Thread = {t1, t2}
  Vendor = {glxA, eglA}
  PatchVendor = {glxA, eglA}
  Winsys = {glx, egl}
  StubLib = {libGL}
  MayUnload = {glx, libGL}
  ProcName = {glClear}
  MaxDynamic = 1
  MaxForks = 2
  RestoreMayFail = TRUE
  ResetWhileCurrent = FALSE
SYMMETRY ThreadSymmetry
CHECK_DEADLOCK FALSE
INVARIANT OwnershipInv
INVARIANT TableInv
PROPERTY ImplementsOwnership

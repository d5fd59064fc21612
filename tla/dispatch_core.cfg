SPECIFICATION Spec
CONSTANTS
  t1 = t1
  t2 = t2
  t3 = t3
  glx = glx
  egl = egl
  glxA = glxA
  glxB = glxB
  eglA = eglA
  libGL = libGL
  glClear = glClear
  glFoo = glFoo
  glBar = glBar
  Local = Local
  Default = Default
  None = None
  Api <- MCApi
  StaticProc = {glClear}
  PatchingDisabled = FALSE
  Thread = {t1, t2, t3}
  Vendor = {glxA, glxB, eglA}
  PatchVendor = {glxA, eglA}
  Winsys = {glx, egl}
  StubLib = {libGL}
  MayUnload = {glx}
  ProcName = {glClear, glFoo, glBar}
  MaxDynamic = 1
  MaxForks = 0
  RestoreMayFail = FALSE
  ResetWhileCurrent = FALSE
SYMMETRY ThreadSymmetry
INVARIANT CodeInv
INVARIANT OwnCodeOnly
INVARIANT RefusalJustified
INVARIANT CurrentTableComplete
INVARIANT NoAssertFails
PROPERTY CodeChangesOnlyUnused

---------------------------- MODULE MCGLdispatch ----------------------------
(* Model values for the runs of GLdispatch.                                *)
EXTENDS GLdispatch, TLC

CONSTANTS t1, t2, t3, glx, egl, glxA, glxB, eglA, libGL, glClear, glFoo, glBar

\* glxA and glxB are GLX vendors, eglA an EGL vendor.
MCApi == [v \in Vendor |-> IF v \in {glxA, glxB} THEN glx ELSE egl]

ThreadSymmetry == Permutations(Thread)

=============================================================================

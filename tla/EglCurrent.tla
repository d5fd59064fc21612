------------------------------ MODULE EglCurrent ------------------------------
(***************************************************************************)
(* The per-thread state of libEGL (src/EGL/libegl.c, libeglcurrent.c):     *)
(* eglMakeCurrent in all its cases, eglReleaseThread, eglBindAPI and       *)
(* eglGetError, with threads that exit, forks, and libGLX in the same      *)
(* process.                                                                *)
(*                                                                         *)
(* A thread has two structures: the thread state, with the last error and  *)
(* the client API, and, while it has an EGL context, the API state, which  *)
(* libGLdispatch points to.  Both belong to one thread, so that a call is  *)
(* one step for each access to libGLdispatch, with the vendor calls next   *)
(* to it.  libGLdispatch is the abstract one of EntrypointOwnership; the   *)
(* vendor libraries are external.                                          *)
(***************************************************************************)
EXTENDS Integers

CONSTANTS
  Thread,
  Vendor,
  Binding,          \* a display with a context and its surfaces
  VendorOf,         \* the vendor of each binding's display
  Glx,              \* libGLX's vendor, as libGLdispatch knows it
  MaxForks,         \* bound on the number of forks
  GlxAfterEgl,      \* whether a child may call its first GLX function after it
                    \* has called EGL
  None

Apis == {"gl", "gles"}
DefaultApi == "gles"

\* __EGLdispatchThreadState and __EGLThreadAPIState
ApiState == [currentVendor: Vendor \cup {None}, binding: Binding \cup {None}]
ThreadState == [lastError: BOOLEAN, lastVendor: Vendor \cup {None},
                currentClientApi: Apis]

ASSUME ConstantsAssumption ==
  /\ VendorOf \in [Binding -> Vendor]
  /\ MaxForks \in Nat
  /\ GlxAfterEgl \in BOOLEAN
  /\ Glx \notin Vendor
  /\ None \notin Thread \cup Vendor \cup Binding \cup {Glx} \cup ApiState \cup ThreadState

VARIABLES
  apiState,    \* the __EGLdispatchThreadState of each thread, or None
  threadState, \* the __EGLThreadAPIState of each thread, or None
  pc,          \* where each thread is: see TypeOK
  new,         \* the binding that a thread in eglMakeCurrent is to get, or None
  current,     \* the vendor of each thread's libGLdispatch state, or None
  owner,       \* the vendor that owns the entrypoints, or None
  vendorCur,   \* what a vendor has current in a thread, or None
  vendorErr,   \* the vendors whose last function in a thread has failed
  vendorApi,   \* the client API that the vendors know of each thread
  eglFork,     \* libEGL's CheckFork has yet to see a fork
  glxFork,     \* libGLX's CheckFork has yet to see a fork
  forks,
  failed       \* history: how the thread's last EGL function ended

stateVars    == <<apiState, threadState>>
callVars     == <<pc, new>>
dispatchVars == <<current, owner>>
vendorVars   == <<vendorCur, vendorErr, vendorApi>>
forkVars     == <<eglFork, glxFork, forks>>
vars == <<stateVars, callVars, dispatchVars, vendorVars, forkVars, failed>>

Dispatch == INSTANCE EntrypointOwnership WITH Vendor <- Vendor \cup {Glx}

Init ==
  /\ apiState = [t \in Thread |-> None]
  /\ threadState = [t \in Thread |-> None]
  /\ pc = [t \in Thread |-> "idle"]
  /\ new = [t \in Thread |-> None]
  /\ Dispatch!Init
  /\ vendorCur = [tv \in Thread \X Vendor |-> None]
  /\ vendorErr = [t \in Thread |-> {}]
  /\ vendorApi = [t \in Thread |-> DefaultApi]
  /\ eglFork = FALSE
  /\ glxFork = FALSE
  /\ forks = 0
  /\ failed = [t \in Thread |-> "no"]

-----------------------------------------------------------------------------
(* Errors.                                                                 *)

\* __eglGetCurrentThreadAPIState(EGL_TRUE)
Created(state) ==
  IF state = None
  THEN [lastError |-> FALSE, lastVendor |-> None, currentClientApi |-> DefaultApi]
  ELSE state

\* __eglSetError, with or without an error.
SetError(state, error) ==
  IF state = None /\ ~error THEN None
  ELSE [Created(state) EXCEPT !.lastError = error, !.lastVendor = None]

\* __eglSetLastVendor
SetLastVendor(state, v) ==
  [Created(state) EXCEPT !.lastError = FALSE, !.lastVendor = v]

\* What eglGetError would return in the thread.
Reported(t) ==
  /\ threadState[t] # None
  /\ IF threadState[t].lastVendor # None
     THEN threadState[t].lastVendor \in vendorErr[t]
     ELSE threadState[t].lastError

-----------------------------------------------------------------------------
(* The vendor libraries.                                                   *)

VendorReturns(t, v, success) ==
  vendorErr' = [vendorErr EXCEPT ![t] = IF success THEN @ \ {v} ELSE @ \cup {v}]

VendorSet(t, v, b) == vendorCur' = [vendorCur EXCEPT ![<<t, v>>] = b]

\* The vendors forget the thread.
VendorsForget(threads) ==
  /\ vendorCur' = [tv \in Thread \X Vendor |-> IF tv[1] \in threads THEN None
                                               ELSE vendorCur[tv]]
  /\ vendorErr' = [t \in Thread |-> IF t \in threads THEN {} ELSE vendorErr[t]]
  /\ vendorApi' = [t \in Thread |-> IF t \in threads THEN DefaultApi ELSE vendorApi[t]]

-----------------------------------------------------------------------------
(* Functions that leave the current context alone.                         *)

\* __eglEntrypointCommon or the threadInit of a dispatch stub: the child of a
\* fork is reset first.
CanCall(t) == pc[t] = "idle" /\ ~eglFork

\* libEGL reports an error of its own.  eglBindAPI and eglQueryDisplayAttrib do
\* so without a look for a fork.
Reject(t) ==
  /\ pc[t] = "idle"
  /\ threadState' = [threadState EXCEPT ![t] = SetError(@, TRUE)]
  /\ failed' = [failed EXCEPT ![t] = "yes"]
  /\ UNCHANGED <<apiState, callVars, dispatchVars, vendorVars, forkVars>>

\* libEGL answers by itself, or eglMakeCurrent has nothing to change.
Answer(t) ==
  /\ CanCall(t)
  /\ threadState' = [threadState EXCEPT ![t] = SetError(@, FALSE)]
  /\ failed' = [failed EXCEPT ![t] = "no"]
  /\ UNCHANGED <<apiState, callVars, dispatchVars, vendorVars, forkVars>>

\* A function of a display or a device goes to its vendor.
VendorAnswers(t, v) ==
  /\ CanCall(t)
  /\ threadState' = [threadState EXCEPT ![t] = SetLastVendor(@, v)]
  /\ \E success \in BOOLEAN :
       /\ VendorReturns(t, v, success)
       /\ failed' = [failed EXCEPT ![t] = IF success THEN "no" ELSE "yes"]
  /\ UNCHANGED <<apiState, callVars, dispatchVars, vendorCur, vendorApi, forkVars>>

\* eglGetPlatformDisplay asks one vendor after the other, takes the error of
\* each one that refuses, and reports one only if all of them have one.
GetPlatformDisplay(t, refusing, withError) ==
  /\ CanCall(t)
  /\ withError \subseteq refusing
  /\ LET error == withError = Vendor IN
     /\ threadState' = [threadState EXCEPT ![t] = SetError(@, error)]
     /\ failed' = [failed EXCEPT ![t] = IF error THEN "yes" ELSE "no"]
  /\ \E answering \in SUBSET (Vendor \ refusing) :
       /\ refusing = Vendor \/ answering # {}
       /\ \A v, w \in answering : v = w
       /\ vendorErr' = [vendorErr EXCEPT ![t] = @ \ (refusing \cup answering)]
  /\ UNCHANGED <<apiState, callVars, dispatchVars, vendorCur, vendorApi, forkVars>>

\* eglBindAPI, for an API that is not the current one.
BindAPI(t, api) ==
  /\ CanCall(t)
  /\ api # Created(threadState[t]).currentClientApi
  /\ threadState' = [threadState EXCEPT ![t] =
                       [Created(SetError(@, FALSE)) EXCEPT !.currentClientApi = api]]
  /\ vendorApi' = [vendorApi EXCEPT ![t] = api]
  /\ failed' = [failed EXCEPT ![t] = "no"]
  /\ UNCHANGED <<apiState, callVars, dispatchVars, vendorCur, vendorErr, forkVars>>

\* Variant: the error of a vendor is not looked at again, but not forgotten.
GetError_KeepsVendor(t) ==
  /\ CanCall(t)
  /\ threadState[t] # None
  /\ vendorErr' = [vendorErr EXCEPT ![t] = @ \ {threadState[t].lastVendor}]
  /\ threadState' = [threadState EXCEPT ![t].lastVendor = None]
  /\ failed' = [failed EXCEPT ![t] = "no"]
  /\ UNCHANGED <<apiState, callVars, dispatchVars, vendorCur, vendorApi, forkVars>>

\* eglGetError
GetError(t) ==
  /\ CanCall(t)
  /\ threadState[t] # None
  /\ vendorErr' = [vendorErr EXCEPT ![t] = @ \ {threadState[t].lastVendor}]
  /\ threadState' = [threadState EXCEPT ![t].lastVendor = None, ![t].lastError = FALSE]
  /\ failed' = [failed EXCEPT ![t] = "no"]
  /\ UNCHANGED <<apiState, callVars, dispatchVars, vendorCur, vendorApi, forkVars>>

-----------------------------------------------------------------------------
(* eglMakeCurrent.                                                         *)

HasContext(t) == current[t] \in Vendor

\* The end of a call.
EndCall(t, how) ==
  /\ pc' = [pc EXCEPT ![t] = "idle"]
  /\ new' = [new EXCEPT ![t] = None]
  /\ failed' = [failed EXCEPT ![t] = how]

\* The start of InternalMakeCurrentDispatch: the API state is created empty.
StartAcquire(t, b) ==
  /\ apiState' = [apiState EXCEPT ![t] = [currentVendor |-> None, binding |-> None]]
  /\ pc' = [pc EXCEPT ![t] = "dispatch"]
  /\ new' = [new EXCEPT ![t] = b]

\* No context is current.
AcquireFirst(t, b) ==
  /\ CanCall(t)
  /\ current[t] = None
  /\ threadState' = [threadState EXCEPT ![t] = SetError(@, FALSE)]
  /\ StartAcquire(t, b)
  /\ UNCHANGED <<dispatchVars, vendorVars, forkVars, failed>>

\* InternalMakeCurrentVendor, for a binding of the same vendor.
SwitchBinding(t, b) ==
  LET v == apiState[t].currentVendor IN
  /\ CanCall(t)
  /\ HasContext(t)
  /\ VendorOf[b] = v /\ apiState[t].binding # b
  /\ threadState' = [threadState EXCEPT ![t] = SetLastVendor(@, v)]
  /\ \/ /\ VendorSet(t, v, b)
        /\ VendorReturns(t, v, TRUE)
        /\ apiState' = [apiState EXCEPT ![t].binding = b]
        /\ EndCall(t, "no")
     \/ /\ VendorReturns(t, v, FALSE)
        /\ EndCall(t, "yes")
        /\ UNCHANGED <<apiState, vendorCur>>
  /\ UNCHANGED <<dispatchVars, vendorApi, forkVars>>

\* InternalLoseCurrent, on the way to a binding of another vendor, or to none.
\* The vendor may refuse.
LoseCurrent(t, b) ==
  LET v == apiState[t].currentVendor IN
  /\ CanCall(t)
  /\ HasContext(t)
  /\ b # None => VendorOf[b] # v
  /\ threadState' = [threadState EXCEPT ![t] = SetLastVendor(@, v)]
  /\ \/ /\ VendorSet(t, v, None)
        /\ VendorReturns(t, v, TRUE)
        /\ Dispatch!Release({t})
        /\ IF b = None
           THEN apiState' = [apiState EXCEPT ![t] = None] /\ EndCall(t, "no")
           ELSE StartAcquire(t, b) /\ UNCHANGED failed
     \/ /\ VendorReturns(t, v, FALSE)
        /\ EndCall(t, "yes")
        /\ UNCHANGED <<apiState, vendorCur, dispatchVars>>
  /\ UNCHANGED <<vendorApi, forkVars>>

\* __glDispatchMakeCurrent, which may fail.
DispatchMakeCurrent(t) ==
  LET v == VendorOf[new[t]] IN
  /\ pc[t] = "dispatch"
  /\ \/ /\ Dispatch!Acquire(t, v)
        /\ apiState' = [apiState EXCEPT ![t].currentVendor = v]
        /\ pc' = [pc EXCEPT ![t] = "vendor"]
        /\ UNCHANGED <<new, failed>>
     \/ /\ Dispatch!ChangeOwner \/ UNCHANGED dispatchVars
        /\ apiState' = [apiState EXCEPT ![t] = None]
        /\ EndCall(t, "by libGLdispatch")
  /\ UNCHANGED <<threadState, vendorVars, forkVars>>

\* Variant: when the vendor refuses, libGLdispatch keeps the API state.
VendorMakeCurrent_KeepsDispatch(t) ==
  LET v == apiState[t].currentVendor IN
  /\ pc[t] = "vendor"
  /\ threadState' = [threadState EXCEPT ![t] = SetLastVendor(@, v)]
  /\ \/ /\ VendorSet(t, v, new[t])
        /\ VendorReturns(t, v, TRUE)
        /\ apiState' = [apiState EXCEPT ![t].binding = new[t]]
        /\ EndCall(t, "no")
     \/ /\ VendorReturns(t, v, FALSE)
        /\ apiState' = [apiState EXCEPT ![t] = None]
        /\ EndCall(t, "yes")
        /\ UNCHANGED vendorCur
  /\ UNCHANGED <<dispatchVars, vendorApi, forkVars>>

\* The call into the vendor library that follows.
VendorMakeCurrent(t) ==
  LET v == apiState[t].currentVendor IN
  /\ pc[t] = "vendor"
  /\ threadState' = [threadState EXCEPT ![t] = SetLastVendor(@, v)]
  /\ \/ /\ VendorSet(t, v, new[t])
        /\ VendorReturns(t, v, TRUE)
        /\ apiState' = [apiState EXCEPT ![t].binding = new[t]]
        /\ EndCall(t, "no")
        /\ UNCHANGED dispatchVars
     \/ /\ VendorReturns(t, v, FALSE)
        /\ Dispatch!Release({t})
        /\ apiState' = [apiState EXCEPT ![t] = None]
        /\ EndCall(t, "yes")
        /\ UNCHANGED vendorCur
  /\ UNCHANGED <<vendorApi, forkVars>>

-----------------------------------------------------------------------------
(* eglReleaseThread, threads that exit, and forks.                         *)

\* Variant: only the vendor of the current context is called.
ReleaseThread_CurrentVendorOnly(t) ==
  /\ pc[t] = "idle"
  /\ threadState[t] # None
  /\ IF HasContext(t)
     THEN /\ VendorsForget({t})
          /\ Dispatch!Release({t})
          /\ apiState' = [apiState EXCEPT ![t] = None]
     ELSE UNCHANGED <<vendorVars, dispatchVars, apiState>>
  /\ threadState' = [threadState EXCEPT ![t] = None]
  /\ failed' = [failed EXCEPT ![t] = "no"]
  /\ UNCHANGED <<callVars, forkVars>>

\* eglReleaseThread does not look for a fork.  The vendor of the current context
\* may refuse; the other vendors must not.
ReleaseThread(t) ==
  /\ pc[t] = "idle"
  /\ threadState[t] # None
  /\ \/ /\ VendorsForget({t})
        /\ IF HasContext(t)
           THEN Dispatch!Release({t}) /\ apiState' = [apiState EXCEPT ![t] = None]
           ELSE UNCHANGED <<dispatchVars, apiState>>
        /\ threadState' = [threadState EXCEPT ![t] = None]
        /\ failed' = [failed EXCEPT ![t] = "no"]
     \/ /\ HasContext(t)
        /\ VendorReturns(t, apiState[t].currentVendor, FALSE)
        /\ threadState' = [threadState EXCEPT ![t].lastVendor = apiState[t].currentVendor]
        /\ failed' = [failed EXCEPT ![t] = "yes"]
        /\ UNCHANGED <<apiState, dispatchVars, vendorCur, vendorApi>>
  /\ UNCHANGED <<callVars, forkVars>>

\* A thread exits: ThreadDestroyed of libGLdispatch, which calls libEGL's
\* OnDispatchThreadDestroyed, OnThreadDestroyed, and what the vendors have.
ThreadExit(t) ==
  /\ pc[t] = "idle"
  /\ Dispatch!Release({t})
  /\ apiState' = [apiState EXCEPT ![t] = None]
  /\ threadState' = [threadState EXCEPT ![t] = None]
  /\ VendorsForget({t})
  /\ failed' = [failed EXCEPT ![t] = "no"]
  /\ UNCHANGED <<callVars, forkVars>>

\* A fork, seen from the child: the calling thread is left.  libGLX has nothing
\* to reset if the parent has never called a GLX function.
Fork(t) ==
  /\ forks < MaxForks
  /\ pc[t] = "idle"
  /\ forks' = forks + 1
  /\ eglFork' = TRUE
  /\ glxFork' \in {TRUE, \E u \in Thread : current[u] = Glx}
  /\ apiState' = [u \in Thread |-> IF u = t THEN apiState[u] ELSE None]
  /\ threadState' = [u \in Thread |-> IF u = t THEN threadState[u] ELSE None]
  /\ pc' = [u \in Thread |-> "idle"]
  /\ new' = [u \in Thread |-> None]
  /\ Dispatch!Release(Thread \ {t})
  /\ VendorsForget(Thread \ {t})
  /\ failed' = [u \in Thread |-> IF u = t THEN failed[u] ELSE "no"]

\* Variant: libGLdispatch keeps pointing to the freed API state.
ResetOnFork_KeepsDispatch(t) ==
  /\ pc[t] = "idle"
  /\ eglFork
  /\ \A u \in Thread \ {t} : apiState[u] = None /\ threadState[u] = None
  /\ eglFork' = FALSE
  /\ apiState' = [u \in Thread |-> None]
  /\ threadState' = [u \in Thread |-> None]
  /\ VendorsForget({t})
  /\ failed' = [failed EXCEPT ![t] = "no"]
  /\ UNCHANGED <<callVars, dispatchVars, glxFork, forks>>

\* __eglResetOnFork, in the first EGL function of the child that looks for a
\* fork.  The thread that forked calls it; the vendors have noticed the fork.
ResetOnFork(t) ==
  /\ pc[t] = "idle"
  /\ eglFork
  /\ \A u \in Thread \ {t} : apiState[u] = None /\ threadState[u] = None
  /\ eglFork' = FALSE
  /\ apiState' = [u \in Thread |-> None]
  /\ threadState' = [u \in Thread |-> None]
  /\ Dispatch!Release({t})
  /\ VendorsForget({t})
  /\ failed' = [failed EXCEPT ![t] = "no"]
  /\ UNCHANGED <<callVars, glxFork, forks>>

-----------------------------------------------------------------------------
(* libGLX in the same process: see GlxContext.                             *)

GlxMakeCurrent(t) ==
  /\ pc[t] = "idle"
  /\ ~glxFork
  /\ Dispatch!Acquire(t, Glx)
  /\ UNCHANGED <<stateVars, callVars, vendorVars, forkVars, failed>>

GlxLoseCurrent(t) ==
  /\ pc[t] = "idle"
  /\ ~glxFork
  /\ current[t] = Glx
  /\ Dispatch!Release({t})
  /\ UNCHANGED <<stateVars, callVars, vendorVars, forkVars, failed>>

\* __glXResetOnFork calls __glDispatchReset, too.
GlxResetOnFork(t) ==
  /\ pc[t] = "idle"
  /\ glxFork
  /\ eglFork \/ GlxAfterEgl
  /\ \A u \in Thread \ {t} : current[u] = None
  /\ glxFork' = FALSE
  /\ Dispatch!Release({t})
  /\ UNCHANGED <<stateVars, callVars, vendorVars, eglFork, forks, failed>>

-----------------------------------------------------------------------------

ErrorStep(t) ==
  \/ Reject(t) \/ Answer(t) \/ GetError(t)
  \/ \E v \in Vendor : VendorAnswers(t, v)
  \/ \E refusing, withError \in SUBSET Vendor : GetPlatformDisplay(t, refusing, withError)
  \/ \E api \in Apis : BindAPI(t, api)

MakeCurrentStep(t) ==
  \/ \E b \in Binding : AcquireFirst(t, b) \/ SwitchBinding(t, b)
  \/ \E b \in Binding \cup {None} : LoseCurrent(t, b)
  \/ DispatchMakeCurrent(t) \/ VendorMakeCurrent(t)

LifeStep(t) == ReleaseThread(t) \/ ThreadExit(t) \/ Fork(t) \/ ResetOnFork(t)

GlxStep(t) == GlxMakeCurrent(t) \/ GlxLoseCurrent(t) \/ GlxResetOnFork(t)

Next == \E t \in Thread : ErrorStep(t) \/ MakeCurrentStep(t) \/ LifeStep(t) \/ GlxStep(t)

Spec == Init /\ [][Next]_vars

-----------------------------------------------------------------------------
(* Correctness properties.                                                 *)

\* The type invariant.
TypeOK ==
  /\ apiState \in [Thread -> ApiState \cup {None}]
  /\ threadState \in [Thread -> ThreadState \cup {None}]
  /\ pc \in [Thread -> {"idle", "dispatch", "vendor"}]
  /\ new \in [Thread -> Binding \cup {None}]
  /\ current \in [Thread -> Vendor \cup {Glx, None}]
  /\ owner \in Vendor \cup {Glx, None}
  /\ vendorCur \in [Thread \X Vendor -> Binding \cup {None}]
  /\ vendorErr \in [Thread -> SUBSET Vendor]
  /\ vendorApi \in [Thread -> Apis]
  /\ eglFork \in BOOLEAN
  /\ glxFork \in BOOLEAN
  /\ forks \in 0..MaxForks
  /\ failed \in [Thread -> {"no", "yes", "by libGLdispatch"}]

\* "we have to make sure libEGL, libGLdispatch, and the vendor libraries all
\* agree on what the current context is": so it is between any two EGL calls of a
\* thread, whatever failed in the last one.
Agreement ==
  \A t \in Thread : CanCall(t) =>
    /\ (apiState[t] = None) <=> ~HasContext(t)
    /\ apiState[t] # None => apiState[t].currentVendor = current[t]
    /\ \A v \in Vendor :
         vendorCur[<<t, v>>] = IF current[t] = v THEN apiState[t].binding ELSE None

\* eglGetError tells whether the last EGL function failed, whichever library
\* noticed it and whichever vendor it went to.  Only when libGLdispatch refuses a
\* context does eglMakeCurrent fail without an error (libegl.c:624), and then the
\* error is none: it is never that of an earlier function or of the old vendor.
ErrorOfLastCall ==
  \A t \in Thread : CanCall(t) => (Reported(t) <=> failed[t] = "yes")

\* The client API that eglQueryAPI returns is the one that the vendors work with,
\* also after eglReleaseThread, which drops libEGL's record of it.
ApiAgreement ==
  \A t \in Thread : ~eglFork => Created(threadState[t]).currentClientApi = vendorApi[t]

\* A thread with an EGL context has a thread state: eglReleaseThread looks for
\* that first, and asserts in the end that no context is left.
ContextHasThreadState ==
  \A t \in Thread : pc[t] = "idle" /\ HasContext(t) => threadState[t] # None

-----------------------------------------------------------------------------
(* The inductive invariant of the proofs in EglCurrent_proof.              *)

\* The API state of a thread that has an EGL context, or is about to get one,
\* exists and names the vendor.
Owned(t) ==
  /\ pc[t] = "idle" /\ HasContext(t) =>
       /\ apiState[t] \in ApiState /\ apiState[t].currentVendor = current[t]
       /\ threadState[t] # None
  /\ pc[t] # "idle" => new[t] \in Binding /\ apiState[t] \in ApiState
  /\ pc[t] = "dispatch" => current[t] = None
  /\ pc[t] = "vendor" => /\ current[t] = VendorOf[new[t]]
                         /\ apiState[t].currentVendor = current[t]

\* At each point of an EGL call, the states that the code goes on to use without a
\* look exist and agree with libGLdispatch (libegl.c:757), and in a child that has
\* not called EGL yet, no thread is in an EGL function.
TypeInv ==
  /\ TypeOK
  /\ \A t \in Thread : Owned(t)
  /\ eglFork => \A t \in Thread : pc[t] = "idle"

================================================================================

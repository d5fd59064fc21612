---------------------------- MODULE EglCurrent_proof ----------------------------
(***************************************************************************)
(* Proofs about EglCurrent, for any threads, vendors and bindings.         *)
(***************************************************************************)
EXTENDS EglCurrent, TLAPS

-----------------------------------------------------------------------------
(* Type correctness.                                                       *)

\* A thread state that exists is one, whatever error is recorded in it.
LEMMA ErrorType ==
  ASSUME NEW s \in ThreadState \cup {None}
  PROVE  /\ Created(s) \in ThreadState
         /\ \A e \in BOOLEAN : SetError(s, e) \in ThreadState \cup {None}
         /\ \A e \in BOOLEAN : s # None => SetError(s, e) # None
         /\ SetError(s, TRUE) # None
         /\ \A v \in Vendor : SetLastVendor(s, v) \in ThreadState
         /\ \A v \in Vendor : SetLastVendor(s, v) # None
<1>1. Created(s) \in ThreadState
  BY ConstantsAssumption DEF Created, ThreadState, Apis, DefaultApi
<1>2. \A e \in BOOLEAN :
        [Created(s) EXCEPT !.lastError = e, !.lastVendor = None] \in ThreadState
  BY <1>1 DEF ThreadState
<1>3. \A v \in Vendor :
        [Created(s) EXCEPT !.lastError = FALSE, !.lastVendor = v] \in ThreadState
  BY <1>1 DEF ThreadState
<1> QED
  BY <1>1, <1>2, <1>3, ConstantsAssumption DEF SetError, SetLastVendor

\* The initial state is well typed.
LEMMA TypeInit == Init => TypeOK
<1> SUFFICES ASSUME Init PROVE TypeOK
  OBVIOUS
<1>1. forks \in 0..MaxForks
  BY ConstantsAssumption DEF Init
<1>2. vendorCur \in [Thread \X Vendor -> Binding \cup {None}]
  BY DEF Init
<1>3. vendorApi \in [Thread -> Apis]
  BY DEF Init, Apis, DefaultApi
<1> QED
  BY <1>1, <1>2, <1>3 DEF Init, TypeOK, Dispatch!Init

\* What libGLdispatch does keeps its state in its type.
LEMMA DispatchType ==
  ASSUME TypeOK,
         \/ \E t \in Thread, v \in Vendor \cup {Glx} : Dispatch!Acquire(t, v)
         \/ \E threads \in SUBSET Thread : Dispatch!Release(threads)
         \/ Dispatch!ChangeOwner
         \/ UNCHANGED dispatchVars
  PROVE  /\ current' \in [Thread -> Vendor \cup {Glx, None}]
         /\ owner' \in Vendor \cup {Glx, None}
BY DEF TypeOK, Dispatch!Acquire, Dispatch!Release, Dispatch!ChangeOwner, dispatchVars

\* What the vendors forget keeps their state in its type.
LEMMA VendorsForgetType ==
  ASSUME TypeOK, NEW threads \in SUBSET Thread, VendorsForget(threads)
  PROVE  /\ vendorCur' \in [Thread \X Vendor -> Binding \cup {None}]
         /\ vendorErr' \in [Thread -> SUBSET Vendor]
         /\ vendorApi' \in [Thread -> Apis]
BY DEF TypeOK, VendorsForget, Apis, DefaultApi

\* So do a function of a vendor that returns, and a context that it makes current.
LEMMA VendorReturnsType ==
  ASSUME TypeOK, NEW t \in Thread, NEW v \in Vendor, NEW success \in BOOLEAN,
         VendorReturns(t, v, success)
  PROVE  vendorErr' \in [Thread -> SUBSET Vendor]
<1>1. /\ vendorErr[t] \ {v} \in SUBSET Vendor
      /\ vendorErr[t] \cup {v} \in SUBSET Vendor
  BY DEF TypeOK
<1> QED
  BY <1>1 DEF TypeOK, VendorReturns

LEMMA VendorSetType ==
  ASSUME TypeOK, NEW t \in Thread, NEW v \in Vendor, NEW b \in Binding \cup {None},
         VendorSet(t, v, b)
  PROVE  vendorCur' \in [Thread \X Vendor -> Binding \cup {None}]
BY DEF TypeOK, VendorSet

\* And so does an API state that is changed, created or destroyed.
LEMMA ApiStateType ==
  ASSUME TypeOK, NEW t \in Thread,
         \/ /\ apiState[t] \in ApiState
            /\ \/ \E b \in Binding : apiState' = [apiState EXCEPT ![t].binding = b]
               \/ \E v \in Vendor : apiState' = [apiState EXCEPT ![t].currentVendor = v]
         \/ apiState' = [apiState EXCEPT ![t] = [currentVendor |-> None, binding |-> None]]
         \/ apiState' = [apiState EXCEPT ![t] = None]
         \/ UNCHANGED apiState
  PROVE  apiState' \in [Thread -> ApiState \cup {None}]
<1>1. [currentVendor |-> None, binding |-> None] \in ApiState
  BY DEF ApiState
<1>2. ASSUME apiState[t] \in ApiState, NEW b \in Binding
      PROVE  [apiState[t] EXCEPT !.binding = b] \in ApiState
  BY <1>2 DEF ApiState
<1>3. ASSUME apiState[t] \in ApiState, NEW v \in Vendor
      PROVE  [apiState[t] EXCEPT !.currentVendor = v] \in ApiState
  BY <1>3 DEF ApiState
<1> QED
  BY <1>1, <1>2, <1>3 DEF TypeOK

\* Every action keeps every variable in its type.
LEMMA TypeStep == TypeInv /\ [Next]_vars => TypeOK'
<1> USE DEF stateVars, callVars, dispatchVars, vendorVars, forkVars
<1> SUFFICES ASSUME TypeInv, [Next]_vars PROVE TypeOK'
  OBVIOUS
<1> TypeOK
  BY DEF TypeInv
<1>1. ASSUME NEW t \in Thread, Reject(t)
      PROVE  TypeOK'
  BY <1>1, ErrorType DEF TypeOK, Reject
<1>2. ASSUME NEW t \in Thread, Answer(t)
      PROVE  TypeOK'
  BY <1>2, ErrorType DEF TypeOK, Answer
<1>3. ASSUME NEW t \in Thread, GetError(t)
      PROVE  TypeOK'
  <2>1. threadState[t] \in ThreadState
    BY <1>3 DEF TypeOK, GetError
  <2>2. threadState' \in [Thread -> ThreadState \cup {None}]
    BY <1>3, <2>1 DEF TypeOK, GetError, ThreadState
  <2> QED
    BY <1>3, <2>2 DEF TypeOK, GetError
<1>4. ASSUME NEW t \in Thread, NEW v \in Vendor, VendorAnswers(t, v)
      PROVE  TypeOK'
  <2>1. threadState' \in [Thread -> ThreadState \cup {None}]
    BY <1>4, ErrorType DEF TypeOK, VendorAnswers
  <2>2. /\ vendorErr' \in [Thread -> SUBSET Vendor]
        /\ failed' \in [Thread -> {"no", "yes", "by libGLdispatch"}]
    <3>1. PICK success \in BOOLEAN :
            /\ VendorReturns(t, v, success)
            /\ failed' = [failed EXCEPT ![t] = IF success THEN "no" ELSE "yes"]
      BY <1>4 DEF VendorAnswers
    <3>2. vendorErr' \in [Thread -> SUBSET Vendor]
      BY <3>1, VendorReturnsType
    <3> QED
      BY <3>1, <3>2 DEF TypeOK
  <2> QED
    BY <1>4, <2>1, <2>2 DEF TypeOK, VendorAnswers
<1>5. ASSUME NEW t \in Thread, NEW refusing \in SUBSET Vendor,
             NEW withError \in SUBSET Vendor, GetPlatformDisplay(t, refusing, withError)
      PROVE  TypeOK'
  <2> DEFINE error == withError = Vendor
  <2>1. error \in BOOLEAN
    OBVIOUS
  <2>2. /\ threadState' = [threadState EXCEPT ![t] = SetError(@, error)]
        /\ failed' = [failed EXCEPT ![t] = IF error THEN "yes" ELSE "no"]
    BY <1>5 DEF GetPlatformDisplay
  <2>3. threadState' \in [Thread -> ThreadState \cup {None}]
    <3>1. SetError(threadState[t], error) \in ThreadState \cup {None}
      BY <2>1, ErrorType DEF TypeOK
    <3> HIDE DEF error
    <3> QED
      BY <2>2, <3>1 DEF TypeOK
  <2>4. vendorErr' \in [Thread -> SUBSET Vendor]
    <3>1. PICK answering \in SUBSET (Vendor \ refusing) :
            vendorErr' = [vendorErr EXCEPT ![t] = @ \ (refusing \cup answering)]
      BY <1>5 DEF GetPlatformDisplay
    <3>2. vendorErr[t] \ (refusing \cup answering) \in SUBSET Vendor
      BY DEF TypeOK
    <3> QED
      BY <3>1, <3>2 DEF TypeOK
  <2> HIDE DEF error
  <2> QED
    BY <1>5, <2>2, <2>3, <2>4 DEF TypeOK, GetPlatformDisplay
<1>6. ASSUME NEW t \in Thread, NEW api \in Apis, BindAPI(t, api)
      PROVE  TypeOK'
  <2>1. Created(SetError(threadState[t], FALSE)) \in ThreadState
    BY ErrorType DEF TypeOK
  <2>2. [Created(SetError(threadState[t], FALSE)) EXCEPT !.currentClientApi = api]
          \in ThreadState
    BY <2>1 DEF ThreadState
  <2>3. threadState' \in [Thread -> ThreadState \cup {None}]
    BY <1>6, <2>2 DEF TypeOK, BindAPI
  <2> QED
    BY <1>6, <2>3 DEF TypeOK, BindAPI
<1>7. ASSUME NEW t \in Thread, NEW b \in Binding, AcquireFirst(t, b)
      PROVE  TypeOK'
  <2>1. threadState' \in [Thread -> ThreadState \cup {None}]
    BY <1>7, ErrorType DEF TypeOK, AcquireFirst
  <2>2. apiState' \in [Thread -> ApiState \cup {None}]
    BY <1>7 DEF TypeOK, AcquireFirst, StartAcquire, ApiState
  <2> QED
    BY <1>7, <2>1, <2>2 DEF TypeOK, AcquireFirst, StartAcquire
<1>8. ASSUME NEW t \in Thread, NEW b \in Binding, SwitchBinding(t, b)
      PROVE  TypeOK'
  <2> DEFINE v == apiState[t].currentVendor
  <2>1. v \in Vendor
    BY <1>8, ConstantsAssumption DEF SwitchBinding
  <2>a. apiState[t] \in ApiState
    BY <1>8 DEF TypeInv, Owned, SwitchBinding, CanCall
  <2> HIDE DEF v
  <2>2. threadState' \in [Thread -> ThreadState \cup {None}]
    BY <1>8, <2>1, ErrorType DEF TypeOK, SwitchBinding, v
  <2>3. vendorErr' \in [Thread -> SUBSET Vendor]
    BY <1>8, <2>1, VendorReturnsType DEF SwitchBinding, v
  <2>4. vendorCur' \in [Thread \X Vendor -> Binding \cup {None}]
    BY <1>8, <2>1, VendorSetType DEF TypeOK, SwitchBinding, v
  <2>5. apiState' \in [Thread -> ApiState \cup {None}]
    BY <1>8, <2>a, ApiStateType DEF SwitchBinding
  <2>6. /\ pc' \in [Thread -> {"idle", "dispatch", "vendor"}]
        /\ new' \in [Thread -> Binding \cup {None}]
        /\ failed' \in [Thread -> {"no", "yes", "by libGLdispatch"}]
    BY <1>8 DEF TypeOK, SwitchBinding, EndCall
  <2> QED
    BY <1>8, <2>2, <2>3, <2>4, <2>5, <2>6 DEF TypeOK, SwitchBinding
<1>9. ASSUME NEW t \in Thread, NEW b \in Binding \cup {None}, LoseCurrent(t, b)
      PROVE  TypeOK'
  <2> DEFINE v == apiState[t].currentVendor
  <2>1. v \in Vendor
    BY <1>9 DEF TypeInv, Owned, LoseCurrent, CanCall, HasContext
  <2> HIDE DEF v
  <2>2. threadState' \in [Thread -> ThreadState \cup {None}]
    BY <1>9, <2>1, ErrorType DEF TypeOK, LoseCurrent, v
  <2>3. vendorErr' \in [Thread -> SUBSET Vendor]
    BY <1>9, <2>1, VendorReturnsType DEF LoseCurrent, v
  <2>4. vendorCur' \in [Thread \X Vendor -> Binding \cup {None}]
    BY <1>9, <2>1, VendorSetType DEF TypeOK, LoseCurrent, v
  <2>5. /\ apiState' \in [Thread -> ApiState \cup {None}]
        /\ pc' \in [Thread -> {"idle", "dispatch", "vendor"}]
        /\ new' \in [Thread -> Binding \cup {None}]
        /\ failed' \in [Thread -> {"no", "yes", "by libGLdispatch"}]
    <3>1. apiState' \in [Thread -> ApiState \cup {None}]
      BY <1>9, ApiStateType DEF LoseCurrent, StartAcquire
    <3> QED
      BY <1>9, <3>1 DEF TypeOK, LoseCurrent, StartAcquire, EndCall
  <2>6. Dispatch!Release({t}) \/ UNCHANGED dispatchVars
    BY <1>9 DEF LoseCurrent
  <2>7. /\ current' \in [Thread -> Vendor \cup {Glx, None}]
        /\ owner' \in Vendor \cup {Glx, None}
    BY <2>6, DispatchType
  <2> QED
    BY <1>9, <2>2, <2>3, <2>4, <2>5, <2>7 DEF TypeOK, LoseCurrent
<1>10. ASSUME NEW t \in Thread, DispatchMakeCurrent(t)
       PROVE  TypeOK'
  <2> DEFINE v == VendorOf[new[t]]
  <2>1. v \in Vendor
    BY <1>10, ConstantsAssumption DEF TypeInv, Owned, DispatchMakeCurrent
  <2>2. apiState' \in [Thread -> ApiState \cup {None}]
    <3>1. apiState[t] \in ApiState
      BY <1>10 DEF TypeInv, Owned, DispatchMakeCurrent
    <3> QED
      BY <1>10, <2>1, <3>1, ApiStateType DEF DispatchMakeCurrent
  <2>3. /\ pc' \in [Thread -> {"idle", "dispatch", "vendor"}]
        /\ new' \in [Thread -> Binding \cup {None}]
        /\ failed' \in [Thread -> {"no", "yes", "by libGLdispatch"}]
    BY <1>10 DEF TypeOK, DispatchMakeCurrent, EndCall
  <2>4. Dispatch!Acquire(t, v) \/ Dispatch!ChangeOwner \/ UNCHANGED dispatchVars
    BY <1>10 DEF DispatchMakeCurrent
  <2>5. /\ current' \in [Thread -> Vendor \cup {Glx, None}]
        /\ owner' \in Vendor \cup {Glx, None}
    BY <2>1, <2>4, DispatchType
  <2> QED
    BY <1>10, <2>2, <2>3, <2>5 DEF TypeOK, DispatchMakeCurrent
<1>11. ASSUME NEW t \in Thread, VendorMakeCurrent(t)
       PROVE  TypeOK'
  <2> DEFINE v == apiState[t].currentVendor
  <2>1. v \in Vendor /\ new[t] \in Binding
    BY <1>11, ConstantsAssumption DEF TypeInv, Owned, VendorMakeCurrent
  <2> HIDE DEF v
  <2>2. threadState' \in [Thread -> ThreadState \cup {None}]
    BY <1>11, <2>1, ErrorType DEF TypeOK, VendorMakeCurrent, v
  <2>3. vendorErr' \in [Thread -> SUBSET Vendor]
    BY <1>11, <2>1, VendorReturnsType DEF VendorMakeCurrent, v
  <2>4. vendorCur' \in [Thread \X Vendor -> Binding \cup {None}]
    BY <1>11, <2>1, VendorSetType DEF TypeOK, VendorMakeCurrent, v
  <2>5. apiState' \in [Thread -> ApiState \cup {None}]
    <3>1. apiState[t] \in ApiState
      BY <1>11 DEF TypeInv, Owned, VendorMakeCurrent
    <3> QED
      BY <1>11, <2>1, <3>1, ApiStateType DEF VendorMakeCurrent
  <2>6. /\ pc' \in [Thread -> {"idle", "dispatch", "vendor"}]
        /\ new' \in [Thread -> Binding \cup {None}]
        /\ failed' \in [Thread -> {"no", "yes", "by libGLdispatch"}]
    BY <1>11 DEF TypeOK, VendorMakeCurrent, EndCall
  <2>7. Dispatch!Release({t}) \/ UNCHANGED dispatchVars
    BY <1>11 DEF VendorMakeCurrent
  <2>8. /\ current' \in [Thread -> Vendor \cup {Glx, None}]
        /\ owner' \in Vendor \cup {Glx, None}
    BY <2>7, DispatchType
  <2> QED
    BY <1>11, <2>2, <2>3, <2>4, <2>5, <2>6, <2>8 DEF TypeOK, VendorMakeCurrent
<1>12. ASSUME NEW t \in Thread, ReleaseThread(t)
       PROVE  TypeOK'
  <2>1. CASE VendorsForget({t})
    <3>1. Dispatch!Release({t}) \/ UNCHANGED dispatchVars
      BY <1>12 DEF ReleaseThread
    <3>2. /\ current' \in [Thread -> Vendor \cup {Glx, None}]
          /\ owner' \in Vendor \cup {Glx, None}
      BY <3>1, DispatchType
    <3>3. /\ apiState' \in [Thread -> ApiState \cup {None}]
          /\ threadState' \in [Thread -> ThreadState \cup {None}]
          /\ failed' \in [Thread -> {"no", "yes", "by libGLdispatch"}]
      <4>1. threadState[t] \in ThreadState
        BY <1>12 DEF ReleaseThread, TypeOK
      <4>2. HasContext(t) => apiState[t].currentVendor \in Vendor
        BY <1>12 DEF ReleaseThread, TypeInv, Owned, HasContext
      <4>3. HasContext(t) =>
              [threadState[t] EXCEPT !.lastVendor = apiState[t].currentVendor] \in ThreadState
        BY <4>1, <4>2 DEF ThreadState
      <4>4. apiState' \in [Thread -> ApiState \cup {None}]
        BY <1>12, ApiStateType DEF ReleaseThread
      <4>5. threadState' \in [Thread -> ThreadState \cup {None}]
        BY <1>12, <4>3 DEF TypeOK, ReleaseThread
      <4>6. failed' \in [Thread -> {"no", "yes", "by libGLdispatch"}]
        BY <1>12 DEF TypeOK, ReleaseThread
      <4> QED
        BY <4>4, <4>5, <4>6
    <3> QED
      BY <1>12, <2>1, <3>2, <3>3, VendorsForgetType DEF TypeOK, ReleaseThread
  <2>2. CASE /\ HasContext(t)
             /\ VendorReturns(t, apiState[t].currentVendor, FALSE)
             /\ threadState' = [threadState EXCEPT ![t].lastVendor = apiState[t].currentVendor]
             /\ failed' = [failed EXCEPT ![t] = "yes"]
             /\ UNCHANGED <<apiState, dispatchVars, vendorCur, vendorApi>>
    <3>1. apiState[t].currentVendor \in Vendor
      BY <1>12, <2>2 DEF ReleaseThread, TypeInv, Owned, HasContext
    <3>2. threadState[t] \in ThreadState
      BY <1>12 DEF ReleaseThread, TypeOK
    <3>3. threadState' \in [Thread -> ThreadState \cup {None}]
      BY <2>2, <3>1, <3>2 DEF TypeOK, ThreadState
    <3>4. vendorErr' \in [Thread -> SUBSET Vendor]
      BY <2>2, <3>1 DEF TypeOK, VendorReturns
    <3> QED
      BY <1>12, <2>2, <3>3, <3>4 DEF TypeOK, ReleaseThread
  <2> QED
    BY <1>12, <2>1, <2>2 DEF ReleaseThread
<1>13. ASSUME NEW t \in Thread, ThreadExit(t)
       PROVE  TypeOK'
  <2>1. /\ current' \in [Thread -> Vendor \cup {Glx, None}]
        /\ owner' \in Vendor \cup {Glx, None}
    BY <1>13, DispatchType DEF ThreadExit
  <2> QED
    BY <1>13, <2>1, VendorsForgetType DEF TypeOK, ThreadExit
<1>14. ASSUME NEW t \in Thread, Fork(t)
       PROVE  TypeOK'
  <2>1. /\ current' \in [Thread -> Vendor \cup {Glx, None}]
        /\ owner' \in Vendor \cup {Glx, None}
    BY <1>14, DispatchType DEF Fork
  <2>2. forks' \in 0..MaxForks
    <3>1. forks < MaxForks /\ forks' = forks + 1
      BY <1>14 DEF Fork
    <3>2. forks \in 0..MaxForks
      BY DEF TypeOK
    <3> QED
      BY <3>1, <3>2, ConstantsAssumption
  <2>3. /\ vendorCur' \in [Thread \X Vendor -> Binding \cup {None}]
        /\ vendorErr' \in [Thread -> SUBSET Vendor]
        /\ vendorApi' \in [Thread -> Apis]
    BY <1>14, VendorsForgetType DEF Fork
  <2> QED
    BY <1>14, <2>1, <2>2, <2>3 DEF TypeOK, Fork
<1>15. ASSUME NEW t \in Thread, ResetOnFork(t)
       PROVE  TypeOK'
  <2>1. /\ current' \in [Thread -> Vendor \cup {Glx, None}]
        /\ owner' \in Vendor \cup {Glx, None}
    BY <1>15, DispatchType DEF ResetOnFork
  <2> QED
    BY <1>15, <2>1, VendorsForgetType DEF TypeOK, ResetOnFork
<1>16. ASSUME NEW t \in Thread, GlxMakeCurrent(t)
       PROVE  TypeOK'
  BY <1>16, DispatchType DEF TypeOK, GlxMakeCurrent
<1>17. ASSUME NEW t \in Thread, GlxLoseCurrent(t)
       PROVE  TypeOK'
  BY <1>17, DispatchType DEF TypeOK, GlxLoseCurrent
<1>18. ASSUME NEW t \in Thread, GlxResetOnFork(t)
       PROVE  TypeOK'
  BY <1>18, DispatchType DEF TypeOK, GlxResetOnFork
<1>19. CASE UNCHANGED vars
  BY <1>19 DEF TypeOK, vars
<1> QED
  BY <1>1, <1>2, <1>3, <1>4, <1>5, <1>6, <1>7, <1>8, <1>9, <1>10, <1>11, <1>12, <1>13,
     <1>14, <1>15, <1>16, <1>17, <1>18, <1>19
     DEF Next, ErrorStep, MakeCurrentStep, LifeStep, GlxStep

\* A thread stays as it is in a step that leaves its call, its API state and its
\* thread state alone, and leaves its context alone or, between two calls, takes
\* it away.
LEMMA OwnedFrame ==
  ASSUME NEW u \in Thread, Owned(u),
         pc'[u] = pc[u], new'[u] = new[u], apiState'[u] = apiState[u],
         threadState[u] # None => threadState'[u] # None,
         current'[u] = current[u] \/ (pc[u] = "idle" /\ current'[u] \notin Vendor)
  PROVE  Owned(u)'
BY DEF Owned, HasContext

\* A thread that is between two calls and has no context has nothing to keep.
LEMMA OwnedIdle ==
  ASSUME NEW u \in Thread, pc'[u] = "idle", current'[u] \notin Vendor
  PROVE  Owned(u)'
BY DEF Owned, HasContext

\* Every action keeps the API states of the threads in order.
LEMMA OwnedStep == TypeInv /\ [Next]_vars => (\A u \in Thread : Owned(u))'
<1> USE DEF stateVars, callVars, dispatchVars, vendorVars, forkVars
<1> SUFFICES ASSUME TypeInv, [Next]_vars, NEW u \in Thread PROVE Owned(u)'
  OBVIOUS
<1>a. TypeOK /\ Owned(u)
  BY DEF TypeInv
<1>b. None \notin Vendor /\ None \notin ApiState /\ None \notin ThreadState /\ Glx \notin Vendor
  BY ConstantsAssumption
<1>1. ASSUME NEW t \in Thread,
             \/ Reject(t) \/ Answer(t) \/ GetError(t)
             \/ \E v \in Vendor : VendorAnswers(t, v)
             \/ \E api \in Apis : BindAPI(t, api)
      PROVE  Owned(u)'
  <2>1. threadState[t] \in ThreadState \cup {None}
    BY <1>a DEF TypeOK
  <2>2. threadState[t] # None =>
          /\ \A e \in BOOLEAN : SetError(threadState[t], e) # None
          /\ \A v \in Vendor : SetLastVendor(threadState[t], v) # None
          /\ \A api \in Apis :
               [Created(SetError(threadState[t], FALSE)) EXCEPT !.currentClientApi = api] # None
          /\ [threadState[t] EXCEPT !.lastVendor = None, !.lastError = FALSE] # None
    <3>1. \A v \in Vendor : SetLastVendor(threadState[t], v) # None
      BY <2>1, ErrorType
    <3>2. \A api \in Apis :
            [Created(SetError(threadState[t], FALSE)) EXCEPT !.currentClientApi = api] # None
      <4>1. Created(SetError(threadState[t], FALSE)) \in ThreadState
        BY <2>1, ErrorType
      <4> QED
        BY <4>1, <1>b DEF ThreadState
    <3>3. ASSUME threadState[t] # None
          PROVE  [threadState[t] EXCEPT !.lastVendor = None, !.lastError = FALSE] # None
      BY <3>3, <2>1, <1>b DEF ThreadState
    <3> QED
      BY <3>1, <3>2, <3>3, <2>1, ErrorType
  <2>3. threadState[t] # None => threadState'[t] # None
    BY <1>1, <1>a, <2>2 DEF TypeOK, Reject, Answer, GetError, VendorAnswers, BindAPI
  <2>4. /\ u # t => threadState'[u] = threadState[u]
        /\ UNCHANGED <<apiState, pc, new, current>>
    BY <1>1, <1>a DEF TypeOK, Reject, Answer, GetError, VendorAnswers, BindAPI
  <2> QED
    BY <1>a, <2>3, <2>4, OwnedFrame
<1>2. ASSUME NEW t \in Thread, NEW refusing \in SUBSET Vendor,
             NEW withError \in SUBSET Vendor, GetPlatformDisplay(t, refusing, withError)
      PROVE  Owned(u)'
  <2> DEFINE error == withError = Vendor
  <2>1. threadState' = [threadState EXCEPT ![t] = SetError(@, error)]
    BY <1>2 DEF GetPlatformDisplay
  <2>2. threadState[t] # None => SetError(threadState[t], error) # None
    BY <1>a, ErrorType DEF TypeOK
  <2>3. UNCHANGED <<apiState, pc, new, current>>
    BY <1>2 DEF GetPlatformDisplay
  <2> HIDE DEF error
  <2>4. threadState[u] # None => threadState'[u] # None
    BY <1>a, <2>1, <2>2 DEF TypeOK
  <2> QED
    BY <1>a, <2>3, <2>4, OwnedFrame
<1>3. ASSUME NEW t \in Thread, NEW b \in Binding, AcquireFirst(t, b)
      PROVE  Owned(u)'
  <2>1. CASE u = t
    BY <1>3, <1>a, <2>1 DEF TypeOK, Owned, AcquireFirst, StartAcquire, CanCall, ApiState
  <2>2. CASE u # t
    BY <1>3, <1>a, <2>2, OwnedFrame DEF TypeOK, AcquireFirst, StartAcquire
  <2> QED
    BY <2>1, <2>2
<1>4. ASSUME NEW t \in Thread, NEW b \in Binding, SwitchBinding(t, b)
      PROVE  Owned(u)'
  <2>1. CASE u = t
    <3>1. /\ apiState[t] \in ApiState
          /\ apiState[t].currentVendor = current[t]
          /\ current[t] \in Vendor
          /\ pc[t] = "idle"
      BY <1>4, <1>a, <2>1 DEF Owned, SwitchBinding, CanCall, HasContext
    <3>2. /\ apiState'[t] \in ApiState
          /\ apiState'[t].currentVendor = current[t]
      <4>1. /\ [apiState[t] EXCEPT !.binding = b] \in ApiState
            /\ [apiState[t] EXCEPT !.binding = b].currentVendor = current[t]
        BY <3>1 DEF ApiState
      <4> QED
        BY <1>4, <1>a, <3>1, <4>1 DEF TypeOK, SwitchBinding
    <3>3. threadState'[t] # None
      <4>1. SetLastVendor(threadState[t], current[t]) # None
        BY <1>a, <3>1, ErrorType DEF TypeOK
      <4> QED
        BY <1>4, <1>a, <3>1, <4>1 DEF TypeOK, SwitchBinding
    <3>4. pc'[t] = "idle" /\ current'[t] = current[t]
      BY <1>4, <1>a DEF TypeOK, SwitchBinding, EndCall
    <3> QED
      BY <2>1, <3>2, <3>3, <3>4 DEF Owned
  <2>2. CASE u # t
    <3>1. /\ pc'[u] = pc[u] /\ new'[u] = new[u] /\ apiState'[u] = apiState[u]
          /\ threadState'[u] = threadState[u] /\ current'[u] = current[u]
      BY <1>4, <1>a, <2>2 DEF TypeOK, SwitchBinding, EndCall
    <3> QED
      BY <1>a, <3>1, OwnedFrame
  <2> QED
    BY <2>1, <2>2
<1>5. ASSUME NEW t \in Thread, NEW b \in Binding \cup {None}, LoseCurrent(t, b)
      PROVE  Owned(u)'
  <2>1. CASE u = t
    <3>1. /\ apiState[t] \in ApiState
          /\ apiState[t].currentVendor = current[t]
          /\ current[t] \in Vendor
          /\ pc[t] = "idle"
      BY <1>5, <1>a, <2>1 DEF Owned, LoseCurrent, CanCall, HasContext
    <3>2. threadState'[t] # None
      <4>1. SetLastVendor(threadState[t], current[t]) # None
        BY <1>a, <3>1, ErrorType DEF TypeOK
      <4> QED
        BY <1>5, <1>a, <3>1, <4>1 DEF TypeOK, LoseCurrent
    <3>3. \/ pc'[t] = "idle" /\ current'[t] = None
          \/ /\ b # None /\ pc'[t] = "dispatch" /\ current'[t] = None /\ new'[t] = b
             /\ apiState'[t] = [currentVendor |-> None, binding |-> None]
          \/ pc'[t] = "idle" /\ current'[t] = current[t] /\ apiState'[t] = apiState[t]
      <4>1. CASE Dispatch!Release({t}) /\ EndCall(t, "no")
        BY <4>1, <1>a DEF TypeOK, EndCall, Dispatch!Release
      <4>2. CASE Dispatch!Release({t}) /\ b # None /\ StartAcquire(t, b)
        BY <4>2, <1>a DEF TypeOK, StartAcquire, Dispatch!Release
      <4>3. CASE EndCall(t, "yes") /\ UNCHANGED <<apiState, dispatchVars>>
        BY <4>3, <1>a DEF TypeOK, EndCall
      <4> QED
        BY <1>5, <4>1, <4>2, <4>3 DEF LoseCurrent
    <3>4. [currentVendor |-> None, binding |-> None] \in ApiState
      BY DEF ApiState
    <3> QED
      BY <1>b, <2>1, <3>1, <3>2, <3>3, <3>4 DEF Owned, HasContext
  <2>2. CASE u # t
    <3>1. /\ pc'[u] = pc[u] /\ new'[u] = new[u] /\ apiState'[u] = apiState[u]
          /\ threadState'[u] = threadState[u] /\ current'[u] = current[u]
      <4>1. threadState'[u] = threadState[u]
        BY <1>5, <1>a, <2>2 DEF TypeOK, LoseCurrent
      <4>2. CASE Dispatch!Release({t}) /\ apiState' = [apiState EXCEPT ![t] = None]
                   /\ EndCall(t, "no")
        BY <4>1, <4>2, <1>a, <2>2 DEF TypeOK, EndCall, Dispatch!Release
      <4>3. CASE Dispatch!Release({t}) /\ StartAcquire(t, b)
        BY <4>1, <4>3, <1>a, <2>2 DEF TypeOK, StartAcquire, Dispatch!Release
      <4>4. CASE EndCall(t, "yes") /\ UNCHANGED <<apiState, dispatchVars>>
        BY <4>1, <4>4, <1>a, <2>2 DEF TypeOK, EndCall
      <4> QED
        BY <1>5, <4>2, <4>3, <4>4 DEF LoseCurrent
    <3> QED
      BY <1>a, <3>1, OwnedFrame
  <2> QED
    BY <2>1, <2>2
<1>6. ASSUME NEW t \in Thread, DispatchMakeCurrent(t)
      PROVE  Owned(u)'
  <2>1. CASE u = t
    <3>1. /\ apiState[t] \in ApiState
          /\ new[t] \in Binding
          /\ VendorOf[new[t]] \in Vendor
          /\ current[t] = None
      BY <1>6, <1>a, <2>1, ConstantsAssumption DEF Owned, DispatchMakeCurrent
    <3>2. /\ [apiState[t] EXCEPT !.currentVendor = VendorOf[new[t]]] \in ApiState
          /\ [apiState[t] EXCEPT !.currentVendor = VendorOf[new[t]]].currentVendor
                = VendorOf[new[t]]
      BY <3>1 DEF ApiState
    <3>3. \/ /\ pc'[t] = "vendor" /\ current'[t] = VendorOf[new[t]] /\ new'[t] = new[t]
             /\ apiState'[t] = [apiState[t] EXCEPT !.currentVendor = VendorOf[new[t]]]
          \/ pc'[t] = "idle" /\ current'[t] = None
      BY <1>6, <1>a, <3>1
         DEF TypeOK, DispatchMakeCurrent, EndCall, Dispatch!Acquire, Dispatch!ChangeOwner
    <3> QED
      BY <1>b, <2>1, <3>1, <3>2, <3>3 DEF Owned, HasContext
  <2>2. CASE u # t
    <3>1. /\ pc'[u] = pc[u] /\ new'[u] = new[u] /\ apiState'[u] = apiState[u]
          /\ threadState'[u] = threadState[u] /\ current'[u] = current[u]
      BY <1>6, <1>a, <2>2
         DEF TypeOK, DispatchMakeCurrent, EndCall, Dispatch!Acquire, Dispatch!ChangeOwner
    <3> QED
      BY <1>a, <3>1, OwnedFrame
  <2> QED
    BY <2>1, <2>2
<1>7. ASSUME NEW t \in Thread, VendorMakeCurrent(t)
      PROVE  Owned(u)'
  <2>1. CASE u = t
    <3>1. /\ apiState[t] \in ApiState
          /\ new[t] \in Binding
          /\ apiState[t].currentVendor = current[t]
          /\ current[t] \in Vendor
      BY <1>7, <1>a, <2>1, ConstantsAssumption DEF Owned, VendorMakeCurrent
    <3>2. threadState'[t] # None
      <4>1. SetLastVendor(threadState[t], current[t]) # None
        BY <1>a, <3>1, ErrorType DEF TypeOK
      <4> QED
        BY <1>7, <1>a, <3>1, <4>1 DEF TypeOK, VendorMakeCurrent
    <3>3. /\ [apiState[t] EXCEPT !.binding = new[t]] \in ApiState
          /\ [apiState[t] EXCEPT !.binding = new[t]].currentVendor = current[t]
      BY <3>1 DEF ApiState
    <3>4. /\ pc'[t] = "idle"
          /\ \/ /\ current'[t] = current[t]
                /\ apiState'[t] = [apiState[t] EXCEPT !.binding = new[t]]
             \/ current'[t] = None
      BY <1>7, <1>a DEF TypeOK, VendorMakeCurrent, EndCall, Dispatch!Release
    <3> QED
      BY <1>b, <2>1, <3>1, <3>2, <3>3, <3>4 DEF Owned, HasContext
  <2>2. CASE u # t
    <3>1. /\ pc'[u] = pc[u] /\ new'[u] = new[u] /\ apiState'[u] = apiState[u]
          /\ threadState'[u] = threadState[u] /\ current'[u] = current[u]
      BY <1>7, <1>a, <2>2 DEF TypeOK, VendorMakeCurrent, EndCall, Dispatch!Release
    <3> QED
      BY <1>a, <3>1, OwnedFrame
  <2> QED
    BY <2>1, <2>2
<1>8. ASSUME NEW t \in Thread, ReleaseThread(t) \/ ThreadExit(t)
      PROVE  Owned(u)'
  <2>1. CASE u # t
    <3>1. /\ pc'[u] = pc[u] /\ new'[u] = new[u] /\ apiState'[u] = apiState[u]
          /\ threadState'[u] = threadState[u] /\ current'[u] = current[u]
      BY <1>8, <1>a, <2>1 DEF TypeOK, ReleaseThread, ThreadExit, Dispatch!Release
    <3> QED
      BY <1>a, <3>1, OwnedFrame
  <2>2. CASE u = t
    <3>1. pc[t] = "idle" /\ pc' = pc /\ new' = new
      BY <1>8 DEF ReleaseThread, ThreadExit
    <3>2. CASE current'[t] \notin Vendor
      BY <2>2, <3>1, <3>2, OwnedIdle
    <3>3. CASE current'[t] \in Vendor
      <4>1. /\ HasContext(t)
            /\ threadState[t] # None
            /\ threadState' = [threadState EXCEPT ![t].lastVendor = apiState[t].currentVendor]
            /\ UNCHANGED <<apiState, current>>
        BY <1>8, <1>b, <3>3 DEF ReleaseThread, ThreadExit, Dispatch!Release, HasContext
      <4>2. threadState[t] \in ThreadState /\ apiState[t].currentVendor \in Vendor
        BY <1>a, <2>2, <3>1, <4>1 DEF TypeOK, Owned, HasContext
      <4>3. [threadState[t] EXCEPT !.lastVendor = apiState[t].currentVendor] # None
        BY <1>b, <4>2 DEF ThreadState
      <4>4. threadState'[t] # None
        BY <1>a, <4>1, <4>3 DEF TypeOK
      <4> QED
        BY <1>a, <2>2, <3>1, <4>1, <4>4, OwnedFrame
    <3> QED
      BY <3>2, <3>3
  <2> QED
    BY <2>1, <2>2
<1>9. ASSUME NEW t \in Thread, Fork(t)
      PROVE  Owned(u)'
  <2>1. CASE u # t
    <3>1. pc'[u] = "idle" /\ current'[u] \notin Vendor
      BY <1>9, <1>b, <2>1 DEF Fork, Dispatch!Release
    <3> QED
      BY <3>1, OwnedIdle
  <2>2. CASE u = t
    <3>1. /\ pc[t] = "idle" /\ pc'[t] = "idle" /\ apiState'[t] = apiState[t]
          /\ threadState'[t] = threadState[t] /\ current'[t] = current[t]
      BY <1>9 DEF Fork, Dispatch!Release
    <3> QED
      BY <1>a, <2>2, <3>1 DEF Owned, HasContext
  <2> QED
    BY <2>1, <2>2
<1>10. ASSUME NEW t \in Thread, ResetOnFork(t)
       PROVE  Owned(u)'
  <2>1. pc'[u] = "idle"
    BY <1>10 DEF TypeInv, ResetOnFork
  <2>2. current'[u] \notin Vendor
    BY <1>10, <1>a, <1>b DEF TypeInv, ResetOnFork, Owned, HasContext, Dispatch!Release
  <2> QED
    BY <2>1, <2>2, OwnedIdle
<1>11. ASSUME NEW t \in Thread, GlxMakeCurrent(t) \/ GlxLoseCurrent(t) \/ GlxResetOnFork(t)
       PROVE  Owned(u)'
  <2>1. /\ pc[t] = "idle"
        /\ u # t => current'[u] = current[u]
        /\ current'[t] \in {Glx, None}
        /\ UNCHANGED <<stateVars, callVars>>
    BY <1>11, <1>a DEF TypeOK, GlxMakeCurrent, GlxLoseCurrent, GlxResetOnFork,
       Dispatch!Acquire, Dispatch!Release
  <2> QED
    BY <1>a, <1>b, <2>1, OwnedFrame
<1>12. CASE UNCHANGED vars
  BY <1>12, <1>a, OwnedFrame DEF vars
<1> QED
  BY <1>1, <1>2, <1>3, <1>4, <1>5, <1>6, <1>7, <1>8, <1>9, <1>10, <1>11, <1>12
     DEF TypeInv, Next, ErrorStep, MakeCurrentStep, LifeStep, GlxStep

\* In a child that has not called EGL yet no EGL function is under way.
LEMMA ForkStep == TypeInv /\ [Next]_vars => (eglFork => \A u \in Thread : pc[u] = "idle")'
<1> USE DEF stateVars, callVars, dispatchVars, vendorVars, forkVars
<1> SUFFICES ASSUME TypeInv, [Next]_vars, eglFork', NEW u \in Thread
             PROVE  pc'[u] = "idle"
  OBVIOUS
<1>1. CASE \E t \in Thread : Fork(t)
  BY <1>1 DEF Fork
<1>2. CASE UNCHANGED <<pc, eglFork>>
  BY <1>2 DEF TypeInv
<1>3. CASE \E t \in Thread : ErrorStep(t) \/ GlxStep(t) \/ ReleaseThread(t) \/ ThreadExit(t)
  <2>1. UNCHANGED <<pc, eglFork>>
    BY <1>3 DEF ErrorStep, Reject, Answer, GetError, VendorAnswers, GetPlatformDisplay, BindAPI,
       GlxStep, GlxMakeCurrent, GlxLoseCurrent, GlxResetOnFork, ReleaseThread, ThreadExit
  <2> QED
    BY <1>2, <2>1
<1>4. CASE \E t \in Thread : MakeCurrentStep(t) \/ ResetOnFork(t)
  <2>1. PICK t \in Thread : MakeCurrentStep(t) \/ ResetOnFork(t)
    BY <1>4
  <2>2. eglFork /\ ~CanCall(t)
    <3>1. UNCHANGED eglFork
      BY <2>1 DEF MakeCurrentStep, AcquireFirst, SwitchBinding, LoseCurrent, DispatchMakeCurrent,
         VendorMakeCurrent, ResetOnFork
    <3> QED
      BY <3>1 DEF CanCall
  <2>3. pc[t] # "idle"
    BY <2>1, <2>2 DEF MakeCurrentStep, AcquireFirst, SwitchBinding, LoseCurrent,
       DispatchMakeCurrent, VendorMakeCurrent, ResetOnFork
  <2> QED
    BY <2>2, <2>3 DEF TypeInv
<1> QED
  BY <1>1, <1>2, <1>3, <1>4 DEF Next, LifeStep, vars

LEMMA TypeInvInit == Init => TypeInv
<1> SUFFICES ASSUME Init PROVE TypeInv
  OBVIOUS
<1>1. \A t \in Thread : Owned(t)
  BY ConstantsAssumption DEF Init, Owned, HasContext, Dispatch!Init
<1> QED
  BY <1>1, TypeInit DEF TypeInv, Init

LEMMA TypeInvStep == TypeInv /\ [Next]_vars => TypeInv'
BY TypeStep, OwnedStep, ForkStep DEF TypeInv

\* At each point of an EGL call, the states that the code uses are there.
THEOREM TypeInvariant == Spec => []TypeInv
BY TypeInvInit, TypeInvStep, PTL DEF Spec

\* Every variable has its type.
THEOREM EglTypeCorrect == Spec => []TypeOK
<1>1. TypeInv => TypeOK
  BY DEF TypeInv
<1> QED
  BY <1>1, TypeInvariant, PTL

\* eglReleaseThread, which looks for the thread state first, misses no context.
THEOREM ThreadStateExists == Spec => []ContextHasThreadState
<1>1. TypeInv => ContextHasThreadState
  BY DEF TypeInv, Owned, ContextHasThreadState
<1> QED
  BY <1>1, TypeInvariant, PTL

-----------------------------------------------------------------------------
(* Agreement.  It needs that a child calls GLX before EGL, if both: the run  *)
(* of egl_glx_reset.cfg shows what happens otherwise.                        *)

\* What the vendors have current in a thread.  In a child that has called GLX and
\* not EGL yet, libGLdispatch has forgotten a context that libEGL and its vendor
\* remember.
Known(t) ==
  /\ pc[t] = "idle" /\ HasContext(t) =>
       \A v \in Vendor :
         vendorCur[<<t, v>>] = IF current[t] = v THEN apiState[t].binding ELSE None
  /\ pc[t] = "idle" /\ ~HasContext(t) /\ (~eglFork \/ apiState[t] = None) =>
       \A v \in Vendor : vendorCur[<<t, v>>] = None
  /\ pc[t] # "idle" => \A v \in Vendor : vendorCur[<<t, v>>] = None
  /\ pc[t] = "idle" /\ ~eglFork /\ apiState[t] # None => HasContext(t)

AgreeInv == TypeInv /\ \A t \in Thread : Known(t)

LEMMA KnownFrame ==
  ASSUME NEW u \in Thread, Known(u),
         pc'[u] = pc[u], apiState'[u] = apiState[u], eglFork' = eglFork,
         \A v \in Vendor : vendorCur'[<<u, v>>] = vendorCur[<<u, v>>],
         current'[u] = current[u] \/ (current[u] \notin Vendor /\ current'[u] \notin Vendor)
  PROVE  Known(u)'
BY DEF Known, HasContext

LEMMA KnownIdle ==
  ASSUME NEW u \in Thread, pc'[u] = "idle", current'[u] \notin Vendor, apiState'[u] = None,
         \A v \in Vendor : vendorCur'[<<u, v>>] = None
  PROVE  Known(u)'
BY DEF Known, HasContext

\* What the vendors have current in a thread that one of them, or all, forget.
LEMMA VendorCurOf ==
  ASSUME TypeOK, NEW u \in Thread
  PROVE  /\ \A t \in Thread, v \in Vendor, b \in Binding \cup {None} : VendorSet(t, v, b) =>
              \A w \in Vendor : vendorCur'[<<u, w>>] =
                                  IF u = t /\ w = v THEN b ELSE vendorCur[<<u, w>>]
         /\ \A threads \in SUBSET Thread : VendorsForget(threads) =>
              \A w \in Vendor : vendorCur'[<<u, w>>] =
                                  IF u \in threads THEN None ELSE vendorCur[<<u, w>>]
<1>1. ASSUME NEW t \in Thread, NEW v \in Vendor, NEW b \in Binding \cup {None},
             VendorSet(t, v, b), NEW w \in Vendor
      PROVE  vendorCur'[<<u, w>>] = IF u = t /\ w = v THEN b ELSE vendorCur[<<u, w>>]
  <2>1. <<u, w>> \in Thread \X Vendor /\ (<<u, w>> = <<t, v>> <=> u = t /\ w = v)
    OBVIOUS
  <2> QED
    BY <1>1, <2>1 DEF TypeOK, VendorSet
<1>2. ASSUME NEW threads \in SUBSET Thread, VendorsForget(threads), NEW w \in Vendor
      PROVE  vendorCur'[<<u, w>>] = IF u \in threads THEN None ELSE vendorCur[<<u, w>>]
  <2>1. <<u, w>> \in Thread \X Vendor /\ <<u, w>>[1] = u
    OBVIOUS
  <2> QED
    BY <1>2, <2>1 DEF VendorsForget
<1> QED
  BY <1>1, <1>2

LEMMA KnownStep == ASSUME ~GlxAfterEgl PROVE AgreeInv /\ [Next]_vars => (\A u \in Thread : Known(u))'
<1> USE DEF stateVars, callVars, dispatchVars, vendorVars, forkVars
<1> SUFFICES ASSUME AgreeInv, [Next]_vars, NEW u \in Thread PROVE Known(u)'
  OBVIOUS
<1>a. TypeOK /\ Owned(u) /\ Known(u)
  BY DEF AgreeInv, TypeInv
<1>b. None \notin Vendor /\ None \notin ApiState /\ Glx \notin Vendor
  BY ConstantsAssumption
<1>1. ASSUME NEW t \in Thread, ErrorStep(t)
      PROVE  Known(u)'
  <2>1. UNCHANGED <<pc, apiState, eglFork, vendorCur, current>>
    BY <1>1 DEF ErrorStep, Reject, Answer, GetError, VendorAnswers, GetPlatformDisplay, BindAPI
  <2> QED
    BY <1>a, <2>1, KnownFrame
<1>2. ASSUME NEW t \in Thread, NEW b \in Binding, AcquireFirst(t, b)
      PROVE  Known(u)'
  <2>1. CASE u = t
    <3>1. \A v \in Vendor : vendorCur'[<<t, v>>] = None
      BY <1>2, <1>a, <1>b, <2>1 DEF Known, AcquireFirst, CanCall, HasContext
    <3>2. pc'[t] = "dispatch"
      BY <1>2, <1>a DEF TypeOK, AcquireFirst, StartAcquire
    <3> QED
      BY <2>1, <3>1, <3>2 DEF Known
  <2>2. CASE u # t
    BY <1>2, <1>a, <2>2, KnownFrame DEF TypeOK, AcquireFirst, StartAcquire
  <2> QED
    BY <2>1, <2>2
<1>3. ASSUME NEW t \in Thread, NEW b \in Binding, SwitchBinding(t, b)
      PROVE  Known(u)'
  <2> DEFINE v == apiState[t].currentVendor
  <2>1. v \in Vendor
    BY <1>3, ConstantsAssumption DEF SwitchBinding
  <2>2. /\ pc[t] = "idle" /\ pc'[t] = "idle"
        /\ u # t => pc'[u] = pc[u]
        /\ UNCHANGED <<current, eglFork>>
    BY <1>3, <1>a DEF TypeOK, SwitchBinding, CanCall, EndCall
  <2>3. \/ VendorSet(t, v, b) /\ apiState' = [apiState EXCEPT ![t].binding = b]
        \/ UNCHANGED <<apiState, vendorCur>>
    BY <1>3 DEF SwitchBinding
  <2> HIDE DEF v
  <2>4. CASE u = t
    <3>1. v = current[t] /\ apiState[t] \in ApiState /\ HasContext(t)
      BY <1>3, <1>a, <2>2, <2>4 DEF Owned, SwitchBinding, v
    <3>2. CASE VendorSet(t, v, b) /\ apiState' = [apiState EXCEPT ![t].binding = b]
      <4>1. apiState'[t].binding = b
        BY <1>a, <3>1, <3>2 DEF TypeOK, ApiState
      <4>2. \A w \in Vendor : vendorCur'[<<t, w>>] = IF w = v THEN b ELSE vendorCur[<<t, w>>]
        BY <1>a, <2>1, <3>2, VendorCurOf
      <4>3. \A w \in Vendor : w # v => vendorCur[<<t, w>>] = None
        BY <1>a, <2>2, <2>4, <3>1 DEF Known
      <4> QED
        BY <2>1, <2>2, <2>4, <3>1, <4>1, <4>2, <4>3 DEF Known, HasContext
    <3>3. CASE UNCHANGED <<apiState, vendorCur>>
      BY <1>a, <2>2, <2>4, <3>3, KnownFrame
    <3> QED
      BY <2>3, <3>2, <3>3
  <2>5. CASE u # t
    <3>1. apiState'[u] = apiState[u]
      BY <1>a, <2>3, <2>5 DEF TypeOK
    <3>2. \A w \in Vendor : vendorCur'[<<u, w>>] = vendorCur[<<u, w>>]
      BY <1>a, <2>1, <2>3, <2>5, VendorCurOf
    <3> QED
      BY <1>a, <2>2, <2>5, <3>1, <3>2, KnownFrame
  <2> QED
    BY <2>4, <2>5
<1>4. ASSUME NEW t \in Thread, NEW b \in Binding \cup {None}, LoseCurrent(t, b)
      PROVE  Known(u)'
  <2> DEFINE v == apiState[t].currentVendor
  <2>1. /\ pc[t] = "idle" /\ HasContext(t)
        /\ UNCHANGED eglFork
    BY <1>4 DEF LoseCurrent, CanCall
  <2>2. v = current[t] /\ v \in Vendor
    BY <2>1 DEF AgreeInv, TypeInv, Owned, HasContext
  <2>3. \/ /\ VendorSet(t, v, None)
           /\ Dispatch!Release({t})
           /\ \/ apiState' = [apiState EXCEPT ![t] = None] /\ EndCall(t, "no")
              \/ StartAcquire(t, b)
        \/ EndCall(t, "yes") /\ UNCHANGED <<apiState, vendorCur, current>>
    BY <1>4 DEF LoseCurrent
  <2>4. /\ u # t => pc'[u] = pc[u] /\ apiState'[u] = apiState[u] /\ current'[u] = current[u]
        /\ \/ /\ VendorSet(t, v, None) /\ current'[t] = None
              /\ \/ pc'[t] = "idle" /\ apiState'[t] = None
                 \/ pc'[t] = "dispatch"
           \/ pc'[t] = "idle" /\ UNCHANGED <<apiState, vendorCur, current>>
    <3> HIDE DEF v
    <3>1. CASE EndCall(t, "yes") /\ UNCHANGED <<apiState, vendorCur, current>>
      BY <1>a, <3>1 DEF TypeOK, EndCall
    <3>2. CASE /\ VendorSet(t, v, None) /\ Dispatch!Release({t})
               /\ apiState' = [apiState EXCEPT ![t] = None] /\ EndCall(t, "no")
      BY <1>a, <3>2 DEF TypeOK, EndCall, Dispatch!Release
    <3>3. CASE VendorSet(t, v, None) /\ Dispatch!Release({t}) /\ StartAcquire(t, b)
      BY <1>a, <3>3 DEF TypeOK, StartAcquire, Dispatch!Release
    <3> QED
      BY <2>3, <3>1, <3>2, <3>3
  <2> HIDE DEF v
  <2>5. CASE u # t
    <3>1. \A w \in Vendor : vendorCur'[<<u, w>>] = vendorCur[<<u, w>>]
      BY <1>a, <2>2, <2>4, <2>5, VendorCurOf
    <3> QED
      BY <1>a, <2>1, <2>4, <2>5, <3>1, KnownFrame
  <2>6. CASE u = t
    <3>1. CASE pc'[t] = "idle" /\ UNCHANGED <<apiState, vendorCur, current>>
      BY <1>a, <2>1, <2>6, <3>1, KnownFrame
    <3>2. CASE /\ VendorSet(t, v, None) /\ current'[t] = None
               /\ \/ pc'[t] = "idle" /\ apiState'[t] = None
                  \/ pc'[t] = "dispatch"
      <4>1. \A w \in Vendor : w # v => vendorCur[<<t, w>>] = None
        BY <1>a, <2>1, <2>2, <2>6 DEF Known
      <4>2. \A w \in Vendor : vendorCur'[<<t, w>>] = None
        BY <1>a, <2>2, <3>2, <4>1, VendorCurOf
      <4> QED
        BY <1>b, <2>6, <3>2, <4>2 DEF Known, HasContext
    <3> QED
      BY <2>4, <3>1, <3>2
  <2> QED
    BY <2>5, <2>6
<1>5. ASSUME NEW t \in Thread, DispatchMakeCurrent(t)
      PROVE  Known(u)'
  <2>1. /\ pc[t] = "dispatch"
        /\ u # t => pc'[u] = pc[u] /\ apiState'[u] = apiState[u] /\ current'[u] = current[u]
        /\ \/ pc'[t] = "vendor"
           \/ pc'[t] = "idle" /\ apiState'[t] = None /\ current'[t] = current[t]
        /\ UNCHANGED <<vendorCur, eglFork>>
    BY <1>5, <1>a
       DEF TypeOK, DispatchMakeCurrent, EndCall, Dispatch!Acquire, Dispatch!ChangeOwner
  <2>2. CASE u # t
    BY <1>a, <2>1, <2>2, KnownFrame
  <2>3. CASE u = t
    <3>1. /\ current[t] = None
          /\ \A v \in Vendor : vendorCur[<<t, v>>] = None
      BY <1>a, <2>1, <2>3 DEF Owned, Known
    <3> QED
      BY <1>b, <2>1, <2>3, <3>1 DEF Known, HasContext
  <2> QED
    BY <2>2, <2>3
<1>6. ASSUME NEW t \in Thread, VendorMakeCurrent(t)
      PROVE  Known(u)'
  <2> DEFINE v == apiState[t].currentVendor
  <2>1. /\ pc[t] = "vendor"
        /\ UNCHANGED eglFork
    BY <1>6 DEF VendorMakeCurrent
  <2>2. /\ v = current[t] /\ v \in Vendor
        /\ new[t] \in Binding /\ apiState[t] \in ApiState
    BY <2>1, ConstantsAssumption DEF AgreeInv, TypeInv, Owned
  <2>3. /\ u # t => pc'[u] = pc[u] /\ apiState'[u] = apiState[u] /\ current'[u] = current[u]
        /\ pc'[t] = "idle"
        /\ \/ /\ VendorSet(t, v, new[t]) /\ current'[t] = current[t]
              /\ apiState'[t] = [apiState[t] EXCEPT !.binding = new[t]]
           \/ current'[t] = None /\ apiState'[t] = None /\ UNCHANGED vendorCur
    BY <1>6, <1>a DEF TypeOK, VendorMakeCurrent, EndCall, Dispatch!Release
  <2> HIDE DEF v
  <2>4. CASE u # t
    <3>1. \A w \in Vendor : vendorCur'[<<u, w>>] = vendorCur[<<u, w>>]
      BY <1>a, <2>2, <2>3, <2>4, VendorCurOf
    <3> QED
      BY <1>a, <2>1, <2>3, <2>4, <3>1, KnownFrame
  <2>5. CASE u = t
    <3>1. \A w \in Vendor : vendorCur[<<t, w>>] = None
      BY <1>a, <2>1, <2>5 DEF Known
    <3>2. CASE /\ VendorSet(t, v, new[t]) /\ current'[t] = current[t]
               /\ apiState'[t] = [apiState[t] EXCEPT !.binding = new[t]]
      <4>1. apiState'[t].binding = new[t]
        BY <2>2, <3>2 DEF ApiState
      <4>2. \A w \in Vendor : vendorCur'[<<t, w>>] = IF w = v THEN new[t] ELSE None
        BY <1>a, <2>2, <3>1, <3>2, VendorCurOf
      <4> QED
        BY <2>2, <2>3, <2>5, <3>2, <4>1, <4>2 DEF Known, HasContext
    <3>3. CASE current'[t] = None /\ apiState'[t] = None /\ UNCHANGED vendorCur
      BY <1>b, <2>3, <2>5, <3>1, <3>3, KnownIdle
    <3> QED
      BY <2>3, <3>2, <3>3
  <2> QED
    BY <2>4, <2>5
<1>7. ASSUME NEW t \in Thread, ReleaseThread(t)
      PROVE  Known(u)'
  <2>1. /\ pc[t] = "idle"
        /\ UNCHANGED <<pc, eglFork>>
        /\ \/ /\ VendorsForget({t})
              /\ \/ /\ HasContext(t) /\ Dispatch!Release({t})
                    /\ apiState' = [apiState EXCEPT ![t] = None]
                 \/ ~HasContext(t) /\ UNCHANGED <<apiState, current>>
           \/ UNCHANGED <<apiState, current, vendorCur>>
    BY <1>7 DEF ReleaseThread
  <2>2. CASE UNCHANGED <<apiState, current, vendorCur>>
    BY <1>a, <2>1, <2>2, KnownFrame
  <2>3. CASE VendorsForget({t}) /\ ~HasContext(t) /\ UNCHANGED <<apiState, current>>
    <3>1. \A w \in Vendor : vendorCur'[<<u, w>>] = IF u = t THEN None ELSE vendorCur[<<u, w>>]
      BY <1>a, <2>3, VendorCurOf
    <3> QED
      BY <1>a, <2>1, <2>3, <3>1 DEF Known, HasContext
  <2>4. CASE /\ VendorsForget({t}) /\ Dispatch!Release({t})
             /\ apiState' = [apiState EXCEPT ![t] = None]
    <3>1. \A w \in Vendor : vendorCur'[<<u, w>>] = IF u = t THEN None ELSE vendorCur[<<u, w>>]
      BY <1>a, <2>4, VendorCurOf
    <3>2. /\ current'[u] = IF u = t THEN None ELSE current[u]
          /\ apiState'[u] = IF u = t THEN None ELSE apiState[u]
      BY <1>a, <2>4 DEF TypeOK, Dispatch!Release
    <3> QED
      BY <1>a, <1>b, <2>1, <3>1, <3>2, KnownFrame, KnownIdle
  <2> QED
    BY <2>1, <2>2, <2>3, <2>4
<1>8. ASSUME NEW t \in Thread, ThreadExit(t)
      PROVE  Known(u)'
  <2>1. /\ pc[t] = "idle"
        /\ UNCHANGED <<pc, eglFork>>
        /\ current'[u] = IF u = t THEN None ELSE current[u]
        /\ apiState'[u] = IF u = t THEN None ELSE apiState[u]
    BY <1>8, <1>a DEF TypeOK, ThreadExit, Dispatch!Release
  <2>2. \A w \in Vendor : vendorCur'[<<u, w>>] = IF u = t THEN None ELSE vendorCur[<<u, w>>]
    BY <1>8, <1>a, VendorCurOf DEF ThreadExit
  <2> QED
    BY <1>a, <1>b, <2>1, <2>2, KnownFrame, KnownIdle
<1>9. ASSUME NEW t \in Thread, Fork(t)
      PROVE  Known(u)'
  <2>1. /\ pc[t] = "idle" /\ pc'[u] = "idle"
        /\ eglFork'
        /\ current'[u] = IF u = t THEN current[u] ELSE None
        /\ apiState'[u] = IF u = t THEN apiState[u] ELSE None
    BY <1>9, <1>a DEF TypeOK, Fork, Dispatch!Release
  <2>2. \A w \in Vendor : vendorCur'[<<u, w>>] = IF u = t THEN vendorCur[<<u, w>>] ELSE None
    BY <1>9, <1>a, VendorCurOf DEF Fork
  <2>3. CASE u = t
    BY <1>a, <2>1, <2>2, <2>3 DEF Known, HasContext
  <2>4. CASE u # t
    BY <1>b, <2>1, <2>2, <2>4, KnownIdle
  <2> QED
    BY <2>3, <2>4
<1>10. ASSUME NEW t \in Thread, ResetOnFork(t)
       PROVE  Known(u)'
  <2>1. /\ pc[u] = "idle" /\ pc'[u] = "idle"
        /\ apiState'[u] = None
        /\ current'[u] = IF u = t THEN None ELSE current[u]
        /\ u # t => apiState[u] = None
    BY <1>10, <1>a DEF AgreeInv, TypeInv, TypeOK, ResetOnFork, Dispatch!Release
  <2>2. \A w \in Vendor : vendorCur'[<<u, w>>] = IF u = t THEN None ELSE vendorCur[<<u, w>>]
    BY <1>10, <1>a, VendorCurOf DEF ResetOnFork
  <2>3. u # t => current[u] \notin Vendor
    BY <1>a, <1>b, <2>1 DEF Owned, HasContext
  <2>4. \A w \in Vendor : vendorCur'[<<u, w>>] = None
    BY <1>a, <2>1, <2>2, <2>3 DEF Known, HasContext
  <2> QED
    BY <1>b, <2>1, <2>3, <2>4, KnownIdle
<1>11. ASSUME NEW t \in Thread, GlxMakeCurrent(t) \/ GlxLoseCurrent(t)
       PROVE  Known(u)'
  <2>1. /\ UNCHANGED <<pc, apiState, eglFork, vendorCur>>
        /\ current'[u] = current[u] \/ (current[u] \notin Vendor /\ current'[u] \notin Vendor)
    BY <1>11, <1>a, <1>b
       DEF TypeOK, GlxMakeCurrent, GlxLoseCurrent, Dispatch!Acquire, Dispatch!Release
  <2> QED
    BY <1>a, <2>1, KnownFrame
<1>12. ASSUME NEW t \in Thread, GlxResetOnFork(t)
       PROVE  Known(u)'
  <2>1. /\ pc[t] = "idle" /\ eglFork
        /\ UNCHANGED <<pc, apiState, eglFork, vendorCur>>
        /\ current'[u] = IF u = t THEN None ELSE current[u]
    BY <1>12, <1>a DEF TypeOK, GlxResetOnFork, Dispatch!Release
  <2>2. CASE current'[u] = current[u]
    BY <1>a, <2>1, <2>2, KnownFrame
  <2>3. CASE u = t
    BY <1>a, <1>b, <2>1, <2>3 DEF Known, Owned, HasContext
  <2> QED
    BY <2>1, <2>2, <2>3
<1>13. CASE UNCHANGED vars
  BY <1>13, <1>a, KnownFrame DEF vars
<1> QED
  BY <1>1, <1>2, <1>3, <1>4, <1>5, <1>6, <1>7, <1>8, <1>9, <1>10, <1>11, <1>12, <1>13
     DEF Next, MakeCurrentStep, LifeStep, GlxStep

LEMMA AgreeInvariant == ASSUME ~GlxAfterEgl PROVE Spec => []AgreeInv
<1>1. Init => AgreeInv
  <2> SUFFICES ASSUME Init PROVE AgreeInv
    OBVIOUS
  <2>1. \A t \in Thread : Known(t)
    BY ConstantsAssumption DEF Init, Known, HasContext, Dispatch!Init
  <2> QED
    BY <2>1, TypeInvInit DEF AgreeInv
<1>2. AgreeInv /\ [Next]_vars => AgreeInv'
  BY TypeInvStep, KnownStep DEF AgreeInv
<1> QED
  BY <1>1, <1>2, PTL DEF Spec

\* libEGL, libGLdispatch and the vendors agree on what is current between any two
\* EGL calls of a thread.
THEOREM EglAgreement == ASSUME ~GlxAfterEgl PROVE Spec => []Agreement
<1>1. AgreeInv => Agreement
  <2> SUFFICES ASSUME AgreeInv, NEW t \in Thread, CanCall(t)
               PROVE  /\ (apiState[t] = None) <=> ~HasContext(t)
                      /\ apiState[t] # None => apiState[t].currentVendor = current[t]
                      /\ \A v \in Vendor : vendorCur[<<t, v>>] =
                           IF current[t] = v THEN apiState[t].binding ELSE None
    BY DEF Agreement
  <2>1. Owned(t) /\ Known(t) /\ None \notin ApiState
    BY ConstantsAssumption DEF AgreeInv, TypeInv
  <2> QED
    BY <2>1 DEF CanCall, Owned, Known, HasContext
<1> QED
  BY <1>1, AgreeInvariant, PTL

-----------------------------------------------------------------------------
(* The client API and the error of a thread.                               *)

\* Recording an error leaves the client API alone.
LEMMA ErrorKeepsApi ==
  ASSUME NEW s \in ThreadState \cup {None}
  PROVE  /\ \A e \in BOOLEAN :
              Created(SetError(s, e)).currentClientApi = Created(s).currentClientApi
         /\ \A v \in Vendor :
              Created(SetLastVendor(s, v)).currentClientApi = Created(s).currentClientApi
<1>1. Created(s) \in ThreadState
  BY ErrorType
<1>2. ASSUME NEW r \in ThreadState PROVE Created(r) = r
  BY ConstantsAssumption DEF Created
<1> DEFINE r == Created(s)
<1>3. r \in ThreadState
  BY <1>1
<1>4. ASSUME NEW e \in BOOLEAN
      PROVE  Created(SetError(s, e)).currentClientApi = r.currentClientApi
  <2>1. CASE SetError(s, e) = None
    <3>1. s = None
      BY <2>1, ErrorType
    <3> QED
      BY <2>1, <3>1
  <2>2. CASE SetError(s, e) = [r EXCEPT !.lastError = e, !.lastVendor = None]
    <3> HIDE DEF r
    <3>1. /\ SetError(s, e) \in ThreadState
          /\ SetError(s, e).currentClientApi = r.currentClientApi
      BY <1>3, <2>2 DEF ThreadState
    <3> QED
      BY <1>2, <3>1
  <2> QED
    BY <2>1, <2>2 DEF SetError
<1>5. ASSUME NEW v \in Vendor
      PROVE  Created(SetLastVendor(s, v)).currentClientApi = r.currentClientApi
  <2>1. SetLastVendor(s, v) = [r EXCEPT !.lastError = FALSE, !.lastVendor = v]
    BY DEF SetLastVendor
  <2> HIDE DEF r
  <2>2. /\ SetLastVendor(s, v) \in ThreadState
        /\ SetLastVendor(s, v).currentClientApi = r.currentClientApi
    BY <1>3, <2>1 DEF ThreadState
  <2> QED
    BY <1>2, <2>2
<1> QED
  BY <1>4, <1>5

ApiOf(t) == Created(threadState[t]).currentClientApi = vendorApi[t]

ApiInv == TypeInv /\ \A t \in Thread : ApiOf(t)

LEMMA ApiStep == ApiInv /\ [Next]_vars => (\A u \in Thread : ApiOf(u))'
<1> USE DEF stateVars, callVars, dispatchVars, vendorVars, forkVars
<1> SUFFICES ASSUME ApiInv, [Next]_vars, NEW u \in Thread PROVE ApiOf(u)'
  OBVIOUS
<1>a. TypeOK /\ ApiOf(u) /\ threadState[u] \in ThreadState \cup {None}
  BY DEF ApiInv, TypeInv, TypeOK
\* An error is recorded, or nothing.
<1>1. ASSUME NEW t \in Thread,
             \/ \E e \in BOOLEAN : threadState' = [threadState EXCEPT ![t] = SetError(@, e)]
             \/ \E v \in Vendor : threadState' = [threadState EXCEPT ![t] = SetLastVendor(@, v)]
             \/ UNCHANGED threadState,
             UNCHANGED vendorApi
      PROVE  ApiOf(u)'
  <2>1. Created(threadState'[u]).currentClientApi = Created(threadState[u]).currentClientApi
    <3>1. CASE threadState'[u] = threadState[u]
      BY <3>1
    <3>2. CASE \/ \E e \in BOOLEAN : threadState'[u] = SetError(threadState[u], e)
               \/ \E v \in Vendor : threadState'[u] = SetLastVendor(threadState[u], v)
      BY <1>a, <3>2, ErrorKeepsApi
    <3> QED
      BY <1>1, <1>a, <3>1, <3>2 DEF TypeOK
  <2> QED
    BY <1>1, <1>a, <2>1 DEF ApiOf
\* The thread state is dropped, and the vendors forget.
<1>2. ASSUME threadState'[u] = None, vendorApi'[u] = DefaultApi
      PROVE  ApiOf(u)'
  BY <1>2 DEF ApiOf, Created
<1>3. ASSUME threadState'[u] = threadState[u], vendorApi'[u] = vendorApi[u]
      PROVE  ApiOf(u)'
  BY <1>3, <1>a DEF ApiOf
<1>4. ASSUME NEW t \in Thread, Reject(t) \/ Answer(t) \/ \E v \in Vendor : VendorAnswers(t, v)
      PROVE  ApiOf(u)'
  BY <1>1, <1>4 DEF Reject, Answer, VendorAnswers
<1>5. ASSUME NEW t \in Thread, NEW refusing \in SUBSET Vendor,
             NEW withError \in SUBSET Vendor, GetPlatformDisplay(t, refusing, withError)
      PROVE  ApiOf(u)'
  <2> DEFINE error == withError = Vendor
  <2>1. threadState' = [threadState EXCEPT ![t] = SetError(@, error)] /\ UNCHANGED vendorApi
    BY <1>5 DEF GetPlatformDisplay
  <2>2. error \in BOOLEAN
    OBVIOUS
  <2> HIDE DEF error
  <2> QED
    BY <1>1, <2>1, <2>2
<1>6. ASSUME NEW t \in Thread, GetError(t)
      PROVE  ApiOf(u)'
  <2>1. CASE u # t
    BY <1>3, <1>6, <1>a, <2>1 DEF GetError, TypeOK
  <2>2. CASE u = t
    <3>1. threadState[t] \in ThreadState
      BY <1>6, <1>a, <2>2 DEF GetError
    <3>2. /\ [threadState[t] EXCEPT !.lastVendor = None, !.lastError = FALSE] \in ThreadState
          /\ [threadState[t] EXCEPT !.lastVendor = None, !.lastError = FALSE].currentClientApi
               = threadState[t].currentClientApi
      BY <3>1 DEF ThreadState
    <3>3. /\ threadState'[t] = [threadState[t] EXCEPT !.lastVendor = None, !.lastError = FALSE]
          /\ UNCHANGED vendorApi
      BY <1>6, <1>a DEF GetError, TypeOK
    <3>4. /\ Created(threadState'[t]) = threadState'[t]
          /\ Created(threadState[t]) = threadState[t]
      BY <3>1, <3>2, <3>3, ConstantsAssumption DEF Created
    <3> QED
      BY <1>a, <2>2, <3>2, <3>3, <3>4 DEF ApiOf
  <2> QED
    BY <2>1, <2>2
<1>7. ASSUME NEW t \in Thread, NEW api \in Apis, BindAPI(t, api)
      PROVE  ApiOf(u)'
  <2>1. CASE u # t
    BY <1>3, <1>7, <1>a, <2>1 DEF BindAPI, TypeOK
  <2>2. CASE u = t
    <3> DEFINE s == Created(SetError(threadState[t], FALSE))
    <3>1. s \in ThreadState
      BY <1>a, <2>2, ErrorType
    <3>2. threadState'[t] = [s EXCEPT !.currentClientApi = api] /\ vendorApi'[t] = api
      BY <1>7, <1>a DEF BindAPI, TypeOK
    <3> HIDE DEF s
    <3>3. /\ [s EXCEPT !.currentClientApi = api] \in ThreadState
          /\ [s EXCEPT !.currentClientApi = api].currentClientApi = api
      BY <3>1 DEF ThreadState
    <3> QED
      BY <2>2, <3>2, <3>3, ConstantsAssumption DEF ApiOf, Created
  <2> QED
    BY <2>1, <2>2
<1>8. ASSUME NEW t \in Thread, NEW b \in Binding, AcquireFirst(t, b)
      PROVE  ApiOf(u)'
  BY <1>1, <1>8 DEF AcquireFirst
<1>9. ASSUME NEW t \in Thread, MakeCurrentStep(t), ~\E b \in Binding : AcquireFirst(t, b)
      PROVE  ApiOf(u)'
  <2> DEFINE v == apiState[t].currentVendor
  <2>1. DispatchMakeCurrent(t) \/ v \in Vendor
    <3>1. Owned(t) /\ \A b \in Binding : VendorOf[b] \in Vendor
      BY ConstantsAssumption DEF ApiInv, TypeInv
    <3>2. CASE \E b \in Binding : SwitchBinding(t, b)
      BY <3>1, <3>2 DEF SwitchBinding
    <3>3. CASE \E b \in Binding \cup {None} : LoseCurrent(t, b)
      BY <3>1, <3>3 DEF LoseCurrent, Owned, CanCall, HasContext
    <3>4. CASE VendorMakeCurrent(t)
      BY <3>1, <3>4 DEF VendorMakeCurrent, Owned
    <3> QED
      BY <1>9, <3>2, <3>3, <3>4 DEF MakeCurrentStep
  <2>2. /\ UNCHANGED vendorApi
        /\ \/ threadState' = [threadState EXCEPT ![t] = SetLastVendor(@, v)]
           \/ DispatchMakeCurrent(t) /\ UNCHANGED threadState
    BY <1>9 DEF MakeCurrentStep, SwitchBinding, LoseCurrent, DispatchMakeCurrent,
       VendorMakeCurrent
  <2>3. UNCHANGED threadState \/ v \in Vendor
    BY <2>1 DEF DispatchMakeCurrent
  <2> HIDE DEF v
  <2> QED
    BY <1>1, <2>2, <2>3
<1>10. ASSUME NEW t \in Thread, ReleaseThread(t)
       PROVE  ApiOf(u)'
  <2>1. CASE VendorsForget({t}) /\ threadState' = [threadState EXCEPT ![t] = None]
    <3>1. vendorApi'[u] = IF u = t THEN DefaultApi ELSE vendorApi[u]
      BY <2>1 DEF VendorsForget
    <3> QED
      BY <1>2, <1>3, <1>a, <2>1, <3>1 DEF TypeOK
  <2>2. CASE /\ HasContext(t) /\ UNCHANGED vendorApi
             /\ threadState' = [threadState EXCEPT ![t].lastVendor = apiState[t].currentVendor]
    <3>1. CASE u # t
      BY <1>3, <1>a, <2>2, <3>1 DEF TypeOK
    <3>2. CASE u = t
      <4>1. threadState[t] \in ThreadState /\ apiState[t].currentVendor \in Vendor
        BY <1>10, <1>a, <2>2, <3>2 DEF ApiInv, TypeInv, Owned, HasContext, ReleaseThread
      <4>2. /\ [threadState[t] EXCEPT !.lastVendor = apiState[t].currentVendor] \in ThreadState
            /\ [threadState[t] EXCEPT
                  !.lastVendor = apiState[t].currentVendor].currentClientApi
                 = threadState[t].currentClientApi
        BY <4>1 DEF ThreadState
      <4>3. threadState'[t] = [threadState[t] EXCEPT !.lastVendor = apiState[t].currentVendor]
        BY <1>a, <2>2 DEF TypeOK
      <4>4. /\ Created(threadState'[t]) = threadState'[t]
            /\ Created(threadState[t]) = threadState[t]
        BY <4>1, <4>2, <4>3, ConstantsAssumption DEF Created
      <4> QED
        BY <1>a, <2>2, <3>2, <4>2, <4>3, <4>4 DEF ApiOf
    <3> QED
      BY <3>1, <3>2
  <2> QED
    BY <1>10, <2>1, <2>2 DEF ReleaseThread
<1>11. ASSUME NEW t \in Thread, ThreadExit(t)
       PROVE  ApiOf(u)'
  <2>1. /\ threadState'[u] = IF u = t THEN None ELSE threadState[u]
        /\ vendorApi'[u] = IF u = t THEN DefaultApi ELSE vendorApi[u]
    BY <1>11, <1>a DEF TypeOK, ThreadExit, VendorsForget
  <2> QED
    BY <1>2, <1>3, <2>1
<1>12. ASSUME NEW t \in Thread, Fork(t)
       PROVE  ApiOf(u)'
  <2>1. /\ threadState'[u] = IF u = t THEN threadState[u] ELSE None
        /\ vendorApi'[u] = IF u = t THEN vendorApi[u] ELSE DefaultApi
    BY <1>12 DEF Fork, VendorsForget
  <2> QED
    BY <1>2, <1>3, <2>1
<1>13. ASSUME NEW t \in Thread, ResetOnFork(t)
       PROVE  ApiOf(u)'
  <2>1. /\ threadState'[u] = None
        /\ u # t => threadState[u] = None
        /\ vendorApi'[u] = IF u = t THEN DefaultApi ELSE vendorApi[u]
    BY <1>13 DEF ResetOnFork, VendorsForget
  <2>2. u # t => vendorApi[u] = DefaultApi
    BY <1>a, <2>1 DEF ApiOf, Created
  <2> QED
    BY <1>2, <2>1, <2>2
<1>14. ASSUME NEW t \in Thread, GlxStep(t)
       PROVE  ApiOf(u)'
  BY <1>3, <1>14 DEF GlxStep, GlxMakeCurrent, GlxLoseCurrent, GlxResetOnFork
<1>15. CASE UNCHANGED vars
  BY <1>3, <1>15 DEF vars
<1> QED
  BY <1>4, <1>5, <1>6, <1>7, <1>8, <1>9, <1>10, <1>11, <1>12, <1>13, <1>14, <1>15
     DEF Next, ErrorStep, LifeStep, MakeCurrentStep

\* libEGL and the vendors agree on the client API of every thread.
THEOREM EglApi == Spec => []ApiAgreement
<1>1. Init => ApiInv
  <2> SUFFICES ASSUME Init PROVE ApiInv
    OBVIOUS
  <2>1. \A t \in Thread : ApiOf(t)
    BY DEF Init, ApiOf, Created
  <2> QED
    BY <2>1, TypeInvInit DEF ApiInv
<1>2. ApiInv /\ [Next]_vars => ApiInv'
  BY TypeInvStep, ApiStep DEF ApiInv
<1>3. ApiInv => ApiAgreement
  BY DEF ApiInv, ApiOf, ApiAgreement
<1> QED
  BY <1>1, <1>2, <1>3, PTL DEF Spec

\* The error that a thread state stands for, when the vendors in e would report one.
ErrorOf(s, e) ==
  /\ s # None
  /\ IF s.lastVendor # None THEN s.lastVendor \in e ELSE s.lastError = TRUE

\* What is recorded is what is reported.
LEMMA RecordedError ==
  ASSUME NEW s \in ThreadState \cup {None}, NEW e \in SUBSET Vendor
  PROVE  /\ \A error \in BOOLEAN : ErrorOf(SetError(s, error), e) <=> error
         /\ \A v \in Vendor : ErrorOf(SetLastVendor(s, v), e) <=> v \in e
         /\ \A api \in Apis :
              ~ErrorOf([Created(SetError(s, FALSE)) EXCEPT !.currentClientApi = api], e)
         /\ ~ErrorOf([s EXCEPT !.lastVendor = None, !.lastError = FALSE], e) \/ s = None
         /\ s # None => \A v \in Vendor : ErrorOf([s EXCEPT !.lastVendor = v], e) <=> v \in e
<1> DEFINE r == Created(s)
<1>1. r \in ThreadState
  BY ErrorType
<1>2. None \notin ThreadState \cup Vendor
  BY ConstantsAssumption
<1>3. ASSUME NEW error \in BOOLEAN
      PROVE  ErrorOf(SetError(s, error), e) <=> error
  <2>1. CASE s = None /\ ~error
    BY <2>1 DEF ErrorOf, SetError
  <2>2. CASE ~(s = None /\ ~error)
    <3>1. SetError(s, error) = [r EXCEPT !.lastError = error, !.lastVendor = None]
      BY <2>2 DEF SetError
    <3> HIDE DEF r
    <3>2. /\ SetError(s, error) # None
          /\ SetError(s, error).lastVendor = None
          /\ SetError(s, error).lastError = error
      BY <1>1, <1>2, <3>1 DEF ThreadState
    <3> QED
      BY <3>2 DEF ErrorOf
  <2> QED
    BY <2>1, <2>2
<1>4. ASSUME NEW v \in Vendor
      PROVE  ErrorOf(SetLastVendor(s, v), e) <=> v \in e
  <2>1. SetLastVendor(s, v) = [r EXCEPT !.lastError = FALSE, !.lastVendor = v]
    BY DEF SetLastVendor
  <2> HIDE DEF r
  <2>2. SetLastVendor(s, v) # None /\ SetLastVendor(s, v).lastVendor = v
    BY <1>1, <1>2, <2>1 DEF ThreadState
  <2> QED
    BY <1>2, <2>2 DEF ErrorOf
<1>5. ASSUME NEW api \in Apis
      PROVE  ~ErrorOf([Created(SetError(s, FALSE)) EXCEPT !.currentClientApi = api], e)
  <2> DEFINE c == Created(SetError(s, FALSE))
  <2>1. c \in ThreadState /\ c.lastVendor = None /\ c.lastError = FALSE
    <3>1. CASE s = None
      BY <3>1 DEF SetError, Created, ThreadState, Apis, DefaultApi
    <3>2. CASE s # None
      <4>1. SetError(s, FALSE) = [s EXCEPT !.lastError = FALSE, !.lastVendor = None]
        BY <3>2 DEF SetError, Created
      <4>2. /\ SetError(s, FALSE) \in ThreadState
            /\ SetError(s, FALSE).lastVendor = None
            /\ SetError(s, FALSE).lastError = FALSE
        BY <3>2, <4>1 DEF ThreadState
      <4>3. c = SetError(s, FALSE)
        BY <1>2, <4>2 DEF Created
      <4> QED
        BY <4>2, <4>3
    <3> QED
      BY <3>1, <3>2
  <2> HIDE DEF c
  <2>2. /\ [c EXCEPT !.currentClientApi = api].lastVendor = None
        /\ [c EXCEPT !.currentClientApi = api].lastError = FALSE
    BY <2>1 DEF ThreadState
  <2> QED
    BY <2>2 DEF ErrorOf, c
<1>6. ASSUME s # None
      PROVE  ~ErrorOf([s EXCEPT !.lastVendor = None, !.lastError = FALSE], e)
  <2>1. /\ [s EXCEPT !.lastVendor = None, !.lastError = FALSE].lastVendor = None
        /\ [s EXCEPT !.lastVendor = None, !.lastError = FALSE].lastError = FALSE
    BY <1>6 DEF ThreadState
  <2> QED
    BY <2>1 DEF ErrorOf
<1>7. ASSUME s # None, NEW v \in Vendor
      PROVE  ErrorOf([s EXCEPT !.lastVendor = v], e) <=> v \in e
  <2>1. [s EXCEPT !.lastVendor = v] \in ThreadState /\ [s EXCEPT !.lastVendor = v].lastVendor = v
    BY <1>7 DEF ThreadState
  <2> QED
    BY <1>2, <2>1 DEF ErrorOf
<1> QED
  BY <1>3, <1>4, <1>5, <1>6, <1>7

Recorded(t) == ErrorOf(threadState[t], vendorErr[t])

\* When libGLdispatch is asked for a context, nothing is recorded any more that
\* its refusal would leave behind.
ErrorInv ==
  /\ TypeInv
  /\ \A t \in Thread :
       /\ pc[t] = "idle" => (Recorded(t) <=> failed[t] = "yes")
       /\ pc[t] = "dispatch" => ~Recorded(t)

LEMMA RecordedPrime ==
  ASSUME NEW t \in Thread
  PROVE  Recorded(t)' <=> ErrorOf(threadState'[t], vendorErr'[t])
BY DEF Recorded, ErrorOf

LEMMA ErrorFrame ==
  ASSUME ErrorInv, NEW u \in Thread, pc'[u] = pc[u],
         threadState'[u] = threadState[u], vendorErr'[u] = vendorErr[u], failed'[u] = failed[u]
  PROVE  /\ pc'[u] = "idle" => (Recorded(u)' <=> failed'[u] = "yes")
         /\ pc'[u] = "dispatch" => ~Recorded(u)'
BY DEF ErrorInv, Recorded, ErrorOf

\* The next two are what the functions that record something come to: libEGL's own
\* error, and the vendor that knows it.
LEMMA OwnErrorRecorded ==
  ASSUME TypeOK, NEW t \in Thread, NEW error \in BOOLEAN,
         threadState'[t] = SetError(threadState[t], error), vendorErr'[t] \in SUBSET Vendor
  PROVE  Recorded(t)' <=> error
<1>1. threadState[t] \in ThreadState \cup {None}
  BY DEF TypeOK
<1>2. ErrorOf(SetError(threadState[t], error), vendorErr'[t]) <=> error
  BY <1>1, RecordedError
<1>3. Recorded(t)' <=> ErrorOf(SetError(threadState[t], error), vendorErr'[t])
  BY RecordedPrime
<1> QED
  BY <1>2, <1>3

LEMMA VendorErrorRecorded ==
  ASSUME TypeOK, NEW t \in Thread, NEW v \in Vendor, NEW success \in BOOLEAN,
         VendorReturns(t, v, success), threadState'[t] = SetLastVendor(threadState[t], v)
  PROVE  Recorded(t)' <=> ~success
<1>1. vendorErr'[t] \in SUBSET Vendor
  BY VendorReturnsType
<1>2. v \in vendorErr'[t] <=> ~success
  BY DEF TypeOK, VendorReturns
<1>3. ErrorOf(SetLastVendor(threadState[t], v), vendorErr'[t]) <=> v \in vendorErr'[t]
  BY <1>1, RecordedError DEF TypeOK
<1>4. Recorded(t)' <=> ErrorOf(SetLastVendor(threadState[t], v), vendorErr'[t])
  BY RecordedPrime
<1> QED
  BY <1>2, <1>3, <1>4

LEMMA ErrorStepInv ==
  ErrorInv /\ [Next]_vars =>
    \A u \in Thread :
      /\ pc'[u] = "idle" => (Recorded(u)' <=> failed'[u] = "yes")
      /\ pc'[u] = "dispatch" => ~Recorded(u)'
<1> USE DEF stateVars, callVars, dispatchVars, vendorVars, forkVars
<1> DEFINE Right(u) == /\ pc'[u] = "idle" => (Recorded(u)' <=> failed'[u] = "yes")
                       /\ pc'[u] = "dispatch" => ~Recorded(u)'
<1> SUFFICES ASSUME ErrorInv, [Next]_vars, NEW u \in Thread PROVE Right(u)
  OBVIOUS
<1>a. /\ TypeOK
      /\ threadState[u] \in ThreadState \cup {None}
      /\ vendorErr[u] \in SUBSET Vendor
  BY DEF ErrorInv, TypeInv, TypeOK
<1>b. TypeOK'
  BY TypeStep DEF ErrorInv
\* The step of another thread.
<1>c. ASSUME pc'[u] = pc[u], threadState'[u] = threadState[u], vendorErr'[u] = vendorErr[u],
             failed'[u] = failed[u]
      PROVE  Right(u)
  BY <1>c, ErrorFrame
\* A thread that has no thread state any more.
<1>d. ASSUME threadState'[u] = None, failed'[u] # "yes"
      PROVE  Right(u)
  BY <1>d DEF Recorded, ErrorOf
\* A thread that has called libGLdispatch, ...
<1>e. ASSUME pc'[u] = "vendor" \/ (pc'[u] = "dispatch" /\ ~Recorded(u)')
      PROVE  Right(u)
  BY <1>e
\* ... and one that has returned.
<1>f. ASSUME pc'[u] = "idle", Recorded(u)' <=> failed'[u] = "yes"
      PROVE  Right(u)
  BY <1>f
<1>1. ASSUME NEW t \in Thread, Reject(t) \/ Answer(t)
      PROVE  Right(u)
  <2>1. CASE u # t
    BY <1>1, <1>a, <1>c, <2>1 DEF TypeOK, Reject, Answer
  <2>2. CASE u = t
    <3>1. \E error \in BOOLEAN : /\ threadState'[t] = SetError(threadState[t], error)
                                 /\ failed'[t] = IF error THEN "yes" ELSE "no"
      BY <1>1, <1>a DEF TypeOK, Reject, Answer
    <3>2. vendorErr'[t] \in SUBSET Vendor
      BY <1>b DEF TypeOK
    <3>3. pc'[t] = "idle"
      BY <1>1 DEF Reject, Answer, CanCall
    <3> QED
      BY <1>a, <1>f, <2>2, <3>1, <3>2, <3>3, OwnErrorRecorded
  <2> QED
    BY <2>1, <2>2
<1>2. ASSUME NEW t \in Thread, NEW v \in Vendor, VendorAnswers(t, v)
      PROVE  Right(u)
  <2>1. PICK success \in BOOLEAN :
          /\ VendorReturns(t, v, success)
          /\ failed' = [failed EXCEPT ![t] = IF success THEN "no" ELSE "yes"]
    BY <1>2 DEF VendorAnswers
  <2>2. threadState' = [threadState EXCEPT ![t] = SetLastVendor(@, v)] /\ UNCHANGED pc
    BY <1>2 DEF VendorAnswers
  <2>3. CASE u # t
    BY <1>a, <1>c, <2>1, <2>2, <2>3 DEF TypeOK, VendorReturns
  <2>4. CASE u = t
    <3>1. Recorded(t)' <=> ~success
      BY <1>a, <2>1, <2>2, VendorErrorRecorded DEF TypeOK
    <3>2. failed'[t] = IF success THEN "no" ELSE "yes"
      BY <1>a, <2>1 DEF TypeOK
    <3>3. pc'[t] = "idle"
      BY <1>2, <2>2 DEF VendorAnswers, CanCall
    <3> QED
      BY <1>f, <2>4, <3>1, <3>2, <3>3
  <2> QED
    BY <2>3, <2>4
<1>3. ASSUME NEW t \in Thread, NEW refusing \in SUBSET Vendor,
             NEW withError \in SUBSET Vendor, GetPlatformDisplay(t, refusing, withError)
      PROVE  Right(u)
  <2> DEFINE error == withError = Vendor
  <2>1. /\ threadState' = [threadState EXCEPT ![t] = SetError(@, error)]
        /\ failed' = [failed EXCEPT ![t] = IF error THEN "yes" ELSE "no"]
        /\ error \in BOOLEAN
        /\ UNCHANGED pc
    BY <1>3 DEF GetPlatformDisplay
  <2>2. u # t => vendorErr'[u] = vendorErr[u]
    BY <1>3, <1>a DEF GetPlatformDisplay, TypeOK
  <2> HIDE DEF error
  <2>3. CASE u # t
    BY <1>a, <1>c, <2>1, <2>2, <2>3 DEF TypeOK
  <2>4. CASE u = t
    <3>1. Recorded(t)' <=> error
      BY <1>a, <1>b, <2>1, OwnErrorRecorded DEF TypeOK
    <3>2. failed'[t] = IF error THEN "yes" ELSE "no"
      BY <1>a, <2>1 DEF TypeOK
    <3>3. pc'[t] = "idle"
      BY <1>3, <2>1 DEF GetPlatformDisplay, CanCall
    <3> QED
      BY <1>f, <2>4, <3>1, <3>2, <3>3
  <2> QED
    BY <2>3, <2>4
<1>4. ASSUME NEW t \in Thread, NEW api \in Apis, BindAPI(t, api)
      PROVE  Right(u)
  <2>1. CASE u # t
    BY <1>4, <1>a, <1>c, <2>1 DEF TypeOK, BindAPI
  <2>2. CASE u = t
    <3>1. /\ threadState'[t] = [Created(SetError(threadState[t], FALSE)) EXCEPT
                                  !.currentClientApi = api]
          /\ failed'[t] = "no"
          /\ vendorErr'[t] = vendorErr[t]
      BY <1>4, <1>a DEF TypeOK, BindAPI
    <3>2. ~ErrorOf(threadState'[t], vendorErr'[t])
      <4>1. ~ErrorOf([Created(SetError(threadState[t], FALSE)) EXCEPT
                       !.currentClientApi = api], vendorErr[t])
        BY <1>a, <2>2, RecordedError
      <4> QED
        BY <3>1, <4>1
    <3>3. pc'[t] = "idle"
      BY <1>4 DEF BindAPI, CanCall
    <3> QED
      BY <1>f, <2>2, <3>1, <3>2, <3>3, RecordedPrime
  <2> QED
    BY <2>1, <2>2
<1>5. ASSUME NEW t \in Thread, GetError(t)
      PROVE  Right(u)
  <2>1. CASE u # t
    BY <1>5, <1>a, <1>c, <2>1 DEF TypeOK, GetError
  <2>2. CASE u = t
    <3>1. /\ threadState[t] # None
          /\ threadState'[t] = [threadState[t] EXCEPT !.lastVendor = None, !.lastError = FALSE]
          /\ failed'[t] = "no"
          /\ vendorErr'[t] \in SUBSET Vendor
      BY <1>5, <1>a, <1>b DEF TypeOK, GetError
    <3>2. ~ErrorOf(threadState'[t], vendorErr'[t])
      <4>1. ~ErrorOf([threadState[t] EXCEPT !.lastVendor = None, !.lastError = FALSE],
                     vendorErr'[t])
        BY <1>a, <2>2, <3>1, RecordedError
      <4> QED
        BY <3>1, <4>1
    <3>3. pc'[t] = "idle"
      BY <1>5 DEF GetError, CanCall
    <3> QED
      BY <1>f, <2>2, <3>1, <3>2, <3>3, RecordedPrime
  <2> QED
    BY <2>1, <2>2
<1>6. ASSUME NEW t \in Thread, NEW b \in Binding, AcquireFirst(t, b)
      PROVE  Right(u)
  <2>1. CASE u # t
    BY <1>6, <1>a, <1>c, <2>1 DEF TypeOK, AcquireFirst, StartAcquire
  <2>2. CASE u = t
    <3>1. threadState'[t] = SetError(threadState[t], FALSE) /\ pc'[t] = "dispatch"
      BY <1>6, <1>a DEF TypeOK, AcquireFirst, StartAcquire
    <3>2. vendorErr'[t] \in SUBSET Vendor
      BY <1>b DEF TypeOK
    <3> QED
      BY <1>a, <1>e, <2>2, <3>1, <3>2, OwnErrorRecorded
  <2> QED
    BY <2>1, <2>2
<1>7. ASSUME NEW t \in Thread,
             \/ \E b \in Binding : SwitchBinding(t, b)
             \/ \E b \in Binding \cup {None} : LoseCurrent(t, b)
             \/ VendorMakeCurrent(t)
      PROVE  Right(u)
  <2> DEFINE v == apiState[t].currentVendor
  <2>1. v \in Vendor
    <3>1. Owned(t) /\ \A b \in Binding : VendorOf[b] \in Vendor
      BY ConstantsAssumption DEF ErrorInv, TypeInv
    <3>2. CASE \E b \in Binding : SwitchBinding(t, b)
      BY <3>1, <3>2 DEF SwitchBinding
    <3>3. CASE \E b \in Binding \cup {None} : LoseCurrent(t, b)
      BY <3>1, <3>3 DEF LoseCurrent, Owned, CanCall, HasContext
    <3>4. CASE VendorMakeCurrent(t)
      BY <3>1, <3>4 DEF VendorMakeCurrent, Owned
    <3> QED
      BY <1>7, <3>2, <3>3, <3>4
  <2>2. /\ threadState' = [threadState EXCEPT ![t] = SetLastVendor(@, v)]
        /\ \/ VendorReturns(t, v, TRUE) /\ EndCall(t, "no")
           \/ VendorReturns(t, v, FALSE) /\ EndCall(t, "yes")
           \/ VendorReturns(t, v, TRUE) /\ (\E b \in Binding \cup {None} : StartAcquire(t, b))
                /\ UNCHANGED failed
    BY <1>7 DEF SwitchBinding, LoseCurrent, VendorMakeCurrent
  <2> HIDE DEF v
  <2>3. CASE u # t
    BY <1>a, <1>c, <2>2, <2>3 DEF TypeOK, VendorReturns, EndCall, StartAcquire
  <2>4. CASE u = t
    <3>1. threadState'[t] = SetLastVendor(threadState[t], v)
      BY <1>a, <2>2 DEF TypeOK
    <3>2. CASE VendorReturns(t, v, TRUE) /\ \E b \in Binding \cup {None} : StartAcquire(t, b)
      <4>1. ~Recorded(t)'
        BY <1>a, <2>1, <3>1, <3>2, VendorErrorRecorded
      <4> QED
        BY <1>a, <1>e, <2>4, <3>2, <4>1 DEF TypeOK, StartAcquire
    <3>3. CASE VendorReturns(t, v, TRUE) /\ EndCall(t, "no")
      BY <1>a, <2>1, <2>4, <3>1, <3>3, VendorErrorRecorded DEF TypeOK, EndCall
    <3>4. CASE VendorReturns(t, v, FALSE) /\ EndCall(t, "yes")
      BY <1>a, <2>1, <2>4, <3>1, <3>4, VendorErrorRecorded DEF TypeOK, EndCall
    <3> QED
      BY <2>2, <3>2, <3>3, <3>4
  <2> QED
    BY <2>3, <2>4
<1>8. ASSUME NEW t \in Thread, DispatchMakeCurrent(t)
      PROVE  Right(u)
  <2>1. CASE u # t
    BY <1>8, <1>a, <1>c, <2>1 DEF TypeOK, DispatchMakeCurrent, EndCall
  <2>2. CASE u = t
    <3>1. ~Recorded(t)
      BY <1>8 DEF ErrorInv, DispatchMakeCurrent
    <3>2. Recorded(t)' <=> Recorded(t)
      BY <1>8, RecordedPrime DEF DispatchMakeCurrent, Recorded
    <3>3. \/ pc'[t] = "vendor"
          \/ pc'[t] = "idle" /\ failed'[t] = "by libGLdispatch"
      BY <1>8, <1>a DEF TypeOK, DispatchMakeCurrent, EndCall
    <3> QED
      BY <1>e, <1>f, <2>2, <3>1, <3>2, <3>3
  <2> QED
    BY <2>1, <2>2
<1>9. ASSUME NEW t \in Thread, ReleaseThread(t)
      PROVE  Right(u)
  <2>1. CASE u # t
    BY <1>9, <1>a, <1>c, <2>1 DEF TypeOK, ReleaseThread, VendorsForget, VendorReturns
  <2>2. CASE /\ u = t /\ threadState' = [threadState EXCEPT ![t] = None]
             /\ failed' = [failed EXCEPT ![t] = "no"]
    BY <1>a, <1>d, <2>2 DEF TypeOK
  <2>3. CASE /\ u = t /\ HasContext(t)
             /\ VendorReturns(t, apiState[t].currentVendor, FALSE)
             /\ threadState' = [threadState EXCEPT ![t].lastVendor = apiState[t].currentVendor]
             /\ failed' = [failed EXCEPT ![t] = "yes"]
    <3>1. threadState[t] # None /\ apiState[t].currentVendor \in Vendor
      BY <1>9, <2>3 DEF ReleaseThread, ErrorInv, TypeInv, Owned, HasContext
    <3>2. /\ threadState'[t] = [threadState[t] EXCEPT !.lastVendor = apiState[t].currentVendor]
          /\ apiState[t].currentVendor \in vendorErr'[t]
          /\ failed'[t] = "yes"
          /\ vendorErr'[t] \in SUBSET Vendor
      <4>1. /\ DOMAIN threadState = Thread /\ DOMAIN failed = Thread
            /\ DOMAIN vendorErr = Thread
        BY <1>a DEF TypeOK
      <4>2. threadState'[t] = [threadState[t] EXCEPT !.lastVendor = apiState[t].currentVendor]
        BY <2>3, <4>1
      <4>3. failed'[t] = "yes"
        BY <2>3, <4>1
      <4>4. vendorErr'[t] = vendorErr[t] \cup {apiState[t].currentVendor}
        BY <2>3, <4>1 DEF VendorReturns
      <4>5. vendorErr[t] \in SUBSET Vendor
        BY <1>a DEF TypeOK
      <4> QED
        BY <3>1, <4>2, <4>3, <4>4, <4>5
    <3>3. ErrorOf(threadState'[t], vendorErr'[t])
      <4> DEFINE v == apiState[t].currentVendor
      <4>1. ErrorOf([threadState[t] EXCEPT !.lastVendor = v], vendorErr'[t])
              <=> v \in vendorErr'[t]
        <5> HIDE DEF v
        <5>1. v \in Vendor /\ threadState[t] # None
          BY <3>1 DEF v
        <5>2. threadState[t] \in ThreadState
          BY <1>a, <5>1 DEF TypeOK
        <5>3. vendorErr'[t] \in SUBSET Vendor
          BY <3>2
        <5> QED
          BY <5>1, <5>2, <5>3, RecordedError
      <4> QED
        BY <3>2, <4>1
    <3>4. pc'[t] = "idle"
      BY <1>9 DEF ReleaseThread
    <3> QED
      BY <1>f, <2>3, <3>2, <3>3, <3>4, RecordedPrime
  <2> QED
    BY <1>9, <2>1, <2>2, <2>3 DEF ReleaseThread
<1>10. ASSUME NEW t \in Thread, ThreadExit(t)
       PROVE  Right(u)
  <2>1. CASE u # t
    BY <1>10, <1>a, <1>c, <2>1 DEF TypeOK, ThreadExit, VendorsForget
  <2>2. CASE u = t
    BY <1>10, <1>a, <1>d, <2>2 DEF TypeOK, ThreadExit
  <2> QED
    BY <2>1, <2>2
<1>11. ASSUME NEW t \in Thread, Fork(t)
       PROVE  Right(u)
  <2>1. CASE u # t
    BY <1>11, <1>d, <2>1 DEF Fork
  <2>2. CASE u = t
    BY <1>11, <1>c, <2>2 DEF Fork, VendorsForget
  <2> QED
    BY <2>1, <2>2
<1>12. ASSUME NEW t \in Thread, ResetOnFork(t)
       PROVE  Right(u)
  <2>1. threadState'[u] = None /\ (u # t => threadState[u] = None) /\ pc[u] = "idle"
    BY <1>12 DEF ResetOnFork, ErrorInv, TypeInv
  <2>2. failed'[u] # "yes"
    <3>1. CASE u = t
      BY <1>12, <1>a, <3>1 DEF TypeOK, ResetOnFork
    <3>2. CASE u # t
      <4>1. failed[u] # "yes"
        BY <2>1, <3>2 DEF ErrorInv, Recorded, ErrorOf
      <4> QED
        BY <1>12, <1>a, <3>2, <4>1 DEF TypeOK, ResetOnFork
    <3> QED
      BY <3>1, <3>2
  <2> QED
    BY <1>d, <2>1, <2>2
<1>13. ASSUME NEW t \in Thread, GlxStep(t)
       PROVE  Right(u)
  BY <1>13, <1>c DEF GlxStep, GlxMakeCurrent, GlxLoseCurrent, GlxResetOnFork
<1>14. CASE UNCHANGED vars
  BY <1>14, <1>c DEF vars
<1> HIDE DEF Right
<1> QED
  BY <1>1, <1>2, <1>3, <1>4, <1>5, <1>6, <1>7, <1>8, <1>9, <1>10, <1>11, <1>12, <1>13, <1>14
     DEF Next, ErrorStep, MakeCurrentStep, LifeStep

\* eglGetError tells whether the last EGL function of the thread has failed.
THEOREM EglError == Spec => []ErrorOfLastCall
<1>1. Init => ErrorInv
  <2> SUFFICES ASSUME Init PROVE ErrorInv
    OBVIOUS
  <2>1. \A t \in Thread : ~Recorded(t) /\ failed[t] = "no"
    BY DEF Init, Recorded, ErrorOf
  <2> QED
    BY <2>1, TypeInvInit DEF ErrorInv
<1>2. ErrorInv /\ [Next]_vars => ErrorInv'
  BY TypeInvStep, ErrorStepInv DEF ErrorInv
<1>3. ErrorInv => ErrorOfLastCall
  <2> SUFFICES ASSUME ErrorInv, NEW t \in Thread, CanCall(t)
               PROVE  Reported(t) <=> failed[t] = "yes"
    BY DEF ErrorOfLastCall
  <2>1. /\ Recorded(t) <=> failed[t] = "yes"
        /\ threadState[t] \in ThreadState \cup {None}
    BY DEF ErrorInv, TypeInv, TypeOK, CanCall
  <2>2. threadState[t] # None => threadState[t].lastError \in BOOLEAN
    BY <2>1 DEF ThreadState
  <2> QED
    BY <2>1, <2>2 DEF Reported, Recorded, ErrorOf
<1> QED
  BY <1>1, <1>2, <1>3, PTL DEF Spec
=============================================================================

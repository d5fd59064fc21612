-------------------------- MODULE GLdispatch_proof --------------------------
(***************************************************************************)
(* Proofs about GLdispatch, for any threads, vendors and libraries.        *)
(***************************************************************************)
EXTENDS GLdispatch, FiniteSetTheorems, TLAPS

-----------------------------------------------------------------------------
(* Type correctness.                                                       *)

\* PatchEntrypoints, in all its outcomes, leaves well-typed patch state.
LEMMA ReplacePatchType ==
  ASSUME TypeOK, NEW cb \in Vendor \cup {None}, ReplacePatch(cb)
  PROVE  /\ stubOwner' \in Vendor \cup {None}
         /\ isPatched' \subseteq StubSet
         /\ code' \in [StubSet -> Vendor \cup {Default}]
         /\ saved' \in [StubSet -> Vendor \cup {Default, None}]
         /\ failedAssert' \in Assertions \cup {failedAssert}
<1> PICK stuck \in SUBSET (IF RestoreMayFail THEN ToRestore ELSE {}),
         tried \in SUBSET (IF cb = None THEN {} ELSE Registered) :
      \/ AbortPatching("stub.c:246")
      \/ AbortPatching("stub.c:219")
      \/ ~RestoreAsserts(stuck) /\ \E done \in SUBSET tried : InstallPatch(cb, stuck, done)
  BY Zenon DEF ReplacePatch
<1>1. CASE AbortPatching("stub.c:246") \/ AbortPatching("stub.c:219")
  BY <1>1 DEF AbortPatching, TypeOK, patchVars, Assertions
<1>2. ASSUME ~RestoreAsserts(stuck),
             NEW done \in SUBSET tried, InstallPatch(cb, stuck, done)
      PROVE  /\ stubOwner' \in Vendor \cup {None}
             /\ isPatched' \subseteq StubSet
             /\ code' \in [StubSet -> Vendor \cup {Default}]
             /\ saved' \in [StubSet -> Vendor \cup {Default, None}]
             /\ failedAssert' = failedAssert
  <2>1. RestoredCode(stuck) \in [StubSet -> Vendor \cup {Default}]
    BY <1>2 DEF RestoredCode, RestoreAsserts, TypeOK
  <2>2. RestoredSaved(stuck) \in [StubSet -> Vendor \cup {Default, None}]
    BY DEF RestoredSaved, TypeOK
  <2>3. done # {} => cb \in Vendor
    OBVIOUS
  <2>4. done \subseteq StubSet
    BY DEF Registered, Cleaned, StubSet
  <2> QED
    BY <1>2, <2>1, <2>2, <2>3, <2>4 DEF InstallPatch, TypeOK
<1> QED
  BY <1>1, <1>2

\* The static state of GLdispatch.c is well typed.
LEMMA TypeInit == Init => TypeOK
BY ConstantsAssumption DEF Init, TypeOK, StubSet, Client

\* Every action keeps every variable in its type.
LEMMA TypeStep == TypeOK /\ [Next]_vars => TypeOK'
<1> USE DEF vars, clientVars, threadVars, countVars, tableVars, patchVars, forkVars
<1> SUFFICES ASSUME TypeOK, [Next]_vars PROVE TypeOK'
  OBVIOUS
<1>1. ASSUME NEW c \in Client, DispatchInit(c)
      PROVE  TypeOK'
  BY <1>1 DEF TypeOK, DispatchInit
<1>2. ASSUME NEW c \in Client, DispatchFini(c)
      PROVE  TypeOK'
  BY <1>2, ConstantsAssumption DEF TypeOK, DispatchFini
<1>3. ASSUME NEW s \in StubLib, RegisterStubCallbacks(s)
      PROVE  TypeOK'
  BY <1>3 DEF TypeOK, RegisterStubCallbacks
<1>4. ASSUME NEW s \in StubLib, StubCleanup(s)
      PROVE  TypeOK'
  BY <1>4 DEF TypeOK, StubCleanup
<1>5. ASSUME NEW s \in StubLib, UnregisterStubCallbacks(s)
      PROVE  TypeOK'
  BY <1>5 DEF TypeOK, UnregisterStubCallbacks
<1>6. ASSUME NEW v \in Vendor, CreateTable(v)
      PROVE  TypeOK'
  BY <1>6 DEF TypeOK, CreateTable
<1>7. ASSUME NEW v \in Vendor, ForceUnpatch(v), failedAssert = None
      PROVE  TypeOK'
  <2>1. CASE stubOwner = v
    <3>1. ReplacePatch(None)
      BY <1>7, <2>1 DEF ForceUnpatch
    <3> QED
      BY <1>7, <3>1, ReplacePatchType DEF TypeOK, ForceUnpatch
  <2>2. CASE stubOwner # v
    BY <1>7, <2>2 DEF TypeOK, ForceUnpatch
  <2> QED
    BY <2>1, <2>2
<1>8. ASSUME NEW v \in Vendor, DestroyTable(v)
      PROVE  TypeOK'
  BY <1>8 DEF TypeOK, DestroyTable
<1>9. ASSUME NEW t \in Thread, NEW v \in Vendor, MakeCurrent(t, v), failedAssert = None
      PROVE  TypeOK'
  <2> DEFINE cb == IF v \in PatchVendor THEN v ELSE None
  <2>1. /\ stubOwner' \in Vendor \cup {None}
        /\ isPatched' \subseteq StubSet
        /\ code' \in [StubSet -> Vendor \cup {Default}]
        /\ saved' \in [StubSet -> Vendor \cup {Default, None}]
        /\ failedAssert' \in Assertions \cup {failedAssert}
    <3>1. CASE UNCHANGED <<patchVars, failedAssert>>
      BY <3>1 DEF TypeOK
    <3>2. CASE ReplacePatch(cb)
      BY <3>2, ReplacePatchType
    <3> QED
      BY <1>9, <3>1, <3>2 DEF MakeCurrent, PatchEntrypoints
  <2>2. CASE UNCHANGED <<threadVars, countVars, tableVars>>
    BY <1>9, <2>1, <2>2 DEF TypeOK, MakeCurrent
  <2>3. CASE /\ tableProcs' = [tableProcs EXCEPT ![v] = FixupDispatchTable(@, stubs)]
             /\ DispatchCurrentRef(v)
             /\ numCurrentContexts' = numCurrentContexts + 1
             /\ priv' = [priv EXCEPT ![t] = v]
             /\ step' = [step EXCEPT ![t] = "made"]
             /\ UNCHANGED <<tls, glapi, stubs>>
    BY <1>9, <2>1, <2>3 DEF TypeOK, MakeCurrent, DispatchCurrentRef, FixupDispatchTable
  <2> QED
    BY <1>9, <2>2, <2>3 DEF MakeCurrent
<1>10. ASSUME NEW t \in Thread, PublishCurrent(t)
       PROVE  TypeOK'
  BY <1>10 DEF TypeOK, PublishCurrent
<1>11. ASSUME NEW t \in Thread, LoseCurrent(t) \/ ThreadDestroyed(t), failedAssert = None
       PROVE  TypeOK'
  BY <1>11 DEF TypeOK, LoseCurrent, ThreadDestroyed, LoseCurrentLocked, DispatchCurrentUnref,
               Assertions
<1>12. ASSUME NEW t \in Thread, ClearCurrent(t)
       PROVE  TypeOK'
  BY <1>12 DEF TypeOK, ClearCurrent
<1>13. ASSUME NEW t \in Thread, NEW name \in ProcName, GetProcAddress(t, name)
       PROVE  TypeOK'
  BY <1>13 DEF TypeOK, GetProcAddress, FixupDispatchTable, Assertions
<1>14. ASSUME NEW t \in Thread, Fork(t)
       PROVE  TypeOK'
  BY <1>14, ConstantsAssumption DEF TypeOK, Fork
<1>15. ASSUME NEW t \in Thread, NEW w \in Winsys, Reset(t, w)
       PROVE  TypeOK'
  BY <1>15 DEF TypeOK, Reset, ResetDispatchList
<1>16. CASE UNCHANGED vars
  BY <1>16 DEF TypeOK
<1>17. ASSUME LibraryStep, failedAssert = None
       PROVE  TypeOK'
  BY <1>17, <1>1, <1>2, <1>3, <1>4, <1>5, <1>6, <1>7, <1>8 DEF LibraryStep
<1>18. ASSUME NEW t \in Thread, ThreadStep(t), failedAssert = None
       PROVE  TypeOK'
  BY <1>18, <1>9, <1>10, <1>11, <1>12, <1>13, <1>14, <1>15 DEF ThreadStep
<1> QED
  BY <1>16, <1>17, <1>18 DEF Next

\* Every variable of GLdispatch stays in its type.
THEOREM TypeCorrect == Spec => []TypeOK
BY TypeInit, TypeStep, PTL DEF Spec

-----------------------------------------------------------------------------
(* Who owns the entrypoints, and who has a context.                        *)

\* The contexts that CountCoversContexts counts are finitely many.
LEMMA ContextsFinite ==
  IsFiniteSet(Contexts) /\ Cardinality(Contexts) \in Nat
BY ConstantsAssumption, FS_Subset, FS_CardinalityType DEF Contexts

\* Patching hands the entrypoints over, to nobody or to the new vendor.
LEMMA ReplacePatchOwner ==
  ASSUME NEW cb, ReplacePatch(cb)
  PROVE  stubOwner' \in {stubOwner, None, cb}
<1> USE DEF patchVars, AbortPatching, InstallPatch
<1> QED
  BY DEF ReplacePatch

\* Taking a patch out leaves no owner, unless an assertion fails on the way.
LEMMA UnpatchOwner ==
  ASSUME ReplacePatch(None), failedAssert' = None
  PROVE  stubOwner' = None
BY ConstantsAssumption DEF ReplacePatch, AbortPatching, InstallPatch, Assertions

\* When PatchingIsSafe tells a thread without a context that it may patch,
\* no thread has a context.
LEMMA PatchOnlyUnused ==
  ASSUME TypeOK, CountCoversContexts, NEW t \in Thread,
         tls[t] = None, PatchingIsSafe(t)
  PROVE  \A u \in Thread : ~HasContext(u)
<1>1. numCurrentContexts = 0
  BY DEF PatchingIsSafe, ContextIsCurrentInAnyOtherThread, TypeOK
<1>2. Contexts = {}
  BY <1>1, ContextsFinite, FS_EmptySet DEF CountCoversContexts
<1> QED
  BY <1>2 DEF Contexts

\* The owner after PatchEntrypoints: unless it is as before, nobody has a
\* context, and the owner is the calling vendor or none.
LEMMA PatchEntrypointsOwner ==
  ASSUME TypeOK, CountCoversContexts, NEW t \in Thread, tls[t] = None,
         NEW cb, PatchEntrypoints(t, cb)
  PROVE  \/ stubOwner' = stubOwner
         \/ stubOwner' \in {None, cb} /\ \A u \in Thread : ~HasContext(u)
BY PatchOnlyUnused, ReplacePatchOwner DEF PatchEntrypoints, patchVars

\* What MakeCurrent does to the contexts when it succeeds, and when it does not.
LEMMA MakeCurrentCases ==
  ASSUME NEW t \in Thread, NEW v \in Vendor, MakeCurrent(t, v)
  PROVE  \/ UNCHANGED <<threadVars, countVars, tableVars>>
         \/ /\ priv' = [priv EXCEPT ![t] = v]
            /\ step' = [step EXCEPT ![t] = "made"]
            /\ numCurrentContexts' = numCurrentContexts + 1
            /\ stubOwner' \in {None, v}
            /\ UNCHANGED <<tls, glapi>>
BY DEF MakeCurrent, CurrentEntrypointsSafeToUse

\* The per-thread state and the states of libraries and vendors agree.
LEMMA ThreadLoadStep ==
  ASSUME OwnershipInv, Next
  PROVE  ThreadInv' /\ LoadInv'
<1> USE DEF clientVars, threadVars, countVars, tableVars, patchVars, forkVars
<1> DEFINE Goal == ThreadInv' /\ LoadInv'
<1>1. ASSUME NEW c \in Client, DispatchInit(c)
      PROVE  Goal
  BY <1>1, ConstantsAssumption
     DEF OwnershipInv, TypeOK, ThreadInv, LoadInv, HasContext, Client, DispatchInit
<1>2. ASSUME NEW c \in Client, DispatchFini(c)
      PROVE  Goal
  BY <1>2, ConstantsAssumption
     DEF OwnershipInv, TypeOK, ThreadInv, LoadInv, HasContext, Client, DispatchFini,
         ContextsReleased, VendorsOf
<1>3. ASSUME NEW s \in StubLib,
             RegisterStubCallbacks(s) \/ StubCleanup(s) \/ UnregisterStubCallbacks(s)
      PROVE  Goal
  BY <1>3, ConstantsAssumption
     DEF OwnershipInv, TypeOK, ThreadInv, LoadInv, HasContext, Client,
         RegisterStubCallbacks, StubCleanup, UnregisterStubCallbacks
<1>4. ASSUME NEW v \in Vendor, CreateTable(v) \/ DestroyTable(v)
      PROVE  Goal
  BY <1>4, ConstantsAssumption
     DEF OwnershipInv, TypeOK, ThreadInv, LoadInv, HasContext, CreateTable, DestroyTable
<1>5. ASSUME NEW v \in Vendor, ForceUnpatch(v)
      PROVE  Goal
  <2>1. ThreadInv'
    BY <1>5 DEF OwnershipInv, ThreadInv, HasContext, ForceUnpatch
  <2>2. CASE vendor' = vendor
    <3>1. stubOwner' \in {stubOwner, None}
      BY <1>5, ReplacePatchOwner DEF ForceUnpatch
    <3> QED
      BY <1>5, <2>1, <2>2, <3>1 DEF OwnershipInv, LoadInv, HasContext, ForceUnpatch
  <2>3. CASE failedAssert' = None /\ vendor' = [vendor EXCEPT ![v] = "closing"]
    <3>1. stubOwner' # v /\ stubOwner' \in {stubOwner, None}
      BY <1>5, <2>3, UnpatchOwner, ConstantsAssumption DEF ForceUnpatch
    <3>2. \A t \in Thread : priv[t] # v
      BY <1>5 DEF ForceUnpatch, ContextsReleased
    <3> QED
      BY <1>5, <2>1, <2>3, <3>1, <3>2
         DEF OwnershipInv, TypeOK, LoadInv, HasContext, ForceUnpatch
  <2> QED
    BY <1>5, <2>2, <2>3 DEF ForceUnpatch
<1>6. ASSUME NEW t \in Thread, NEW v \in Vendor, MakeCurrent(t, v)
      PROVE  Goal
  <2>1. client' = client /\ vendor' = vendor /\ vendor[v] = "loaded" /\ tls[t] = None
        /\ step[t] = "idle"
    BY <1>6 DEF MakeCurrent, CanCall
  <2>2. stubOwner' \in {stubOwner, None, v}
    BY <1>6, <2>1, ReplacePatchOwner DEF MakeCurrent, PatchEntrypoints
  <2>3. CASE UNCHANGED threadVars
    BY <2>1, <2>2, <2>3 DEF OwnershipInv, ThreadInv, LoadInv, HasContext
  <2>4. CASE /\ priv' = [priv EXCEPT ![t] = v]
             /\ step' = [step EXCEPT ![t] = "made"]
             /\ UNCHANGED <<tls, glapi>>
    <3>1. ThreadInv'
      BY <2>1, <2>4, ConstantsAssumption DEF OwnershipInv, TypeOK, ThreadInv, HasContext
    <3>2. LoadInv'
      BY <2>1, <2>2, <2>4, ConstantsAssumption DEF OwnershipInv, TypeOK, LoadInv, HasContext
    <3> QED
      BY <3>1, <3>2
  <2> QED
    BY <1>6, <2>3, <2>4, MakeCurrentCases
<1>7. ASSUME NEW t \in Thread, PublishCurrent(t) \/ ClearCurrent(t)
      PROVE  Goal
  BY <1>7 DEF OwnershipInv, TypeOK, ThreadInv, LoadInv, HasContext, PublishCurrent, ClearCurrent
<1>8. ASSUME NEW t \in Thread, LoseCurrent(t) \/ ThreadDestroyed(t)
      PROVE  Goal
  BY <1>8 DEF OwnershipInv, TypeOK, ThreadInv, LoadInv, HasContext, LoseCurrent,
              ThreadDestroyed, LoseCurrentLocked
<1>9. ASSUME NEW t \in Thread, NEW name \in ProcName, GetProcAddress(t, name)
      PROVE  Goal
  BY <1>9 DEF OwnershipInv, ThreadInv, LoadInv, HasContext, GetProcAddress
<1>10. ASSUME NEW t \in Thread, Fork(t)
       PROVE  Goal
  BY <1>10 DEF OwnershipInv, TypeOK, ThreadInv, LoadInv, HasContext, Fork
<1>11. ASSUME NEW t \in Thread, NEW w \in Winsys, Reset(t, w)
       PROVE  Goal
  BY <1>11 DEF OwnershipInv, TypeOK, ThreadInv, LoadInv, HasContext, Reset
<1>12. LibraryStep => Goal
  BY <1>1, <1>2, <1>3, <1>4, <1>5 DEF LibraryStep
<1>13. ASSUME NEW t \in Thread, ThreadStep(t)
       PROVE  Goal
  BY <1>13, <1>6, <1>7, <1>8, <1>9, <1>10, <1>11 DEF ThreadStep
<1> QED
  BY <1>12, <1>13 DEF Next

\* How one step changes the set of contexts and their count.
LEMMA ContextsStep ==
  ASSUME OwnershipInv, Next
  PROVE  \/ Contexts' \subseteq Contexts /\ numCurrentContexts' = numCurrentContexts
         \/ \E t \in Thread \ Contexts : /\ Contexts' = Contexts \cup {t}
                                         /\ numCurrentContexts' = numCurrentContexts + 1
         \/ \E t \in Contexts : /\ Contexts' = Contexts \ {t}
                                /\ numCurrentContexts' = numCurrentContexts - 1
<1> USE DEF clientVars, threadVars, countVars, tableVars, patchVars, forkVars,
            Contexts, HasContext
<1> DEFINE Same == Contexts' \subseteq Contexts /\ numCurrentContexts' = numCurrentContexts
<1>1. LibraryStep => Same
  <2>1. ASSUME NEW c \in Client, DispatchFini(c)
        PROVE  Same
    BY <2>1 DEF DispatchFini
  <2> QED
    BY <2>1 DEF LibraryStep, DispatchInit, RegisterStubCallbacks, StubCleanup,
                UnregisterStubCallbacks, CreateTable, ForceUnpatch, DestroyTable
<1>2. ASSUME NEW t \in Thread, NEW v \in Vendor, MakeCurrent(t, v)
      PROVE  \/ Same
             \/ /\ t \notin Contexts
                /\ Contexts' = Contexts \cup {t}
                /\ numCurrentContexts' = numCurrentContexts + 1
  <2>1. priv[t] = None
    BY <1>2 DEF MakeCurrent, CanCall, OwnershipInv, ThreadInv
  <2> QED
    BY <1>2, <2>1, MakeCurrentCases, ConstantsAssumption DEF OwnershipInv, TypeOK
<1>3. ASSUME NEW t \in Thread, LoseCurrent(t) \/ ThreadDestroyed(t)
      PROVE  /\ t \in Contexts
             /\ Contexts' = Contexts \ {t}
             /\ numCurrentContexts' = numCurrentContexts - 1
  <2>1. LoseCurrentLocked(t)
    BY <1>3 DEF LoseCurrent, ThreadDestroyed
  <2>2. t \in Contexts
    BY <2>1 DEF LoseCurrentLocked, OwnershipInv, ThreadInv
  <2> QED
    BY <2>1, <2>2 DEF LoseCurrentLocked, OwnershipInv, TypeOK
<1>4. ASSUME NEW t \in Thread, Fork(t) \/ \E w \in Winsys : Reset(t, w)
      PROVE  Same
  BY <1>4 DEF Fork, Reset, OwnershipInv, TypeOK
<1>5. ASSUME NEW t \in Thread, PublishCurrent(t) \/ ClearCurrent(t)
                               \/ \E name \in ProcName : GetProcAddress(t, name)
      PROVE  Same
  BY <1>5 DEF PublishCurrent, ClearCurrent, GetProcAddress
<1>6. ASSUME NEW t \in Thread, ThreadStep(t)
      PROVE  \/ Same
             \/ /\ t \notin Contexts
                /\ Contexts' = Contexts \cup {t}
                /\ numCurrentContexts' = numCurrentContexts + 1
             \/ /\ t \in Contexts
                /\ Contexts' = Contexts \ {t}
                /\ numCurrentContexts' = numCurrentContexts - 1
  BY <1>2, <1>3, <1>4, <1>5, <1>6 DEF ThreadStep
<1> QED
  BY <1>1, <1>6 DEF Next

LEMMA CountStep ==
  ASSUME OwnershipInv, Next
  PROVE  CountCoversContexts'
<1>1. IsFiniteSet(Contexts) /\ Cardinality(Contexts) \in Nat
  BY ContextsFinite
<1>2. numCurrentContexts \in Int /\ numCurrentContexts >= Cardinality(Contexts)
  BY DEF OwnershipInv, TypeOK, CountCoversContexts
<1>3. CASE Contexts' \subseteq Contexts /\ numCurrentContexts' = numCurrentContexts
  <2>1. IsFiniteSet(Contexts') /\ Cardinality(Contexts') <= Cardinality(Contexts)
    BY <1>1, <1>3, FS_Subset
  <2>2. Cardinality(Contexts') \in Nat
    BY <2>1, FS_CardinalityType
  <2> QED
    BY <1>1, <1>2, <1>3, <2>1, <2>2 DEF CountCoversContexts
<1>4. ASSUME NEW t \in Thread,
             Contexts' = Contexts \cup {t}, numCurrentContexts' = numCurrentContexts + 1
      PROVE  CountCoversContexts'
  <2>1. Cardinality(Contexts \cup {t}) = IF t \in Contexts THEN Cardinality(Contexts)
                                                        ELSE Cardinality(Contexts) + 1
    BY <1>1, FS_AddElement
  <2>2. numCurrentContexts' >= Cardinality(Contexts \cup {t})
    BY <1>1, <1>2, <1>4, <2>1
  <2> QED
    BY <1>4, <2>2 DEF CountCoversContexts
<1>5. ASSUME NEW t \in Contexts,
             Contexts' = Contexts \ {t}, numCurrentContexts' = numCurrentContexts - 1
      PROVE  CountCoversContexts'
  <2>1. Cardinality(Contexts \ {t}) = Cardinality(Contexts) - 1
    BY <1>1, <1>5, FS_RemoveElement
  <2>2. numCurrentContexts' >= Cardinality(Contexts \ {t})
    BY <1>2, <1>5, <2>1, <1>1
  <2> QED
    BY <1>5, <2>2 DEF CountCoversContexts
<1> QED
  BY <1>3, <1>4, <1>5, ContextsStep

\* Every step of libGLdispatch is one of EntrypointOwnership, or changes
\* neither who has a context nor who owns the entrypoints.
LEMMA OwnershipStep ==
  ASSUME OwnershipInv, Next
  PROVE  [Ownership!Next]_<<priv, stubOwner>>
<1> USE DEF clientVars, threadVars, countVars, tableVars, patchVars, forkVars
<1> DEFINE Goal == [Ownership!Next]_<<priv, stubOwner>>
<1>1. ASSUME NEW threads \in SUBSET Thread,
             priv' = [u \in Thread |-> IF u \in threads THEN None ELSE priv[u]],
             stubOwner' = stubOwner
      PROVE  Goal
  BY <1>1 DEF Ownership!Next, Ownership!Release
<1>2. ASSUME NEW c \in Client, DispatchInit(c) \/ DispatchFini(c)
      PROVE  Goal
  <2>1. CASE priv' = [u \in Thread |-> None]
    <3>1. priv' = [u \in Thread |-> IF u \in Thread THEN None ELSE priv[u]]
      BY <2>1
    <3> QED
      BY <1>1, <1>2, <3>1 DEF DispatchInit, DispatchFini
  <2> QED
    BY <1>2, <2>1 DEF DispatchInit, DispatchFini
<1>3. ASSUME NEW v \in Vendor, ForceUnpatch(v)
      PROVE  Goal
  <2>1. CASE stubOwner = v
    <3>1. \A t \in Thread : priv[t] = None
      BY <1>3, <2>1, ConstantsAssumption
         DEF ForceUnpatch, ContextsReleased, OwnershipInv, OwnerExcludesOthers
    <3>2. stubOwner' \in Vendor \cup {None}
      BY <1>3, <2>1, ReplacePatchOwner DEF ForceUnpatch
    <3> QED
      BY <1>3, <3>1, <3>2
         DEF ForceUnpatch, Ownership!Next, Ownership!ChangeOwner, Ownership!Unused
  <2> QED
    BY <1>3, <2>1 DEF ForceUnpatch
<1>4. ASSUME NEW t \in Thread, NEW v \in Vendor, MakeCurrent(t, v)
      PROVE  Goal
  <2> DEFINE cb == IF v \in PatchVendor THEN v ELSE None
  <2>1. tls[t] = None /\ step[t] = "idle" /\ PatchEntrypoints(t, cb)
    BY <1>4 DEF MakeCurrent, CanCall
  <2>2. \/ stubOwner' = stubOwner
        \/ stubOwner' \in {None, v} /\ Ownership!Unused
    BY <2>1, PatchEntrypointsOwner DEF OwnershipInv, Ownership!Unused, HasContext
  <2>3. priv[t] = None
    BY <2>1 DEF OwnershipInv, ThreadInv
  <2>4. CASE priv' = priv
    BY <2>2, <2>4 DEF Ownership!Next, Ownership!ChangeOwner
  <2>5. CASE priv' = [priv EXCEPT ![t] = v] /\ stubOwner' \in {None, v}
    <3>1. Ownership!Acquire(t, v)
      BY <2>2, <2>3, <2>5 DEF Ownership!Acquire
    <3> QED
      BY <3>1 DEF Ownership!Next
  <2> QED
    BY <1>4, <2>4, <2>5, MakeCurrentCases
<1>5. ASSUME NEW t \in Thread, LoseCurrent(t) \/ ThreadDestroyed(t)
                               \/ \E w \in Winsys : Reset(t, w)
      PROVE  Goal
  <2>1. priv' = [u \in Thread |-> IF u \in {t} THEN None ELSE priv[u]]
    BY <1>5 DEF LoseCurrent, ThreadDestroyed, LoseCurrentLocked, Reset, OwnershipInv, TypeOK
  <2>2. stubOwner' = stubOwner
    BY <1>5 DEF LoseCurrent, ThreadDestroyed, Reset
  <2> QED
    BY <1>1, <2>1, <2>2
<1>6. ASSUME NEW t \in Thread, Fork(t)
      PROVE  Goal
  <2>1. priv' = [u \in Thread |-> IF u \in Thread \ {t} THEN None ELSE priv[u]]
    BY <1>6 DEF Fork
  <2>2. stubOwner' = stubOwner
    BY <1>6 DEF Fork
  <2> QED
    BY <1>1, <2>1, <2>2
<1>7. ASSUME NEW t \in Thread, PublishCurrent(t) \/ ClearCurrent(t)
                               \/ \E name \in ProcName : GetProcAddress(t, name)
      PROVE  Goal
  BY <1>7 DEF PublishCurrent, ClearCurrent, GetProcAddress
<1>8. LibraryStep => Goal
  BY <1>2, <1>3 DEF LibraryStep, RegisterStubCallbacks, StubCleanup,
                    UnregisterStubCallbacks, CreateTable, DestroyTable
<1>9. ASSUME NEW t \in Thread, ThreadStep(t)
      PROVE  Goal
  BY <1>9, <1>4, <1>5, <1>6, <1>7 DEF ThreadStep
<1> QED
  BY <1>8, <1>9 DEF Next

\* EntrypointOwnership keeps other vendors out, so libGLdispatch does.
LEMMA OwnerStep ==
  ASSUME OwnershipInv, Next
  PROVE  OwnerExcludesOthers'
<1>1. CASE Ownership!Next
  BY <1>1, ConstantsAssumption
     DEF OwnershipInv, TypeOK, OwnerExcludesOthers, Ownership!Next, Ownership!Acquire,
         Ownership!Release, Ownership!ChangeOwner, Ownership!Unused
<1>2. CASE UNCHANGED <<priv, stubOwner>>
  BY <1>2 DEF OwnershipInv, OwnerExcludesOthers
<1> QED
  BY <1>1, <1>2, OwnershipStep

\* The inductive invariant of this section holds before the first library loads.
LEMMA OwnershipInit == Init => OwnershipInv
<1> SUFFICES ASSUME Init PROVE OwnershipInv
  OBVIOUS
<1>1. ThreadInv /\ LoadInv /\ OwnerExcludesOthers
  BY ConstantsAssumption DEF Init, ThreadInv, LoadInv, OwnerExcludesOthers, HasContext, Client
<1>2. Contexts = {}
  BY DEF Init, Contexts, HasContext
<1>3. CountCoversContexts
  BY <1>2, FS_EmptySet DEF Init, CountCoversContexts
<1> QED
  BY <1>1, <1>3, TypeInit DEF OwnershipInv

\* Every step preserves it.
LEMMA OwnershipInvStep == OwnershipInv /\ [Next]_vars => OwnershipInv'
<1> SUFFICES ASSUME OwnershipInv, [Next]_vars PROVE OwnershipInv'
  OBVIOUS
<1>1. CASE Next
  BY <1>1, TypeStep, ThreadLoadStep, CountStep, OwnerStep DEF OwnershipInv
<1>2. CASE UNCHANGED vars
  <2> USE <1>2 DEF vars, clientVars, threadVars, countVars, tableVars, patchVars, forkVars
  <2>1. TypeOK'
    BY TypeStep DEF OwnershipInv
  <2>2. ThreadInv' /\ LoadInv' /\ OwnerExcludesOthers'
    BY DEF OwnershipInv, ThreadInv, LoadInv, OwnerExcludesOthers, HasContext
  <2>3. CountCoversContexts'
    BY DEF OwnershipInv, CountCoversContexts, Contexts, HasContext
  <2> QED
    BY <2>1, <2>2, <2>3 DEF OwnershipInv
<1> QED
  BY <1>1, <1>2

\* Types, thread states, library states, the count of contexts and the owner of
\* the entrypoints agree at all times.
THEOREM OwnershipInvariant == Spec => []OwnershipInv
BY OwnershipInit, OwnershipInvStep, PTL DEF Spec

\* The count GLdispatch keeps never falls below the number of contexts, with
\* any number of threads, vendors and forks.
THEOREM CountCovers == Spec => []CountCoversContexts
<1>1. OwnershipInv => CountCoversContexts
  BY DEF OwnershipInv
<1> QED
  BY <1>1, OwnershipInvariant, PTL

\* libGLdispatch implements the abstract entrypoint ownership.
THEOREM RefinesOwnership == Spec => ImplementsOwnership
<1>1. Init => Ownership!Init
  BY DEF Init, Ownership!Init
<1>2. OwnershipInv /\ [Next]_vars => [Ownership!Next]_<<priv, stubOwner>>
  <2>1. CASE UNCHANGED vars
    BY <2>1 DEF vars, threadVars, patchVars
  <2> QED
    BY <2>1, OwnershipStep
<1> QED
  BY <1>1, <1>2, OwnershipInvariant, PTL DEF Spec, ImplementsOwnership, Ownership!Spec

-----------------------------------------------------------------------------
(* The code of the entrypoints.                                            *)

\* Only MakeCurrent and ForceUnpatch change the code of a registered set, and
\* both do it when no thread has a context.
LEMMA CodeStep ==
  ASSUME OwnershipInv, Next, NEW s \in Registered, code'[s] # code[s]
  PROVE  \A t \in Thread : ~HasContext(t)
<1> USE DEF clientVars, threadVars, countVars, tableVars, patchVars, forkVars
<1> DEFINE Goal == \A t \in Thread : ~HasContext(t)
<1>0. s \in StubSet
  BY DEF Registered, Cleaned, StubSet
<1>1. ASSUME NEW c \in Client, DispatchFini(c)
      PROVE  Goal
  <2>1. s # c
    BY <1>1, ConstantsAssumption DEF DispatchFini, Registered, Cleaned, Client
  <2> QED
    BY <1>0, <1>1, <2>1 DEF DispatchFini
<1>2. ASSUME NEW v \in Vendor, ForceUnpatch(v)
      PROVE  Goal
  BY <1>2, ConstantsAssumption
     DEF ForceUnpatch, ContextsReleased, HasContext, OwnershipInv, OwnerExcludesOthers
<1>3. ASSUME NEW t \in Thread, NEW v \in Vendor, MakeCurrent(t, v)
      PROVE  Goal
  <2>1. tls[t] = None
    BY <1>3 DEF MakeCurrent
  <2>2. PatchingIsSafe(t)
    BY <1>3 DEF MakeCurrent, PatchEntrypoints
  <2> QED
    BY <2>1, <2>2, PatchOnlyUnused DEF OwnershipInv
<1>4. LibraryStep => Goal
  BY <1>1, <1>2 DEF LibraryStep, DispatchInit, RegisterStubCallbacks, StubCleanup,
                    UnregisterStubCallbacks, CreateTable, DestroyTable
<1>5. ASSUME NEW t \in Thread, ThreadStep(t)
      PROVE  Goal
  BY <1>5, <1>3 DEF ThreadStep, PublishCurrent, LoseCurrent, ClearCurrent, ThreadDestroyed,
                    GetProcAddress, Fork, Reset
<1> QED
  BY <1>4, <1>5 DEF Next

\* The code of an exported entrypoint changes only when nobody can run in it.
THEOREM CodeChanges == Spec => CodeChangesOnlyUnused
<1> DEFINE Change == \A s \in Registered :
                       code'[s] # code[s] => \A t \in Thread : ~HasContext(t)
<1>1. OwnershipInv /\ [Next]_vars => [Change]_vars
  BY CodeStep
<1> QED
  BY <1>1, OwnershipInvariant, PTL DEF Spec, CodeChangesOnlyUnused

\* What PatchEntrypoints does to the code, if restoring cannot fail: the sets
\* that were patched get libglvnd's code back, and some get the new owner's.
LEMMA ReplacePatchCode ==
  ASSUME ~RestoreMayFail, TypeOK, PatchInv, NEW cb \in Vendor \cup {None},
         cb # stubOwner, ReplacePatch(cb), client' = client
  PROVE  PatchInv'
<1> USE DEF patchVars
<1>1. Registered' = Registered /\ Cleaned' = Cleaned
  BY DEF Registered, Cleaned, Initialized
<1> PICK stuck \in SUBSET (IF RestoreMayFail THEN ToRestore ELSE {}),
         tried \in SUBSET (IF cb = None THEN {} ELSE Registered) :
      \/ AbortPatching("stub.c:246")
      \/ AbortPatching("stub.c:219")
      \/ ~RestoreAsserts(stuck) /\ \E done \in SUBSET tried : InstallPatch(cb, stuck, done)
  BY Zenon DEF ReplacePatch
<1>2. CASE AbortPatching("stub.c:246") \/ AbortPatching("stub.c:219")
  BY <1>1, <1>2 DEF AbortPatching, PatchInv
<1>3. ASSUME ~RestoreAsserts(stuck),
             NEW done \in SUBSET tried, InstallPatch(cb, stuck, done)
      PROVE  PatchInv'
  <2>1. stuck = {} /\ done \subseteq Registered /\ (done # {} => cb # None)
    OBVIOUS
  <2>2. Registered \subseteq StubSet
    BY DEF Registered, Cleaned, StubSet
  <2>3. ASSUME NEW s \in Registered
        PROVE  RestoredCode(stuck)[s] = Default /\ RestoredSaved(stuck)[s] = None
    BY <1>3, <2>1, <2>2, <2>3
       DEF PatchInv, RestoredCode, RestoredSaved, RestoreAsserts, ToRestore
  <2>4. ASSUME NEW s \in StubSet \ Registered
        PROVE  RestoredCode(stuck)[s] = code[s] /\ RestoredSaved(stuck)[s] = saved[s]
    BY <2>4 DEF RestoredCode, RestoredSaved, ToRestore
  <2>5. \A s \in Registered : IF s \in isPatched'
          THEN stubOwner' # None /\ code'[s] = stubOwner' /\ saved'[s] = Default
          ELSE code'[s] = Default /\ saved'[s] = None
    BY <1>3, <2>1, <2>2, <2>3 DEF InstallPatch
  <2>6. \A s \in StubSet \ Registered :
          code'[s] = code[s] /\ saved'[s] = saved[s] /\ (s \in isPatched' <=> s \in isPatched)
    BY <1>3, <2>1, <2>4 DEF InstallPatch
  <2> QED
    BY <1>1, <2>5, <2>6 DEF PatchInv
<1> QED
  BY <1>2, <1>3

\* Every step keeps the code of the stub sets and its saved copies in agreement.
LEMMA PatchStep ==
  ASSUME ~RestoreMayFail, OwnershipInv, PatchInv, Next
  PROVE  PatchInv'
<1> USE DEF clientVars, threadVars, countVars, tableVars, patchVars, forkVars
<1>1. ASSUME UNCHANGED <<client, patchVars>>
      PROVE  PatchInv'
  BY <1>1 DEF PatchInv, Registered, Cleaned, Initialized
<1>2. ASSUME NEW c \in Client, DispatchInit(c)
      PROVE  PatchInv'
  BY <1>2, ConstantsAssumption
     DEF PatchInv, Registered, Cleaned, Initialized, DispatchInit, OwnershipInv, TypeOK,
         StubSet, Client
<1>3. ASSUME NEW c \in Client, DispatchFini(c)
      PROVE  PatchInv'
  <2> DEFINE last == \A d \in Client \ {c} : client[d] = "out"
  <2>1. CASE ~last
    BY <1>3, <2>1, ConstantsAssumption
       DEF PatchInv, Registered, Cleaned, Initialized, DispatchFini, OwnershipInv, TypeOK,
           LoadInv, StubSet, Client
  <2>2. CASE last
    <3>1. stubOwner = None
      BY <1>3, <2>2, ConstantsAssumption
         DEF DispatchFini, OwnershipInv, TypeOK, LoadInv, VendorsOf, Client
    <3> QED
      BY <1>3, <2>2, <3>1, ConstantsAssumption
         DEF PatchInv, Registered, Cleaned, Initialized, DispatchFini, OwnershipInv, TypeOK,
             LoadInv, StubSet, Client
  <2> QED
    BY <2>1, <2>2
<1>4. ASSUME NEW s \in StubLib, RegisterStubCallbacks(s)
      PROVE  PatchInv'
  BY <1>4, ConstantsAssumption
     DEF PatchInv, Registered, Cleaned, Initialized, RegisterStubCallbacks, OwnershipInv,
         TypeOK, StubSet, Client
<1>5. ASSUME NEW s \in StubLib, StubCleanup(s)
      PROVE  PatchInv'
  BY <1>5, ConstantsAssumption
     DEF PatchInv, Registered, Cleaned, Initialized, StubCleanup, OwnershipInv, TypeOK,
         StubSet, Client
<1>6. ASSUME NEW s \in StubLib, UnregisterStubCallbacks(s)
      PROVE  PatchInv'
  BY <1>6, ConstantsAssumption
     DEF PatchInv, Registered, Cleaned, Initialized, UnregisterStubCallbacks, OwnershipInv,
         TypeOK, StubSet, Client
<1>7. ASSUME NEW v \in Vendor, ForceUnpatch(v)
      PROVE  PatchInv'
  BY <1>1, <1>7, ReplacePatchCode, ConstantsAssumption DEF ForceUnpatch, OwnershipInv
<1>8. ASSUME NEW t \in Thread, NEW v \in Vendor, MakeCurrent(t, v)
      PROVE  PatchInv'
  <2> DEFINE cb == IF v \in PatchVendor THEN v ELSE None
  <2>1. client' = client /\ PatchEntrypoints(t, cb)
    BY <1>8 DEF MakeCurrent
  <2>2. UNCHANGED patchVars \/ (cb # stubOwner /\ ReplacePatch(cb))
    BY <2>1 DEF PatchEntrypoints
  <2> QED
    BY <1>1, <2>1, <2>2, ReplacePatchCode DEF OwnershipInv
<1>9. LibraryStep => PatchInv'
  BY <1>1, <1>2, <1>3, <1>4, <1>5, <1>6, <1>7 DEF LibraryStep, CreateTable, DestroyTable
<1>10. ASSUME NEW t \in Thread, ThreadStep(t)
       PROVE  PatchInv'
  BY <1>1, <1>8, <1>10 DEF ThreadStep, PublishCurrent, LoseCurrent, ClearCurrent,
                           ThreadDestroyed, GetProcAddress, Fork, Reset
<1> QED
  BY <1>9, <1>10 DEF Next

\* Before the first library loads, every entrypoint holds libglvnd's code.
LEMMA PatchInit == Init => PatchInv
BY ConstantsAssumption DEF Init, PatchInv, Registered, Cleaned, Initialized, StubSet, Client

\* If mprotect does not fail, the code of the stub sets always agrees with the
\* owner of the patch and with the saved copies.
THEOREM CodeInvariant == ASSUME ~RestoreMayFail PROVE Spec => []CodeInv
<1>1. Init => CodeInv
  BY OwnershipInit, PatchInit DEF CodeInv
<1>2. CodeInv /\ [Next]_vars => CodeInv'
  <2>1. ASSUME PatchInv, UNCHANGED vars
        PROVE  PatchInv'
    BY <2>1 DEF vars, clientVars, patchVars, PatchInv, Registered, Cleaned, Initialized
  <2> QED
    BY <2>1, PatchStep, OwnershipInvStep DEF CodeInv
<1> QED
  BY <1>1, <1>2, PTL DEF Spec

\* If mprotect does not fail, a thread with a current context calls through its
\* own vendor's table, and into no other vendor's code.
THEOREM OwnCode == ASSUME ~RestoreMayFail PROVE Spec => []OwnCodeOnly
<1>1. CodeInv => OwnCodeOnly
  <2> SUFFICES ASSUME CodeInv, NEW t \in Thread, step[t] = "idle", tls[t] # None
               PROVE  /\ glapi[t] = tls[t]
                      /\ \A s \in Registered : code[s] \in {Default, tls[t]}
    BY DEF OwnCodeOnly
  <2>1. glapi[t] = tls[t] /\ priv[t] = tls[t]
    BY DEF CodeInv, OwnershipInv, ThreadInv
  <2>2. stubOwner \in {None, tls[t]}
    BY <2>1 DEF CodeInv, OwnershipInv, OwnerExcludesOthers
  <2> QED
    BY <2>1, <2>2 DEF CodeInv, PatchInv
<1> QED
  BY <1>1, CodeInvariant, PTL

\* If mprotect does not fail, no entrypoint holds the code of a vendor that is
\* being unloaded, or has been.
THEOREM PatchOfLoaded == ASSUME ~RestoreMayFail PROVE Spec => []PatchOfLoadedVendor
<1>1. CodeInv => PatchOfLoadedVendor
  BY DEF CodeInv, OwnershipInv, LoadInv, PatchInv, PatchOfLoadedVendor
<1> QED
  BY <1>1, CodeInvariant, PTL

\* If mprotect does not fail, a stub set that is not being unloaded is either
\* untouched or can be put back.
THEOREM PatchConsistent == ASSUME ~RestoreMayFail PROVE Spec => []PatchStateConsistent
<1>1. CodeInv => PatchStateConsistent
  BY DEF CodeInv, PatchInv, PatchStateConsistent
<1> QED
  BY <1>1, CodeInvariant, PTL

-----------------------------------------------------------------------------
(* The dispatch tables: use counts, and which of them are complete.        *)

\* A table has finitely many threads, as there are finitely many.
LEMMA ThreadsOfFinite ==
  ASSUME NEW v
  PROVE  IsFiniteSet(ThreadsOf(v)) /\ Cardinality(ThreadsOf(v)) \in Nat
BY ConstantsAssumption, FS_Subset, FS_CardinalityType DEF ThreadsOf

\* A vendor that no thread has a context of has an empty table.
LEMMA ThreadsOfNone ==
  ASSUME NEW v, \A t \in Thread : priv[t] # v
  PROVE  Cardinality(ThreadsOf(v)) = 0
<1>1. ThreadsOf(v) = {}
  BY DEF ThreadsOf
<1> QED
  BY <1>1, FS_EmptySet

\* The tables of vendors that are not loaded are not in use.
LEMMA TablesInUse ==
  ASSUME OwnershipInv, TableUsesCounted, NEW v \in Vendor
  PROVE  /\ currentThreads[v] \in Int
         /\ vendor[v] # "loaded" => v \notin currentDispatchList /\ \A t \in Thread : priv[t] # v
         /\ vendor[v] = "loaded" => currentThreads[v] >= 0
         /\ \A t \in Thread : priv[t] = v => currentThreads[v] >= 1
<1>1. currentThreads[v] \in Int
  BY DEF OwnershipInv, TypeOK
<1>2. vendor[v] # "loaded" => v \notin currentDispatchList /\ \A t \in Thread : priv[t] # v
  BY ConstantsAssumption DEF OwnershipInv, LoadInv, HasContext, TableUsesCounted
<1>3. Cardinality(ThreadsOf(v)) \in Nat /\ IsFiniteSet(ThreadsOf(v))
  BY ThreadsOfFinite
<1>4. vendor[v] = "loaded" => currentThreads[v] >= Cardinality(ThreadsOf(v))
  BY DEF TableUsesCounted
<1>5. ASSUME NEW t \in Thread, priv[t] = v
      PROVE  currentThreads[v] >= 1
  <2>1. t \in ThreadsOf(v)
    BY <1>5 DEF ThreadsOf
  <2>2. Cardinality(ThreadsOf(v)) # 0
    BY <1>3, <2>1, FS_EmptySet
  <2> QED
    BY <1>1, <1>2, <1>3, <1>4, <1>5, <2>2
<1> QED
  BY <1>1, <1>2, <1>3, <1>4, <1>5

\* What every step but those on the tables themselves leaves alone.
LEMMA TableFrame ==
  ASSUME TableUsesCounted,
         UNCHANGED <<vendor, priv, currentThreads, currentDispatchList, forkPending>>
  PROVE  TableUsesCounted'
BY DEF TableUsesCounted, ThreadsOf

\* One more thread has the table of v current.
LEMMA TableAcquired ==
  ASSUME OwnershipInv, TableUsesCounted, NEW t \in Thread, NEW v \in Vendor,
         vendor[v] = "loaded", priv[t] = None, DispatchCurrentRef(v),
         priv' = [priv EXCEPT ![t] = v], UNCHANGED <<vendor, forkPending>>
  PROVE  TableUsesCounted'
<1>1. ThreadsOf(v)' = ThreadsOf(v) \cup {t} /\ t \notin ThreadsOf(v)
  BY ConstantsAssumption DEF ThreadsOf, OwnershipInv, TypeOK
<1>2. /\ Cardinality(ThreadsOf(v)') = Cardinality(ThreadsOf(v)) + 1
      /\ Cardinality(ThreadsOf(v)) \in Nat
  BY <1>1, ThreadsOfFinite, FS_AddElement
<1>3. \A w \in Vendor \ {v} : ThreadsOf(w)' = ThreadsOf(w)
  BY ConstantsAssumption DEF ThreadsOf, OwnershipInv, TypeOK
<1>4. /\ currentThreads'[v] = currentThreads[v] + 1
      /\ \A w \in Vendor \ {v} : currentThreads'[w] = currentThreads[w]
  BY DEF DispatchCurrentRef, OwnershipInv, TypeOK
<1>5. currentThreads[v] \in Int /\ currentThreads[v] >= 0
  BY TablesInUse
<1>6. v \in currentDispatchList'
  BY <1>5 DEF DispatchCurrentRef, TableUsesCounted
<1>7. \A w \in Vendor \ {v} : w \in currentDispatchList' <=> w \in currentDispatchList
  BY DEF DispatchCurrentRef
<1> QED
  BY <1>2, <1>3, <1>4, <1>5, <1>6, <1>7 DEF TableUsesCounted

\* ... and one less.
LEMMA TableReleased ==
  ASSUME OwnershipInv, TableUsesCounted, NEW t \in Thread, LoseCurrentLocked(t),
         UNCHANGED <<vendor, forkPending>>
  PROVE  TableUsesCounted'
<1>1. PICK v \in Vendor : v = priv[t]
  BY DEF LoseCurrentLocked, OwnershipInv, TypeOK, ThreadInv
<1>2. priv' = [priv EXCEPT ![t] = None] /\ DispatchCurrentUnref(v)
  BY <1>1 DEF LoseCurrentLocked
<1>3. ThreadsOf(v)' = ThreadsOf(v) \ {t} /\ t \in ThreadsOf(v)
  BY <1>1, <1>2, ConstantsAssumption DEF ThreadsOf, OwnershipInv, TypeOK
<1>4. \A w \in Vendor \ {v} : ThreadsOf(w)' = ThreadsOf(w)
  BY <1>1, <1>2, ConstantsAssumption DEF ThreadsOf, OwnershipInv, TypeOK
<1>5. currentThreads[v] \in Int /\ currentThreads[v] >= 1 /\ vendor[v] = "loaded"
  BY <1>1, TablesInUse
<1>6. /\ Cardinality(ThreadsOf(v)') = Cardinality(ThreadsOf(v)) - 1
      /\ Cardinality(ThreadsOf(v)) \in Nat
  BY <1>3, ThreadsOfFinite, FS_RemoveElement
<1>7. /\ currentThreads'[v] = currentThreads[v] - 1
      /\ \A w \in Vendor \ {v} : currentThreads'[w] = currentThreads[w]
  BY <1>1, <1>2 DEF DispatchCurrentUnref, OwnershipInv, TypeOK
<1>8. v \in currentDispatchList' <=> currentThreads'[v] > 0
  BY <1>1, <1>2, <1>5, <1>7 DEF DispatchCurrentUnref, TableUsesCounted
<1>9. \A w \in Vendor \ {v} : w \in currentDispatchList' <=> w \in currentDispatchList
  BY <1>2 DEF DispatchCurrentUnref
<1> QED
  BY <1>1, <1>4, <1>5, <1>6, <1>7, <1>8, <1>9 DEF TableUsesCounted

\* The other threads vanish in a fork.  Every loaded vendor's library has then
\* yet to notice, so that a count may be too high.
LEMMA TableForked ==
  ASSUME OwnershipInv, TableUsesCounted, NEW t \in Thread, Fork(t)
  PROVE  TableUsesCounted'
<1> USE DEF Fork, clientVars, countVars
<1> SUFFICES ASSUME NEW v \in Vendor, vendor[v] = "loaded"
             PROVE  /\ currentThreads[v] >= Cardinality(ThreadsOf(v)')
                    /\ Api[v] \in forkPending'
  BY DEF TableUsesCounted
<1>1. Api[v] \in forkPending'
  BY ConstantsAssumption DEF OwnershipInv, LoadInv
<1>2. ThreadsOf(v)' \in SUBSET ThreadsOf(v)
  BY ConstantsAssumption DEF ThreadsOf
<1>3. /\ Cardinality(ThreadsOf(v)') <= Cardinality(ThreadsOf(v))
      /\ Cardinality(ThreadsOf(v)') \in Nat /\ Cardinality(ThreadsOf(v)) \in Nat
  BY <1>2, ThreadsOfFinite, FS_Subset, FS_CardinalityType
<1>4. currentThreads[v] >= Cardinality(ThreadsOf(v)) /\ currentThreads[v] \in Int
  BY TablesInUse DEF TableUsesCounted
<1> QED
  BY <1>1, <1>3, <1>4

\* __glDispatchReset, when no other thread has a context any more.
LEMMA TableReset ==
  ASSUME OwnershipInv, TableUsesCounted, ~ResetWhileCurrent,
         NEW t \in Thread, NEW w \in Winsys, Reset(t, w)
  PROVE  TableUsesCounted'
<1>1. \A v \in Vendor : Cardinality(ThreadsOf(v)') = 0
  <2>1. \A u \in Thread : priv'[u] = None
    BY DEF Reset, OwnershipInv, TypeOK
  <2>2. \A v \in Vendor : ThreadsOf(v)' = {}
    BY <2>1, ConstantsAssumption DEF ThreadsOf
  <2> QED
    BY <2>2, FS_EmptySet
<1>2. \A v \in Vendor : vendor[v] = "loaded" => currentThreads'[v] = 0
  <2> SUFFICES ASSUME NEW v \in Vendor, vendor[v] = "loaded"
               PROVE  currentThreads'[v] = 0
    OBVIOUS
  <2>1. currentThreads'[v] = IF v \in currentDispatchList THEN 0 ELSE currentThreads[v]
    BY DEF Reset, ResetDispatchList
  <2> QED
    BY <2>1, TablesInUse DEF TableUsesCounted
<1>3. currentDispatchList' = {} /\ vendor' = vendor
  BY DEF Reset, ResetDispatchList, clientVars
<1> QED
  BY <1>1, <1>2, <1>3 DEF TableUsesCounted

\* The vendors' tables come and go.
LEMMA TableLibraryStep ==
  ASSUME OwnershipInv, TableUsesCounted, LibraryStep
  PROVE  TableUsesCounted'
<1> USE DEF clientVars, threadVars, countVars, tableVars, patchVars, forkVars
<1>1. ASSUME NEW c \in Client, DispatchInit(c)
      PROVE  TableUsesCounted'
  <2>1. CASE Initialized
    BY <1>1, <2>1, TableFrame DEF DispatchInit
  <2>2. CASE ~Initialized
    <3>1. \A v \in Vendor : vendor[v] # "loaded"
      BY <2>2, ConstantsAssumption DEF Initialized, OwnershipInv, LoadInv, Client
    <3> QED
      BY <1>1, <2>2, <3>1 DEF DispatchInit, TableUsesCounted
  <2> QED
    BY <2>1, <2>2
<1>2. ASSUME NEW c \in Client, DispatchFini(c)
      PROVE  TableUsesCounted'
  <2>1. CASE priv' = priv
    BY <1>2, <2>1, TableFrame DEF DispatchFini
  <2>2. CASE \A d \in Client \ {c} : client[d] = "out"
    <3>1. \A v \in Vendor : vendor[v] # "loaded"
      BY <1>2, <2>2, ConstantsAssumption DEF DispatchFini, VendorsOf, OwnershipInv, LoadInv, Client
    <3> QED
      BY <1>2, <3>1 DEF DispatchFini, TableUsesCounted
  <2> QED
    BY <1>2, <2>1, <2>2 DEF DispatchFini
<1>3. ASSUME NEW v \in Vendor, CreateTable(v)
      PROVE  TableUsesCounted'
  <2>1. Cardinality(ThreadsOf(v)) = 0 /\ v \notin currentDispatchList
    BY <1>3, TablesInUse, ThreadsOfNone DEF CreateTable
  <2>2. /\ vendor'[v] = "loaded" /\ currentThreads'[v] = 0
        /\ \A w \in Vendor \ {v} : /\ vendor'[w] = vendor[w]
                                   /\ currentThreads'[w] = currentThreads[w]
    BY <1>3 DEF CreateTable, OwnershipInv, TypeOK
  <2>3. \A w \in Vendor : ThreadsOf(w)' = ThreadsOf(w)
    BY <1>3 DEF CreateTable, ThreadsOf
  <2> QED
    BY <1>3, <2>1, <2>2, <2>3 DEF CreateTable, TableUsesCounted
<1>4. ASSUME NEW v \in Vendor, ForceUnpatch(v) \/ DestroyTable(v)
      PROVE  TableUsesCounted'
  <2>1. CASE vendor' = vendor
    BY <1>4, <2>1, TableFrame DEF ForceUnpatch, DestroyTable
  <2>2. CASE vendor' # vendor
    <3>1. v \notin currentDispatchList
      <4>1. CASE DestroyTable(v)
        BY <4>1 DEF DestroyTable, TableUsesCounted
      <4>2. CASE ForceUnpatch(v)
        <5>1. Cardinality(ThreadsOf(v)) = 0
          BY <4>2, ThreadsOfNone DEF ForceUnpatch, ContextsReleased
        <5> QED
          BY <4>2, <5>1 DEF ForceUnpatch, TableUsesCounted
      <4> QED
        BY <1>4, <4>1, <4>2
    <3>2. vendor'[v] # "loaded" /\ \A w \in Vendor \ {v} : vendor'[w] = vendor[w]
      BY <1>4, <2>2 DEF ForceUnpatch, DestroyTable, OwnershipInv, TypeOK
    <3>3. \A w \in Vendor : ThreadsOf(w)' = ThreadsOf(w)
      BY <1>4 DEF ForceUnpatch, DestroyTable, ThreadsOf
    <3> QED
      BY <1>4, <3>1, <3>2, <3>3 DEF ForceUnpatch, DestroyTable, TableUsesCounted
  <2> QED
    BY <2>1, <2>2
<1>5. ASSUME NEW s \in StubLib,
             RegisterStubCallbacks(s) \/ StubCleanup(s) \/ UnregisterStubCallbacks(s)
      PROVE  TableUsesCounted'
  BY <1>5, TableFrame DEF RegisterStubCallbacks, StubCleanup, UnregisterStubCallbacks
<1> QED
  BY <1>1, <1>2, <1>3, <1>4, <1>5 DEF LibraryStep

\* Every step keeps the use counts right.
LEMMA TableCountStep ==
  ASSUME OwnershipInv, TableUsesCounted, ~ResetWhileCurrent, Next
  PROVE  TableUsesCounted'
<1> USE DEF clientVars, threadVars, countVars, tableVars, patchVars, forkVars
<1>1. ASSUME NEW t \in Thread, NEW v \in Vendor, MakeCurrent(t, v)
      PROVE  TableUsesCounted'
  <2>1. vendor[v] = "loaded" /\ priv[t] = None
    BY <1>1 DEF MakeCurrent, CanCall, OwnershipInv, ThreadInv
  <2>2. UNCHANGED <<vendor, forkPending>>
    BY <1>1 DEF MakeCurrent
  <2>3. CASE UNCHANGED <<threadVars, countVars, tableVars>>
    BY <2>2, <2>3, TableFrame
  <2>4. CASE DispatchCurrentRef(v) /\ priv' = [priv EXCEPT ![t] = v]
    BY <2>1, <2>2, <2>4, TableAcquired
  <2> QED
    BY <1>1, <2>3, <2>4 DEF MakeCurrent
<1>2. ASSUME NEW t \in Thread, LoseCurrent(t) \/ ThreadDestroyed(t)
      PROVE  TableUsesCounted'
  BY <1>2, TableReleased DEF LoseCurrent, ThreadDestroyed
<1>3. ASSUME NEW t \in Thread, PublishCurrent(t) \/ ClearCurrent(t)
                               \/ \E name \in ProcName : GetProcAddress(t, name)
      PROVE  TableUsesCounted'
  BY <1>3, TableFrame DEF PublishCurrent, ClearCurrent, GetProcAddress
<1>4. ASSUME NEW t \in Thread, ThreadStep(t)
      PROVE  TableUsesCounted'
  BY <1>1, <1>2, <1>3, <1>4, TableForked, TableReset DEF ThreadStep
<1> QED
  BY <1>4, TableLibraryStep DEF Next

\* Every step leaves the tables on the list complete: a table is filled when it
\* gets on the list, and a new stub gets an entry in every table that is there.
LEMMA TableCompleteStep ==
  ASSUME OwnershipInv, TableUsesCounted, ListedTablesComplete, Next
  PROVE  ListedTablesComplete'
<1> USE DEF clientVars, threadVars, countVars, tableVars, patchVars, forkVars
<1>1. ASSUME StaticProc \subseteq stubs', stubs' \subseteq stubs, tableProcs' = tableProcs,
             currentDispatchList' \subseteq currentDispatchList
      PROVE  ListedTablesComplete'
  BY <1>1 DEF ListedTablesComplete
<1>2. ASSUME NEW v \in Vendor, CreateTable(v)
      PROVE  ListedTablesComplete'
  <2>1. v \notin currentDispatchList
    BY <1>2 DEF CreateTable, TableUsesCounted
  <2> QED
    BY <1>2, <2>1 DEF CreateTable, ListedTablesComplete, OwnershipInv, TypeOK
<1>3. ASSUME NEW t \in Thread, NEW v \in Vendor, MakeCurrent(t, v)
      PROVE  ListedTablesComplete'
  <2>1. CASE UNCHANGED <<threadVars, countVars, tableVars>>
    BY <1>1, <2>1 DEF ListedTablesComplete
  <2>2. CASE /\ tableProcs' = [tableProcs EXCEPT ![v] = FixupDispatchTable(@, stubs)]
             /\ DispatchCurrentRef(v)
             /\ stubs' = stubs
    <3>1. currentDispatchList' \subseteq currentDispatchList \cup {v}
      BY <2>2 DEF DispatchCurrentRef
    <3>2. /\ stubs \subseteq tableProcs'[v]
          /\ \A w \in Vendor \ {v} : tableProcs'[w] = tableProcs[w]
      BY <2>2 DEF FixupDispatchTable, OwnershipInv, TypeOK
    <3>3. currentDispatchList \subseteq Vendor
      BY DEF OwnershipInv, TypeOK
    <3> QED
      BY <2>2, <3>1, <3>2, <3>3 DEF ListedTablesComplete
  <2> QED
    BY <1>3, <2>1, <2>2 DEF MakeCurrent
<1>4. ASSUME NEW t \in Thread, LoseCurrent(t) \/ ThreadDestroyed(t)
      PROVE  ListedTablesComplete'
  <2>1. currentDispatchList' \subseteq currentDispatchList
    BY <1>4 DEF LoseCurrent, ThreadDestroyed, LoseCurrentLocked, DispatchCurrentUnref
  <2> QED
    BY <1>1, <1>4, <2>1 DEF LoseCurrent, ThreadDestroyed, ListedTablesComplete
<1>5. ASSUME NEW t \in Thread, NEW name \in ProcName, GetProcAddress(t, name)
      PROVE  ListedTablesComplete'
  BY <1>5 DEF GetProcAddress, FixupDispatchTable, ListedTablesComplete, OwnershipInv, TypeOK
<1>6. ASSUME NEW t \in Thread, PublishCurrent(t) \/ ClearCurrent(t) \/ Fork(t)
                               \/ \E w \in Winsys : Reset(t, w)
      PROVE  ListedTablesComplete'
  BY <1>1, <1>6 DEF PublishCurrent, ClearCurrent, Fork, Reset, ResetDispatchList,
                    ListedTablesComplete
<1>7. ASSUME NEW c \in Client, DispatchInit(c) \/ DispatchFini(c)
      PROVE  ListedTablesComplete'
  BY <1>1, <1>7 DEF DispatchInit, DispatchFini, ListedTablesComplete
<1>8. ASSUME LibraryStep
      PROVE  ListedTablesComplete'
  BY <1>1, <1>2, <1>7, <1>8
     DEF LibraryStep, RegisterStubCallbacks, StubCleanup, UnregisterStubCallbacks,
         ForceUnpatch, DestroyTable, ListedTablesComplete
<1>9. ASSUME NEW t \in Thread, ThreadStep(t)
      PROVE  ListedTablesComplete'
  BY <1>3, <1>4, <1>5, <1>6, <1>9 DEF ThreadStep
<1> QED
  BY <1>8, <1>9 DEF Next

\* No table is in use before the first library loads.
LEMMA TableInit == Init => TableInv
BY DEF Init, TableInv, TableUsesCounted, ListedTablesComplete

\* Every step preserves it.
LEMMA TableInvStep ==
  ASSUME ~ResetWhileCurrent
  PROVE  OwnershipInv /\ TableInv /\ [Next]_vars => TableInv'
<1>1. ASSUME TableInv, UNCHANGED vars
      PROVE  TableInv'
  BY <1>1 DEF TableInv, TableUsesCounted, ListedTablesComplete, ThreadsOf, vars, clientVars,
              threadVars, countVars, tableVars, forkVars
<1> QED
  BY <1>1, TableCountStep, TableCompleteStep DEF TableInv

\* If nothing is reset while another thread of the child has a context, the use
\* count of every table is the number of its threads, the list holds exactly the
\* tables in use, and these have an entry for every stub.
THEOREM TableInvariant == ASSUME ~ResetWhileCurrent PROVE Spec => []TableInv
<1>1. Init => TableInv
  BY TableInit
<1>2. OwnershipInv /\ TableInv /\ [Next]_vars => TableInv'
  BY TableInvStep
<1> QED
  BY <1>1, <1>2, OwnershipInvariant, PTL DEF Spec

\* ... so that no thread ever calls through an unset slot of its table, with any
\* number of stubs added while it runs.
THEOREM TableComplete == ASSUME ~ResetWhileCurrent PROVE Spec => []CurrentTableComplete
<1>1. OwnershipInv /\ TableInv => CurrentTableComplete
  <2> SUFFICES ASSUME OwnershipInv, TableInv,
                      NEW t \in Thread, step[t] = "idle", glapi[t] # None
               PROVE  stubs \subseteq tableProcs[glapi[t]]
    BY DEF CurrentTableComplete
  <2>1. priv[t] = glapi[t] /\ glapi[t] \in Vendor
    BY DEF OwnershipInv, ThreadInv, TypeOK
  <2>2. vendor[glapi[t]] = "loaded" /\ currentThreads[glapi[t]] >= 1
    BY <2>1, TablesInUse DEF TableInv
  <2>3. currentThreads[glapi[t]] \in Int
    BY <2>1, TablesInUse DEF TableInv
  <2>4. glapi[t] \in currentDispatchList
    BY <2>1, <2>2, <2>3 DEF TableInv, TableUsesCounted
  <2> QED
    BY <2>4 DEF TableInv, ListedTablesComplete
<1> QED
  BY <1>1, OwnershipInvariant, TableInvariant, PTL

-----------------------------------------------------------------------------
(* The assertions.                                                         *)

\* The assertions of GLdispatch.c itself, on the use counts and the tables.
DispatchAssertions == {"GLdispatch.c:241", "GLdispatch.c:304"}

DispatchAssertsOK == failedAssert \notin DispatchAssertions

\* No step but one that patches can fail an assertion of stub.c, and none fails
\* one of GLdispatch.c.
LEMMA DispatchAssertStep ==
  ASSUME OwnershipInv, TableInv, failedAssert = None, Next
  PROVE  failedAssert' \notin DispatchAssertions
<1> USE DEF clientVars, threadVars, countVars, tableVars, patchVars, forkVars
<1> DEFINE Goal == failedAssert' \in {None, "stub.c:246", "stub.c:219"}
<1>1. ASSUME NEW cb, ReplacePatch(cb)
      PROVE  Goal
  BY <1>1 DEF ReplacePatch, AbortPatching, InstallPatch
<1>2. ASSUME NEW t \in Thread, NEW v \in Vendor, MakeCurrent(t, v)
      PROVE  Goal
  BY <1>1, <1>2 DEF MakeCurrent, PatchEntrypoints
<1>3. ASSUME NEW t \in Thread, LoseCurrent(t) \/ ThreadDestroyed(t)
      PROVE  Goal
  <2>1. /\ tls[t] # None /\ step[t] = "idle"
        /\ DispatchCurrentUnref(priv[t])
    BY <1>3 DEF LoseCurrent, ThreadDestroyed, LoseCurrentLocked
  <2>2. PICK v \in Vendor : v = priv[t]
    BY <2>1 DEF OwnershipInv, TypeOK, ThreadInv
  <2>3. currentThreads[v] \in Int /\ currentThreads[v] >= 1
    BY <2>2, TablesInUse DEF TableInv
  <2>4. failedAssert' = IF currentThreads[v] - 1 < 0 THEN "GLdispatch.c:241"
                                                     ELSE failedAssert
    BY <2>1, <2>2 DEF DispatchCurrentUnref
  <2> QED
    BY <2>3, <2>4
<1>4. ASSUME NEW t \in Thread, NEW name \in ProcName, GetProcAddress(t, name)
      PROVE  Goal
  <2>1. \A v \in currentDispatchList : tableProcs[v] # {}
    BY ConstantsAssumption DEF TableInv, ListedTablesComplete
  <2> QED
    BY <1>4, <2>1 DEF GetProcAddress
<1>5. LibraryStep => Goal
  BY <1>1 DEF LibraryStep, DispatchInit, DispatchFini, RegisterStubCallbacks, StubCleanup,
              UnregisterStubCallbacks, CreateTable, ForceUnpatch, DestroyTable
<1>6. ASSUME NEW t \in Thread, ThreadStep(t)
      PROVE  Goal
  BY <1>2, <1>3, <1>4, <1>6 DEF ThreadStep, PublishCurrent, ClearCurrent, Fork, Reset
<1>7. Goal
  BY <1>5, <1>6 DEF Next
<1> QED
  BY <1>7, ConstantsAssumption DEF DispatchAssertions, Assertions

\* Whatever fails and whatever is unloaded, the assertions of GLdispatch.c hold,
\* if nothing is reset while another thread of the child has a context.
THEOREM DispatchAssertsHold == ASSUME ~ResetWhileCurrent PROVE Spec => []DispatchAssertsOK
<1>1. Init => DispatchAssertsOK
  BY ConstantsAssumption DEF Init, DispatchAssertsOK, DispatchAssertions, Assertions
<1>2. OwnershipInv /\ TableInv /\ DispatchAssertsOK /\ [Next]_vars => DispatchAssertsOK'
  <2>1. Next => failedAssert = None
    BY DEF Next
  <2> QED
    BY <2>1, DispatchAssertStep DEF DispatchAssertsOK, vars
<1> QED
  BY <1>1, <1>2, OwnershipInvariant, TableInvariant, PTL DEF Spec

\* Patching and restoring fail no assertion when mprotect does not fail and no
\* stub library is between stub_cleanup and its unregistration: every set that
\* is to be restored has a saved copy, and none that is to be patched.
LEMMA PatchAssertStep ==
  ASSUME ~RestoreMayFail, OwnershipInv, PatchInv, Cleaned = {}, NEW cb, ReplacePatch(cb)
  PROVE  failedAssert' = failedAssert
<1> USE DEF patchVars
<1>1. Registered \subseteq StubSet
  BY DEF Registered, Cleaned, StubSet
<1> SUFFICES ASSUME NEW stuck \in SUBSET (IF RestoreMayFail THEN ToRestore ELSE {}),
                    NEW tried \in SUBSET (IF cb = None THEN {} ELSE Registered)
             PROVE  ~RestoreAsserts(stuck) /\ ~PatchAsserts(stuck, tried)
  BY DEF ReplacePatch, InstallPatch
<1>2. stuck = {} /\ tried \subseteq Registered
  OBVIOUS
<1>3. \A s \in ToRestore : saved[s] = Default
  BY ConstantsAssumption DEF PatchInv, ToRestore
<1>4. \A s \in tried : RestoredSaved(stuck)[s] = None
  BY <1>1, <1>2, ConstantsAssumption DEF PatchInv, ToRestore, RestoredSaved
<1> QED
  BY <1>2, <1>3, <1>4, ConstantsAssumption DEF RestoreAsserts, PatchAsserts

\* A stub library that is not unloaded does not run stub_cleanup.
LEMMA CleanedStep ==
  ASSUME StubLib \cap MayUnload = {}, OwnershipInv, Cleaned = {}, Next
  PROVE  Cleaned' = {}
<1> USE DEF clientVars
<1>1. ASSUME NEW c \in Client, DispatchInit(c) \/ DispatchFini(c)
      PROVE  Cleaned' = {}
  BY <1>1, ConstantsAssumption DEF DispatchInit, DispatchFini, Cleaned, Client, OwnershipInv, TypeOK
<1>2. ASSUME NEW s \in StubLib,
             RegisterStubCallbacks(s) \/ StubCleanup(s) \/ UnregisterStubCallbacks(s)
      PROVE  Cleaned' = {}
  BY <1>2 DEF RegisterStubCallbacks, StubCleanup, UnregisterStubCallbacks, Cleaned,
              Client, OwnershipInv, TypeOK
<1>3. CASE client' = client
  BY <1>3 DEF Cleaned
<1>4. ASSUME NEW t \in Thread, ThreadStep(t)
      PROVE  client' = client
  BY <1>4 DEF ThreadStep, MakeCurrent, PublishCurrent, LoseCurrent, ClearCurrent,
              ThreadDestroyed, GetProcAddress, Fork, Reset
<1>5. LibraryStep => Cleaned' = {}
  BY <1>1, <1>2, <1>3 DEF LibraryStep, CreateTable, ForceUnpatch, DestroyTable
<1> QED
  BY <1>3, <1>4, <1>5 DEF Next

\* No assertion fails at all when, besides, mprotect does not fail and no library
\* with stubs of its own is unloaded.
THEOREM NoAsserts ==
  ASSUME ~RestoreMayFail, ~ResetWhileCurrent, StubLib \cap MayUnload = {}
  PROVE  Spec => []NoAssertFails
<1> DEFINE Inv == NoAssertFails /\ Cleaned = {}
<1>1. Init => Inv
  BY DEF Init, NoAssertFails, Cleaned, Client
<1>2. CodeInv /\ TableInv /\ Inv /\ [Next]_vars => Inv'
  <2> SUFFICES ASSUME CodeInv, TableInv, Inv, [Next]_vars
               PROVE  Inv'
    OBVIOUS
  <2> USE DEF CodeInv, NoAssertFails, clientVars, threadVars, countVars, tableVars, patchVars,
              forkVars
  <2>1. CASE UNCHANGED vars
    BY <2>1 DEF vars, Cleaned
  <2>2. CASE Next
    <3>1. \A cb : ReplacePatch(cb) => failedAssert' = None
      BY PatchAssertStep
    <3>2. LibraryStep => failedAssert' = None
      BY <3>1 DEF LibraryStep, DispatchInit, DispatchFini, RegisterStubCallbacks, StubCleanup,
                  UnregisterStubCallbacks, CreateTable, ForceUnpatch, DestroyTable
    <3>3. ASSUME NEW t \in Thread, NEW v \in Vendor, MakeCurrent(t, v)
          PROVE  failedAssert' = None
      BY <3>1, <3>3 DEF MakeCurrent, PatchEntrypoints
    <3>4. ASSUME NEW t \in Thread,
                 LoseCurrent(t) \/ ThreadDestroyed(t)
                   \/ \E name \in ProcName : GetProcAddress(t, name)
          PROVE  failedAssert' \in {None} \cup DispatchAssertions
      BY <3>4 DEF LoseCurrent, ThreadDestroyed, LoseCurrentLocked, DispatchCurrentUnref,
                  GetProcAddress, DispatchAssertions
    <3>5. failedAssert' \notin DispatchAssertions
      BY <2>2, DispatchAssertStep
    <3>6. failedAssert' = None
      BY <2>2, <3>2, <3>3, <3>4, <3>5
         DEF Next, ThreadStep, PublishCurrent, ClearCurrent, Fork, Reset
    <3> QED
      BY <2>2, <3>6, CleanedStep
  <2> QED
    BY <2>1, <2>2
<1>3. Inv => NoAssertFails
  OBVIOUS
<1> QED
  BY <1>1, <1>2, <1>3, CodeInvariant, TableInvariant, PTL DEF Spec

-----------------------------------------------------------------------------
(* Without forks, the count of contexts is exact.                          *)

\* A step of a process that has not forked takes away a context only together
\* with its count.
LEMMA ContextsKept ==
  ASSUME OwnershipInv, forkPending = {}, MaxForks = 0, Next,
         numCurrentContexts' = numCurrentContexts
  PROVE  Contexts \subseteq Contexts'
<1> USE DEF clientVars, threadVars, countVars, tableVars, patchVars, forkVars,
            Contexts, HasContext
<1>1. ASSUME NEW c \in Client, DispatchFini(c)
      PROVE  Contexts \subseteq Contexts'
  <2>1. CASE priv' = priv
    BY <2>1
  <2>2. CASE \A d \in Client \ {c} : client[d] = "out"
    <3>1. \A t \in Thread : priv[t] = None
      BY <1>1, <2>2, ConstantsAssumption
         DEF DispatchFini, ContextsReleased, VendorsOf, OwnershipInv, TypeOK, LoadInv, Client
    <3> QED
      BY <3>1
  <2> QED
    BY <1>1, <2>1, <2>2 DEF DispatchFini
<1>2. ASSUME NEW t \in Thread, NEW v \in Vendor, MakeCurrent(t, v)
      PROVE  Contexts \subseteq Contexts'
  BY <1>2, MakeCurrentCases, ConstantsAssumption DEF OwnershipInv, TypeOK
<1>3. ASSUME NEW t \in Thread, LoseCurrent(t) \/ ThreadDestroyed(t)
      PROVE  numCurrentContexts' # numCurrentContexts
  BY <1>3 DEF LoseCurrent, ThreadDestroyed, LoseCurrentLocked, OwnershipInv, TypeOK
<1>4. ASSUME NEW t \in Thread, Fork(t) \/ \E w \in Winsys : Reset(t, w)
      PROVE  FALSE
  BY <1>4 DEF Fork, Reset, OwnershipInv, TypeOK
<1>5. LibraryStep => Contexts \subseteq Contexts'
  BY <1>1 DEF LibraryStep, DispatchInit, RegisterStubCallbacks, StubCleanup,
              UnregisterStubCallbacks, CreateTable, ForceUnpatch, DestroyTable
<1>6. ASSUME NEW t \in Thread, ThreadStep(t)
      PROVE  Contexts \subseteq Contexts'
  BY <1>2, <1>3, <1>4, <1>6 DEF ThreadStep, PublishCurrent, ClearCurrent, GetProcAddress
<1> QED
  BY <1>5, <1>6 DEF Next

\* In a process that does not fork, the count of contexts is their number.
ExactInv ==
  /\ forkPending = {}
  /\ numCurrentContexts = Cardinality(Contexts)

\* Every step keeps it so.
LEMMA ExactStep ==
  ASSUME OwnershipInv, ExactInv, MaxForks = 0, Next
  PROVE  ExactInv'
<1> USE DEF clientVars, threadVars, countVars, tableVars, patchVars, forkVars
<1>1. forkPending' = {}
  <2>1. ASSUME NEW t \in Thread, Fork(t) \/ \E w \in Winsys : Reset(t, w)
        PROVE  FALSE
    BY <2>1 DEF Fork, Reset, ExactInv, OwnershipInv, TypeOK
  <2>2. LibraryStep => forkPending' = forkPending
    BY DEF LibraryStep, DispatchInit, DispatchFini, RegisterStubCallbacks, StubCleanup,
           UnregisterStubCallbacks, CreateTable, ForceUnpatch, DestroyTable
  <2>3. ASSUME NEW t \in Thread, ThreadStep(t)
        PROVE  forkPending' = forkPending
    BY <2>1, <2>3 DEF ThreadStep, MakeCurrent, PublishCurrent, LoseCurrent, ClearCurrent,
                      ThreadDestroyed, GetProcAddress
  <2> QED
    BY <2>2, <2>3 DEF Next, ExactInv
<1>2. IsFiniteSet(Contexts) /\ Cardinality(Contexts) \in Nat
  BY ContextsFinite
<1>3. CASE Contexts' \subseteq Contexts /\ numCurrentContexts' = numCurrentContexts
  <2>1. Contexts' = Contexts
    BY <1>3, ContextsKept DEF ExactInv
  <2> QED
    BY <1>1, <1>3, <2>1 DEF ExactInv
<1>4. ASSUME NEW t \in Thread \ Contexts,
             Contexts' = Contexts \cup {t}, numCurrentContexts' = numCurrentContexts + 1
      PROVE  ExactInv'
  <2>1. Cardinality(Contexts \cup {t}) = Cardinality(Contexts) + 1
    BY <1>2, FS_AddElement
  <2> QED
    BY <1>1, <1>4, <2>1 DEF ExactInv
<1>5. ASSUME NEW t \in Contexts,
             Contexts' = Contexts \ {t}, numCurrentContexts' = numCurrentContexts - 1
      PROVE  ExactInv'
  <2>1. Cardinality(Contexts \ {t}) = Cardinality(Contexts) - 1
    BY <1>2, FS_RemoveElement
  <2> QED
    BY <1>1, <1>5, <2>1 DEF ExactInv
<1> QED
  BY <1>3, <1>4, <1>5, ContextsStep

\* In a process that does not fork, a vendor switch is refused only while a thread
\* has a context: the count always comes back to zero.
THEOREM RefusalsJustified == ASSUME MaxForks = 0 PROVE Spec => []RefusalJustified
<1>1. Init => ExactInv
  <2> SUFFICES ASSUME Init PROVE ExactInv
    OBVIOUS
  <2>1. Contexts = {}
    BY DEF Init, Contexts, HasContext
  <2> QED
    BY <2>1, FS_EmptySet DEF Init, ExactInv
<1>2. OwnershipInv /\ ExactInv /\ [Next]_vars => ExactInv'
  <2>1. ASSUME ExactInv, UNCHANGED vars
        PROVE  ExactInv'
    BY <2>1 DEF vars, threadVars, countVars, forkVars, ExactInv, Contexts, HasContext
  <2> QED
    BY <2>1, ExactStep
<1>3. ExactInv => RefusalJustified
  <2> SUFFICES ASSUME ExactInv, \A t \in Thread : ~HasContext(t)
               PROVE  numCurrentContexts = 0
    BY DEF RefusalJustified
  <2>1. Contexts = {}
    BY DEF Contexts
  <2> QED
    BY <2>1, FS_EmptySet DEF ExactInv
<1> QED
  BY <1>1, <1>2, <1>3, OwnershipInvariant, PTL DEF Spec

=============================================================================

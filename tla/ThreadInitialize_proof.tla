------------------------ MODULE ThreadInitialize_proof ------------------------
(***************************************************************************)
(* Proofs about the two functions with which every GLX function begins,    *)
(* and every EGL function: __glXThreadInitialize calls CheckFork and then  *)
(* __glDispatchCheckMultithreaded.                                         *)
(*                                                                         *)
(* CheckFork: for any number of threads, calls and forks, as long as       *)
(* process IDs are not reused.                                             *)
(*                                                                         *)
(* UCurrentTsd: for any threads and tables, wherever the switch falls      *)
(* between the accesses of other threads, as long as no thread exits with  *)
(* a context and the libraries are not loaded again after the switch.      *)
(***************************************************************************)
EXTENDS CheckFork, UCurrentTsd, FiniteSetTheorems, TLAPS

-----------------------------------------------------------------------------
(* CheckFork.                                                              *)

\* The threads whose increment counts are finitely many.
LEMMA PendingFinite ==
  IsFiniteSet(Pending) /\ Cardinality(Pending) \in Nat
BY ForksAssumption, FS_Subset, FS_CardinalityType DEF Pending

\* While some thread's increment counts, the number of such threads is positive.
LEMMA PendingPositive ==
  ASSUME NEW t \in Pending
  PROVE  Cardinality(Pending) >= 1
BY PendingFinite, FS_EmptySet

\* The number of such threads when one of them stops being one, ...
LEMMA PendingRemove ==
  ASSUME NEW t \in Pending, Pending' = Pending \ {t}
  PROVE  Cardinality(Pending') = Cardinality(Pending) - 1
BY PendingFinite, FS_RemoveElement

\* ... and when another thread becomes one.
LEMMA PendingAdd ==
  ASSUME NEW t \in Caller \ Pending, Pending' = Pending \cup {t}
  PROVE  Cardinality(Pending') = Cardinality(Pending) + 1
BY PendingFinite, FS_AddElement

\* No state of CheckFork has been touched when the library is loaded.
LEMMA ForkInit == CFInit => ForkInv
<1> SUFFICES ASSUME CFInit PROVE ForkInv
  OBVIOUS
<1>1. CFTypeOK
  <2>1. g_lastPid \in {-1} \cup 1..(forks + 1) /\ pid \in 1..(forks + 1)
    BY DEF CFInit
  <2>2. forks \in 0..MaxForks /\ calls \in [Caller -> 0..MaxCalls]
    BY ForksAssumption DEF CFInit
  <2>3. used \in BOOLEAN /\ state \in {"own", "unused", "inherited"}
    BY DEF CFInit
  <2>4. g_threadsInCheck \in Nat /\ oldVal \in [Caller -> Nat]
    BY DEF CFInit
  <2>5. place \in [Caller -> {"outside", "swap", "reset", "unblock", "load", "cas",
                          "spin", "inside"}]
    BY DEF CFInit
  <2> QED
    BY <2>1, <2>2, <2>3, <2>4, <2>5 DEF CFTypeOK
<1> QED
  BY <1>1 DEF CFInit, ForkInv, InheritedInv

\* Every instruction of CheckFork, and every fork, preserves the invariant.
LEMMA ForkStep ==
  ASSUME ~PidReuse
  PROVE  ForkInv /\ [CFNext]_checkVars => ForkInv'
<1> SUFFICES ASSUME ForkInv, [CFNext]_checkVars PROVE ForkInv'
  OBVIOUS
<1> USE DEF checkVars, counterVars, historyVars, processVars, Move
<1>1. ASSUME NEW t \in Caller, Increment(t)
      PROVE  ForkInv'
  <2>1. CFTypeOK'
    BY <1>1, ForksAssumption DEF ForkInv, CFTypeOK, Increment
  <2>2. Cardinality(Pending') = Cardinality(Pending) + 1
    <3>1. t \in Caller \ Pending /\ Pending' = Pending \cup {t}
      BY <1>1 DEF ForkInv, CFTypeOK, Increment, Pending
    <3> QED
      BY <3>1, PendingAdd
  <2>3. InheritedInv'
    BY <1>1, <2>2, PendingFinite DEF ForkInv, CFTypeOK, Increment, InheritedInv
  <2> QED
    BY <1>1, <2>1, <2>3 DEF ForkInv, CFTypeOK, Increment
<1>2. ASSUME NEW t \in Caller, Swap(t)
      PROVE  ForkInv'
  <2>1. CFTypeOK'
    BY <1>2 DEF ForkInv, CFTypeOK, Swap
  <2>2. Pending' = Pending
    BY <1>2 DEF ForkInv, CFTypeOK, Swap, Pending
  <2>3. InheritedInv'
    BY <1>2, <2>2 DEF ForkInv, CFTypeOK, Swap, InheritedInv
  <2>4. \A u \in Caller : place'[u] = "reset" => state' # "own" /\ g_lastPid' = pid'
    BY <1>2 DEF ForkInv, CFTypeOK, Swap
  <2>5. \A u, w \in Caller : place'[u] = "reset" /\ place'[w] = "reset" => u = w
    BY <1>2 DEF ForkInv, CFTypeOK, Swap
  <2> QED
    BY <1>2, <2>1, <2>3, <2>4, <2>5 DEF ForkInv, CFTypeOK, Swap
<1>3. ASSUME NEW t \in Caller, ResetOnFork(t)
      PROVE  ForkInv'
  BY <1>3 DEF ForkInv, CFTypeOK, ResetOnFork, InheritedInv
<1>4. ASSUME NEW t \in Caller, Unblock(t)
      PROVE  ForkInv'
  <2>1. state # "inherited"
    BY <1>4 DEF ForkInv, InheritedInv, Unblock
  <2> QED
    BY <1>4, <2>1 DEF ForkInv, CFTypeOK, Unblock, InheritedInv
<1>5. ASSUME NEW t \in Caller, Load(t)
      PROVE  ForkInv'
  <2>1. CFTypeOK'
    BY <1>5 DEF ForkInv, CFTypeOK, Load
  <2>2. CASE g_threadsInCheck > 0
    <3>1. Pending' = Pending
      BY <1>5, <2>2 DEF ForkInv, CFTypeOK, Load, Pending
    <3>2. InheritedInv'
      BY <1>5, <2>2, <3>1 DEF ForkInv, CFTypeOK, Load, InheritedInv
    <3> QED
      BY <1>5, <2>1, <2>2, <3>2 DEF ForkInv, CFTypeOK, Load
  <2>3. CASE g_threadsInCheck <= 0
    <3>1. state # "inherited"
      <4>1. t \in Pending
        BY <1>5 DEF Load, Pending
      <4> QED
        BY <2>3, <4>1, PendingPositive, PendingFinite DEF ForkInv, CFTypeOK, InheritedInv
    <3> QED
      BY <1>5, <2>1, <2>3, <3>1 DEF ForkInv, CFTypeOK, Load, InheritedInv
  <2> QED
    BY <2>2, <2>3 DEF ForkInv, CFTypeOK
<1>6. ASSUME NEW t \in Caller, CompareAndSwap(t)
      PROVE  ForkInv'
  <2>1. CFTypeOK'
    BY <1>6 DEF ForkInv, CFTypeOK, CompareAndSwap
  <2>2. InheritedInv'
    <3> SUFFICES ASSUME state = "inherited"
                 PROVE  /\ g_threadsInCheck' >= Cardinality(Pending')
                        /\ \A u \in Caller : place'[u] \notin {"unblock", "inside"}
                        /\ g_lastPid' = pid' /\ \E u \in Caller : place'[u] = "reset"
      BY <1>6 DEF CompareAndSwap, InheritedInv
    <3>0. \A u \in Caller : place'[u] \notin {"unblock", "inside"}
      BY <1>6 DEF ForkInv, CFTypeOK, InheritedInv, CompareAndSwap
    <3>1. t \in Pending /\ g_threadsInCheck >= Cardinality(Pending)
      BY <1>6 DEF ForkInv, InheritedInv, CompareAndSwap, Pending
    <3>2. g_threadsInCheck > 0
      BY <3>1, PendingPositive, PendingFinite DEF ForkInv, CFTypeOK
    <3>3. g_lastPid = pid /\ \E u \in Caller : place[u] = "reset"
      BY <1>6 DEF ForkInv, InheritedInv, CompareAndSwap
    <3>4. \E u \in Caller : place'[u] = "reset"
      BY <1>6, <3>3 DEF ForkInv, CFTypeOK, CompareAndSwap
    <3>5. CASE g_threadsInCheck = oldVal[t]
      <4>1. Pending' = Pending \ {t}
        BY <1>6, <3>5 DEF ForkInv, CFTypeOK, CompareAndSwap, Pending
      <4>2. Cardinality(Pending') = Cardinality(Pending) - 1
        BY <3>1, <4>1, PendingRemove
      <4> QED
        BY <1>6, <3>0, <3>1, <3>3, <3>4, <3>5, <4>2, PendingFinite
           DEF ForkInv, CFTypeOK, CompareAndSwap
    <3>6. CASE g_threadsInCheck # oldVal[t]
      <4>1. Pending' = Pending
        BY <1>6, <3>2, <3>6 DEF ForkInv, CFTypeOK, CompareAndSwap, Pending
      <4> QED
        BY <1>6, <3>0, <3>1, <3>3, <3>4, <3>6, <4>1 DEF CompareAndSwap
    <3> QED
      BY <3>5, <3>6
  <2>3. \A u \in Caller : place'[u] = "cas" => oldVal'[u] > 0
    BY <1>6 DEF ForkInv, CFTypeOK, CompareAndSwap
  <2>4. UNCHANGED <<g_lastPid, state, used, pid>>
    BY <1>6 DEF CompareAndSwap
  <2>5. \A u \in Caller : /\ place'[u] = "reset" => place[u] = "reset"
                          /\ place'[u] # "outside" => place[u] = place'[u] \/ u = t
    BY <1>6 DEF ForkInv, CFTypeOK, CompareAndSwap
  <2>6. place[t] = "cas"
    BY <1>6 DEF CompareAndSwap
  <2> QED
    BY <2>1, <2>2, <2>3, <2>4, <2>5, <2>6 DEF ForkInv
<1>7. ASSUME NEW t \in Caller, Spin(t) \/ Leave(t)
      PROVE  ForkInv'
  <2>1. CFTypeOK'
    BY <1>7 DEF ForkInv, CFTypeOK, Spin, Leave
  <2>2. Pending' = Pending
    BY <1>7 DEF ForkInv, CFTypeOK, Spin, Leave, Pending
  <2>3. state # "inherited" \/ Leave(t)
    <3> SUFFICES ASSUME state = "inherited", Spin(t) PROVE FALSE
      BY <1>7
    <3>1. PICK u \in Caller : place[u] = "reset"
      BY DEF ForkInv, InheritedInv, Spin
    <3>2. u \in Pending
      BY <3>1 DEF Pending
    <3> QED
      BY <3>2, PendingPositive, PendingFinite DEF ForkInv, CFTypeOK, InheritedInv, Spin
  <2> QED
    BY <1>7, <2>1, <2>2, <2>3 DEF ForkInv, CFTypeOK, Spin, Leave, InheritedInv
<1>8. ASSUME NEW t \in Caller, Fork(t)
      PROVE  ForkInv'
  <2>1. CFTypeOK'
    BY <1>8, ForksAssumption DEF ForkInv, CFTypeOK, Fork
  <2>2. Cardinality(Pending') = 0
    <3>1. Pending' = {}
      BY <1>8 DEF Fork, Pending
    <3> QED
      BY <3>1, FS_EmptySet
  <2>3. g_lastPid' # pid'
    BY <1>8 DEF ForkInv, CFTypeOK, Fork
  <2> QED
    BY <1>8, <2>1, <2>2, <2>3 DEF ForkInv, CFTypeOK, Fork, InheritedInv
<1>9. CASE UNCHANGED checkVars
  BY <1>9 DEF ForkInv, CFTypeOK, InheritedInv, Pending
<1> QED
  BY <1>1, <1>2, <1>3, <1>4, <1>5, <1>6, <1>7, <1>8, <1>9 DEF CFNext, Call

\* The invariant holds at all times.
LEMMA ForkInvariant == ASSUME ~PidReuse PROVE CFSpec => []ForkInv
BY ForkInit, ForkStep, PTL DEF CFSpec

\* No thread uses library state inherited from another process before it has
\* been reset, and a reset is over before any thread goes on.
THEOREM ResetFirst == ASSUME ~PidReuse PROVE CFSpec => []ResetBeforeUse
<1>1. ForkInv => ResetBeforeUse
  BY DEF ForkInv, InheritedInv, ResetBeforeUse
<1> QED
  BY <1>1, ForkInvariant, PTL

\* State that this process has made is never thrown away.
THEOREM ResetInherited == ASSUME ~PidReuse PROVE CFSpec => ResetOnlyInherited
<1> DEFINE Sound == \A t \in Caller : place[t] = "reset" /\ place'[t] = "unblock" => state # "own"
<1>1. ForkInv => [Sound]_checkVars
  BY DEF ForkInv
<1> QED
  BY <1>1, ForkInvariant, PTL DEF ResetOnlyInherited

\* Every variable stays in its type, and the counter is never negative.
THEOREM ForkTypeCorrect == ASSUME ~PidReuse PROVE CFSpec => []CFTypeOK
<1>1. ForkInv => CFTypeOK
  BY DEF ForkInv
<1> QED
  BY <1>1, ForkInvariant, PTL

-----------------------------------------------------------------------------
(* UCurrentTsd: type correctness.                                          *)

\* The static state of u_current_tsd.c is well typed.
LEMMA TypeInit == Init => TypeOK
<1> SUFFICES ASSUME Init PROVE TypeOK
  OBVIOUS
<1>1. {ThreadSafe, isMultiThreaded} \subseteq BOOLEAN
  BY DEF Init
<1>2. reloads \in 0..MaxReloads
  BY ConstantsAssumption DEF Init
<1> QED
  BY <1>1, <1>2 DEF Init, TypeOK

\* Every action keeps every variable in its type.
LEMMA TypeStep == TypeOK /\ [Next]_vars => TypeOK'
<1> USE ConstantsAssumption DEF TypeOK, sharedVars, lockedVars, raceVars, Goto
<1> SUFFICES ASSUME TypeOK, [Next]_vars PROVE TypeOK'
  OBVIOUS
<1>1. CASE Reload
  <2>1. reloads' \in 0..MaxReloads
    BY <1>1 DEF Reload
  <2>2. {ThreadSafe', isMultiThreaded'} \subseteq BOOLEAN
    BY <1>1 DEF Reload
  <2> QED
    BY <1>1, <2>1, <2>2 DEF Reload
<1>2. ASSUME NEW t \in Thread, Enter(t) \/ GetCurrent(t) \/ PlugNoop(t)
      PROVE  TypeOK'
  BY <1>2 DEF Enter, GetCurrent, PlugNoop, BeginSet, EndSet, Late
<1>3. ASSUME NEW t \in Thread, CheckThread(t) \/ Switch(t)
      PROVE  TypeOK'
  BY <1>3 DEF CheckThread, Switch
<1>4. ASSUME NEW t \in Thread, NEW table \in Table \cup {Noop}, SetCurrent(t, table)
      PROVE  TypeOK'
  BY <1>4 DEF SetCurrent, BeginSet
<1>5. ASSUME NEW t \in Thread, Publish(t) \/ Return(t) \/ ThreadExit(t)
      PROVE  TypeOK'
  BY <1>5 DEF Publish, EndSet, Late, Return, ThreadExit
<1>6. CASE UNCHANGED vars
  BY <1>6 DEF vars
<1> QED
  BY <1>1, <1>2, <1>3, <1>4, <1>5, <1>6 DEF Next, ThreadStep

-----------------------------------------------------------------------------
(* UCurrentTsd: the pointers.                                              *)

\* The parts of PointerInv that it does not follow from.
PointerParts == TypeOK /\ ThreadInv /\ GlobalInv

\* What the theorems assume of the application.
OrderlyEnd == ~ExitWithTable /\ ~ReloadAfterSwitch

\* No context, no thread, no switch at first.
LEMMA PointerInit == Init => PointerParts
BY TypeInit, ConstantsAssumption DEF PointerParts, Init, ThreadInv, GlobalInv

\* Each thread's own pointer, and what it has read of ThreadSafe.
LEMMA ThreadInvStep ==
  ASSUME OrderlyEnd, PointerParts, Next
  PROVE  ThreadInv'
<1> USE ConstantsAssumption DEF PointerParts, TypeOK, sharedVars, lockedVars, raceVars, Goto
<1>1. CASE Reload
  BY <1>1 DEF Reload, OrderlyEnd, ThreadInv, GlobalInv
<1>2. ASSUME NEW t \in Thread, Enter(t) \/ PlugNoop(t)
      PROVE  ThreadInv'
  BY <1>2 DEF Enter, PlugNoop, ThreadInv
<1>3. ASSUME NEW t \in Thread, GetCurrent(t)
      PROVE  ThreadInv'
  <2>1. CASE Null = IF seen[t] THEN tsd[t] ELSE glapiCurrent
    <3>1. ThreadSafe
      BY <1>3, <2>1 DEF GetCurrent, ThreadInv, GlobalInv
    <3> QED
      BY <1>3, <2>1, <3>1 DEF GetCurrent, BeginSet, ThreadInv
  <2>2. CASE Null # IF seen[t] THEN tsd[t] ELSE glapiCurrent
    BY <1>3, <2>2 DEF GetCurrent, ThreadInv
  <2> QED
    BY <2>1, <2>2
<1>4. ASSUME NEW t \in Thread, CheckThread(t)
      PROVE  ThreadInv'
  <2>1. CASE firstThreadId' = firstThreadId
    BY <1>4, <2>1 DEF CheckThread, ThreadInv
  <2>2. CASE firstThreadId = Null /\ ~ThreadSafe /\ ThreadSafe' = ThreadSafe
    <3>1. \A u \in Thread : pc[u] \notin {"inside", "publish"}
      BY <2>2 DEF GlobalInv
    <3> QED
      BY <1>4, <2>2, <3>1 DEF CheckThread, ThreadInv
  <2> QED
    BY <1>4, <2>1, <2>2 DEF CheckThread, GlobalInv
<1>5. ASSUME NEW t \in Thread, Switch(t) \/ Publish(t) \/ Return(t) \/ ThreadExit(t)
      PROVE  ThreadInv'
  BY <1>5 DEF Switch, Publish, Return, ThreadExit, OrderlyEnd, ThreadInv
<1>6. ASSUME NEW t \in Thread, NEW table \in Table \cup {Noop}, SetCurrent(t, table)
      PROVE  ThreadInv'
  <2>1. seen'[t] \/ t = firstThreadId
    BY <1>6 DEF SetCurrent, BeginSet, GlobalInv
  <2> QED
    BY <1>6, <2>1 DEF SetCurrent, BeginSet, ThreadInv
<1> QED
  BY <1>1, <1>2, <1>3, <1>4, <1>5, <1>6 DEF Next, ThreadStep

\* _glapi_Current, before, during and after the switch.
LEMMA GlobalInvStep ==
  ASSUME OrderlyEnd, PointerParts, Next
  PROVE  GlobalInv'
<1> USE ConstantsAssumption DEF PointerParts, TypeOK, sharedVars, lockedVars, raceVars, Goto
<1>1. CASE Reload
  BY <1>1 DEF Reload, OrderlyEnd, ThreadInv, GlobalInv
<1>2. ASSUME NEW t \in Thread, Enter(t) \/ GetCurrent(t)
      PROVE  GlobalInv'
  <2>1. UNCHANGED <<glapiCurrent, ThreadSafe, lockedVars, late, own, attached>>
    BY <1>2 DEF Enter, GetCurrent
  <2>2. \A u \in Thread : \A l \in {"switch", "inside", "publish"} : pc'[u] = l <=> pc[u] = l
    BY <1>2 DEF Enter, GetCurrent
  <2> QED
    BY <2>1, <2>2 DEF GlobalInv
<1>3. ASSUME NEW t \in Thread, PlugNoop(t) \/ Publish(t)
      PROVE  GlobalInv'
  <2>1. CASE seen[t]
    <3>1. glapiCurrent' = Null /\ ThreadSafe /\ late' = Null
      BY <1>3, <2>1 DEF PlugNoop, Publish, EndSet, Late, ThreadInv
    <3>2. /\ UNCHANGED <<ThreadSafe, lockedVars, own, attached>>
          /\ \A u \in Thread : (pc'[u] = "switch" <=> pc[u] = "switch")
      BY <1>3 DEF PlugNoop, Publish
    <3>3. \A u \in Thread : pc'[u] \in {"inside", "publish"} => pc[u] \in {"inside", "publish"}
      BY <1>3 DEF PlugNoop, Publish
    <3>4. firstThreadId' # Null
      BY <3>1, <3>2 DEF GlobalInv
    <3> QED
      BY <3>1, <3>2, <3>3, <3>4 DEF GlobalInv
  <2>2. CASE ~seen[t]
    <3>1. /\ Publish(t) /\ t = firstThreadId
          /\ glapiCurrent' = own[t] /\ glapiCurrent' # Null
          /\ late' = IF ThreadSafe THEN t ELSE Null
      BY <1>3, <2>2 DEF PlugNoop, Publish, EndSet, Late, ThreadInv
    <3>2. /\ UNCHANGED <<ThreadSafe, lockedVars, own, attached>>
          /\ pc'[t] = "inside" /\ \A u \in Thread \ {t} : pc'[u] = pc[u]
      BY <3>1 DEF Publish
    <3> QED
      BY <3>1, <3>2 DEF GlobalInv
  <2> QED
    BY <2>1, <2>2
<1>4. ASSUME NEW t \in Thread, CheckThread(t)
      PROVE  GlobalInv'
  <2>0. \A u \in Thread : pc[u] # "switch"
    BY <1>4 DEF CheckThread
  <2>1. CASE firstThreadId' = t /\ firstThreadId = Null /\ ~ThreadSafe
    BY <1>4, <2>0, <2>1 DEF CheckThread, GlobalInv
  <2>2. CASE UNCHANGED <<ThreadSafe, lockedVars>> /\ (isMultiThreaded \/ firstThreadId = t)
    BY <1>4, <2>0, <2>2 DEF CheckThread, GlobalInv
  <2>3. CASE /\ ~isMultiThreaded /\ firstThreadId \notin {Null, t}
             /\ Goto(t, "lock", "switch") /\ isMultiThreaded' /\ ThreadSafe'
             /\ UNCHANGED firstThreadId
    BY <1>4, <2>0, <2>3 DEF CheckThread, GlobalInv
  <2> QED
    BY <1>4, <2>1, <2>2, <2>3 DEF CheckThread, GlobalInv
<1>5. ASSUME NEW t \in Thread, Switch(t)
      PROVE  GlobalInv'
  <2>1. /\ glapiCurrent' = Null /\ late' = Null /\ ThreadSafe
        /\ UNCHANGED <<ThreadSafe, lockedVars>>
    BY <1>5 DEF Switch, GlobalInv
  <2> QED
    BY <1>5, <2>1 DEF Switch, GlobalInv
<1>6. ASSUME NEW t \in Thread, NEW table \in Table \cup {Noop}, SetCurrent(t, table)
      PROVE  GlobalInv'
  BY <1>6 DEF SetCurrent, BeginSet, GlobalInv
<1>7. ASSUME NEW t \in Thread, Return(t) \/ ThreadExit(t)
      PROVE  GlobalInv'
  BY <1>7 DEF Return, ThreadExit, OrderlyEnd, GlobalInv
<1> QED
  BY <1>1, <1>2, <1>3, <1>4, <1>5, <1>6, <1>7 DEF Next, ThreadStep

\* The invariant of this section, with any number of threads and reloads.
LEMMA PointerPartsInvariant == ASSUME OrderlyEnd PROVE Spec => []PointerParts
<1>1. PointerParts /\ [Next]_vars => PointerParts'
  <2>1. ASSUME PointerParts, UNCHANGED vars
        PROVE  PointerParts'
    BY <2>1 DEF vars, sharedVars, lockedVars, raceVars, PointerParts, TypeOK, ThreadInv, GlobalInv
  <2> QED
    BY <2>1, TypeStep, ThreadInvStep, GlobalInvStep DEF PointerParts
<1> QED
  BY <1>1, PointerInit, PTL DEF Spec

\* A thread that has called a GLX function since the switch finds a table, and
\* at each step of each thread the pointers are those its code relies on.
THEOREM PointerInvariant == ASSUME OrderlyEnd PROVE Spec => []PointerInv
<1>1. PointerParts => PointerInv
  BY DEF PointerParts, PointerInv, NeverNullAfterSwitch, TableOf, ThreadInv, GlobalInv
<1> QED
  BY <1>1, PointerPartsInvariant, PTL

\* Each thread calls through its own table, but for what a switch between two accesses
\* of a thread can do: that thread is left with the no-op table until it sets one, or
\* the others call through the table that it wrote late, until somebody sets one.
THEOREM OwnTables == ASSUME OrderlyEnd PROVE Spec => []OwnTable
<1>1. PointerParts => OwnTable
  <2> SUFFICES ASSUME PointerParts, NEW t \in Thread, pc[t] = "outside", attached[t] # "no"
               PROVE  \/ TableOf(t) = own[t]
                      \/ own[t] = Noop /\ TableOf(t) = Null
                      \/ t \in dropped /\ TableOf(t) = Noop
                      \/ late \notin {t, Null} /\ glapiCurrent # Null
    BY DEF OwnTable
  <2>1. CASE glapiCurrent = Null
    BY <2>1 DEF TableOf, PointerParts, ThreadInv, GlobalInv
  <2>2. CASE glapiCurrent # Null
    BY <2>2 DEF TableOf, PointerParts, GlobalInv
  <2> QED
    BY <2>1, <2>2
<1> QED
  BY <1>1, PointerPartsInvariant, PTL

===============================================================================

--------------------------- MODULE EglDebug_proof ----------------------------
(***************************************************************************)
(* Proofs about EglDebug, for any threads, vendors, callbacks and types of *)
(* messages, through forks at any time, as long as the thread that forked is *)
(* the first of the child to call EGL (~NewThreadResets).                  *)
(***************************************************************************)
EXTENDS EglDebug, TLAPS

Calls ==
  [callback : Callback \cup {None}, attribute : Attribute, enabled : SUBSET Type,
   pos : 1..(Len(VendorList) + 1), type : Type \cup {None},
   label : ThreadLabel \cup {None}, next : {None, "idle", "label"}]

\* A thread that sets its label has a state.
LabelInv ==
  /\ StateInv
  /\ LabelsAgree
  /\ \A t \in Thread : pc[t] = "label" => t \in tsd

\* A thread that changes the settings has the lock while it tells the vendors.  The
\* change leads each vendor from what it has to what libEGL has, and those that have
\* been told are there.
ChangeInv(t) ==
  /\ pc[t] = "control" => call[t].pos = 1
  /\ pc[t] = "tell" =>
       /\ debugLock = t
       /\ call[t].callback = settings.callback
       /\ \A v \in Supports \ refused :
            /\ overtaken \/ VendorChange(vendorSettings[v], call[t]) = settings
            /\ \A i \in 1..(call[t].pos - 1) : VendorList[i] = v => HaveSettings(v)

SettingsInv ==
  /\ StateInv
  /\ VendorsAgree
  /\ \A t \in Thread : ChangeInv(t)

-----------------------------------------------------------------------------
(* Types, and the thread states.                                           *)

LEMMA VendorListFacts ==
  /\ Len(VendorList) \in Nat
  /\ \A i \in 1..Len(VendorList) : VendorList[i] \in Vendor
  /\ \A v \in Vendor : \E i \in 1..Len(VendorList) : VendorList[i] = v
BY ConstantsAssumption DEF Vendor

LEMMA NoCallType == NoCall \in Calls
BY VendorListFacts, ConstantsAssumption DEF NoCall, Calls, Attribute

\* A thread goes somewhere with a record of a call.
LEMMA GotoType ==
  ASSUME TypeOK, NEW t \in Thread, NEW l \in Label, NEW c \in Calls, Goto(t, l, c)
  PROVE  /\ pc' \in [Thread -> Label] /\ call' \in [Thread -> Calls]
         /\ pc'[t] = l /\ call'[t] = c
         /\ \A u \in Thread \ {t} : pc'[u] = pc[u] /\ call'[u] = call[u]
BY DEF TypeOK, Goto, Calls

LEMMA ReturnType ==
  ASSUME TypeOK, NEW t \in Thread, Return(t)
  PROVE  /\ pc' \in [Thread -> Label] /\ call' \in [Thread -> Calls]
         /\ pc'[t] = "idle" /\ call'[t] = NoCall
         /\ \A u \in Thread \ {t} : pc'[u] = pc[u] /\ call'[u] = call[u]
BY NoCallType, GotoType DEF Return, Label

\* The types that are enabled stay a set of types, and a second look at the
\* attribute changes nothing more.
LEMMA ChangedType ==
  ASSUME NEW enabled \in SUBSET Type, NEW a \in Attribute
  PROVE  /\ Changed(enabled, a) \in SUBSET Type
         /\ Changed(Changed(enabled, a), a) = Changed(enabled, a)
BY DEF Changed, Attribute

LEMMA DefaultType == Default \in Settings
BY ConstantsAssumption DEF Default, Settings

LEMMA NewSettingsType ==
  ASSUME NEW c \in Calls
  PROVE  /\ NewSettings(c) \in Settings
         /\ NewSettings(c).callback = None => NewSettings(c).enabled = ErrorType
BY DefaultType DEF NewSettings, Calls, Settings, Default

LEMMA VendorChangeType ==
  ASSUME NEW old \in Settings, NEW c \in Calls
  PROVE  VendorChange(old, c) \in Settings
<1>1. Changed(old.enabled, c.attribute) \in SUBSET Type
  BY ChangedType DEF Settings, Calls
<1> QED
  BY <1>1, DefaultType DEF VendorChange, Calls, Settings

\* The type invariant in the words of Calls.
LEMMA CallType == TypeOK => call \in [Thread -> Calls]
BY DEF TypeOK, Calls

\* What a step leaves of the type invariant.
Rest ==
  /\ settings \in Settings /\ (settings.callback = None => settings.enabled = ErrorType)
  /\ debugLock \in Thread \cup {Gone, None}
  /\ vendorSettings \in [Vendor -> Settings]
  /\ refused \subseteq Supports /\ overtaken \in BOOLEAN
  /\ states \subseteq Thread /\ tsd \subseteq Thread
  /\ listLock \in Thread \cup {Gone, None}
  /\ label \in [Thread -> ThreadLabel \cup {None}]
  /\ vendorLabel \in [Vendor -> [Thread -> ThreadLabel \cup {None}]]
  /\ behind \subseteq Supports \X Thread
  /\ child \in Thread \cup {None}
  /\ forks \in 0..MaxForks

LEMMA TypeParts ==
  TypeOK <=> Rest /\ pc \in [Thread -> Label] /\ call \in [Thread -> Calls]
BY DEF TypeOK, Rest, Calls

LEMMA TypePartsPrime ==
  Rest' /\ pc' \in [Thread -> Label] /\ call' \in [Thread -> Calls] => TypeOK'
BY DEF TypeOK, Rest, Calls

LEMMA ForgottenType ==
  ASSUME TypeOK, NEW ts \in SUBSET Thread, Forgotten(ts)
  PROVE  /\ label' \in [Thread -> ThreadLabel \cup {None}]
         /\ vendorLabel' \in [Vendor -> [Thread -> ThreadLabel \cup {None}]]
         /\ behind' \subseteq Supports \X Thread
BY DEF TypeOK, Forgotten

\* The calls that an EGL function starts with.
LEMMA StartedCalls ==
  /\ \A type \in Type : [NoCall EXCEPT !.type = type] \in Calls
  /\ \A l \in ThreadLabel \cup {None} :
       /\ [NoCall EXCEPT !.label = l] \in Calls
       /\ [[NoCall EXCEPT !.label = l] EXCEPT !.next = "label"] \in Calls
  /\ [NoCall EXCEPT !.next = "idle"] \in Calls
  /\ \A cb \in Callback \cup {None}, a \in Attribute, enabled \in SUBSET Type :
       [NoCall EXCEPT !.callback = cb, !.attribute = a, !.enabled = enabled] \in Calls
BY NoCallType DEF Calls

LEMMA TypeInit == Init => TypeOK
<1> SUFFICES ASSUME Init PROVE TypeOK
  OBVIOUS
<1>0. overtaken \in BOOLEAN
  BY DEF Init
<1>1. Rest
  BY <1>0, DefaultType, ConstantsAssumption DEF Init, Rest, Default
<1>2. pc \in [Thread -> Label] /\ call \in [Thread -> Calls]
  BY NoCallType DEF Init, Label
<1> QED
  BY <1>1, <1>2, TypeParts

LEMMA TypeStep ==
  TypeOK /\ CreatesFor /\ [Next]_vars => TypeOK'
<1> SUFFICES ASSUME TypeOK, CreatesFor, [Next]_vars PROVE TypeOK'
  OBVIOUS
<1> USE DEF settingVars, stateVars, threadVars, processVars
<1>a. Rest /\ call \in [Thread -> Calls] /\ pc \in [Thread -> Label]
  BY TypeParts
<1>1. ASSUME NEW t \in Thread,
             \/ \E type \in Type : Message(t, type)
             \/ QueryDebug(t)
      PROVE  TypeOK'
  <2>1. PICK type \in Type : Goto(t, "report", [NoCall EXCEPT !.type = type])
    BY <1>1, ConstantsAssumption DEF Message, QueryDebug
  <2>2. pc' \in [Thread -> Label] /\ call' \in [Thread -> Calls]
    BY <2>1, StartedCalls, GotoType DEF Label
  <2>3. Rest'
    BY <1>1, <1>a DEF Rest, Message, QueryDebug
  <2> QED
    BY <2>2, <2>3, TypePartsPrime
<1>2. ASSUME NEW t \in Thread, ReadCallback(t)
      PROVE  TypeOK'
  <2> DEFINE cb == IF call[t].type \in settings.enabled THEN settings.callback ELSE None
  <2>1. Goto(t, "reported", [call[t] EXCEPT !.callback = cb])
    BY <1>2 DEF ReadCallback
  <2>2. cb \in Callback \cup {None}
    BY <1>a DEF Rest, Settings
  <2> HIDE DEF cb
  <2>3. [call[t] EXCEPT !.callback = cb] \in Calls
    BY <1>a, <2>2 DEF Calls
  <2>4. pc' \in [Thread -> Label] /\ call' \in [Thread -> Calls]
    BY <2>1, <2>3, GotoType DEF Label
  <2>5. Rest'
    BY <1>2, <1>a DEF Rest, ReadCallback
  <2> QED
    BY <2>4, <2>5, TypePartsPrime
<1>3. ASSUME NEW t \in Thread, Report(t)
      PROVE  TypeOK'
  <2>1. Return(t) \/ Goto(t, "create", [NoCall EXCEPT !.next = "idle"])
    BY <1>3 DEF Report
  <2>2. pc' \in [Thread -> Label] /\ call' \in [Thread -> Calls]
    BY <2>1, StartedCalls, GotoType, ReturnType DEF Label
  <2>3. Rest'
    BY <1>3, <1>a DEF Rest, Report
  <2> QED
    BY <2>2, <2>3, TypePartsPrime
<1>4. ASSUME NEW t \in Thread, NEW cb \in Callback \cup {None}, NEW a \in Attribute,
             ReadEnabled(t, cb, a)
      PROVE  TypeOK'
  <2> DEFINE enabled == Changed(settings.enabled, a)
  <2>1. \/ Goto(t, "control", [NoCall EXCEPT !.callback = cb, !.attribute = a,
                                             !.enabled = enabled])
        \/ \E type \in Type : Goto(t, "report", [NoCall EXCEPT !.type = type])
    BY <1>4, ConstantsAssumption DEF ReadEnabled
  <2>2. enabled \in SUBSET Type
    BY <1>a, ChangedType DEF Rest, Settings
  <2> HIDE DEF enabled
  <2>3. pc' \in [Thread -> Label] /\ call' \in [Thread -> Calls]
    <3>1. [NoCall EXCEPT !.callback = cb, !.attribute = a, !.enabled = enabled] \in Calls
      BY <2>2, StartedCalls
    <3> QED
      BY <2>1, <3>1, StartedCalls, GotoType DEF Label
  <2>4. Rest'
    BY <1>4, <1>a DEF Rest, ReadEnabled
  <2> QED
    BY <2>3, <2>4, TypePartsPrime
<1>5. ASSUME NEW t \in Thread, SetSettings(t)
      PROVE  TypeOK'
  <2>1. [call[t] EXCEPT !.enabled = {}] \in Calls
    BY <1>a DEF Calls
  <2>2. pc' \in [Thread -> Label] /\ call' \in [Thread -> Calls]
    BY <1>5, <2>1, GotoType DEF SetSettings, Label
  <2>3. Rest'
    <3>1. /\ settings' \in Settings
          /\ settings'.callback = None => settings'.enabled = ErrorType
      BY <1>5, <1>a, NewSettingsType DEF SetSettings
    <3>2. overtaken' \in BOOLEAN
      BY <1>5 DEF SetSettings
    <3> QED
      BY <1>5, <1>a, <3>1, <3>2 DEF Rest, SetSettings
  <2> QED
    BY <2>2, <2>3, TypePartsPrime
<1>6. ASSUME NEW t \in Thread, TellVendor(t)
      PROVE  TypeOK'
  <2> DEFINE v == VendorList[call[t].pos]
  <2>1. call[t].pos \in 1..Len(VendorList) /\ v \in Vendor
    BY <1>6, <1>a, VendorListFacts DEF TellVendor, Calls
  <2>2. [call[t] EXCEPT !.pos = @ + 1] \in Calls
    <3>1. call[t].pos + 1 \in 1..(Len(VendorList) + 1)
      BY <2>1, VendorListFacts
    <3> QED
      BY <1>a, <3>1 DEF Calls
  <2>3. pc' \in [Thread -> Label] /\ call' \in [Thread -> Calls]
    BY <1>6, <2>2, GotoType DEF TellVendor, Label
  <2>4. vendorSettings' \in [Vendor -> Settings] /\ refused' \subseteq Supports
    <3>1. VendorChange(vendorSettings[v], call[t]) \in Settings
      BY <1>a, <2>1, VendorChangeType DEF Rest
    <3> QED
      BY <1>6, <1>a, <3>1 DEF Rest, TellVendor
  <2>5. Rest'
    BY <1>6, <1>a, <2>4 DEF Rest, TellVendor
  <2> QED
    BY <2>3, <2>5, TypePartsPrime
<1>7. ASSUME NEW t \in Thread, VendorsTold(t)
      PROVE  TypeOK'
  <2>1. pc' \in [Thread -> Label] /\ call' \in [Thread -> Calls]
    BY <1>7, ReturnType DEF VendorsTold
  <2>2. Rest'
    BY <1>7, <1>a DEF Rest, VendorsTold
  <2> QED
    BY <2>1, <2>2, TypePartsPrime
<1>8. ASSUME NEW t \in Thread, LockList(t)
      PROVE  TypeOK'
  <2>1. pc' \in [Thread -> Label] /\ call' \in [Thread -> Calls]
    BY <1>8, <1>a, GotoType DEF LockList, Label
  <2>2. Rest'
    BY <1>8, <1>a DEF Rest, LockList
  <2> QED
    BY <2>1, <2>2, TypePartsPrime
<1>9. ASSUME NEW t \in Thread, AddState(t)
      PROVE  TypeOK'
  <2>1. [call[t] EXCEPT !.next = None] \in Calls /\ call[t].next \in Label
    BY <1>9, <1>a DEF AddState, CreatesFor, Label, Calls
  <2>2. pc' \in [Thread -> Label] /\ call' \in [Thread -> Calls]
    BY <1>9, <2>1, GotoType DEF AddState
  <2>3. Rest'
    BY <1>9, <1>a DEF Rest, AddState
  <2> QED
    BY <2>2, <2>3, TypePartsPrime
<1>10. ASSUME NEW t \in Thread, NEW l \in ThreadLabel \cup {None}, LabelThread(t, l)
       PROVE  TypeOK'
  <2>1. \/ Goto(t, "label", [NoCall EXCEPT !.label = l])
        \/ Goto(t, "create", [[NoCall EXCEPT !.label = l] EXCEPT !.next = "label"])
    BY <1>10 DEF LabelThread
  <2>2. pc' \in [Thread -> Label] /\ call' \in [Thread -> Calls]
    BY <2>1, StartedCalls, GotoType DEF Label
  <2>3. Rest'
    BY <1>10, <1>a DEF Rest, LabelThread
  <2> QED
    BY <2>2, <2>3, TypePartsPrime
<1>11. ASSUME NEW t \in Thread, SetLabel(t)
       PROVE  TypeOK'
  <2>1. pc' \in [Thread -> Label] /\ call' \in [Thread -> Calls]
    BY <1>11, ReturnType DEF SetLabel
  <2>2. call[t].label \in ThreadLabel \cup {None}
    BY <1>a DEF Calls
  <2>3. /\ label' \in [Thread -> ThreadLabel \cup {None}]
        /\ vendorLabel' \in [Vendor -> [Thread -> ThreadLabel \cup {None}]]
    BY <1>11, <1>a, <2>2 DEF Rest, SetLabel
  <2>5. behind' \subseteq Supports \X Thread
    BY <1>11, <1>a DEF Rest, SetLabel
  <2>4. Rest'
    BY <1>11, <1>a, <2>3, <2>5 DEF Rest, SetLabel
  <2> QED
    BY <2>1, <2>4, TypePartsPrime
<1>12. ASSUME NEW t \in Thread, ReleaseThread(t)
       PROVE  TypeOK'
  <2>1. /\ label' \in [Thread -> ThreadLabel \cup {None}]
        /\ vendorLabel' \in [Vendor -> [Thread -> ThreadLabel \cup {None}]]
        /\ behind' \subseteq Supports \X Thread
    BY <1>12, ForgottenType DEF ReleaseThread
  <2>2. Rest' /\ UNCHANGED <<pc, call>>
    BY <1>12, <1>a, <2>1 DEF Rest, ReleaseThread
  <2> QED
    BY <1>a, <2>2, TypePartsPrime
<1>13. ASSUME NEW t \in Thread, Fork(t)
       PROVE  TypeOK'
  <2>1. pc' \in [Thread -> Label] /\ call' \in [Thread -> Calls]
    BY <1>13, NoCallType DEF Fork, Label
  <2>2. /\ label' \in [Thread -> ThreadLabel \cup {None}]
        /\ vendorLabel' \in [Vendor -> [Thread -> ThreadLabel \cup {None}]]
        /\ behind' \subseteq Supports \X Thread
    BY <1>13, ForgottenType DEF Fork
  <2>3. forks' \in 0..MaxForks
    BY <1>13, <1>a, ConstantsAssumption DEF Rest, Fork
  <2>4. Rest'
    BY <1>13, <1>a, <2>2, <2>3 DEF Rest, Fork, LeftBy
  <2> QED
    BY <2>1, <2>4, TypePartsPrime
<1>14. ASSUME NEW t \in Thread, ResetOnFork(t)
       PROVE  TypeOK'
  <2>1. /\ label' \in [Thread -> ThreadLabel \cup {None}]
        /\ vendorLabel' \in [Vendor -> [Thread -> ThreadLabel \cup {None}]]
        /\ behind' \subseteq Supports \X Thread
    BY <1>14, <1>a DEF Rest, ResetOnFork
  <2>2. Rest' /\ UNCHANGED <<pc, call>>
    BY <1>14, <1>a, <2>1 DEF Rest, ResetOnFork
  <2> QED
    BY <1>a, <2>2, TypePartsPrime
<1>15. CASE UNCHANGED vars
  BY <1>15 DEF vars, TypeOK
<1> QED
  BY <1>1, <1>2, <1>3, <1>4, <1>5, <1>6, <1>7, <1>8, <1>9, <1>10, <1>11, <1>12, <1>13, <1>14,
     <1>15, ConstantsAssumption DEF Next, Begin, Step

-----------------------------------------------------------------------------
(* Locks, forks and the list of thread states.                             *)

StateRest == CreatesFor /\ ListInv /\ ChildInv /\ HolderAlive /\ StateAlive

\* A step of a thread that takes and returns no lock.
LEMMA ThreadStep ==
  ASSUME StateInv, NEW t \in Thread, NEW l \in Label \ {"tell", "list"}, NEW c \in Calls,
         Goto(t, l, c), l = "create" => c.next \in {"idle", "label"},
         pc[t] \notin {"tell", "list"}, child = None,
         debugLock' = debugLock, UNCHANGED <<stateVars, processVars>>
  PROVE  StateRest'
<1> USE DEF stateVars, processVars, StateInv
<1>1. /\ pc'[t] = l /\ call'[t] = c
      /\ \A u \in Thread \ {t} : pc'[u] = pc[u] /\ call'[u] = call[u]
  BY GotoType
<1>2. CreatesFor'
  BY <1>1 DEF CreatesFor
<1>3. ListInv'
  BY <1>1 DEF ListInv
<1>4. HolderAlive'
  BY <1>1 DEF HolderAlive, TypeOK
<1>5. ChildInv' /\ StateAlive'
  BY DEF ChildInv, StateAlive
<1> QED
  BY <1>2, <1>3, <1>4, <1>5 DEF StateRest

LEMMA StateInit == Init => StateInv
BY TypeInit, ConstantsAssumption DEF Init, StateInv, CreatesFor, ListInv, ChildInv, HolderAlive, StateAlive

LEMMA StateStep ==
  ASSUME ~NewThreadResets
  PROVE  StateInv /\ [Next]_vars => StateInv'
<1> SUFFICES ASSUME StateInv, [Next]_vars PROVE StateRest'
  BY TypeStep DEF StateInv, StateRest
<1> USE DEF settingVars, stateVars, threadVars, processVars
<1>a. TypeOK /\ CreatesFor /\ ListInv /\ ChildInv /\ HolderAlive /\ StateAlive
      /\ call \in [Thread -> Calls]
  BY CallType DEF StateInv
<1>b. \A t \in Thread : pc[t] # "idle" => child = None
  BY <1>a DEF ChildInv
<1>1. ASSUME NEW t \in Thread,
             \/ \E type \in Type : Message(t, type)
             \/ QueryDebug(t)
      PROVE  StateRest'
  <2>1. PICK type \in Type : Goto(t, "report", [NoCall EXCEPT !.type = type])
    BY <1>1, ConstantsAssumption DEF Message, QueryDebug
  <2>2. pc[t] = "idle" /\ child = None /\ debugLock' = debugLock
        /\ UNCHANGED <<stateVars, processVars>>
    BY <1>1 DEF Message, QueryDebug, Start
  <2> QED
    BY <2>1, <2>2, StartedCalls, ThreadStep DEF Label
<1>2. ASSUME NEW t \in Thread, ReadCallback(t)
      PROVE  StateRest'
  <2> DEFINE cb == IF call[t].type \in settings.enabled THEN settings.callback ELSE None
  <2>1. Goto(t, "reported", [call[t] EXCEPT !.callback = cb])
    BY <1>2 DEF ReadCallback
  <2>2. cb \in Callback \cup {None}
    BY <1>a DEF TypeOK, Settings
  <2> HIDE DEF cb
  <2>3. [call[t] EXCEPT !.callback = cb] \in Calls
    BY <1>a, <2>2 DEF Calls
  <2>4. pc[t] = "report" /\ debugLock' = debugLock /\ UNCHANGED <<stateVars, processVars>>
    BY <1>2 DEF ReadCallback
  <2> QED
    BY <1>b, <2>1, <2>3, <2>4, ThreadStep DEF Label
<1>3. ASSUME NEW t \in Thread, Report(t)
      PROVE  StateRest'
  <2>1. \/ Goto(t, "idle", NoCall)
        \/ Goto(t, "create", [NoCall EXCEPT !.next = "idle"])
    BY <1>3 DEF Report, Return
  <2>2. pc[t] = "reported" /\ debugLock' = debugLock /\ UNCHANGED <<stateVars, processVars>>
    BY <1>3 DEF Report
  <2>3. [NoCall EXCEPT !.next = "idle"].next = "idle"
    BY DEF NoCall
  <2> QED
    BY <1>b, <2>1, <2>2, <2>3, NoCallType, StartedCalls, ThreadStep DEF Label
<1>4. ASSUME NEW t \in Thread, NEW cb \in Callback \cup {None}, NEW a \in Attribute,
             ReadEnabled(t, cb, a)
      PROVE  StateRest'
  <2> DEFINE enabled == Changed(settings.enabled, a)
  <2>1. \/ Goto(t, "control", [NoCall EXCEPT !.callback = cb, !.attribute = a,
                                             !.enabled = enabled])
        \/ \E type \in Type : Goto(t, "report", [NoCall EXCEPT !.type = type])
    BY <1>4, ConstantsAssumption DEF ReadEnabled
  <2>2. enabled \in SUBSET Type
    BY <1>a, ChangedType DEF TypeOK, Settings
  <2> HIDE DEF enabled
  <2>3. [NoCall EXCEPT !.callback = cb, !.attribute = a, !.enabled = enabled] \in Calls
    BY <2>2, StartedCalls
  <2>4. pc[t] = "idle" /\ child = None /\ debugLock' = debugLock
        /\ UNCHANGED <<stateVars, processVars>>
    BY <1>4 DEF ReadEnabled, Start
  <2> QED
    BY <2>1, <2>3, <2>4, StartedCalls, ThreadStep DEF Label
<1>5. ASSUME NEW t \in Thread, NEW l \in ThreadLabel \cup {None}, LabelThread(t, l)
      PROVE  StateRest'
  <2>1. \/ Goto(t, "label", [NoCall EXCEPT !.label = l])
        \/ Goto(t, "create", [[NoCall EXCEPT !.label = l] EXCEPT !.next = "label"])
    BY <1>5 DEF LabelThread
  <2>2. pc[t] = "idle" /\ child = None /\ debugLock' = debugLock
        /\ UNCHANGED <<stateVars, processVars>>
    BY <1>5 DEF LabelThread, Start
  <2>3. [[NoCall EXCEPT !.label = l] EXCEPT !.next = "label"].next = "label"
    BY DEF NoCall
  <2> QED
    BY <2>1, <2>2, <2>3, StartedCalls, ThreadStep DEF Label
<1>6. ASSUME NEW t \in Thread, SetSettings(t)
      PROVE  StateRest'
  <2>1. [call[t] EXCEPT !.enabled = {}] \in Calls
    BY <1>a DEF Calls
  <2>2. /\ pc'[t] = "tell" /\ \A u \in Thread \ {t} : pc'[u] = pc[u] /\ call'[u] = call[u]
    BY <1>6, <1>a, <2>1, GotoType DEF SetSettings, Label
  <2>3. child = None /\ pc[t] = "control"
    BY <1>6, <1>b DEF SetSettings
  <2> QED
    BY ConstantsAssumption, <1>6, <1>a, <2>2, <2>3
       DEF SetSettings, StateRest, CreatesFor, ListInv, ChildInv, HolderAlive, StateAlive, TypeOK
<1>7. ASSUME NEW t \in Thread, TellVendor(t)
      PROVE  StateRest'
  <2>1. [call[t] EXCEPT !.pos = @ + 1] \in Calls
    <3>1. call[t].pos + 1 \in 1..(Len(VendorList) + 1)
      BY <1>7, <1>a, VendorListFacts DEF TellVendor, Calls
    <3> QED
      BY <1>a, <3>1 DEF Calls
  <2>2. /\ pc'[t] = "tell" /\ \A u \in Thread \ {t} : pc'[u] = pc[u] /\ call'[u] = call[u]
    BY <1>7, <1>a, <2>1, GotoType DEF TellVendor, Label
  <2>3. child = None /\ pc[t] = "tell"
    BY <1>7, <1>b DEF TellVendor
  <2> QED
    BY <1>7, <1>a, <2>2, <2>3
       DEF TellVendor, StateRest, CreatesFor, ListInv, ChildInv, HolderAlive, StateAlive, TypeOK
<1>8. ASSUME NEW t \in Thread, VendorsTold(t)
      PROVE  StateRest'
  <2>1. /\ pc'[t] = "idle" /\ \A u \in Thread \ {t} : pc'[u] = pc[u] /\ call'[u] = call[u]
    BY <1>8, <1>a, ReturnType DEF VendorsTold
  <2>2. child = None /\ pc[t] = "tell"
    BY <1>8, <1>b DEF VendorsTold
  <2> QED
    BY ConstantsAssumption, <1>8, <1>a, <2>1, <2>2
       DEF VendorsTold, StateRest, CreatesFor, ListInv, ChildInv, HolderAlive, StateAlive, TypeOK
<1>9. ASSUME NEW t \in Thread, LockList(t)
      PROVE  StateRest'
  <2>1. /\ pc'[t] = "list" /\ call'[t] = call[t]
        /\ \A u \in Thread \ {t} : pc'[u] = pc[u] /\ call'[u] = call[u]
    BY <1>9, <1>a, GotoType DEF LockList, Label
  <2>2. child = None /\ pc[t] = "create" /\ \A u \in Thread : pc[u] # "list"
    BY <1>9, <1>a, <1>b, ConstantsAssumption DEF LockList, ListInv
  <2> QED
    BY ConstantsAssumption, <1>9, <1>a, <2>1, <2>2
       DEF LockList, StateRest, CreatesFor, ListInv, ChildInv, HolderAlive, StateAlive, TypeOK
<1>10. ASSUME NEW t \in Thread, AddState(t)
       PROVE  StateRest'
  <2>1. [call[t] EXCEPT !.next = None] \in Calls /\ call[t].next \in {"idle", "label"}
    BY <1>10, <1>a DEF AddState, CreatesFor, Calls
  <2>2. /\ pc'[t] \in {"idle", "label"}
        /\ \A u \in Thread \ {t} : pc'[u] = pc[u] /\ call'[u] = call[u]
    BY <1>10, <1>a, <2>1, GotoType DEF AddState, Label
  <2>3. /\ child = None /\ pc[t] = "list"
        /\ \A u \in Thread \ {t} : pc[u] # "list"
    BY <1>10, <1>a, <1>b DEF AddState, ListInv
  <2> QED
    BY ConstantsAssumption, <1>10, <1>a, <2>2, <2>3
       DEF AddState, StateRest, CreatesFor, ListInv, ChildInv, HolderAlive, StateAlive, TypeOK
<1>11. ASSUME NEW t \in Thread, SetLabel(t)
       PROVE  StateRest'
  <2>1. Goto(t, "idle", NoCall) /\ pc[t] = "label" /\ debugLock' = debugLock
        /\ UNCHANGED <<states, tsd, listLock, processVars>>
    BY <1>11 DEF SetLabel, Return
  <2>2. /\ pc'[t] = "idle" /\ \A u \in Thread \ {t} : pc'[u] = pc[u] /\ call'[u] = call[u]
    BY <1>11, <1>a, ReturnType DEF SetLabel
  <2> QED
    BY <1>a, <1>b, <2>1, <2>2
       DEF StateRest, CreatesFor, ListInv, ChildInv, HolderAlive, StateAlive, TypeOK
<1>12. ASSUME NEW t \in Thread, ReleaseThread(t)
       PROVE  StateRest'
  BY <1>12, <1>a
     DEF ReleaseThread, StateRest, CreatesFor, ListInv, ChildInv, HolderAlive, StateAlive, TypeOK
<1>13. ASSUME NEW t \in Thread, Fork(t)
       PROVE  StateRest'
  <2>1. \A u \in Thread : pc'[u] = "idle"
    BY <1>13 DEF Fork
  <2>2. child' = t /\ t # None /\ tsd' = tsd \cap {t} /\ states' = states
    BY <1>13, ConstantsAssumption DEF Fork
  <2>3. debugLock' \in {Gone, None} /\ listLock' \in {Gone, None} /\ forks' > 0
    BY <1>13, <1>a, ConstantsAssumption DEF Fork, LeftBy, TypeOK
  <2> QED
    BY <1>a, <2>1, <2>2, <2>3, ConstantsAssumption
       DEF StateRest, CreatesFor, ListInv, ChildInv, HolderAlive, StateAlive
<1>14. ASSUME NEW t \in Thread, ResetOnFork(t)
       PROVE  StateRest'
  <2>1. /\ child = t /\ child' = None /\ tsd' = tsd \ {t} /\ states' = {} /\ listLock' = None
        /\ UNCHANGED <<pc, call, debugLock, forks>>
    BY <1>14 DEF ResetOnFork
  <2>2. tsd' = {} /\ \A u \in Thread : pc[u] = "idle"
    BY <1>14, <1>a, <2>1 DEF ChildInv, ResetOnFork
  <2> QED
    BY ConstantsAssumption, <1>a, <2>1, <2>2
       DEF StateRest, CreatesFor, ListInv, ChildInv, HolderAlive, StateAlive, TypeOK
<1>15. CASE UNCHANGED vars
  BY <1>15, <1>a DEF vars, StateRest, CreatesFor, ListInv, ChildInv, HolderAlive, StateAlive
<1> QED
  BY <1>1, <1>2, <1>3, <1>4, <1>5, <1>6, <1>7, <1>8, <1>9, <1>10, <1>11, <1>12, <1>13, <1>14,
     <1>15, ConstantsAssumption DEF Next, Begin, Step

\* Thread states and locks belong to threads that are alive.
THEOREM StateInvariant ==
  ASSUME ~NewThreadResets
  PROVE  Spec => []StateInv
BY StateInit, StateStep, PTL DEF Spec

\* Every variable has its type, and without a callback the settings are the default.
THEOREM DebugTypeCorrect ==
  ASSUME ~NewThreadResets
  PROVE  Spec => []TypeOK
<1>1. StateInv => TypeOK
  BY DEF StateInv
<1> QED
  BY <1>1, StateInvariant, PTL

\* No thread's key leads to a state that has been freed.
THEOREM StatesAlive ==
  ASSUME ~NewThreadResets
  PROVE  Spec => []StateAlive
<1>1. StateInv => StateAlive
  BY DEF StateInv
<1> QED
  BY <1>1, StateInvariant, PTL

\* No lock is left to a thread that will not give it back.
THEOREM HoldersAlive ==
  ASSUME ~NewThreadResets
  PROVE  Spec => []HolderAlive
<1>1. StateInv => HolderAlive
  BY DEF StateInv
<1> QED
  BY <1>1, StateInvariant, PTL

-----------------------------------------------------------------------------
(* Labels.                                                                 *)

LEMMA LabelInit == Init => LabelInv
<1> SUFFICES ASSUME Init PROVE LabelInv
  OBVIOUS
<1>1. LabelsAgree
  BY ConstantsAssumption DEF Init, LabelsAgree
<1> QED
  BY <1>1, StateInit DEF Init, LabelInv

\* Threads with a state, and those that are about to set its label.
LabelRest ==
  /\ LabelsAgree
  /\ \A t \in Thread : pc[t] = "label" => t \in tsd

LEMMA LabelStep ==
  ASSUME ~NewThreadResets
  PROVE  LabelInv /\ [Next]_vars => LabelInv'
<1> SUFFICES ASSUME LabelInv, [Next]_vars PROVE LabelRest'
  BY StateStep DEF LabelInv, LabelRest
<1> USE DEF settingVars, stateVars, threadVars, processVars
<1>a. TypeOK /\ CreatesFor /\ ChildInv /\ call \in [Thread -> Calls]
  BY CallType DEF LabelInv, StateInv
<1>b. TypeOK'
  BY <1>a, TypeStep
<1>c. LabelsAgree /\ \A t \in Thread : pc[t] = "label" => t \in tsd
  BY DEF LabelInv
\* A step that does nothing to labels, and leads to them only with a state.
<1>d. ASSUME NEW t \in Thread, tsd \subseteq tsd', UNCHANGED <<label, vendorLabel, behind>>,
             \A u \in Thread \ {t} : pc'[u] = pc[u],
             pc'[t] = "label" => t \in tsd'
      PROVE  LabelRest'
  BY <1>c, <1>d DEF LabelRest, LabelsAgree
\* Threads forget their labels, and leave.
<1>e. ASSUME NEW ts \in SUBSET Thread, Forgotten(ts), \A u \in Thread \ ts : u \in tsd => u \in tsd'
      PROVE  LabelsAgree'
  <2> SUFFICES ASSUME NEW u \in Thread
               PROVE  /\ label'[u] # None => u \in tsd'
                      /\ \A v \in Supports : <<v, u>> \in behind' \/ vendorLabel'[v][u] = label'[u]
    BY DEF LabelsAgree
  <2>1. label'[u] = IF u \in ts THEN None ELSE label[u]
    BY <1>e DEF Forgotten
  <2>2. \A v \in Supports : vendorLabel'[v][u] = IF u \in ts THEN None ELSE vendorLabel[v][u]
    BY <1>e, ConstantsAssumption DEF Forgotten
  <2>3. \A v \in Supports : <<v, u>> \in behind /\ u \notin ts => <<v, u>> \in behind'
    BY <1>e DEF Forgotten
  <2> QED
    BY <1>c, <1>e, <2>1, <2>2, <2>3 DEF LabelsAgree
<1>1. ASSUME NEW t \in Thread,
             \/ \E type \in Type : Message(t, type)
             \/ QueryDebug(t) \/ ReadCallback(t) \/ Report(t)
             \/ \E cb \in Callback \cup {None}, a \in AttributeList : ReadEnabled(t, cb, a)
             \/ SetSettings(t) \/ TellVendor(t) \/ VendorsTold(t) \/ LockList(t)
      PROVE  LabelRest'
  <2>1. \E l \in Label \ {"label"} : pc' = [pc EXCEPT ![t] = l]
    <3> USE DEF Goto, Return, Label
    <3>1. CASE (\E type \in Type : Message(t, type)) \/ QueryDebug(t)
      BY <3>1 DEF Message, QueryDebug
    <3>2. CASE ReadCallback(t) \/ Report(t)
      BY <3>2 DEF ReadCallback, Report
    <3>3. CASE \E cb \in Callback \cup {None}, a \in AttributeList : ReadEnabled(t, cb, a)
      BY <3>3 DEF ReadEnabled
    <3>4. CASE SetSettings(t) \/ TellVendor(t)
      BY <3>4 DEF SetSettings, TellVendor
    <3>5. CASE VendorsTold(t) \/ LockList(t)
      BY <3>5 DEF VendorsTold, LockList
    <3> QED
      BY <1>1, <3>1, <3>2, <3>3, <3>4, <3>5
  <2>2. UNCHANGED <<tsd, label, vendorLabel, behind>>
    BY <1>1 DEF Message, QueryDebug, ReadCallback, Report, ReadEnabled, SetSettings, TellVendor,
                VendorsTold, LockList
  <2>3. pc'[t] # "label" /\ \A u \in Thread \ {t} : pc'[u] = pc[u]
    BY <1>a, <2>1 DEF TypeOK
  <2> QED
    BY <1>d, <2>2, <2>3
<1>2. ASSUME NEW t \in Thread, AddState(t)
      PROVE  LabelRest'
  <2>1. tsd' = tsd \cup {t} /\ UNCHANGED <<label, vendorLabel, behind>>
    BY <1>2 DEF AddState
  <2>2. \A u \in Thread \ {t} : pc'[u] = pc[u]
    BY <1>2, <1>a DEF AddState, Goto, TypeOK
  <2> QED
    BY <1>d, <2>1, <2>2
<1>3. ASSUME NEW t \in Thread, NEW l \in ThreadLabel \cup {None}, LabelThread(t, l)
      PROVE  LabelRest'
  <2>1. UNCHANGED <<tsd, label, vendorLabel, behind>>
    BY <1>3 DEF LabelThread
  <2>2. \A u \in Thread \ {t} : pc'[u] = pc[u]
    BY <1>3, <1>a DEF LabelThread, Goto, TypeOK
  <2>3. pc'[t] = "label" => t \in tsd
    BY <1>3, <1>a DEF LabelThread, Goto, TypeOK
  <2> QED
    BY <1>d, <2>1, <2>2, <2>3
<1>4. ASSUME NEW t \in Thread, SetLabel(t)
      PROVE  LabelRest'
  <2> DEFINE l == call[t].label
  <2>1. t \in tsd /\ tsd' = tsd
    BY <1>4, <1>c DEF SetLabel
  <2>2. PICK refusing \in SUBSET Supports :
          /\ \A v \in Supports \ refusing : vendorLabel'[v] = [vendorLabel[v] EXCEPT ![t] = l]
          /\ \A v \in refusing : vendorLabel'[v] = vendorLabel[v]
          /\ behind' = (behind \ (Supports \X {t})) \cup (refusing \X {t})
    BY <1>4, ConstantsAssumption DEF SetLabel, TellsLabel
  <2>3. \A u \in Thread : label'[u] = IF u = t THEN l ELSE label[u]
    BY <1>4, <1>a DEF SetLabel, TypeOK
  <2> HIDE DEF l
  <2>4. ASSUME NEW v \in Supports, NEW u \in Thread
        PROVE  <<v, u>> \in behind' \/ vendorLabel'[v][u] = label'[u]
    <3>1. vendorLabel[v] \in [Thread -> ThreadLabel \cup {None}]
      BY <1>a, ConstantsAssumption DEF TypeOK
    <3>2. CASE u = t
      BY <2>2, <2>3, <3>1, <3>2
    <3>3. CASE u # t
      <4>1. vendorLabel'[v][u] = vendorLabel[v][u]
        BY <2>2, <3>1, <3>3
      <4>2. <<v, u>> \in behind => <<v, u>> \in behind'
        BY <2>2, <3>3
      <4> QED
        BY <1>c, <2>3, <3>3, <4>1, <4>2 DEF LabelsAgree
    <3> QED
      BY <3>2, <3>3
  <2>5. LabelsAgree'
    BY <1>c, <2>1, <2>3, <2>4 DEF LabelsAgree
  <2>6. pc'[t] = "idle" /\ \A u \in Thread \ {t} : pc'[u] = pc[u]
    BY <1>4, <1>a, ReturnType DEF SetLabel
  <2> QED
    BY <1>c, <2>1, <2>5, <2>6 DEF LabelRest
<1>5. ASSUME NEW t \in Thread, ReleaseThread(t)
      PROVE  LabelRest'
  <2>1. Forgotten({t}) /\ tsd' = tsd \ {t} /\ pc' = pc /\ pc[t] = "idle"
    BY <1>5 DEF ReleaseThread
  <2>2. LabelsAgree'
    BY <1>e, <2>1
  <2> QED
    BY <1>c, <2>1, <2>2 DEF LabelRest
<1>6. ASSUME NEW t \in Thread, Fork(t)
      PROVE  LabelRest'
  <2>1. Forgotten(Thread \ {t}) /\ tsd' = tsd \cap {t} /\ \A u \in Thread : pc'[u] = "idle"
    BY <1>6 DEF Fork
  <2>2. LabelsAgree'
    BY <1>e, <2>1
  <2> QED
    BY <2>1, <2>2 DEF LabelRest
<1>7. ASSUME NEW t \in Thread, ResetOnFork(t)
      PROVE  LabelRest'
  <2>1. /\ tsd' = tsd \ {t} /\ pc' = pc /\ child = t /\ child # None
        /\ label' = [u \in Thread |-> None] /\ vendorLabel' = vendorLabel
        /\ behind' = behind \cup {p \in Supports \X Thread : label[p[2]] # None}
    BY <1>7 DEF ResetOnFork
  <2>4. ASSUME NEW v \in Supports, NEW u \in Thread
        PROVE  <<v, u>> \in behind' \/ vendorLabel'[v][u] = label'[u]
    <3>1. CASE label[u] # None
      BY <2>1, <3>1
    <3>2. CASE label[u] = None
      BY <1>c, <2>1, <3>2 DEF LabelsAgree
    <3> QED
      BY <3>1, <3>2
  <2>2. LabelsAgree'
    BY <2>1, <2>4 DEF LabelsAgree
  <2>3. \A u \in Thread : pc'[u] = "idle"
    BY <1>a, <2>1 DEF ChildInv
  <2> QED
    BY <2>2, <2>3 DEF LabelRest
<1>8. CASE UNCHANGED vars
  BY <1>8, <1>c DEF vars, LabelRest, LabelsAgree
<1> QED
  BY <1>1, <1>2, <1>3, <1>4, <1>5, <1>6, <1>7, <1>8 DEF Next, Begin, Step

\* libEGL and every vendor have the same label for each thread.
THEOREM SameLabels ==
  ASSUME ~NewThreadResets
  PROVE  Spec => []LabelsAgree
<1>1. LabelInv => LabelsAgree
  BY DEF LabelInv
<1> QED
  BY <1>1, LabelInit, LabelStep, PTL DEF Spec

-----------------------------------------------------------------------------
(* The settings.                                                           *)

\* A vendor that has what libEGL had makes of the change what libEGL makes of it,
\* and to tell it the same again changes nothing.
LEMMA VendorFollows ==
  ASSUME NEW old \in Settings, NEW c \in Calls, c.enabled = Changed(old.enabled, c.attribute)
  PROVE  /\ VendorChange(old, c) = NewSettings(c)
         /\ VendorChange(NewSettings(c), c) = NewSettings(c)
<1>1. Changed(Changed(old.enabled, c.attribute), c.attribute) = Changed(old.enabled, c.attribute)
  BY ChangedType DEF Settings, Calls
<1>2. CASE c.callback = None
  BY <1>2 DEF VendorChange, NewSettings
<1>3. CASE c.callback # None
  BY <1>1, <1>3 DEF VendorChange, NewSettings
<1> QED
  BY <1>2, <1>3

\* What a vendor makes of a change does not depend on libEGL's part of the call.
LEMMA VendorChangeFields ==
  ASSUME NEW old \in Settings, NEW c \in Calls, NEW d \in Calls,
         c.callback = d.callback, c.attribute = d.attribute
  PROVE  VendorChange(old, c) = VendorChange(old, d)
BY DEF VendorChange

\* The change t is at does the same to a vendor a second time.
LEMMA VendorChangeTwice ==
  ASSUME NEW old \in Settings, NEW c \in Calls
  PROVE  VendorChange(VendorChange(old, c), c) = VendorChange(old, c)
<1>1. Changed(Changed(old.enabled, c.attribute), c.attribute) = Changed(old.enabled, c.attribute)
  BY ChangedType DEF Settings, Calls
<1>2. CASE c.callback = None
  BY <1>2 DEF VendorChange
<1>3. CASE c.callback # None
  BY <1>1, <1>3 DEF VendorChange
<1> QED
  BY <1>2, <1>3

SettingsRest ==
  /\ VendorsAgree
  /\ \A t \in Thread : ChangeInv(t)

LEMMA SettingsParts == SettingsInv <=> StateInv /\ SettingsRest
BY DEF SettingsInv, SettingsRest

\* Settings are a callback and types; without a callback they are the default.
LEMMA SettingsEqual ==
  ASSUME NEW x \in Settings, NEW y \in Settings
  PROVE  x = y <=> x.callback = y.callback /\ x.enabled = y.enabled
BY DEF Settings

LEMMA ChangedCallback ==
  ASSUME NEW old \in Settings, NEW c \in Calls
  PROVE  VendorChange(old, c).callback = c.callback
BY DEF VendorChange, Default

LEMMA NewCallback ==
  ASSUME NEW c \in Calls
  PROVE  NewSettings(c).callback = c.callback
BY DEF NewSettings, Default

LEMMA SettingsInit == Init => SettingsInv
<1> SUFFICES ASSUME Init PROVE SettingsInv
  OBVIOUS
<1>1. VendorsAgree
  BY ConstantsAssumption DEF Init, VendorsAgree, HaveSettings
<1> QED
  BY <1>1, StateInit DEF Init, SettingsInv, ChangeInv

LEMMA SettingsStep ==
  ASSUME ~NewThreadResets
  PROVE  SettingsInv /\ [Next]_vars => SettingsInv'
<1>0. SettingsInv' <=> StateInv' /\ SettingsRest'
  BY DEF SettingsInv, SettingsRest
<1> SUFFICES ASSUME SettingsInv, [Next]_vars PROVE SettingsRest'
  BY <1>0, StateStep DEF SettingsInv
<1> USE DEF settingVars, stateVars, threadVars, processVars
<1>a. TypeOK /\ CreatesFor /\ HolderAlive /\ call \in [Thread -> Calls] /\ SettingsRest
  BY CallType, SettingsParts DEF SettingsInv, StateInv
<1>b. \A v \in Supports : v \in Vendor /\ vendorSettings[v] \in Settings
  BY <1>a, ConstantsAssumption DEF TypeOK
\* A step of a thread that has nothing to do with the settings.
<1>c. ASSUME NEW t \in Thread, UNCHANGED settingVars,
             \A u \in Thread \ {t} : pc'[u] = pc[u] /\ call'[u] = call[u],
             pc[t] \notin {"control", "tell"}, pc'[t] \notin {"control", "tell"}
      PROVE  SettingsRest'
  BY <1>a, <1>c DEF SettingsRest, VendorsAgree, HaveSettings, ChangeInv
<1>1. ASSUME NEW t \in Thread,
             \/ \E type \in Type : Message(t, type)
             \/ QueryDebug(t)
      PROVE  SettingsRest'
  <2>1. PICK type \in Type : Goto(t, "report", [NoCall EXCEPT !.type = type])
    BY <1>1, ConstantsAssumption DEF Message, QueryDebug
  <2>2. pc[t] = "idle" /\ UNCHANGED settingVars
    BY <1>1 DEF Message, QueryDebug, Start
  <2>3. pc'[t] = "report" /\ \A u \in Thread \ {t} : pc'[u] = pc[u] /\ call'[u] = call[u]
    BY <1>a, <2>1, StartedCalls, GotoType DEF Label
  <2> QED
    BY <1>c, <2>2, <2>3
<1>2. ASSUME NEW t \in Thread, ReadCallback(t) \/ Report(t) \/ LockList(t) \/ SetLabel(t)
      PROVE  SettingsRest'
  <2>1. \E l \in {"reported", "idle", "create", "list"} : \E c : Goto(t, l, c)
    BY <1>2 DEF ReadCallback, Report, LockList, SetLabel, Return
  <2>2. pc[t] \notin {"control", "tell"} /\ UNCHANGED settingVars
    BY <1>2 DEF ReadCallback, Report, LockList, SetLabel
  <2>3. /\ pc'[t] \notin {"control", "tell"}
        /\ \A u \in Thread \ {t} : pc'[u] = pc[u] /\ call'[u] = call[u]
    BY <1>a, <2>1 DEF Goto, TypeOK
  <2> QED
    BY <1>c, <2>2, <2>3
<1>3. ASSUME NEW t \in Thread, AddState(t)
      PROVE  SettingsRest'
  <2>1. call[t].next \in {"idle", "label"} /\ pc[t] = "list" /\ UNCHANGED settingVars
    BY <1>3, <1>a DEF AddState, CreatesFor
  <2>2. /\ pc'[t] = call[t].next
        /\ \A u \in Thread \ {t} : pc'[u] = pc[u] /\ call'[u] = call[u]
    BY <1>3, <1>a DEF AddState, Goto, TypeOK
  <2> QED
    BY <1>c, <2>1, <2>2
<1>4. ASSUME NEW t \in Thread, NEW l \in ThreadLabel \cup {None}, LabelThread(t, l)
      PROVE  SettingsRest'
  <2>1. pc[t] = "idle" /\ UNCHANGED settingVars
    BY <1>4 DEF LabelThread, Start
  <2>2. /\ pc'[t] \in {"label", "create"}
        /\ \A u \in Thread \ {t} : pc'[u] = pc[u] /\ call'[u] = call[u]
    BY <1>4, <1>a DEF LabelThread, Goto, TypeOK
  <2> QED
    BY <1>c, <2>1, <2>2
<1>5. ASSUME NEW t \in Thread, NEW cb \in Callback \cup {None}, NEW a \in Attribute,
             ReadEnabled(t, cb, a)
      PROVE  SettingsRest'
  <2> DEFINE enabled == Changed(settings.enabled, a)
  <2> DEFINE c == [NoCall EXCEPT !.callback = cb, !.attribute = a, !.enabled = enabled]
  <2>1. \/ Goto(t, "control", c)
        \/ \E type \in Type : Goto(t, "report", [NoCall EXCEPT !.type = type])
    BY <1>5, ConstantsAssumption DEF ReadEnabled
  <2>2. pc[t] = "idle" /\ UNCHANGED settingVars
    BY <1>5 DEF ReadEnabled, Start
  <2>3. enabled \in SUBSET Type
    BY <1>a, ChangedType DEF TypeOK, Settings
  <2>4. c \in Calls /\ c.enabled = enabled /\ c.attribute = a /\ c.pos = 1
    <3> HIDE DEF enabled
    <3> QED
      BY <2>3, StartedCalls DEF NoCall
  <2>5. CASE Goto(t, "control", c)
    <3> HIDE DEF c
    <3>1. /\ pc'[t] = "control" /\ call'[t] = c
          /\ \A u \in Thread \ {t} : pc'[u] = pc[u] /\ call'[u] = call[u]
      BY <1>a, <2>4, <2>5, GotoType DEF Label
    <3>2. VendorsAgree'
      BY <1>a, <2>2 DEF SettingsRest, VendorsAgree, HaveSettings
    <3>3. ChangeInv(t)'
      BY <2>4, <3>1 DEF ChangeInv
    <3>4. \A u \in Thread \ {t} : ChangeInv(u)'
      BY <1>a, <2>2, <3>1 DEF SettingsRest, ChangeInv, HaveSettings
    <3> QED
      BY <3>2, <3>3, <3>4 DEF SettingsRest
  <2>6. CASE \E type \in Type : Goto(t, "report", [NoCall EXCEPT !.type = type])
    <3>1. pc'[t] = "report" /\ \A u \in Thread \ {t} : pc'[u] = pc[u] /\ call'[u] = call[u]
      BY <1>a, <2>6 DEF Goto, TypeOK
    <3> QED
      BY <1>c, <2>2, <3>1
  <2> QED
    BY <2>1, <2>5, <2>6
<1>6. ASSUME NEW t \in Thread, SetSettings(t)
      PROVE  SettingsRest'
  <2> DEFINE c == [call[t] EXCEPT !.enabled = {}]
  <2>1. /\ c \in Calls /\ call[t] \in Calls /\ c.pos = call[t].pos
        /\ c.callback = call[t].callback /\ c.attribute = call[t].attribute
    BY <1>a DEF Calls
  <2>2. /\ pc[t] = "control" /\ debugLock = None /\ Goto(t, "tell", c)
        /\ settings' = NewSettings(call[t]) /\ debugLock' = t
        /\ UNCHANGED <<vendorSettings, refused>>
    BY <1>6 DEF SetSettings
  <2>3. /\ call[t].callback # None /\ ~overtaken'
        => ~overtaken /\ call[t].enabled = Changed(settings.enabled, call[t].attribute)
    BY <1>6 DEF SetSettings
  <2> HIDE DEF c
  <2>4. /\ pc'[t] = "tell" /\ call'[t] = c
        /\ \A u \in Thread \ {t} : pc'[u] = pc[u] /\ call'[u] = call[u]
    BY <1>a, <2>1, <2>2, GotoType DEF Label
  <2>5. \A u \in Thread : pc[u] # "tell"
    BY <1>a, <2>2, ConstantsAssumption DEF SettingsRest, ChangeInv
  <2>6. ASSUME NEW v \in Supports \ refused
        PROVE  overtaken' \/ VendorChange(vendorSettings[v], c) = settings'
    <3>1. settings \in Settings /\ vendorSettings[v] \in Settings
      BY <1>a, <1>b DEF TypeOK
    <3>2. VendorChange(vendorSettings[v], c) = VendorChange(vendorSettings[v], call[t])
      BY <2>1, <3>1, VendorChangeFields
    <3>3. CASE call[t].callback = None
      BY <2>2, <3>2, <3>3 DEF VendorChange, NewSettings
    <3>4. CASE call[t].callback # None /\ ~overtaken'
      <4>1. HaveSettings(v)
        BY <1>a, <2>2 DEF SettingsRest, VendorsAgree
      <4>2. vendorSettings[v] = settings
        BY <2>3, <3>1, <3>4, <4>1, SettingsEqual DEF HaveSettings
      <4>3. VendorChange(settings, call[t]) = NewSettings(call[t])
        BY <2>1, <2>3, <3>1, <3>4, VendorFollows
      <4> QED
        BY <2>2, <3>2, <4>2, <4>3
    <3> QED
      BY <3>3, <3>4
  <2>7. VendorsAgree'
    BY <2>2, ConstantsAssumption DEF VendorsAgree
  <2>8. c.pos = 1 /\ c.callback = settings'.callback
    BY <1>a, <2>1, <2>2, NewCallback DEF SettingsRest, ChangeInv
  <2>9. ChangeInv(t)'
    BY <2>2, <2>4, <2>6, <2>8 DEF ChangeInv
  <2>10. \A u \in Thread \ {t} : ChangeInv(u)'
    BY <1>a, <2>4, <2>5 DEF SettingsRest, ChangeInv
  <2> QED
    BY <2>7, <2>9, <2>10 DEF SettingsRest
<1>7. ASSUME NEW t \in Thread, TellVendor(t)
      PROVE  SettingsRest'
  <2> DEFINE c == [call[t] EXCEPT !.pos = @ + 1]
  <2> DEFINE w == VendorList[call[t].pos]
  <2>1. call[t] \in Calls /\ call[t].pos \in 1..Len(VendorList) /\ w \in Vendor
    BY <1>7, <1>a, VendorListFacts DEF TellVendor, Calls
  <2>2. c \in Calls /\ c.pos = call[t].pos + 1
        /\ c.callback = call[t].callback /\ c.attribute = call[t].attribute
    <3>1. call[t].pos + 1 \in 1..(Len(VendorList) + 1)
      BY <2>1, VendorListFacts
    <3> QED
      BY <2>1, <3>1 DEF Calls
  <2>3. /\ pc[t] = "tell" /\ Goto(t, "tell", c) /\ UNCHANGED <<settings, debugLock, overtaken>>
        /\ \/ /\ vendorSettings' = [vendorSettings EXCEPT ![w] = VendorChange(@, call[t])]
              /\ refused' = IF call[t].callback = None THEN refused \ {w} ELSE refused
           \/ w \in Supports /\ refused' = refused \cup {w} /\ UNCHANGED vendorSettings
           \/ w \notin Supports /\ UNCHANGED <<vendorSettings, refused>>
    BY <1>7 DEF TellVendor
  <2> HIDE DEF c, w
  <2>4. /\ pc'[t] = "tell" /\ call'[t] = c
        /\ \A u \in Thread \ {t} : pc'[u] = pc[u] /\ call'[u] = call[u]
    BY <1>a, <2>2, <2>3, GotoType DEF Label
  <2>5. debugLock = t /\ call[t].callback = settings.callback /\ \A u \in Thread \ {t} : pc[u] # "tell"
    BY <1>a, <2>3 DEF SettingsRest, ChangeInv
  <2>6. VendorsAgree'
    BY <2>3, <2>5, ConstantsAssumption DEF VendorsAgree
  <2>0. settings \in Settings
    BY <1>a DEF TypeOK
  <2>7. ASSUME NEW v \in Supports \ refused'
        PROVE  /\ overtaken \/ VendorChange(vendorSettings'[v], c) = settings
               /\ \A i \in 1..(c.pos - 1) : VendorList[i] = v =>
                    /\ vendorSettings'[v].callback = settings.callback
                    /\ overtaken \/ vendorSettings'[v].enabled = settings.enabled
    <3>0. vendorSettings[v] \in Settings
      BY <1>b
    <3>1. CASE v = w
      <4>1. vendorSettings'[v] = VendorChange(vendorSettings[v], call[t])
        BY <1>a, <1>b, <2>3, <3>1 DEF TypeOK
      <4>2. overtaken \/ vendorSettings'[v] = settings
        <5>1. CASE v \in refused
          <6>1. call[t].callback = None
            BY <2>3, <3>1, <5>1
          <6>2. settings.enabled = ErrorType
            BY <1>a, <2>5, <6>1 DEF TypeOK
          <6>3. settings = Default
            BY <2>0, <2>5, <6>1, <6>2, DefaultType, SettingsEqual DEF Default
          <6> QED
            BY <4>1, <6>1, <6>3 DEF VendorChange
        <5>2. CASE v \notin refused
          BY <1>a, <2>3, <4>1, <5>2 DEF SettingsRest, ChangeInv
        <5> QED
          BY <5>1, <5>2
      <4>3. VendorChange(vendorSettings'[v], c) = vendorSettings'[v]
        <5>1. VendorChange(vendorSettings[v], call[t]) \in Settings
          BY <2>1, <3>0, VendorChangeType
        <5> QED
          BY <2>1, <2>2, <3>0, <4>1, <5>1, VendorChangeTwice, VendorChangeFields
      <4>4. vendorSettings'[v].callback = settings.callback
        BY <2>1, <2>5, <3>0, <4>1, ChangedCallback
      <4> QED
        BY <4>2, <4>3, <4>4
    <3>2. CASE v # w
      <4>1. vendorSettings'[v] = vendorSettings[v] /\ v \notin refused
        BY <1>a, <1>b, <2>3, <3>2 DEF TypeOK
      <4>2. VendorChange(vendorSettings[v], c) = VendorChange(vendorSettings[v], call[t])
        BY <2>1, <2>2, <3>0, VendorChangeFields
      <4>3. ASSUME NEW i \in 1..(c.pos - 1), VendorList[i] = v
            PROVE  i \in 1..(call[t].pos - 1)
        <5>1. i # call[t].pos
          BY <3>2, <4>3 DEF w
        <5> QED
          BY <2>1, <2>2, <5>1, VendorListFacts
      <4>4. /\ overtaken \/ VendorChange(vendorSettings[v], call[t]) = settings
            /\ \A i \in 1..(call[t].pos - 1) : VendorList[i] = v =>
                 /\ vendorSettings[v].callback = settings.callback
                 /\ overtaken \/ vendorSettings[v].enabled = settings.enabled
        BY <1>a, <2>3, <4>1 DEF SettingsRest, ChangeInv, HaveSettings
      <4> QED
        BY <4>1, <4>2, <4>3, <4>4
    <3> QED
      BY <3>1, <3>2
  <2>8. ChangeInv(t)'
    BY <2>2, <2>3, <2>4, <2>5, <2>7 DEF ChangeInv, HaveSettings
  <2>9. \A u \in Thread \ {t} : ChangeInv(u)'
    BY <1>a, <2>4, <2>5 DEF SettingsRest, ChangeInv
  <2> QED
    BY <2>6, <2>8, <2>9 DEF SettingsRest
<1>8. ASSUME NEW t \in Thread, VendorsTold(t)
      PROVE  SettingsRest'
  <2>1. /\ pc'[t] = "idle" /\ pc[t] = "tell"
        /\ \A u \in Thread \ {t} : pc'[u] = pc[u] /\ call'[u] = call[u]
    BY <1>8, <1>a, ReturnType DEF VendorsTold
  <2>2. UNCHANGED <<settings, vendorSettings, refused, overtaken>> /\ call[t].pos > Len(VendorList)
    BY <1>8 DEF VendorsTold
  <2>3. \A u \in Thread \ {t} : pc[u] # "tell"
    BY <1>a, <2>1 DEF SettingsRest, ChangeInv
  <2>4. ASSUME NEW v \in Supports \ refused
        PROVE  HaveSettings(v)
    <3>1. PICK i \in 1..Len(VendorList) : VendorList[i] = v
      BY <1>b, VendorListFacts
    <3>2. i \in 1..(call[t].pos - 1)
      BY <1>a, <2>2, VendorListFacts DEF Calls
    <3> QED
      BY <1>a, <2>1, <3>1, <3>2 DEF SettingsRest, ChangeInv
  <2>5. VendorsAgree'
    BY <2>2, <2>4 DEF VendorsAgree, HaveSettings
  <2>6. \A u \in Thread : ChangeInv(u)'
    BY <1>a, <2>1, <2>3 DEF SettingsRest, ChangeInv
  <2> QED
    BY <2>5, <2>6 DEF SettingsRest
<1>9. ASSUME NEW t \in Thread, ReleaseThread(t) \/ ResetOnFork(t)
      PROVE  SettingsRest'
  <2>1. UNCHANGED <<settings, debugLock, vendorSettings, refused, overtaken, pc, call>>
    BY <1>9 DEF ReleaseThread, ResetOnFork
  <2> QED
    BY <1>a, <2>1 DEF SettingsRest, VendorsAgree, HaveSettings, ChangeInv
<1>10. ASSUME NEW t \in Thread, Fork(t)
       PROVE  SettingsRest'
  <2>1. /\ UNCHANGED <<settings, vendorSettings, refused, overtaken>>
        /\ \A u \in Thread : pc'[u] = "idle"
    BY <1>10 DEF Fork
  <2>2. debugLock' = None => debugLock = None
    BY <1>10, ConstantsAssumption DEF Fork, LeftBy
  <2> QED
    BY <1>a, <2>1, <2>2 DEF SettingsRest, VendorsAgree, HaveSettings, ChangeInv
<1>11. CASE UNCHANGED vars
  BY <1>11, <1>a DEF vars, SettingsRest, VendorsAgree, HaveSettings, ChangeInv
<1> QED
  BY <1>1, <1>2, <1>3, <1>4, <1>5, <1>6, <1>7, <1>8, <1>9, <1>10, <1>11, ConstantsAssumption
     DEF Next, Begin, Step

\* libEGL and the vendors that have the extension and have not refused agree on the
\* settings whenever nobody is changing them.
THEOREM SameSettings ==
  ASSUME ~NewThreadResets
  PROVE  Spec => []VendorsAgree
<1>1. SettingsInv => VendorsAgree
  BY DEF SettingsInv
<1> QED
  BY <1>1, SettingsInit, SettingsStep, PTL DEF Spec

\* libEGL reports a message with settings that all vendors have.
THEOREM SettledReports ==
  ASSUME ~NewThreadResets
  PROVE  Spec => ReportsSettled
<1> DEFINE Settled == \A t \in Thread : pc[t] = "report" /\ pc'[t] = "reported" =>
                        \A v \in Supports \ refused : HaveSettings(v)
<1>1. SettingsInv /\ [Next]_vars => Settled
  <2> SUFFICES ASSUME SettingsInv, [Next]_vars, NEW t \in Thread,
                      pc[t] = "report", pc'[t] = "reported", NEW v \in Supports \ refused
               PROVE  HaveSettings(v)
    OBVIOUS
  <2> USE DEF settingVars, stateVars, threadVars, processVars
  <2>1. TypeOK /\ VendorsAgree /\ CreatesFor
    BY DEF SettingsInv, StateInv
  <2>2. ASSUME NEW u \in Thread, ReadCallback(u)
        PROVE  HaveSettings(v)
    BY <2>1, <2>2 DEF ReadCallback, VendorsAgree
  <2>3. ASSUME NEW u \in Thread, NEW l, NEW c, Goto(u, l, c), u = t => l # "reported"
        PROVE  FALSE
    BY <2>1, <2>3 DEF Goto, TypeOK
  <2>4. ASSUME NEW u \in Thread,
               \/ \E type \in Type : Message(u, type)
               \/ \E cb \in Callback \cup {None}, a \in AttributeList : ReadEnabled(u, cb, a)
               \/ QueryDebug(u)
               \/ \E l \in ThreadLabel \cup {None} : LabelThread(u, l)
        PROVE  FALSE
    <3>1. \E l \in {"report", "control", "label", "create"} : \E c : Goto(u, l, c)
      BY <2>4 DEF Message, ReadEnabled, QueryDebug, LabelThread
    <3> QED
      BY <2>3, <3>1
  <2>5. ASSUME NEW u \in Thread,
               \/ Report(u) \/ SetSettings(u) \/ TellVendor(u) \/ VendorsTold(u)
               \/ LockList(u) \/ SetLabel(u)
        PROVE  FALSE
    <3>1. \E l \in {"idle", "tell", "list", "create"} : \E c : Goto(u, l, c)
      BY <2>5 DEF Report, SetSettings, TellVendor, VendorsTold, LockList, SetLabel, Return
    <3> QED
      BY <2>3, <3>1
  <2>6. ASSUME NEW u \in Thread, AddState(u)
        PROVE  FALSE
    <3>1. call[u].next # "reported"
      BY <2>1, <2>6 DEF AddState, CreatesFor
    <3> QED
      BY <2>3, <2>6, <3>1 DEF AddState
  <2>7. ASSUME NEW u \in Thread, ReleaseThread(u) \/ ResetOnFork(u) \/ Fork(u)
        PROVE  FALSE
    BY <2>7 DEF ReleaseThread, ResetOnFork, Fork
  <2>8. CASE UNCHANGED vars
    BY <2>8 DEF vars
  <2> QED
    BY <2>2, <2>4, <2>5, <2>6, <2>7, <2>8 DEF Next, Begin, Step
<1>2. ReportsSettled <=> [][Settled]_vars
  BY DEF ReportsSettled
<1> QED
  BY <1>1, <1>2, SettingsInit, SettingsStep, PTL DEF Spec, ReportsSettled
=============================================================================

------------------------------- MODULE EglDebug --------------------------------
(***************************************************************************)
(* EGL_KHR_debug in libEGL (src/EGL/libeglerror.c): the callback and the   *)
(* types of messages that are enabled, which libEGL and each vendor keep   *)
(* for themselves, and the label of a thread, which is in the thread's     *)
(* state (src/EGL/libeglcurrent.c).                                        *)
(*                                                                         *)
(* The settings of libEGL and of the vendors are changed one by one, with  *)
(* debugLock held for writing.  A message is reported with the settings    *)
(* read under the lock, but the callback is called after that.  Thread     *)
(* states are in a list with a lock of its own.                            *)
(*                                                                         *)
(* The vendors are external: each has the settings that it was last given, *)
(* a vendor without the extension is never told any, and one may refuse.   *)
(*                                                                         *)
(* A fork leaves a lock that another thread has to nobody.  libEGL makes   *)
(* that of the list anew, but not debugLock.                               *)
(***************************************************************************)
EXTENDS Integers, Sequences, FiniteSets

CONSTANTS
  Thread,
  VendorList,        \* the vendors, in order
  Supports,          \* those with eglDebugMessageControlKHR and eglLabelObjectKHR
  Callback,
  Type,              \* the types of messages
  ErrorType,         \* those that set an error, and are enabled by default
  AttributeList,     \* the lists of attributes that calls have
  ThreadLabel,
  MaxForks,
  NewThreadResets,   \* whether a new thread of a child may be the first to call EGL
  Gone,              \* the holder of a lock that was another thread's in the parent
  None

\* A list has one attribute, or none.
Attribute == [type : Type, on : BOOLEAN] \cup {None}

Vendor == {VendorList[i] : i \in DOMAIN VendorList}

ASSUME ConstantsAssumption ==
  /\ VendorList \in Seq(Vendor) /\ Supports \subseteq Vendor
  /\ ErrorType \subseteq Type
  /\ AttributeList \subseteq Attribute
  /\ MaxForks \in Nat
  /\ NewThreadResets \in BOOLEAN
  /\ None \notin Thread \cup Callback \cup ThreadLabel
  /\ Gone \notin Thread \cup {None}

VARIABLES
  settings,       \* debugCallback and debugTypeEnabled
  debugLock,      \* the writer of debugLock, Gone or None; readers take one step
  vendorSettings, \* the settings of each vendor
  refused,        \* ghost: the vendors that have refused a change
  overtaken,      \* ghost: whether types were set that had been computed before another
                  \* change; the default settings mend both
  states,         \* currentThreadStateList: the threads whose state is not freed
  tsd,            \* the threads whose threadStateKey has a state
  listLock,       \* the holder of currentStateListMutex, Gone or None
  label,          \* the label in each thread's state, or None
  vendorLabel,    \* the label of each thread in each vendor, or None
  behind,         \* ghost: <<v, t>> if v refused t's label, or was not told that libEGL
                  \* has dropped it
  pc,             \* where each thread is: see TypeOK
  call,           \* the arguments and locals of an EGL function
  child,          \* the thread of a child that has not noticed the fork, or None
  forks

settingVars == <<settings, debugLock, vendorSettings, refused, overtaken>>
stateVars   == <<states, tsd, listLock, label, vendorLabel, behind>>
threadVars  == <<pc, call>>
processVars == <<child, forks>>
vars == <<settingVars, stateVars, threadVars, processVars>>

Default == [callback |-> None, enabled |-> ErrorType]

NoCall == [callback |-> None, attribute |-> None, enabled |-> {}, pos |-> 1,
           type |-> None, label |-> None, next |-> None]

Init ==
  /\ settings = Default
  /\ debugLock = None
  /\ vendorSettings = [v \in Vendor |-> Default]
  /\ refused = {} /\ overtaken = FALSE
  /\ states = {} /\ tsd = {}
  /\ listLock = None
  /\ label = [t \in Thread |-> None]
  /\ vendorLabel = [v \in Vendor |-> [t \in Thread |-> None]]
  /\ behind = {}
  /\ pc = [t \in Thread |-> "idle"]
  /\ call = [t \in Thread |-> NoCall]
  /\ child = None
  /\ forks = 0

Goto(t, l, c) ==
  /\ pc' = [pc EXCEPT ![t] = l]
  /\ call' = [call EXCEPT ![t] = c]

Return(t) == Goto(t, "idle", NoCall)

\* __eglEntrypointCommon
Start(t) == pc[t] = "idle" /\ child = None

-----------------------------------------------------------------------------
(* Reports.                                                                *)

\* Some function of libEGL has a message of a type.
Message(t, type) ==
  /\ Start(t)
  /\ Goto(t, "report", [NoCall EXCEPT !.type = type])
  /\ UNCHANGED <<settingVars, stateVars, processVars>>

\* __eglDebugReport up to the unlock
ReadCallback(t) ==
  /\ pc[t] = "report" /\ debugLock = None
  /\ Goto(t, "reported", [call[t] EXCEPT
       !.callback = IF call[t].type \in settings.enabled THEN settings.callback ELSE None])
  /\ UNCHANGED <<settingVars, stateVars, processVars>>

\* The callback, which has no effect here, and __eglSetError, which needs a thread state.
Report(t) ==
  /\ pc[t] = "reported"
  /\ IF call[t].type \in ErrorType /\ t \notin tsd
     THEN Goto(t, "create", [NoCall EXCEPT !.next = "idle"])
     ELSE Return(t)
  /\ UNCHANGED <<settingVars, stateVars, processVars>>

\* eglQueryDebugKHR; it reports an error after the unlock.
QueryDebug(t) ==
  /\ Start(t) /\ debugLock = None
  /\ \E type \in ErrorType : Goto(t, "report", [NoCall EXCEPT !.type = type])
  /\ UNCHANGED <<settingVars, stateVars, processVars>>

-----------------------------------------------------------------------------
(* eglDebugMessageControlKHR.                                              *)

\* The types that are enabled after an attribute
Changed(enabled, attribute) ==
  IF attribute = None THEN enabled
  ELSE IF attribute.on THEN enabled \cup {attribute.type} ELSE enabled \ {attribute.type}

\* The types that are enabled are read before the lock is taken.  A bad attribute
\* is reported.
ReadEnabled(t, cb, attribute) ==
  /\ Start(t)
  /\ \/ Goto(t, "control", [NoCall EXCEPT !.callback = cb, !.attribute = attribute,
                                         !.enabled = Changed(settings.enabled, attribute)])
     \/ \E type \in ErrorType : Goto(t, "report", [NoCall EXCEPT !.type = type])
  /\ UNCHANGED <<settingVars, stateVars, processVars>>

\* Variant: removing the callback leaves the types as they are.
NewSettings_KeepsTypes(c) == [callback |-> c.callback, enabled |-> c.enabled]

\* libEGL's settings after a call; without a callback they are the default.
NewSettings(c) ==
  IF c.callback = None THEN Default
  ELSE [callback |-> c.callback, enabled |-> c.enabled]

\* A vendor's.
VendorChange(old, c) ==
  IF c.callback = None THEN Default
  ELSE [callback |-> c.callback, enabled |-> Changed(old.enabled, c.attribute)]

\* libEGL's own settings.  The types may have changed since the call computed its own.
SetSettings(t) ==
  LET c == call[t] IN
  /\ pc[t] = "control" /\ debugLock = None
  /\ debugLock' = t
  /\ settings' = NewSettings(c)
  /\ overtaken' = (/\ c.callback # None
                   /\ overtaken \/ c.enabled # Changed(settings.enabled, c.attribute))
  /\ Goto(t, "tell", [call[t] EXCEPT !.enabled = {}])
  /\ UNCHANGED <<vendorSettings, refused, stateVars, processVars>>

\* One turn of the loop over the vendors.  libEGL calls the callback, with the lock
\* held, if the vendor refuses or lacks the function.
TellVendor(t) ==
  LET v == VendorList[call[t].pos] IN
  /\ pc[t] = "tell" /\ call[t].pos <= Len(VendorList)
  /\ IF v \in Supports
     THEN \/ /\ vendorSettings' = [vendorSettings EXCEPT ![v] = VendorChange(@, call[t])]
             /\ refused' = IF call[t].callback = None THEN refused \ {v} ELSE refused
          \/ refused' = refused \cup {v} /\ UNCHANGED vendorSettings
     ELSE UNCHANGED <<vendorSettings, refused>>
  /\ Goto(t, "tell", [call[t] EXCEPT !.pos = @ + 1])
  /\ UNCHANGED <<settings, debugLock, overtaken, stateVars, processVars>>

VendorsTold(t) ==
  /\ pc[t] = "tell" /\ call[t].pos > Len(VendorList)
  /\ debugLock' = None
  /\ Return(t)
  /\ UNCHANGED <<settings, vendorSettings, refused, overtaken, stateVars, processVars>>

-----------------------------------------------------------------------------
(* Thread states and labels.                                               *)

\* CreateThreadState takes the lock of the list.
LockList(t) ==
  /\ pc[t] = "create" /\ listLock = None
  /\ listLock' = t
  /\ Goto(t, "list", call[t])
  /\ UNCHANGED <<settingVars, states, tsd, label, vendorLabel, behind, processVars>>

\* The state is in the list before the key has it.
AddState(t) ==
  /\ pc[t] = "list"
  /\ states' = states \cup {t}
  /\ listLock' = None
  /\ tsd' = tsd \cup {t}
  /\ Goto(t, call[t].next, [call[t] EXCEPT !.next = None])
  /\ UNCHANGED <<settingVars, label, vendorLabel, behind, processVars>>

\* eglLabelObjectKHR of a thread
LabelThread(t, l) ==
  LET c == [NoCall EXCEPT !.label = l] IN
  /\ Start(t)
  /\ label[t] # l
  /\ IF t \in tsd THEN Goto(t, "label", c)
     ELSE Goto(t, "create", [c EXCEPT !.next = "label"])
  /\ UNCHANGED <<settingVars, stateVars, processVars>>

\* Variant: the vendors are not told that there is no label any more.
TellsLabel_NotNone(l) == l # None

\* The vendors are told a new label, whatever it is.
TellsLabel(l) == TRUE

\* libEGL's label, and those of the vendors, some of which may refuse it.  A report
\* of theirs is left out.
SetLabel(t) ==
  LET l == call[t].label IN
  /\ pc[t] = "label"
  /\ label' = [label EXCEPT ![t] = l]
  /\ \E refusing \in SUBSET Supports :
       /\ vendorLabel' = [v \in Vendor |->
            IF v \in Supports \ refusing /\ TellsLabel(l)
            THEN [vendorLabel[v] EXCEPT ![t] = l] ELSE vendorLabel[v]]
       /\ behind' = (behind \ (Supports \X {t})) \cup (refusing \X {t})
  /\ Return(t)
  /\ UNCHANGED <<settingVars, states, tsd, listLock, processVars>>

Forgotten(ts) ==
  /\ label' = [t \in Thread |-> IF t \in ts THEN None ELSE label[t]]
  /\ vendorLabel' = [v \in Vendor |-> [t \in Thread |->
                       IF t \in ts THEN None ELSE vendorLabel[v][t]]]
  /\ behind' = behind \ (Supports \X ts)

\* eglReleaseThread, or the exit of a thread; neither looks for a fork.  The vendors
\* forget the thread, too.
ReleaseThread(t) ==
  /\ pc[t] = "idle" /\ t \in tsd /\ listLock = None
  /\ tsd' = tsd \ {t}
  /\ states' = states \ {t}
  /\ Forgotten({t})
  /\ UNCHANGED <<settingVars, listLock, threadVars, processVars>>

-----------------------------------------------------------------------------
(* Forks.                                                                  *)

LeftBy(lock) == IF lock = None THEN None ELSE Gone

\* A thread forks, and the child has that thread only: the others of the model are
\* new threads there.  The list still has the states of those that are gone, and
\* their locks are taken for ever.
Fork(t) ==
  /\ forks < MaxForks
  /\ pc[t] = "idle"
  /\ forks' = forks + 1
  /\ child' = t
  /\ tsd' = tsd \cap {t}
  /\ debugLock' = LeftBy(debugLock)
  /\ listLock' = LeftBy(listLock)
  /\ Forgotten(Thread \ {t})
  /\ pc' = [u \in Thread |-> "idle"]
  /\ call' = [u \in Thread |-> NoCall]
  /\ UNCHANGED <<settings, vendorSettings, refused, overtaken, states>>

\* Variant: the key of the thread keeps its state.
ResetOnFork_KeepsKey(t) ==
  /\ pc[t] = "idle" /\ child # None
  /\ NewThreadResets \/ child = t
  /\ states = {} \/ listLock = None
  /\ child' = None
  /\ states' = {}
  /\ listLock' = None
  /\ label' = [u \in Thread |-> None]
  /\ behind' = behind \cup {p \in Supports \X Thread : label[p[2]] # None}
  /\ UNCHANGED <<settingVars, tsd, vendorLabel, threadVars, forks>>

\* __eglCurrentTeardown in the child: it takes the lock for each state that it
\* destroys, before it initializes it.  The vendors are not told that the label of the
\* thread is gone.
ResetOnFork(t) ==
  /\ pc[t] = "idle" /\ child # None
  /\ NewThreadResets \/ child = t
  /\ states = {} \/ listLock = None
  /\ child' = None
  /\ states' = {}
  /\ tsd' = tsd \ {t}
  /\ listLock' = None
  /\ label' = [u \in Thread |-> None]
  /\ behind' = behind \cup {p \in Supports \X Thread : label[p[2]] # None}
  /\ UNCHANGED <<settingVars, vendorLabel, threadVars, forks>>

-----------------------------------------------------------------------------
Step(t) ==
  \/ ReadCallback(t) \/ Report(t)
  \/ SetSettings(t) \/ TellVendor(t) \/ VendorsTold(t)
  \/ LockList(t) \/ AddState(t) \/ SetLabel(t)

Begin(t) ==
  \/ \E type \in Type : Message(t, type)
  \/ \E cb \in Callback \cup {None}, attribute \in AttributeList : ReadEnabled(t, cb, attribute)
  \/ QueryDebug(t)
  \/ \E l \in ThreadLabel \cup {None} : LabelThread(t, l)
  \/ ReleaseThread(t)
  \/ Fork(t) \/ ResetOnFork(t)

Next == \E t \in Thread : Begin(t) \/ Step(t)

Spec == Init /\ [][Next]_vars

-----------------------------------------------------------------------------
(* Properties.                                                             *)

Settings == [callback : Callback \cup {None}, enabled : SUBSET Type]

Label == {"idle", "report", "reported", "control", "tell", "create", "list", "label"}

TypeOK ==
  /\ settings \in Settings /\ (settings.callback = None => settings.enabled = ErrorType)
  /\ debugLock \in Thread \cup {Gone, None}
  /\ vendorSettings \in [Vendor -> Settings]
  /\ refused \subseteq Supports /\ overtaken \in BOOLEAN
  /\ states \subseteq Thread /\ tsd \subseteq Thread
  /\ listLock \in Thread \cup {Gone, None}
  /\ label \in [Thread -> ThreadLabel \cup {None}]
  /\ vendorLabel \in [Vendor -> [Thread -> ThreadLabel \cup {None}]]
  /\ behind \subseteq Supports \X Thread
  /\ pc \in [Thread -> Label]
  /\ call \in [Thread ->
       [callback : Callback \cup {None}, attribute : Attribute, enabled : SUBSET Type,
        pos : 1..(Len(VendorList) + 1), type : Type \cup {None},
        label : ThreadLabel \cup {None}, next : {None, "idle", "label"}]]
  /\ child \in Thread \cup {None}
  /\ forks \in 0..MaxForks

\* libEGL and a vendor call the same callback, for the same types of messages unless
\* the types that libEGL has were computed before another thread's change.
HaveSettings(v) ==
  /\ vendorSettings[v].callback = settings.callback
  /\ overtaken \/ vendorSettings[v].enabled = settings.enabled

\* When nobody changes the settings, libEGL and every vendor that has the extension
\* and has not refused send their messages to the same callback, however the changes
\* of two threads overlap.  They send the same types, too, unless a change was computed
\* from types that another thread replaced before it took the lock; removing the
\* callback mends that (libeglerror.c:64, 103).
VendorsAgree == debugLock = None => \A v \in Supports \ refused : HaveSettings(v)

\* libEGL reports a message with settings that all vendors have, and never with
\* those of a change that is still going on (libeglerror.c:226).
ReportsSettled ==
  [][\A t \in Thread : pc[t] = "report" /\ pc'[t] = "reported" =>
       \A v \in Supports \ refused : HaveSettings(v)]_vars

\* A thread has the same label in libEGL and in the vendors, although the state that
\* has libEGL's comes and goes.  Only a vendor that refused the thread's last label is
\* behind, or one that has heard nothing of it since libEGL dropped it in a child
\* (libeglerror.c:160, libeglcurrent.c:94).
LabelsAgree ==
  \A t \in Thread :
    /\ label[t] # None => t \in tsd
    /\ \A v \in Supports : <<v, t>> \in behind \/ vendorLabel[v][t] = label[t]

\* The state that a thread's key leads to has not been freed, neither by the thread
\* nor by a reset in a child (libeglcurrent.c:94).
StateAlive == tsd \subseteq states

\* A lock belongs to a thread that will give it back, or to none; in a child, to a
\* thread that is gone.  The lock of the list is so only until the reset has made it
\* anew (libeglcurrent.c:86); debugLock stays so.
HolderAlive ==
  /\ debugLock \in Thread => pc[debugLock] = "tell"
  /\ debugLock = Gone => forks > 0
  /\ listLock \in Thread => pc[listLock] = "list"
  /\ listLock = Gone => child # None

-----------------------------------------------------------------------------
(* The inductive invariant of the proofs in EglDebug_proof.                *)

\* Where a thread goes once its state has been created.
CreatesFor == \A t \in Thread : pc[t] \in {"create", "list"} => call[t].next \in {"idle", "label"}

\* The lock of the list: the thread that adds its state has it.
ListInv == \A t \in Thread : pc[t] = "list" => listLock = t

\* A child in which the fork has not been noticed: no thread is in a call, and only
\* the thread that forked can have a state.
ChildInv ==
  child # None => /\ \A t \in Thread : pc[t] = "idle"
                  /\ tsd \subseteq {child}

\* Locks and thread states belong to threads that are alive: at each point of a call
\* the thread has the lock that it will give back, and in a child nothing is left that
\* the reset does not see to (libeglcurrent.c:86, 94).
StateInv ==
  /\ TypeOK /\ CreatesFor /\ ListInv /\ ChildInv
  /\ HolderAlive /\ StateAlive

===============================================================================

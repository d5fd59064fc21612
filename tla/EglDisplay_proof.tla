-------------------------- MODULE EglDisplay_proof --------------------------
(***************************************************************************)
(* Theorems about EglDisplay, for any threads, vendors, displays, devices  *)
(* and functions, and any numbers of failures and forks.  ListInv is       *)
(* inductive without any assumption.  On top of it, so are HandlesKnown    *)
(* and ErrorTellsWhy; AddressesWork, when a process does not fork while    *)
(* another thread tells the vendors an index; and HolderAlive, when it     *)
(* does not fork while another thread holds a lock that the child does not *)
(* make anew.                                                              *)
(***************************************************************************)
EXTENDS EglDisplay, FiniteSetTheorems, WellFoundedInduction, TLAPS

-----------------------------------------------------------------------------
(* Sequences.                                                              *)

\* The least element of a set of natural numbers is one of them.
LEMMA MinIsElement ==
  ASSUME NEW S \in SUBSET Nat, S # {}
  PROVE  Min(S) \in S
<1> DEFINE R == {p \in Nat \X Nat : p[1] < p[2]}
<1>1. IsWellFoundedOn(R, Nat)
  BY NatLessThanWellFounded, Zenon DEF OpToRel
<1>2. \A k, m \in Nat : k < m => <<k, m>> \in R
  OBVIOUS
<1> HIDE DEF R
<1>3. PICK m \in S : \A k \in S : ~(<<k, m>> \in R)
  BY <1>1, WFMin, Zenon
<1>4. ASSUME NEW k \in S PROVE m =< k
  <2>1. ~(k < m)
    BY <1>2, <1>3
  <2> QED
    BY <2>1
<1> QED
  BY <1>4 DEF Min

\* The stub that is found for a name is that of a vendor in the list which has one.
LEMMA StubFound ==
  ASSUME vendorList \in Seq(Vendor), NEW n \in Name
  PROVE  /\ FirstStub(n) \in Nat
         /\ FirstStub(n) > 0 => /\ FirstStub(n) \in DOMAIN vendorList
                               /\ vendorList[FirstStub(n)] \in Vendor
                               /\ vendorList[FirstStub(n)] \in Loaded
<1> DEFINE I == {i \in 1..Len(vendorList) : vendorList[i] \in Provided[n]}
<1>1. I \in SUBSET Nat
  OBVIOUS
<1>2. I # {} => Min(I) \in I
  BY <1>1, MinIsElement
<1>3. FirstStub(n) = IF I # {} THEN Min(I) ELSE 0
  BY DEF FirstStub, SelectInSeq
<1>4. \A i \in I : i \in DOMAIN vendorList /\ i \in Nat /\ i > 0
  OBVIOUS
<1>5. \A i \in DOMAIN vendorList : vendorList[i] \in Vendor /\ vendorList[i] \in Loaded
  BY DEF Loaded, ToSet
<1> HIDE DEF I
<1> QED
  BY <1>2, <1>3, <1>4, <1>5

LEMMA ListedVendors ==
  ASSUME vendorList \in Seq(Vendor)
  PROVE  /\ Len(vendorList) \in Nat /\ DOMAIN vendorList = 1..Len(vendorList)
         /\ \A i \in DOMAIN vendorList : vendorList[i] \in Vendor /\ vendorList[i] \in Loaded
         /\ \A v \in Loaded : v \in Vendor /\ \E i \in DOMAIN vendorList : vendorList[i] = v
BY DEF Loaded, ToSet

\* A vendor that is not in the list is added to it.
LEMMA ListGrows ==
  ASSUME vendorList \in Seq(Vendor), IsInjective(vendorList), NEW v \in Vendor, v \notin Loaded,
         vendorList' = Append(vendorList, v)
  PROVE  vendorList' \in Seq(Vendor) /\ IsInjective(vendorList')
<1>1. /\ vendorList' \in Seq(Vendor)
      /\ \A i \in DOMAIN vendorList : vendorList'[i] = vendorList[i] /\ vendorList[i] # v
      /\ \A i \in DOMAIN vendorList' : i \in DOMAIN vendorList \/ i = Len(vendorList) + 1
      /\ vendorList'[Len(vendorList) + 1] = v
  BY DEF Loaded, ToSet
<1> QED
  BY <1>1 DEF IsInjective

-----------------------------------------------------------------------------
(* What a thread is at.                                                    *)

\* What TypeOK says of the data.
DataOK ==
  /\ files \in ConfigFiles
  /\ once \in {"no", "loading", "done"}
  /\ vendorList \in Seq(Vendor)
  /\ told \in [Vendor -> SUBSET Name]
  /\ index \in [Name -> Vendor \cup {None}]
  /\ indexLock \in Thread \cup {None}
  /\ cache \in [Name -> Vendor \cup {None}]
  /\ found \in SUBSET (Vendor \X Name)
  /\ displays \in [Handle -> Vendor \cup {None}]
  /\ devices \in [Device -> Vendor \cup {None}]
  /\ extensions \in (SUBSET Vendor) \cup {None}
  /\ stringLock \in Thread \cup {None}
  /\ child \in BOOLEAN
  /\ given \subseteq Platform \X Native \X Handle \X Vendor
  /\ seen \subseteq Device
  /\ failures \in 0..MaxFailures
  /\ forks \in 0..MaxForks

ThreadOK == pc \in [Thread -> Label] /\ call \in [Thread -> CallType]

LEMMA TypeParts == TypeOK <=> DataOK /\ ThreadOK
BY DEF TypeOK, DataOK, ThreadOK

CallsOK == ThreadOK /\ \A t \in Thread : CallOK(pc[t], call[t])

LEMMA CallFields ==
  ASSUME NEW c \in CallType
  PROVE  /\ c.platform \in Platform \cup {None} /\ c.native \in Native \cup {None}
         /\ c.handle \in Handle \cup {None} /\ c.vendor \in Vendor \cup {None}
         /\ c.name \in Name \cup {None} /\ c.max \in Nat /\ c.pos \in Nat
         /\ c.next \in Label \cup {None} /\ c.said \subseteq {"success", "error"}
         /\ c.error \in Error
BY DEF CallType

LEMMA NoCallTyped == NoCall \in CallType /\ CallOK("idle", NoCall)
BY DEF CallType, NoCall, CallOK, Doing, Error

\* A move of a thread is one to a place and a call that fit.
Move(t, l, c) == l \in Label /\ c \in CallType /\ CallOK(l, c) /\ Goto(t, l, c)

LEMMA Moved ==
  ASSUME CallsOK, NEW t \in Thread, NEW l, NEW c, Move(t, l, c)
  PROVE  /\ CallsOK' /\ pc'[t] = l /\ call'[t] = c
         /\ \A u \in Thread \ {t} : pc'[u] = pc[u] /\ call'[u] = call[u]
BY DEF CallsOK, ThreadOK, Move, Goto

LEMMA Returns ==
  ASSUME NEW t \in Thread, Return(t)
  PROVE  Move(t, "idle", NoCall)
BY NoCallTyped DEF Return, Move, Label

\* What a function leaves of a call when it is about to return.
Finished(c, e) == [NoCall EXCEPT !.op = c.op, !.handle = c.handle, !.vendor = c.vendor,
                                 !.name = c.name, !.said = c.said, !.error = e]

LEMMA Finishes ==
  ASSUME NEW t \in Thread, NEW c \in CallType, NEW e \in Error, Finish(t, c, e)
  PROVE  /\ Move(t, "done", Finished(c, e))
         /\ Finished(c, e).op = c.op /\ Finished(c, e).handle = c.handle
         /\ Finished(c, e).vendor = c.vendor /\ Finished(c, e).name = c.name
         /\ Finished(c, e).said = c.said /\ Finished(c, e).error = e
<1>1. Goto(t, "done", Finished(c, e))
  BY DEF Finish, Finished
<1>2. Finished(c, e) \in CallType
  BY DEF Finished, NoCall, CallType
<1>3. CallOK("done", Finished(c, e))
  BY DEF CallOK, Doing
<1>4. /\ Finished(c, e).op = c.op /\ Finished(c, e).handle = c.handle
      /\ Finished(c, e).vendor = c.vendor /\ Finished(c, e).name = c.name
      /\ Finished(c, e).said = c.said /\ Finished(c, e).error = e
  BY DEF Finished, NoCall
<1> QED
  BY <1>1, <1>2, <1>3, <1>4 DEF Move, Label

\* __eglLoadVendors is called.
Nexts == {"guess", "platform", "devices", "index", "string"}

LEMMA FinishedSo ==
  ASSUME NEW t \in Thread, NEW c \in CallType, NEW e \in Error, Finish(t, c, e)
  PROVE  \E f : /\ Move(t, "done", f) /\ f.op = c.op /\ f.handle = c.handle
                /\ f.vendor = c.vendor /\ f.error = e /\ f.said = c.said
BY Finishes

LEMMA FinishedCall ==
  ASSUME CallsOK, NEW t \in Thread, NEW c \in CallType, NEW e \in Error, Finish(t, c, e)
  PROVE  /\ pc'[t] = "done" /\ call'[t].op = c.op /\ call'[t].handle = c.handle
         /\ call'[t].vendor = c.vendor /\ call'[t].name = c.name /\ call'[t].error = e
         /\ call'[t].said = c.said
<1>1. PICK f : /\ Move(t, "done", f) /\ f.op = c.op /\ f.handle = c.handle
               /\ f.vendor = c.vendor /\ f.name = c.name /\ f.error = e /\ f.said = c.said
  BY Finishes
<1>2. pc'[t] = "done" /\ call'[t] = f
  BY <1>1, Moved
<1> QED
  BY <1>1, <1>2

\* What later proofs need of a move: the move itself, and from where threads come.
Place(t, l, c) ==
  /\ l \notin {"idle", "load", "file", "done", "fetch", "call"} => once' = "done"
  /\ l = "file" => once' = "loading" /\ (pc[t] = "file" \/ once = "no")
  /\ l \in {"scan", "add"} => pc[t] \in {"platform", "scan"}
  /\ l \in {"stub", "tell", "cache"} => pc[t] \in {"index", "stub", "tell"}
  /\ l = "merge" => pc[t] = "string"
  /\ l = "fetch" => pc[t] = "idle"
  /\ l = "done" /\ c.op = "display" => pc[t] \in {"idle", "guess", "platform", "scan", "add"}
  /\ l = "done" /\ c.op = "call" => pc[t] \in {"idle", "fetch", "call"}

Moves(t) == \E l, c : Move(t, l, c) /\ Place(t, l, c)

LEMMA ReturnMoves ==
  ASSUME NEW t \in Thread, Return(t)
  PROVE  Moves(t)
BY Returns DEF Moves, Place

LEMMA FinishMoves ==
  ASSUME NEW t \in Thread, NEW c \in CallType, NEW e \in Error, Finish(t, c, e),
         c.op = "display" => pc[t] \in {"idle", "guess", "platform", "scan", "add"},
         c.op = "call" => pc[t] \in {"idle", "fetch", "call"}
  PROVE  Moves(t)
<1>1. Place(t, "done", Finished(c, e))
  BY Finishes DEF Place
<1> QED
  BY <1>1, Finishes DEF Moves

LEMMA LoadMoves ==
  ASSUME NEW t \in Thread, NEW next \in Nexts, NEW c \in CallType, CallOK(next, c), c.pos = 1,
         Load(t, next, c), once' = once
  PROVE  Moves(t)
<1>1. next \in Label /\ next \notin {"load", "file"}
  BY DEF Nexts, Label
<1> PICK d : d = [c EXCEPT !.next = next]
  OBVIOUS
<1>2. /\ d \in CallType /\ d.next = next /\ d.pos = c.pos /\ d.op = c.op /\ d.native = c.native
      /\ d.platform = c.platform /\ d.handle = c.handle /\ d.vendor = c.vendor
      /\ d.error = c.error /\ d.said = c.said /\ d.name = c.name
  BY <1>1 DEF CallType
<1>3. CallOK("load", d)
  BY <1>1, <1>2 DEF CallOK, Doing, Nexts
<1>4. (once = "done" => Place(t, next, c)) /\ Place(t, "load", d)
  BY DEF Place, Nexts
<1>5. CASE once = "done"
  BY <1>1, <1>4, <1>5 DEF Load, Move, Moves
<1>6. CASE once # "done"
  BY <1>2, <1>3, <1>4, <1>6 DEF Load, Move, Moves, Label
<1> QED
  BY <1>5, <1>6

\* The functions that are called.
LEMMA GetPlatformDisplayMoves ==
  ASSUME NEW t \in Thread, NEW p \in Platform, NEW n \in Native,
         GetPlatformDisplay(t, p, n)
  PROVE  Moves(t)
<1> PICK c : c = [NoCall EXCEPT !.op = "display", !.platform = p, !.native = n]
  OBVIOUS
<1>0. /\ c \in CallType /\ c.op = "display" /\ c.pos = 1 /\ c.platform = p /\ c.native = n
      /\ c.handle = None /\ c.vendor = None /\ c.error = "success" /\ c.said = {}
  BY DEF NoCall, CallType, Error
<1>1. CallOK("platform", c)
  BY <1>0, ConstantsAssumption DEF CallOK, Doing, Platform
<1>2. /\ pc[t] = "idle" /\ once' = once
      /\ Finish(t, c, "parameter") \/ Load(t, "platform", c) \/ Finish(t, c, "alloc")
  BY DEF GetPlatformDisplay, Start, vendorVars
<1> QED
  BY <1>0, <1>1, <1>2, LoadMoves, FinishMoves DEF Nexts, Error

LEMMA GetDisplayMoves ==
  ASSUME NEW t \in Thread, NEW n \in Native, GetDisplay(t, n)
  PROVE  Moves(t)
<1> PICK c : c = [NoCall EXCEPT !.op = "display", !.native = n]
  OBVIOUS
<1> PICK d : d = [c EXCEPT !.platform = "none"]
  OBVIOUS
<1>0. /\ c \in CallType /\ c.op = "display" /\ c.pos = 1 /\ c.native = n
      /\ c.handle = None /\ c.vendor = None /\ c.error = "success" /\ c.said = {}
  BY DEF NoCall, CallType, Error
<1>3. /\ d \in CallType /\ d.op = "display" /\ d.pos = 1 /\ d.native = n /\ d.platform = "none"
      /\ d.handle = None /\ d.vendor = None /\ d.error = "success" /\ d.said = {}
  BY <1>0 DEF CallType, Platform
<1>1. n # None /\ None # "none"
  BY ConstantsAssumption DEF Platform
<1>4. CallOK("guess", c) /\ CallOK("platform", d)
  BY <1>0, <1>1, <1>3 DEF CallOK, Doing
<1>2. once' = once /\ (Load(t, "platform", d) \/ Load(t, "guess", c))
  BY DEF GetDisplay, vendorVars
<1> QED
  BY <1>0, <1>3, <1>4, <1>2, LoadMoves DEF Nexts

LEMMA QueryDevicesMoves ==
  ASSUME NEW t \in Thread, NEW max \in Nat, QueryDevices(t, max)
  PROVE  Moves(t)
<1> PICK c : c = [NoCall EXCEPT !.op = "devices", !.max = max]
  OBVIOUS
<1>0. c \in CallType /\ c.pos = 1
  BY DEF NoCall, CallType, Error
<1>1. CallOK("devices", c)
  BY <1>0 DEF CallOK, Doing
<1>2. once' = once /\ Load(t, "devices", c)
  BY DEF QueryDevices, vendorVars
<1> QED
  BY <1>0, <1>1, <1>2, LoadMoves DEF Nexts

LEMMA QueryStringMoves ==
  ASSUME NEW t \in Thread, QueryString(t)
  PROVE  Moves(t)
<1> PICK c : c = [NoCall EXCEPT !.op = "string"]
  OBVIOUS
<1>1. c \in CallType /\ c.pos = 1 /\ CallOK("string", c)
  BY DEF NoCall, CallType, CallOK, Doing, Error
<1>2. once' = once /\ Load(t, "string", c)
  BY DEF QueryString, vendorVars
<1> QED
  BY <1>1, <1>2, LoadMoves DEF Nexts

LEMMA GetProcAddressMoves ==
  ASSUME NEW t \in Thread, NEW n \in Name, GetProcAddress(t, n)
  PROVE  Moves(t)
<1> PICK c : c = [NoCall EXCEPT !.op = "address", !.name = n]
  OBVIOUS
<1>1. c \in CallType /\ c.pos = 1 /\ CallOK("index", c)
  BY ConstantsAssumption DEF NoCall, CallType, CallOK, Doing, Error
<1>2. once' = once /\ (Load(t, "index", c) \/ Return(t))
  BY DEF GetProcAddress, vendorVars
<1> QED
  BY <1>1, <1>2, LoadMoves, ReturnMoves DEF Nexts

LEMMA CallFunctionMoves ==
  ASSUME DataOK, NEW t \in Thread, NEW n \in Name, NEW h \in Handle,
         CallFunction(t, n, h)
  PROVE  Moves(t)
<1> PICK c : c = [NoCall EXCEPT !.op = "call", !.name = n, !.handle = h, !.vendor = displays[h]]
  OBVIOUS
<1>1. /\ c \in CallType /\ c.op = "call"
      /\ displays[h] # None => CallOK("fetch", c) /\ CallOK("call", c)
  BY ConstantsAssumption DEF DataOK, NoCall, CallType, CallOK, Doing, Error
<1>2. /\ pc[t] = "idle"
      /\ \/ Finish(t, c, "display")
         \/ displays[h] # None /\ \E l \in {"fetch", "call"} : Goto(t, l, c)
  BY DEF CallFunction, Start
<1>3. ASSUME NEW l \in {"fetch", "call"}, displays[h] # None, Goto(t, l, c)
      PROVE  Moves(t)
  BY <1>1, <1>2, <1>3 DEF Moves, Move, Place, Label
<1> QED
  BY <1>1, <1>2, <1>3, FinishMoves DEF Error

-----------------------------------------------------------------------------
\* The vendors are loaded.
LEMMA VendorMoves ==
  ASSUME ListInv, NEW t \in Thread,
         WaitForVendors(t) \/ LoadVendors(t) \/ LoadVendorFromConfigFile(t) \/ VendorsLoaded(t)
  PROVE  Moves(t)
<1>0. /\ call[t] \in CallType /\ CallOK(pc[t], call[t]) /\ (pc[t] = "file" => once = "loading")
  BY DEF ListInv, TypeOK, LoadingOK
<1>1. CASE WaitForVendors(t)
  <2> PICK c : c = [call[t] EXCEPT !.next = None]
    OBVIOUS
  <2>1. /\ c \in CallType /\ c.pos = call[t].pos /\ c.op = call[t].op /\ c.native = call[t].native
        /\ c.platform = call[t].platform /\ c.handle = call[t].handle
        /\ c.vendor = call[t].vendor /\ c.error = call[t].error /\ c.said = call[t].said
        /\ c.name = call[t].name
    BY <1>0 DEF CallType
  <2>2. /\ pc[t] = "load" /\ once' = "done" /\ call[t].next \in Nexts /\ Goto(t, call[t].next, c)
    BY <1>0, <1>1 DEF WaitForVendors, vendorVars, CallOK, Nexts
  <2>3. CallOK(call[t].next, c)
    BY <1>0, <2>1, <2>2 DEF CallOK, Doing, Nexts
  <2>4. Move(t, call[t].next, c) /\ Place(t, call[t].next, c)
    BY <2>1, <2>2, <2>3 DEF Move, Place, Nexts, Label
  <2> QED
    BY <2>4 DEF Moves
<1>2. CASE LoadVendors(t)
  <2>1. pc[t] = "load" /\ once = "no" /\ once' = "loading" /\ Goto(t, "file", call[t])
    BY <1>2 DEF LoadVendors
  <2>2. CallOK("file", call[t])
    BY <1>0, <2>1 DEF CallOK, Doing
  <2>3. Move(t, "file", call[t]) /\ Place(t, "file", call[t])
    BY <1>0, <2>1, <2>2 DEF Move, Place, Label
  <2> QED
    BY <2>3 DEF Moves
<1>3. CASE LoadVendorFromConfigFile(t)
  <2> PICK c : c = [call[t] EXCEPT !.pos = call[t].pos + 1]
    OBVIOUS
  <2>1. /\ c \in CallType /\ c.pos = call[t].pos + 1 /\ c.op = call[t].op
        /\ c.native = call[t].native /\ c.next = call[t].next
        /\ c.platform = call[t].platform /\ c.handle = call[t].handle
        /\ c.vendor = call[t].vendor /\ c.error = call[t].error /\ c.said = call[t].said
        /\ c.name = call[t].name /\ call[t].pos \in Nat
    BY <1>0 DEF CallType
  <2>2. pc[t] = "file" /\ once' = once /\ Goto(t, "file", c)
    BY <1>3 DEF LoadVendorFromConfigFile
  <2>3. CallOK("file", c)
    BY <1>0, <2>1, <2>2 DEF CallOK, Doing
  <2>4. Move(t, "file", c) /\ Place(t, "file", c)
    BY <1>0, <2>1, <2>2, <2>3 DEF Move, Place, Label
  <2> QED
    BY <2>4 DEF Moves
<1>4. CASE VendorsLoaded(t)
  <2> PICK c : c = [call[t] EXCEPT !.pos = 1, !.next = None]
    OBVIOUS
  <2>1. /\ c \in CallType /\ c.pos = 1 /\ c.op = call[t].op /\ c.native = call[t].native
        /\ c.platform = call[t].platform /\ c.handle = call[t].handle
        /\ c.vendor = call[t].vendor /\ c.error = call[t].error /\ c.said = call[t].said
        /\ c.name = call[t].name
    BY <1>0 DEF CallType
  <2>2. pc[t] = "file" /\ once' = "done" /\ call[t].next \in Nexts /\ Goto(t, call[t].next, c)
    BY <1>0, <1>4 DEF VendorsLoaded, CallOK, Nexts
  <2>3. CallOK(call[t].next, c)
    BY <1>0, <2>1, <2>2 DEF CallOK, Doing, Nexts
  <2>4. Move(t, call[t].next, c) /\ Place(t, call[t].next, c)
    BY <2>1, <2>2, <2>3 DEF Move, Place, Nexts, Label
  <2> QED
    BY <2>4 DEF Moves
<1> QED
  BY <1>1, <1>2, <1>3, <1>4

-----------------------------------------------------------------------------
\* A display is looked for.
LEMMA ThreadFacts ==
  ASSUME ListInv, NEW t \in Thread
  PROVE  /\ DataOK /\ CallsOK /\ call[t] \in CallType /\ CallOK(pc[t], call[t])
         /\ pc[t] \notin {"idle", "load", "file", "done", "fetch", "call"} => once = "done"
         /\ pc[t] # "idle" => ~child
BY TypeParts DEF ListInv, ListComplete, LoadingOK, CallsOK, ThreadOK

LEMMA GuessPlatformTypeMoves ==
  ASSUME ListInv, NEW t \in Thread, GuessPlatformType(t)
  PROVE  Moves(t)
<1>1. /\ call[t] \in CallType /\ CallOK("guess", call[t]) /\ pc[t] = "guess"
      /\ once = "done" /\ once' = once
  <2>1. pc[t] = "guess" /\ UNCHANGED vendorVars
    BY Zenon DEF GuessPlatformType
  <2> QED
    BY <2>1, ThreadFacts DEF vendorVars
<1>2. call[t].op = "display" /\ call[t].native \in Native
  BY <1>1, CallFields DEF CallOK, Doing
<1>3. ASSUME Finish(t, [call[t] EXCEPT !.said = {"success"}], "success")
      PROVE  Moves(t)
  <2> PICK c : c = [call[t] EXCEPT !.said = {"success"}]
    OBVIOUS
  <2>1. c \in CallType /\ c.op = "display"
    BY <1>1, <1>2 DEF CallType
  <2> QED
    BY <1>1, <1>3, <2>1, FinishMoves DEF Error
<1>4. ASSUME NEW p \in Platform, Goto(t, "platform", [call[t] EXCEPT !.platform = p])
      PROVE  Moves(t)
  <2> PICK c : c = [call[t] EXCEPT !.platform = p]
    OBVIOUS
  <2>1. /\ c \in CallType /\ c.op = "display" /\ c.pos = call[t].pos /\ c.platform = p
        /\ c.native = call[t].native /\ c.handle = call[t].handle /\ c.vendor = call[t].vendor
        /\ c.error = call[t].error /\ c.said = call[t].said
    BY <1>1, <1>2 DEF CallType
  <2>2. CallOK("platform", c)
    BY <1>1, <2>1, ConstantsAssumption DEF CallOK, Doing
  <2>3. Move(t, "platform", c) /\ Place(t, "platform", c)
    BY <1>1, <1>4, <2>1, <2>2 DEF Move, Place, Label
  <2> QED
    BY <2>3 DEF Moves
<1>5. Recognised[call[t].native] \in Platform \cup {None} /\ "device" \in Platform
  BY <1>2, ConstantsAssumption DEF Platform
<1>6. \/ Finish(t, [call[t] EXCEPT !.said = {"success"}], "success")
      \/ \E p \in Platform : Goto(t, "platform", [call[t] EXCEPT !.platform = p])
  <2> DEFINE n == call[t].native
             p == IF n \in Device /\ devices[n] # None THEN "device"
                  ELSE IF \E v \in Loaded, m \in Native :
                            Recognised[n] # None /\ Supported[<<v, Recognised[n], m>>] # None
                       THEN Recognised[n] ELSE None
  <2>1. p \in Platform \cup {None}
    BY <1>5
  <2>2. IF p = None THEN Finish(t, [call[t] EXCEPT !.said = {"success"}], "success")
        ELSE Goto(t, "platform", [call[t] EXCEPT !.platform = p])
    BY Zenon DEF GuessPlatformType
  <2> HIDE DEF p
  <2> QED
    BY <2>1, <2>2
<1> QED
  BY <1>3, <1>4, <1>6

\* How the search for a display goes on: it fails, or a vendor has it, or the vendors
\* are asked in turn.
Refused(t) ==
  \E c : /\ Move(t, "done", c) /\ c.op = "display" /\ c.handle = None
         /\ c.error \notin {"success", "vendor's"}

DeviceFound(t) ==
  \E c : /\ Move(t, "add", c) /\ ByDevice(c.platform, c.native) /\ c.native \in Device
         /\ c.vendor = devices[c.native] /\ c.handle = Supported[<<c.vendor, c.platform, c.native>>]

LEMMA AnsweredType ==
  ASSUME NEW c \in CallType, NEW h \in Handle
  PROVE  [c EXCEPT !.handle = h, !.error = "ask"] \in CallType
<1>1. "ask" \in Error
  BY DEF Error
<1> QED
  BY <1>1 DEF CallType

LEMMA FindPlatformCases ==
  ASSUME ListInv, NEW t \in Thread, FindPlatform(t)
  PROVE  \/ Refused(t)
         \/ DeviceFound(t)
         \/ /\ Move(t, "scan", call[t]) /\ vendorList # <<>>
            /\ ~ByDevice(call[t].platform, call[t].native)
<1> DEFINE n == call[t].native
           v == IF n \in Device THEN devices[n] ELSE None
<1>1. /\ call[t] \in CallType /\ CallOK("platform", call[t]) /\ pc[t] = "platform" /\ DataOK
  <2>1. pc[t] = "platform"
    BY Zenon DEF FindPlatform
  <2> QED
    BY <2>1, ThreadFacts
<1>2. /\ call[t].op = "display" /\ n \in Native /\ call[t].platform \in Platform
      /\ call[t].handle = None /\ call[t].pos = 1
  BY <1>1, CallFields DEF CallOK, Doing
<1> PICK c : c = [call[t] EXCEPT !.vendor = v]
  OBVIOUS
<1>3. v \in Vendor \cup {None}
  BY <1>1 DEF DataOK
<1> HIDE DEF v
<1>4. /\ c \in CallType /\ c.op = "display" /\ c.vendor = v /\ c.handle = None
      /\ c.platform = call[t].platform /\ c.native = n /\ c.pos = 1 /\ c.said = call[t].said
  BY <1>1, <1>2, <1>3 DEF CallType
<1>5. ASSUME NEW e \in {"parameter", "ask"}, NEW d \in {c, call[t]}, Finish(t, d, e)
      PROVE  Refused(t)
  <2>1. d \in CallType /\ d.op = "display" /\ d.handle = None /\ e \in Error
    BY <1>1, <1>2, <1>4 DEF Error
  <2> PICK f : f = Finished(d, e)
    OBVIOUS
  <2>2. Move(t, "done", f) /\ f.op = d.op /\ f.handle = d.handle /\ f.error = e
    BY <1>5, <2>1, Finishes
  <2> QED
    BY <2>1, <2>2 DEF Refused
<1> DEFINE h == Supported[<<v, "device", n>>]
<1>6. \/ vendorList = <<>> /\ Finish(t, call[t], "parameter")
      \/ /\ vendorList # <<>> /\ ByDevice(c.platform, n)
         /\ \/ Finish(t, c, "parameter") \/ Finish(t, c, "ask")
            \/ v # None /\ h # None /\ Goto(t, "add", [c EXCEPT !.handle = h, !.error = "ask"])
      \/ vendorList # <<>> /\ ~ByDevice(c.platform, n) /\ Goto(t, "scan", call[t])
  BY <1>4 DEF FindPlatform, ByDevice, v
<1> HIDE DEF h
<1>7. ASSUME ByDevice(c.platform, n), v # None, h # None,
             Goto(t, "add", [c EXCEPT !.handle = h, !.error = "ask"])
      PROVE  DeviceFound(t)
  <2>1. n \in Device /\ v = devices[n] /\ v \in Vendor
    BY <1>7, <1>3 DEF v
  <2>2. h \in Handle
    BY <1>2, <1>7, <2>1, ConstantsAssumption DEF Platform, h
  <2> PICK d : d = [c EXCEPT !.handle = h, !.error = "ask"]
    OBVIOUS
  <2>3. c.platform = "device"
    BY <1>7 DEF ByDevice
  <2>6. d.platform = "device" /\ d.native = n /\ d.vendor = v /\ d.op = "display" /\ d.handle = h
    BY <1>4, <2>3 DEF CallType
  <2>7. d \in CallType
    BY <1>4, <2>2, AnsweredType, Zenon
  <2>4. CallOK("add", d)
    BY <1>2, <1>7, <2>1, <2>2, <2>6, ConstantsAssumption DEF CallOK, Doing, Platform
  <2>5. Move(t, "add", d)
    BY <1>7, <2>4, <2>7 DEF Move, Label
  <2>8. ByDevice(d.platform, d.native) /\ d.handle = Supported[<<d.vendor, d.platform, d.native>>]
    BY <1>7, <2>3, <2>6 DEF h
  <2> QED
    BY <2>1, <2>5, <2>6, <2>8 DEF DeviceFound
<1>8. ASSUME Goto(t, "scan", call[t])
      PROVE  Move(t, "scan", call[t])
  BY <1>1, <1>2, <1>8 DEF Move, Label, CallOK, Doing
<1> QED
  BY <1>4, <1>5, <1>6, <1>7, <1>8

DisplayFound(t) ==
  \E c : /\ Move(t, "add", c)
         /\ c.platform = call[t].platform /\ c.native = call[t].native
         /\ c.vendor = vendorList[call[t].pos]
         /\ c.handle = Supported[<<c.vendor, c.platform, c.native>>]

NextAsked(t) ==
  \E c : /\ Move(t, "scan", c)
         /\ c.platform = call[t].platform /\ c.native = call[t].native
         /\ Supported[<<vendorList[call[t].pos], c.platform, c.native>>] = None
         /\ c.pos = call[t].pos + 1 /\ c.said # {}

LEMMA AskVendorCases ==
  ASSUME ListInv, NEW t \in Thread, AskVendor(t)
  PROVE  /\ pc[t] = "scan" /\ call[t].pos \in DOMAIN vendorList
         /\ DisplayFound(t) \/ NextAsked(t)
<1> DEFINE k == call[t].pos
           v == vendorList[k]
           h == Supported[<<v, call[t].platform, call[t].native>>]
<1>1. /\ call[t] \in CallType /\ CallOK("scan", call[t]) /\ pc[t] = "scan" /\ DataOK
  <2>1. pc[t] = "scan"
    BY Zenon DEF AskVendor
  <2> QED
    BY <2>1, ThreadFacts
<1>2. /\ call[t].op = "display" /\ call[t].native \in Native /\ call[t].platform \in Platform
      /\ k \in Nat /\ k > 0 /\ k <= Len(vendorList) /\ call[t].said \subseteq {"success", "error"}
  BY <1>1, CallFields DEF CallOK, Doing, AskVendor
<1>3. k \in DOMAIN vendorList /\ v \in Vendor
  BY <1>1, <1>2, ListedVendors DEF DataOK
<1> PICK c : c = [call[t] EXCEPT !.pos = call[t].pos + 1]
  OBVIOUS
<1>4. /\ c \in CallType /\ c.op = "display" /\ c.vendor = call[t].vendor /\ c.handle = call[t].handle
      /\ c.platform = call[t].platform /\ c.native = call[t].native /\ c.pos = k + 1
      /\ c.said = call[t].said /\ c.error = call[t].error
  BY <1>1, <1>2 DEF CallType
<1>5. IF h # None THEN Goto(t, "add", [c EXCEPT !.handle = h, !.vendor = v])
      ELSE \E e \in {"success", "error"} :
             Goto(t, "scan", [c EXCEPT !.said = call[t].said \cup {e}])
  BY DEF AskVendor
<1>6. h \in Handle \cup {None}
  BY <1>2, <1>3, ConstantsAssumption
<1> HIDE DEF h
<1>7. CASE h # None
  <2> PICK d : d = [c EXCEPT !.handle = h, !.vendor = v]
    OBVIOUS
  <2>1. /\ d \in CallType /\ d.handle = h /\ d.vendor = v /\ d.op = "display"
        /\ d.native = call[t].native /\ d.platform = call[t].platform
    BY <1>3, <1>4, <1>6, <1>7 DEF CallType
  <2>2. CallOK("add", d)
    BY <1>2, <1>3, <1>7, <2>1, ConstantsAssumption DEF CallOK, Doing
  <2>3. Move(t, "add", d)
    BY <1>5, <1>7, <2>1, <2>2 DEF Move, Label
  <2> QED
    BY <1>1, <1>3, <2>1, <2>3 DEF DisplayFound, h
<1>8. CASE h = None
  <2>1. PICK e \in {"success", "error"} :
          Goto(t, "scan", [c EXCEPT !.said = call[t].said \cup {e}])
    BY <1>5, <1>8
  <2> PICK d : d = [c EXCEPT !.said = call[t].said \cup {e}]
    OBVIOUS
  <2>2. /\ d \in CallType /\ d.handle = call[t].handle /\ d.vendor = call[t].vendor
        /\ d.op = "display" /\ d.native = call[t].native /\ d.platform = call[t].platform
        /\ d.pos = k + 1 /\ d.error = call[t].error /\ d.said # {}
    BY <1>2, <1>4 DEF CallType
  <2>3. CallOK("scan", d)
    BY <1>1, <1>2, <2>2 DEF CallOK, Doing
  <2>4. Move(t, "scan", d)
    BY <2>1, <2>2, <2>3 DEF Move, Label
  <2> QED
    BY <1>1, <1>3, <1>8, <2>2, <2>4 DEF NextAsked, h
<1> QED
  BY <1>7, <1>8

LEMMA DisplayMoves ==
  ASSUME ListInv, NEW t \in Thread,
         FindPlatform(t) \/ AskVendor(t) \/ NoVendorHasDisplay(t)
  PROVE  Moves(t)
<1>1. CASE FindPlatform(t)
  <2>1. pc[t] = "platform" /\ UNCHANGED vendorVars
    BY <1>1, Zenon DEF FindPlatform
  <2>2. once' = "done"
    BY <2>1, ThreadFacts DEF vendorVars
  <2>3. Place(t, "scan", call[t])
    BY <2>1, <2>2 DEF Place
  <2>4. ASSUME NEW c
        PROVE  Place(t, "add", c) /\ (c.op = "display" => Place(t, "done", c))
    BY <2>1, <2>2 DEF Place
  <2> QED
    BY <1>1, <2>3, <2>4, FindPlatformCases, Zenon DEF Refused, DeviceFound, Moves
<1>2. CASE AskVendor(t)
  <2>1. pc[t] = "scan" /\ UNCHANGED vendorVars
    BY <1>2, Zenon DEF AskVendor
  <2>2. once' = "done"
    BY <2>1, ThreadFacts DEF vendorVars
  <2>3. \A c : Place(t, "add", c) /\ Place(t, "scan", c)
    BY <2>1, <2>2 DEF Place
  <2> QED
    BY <1>2, <2>3, AskVendorCases, Zenon DEF DisplayFound, NextAsked, Moves
<1>3. CASE NoVendorHasDisplay(t)
  <2>1. /\ pc[t] = "scan" /\ Finish(t, call[t], NoDisplay(call[t]))
        /\ call[t] \in CallType /\ CallOK("scan", call[t])
    BY <1>3, ThreadFacts DEF NoVendorHasDisplay
  <2>2. NoDisplay(call[t]) \in Error /\ call[t].op = "display"
    BY <2>1 DEF NoDisplay, Error, CallOK, Doing
  <2> QED
    BY <2>1, <2>2, FinishMoves
<1> QED
  BY <1>1, <1>2, <1>3

\* A call that ends with a display, and one that has lost it.
Recorded(t) ==
  \E c : /\ Move(t, "done", c) /\ c.op = "display" /\ c.handle = call[t].handle
         /\ c.vendor = call[t].vendor /\ c.error = "success"

Lost(t) ==
  \E c : /\ Move(t, "done", c) /\ c.op = "display" /\ c.handle = None /\ c.vendor # None
         /\ c.error = "vendor's" => c.said = {"error"}

LEMMA LostSo ==
  ASSUME NEW t \in Thread, NEW c \in CallType, NEW e \in Error, Finish(t, c, e),
         c.op = "display", c.handle = None, c.vendor # None, e = "vendor's" => c.said = {"error"}
  PROVE  Lost(t)
<1>1. PICK f : /\ Move(t, "done", f) /\ f.op = c.op /\ f.handle = c.handle
               /\ f.vendor = c.vendor /\ f.error = e /\ f.said = c.said
  BY FinishedSo, Zenon
<1> QED
  BY <1>1 DEF Lost

LEMMA RecordDisplayCases ==
  ASSUME ListInv, NEW t \in Thread, RecordDisplay(t)
  PROVE  /\ pc[t] = "add" /\ call[t].handle \in Handle /\ call[t].vendor \in Vendor
         /\ call[t].platform \in Platform /\ call[t].native \in Native
         /\ \/ /\ Recorded(t) /\ AddDisplay(call[t].handle, call[t].vendor, TRUE)
               /\ given' = given \cup {<<call[t].platform, call[t].native,
                                         call[t].handle, call[t].vendor>>}
            \/ Lost(t) /\ AddDisplay(call[t].handle, call[t].vendor, FALSE) /\ given' = given
<1>1. /\ pc[t] = "add"
      /\ \/ /\ AddDisplay(call[t].handle, call[t].vendor, TRUE)
            /\ Finish(t, call[t], "success")
            /\ given' = given \cup {<<call[t].platform, call[t].native,
                                      call[t].handle, call[t].vendor>>}
         \/ /\ AddDisplay(call[t].handle, call[t].vendor, FALSE)
            /\ DisplayLost(t) /\ given' = given
  BY DEF RecordDisplay
<1>2. call[t] \in CallType /\ CallOK("add", call[t])
  BY <1>1, ThreadFacts
<1>3. /\ call[t].handle \in Handle /\ call[t].vendor \in Vendor
      /\ call[t].platform \in Platform /\ call[t].native \in Native /\ call[t].op = "display"
      /\ call[t].said \subseteq {"success", "error"}
  BY <1>2, CallFields DEF CallOK, Doing
<1>4. ASSUME Finish(t, call[t], "success")
      PROVE  Recorded(t)
  BY <1>2, <1>3, <1>4, Finishes DEF Recorded, Error
<1>5. ASSUME DisplayLost(t)
      PROVE  Lost(t)
  <2>1. \E c \in CallType, e \in Error :
          /\ Finish(t, c, e) /\ c.op = "display" /\ c.handle = None /\ c.vendor # None
          /\ e = "vendor's" => c.said = {"error"}
    <3> DEFINE c == [call[t] EXCEPT !.handle = None]
               e == IF call[t].error = "ask" THEN "alloc" ELSE NoDisplay(call[t])
    <3>1. /\ c \in CallType /\ c.op = "display" /\ c.handle = None /\ c.vendor = call[t].vendor
          /\ c.said = call[t].said
      BY <1>2, <1>3 DEF CallType
    <3>2. e \in Error /\ (e = "vendor's" => call[t].said = {"error"})
      BY <1>3 DEF NoDisplay, Error
    <3>3. Finish(t, c, e)
      BY <1>5 DEF DisplayLost
    <3>4. c.vendor # None
      BY <1>3, <3>1, ConstantsAssumption
    <3> HIDE DEF c, e
    <3> QED
      BY <3>1, <3>2, <3>3, <3>4
  <2> QED
    BY <2>1, LostSo
<1> QED
  BY <1>1, <1>3, <1>4, <1>5

LEMMA RecordDisplayMoves ==
  ASSUME ListInv, NEW t \in Thread, RecordDisplay(t)
  PROVE  Moves(t)
BY RecordDisplayCases DEF Recorded, Lost, Moves, Place

-----------------------------------------------------------------------------
\* Devices.
LEMMA CountedType ==
  ASSUME NEW c \in CallType, NEW m \in Nat, c.pos \in Nat
  PROVE  /\ [c EXCEPT !.max = m, !.pos = c.pos + 1] \in CallType
         /\ [c EXCEPT !.max = m, !.pos = c.pos + 1].pos = c.pos + 1
<1> PICK d : d = [c EXCEPT !.max = m]
  OBVIOUS
<1>1. d \in CallType /\ c.pos + 1 \in Nat
  BY DEF CallType
<1>2. /\ [d EXCEPT !.pos = c.pos + 1] \in CallType
      /\ [d EXCEPT !.pos = c.pos + 1].pos = c.pos + 1
  BY <1>1 DEF CallType
<1> QED
  BY <1>2

LEMMA DeviceMoves ==
  ASSUME ListInv, NEW t \in Thread,
         QueryVendorDevices(t) \/ DevicesQueried(t)
  PROVE  Moves(t)
<1>1. CASE QueryVendorDevices(t)
  <2>1. pc[t] = "devices" /\ UNCHANGED vendorVars
    BY <1>1, Zenon DEF QueryVendorDevices
  <2>2. call[t] \in CallType /\ CallOK("devices", call[t]) /\ once' = "done"
    BY <2>1, ThreadFacts DEF vendorVars
  <2>3. PICK returned \in SUBSET Device :
          /\ call[t].max - Cardinality(returned) >= 0
          /\ \/ Goto(t, "devices", [call[t] EXCEPT !.max = call[t].max - Cardinality(returned),
                                                   !.pos = call[t].pos + 1])
             \/ Return(t)
    <3> DEFINE v == vendorList[call[t].pos]
    <3>1. PICK devs \in SUBSET {d \in Device : DeviceVendor[d] = v} :
          \E known \in SUBSET devs :
          \E returned \in SUBSET known :
            /\ call[t].max - Cardinality(returned) >= 0
            /\ \/ Goto(t, "devices", [call[t] EXCEPT !.max = call[t].max - Cardinality(returned),
                                                     !.pos = call[t].pos + 1])
               \/ Return(t)
      BY <1>1, Zenon DEF QueryVendorDevices
    <3>2. PICK known \in SUBSET devs :
          \E returned \in SUBSET known :
            /\ call[t].max - Cardinality(returned) >= 0
            /\ \/ Goto(t, "devices", [call[t] EXCEPT !.max = call[t].max - Cardinality(returned),
                                                     !.pos = call[t].pos + 1])
               \/ Return(t)
      BY <3>1, Zenon
    <3>3. \A S \in SUBSET known : S \in SUBSET Device
      OBVIOUS
    <3> QED
      BY <3>2, <3>3, Zenon
  <2>4. Cardinality(returned) \in Nat
    BY ConstantsAssumption, FS_Subset, FS_CardinalityType
  <2>5. call[t].max \in Nat /\ call[t].pos \in Nat
    BY <2>2, CallFields
  <2> PICK m : m = call[t].max - Cardinality(returned)
    OBVIOUS
  <2>6. m \in Nat
    BY <2>3, <2>4, <2>5
  <2> PICK c : c = [call[t] EXCEPT !.max = m, !.pos = call[t].pos + 1]
    OBVIOUS
  <2>7. c \in CallType /\ c.pos = call[t].pos + 1
    BY <2>2, <2>5, <2>6, CountedType, Zenon
  <2>8. CallOK("devices", c)
    BY <2>5, <2>7 DEF CallOK, Doing
  <2>9. Place(t, "devices", c)
    BY <2>2 DEF Place
  <2>10. ASSUME Goto(t, "devices", c)
         PROVE  Moves(t)
    BY <2>7, <2>8, <2>9, <2>10 DEF Moves, Move, Label
  <2> QED
    BY <2>3, <2>10, ReturnMoves
<1>2. CASE DevicesQueried(t)
  BY <1>2, ReturnMoves DEF DevicesQueried
<1> QED
  BY <1>1, <1>2

-----------------------------------------------------------------------------
\* Functions and their indices.
LEMMA VendorSet ==
  ASSUME NEW c \in CallType, NEW v \in Vendor \cup {None}
  PROVE  \E d : /\ d = [c EXCEPT !.vendor = v] /\ d \in CallType /\ d.vendor = v
                /\ d.op = c.op /\ d.name = c.name /\ d.pos = c.pos
<1> PICK d : d = [c EXCEPT !.vendor = v]
  OBVIOUS
<1>1. /\ d \in CallType /\ d.vendor = v
      /\ d.op = c.op /\ d.name = c.name /\ d.pos = c.pos
  BY DEF CallType
<1> QED
  BY <1>1

LEMMA PosSet ==
  ASSUME NEW c \in CallType
  PROVE  \E d : /\ d = [c EXCEPT !.pos = c.pos + 1] /\ d \in CallType
                /\ c.pos \in Nat /\ d.pos = c.pos + 1
                /\ d.op = c.op /\ d.name = c.name /\ d.vendor = c.vendor
<1> PICK d : d = [c EXCEPT !.pos = c.pos + 1]
  OBVIOUS
<1>1. /\ d \in CallType /\ c.pos \in Nat /\ d.pos = c.pos + 1
      /\ d.op = c.op /\ d.name = c.name /\ d.vendor = c.vendor
  BY DEF CallType
<1> QED
  BY <1>1

AddressKnown(t) ==
  \E c : /\ Move(t, "cache", c) /\ c.name = call[t].name /\ c.vendor = index[c.name]

LEMMA FindAddressCases ==
  ASSUME ListInv, NEW t \in Thread, FindAddress(t)
  PROVE  /\ pc[t] = "index" /\ call[t].name \in Name /\ index[call[t].name] # None
         /\ indexLock = None /\ AddressKnown(t)
<1>1. /\ pc[t] = "index" /\ indexLock = None /\ index[call[t].name] # None
      /\ Goto(t, "cache", [call[t] EXCEPT !.vendor = index[call[t].name]])
  BY DEF FindAddress
<1>2. call[t] \in CallType /\ CallOK("index", call[t]) /\ DataOK
  BY <1>1, ThreadFacts
<1>3. call[t].name \in Name /\ call[t].op = "address" /\ call[t].pos = 1
  BY <1>2, CallFields DEF CallOK, Doing
<1>4. index[call[t].name] \in Vendor \cup {None}
  BY <1>2, <1>3 DEF DataOK
<1> PICK v : v = index[call[t].name]
  OBVIOUS
<1>5. PICK d : /\ d = [call[t] EXCEPT !.vendor = v] /\ d \in CallType /\ d.vendor = v
               /\ d.op = call[t].op /\ d.name = call[t].name /\ d.pos = call[t].pos
  BY <1>2, <1>4, VendorSet
<1>6. CallOK("cache", d)
  BY <1>3, <1>5, ConstantsAssumption DEF CallOK, Doing
<1> QED
  BY <1>1, <1>3, <1>5, <1>6 DEF AddressKnown, Move, Label

IndexNew(t) ==
  \E c : /\ Move(t, "tell", c) /\ c.name = call[t].name /\ c.pos = 1
         /\ c.vendor \in Loaded /\ c.vendor \in Vendor /\ Len(vendorList) > 0
         /\ index' = [index EXCEPT ![call[t].name] = c.vendor]

LEMMA AllocIndexCases ==
  ASSUME ListInv, NEW t \in Thread, AllocIndex(t)
  PROVE  /\ pc[t] = "stub" /\ call[t].name \in Name
         /\ \/ IndexNew(t) /\ indexLock' = indexLock
            \/ Return(t) /\ indexLock' = None /\ index' = index
<1> DEFINE k == FirstStub(call[t].name)
<1>1. /\ pc[t] = "stub"
      /\ \/ /\ k > 0 /\ index' = [index EXCEPT ![call[t].name] = vendorList[k]]
            /\ Goto(t, "tell", [call[t] EXCEPT !.vendor = vendorList[k]])
            /\ indexLock' = indexLock
         \/ Return(t) /\ indexLock' = None /\ index' = index
  BY DEF AllocIndex
<1>2. call[t] \in CallType /\ CallOK("stub", call[t]) /\ DataOK
  BY <1>1, ThreadFacts
<1>3. call[t].name \in Name /\ call[t].op = "address" /\ call[t].pos = 1
  BY <1>2, CallFields DEF CallOK, Doing
<1>4. vendorList \in Seq(Vendor)
  BY <1>2 DEF DataOK
<1>5. /\ k \in Nat
      /\ k > 0 => k \in DOMAIN vendorList /\ vendorList[k] \in Vendor /\ vendorList[k] \in Loaded
  BY <1>3, <1>4, StubFound
<1> HIDE DEF k
<1>6. ASSUME k > 0, index' = [index EXCEPT ![call[t].name] = vendorList[k]],
             Goto(t, "tell", [call[t] EXCEPT !.vendor = vendorList[k]])
      PROVE  IndexNew(t)
  <2> PICK v : v = vendorList[k]
    OBVIOUS
  <2>1. PICK d : /\ d = [call[t] EXCEPT !.vendor = v] /\ d \in CallType /\ d.vendor = v
                 /\ d.op = call[t].op /\ d.name = call[t].name /\ d.pos = call[t].pos
    <3>1. v \in Vendor \cup {None}
      BY <1>5, <1>6
    <3> QED
      BY <1>2, <3>1, VendorSet
  <2>2. CallOK("tell", d)
    BY <1>3, <2>1, ConstantsAssumption DEF CallOK, Doing
  <2>3. Len(vendorList) > 0
    BY <1>4, <1>5, <1>6
  <2> QED
    BY <1>3, <1>5, <1>6, <2>1, <2>2, <2>3 DEF IndexNew, Move, Label
<1> QED
  BY <1>1, <1>3, <1>6

Told(t) ==
  LET n == call[t].name
      k == call[t].pos
      last == k = Len(vendorList)
  IN /\ \E c : /\ Move(t, IF last THEN "cache" ELSE "tell", c)
               /\ c.name = n /\ c.vendor = call[t].vendor /\ c.pos = k + 1
     /\ indexLock' = IF last THEN None ELSE indexLock
     /\ told' = [told EXCEPT ![vendorList[k]] = told[vendorList[k]] \cup {n}]

LEMMA TellVendorCases ==
  ASSUME ListInv, NEW t \in Thread, TellVendor(t)
  PROVE  pc[t] = "tell" /\ call[t].name \in Name /\ call[t].pos \in Nat \ {0} /\ Told(t)
<1> DEFINE k == call[t].pos
<1>1. /\ pc[t] = "tell"
      /\ Goto(t, IF k = Len(vendorList) THEN "cache" ELSE "tell",
              [call[t] EXCEPT !.pos = call[t].pos + 1])
      /\ told' = [told EXCEPT ![vendorList[k]] = told[vendorList[k]] \cup {call[t].name}]
      /\ indexLock' = IF k = Len(vendorList) THEN None ELSE indexLock
  BY DEF TellVendor
<1>2. call[t] \in CallType /\ CallOK("tell", call[t])
  BY <1>1, ThreadFacts
<1>3. call[t].name \in Name /\ call[t].op = "address" /\ k \in Nat /\ k > 0
  BY <1>2, CallFields DEF CallOK, Doing
<1>4. PICK d : /\ d = [call[t] EXCEPT !.pos = call[t].pos + 1] /\ d \in CallType
               /\ d.pos = k + 1 /\ d.vendor = call[t].vendor
               /\ d.op = call[t].op /\ d.name = call[t].name
  BY <1>2, PosSet
<1>5. CallOK("tell", d) /\ CallOK("cache", d)
  BY <1>3, <1>4, ConstantsAssumption DEF CallOK, Doing
<1>6. Move(t, IF k = Len(vendorList) THEN "cache" ELSE "tell", d)
  BY <1>1, <1>4, <1>5 DEF Move, Label
<1>7. Told(t)
  BY <1>1, <1>4, <1>6, Zenon DEF Told
<1> QED
  BY <1>1, <1>3, <1>7

LEMMA IndexMoves ==
  ASSUME ListInv, NEW t \in Thread,
         \/ FindAddress(t) \/ LockIndex(t) \/ AllocIndex(t) \/ TellVendor(t)
         \/ CacheProcAddress(t)
  PROVE  Moves(t)
<1>1. CASE FindAddress(t)
  <2>1. pc[t] = "index" /\ once' = once
    BY <1>1, Zenon DEF FindAddress, vendorVars
  <2> QED
    BY <1>1, <2>1, FindAddressCases, ThreadFacts DEF AddressKnown, Moves, Place
<1>2. CASE LockIndex(t)
  <2>1. pc[t] = "index" /\ once' = once /\ Goto(t, "stub", call[t])
    BY <1>2, Zenon DEF LockIndex, vendorVars
  <2>2. call[t] \in CallType /\ CallOK("index", call[t]) /\ once' = "done"
    BY <2>1, ThreadFacts
  <2>3. CallOK("stub", call[t])
    BY <2>2 DEF CallOK, Doing
  <2>4. Move(t, "stub", call[t]) /\ Place(t, "stub", call[t])
    BY <2>1, <2>2, <2>3 DEF Move, Place, Label
  <2> QED
    BY <2>4 DEF Moves
<1>3. CASE AllocIndex(t)
  <2>1. pc[t] = "stub" /\ once' = once
    BY <1>3, Zenon DEF AllocIndex, vendorVars
  <2>2. \A c : Place(t, "tell", c)
    BY <2>1, ThreadFacts DEF Place
  <2> QED
    BY <1>3, <2>2, AllocIndexCases, ReturnMoves DEF IndexNew, Moves
<1>4. CASE TellVendor(t)
  <2>1. pc[t] = "tell" /\ once' = once
    BY <1>4, Zenon DEF TellVendor, vendorVars
  <2>2. \A c : Place(t, "tell", c) /\ Place(t, "cache", c)
    BY <2>1, ThreadFacts DEF Place
  <2> QED
    BY <1>4, <2>2, TellVendorCases DEF Told, Moves
<1>5. CASE CacheProcAddress(t)
  BY <1>5, ReturnMoves, Zenon DEF CacheProcAddress
<1> QED
  BY <1>1, <1>2, <1>3, <1>4, <1>5

LEMMA CallMoves ==
  ASSUME ListInv, NEW t \in Thread,
         FetchDispatchEntry(t) \/ CallVendor(t)
  PROVE  Moves(t)
<1>1. CASE FetchDispatchEntry(t)
  <2>1. pc[t] = "fetch" /\ (Goto(t, "call", call[t]) \/ Finish(t, call[t], "display"))
    BY <1>1 DEF FetchDispatchEntry
  <2>2. call[t] \in CallType /\ CallOK("fetch", call[t])
    BY <2>1, ThreadFacts
  <2>3. CallOK("call", call[t]) /\ call[t].op = "call"
    BY <2>2 DEF CallOK, Doing
  <2>4. Place(t, "call", call[t])
    BY DEF Place
  <2>5. ASSUME Goto(t, "call", call[t])
        PROVE  Moves(t)
    BY <2>2, <2>3, <2>4, <2>5 DEF Moves, Move, Label
  <2> QED
    BY <2>1, <2>2, <2>3, <2>5, FinishMoves DEF Error
<1>2. CASE CallVendor(t)
  <2>1. pc[t] = "call" /\ Finish(t, call[t], "ask")
    BY <1>2 DEF CallVendor
  <2>2. call[t] \in CallType /\ CallOK("call", call[t])
    BY <2>1, ThreadFacts
  <2>3. call[t].op = "call"
    BY <2>2 DEF CallOK, Doing
  <2> QED
    BY <2>1, <2>2, <2>3, FinishMoves DEF Error
<1> QED
  BY <1>1, <1>2

LEMMA StringMoves ==
  ASSUME ListInv, NEW t \in Thread,
         LockString(t) \/ MergeStrings(t) \/ Done(t)
  PROVE  Moves(t)
<1>1. CASE LockString(t)
  <2>1. pc[t] = "string" /\ once' = once /\ (Return(t) \/ Goto(t, "merge", call[t]))
    BY <1>1, Zenon DEF LockString, vendorVars
  <2>2. call[t] \in CallType /\ CallOK("string", call[t]) /\ once' = "done"
    BY <2>1, ThreadFacts
  <2>3. CallOK("merge", call[t]) /\ Place(t, "merge", call[t])
    BY <2>1, <2>2 DEF CallOK, Doing, Place
  <2>4. ASSUME Goto(t, "merge", call[t])
        PROVE  Moves(t)
    BY <2>2, <2>3, <2>4 DEF Moves, Move, Label
  <2> QED
    BY <2>1, <2>4, ReturnMoves
<1>2. CASE MergeStrings(t) \/ Done(t)
  BY <1>2, ReturnMoves, Zenon DEF MergeStrings, Done
<1> QED
  BY <1>1, <1>2

-----------------------------------------------------------------------------
(* ListInv.                                                                *)

LEMMA FailBounded ==
  ASSUME DataOK, Fail \/ UNCHANGED failures
  PROVE  failures' \in 0..MaxFailures
BY ConstantsAssumption DEF Fail, DataOK

\* What a step does to what ListInv is about, apart from the thread.
ListMove(t) ==
  /\ DataOK'
  /\ vendorList' = vendorList \/ (pc[t] = "file" /\ IsInjective(vendorList'))
  /\ \/ once' = once
     \/ once = "no"
     \/ pc[t] = "file" /\ once' = "done"
  /\ extensions' = extensions \/ (pc[t] = "merge" /\ extensions' \in {None, Loaded})
  /\ child' = child
  /\ pc[t] = "idle" => ~child

\* The steps that change no more than the thread.
Looks(t) ==
  \/ WaitForVendors(t) \/ GuessPlatformType(t) \/ FindPlatform(t) \/ AskVendor(t)
  \/ NoVendorHasDisplay(t) \/ DevicesQueried(t) \/ FindAddress(t) \/ CallVendor(t) \/ Done(t)

LEMMA LooksAtData ==
  ASSUME ListInv, NEW t \in Thread, Looks(t)
  PROVE  /\ UNCHANGED <<vendorVars, indexVars, tableVars, stringVars, processVars, failures>>
         /\ pc[t] # "idle"
BY Zenon DEF Looks, WaitForVendors, GuessPlatformType, FindPlatform, AskVendor,
             NoVendorHasDisplay, DevicesQueried, FindAddress, CallVendor, Done

\* The functions that begin with no more than that.
Asks(t) ==
  \/ \E p \in Platform, n \in Native : GetPlatformDisplay(t, p, n)
  \/ \E n \in Native : GetDisplay(t, n)
  \/ \E max \in 0..Cardinality(Device) : QueryDevices(t, max)
  \/ \E n \in Name : GetProcAddress(t, n)
  \/ \E n \in Name, h \in Handle : CallFunction(t, n, h)
  \/ QueryString(t)

LEMMA AsksForData ==
  ASSUME NEW t \in Thread, Asks(t)
  PROVE  /\ UNCHANGED <<vendorVars, indexVars, tableVars, stringVars, processVars>>
         /\ Fail \/ UNCHANGED failures
         /\ pc[t] = "idle" /\ ~child
<1>1. CASE \E p \in Platform, n \in Native : GetPlatformDisplay(t, p, n)
  BY <1>1, Zenon DEF GetPlatformDisplay, Start
<1>2. CASE \/ \E n \in Native : GetDisplay(t, n)
           \/ \E max \in 0..Cardinality(Device) : QueryDevices(t, max)
           \/ \E n \in Name : GetProcAddress(t, n)
           \/ \E n \in Name, h \in Handle : CallFunction(t, n, h)
           \/ QueryString(t)
  BY <1>2, Zenon DEF GetDisplay, QueryDevices, GetProcAddress, CallFunction, QueryString, Start
<1> QED
  BY <1>1, <1>2 DEF Asks

LEMMA AsksMoves ==
  ASSUME ListInv, NEW t \in Thread, Asks(t)
  PROVE  Moves(t)
<1>1. DataOK
  BY ThreadFacts
<1>2. \A max \in 0..Cardinality(Device) : max \in Nat
  OBVIOUS
<1> QED
  BY <1>1, <1>2, GetPlatformDisplayMoves, GetDisplayMoves, QueryDevicesMoves, GetProcAddressMoves,
     CallFunctionMoves, QueryStringMoves DEF Asks

LEMMA StepMoves ==
  ASSUME ListInv, NEW t \in Thread, Step(t)
  PROVE  Moves(t)
BY VendorMoves, GuessPlatformTypeMoves, DisplayMoves, RecordDisplayMoves, DeviceMoves, IndexMoves,
   CallMoves, StringMoves DEF Step

LEMMA QuietListMove ==
  ASSUME DataOK, NEW t \in Thread, pc[t] = "idle" => ~child,
         UNCHANGED <<vendorVars, indexVars, tableVars, stringVars, processVars>>,
         Fail \/ UNCHANGED failures
  PROVE  ListMove(t)
BY FailBounded DEF ListMove, DataOK, vendorVars, indexVars, tableVars, stringVars, processVars

LEMMA VendorListMove ==
  ASSUME ListInv, NEW t \in Thread,
         LoadVendors(t) \/ LoadVendorFromConfigFile(t) \/ VendorsLoaded(t)
  PROVE  ListMove(t)
<1>0. DataOK /\ call[t] \in CallType /\ CallOK(pc[t], call[t]) /\ IsInjective(vendorList)
  BY ThreadFacts DEF ListInv, ListComplete
<1>1. CASE LoadVendors(t) \/ VendorsLoaded(t)
  BY <1>0, <1>1 DEF LoadVendors, VendorsLoaded, ListMove, DataOK,
                    indexVars, tableVars, stringVars, processVars
<1>2. CASE LoadVendorFromConfigFile(t)
  <2> DEFINE v == files[call[t].pos]
  <2>1. /\ pc[t] = "file" /\ call[t].pos <= Len(files)
        /\ \/ v \notin Loaded /\ vendorList' = Append(vendorList, v) /\ UNCHANGED failures
           \/ vendorList' = vendorList /\ (Fail \/ UNCHANGED failures)
        /\ UNCHANGED <<files, once, indexVars, tableVars, stringVars, processVars>>
    BY <1>2 DEF LoadVendorFromConfigFile, Loads
  <2>2. call[t].pos \in Nat /\ call[t].pos > 0
    BY <1>0, <2>1, CallFields DEF CallOK
  <2>3. files \in Seq(Vendor)
    BY <1>0, ConstantsAssumption DEF DataOK
  <2>4. v \in Vendor
    BY <2>1, <2>2, <2>3
  <2> HIDE DEF v
  <2>5. vendorList \in Seq(Vendor)
    BY <1>0 DEF DataOK
  <2>6. vendorList' \in Seq(Vendor) /\ IsInjective(vendorList')
    BY <1>0, <2>1, <2>4, <2>5, ListGrows
  <2>7. failures' \in 0..MaxFailures
    BY <1>0, <2>1, FailBounded
  <2> QED
    BY <1>0, <2>1, <2>6, <2>7
       DEF ListMove, DataOK, indexVars, tableVars, stringVars, processVars
<1> QED
  BY <1>1, <1>2

\* The devices of a vendor that have been added, and those of them that are returned.
LEMMA DevicesKnown ==
  ASSUME NEW t \in Thread, QueryVendorDevices(t)
  PROVE  \E known \in SUBSET {d \in Device : DeviceVendor[d] = vendorList[call[t].pos]} :
           /\ devices' = [d \in Device |-> IF d \in known THEN vendorList[call[t].pos]
                                          ELSE devices[d]]
           /\ \E returned \in SUBSET known : seen' = seen \cup returned
<1> DEFINE v == vendorList[call[t].pos]
<1>1. \E devs \in SUBSET {d \in Device : DeviceVendor[d] = v} :
      \E known \in SUBSET devs :
      \E returned \in SUBSET known :
        /\ devices' = [d \in Device |-> IF d \in known THEN v ELSE devices[d]]
        /\ seen' = seen \cup returned
  BY Zenon DEF QueryVendorDevices
<1> QED
  BY <1>1

LEMMA TableMove ==
  ASSUME ListInv, NEW t \in Thread, RecordDisplay(t) \/ QueryVendorDevices(t)
  PROVE  ListMove(t)
<1>0. DataOK /\ CallOK(pc[t], call[t])
  BY ThreadFacts
<1>1. CASE RecordDisplay(t)
  <2>1. /\ pc[t] = "add"
        /\ UNCHANGED <<vendorVars, indexVars, devices, seen, stringVars, processVars>>
    BY <1>1, Zenon DEF RecordDisplay
  <2>2. given' \subseteq Platform \X Native \X Handle \X Vendor
    <3>1. /\ call[t].handle \in Handle /\ call[t].vendor \in Vendor
          /\ call[t].platform \in Platform /\ call[t].native \in Native
          /\ \/ given' = given
             \/ given' = given \cup {<<call[t].platform, call[t].native,
                                       call[t].handle, call[t].vendor>>}
      BY <1>1, RecordDisplayCases
    <3>2. given \subseteq Platform \X Native \X Handle \X Vendor
      BY <1>0 DEF DataOK
    <3> QED
      BY <3>1, <3>2
  <2>3. displays' \in [Handle -> Vendor \cup {None}] /\ (Fail \/ UNCHANGED failures)
    BY <1>0, <1>1, RecordDisplayCases DEF AddDisplay, DataOK
  <2> QED
    BY <1>0, <2>1, <2>2, <2>3, FailBounded
       DEF ListMove, DataOK, vendorVars, indexVars, stringVars, processVars
<1>2. CASE QueryVendorDevices(t)
  <2> DEFINE v == vendorList[call[t].pos]
  <2>1. /\ pc[t] = "devices" /\ call[t].pos <= Len(vendorList)
        /\ UNCHANGED <<vendorVars, indexVars, displays, given, stringVars, processVars>>
    BY <1>2, Zenon DEF QueryVendorDevices
  <2>2. call[t].pos \in Nat /\ call[t].pos > 0
    BY <1>0, <2>1, ThreadFacts, CallFields DEF CallOK
  <2>3. v \in Vendor
    BY <1>0, <2>1, <2>2, ListedVendors DEF DataOK
  <2> HIDE DEF v
  <2>4. Fail \/ UNCHANGED failures
    BY <1>2, Zenon DEF QueryVendorDevices
  <2>5. devices' \in [Device -> Vendor \cup {None}] /\ seen' \subseteq Device
    BY <1>0, <1>2, <2>3, DevicesKnown DEF DataOK, v
  <2> QED
    BY <1>0, <2>1, <2>4, <2>5, FailBounded
       DEF ListMove, DataOK, vendorVars, indexVars, stringVars, processVars
<1> QED
  BY <1>1, <1>2

LEMMA IndexListMove ==
  ASSUME ListInv, NEW t \in Thread,
         \/ LockIndex(t) \/ AllocIndex(t) \/ TellVendor(t) \/ CacheProcAddress(t)
         \/ FetchDispatchEntry(t)
  PROVE  ListMove(t)
<1>0. DataOK /\ CallOK(pc[t], call[t]) /\ call[t] \in CallType
  BY ThreadFacts
<1>1. CASE LockIndex(t)
  BY <1>0, <1>1 DEF LockIndex, ListMove, DataOK, vendorVars, tableVars, stringVars, processVars
<1>2. CASE AllocIndex(t)
  <2>1. /\ pc[t] = "stub" /\ (Fail \/ UNCHANGED failures)
        /\ UNCHANGED <<vendorVars, told, cache, found, tableVars, stringVars, processVars>>
    BY <1>2, Zenon DEF AllocIndex
  <2>2. index' \in [Name -> Vendor \cup {None}] /\ indexLock' \in Thread \cup {None}
    BY <1>0, <1>2, AllocIndexCases DEF IndexNew, DataOK
  <2> QED
    BY <1>0, <2>1, <2>2, FailBounded
       DEF ListMove, DataOK, vendorVars, tableVars, stringVars, processVars
<1>3. CASE TellVendor(t)
  <2>1. /\ pc[t] = "tell"
        /\ UNCHANGED <<vendorVars, index, cache, found, tableVars, stringVars, processVars, failures>>
    BY <1>3, Zenon DEF TellVendor
  <2>2. call[t].name \in Name /\ Told(t)
    BY <1>3, TellVendorCases
  <2>3. /\ told' = [told EXCEPT ![vendorList[call[t].pos]]
                      = told[vendorList[call[t].pos]] \cup {call[t].name}]
        /\ indexLock' \in {indexLock, None}
    BY <2>2, Zenon DEF Told
  <2>4. told' \in [Vendor -> SUBSET Name] /\ indexLock' \in Thread \cup {None}
    BY <1>0, <2>2, <2>3 DEF DataOK
  <2> QED
    BY <1>0, <2>1, <2>4 DEF ListMove, DataOK, vendorVars, tableVars, stringVars, processVars
<1>4. CASE CacheProcAddress(t)
  <2>1. /\ pc[t] = "cache" /\ (Fail \/ UNCHANGED failures)
        /\ \/ cache' = [cache EXCEPT ![call[t].name] = call[t].vendor]
           \/ cache' = cache
        /\ UNCHANGED <<vendorVars, told, index, indexLock, found, tableVars, stringVars, processVars>>
    BY <1>4, Zenon DEF CacheProcAddress
  <2>2. cache' \in [Name -> Vendor \cup {None}]
    BY <1>0, <2>1, CallFields DEF DataOK
  <2> QED
    BY <1>0, <2>1, <2>2, FailBounded
       DEF ListMove, DataOK, vendorVars, tableVars, stringVars, processVars
<1>5. CASE FetchDispatchEntry(t)
  <2>1. /\ pc[t] = "fetch" /\ (Fail \/ UNCHANGED failures)
        /\ found' = found \cup {<<call[t].vendor, call[t].name>>} \/ found' = found
        /\ UNCHANGED <<vendorVars, told, index, indexLock, cache, tableVars, stringVars, processVars>>
    BY <1>5 DEF FetchDispatchEntry
  <2>2. call[t].vendor \in Vendor /\ call[t].name \in Name
    BY <1>0, <2>1, CallFields DEF CallOK
  <2>3. found' \in SUBSET (Vendor \X Name)
    BY <1>0, <2>1, <2>2 DEF DataOK
  <2> QED
    BY <1>0, <2>1, <2>3, FailBounded
       DEF ListMove, DataOK, vendorVars, tableVars, stringVars, processVars
<1> QED
  BY <1>1, <1>2, <1>3, <1>4, <1>5

LEMMA StringListMove ==
  ASSUME ListInv, NEW t \in Thread, LockString(t) \/ MergeStrings(t)
  PROVE  ListMove(t)
<1>0. DataOK
  BY ThreadFacts
<1>1. CASE LockString(t)
  <2>1. /\ pc[t] = "string" /\ stringLock' \in {stringLock, t}
        /\ UNCHANGED <<vendorVars, indexVars, tableVars, extensions, processVars, failures>>
    BY <1>1, Zenon DEF LockString
  <2> QED
    BY <1>0, <2>1 DEF ListMove, DataOK, vendorVars, indexVars, tableVars, processVars
<1>2. CASE MergeStrings(t)
  <2>1. /\ pc[t] = "merge" /\ stringLock' = None
        /\ extensions' = extensions \/ extensions' = Loaded \/ extensions' = None
        /\ Fail \/ UNCHANGED failures
        /\ UNCHANGED <<vendorVars, indexVars, tableVars, processVars>>
    BY <1>2 DEF MergeStrings, GetClientExtensionString
  <2>2. Loaded \in SUBSET Vendor
    BY <1>0, ListedVendors DEF DataOK
  <2>3. extensions' \in (SUBSET Vendor) \cup {None} /\ failures' \in 0..MaxFailures
    <3>1. extensions \in (SUBSET Vendor) \cup {None}
      BY <1>0 DEF DataOK
    <3> QED
      <4>1. failures' \in 0..MaxFailures
        BY <1>0, <2>1, FailBounded
      <4>2. extensions' \in (SUBSET Vendor) \cup {None}
        BY <2>1, <2>2, <3>1, Zenon
      <4> QED
        BY <4>1, <4>2
  <2>4. extensions' = extensions \/ extensions' \in {None, Loaded}
    BY <2>1
  <2>5. DataOK'
    BY <1>0, <2>1, <2>3 DEF DataOK, vendorVars, indexVars, tableVars, processVars
  <2> QED
    BY <2>1, <2>4, <2>5 DEF ListMove, vendorVars, processVars
<1> QED
  BY <1>1, <1>2

LEMMA StepListMove ==
  ASSUME ListInv, NEW t \in Thread, Step(t) \/ Asks(t)
  PROVE  ListMove(t) /\ Moves(t)
<1>1. DataOK
  BY ThreadFacts
<1>2. ASSUME Looks(t)
      PROVE  ListMove(t)
  <2>1. /\ UNCHANGED <<vendorVars, indexVars, tableVars, stringVars, processVars>>
        /\ UNCHANGED failures /\ pc[t] # "idle"
    BY <1>2, LooksAtData, Zenon
  <2> QED
    BY <1>1, <2>1, QuietListMove, Zenon
<1>3. ASSUME Asks(t)
      PROVE  ListMove(t)
  BY <1>1, <1>3, AsksForData, QuietListMove, Zenon
<1> QED
  BY <1>2, <1>3, VendorListMove, TableMove, IndexListMove, StringListMove, StepMoves, AsksMoves, Zenon
     DEF Step, Looks

\* ListInv after such a step.
LEMMA ListInvStep ==
  ASSUME ListInv, NEW t \in Thread, ListMove(t), Moves(t)
  PROVE  ListInv'
<1>1. PICK l, c : Move(t, l, c) /\ Place(t, l, c)
  BY DEF Moves
<1>2. /\ CallsOK' /\ pc'[t] = l
      /\ \A u \in Thread \ {t} : pc'[u] = pc[u]
  BY <1>1, ThreadFacts, Moved
<1>3. /\ ListComplete /\ ExtensionsComplete /\ LoadingOK
      /\ pc[t] = "file" => once = "loading"
      /\ pc[t] = "merge" => once = "done"
  BY ThreadFacts DEF ListInv, LoadingOK
<1>4. once = "done" => once' = "done" /\ vendorList' = vendorList
  BY <1>3 DEF ListMove
<1>5. TypeOK' /\ \A u \in Thread : CallOK(pc[u], call[u])'
  BY <1>2 DEF CallsOK, ListMove, TypeOK, DataOK, ThreadOK
<1>6. ListComplete'
  <2>1. IsInjective(vendorList')
    BY <1>3 DEF ListMove, ListComplete
  <2>2. ASSUME NEW u \in Thread, pc'[u] \notin {"idle", "load", "file", "done", "fetch", "call"}
        PROVE  once' = "done"
    BY <1>1, <1>2, <1>3, <1>4, <2>2 DEF ListComplete, Place
  <2> QED
    BY <2>1, <2>2 DEF ListComplete
<1>7. ExtensionsComplete'
  BY <1>3, <1>4 DEF ExtensionsComplete, ListMove, Loaded
<1>8. LoadingOK'
  <2>1. ASSUME NEW u \in Thread, pc'[u] = "file"
        PROVE  once' = "loading"
    BY <1>1, <1>2, <1>3, <2>1 DEF ListMove, LoadingOK, Place
  <2>2. ASSUME NEW u \in Thread, NEW w \in Thread, pc'[u] = "file", pc'[w] = "file"
        PROVE  u = w
    BY <1>1, <1>2, <1>3, <2>2 DEF LoadingOK, Place
  <2>3. ~child'
    BY <1>3 DEF ListMove, LoadingOK
  <2> QED
    BY <2>1, <2>2, <2>3 DEF LoadingOK
<1> QED
  BY <1>5, <1>6, <1>7, <1>8 DEF ListInv

\* The end of the library, a fork, and a step in a child or without a thread's state.
LEMMA OtherSteps ==
  ASSUME ListInv,
         \/ Unload
         \/ \E t \in Thread :
              (\E d \in Device : QueryDisplayAttrib(t, d)) \/ Fork(t) \/ ResetOnFork(t)
         \/ UNCHANGED vars
  PROVE  ListInv'
<1>0. DataOK /\ CallsOK /\ ListComplete /\ ExtensionsComplete /\ LoadingOK
  BY TypeParts DEF ListInv, CallsOK, ThreadOK, TypeOK, DataOK
<1>1. ASSUME DataOK', CallsOK', ListComplete', ExtensionsComplete', LoadingOK'
      PROVE  ListInv'
  BY <1>1 DEF ListInv, CallsOK, TypeOK, DataOK, ThreadOK
<1>2. CASE Unload
  <2>1. DataOK'
    <3>1. /\ told' \in [Vendor -> SUBSET Name]
          /\ index' \in [Name -> Vendor \cup {None}] /\ cache' \in [Name -> Vendor \cup {None}]
          /\ displays' \in [Handle -> Vendor \cup {None}]
          /\ devices' \in [Device -> Vendor \cup {None}]
      BY <1>2 DEF Unload
    <3>2. /\ found' \in SUBSET (Vendor \X Name)
          /\ vendorList' \in Seq(Vendor) /\ seen' \subseteq Device
          /\ given' \subseteq Platform \X Native \X Handle \X Vendor
      BY <1>2 DEF Unload
    <3>3. extensions' \in (SUBSET Vendor) \cup {None}
      BY <1>2, Zenon DEF Unload
    <3> QED
      BY <1>0, <1>2, <3>1, <3>2, <3>3 DEF Unload, DataOK
  <2>2. CallsOK' /\ \A t \in Thread : pc'[t] = "idle"
    BY <1>0, <1>2 DEF Unload, CallsOK, ThreadOK, threadVars
  <2>3. ListComplete' /\ ExtensionsComplete' /\ LoadingOK'
    BY <1>2, <2>2 DEF Unload, ListComplete, ExtensionsComplete, LoadingOK, IsInjective
  <2> QED
    BY <1>1, <2>1, <2>2, <2>3
<1>3. ASSUME NEW t \in Thread, NEW d \in Device, QueryDisplayAttrib(t, d)
      PROVE  ListInv'
  <2>1. /\ UNCHANGED <<vendorVars, indexVars, displays, given, stringVars, threadVars, processVars>>
        /\ seen' = seen \cup {d} \/ seen' = seen
        /\ devices' = [devices EXCEPT ![d] = DeviceVendor[d]] \/ devices' = devices
        /\ Fail \/ UNCHANGED failures
    BY <1>3, Zenon DEF QueryDisplayAttrib
  <2>2. DeviceVendor[d] \in Vendor
    BY ConstantsAssumption
  <2>3. seen' \subseteq Device /\ devices' \in [Device -> Vendor \cup {None}]
    BY <1>0, <2>1, <2>2 DEF DataOK
  <2>4. DataOK'
    BY <1>0, <2>1, <2>3, FailBounded DEF DataOK, vendorVars, indexVars, stringVars, processVars
  <2>5. CallsOK' /\ ListComplete' /\ ExtensionsComplete' /\ LoadingOK'
    BY <1>0, <2>1 DEF CallsOK, ThreadOK, ListComplete, ExtensionsComplete, LoadingOK, Loaded,
                      vendorVars, stringVars, threadVars, processVars
  <2> QED
    BY <1>1, <2>4, <2>5
<1>4. ASSUME NEW t \in Thread, Fork(t)
      PROVE  ListInv'
  <2>1. /\ forks < MaxForks /\ forks' = forks + 1 /\ child' = TRUE
        /\ pc' = [u \in Thread |-> "idle"] /\ call' = [u \in Thread |-> NoCall]
        /\ UNCHANGED <<vendorVars, indexVars, tableVars, stringVars, failures>>
    BY <1>4, Zenon DEF Fork
  <2>2. forks' \in 0..MaxForks
    BY <1>0, <2>1, ConstantsAssumption DEF DataOK
  <2>3. DataOK'
    BY <1>0, <2>1, <2>2 DEF DataOK, vendorVars, indexVars, tableVars, stringVars
  <2>4. CallsOK'
    BY <2>1, NoCallTyped DEF CallsOK, ThreadOK, Label
  <2>5. ListComplete' /\ ExtensionsComplete' /\ LoadingOK'
    BY <1>0, <2>1 DEF ListComplete, ExtensionsComplete, LoadingOK, Loaded, vendorVars, stringVars
  <2> QED
    BY <1>1, <2>3, <2>4, <2>5
<1>5. ASSUME NEW t \in Thread, ResetOnFork(t)
      PROVE  ListInv'
  <2>1. /\ child' = FALSE /\ indexLock' = None
        /\ UNCHANGED <<vendorVars, told, index, cache, found, tableVars, stringVars, threadVars,
                       forks, failures>>
    BY <1>5, Zenon DEF ResetOnFork
  <2>2. DataOK'
    BY <1>0, <2>1 DEF DataOK, vendorVars, tableVars, stringVars
  <2>3. CallsOK' /\ ListComplete' /\ ExtensionsComplete' /\ LoadingOK'
    BY <1>0, <2>1 DEF CallsOK, ThreadOK, ListComplete, ExtensionsComplete, LoadingOK, Loaded,
                      vendorVars, stringVars, threadVars
  <2> QED
    BY <1>1, <2>2, <2>3
<1>6. CASE UNCHANGED vars
  <2>1. DataOK'
    BY <1>0, <1>6 DEF vars, DataOK, vendorVars, indexVars, tableVars, stringVars, processVars
  <2>2. CallsOK' /\ ListComplete' /\ ExtensionsComplete' /\ LoadingOK'
    BY <1>0, <1>6 DEF vars, CallsOK, ThreadOK, ListComplete, ExtensionsComplete, LoadingOK, Loaded,
                      vendorVars, stringVars, threadVars, processVars
  <2> QED
    BY <1>1, <2>1, <2>2
<1> QED
  BY <1>2, <1>3, <1>4, <1>5, <1>6

\* The kinds of steps.
LEMMA Steps ==
  ASSUME [Next]_vars
  PROVE  \/ \E t \in Thread : Step(t) \/ Asks(t)
         \/ Unload
         \/ \E t \in Thread :
              (\E d \in Device : QueryDisplayAttrib(t, d)) \/ Fork(t) \/ ResetOnFork(t)
         \/ UNCHANGED vars
BY Zenon DEF Next, Begin, Asks

LEMMA InitListInv ==
  ASSUME Init
  PROVE  ListInv
<1>1. DataOK
  <2>1. /\ told \in [Vendor -> SUBSET Name]
        /\ index \in [Name -> Vendor \cup {None}] /\ cache \in [Name -> Vendor \cup {None}]
        /\ displays \in [Handle -> Vendor \cup {None}]
        /\ devices \in [Device -> Vendor \cup {None}]
    BY DEF Init
  <2>2. /\ found \in SUBSET (Vendor \X Name)
        /\ vendorList \in Seq(Vendor) /\ seen \subseteq Device
        /\ given \subseteq Platform \X Native \X Handle \X Vendor
    BY DEF Init
  <2>4. extensions \in (SUBSET Vendor) \cup {None}
    BY Zenon DEF Init
  <2>3. failures \in 0..MaxFailures /\ forks \in 0..MaxForks
    BY ConstantsAssumption DEF Init
  <2> QED
    BY <2>1, <2>2, <2>3, <2>4 DEF Init, DataOK
<1>2. CallsOK /\ \A t \in Thread : pc[t] = "idle"
  BY NoCallTyped DEF Init, CallsOK, ThreadOK, Label
<1>3. ListComplete /\ ExtensionsComplete /\ LoadingOK
  BY <1>2 DEF Init, ListComplete, ExtensionsComplete, LoadingOK, IsInjective
<1> QED
  BY <1>1, <1>2, <1>3, TypeParts DEF ListInv, CallsOK

LEMMA NextListInv ==
  ASSUME ListInv, [Next]_vars
  PROVE  ListInv'
<1>1. ASSUME NEW t \in Thread, Step(t) \/ Asks(t)
      PROVE  ListInv'
  BY <1>1, StepListMove, ListInvStep
<1> QED
  BY <1>1, Steps, OtherSteps, Zenon

\* Threads that use the list of vendors see all of it, each vendor once, and the extension
\* string has the extensions of all: no thread that waits for another to load them goes on
\* before it has, whatever fails (libeglvendor.c:525, libegl.c:870).
THEOREM ListInvariant == Spec => []ListInv
<1>1. Init => ListInv
  BY InitListInv
<1>2. ListInv /\ [Next]_vars => ListInv'
  BY NextListInv
<1> QED
  BY <1>1, <1>2, PTL DEF Spec

-----------------------------------------------------------------------------
(* HandlesKnown.                                                           *)

\* A vendor that is chosen has the display, and no other can be chosen for it.
LEMMA ChosenUnique ==
  ASSUME DataOK, NEW p, NEW n, NEW h1 \in Handle, NEW h2 \in Handle, NEW v1, NEW v2,
         Chosen(p, n, h1, v1), Chosen(p, n, h2, v2)
  PROVE  h1 = h2 /\ v1 = v2
<1>1. h1 = Supported[<<v1, p, n>>] /\ h2 = Supported[<<v2, p, n>>] /\ h1 # None /\ h2 # None
  BY ConstantsAssumption DEF Chosen
<1>2. CASE ByDevice(p, n)
  BY <1>1, <1>2 DEF Chosen
<1>3. CASE ~ByDevice(p, n)
  <2>1. PICK k1 \in DOMAIN vendorList : v1 = vendorList[k1] /\ NoneBefore(k1, p, n)
    BY <1>3 DEF Chosen
  <2>2. PICK k2 \in DOMAIN vendorList : v2 = vendorList[k2] /\ NoneBefore(k2, p, n)
    BY <1>3 DEF Chosen
  <2>3. k1 \in Int /\ k2 \in Int
    BY ListedVendors DEF DataOK
  <2>4. ~(k1 < k2) /\ ~(k2 < k1)
    BY <1>1, <2>1, <2>2 DEF NoneBefore
  <2> QED
    BY <1>1, <2>1, <2>2, <2>3, <2>4
<1> QED
  BY <1>2, <1>3

\* A thread that is still where it was, and an old display, keep the vendor chosen.
LEMMA ChosenKept ==
  ASSUME vendorList' = vendorList
  PROVE  /\ \A p, n, h, v : Chosen(p, n, h, v)' <=> Chosen(p, n, h, v)
         /\ \A k, p, n : NoneBefore(k, p, n)' <=> NoneBefore(k, p, n)
BY Zenon DEF Chosen, NoneBefore, ByDevice

ThreadChosen(l, c) ==
  /\ l = "scan" => ~ByDevice(c.platform, c.native) /\ NoneBefore(c.pos, c.platform, c.native)
  /\ l = "add" => Chosen(c.platform, c.native, c.handle, c.vendor)

GivenChosen == /\ \A g \in given : Chosen(g[1], g[2], g[3], g[4])
               /\ given # {} => once = "done"

DevicesRight == \A d \in Device : devices[d] \in {None, DeviceVendor[d]}

LEMMA ChosenParts ==
  ChosenOK <=> /\ GivenChosen /\ DevicesRight
               /\ \A t \in Thread : ThreadChosen(pc[t], call[t])
BY DEF ChosenOK, GivenChosen, DevicesRight, ThreadChosen

\* What a move leaves of what was chosen for other threads and for displays.
LEMMA OthersChosen ==
  ASSUME ListInv, HandlesKnown, NEW t \in Thread, ListMove(t), Moves(t)
  PROVE  /\ \A u \in Thread \ {t} : ThreadChosen(pc[u], call[u])'
         /\ pc'[t] \notin {"scan", "add"} => ThreadChosen(pc[t], call[t])'
         /\ given' = given => GivenChosen'
<1>1. PICK l, c : Move(t, l, c)
  BY DEF Moves
<1>2. /\ pc'[t] = l
      /\ \A u \in Thread \ {t} : pc'[u] = pc[u] /\ call'[u] = call[u]
  BY <1>1, ThreadFacts, Moved
<1>3. GivenChosen /\ \A u \in Thread : ThreadChosen(pc[u], call[u])
  BY ChosenParts DEF HandlesKnown
<1>4. once = "done" => once' = "done" /\ vendorList' = vendorList
  BY ThreadFacts DEF ListMove, ListInv, LoadingOK
<1>5. ASSUME NEW u \in Thread, u # t
      PROVE  ThreadChosen(pc[u], call[u])'
  <2>1. pc'[u] = pc[u] /\ call'[u] = call[u] /\ ThreadChosen(pc[u], call[u])
    BY <1>2, <1>3, <1>5
  <2>2. pc[u] \in {"scan", "add"} => vendorList' = vendorList
    BY <1>4, ThreadFacts
  <2>3. pc[u] \in {"scan", "add"} => ThreadChosen(pc[u], call[u])'
    BY <2>1, <2>2, ChosenKept DEF ThreadChosen, ByDevice
  <2> QED
    BY <2>1, <2>3 DEF ThreadChosen
<1>6. ASSUME given' = given
      PROVE  GivenChosen'
  <2>1. CASE given = {}
    BY <1>6, <2>1 DEF GivenChosen
  <2>2. CASE given # {}
    BY <1>3, <1>4, <1>6, <2>2, ChosenKept DEF GivenChosen
  <2> QED
    BY <2>1, <2>2
<1> QED
  BY <1>2, <1>5, <1>6 DEF ThreadChosen

\* The steps that leave the tables alone.
LEMMA TablesKept ==
  ASSUME ListInv, HandlesKnown, NEW t \in Thread, ListMove(t), Moves(t), UNCHANGED tableVars,
         pc'[t] \in {"scan", "add"} => ThreadChosen(pc[t], call[t])'
  PROVE  HandlesKnown'
<1>1. DisplayKeepsVendor' /\ SameDisplay' /\ SeenDevicesKnown' /\ DevicesRight'
  BY ChosenParts
     DEF HandlesKnown, DisplayKeepsVendor, SameDisplay, SeenDevicesKnown, DevicesRight, tableVars
<1>2. GivenChosen' /\ \A u \in Thread : ThreadChosen(pc[u], call[u])'
  BY OthersChosen DEF tableVars
<1>3. ChosenOK'
  BY <1>1, <1>2 DEF ChosenOK, GivenChosen, DevicesRight, ThreadChosen
<1> QED
  BY <1>1, <1>3 DEF HandlesKnown

LEMMA FindPlatformHandles ==
  ASSUME ListInv, HandlesKnown, NEW t \in Thread, FindPlatform(t)
  PROVE  HandlesKnown'
<1>1. ListMove(t) /\ Moves(t) /\ UNCHANGED tableVars /\ UNCHANGED vendorVars
  BY StepListMove, LooksAtData, Zenon DEF Step, Looks
<1>2. DataOK /\ CallsOK /\ pc[t] = "platform" /\ DevicesRight
  BY ThreadFacts, ChosenParts, Zenon DEF FindPlatform, HandlesKnown
<1>3. CASE Refused(t)
  <2>1. pc'[t] = "done"
    BY <1>2, <1>3, Moved DEF Refused
  <2> QED
    BY <1>1, <2>1, TablesKept
<1>4. CASE DeviceFound(t)
  <2>1. PICK c : /\ Move(t, "add", c) /\ ByDevice(c.platform, c.native) /\ c.native \in Device
                 /\ c.vendor = devices[c.native]
                 /\ c.handle = Supported[<<c.vendor, c.platform, c.native>>]
    BY <1>4 DEF DeviceFound
  <2>2. c.vendor # None
    BY <2>1 DEF Move, CallOK
  <2>3. Chosen(c.platform, c.native, c.handle, c.vendor)
    BY <1>2, <2>1, <2>2 DEF Chosen, DevicesRight
  <2>4. pc'[t] = "add" /\ call'[t] = c
    BY <1>2, <2>1, Moved
  <2>5. ThreadChosen(pc[t], call[t])'
    BY <1>1, <2>3, <2>4, ChosenKept DEF ThreadChosen, vendorVars
  <2> QED
    BY <1>1, <2>5, TablesKept
<1>5. CASE Move(t, "scan", call[t]) /\ ~ByDevice(call[t].platform, call[t].native)
  <2>1. pc'[t] = "scan" /\ call'[t] = call[t]
    BY <1>2, <1>5, Moved
  <2>2. call[t].pos = 1
    BY <1>2, ThreadFacts DEF CallOK
  <2>3. NoneBefore(1, call[t].platform, call[t].native)
    BY <1>2, ListedVendors DEF NoneBefore, DataOK
  <2>4. ThreadChosen(pc[t], call[t])'
    BY <1>1, <1>5, <2>1, <2>2, <2>3, ChosenKept DEF ThreadChosen, vendorVars, ByDevice
  <2> QED
    BY <1>1, <2>4, TablesKept
<1> QED
  BY <1>3, <1>4, <1>5, FindPlatformCases

LEMMA AskVendorHandles ==
  ASSUME ListInv, HandlesKnown, NEW t \in Thread, AskVendor(t)
  PROVE  HandlesKnown'
<1>1. ListMove(t) /\ Moves(t) /\ UNCHANGED tableVars /\ UNCHANGED vendorVars
  BY StepListMove, LooksAtData, Zenon DEF Step, Looks
<1>2. DataOK /\ CallsOK /\ pc[t] = "scan" /\ call[t].pos \in DOMAIN vendorList
  BY ThreadFacts, AskVendorCases
<1>3. /\ ~ByDevice(call[t].platform, call[t].native)
      /\ NoneBefore(call[t].pos, call[t].platform, call[t].native)
  BY <1>2, ChosenParts DEF HandlesKnown, ThreadChosen
<1>4. CASE DisplayFound(t)
  <2>1. PICK c : /\ Move(t, "add", c)
                 /\ c.platform = call[t].platform /\ c.native = call[t].native
                 /\ c.vendor = vendorList[call[t].pos]
                 /\ c.handle = Supported[<<c.vendor, c.platform, c.native>>]
    BY <1>4 DEF DisplayFound
  <2>2. Chosen(c.platform, c.native, c.handle, c.vendor)
    BY <1>2, <1>3, <2>1 DEF Chosen
  <2>3. pc'[t] = "add" /\ call'[t] = c
    BY <1>2, <2>1, Moved
  <2>4. ThreadChosen(pc[t], call[t])'
    BY <1>1, <2>2, <2>3, ChosenKept DEF ThreadChosen, vendorVars
  <2> QED
    BY <1>1, <2>4, TablesKept
<1>5. CASE NextAsked(t)
  <2>1. PICK c : /\ Move(t, "scan", c)
                 /\ c.platform = call[t].platform /\ c.native = call[t].native
                 /\ Supported[<<vendorList[call[t].pos], c.platform, c.native>>] = None
                 /\ c.pos = call[t].pos + 1
    BY <1>5 DEF NextAsked
  <2>2. NoneBefore(c.pos, c.platform, c.native)
    <3>1. \A j \in DOMAIN vendorList : j \in Int
      BY <1>2, ListedVendors DEF DataOK
    <3>2. ASSUME NEW j \in DOMAIN vendorList, j < c.pos
          PROVE  Supported[<<vendorList[j], c.platform, c.native>>] = None
      <4>1. j < call[t].pos \/ j = call[t].pos
        BY <1>2, <2>1, <3>1, <3>2
      <4> QED
        BY <1>3, <2>1, <4>1 DEF NoneBefore
    <3> QED
      BY <3>2 DEF NoneBefore
  <2>3. pc'[t] = "scan" /\ call'[t] = c
    BY <1>2, <2>1, Moved
  <2>4. ~ByDevice(c.platform, c.native)
    BY <1>3, <2>1
  <2>5. ThreadChosen(pc[t], call[t])'
    BY <1>1, <2>2, <2>3, <2>4, ChosenKept DEF ThreadChosen, vendorVars, ByDevice
  <2> QED
    BY <1>1, <2>5, TablesKept
<1> QED
  BY <1>4, <1>5, AskVendorCases

\* The display of a handle is recorded.
LEMMA RecordDisplayHandles ==
  ASSUME ListInv, HandlesKnown, NEW t \in Thread, RecordDisplay(t)
  PROVE  HandlesKnown'
<1>1. ListMove(t) /\ Moves(t)
  BY StepListMove DEF Step
<1>2. UNCHANGED <<vendorVars, devices, seen>>
  BY Zenon DEF RecordDisplay
<1> PICK p : p = call[t].platform
  OBVIOUS
<1> PICK n : n = call[t].native
  OBVIOUS
<1> PICK h : h = call[t].handle
  OBVIOUS
<1> PICK v : v = call[t].vendor
  OBVIOUS
<1>3. /\ pc[t] = "add" /\ h \in Handle /\ v \in Vendor /\ p \in Platform /\ n \in Native
      /\ \/ Recorded(t) /\ AddDisplay(h, v, TRUE) /\ given' = given \cup {<<p, n, h, v>>}
         \/ Lost(t) /\ AddDisplay(h, v, FALSE) /\ given' = given
  BY RecordDisplayCases, Zenon
<1>4. DataOK /\ CallsOK /\ once = "done"
  BY <1>3, ThreadFacts
<1>5. pc'[t] = "done"
  BY <1>3, <1>4, Moved DEF Recorded, Lost
<1>6. /\ GivenChosen /\ DevicesRight /\ Chosen(p, n, h, v)
      /\ DisplayKeepsVendor /\ SameDisplay /\ SeenDevicesKnown
  BY <1>3, ChosenParts DEF HandlesKnown, ThreadChosen
<1>7. DevicesRight' /\ SeenDevicesKnown'
  BY <1>2, <1>6 DEF DevicesRight, SeenDevicesKnown
<1>8. \A u \in Thread : ThreadChosen(pc[u], call[u])'
  BY <1>1, <1>5, OthersChosen
<1>9. /\ DOMAIN displays = Handle /\ given \subseteq Platform \X Native \X Handle \X Vendor
      /\ None \notin Vendor
  BY <1>4, ConstantsAssumption DEF DataOK
<1>10. CASE given' = given
  <2>1. \A g \in given : displays'[g[3]] = displays[g[3]]
    BY <1>3, <1>6, <1>9 DEF AddDisplay, DisplayKeepsVendor
  <2>2. DisplayKeepsVendor' /\ SameDisplay'
    BY <1>6, <1>10, <2>1 DEF DisplayKeepsVendor, SameDisplay
  <2>3. GivenChosen'
    BY <1>1, <1>10, OthersChosen
  <2> QED
    BY <1>7, <1>8, <2>2, <2>3 DEF HandlesKnown, ChosenOK, GivenChosen, DevicesRight, ThreadChosen
<1>11. CASE AddDisplay(h, v, TRUE) /\ given' = given \cup {<<p, n, h, v>>}
  <2> PICK new : new = <<p, n, h, v>>
    OBVIOUS
  <2>1. new[1] = p /\ new[2] = n /\ new[3] = h /\ new[4] = v
    OBVIOUS
  <2>2. \A g \in given' : g \in given \/ g = new
    BY <1>11
  <2>3. displays'[h] = v /\ \A g \in given : displays'[g[3]] = g[4]
    <3>1. \A g \in given : displays[g[3]] = g[4] /\ g[4] \in Vendor
      BY <1>6, <1>9 DEF DisplayKeepsVendor
    <3>2. \/ displays[h] = None /\ displays' = [displays EXCEPT ![h] = v]
          \/ displays[h] = v /\ displays' = displays
      BY <1>11 DEF AddDisplay
    <3>3. \A g \in given : displays[h] = None => g[3] # h
      BY <1>9, <3>1
    <3> QED
      BY <1>3, <1>9, <3>1, <3>2, <3>3
  <2>4. \A g \in given' : Chosen(g[1], g[2], g[3], g[4])
    BY <1>6, <2>1, <2>2 DEF GivenChosen
  <2>5. n \in Device /\ p = "device" => DeviceVendor[n] = v
    BY <1>6, DevicesAssumption DEF Chosen, ByDevice
  <2>6. DisplayKeepsVendor'
    BY <1>6, <2>1, <2>2, <2>3, <2>5 DEF DisplayKeepsVendor
  <2>7. \A g \in given' : /\ g[3] \in Handle /\ g = <<g[1], g[2], g[3], g[4]>>
    <3>1. \A g \in given : g[3] \in Handle /\ g = <<g[1], g[2], g[3], g[4]>>
      BY <1>9
    <3> QED
      BY <1>3, <2>1, <2>2, <3>1
  <2>8. SameDisplay'
    <3>1. ASSUME NEW g \in given', NEW f \in given', g[1] = f[1], g[2] = f[2]
          PROVE  g = f
      <4>1. Chosen(g[1], g[2], g[3], g[4]) /\ Chosen(g[1], g[2], f[3], f[4])
        BY <2>4, <3>1
      <4>2. g[3] = f[3] /\ g[4] = f[4]
        BY <1>4, <2>7, <4>1, ChosenUnique
      <4> QED
        BY <2>7, <3>1, <4>2
    <3> QED
      BY <3>1 DEF SameDisplay
  <2>9. GivenChosen'
    <3>1. \A g \in given' : Chosen(g[1], g[2], g[3], g[4])'
      BY <1>2, <2>4, ChosenKept DEF vendorVars
    <3>2. once' = "done"
      BY <1>2, <1>4 DEF vendorVars
    <3> QED
      BY <3>1, <3>2 DEF GivenChosen
  <2> QED
    BY <1>7, <1>8, <2>6, <2>8, <2>9
       DEF HandlesKnown, ChosenOK, GivenChosen, DevicesRight, ThreadChosen
<1> QED
  BY <1>3, <1>10, <1>11

\* A device is added for its vendor.
LEMMA DeviceHandles ==
  ASSUME HandlesKnown, DataOK,
         NEW known \in SUBSET Device, NEW returned \in SUBSET known,
         \A d \in Device : devices'[d] = IF d \in known THEN DeviceVendor[d] ELSE devices[d],
         seen' = seen \cup returned, given' = given, displays' = displays
  PROVE  DisplayKeepsVendor' /\ SameDisplay' /\ SeenDevicesKnown' /\ DevicesRight'
<1>1. DisplayKeepsVendor /\ SameDisplay /\ SeenDevicesKnown /\ DevicesRight
  BY ChosenParts DEF HandlesKnown
<1>2. DisplayKeepsVendor' /\ SameDisplay'
  BY <1>1 DEF DisplayKeepsVendor, SameDisplay
<1>3. SeenDevicesKnown'
  BY <1>1 DEF SeenDevicesKnown, DataOK
<1>4. DevicesRight'
  BY <1>1 DEF DevicesRight
<1> QED
  BY <1>2, <1>3, <1>4

LEMMA QueryVendorDevicesHandles ==
  ASSUME ListInv, HandlesKnown, NEW t \in Thread, QueryVendorDevices(t)
  PROVE  HandlesKnown'
<1>1. ListMove(t) /\ Moves(t)
  BY StepListMove DEF Step
<1>2. pc[t] = "devices" /\ UNCHANGED <<vendorVars, displays, given>>
  BY Zenon DEF QueryVendorDevices
<1>3. pc'[t] \notin {"scan", "add"}
  BY <1>1, <1>2, ThreadFacts, Moved DEF Moves, Place
<1>4. PICK known \in SUBSET {d \in Device : DeviceVendor[d] = vendorList[call[t].pos]} :
        /\ devices' = [d \in Device |-> IF d \in known THEN vendorList[call[t].pos]
                                       ELSE devices[d]]
        /\ \E returned \in SUBSET known : seen' = seen \cup returned
  BY DevicesKnown
<1>5. PICK returned \in SUBSET known : seen' = seen \cup returned
  BY <1>4
<1>6. \A d \in Device : devices'[d] = IF d \in known THEN DeviceVendor[d] ELSE devices[d]
  BY <1>4
<1>7. DisplayKeepsVendor' /\ SameDisplay' /\ SeenDevicesKnown' /\ DevicesRight'
  <2>1. known \in SUBSET Device /\ DataOK
    BY ThreadFacts
  <2> QED
    BY <1>2, <1>5, <1>6, <2>1, DeviceHandles
<1>8. GivenChosen' /\ \A u \in Thread : ThreadChosen(pc[u], call[u])'
  BY <1>1, <1>2, <1>3, OthersChosen
<1> QED
  BY <1>7, <1>8 DEF HandlesKnown, ChosenOK, GivenChosen, DevicesRight, ThreadChosen

LEMMA OtherHandles ==
  ASSUME ListInv, HandlesKnown,
         \/ Unload
         \/ \E t \in Thread :
              (\E d \in Device : QueryDisplayAttrib(t, d)) \/ Fork(t) \/ ResetOnFork(t)
         \/ UNCHANGED vars
  PROVE  HandlesKnown'
<1>0. DataOK
  BY TypeParts DEF ListInv
<1>1. ASSUME UNCHANGED <<vendorVars, given>>,
             \A u \in Thread : pc'[u] \in {pc[u], "idle"} /\ (pc'[u] # "idle" => call'[u] = call[u]),
             DisplayKeepsVendor' /\ SameDisplay' /\ SeenDevicesKnown' /\ DevicesRight'
      PROVE  HandlesKnown'
  <2>1. GivenChosen /\ \A u \in Thread : ThreadChosen(pc[u], call[u])
    BY ChosenParts DEF HandlesKnown
  <2>2. GivenChosen'
    BY <1>1, <2>1, ChosenKept DEF GivenChosen, vendorVars
  <2>3. \A u \in Thread : ThreadChosen(pc[u], call[u])'
    BY <1>1, <2>1, ChosenKept DEF ThreadChosen, ByDevice, vendorVars
  <2> QED
    BY <1>1, <2>2, <2>3 DEF HandlesKnown, ChosenOK, GivenChosen, DevicesRight, ThreadChosen
<1>2. ASSUME UNCHANGED tableVars
      PROVE  DisplayKeepsVendor' /\ SameDisplay' /\ SeenDevicesKnown' /\ DevicesRight'
  BY <1>2, ChosenParts
     DEF HandlesKnown, DisplayKeepsVendor, SameDisplay, SeenDevicesKnown, DevicesRight, tableVars
<1>3. CASE Unload
  <2>1. \A u \in Thread : pc'[u] = "idle"
    BY <1>3 DEF Unload, threadVars
  <2> QED
    BY <1>3, <2>1
       DEF Unload, HandlesKnown, DisplayKeepsVendor, SameDisplay, SeenDevicesKnown, ChosenOK
<1>4. ASSUME NEW t \in Thread, NEW d \in Device, QueryDisplayAttrib(t, d)
      PROVE  HandlesKnown'
  <2>1. /\ UNCHANGED <<vendorVars, displays, given, threadVars>>
        /\ \/ devices' = [devices EXCEPT ![d] = DeviceVendor[d]] /\ seen' = seen \cup {d}
           \/ UNCHANGED <<devices, seen>>
    BY <1>4, Zenon DEF QueryDisplayAttrib
  <2>2. DisplayKeepsVendor' /\ SameDisplay' /\ SeenDevicesKnown' /\ DevicesRight'
    <3>1. CASE UNCHANGED <<devices, seen>>
      BY <1>2, <2>1, <3>1 DEF tableVars
    <3>2. CASE devices' = [devices EXCEPT ![d] = DeviceVendor[d]] /\ seen' = seen \cup {d}
      <4>1. \A e \in Device : devices'[e] = IF e \in {d} THEN DeviceVendor[e] ELSE devices[e]
        BY <1>0, <3>2 DEF DataOK
      <4>2. {d} \in SUBSET Device /\ {d} \in SUBSET {d}
        OBVIOUS
      <4> QED
        BY <1>0, <2>1, <3>2, <4>1, <4>2, DeviceHandles
    <3> QED
      BY <2>1, <3>1, <3>2
  <2> QED
    BY <1>1, <2>1, <2>2 DEF threadVars
<1>5. ASSUME NEW t \in Thread, Fork(t)
      PROVE  HandlesKnown'
  <2>1. /\ UNCHANGED <<vendorVars, tableVars>> /\ pc' = [u \in Thread |-> "idle"]
    BY <1>5, Zenon DEF Fork
  <2> QED
    BY <1>1, <1>2, <2>1 DEF tableVars
<1>6. CASE (\E t \in Thread : ResetOnFork(t)) \/ UNCHANGED vars
  <2>1. UNCHANGED <<vendorVars, tableVars, threadVars>>
    BY <1>6, Zenon DEF ResetOnFork, vars
  <2> QED
    BY <1>1, <1>2, <2>1 DEF tableVars, threadVars
<1> QED
  BY <1>3, <1>4, <1>5, <1>6

\* The steps that neither look for a display nor touch the tables.
LEMMA StepHandles ==
  ASSUME ListInv, HandlesKnown, NEW t \in Thread, Step(t) \/ Asks(t)
  PROVE  HandlesKnown'
<1>1. ListMove(t) /\ Moves(t)
  BY StepListMove
<1>2. CASE FindPlatform(t) \/ AskVendor(t) \/ RecordDisplay(t) \/ QueryVendorDevices(t)
  BY <1>2, FindPlatformHandles, AskVendorHandles, RecordDisplayHandles, QueryVendorDevicesHandles
<1>3. CASE ~(FindPlatform(t) \/ AskVendor(t) \/ RecordDisplay(t) \/ QueryVendorDevices(t))
  <2>1. \/ pc[t] \notin {"platform", "scan"} /\ UNCHANGED tableVars
        \/ NoVendorHasDisplay(t)
    BY <1>3, AsksForData
       DEF Step, WaitForVendors, LoadVendors, LoadVendorFromConfigFile, VendorsLoaded,
           GuessPlatformType, DevicesQueried, FindAddress, LockIndex,
           AllocIndex, TellVendor, CacheProcAddress, FetchDispatchEntry, CallVendor,
           LockString, MergeStrings, Done
  <2>2. CASE NoVendorHasDisplay(t)
    <3>1. pc'[t] = "done" /\ UNCHANGED tableVars
      BY <2>2, ThreadFacts DEF NoVendorHasDisplay, Finish, Goto, CallsOK, ThreadOK
    <3> QED
      BY <1>1, <3>1, TablesKept
  <2>3. CASE pc[t] \notin {"platform", "scan"} /\ UNCHANGED tableVars
    <3>1. pc'[t] \notin {"scan", "add"}
      BY <1>1, <2>3, ThreadFacts, Moved DEF Moves, Place
    <3> QED
      BY <1>1, <2>3, <3>1, TablesKept
  <2> QED
    BY <2>1, <2>2, <2>3
<1> QED
  BY <1>2, <1>3

\* The handles that applications hold are known, as those of the vendors that made them: a
\* display handle leads to its vendor for ever, calls with the same arguments get the same
\* display, and the vendor of each device is found, whatever failed or was loading, and
\* after any forks (libeglmapping.c:202, libegl.c:308, libegl.c:999).
THEOREM HandlesInvariant == Spec => []HandlesKnown
<1>1. Init => HandlesKnown
  BY DEF Init, HandlesKnown, DisplayKeepsVendor, SameDisplay, SeenDevicesKnown, ChosenOK
<1>2. ListInv /\ HandlesKnown /\ [Next]_vars => HandlesKnown'
  BY Steps, StepHandles, OtherHandles, Zenon
<1> QED
  BY <1>1, <1>2, ListInvariant, PTL DEF Spec

-----------------------------------------------------------------------------
(* ErrorTellsWhy.                                                          *)

Tells(c) ==
  /\ c.handle # None => c.error = "success"
  /\ c.handle = None /\ c.error = "success" => "success" \in c.said \/ c.vendor # None
  /\ c.error = "vendor's" => c.said = {"error"}

ThreadTells(l, c) ==
  /\ l = "done" /\ c.op = "display" => Tells(c)
  /\ l = "scan" => vendorList # <<>> /\ (c.said = {} => c.pos = 1)

LEMMA TellsParts == ErrorTellsWhy <=> \A t \in Thread : ThreadTells(pc[t], call[t])
BY DEF ErrorTellsWhy, ThreadTells, Tells

\* It is enough to look at the thread that moves.
LEMMA TellsStep ==
  ASSUME ListInv, ErrorTellsWhy, NEW t \in Thread, ListMove(t), Moves(t),
         ThreadTells(pc[t], call[t])'
  PROVE  ErrorTellsWhy'
<1>1. PICK l, c : Move(t, l, c)
  BY DEF Moves
<1>2. \A u \in Thread \ {t} : pc'[u] = pc[u] /\ call'[u] = call[u]
  BY <1>1, ThreadFacts, Moved
<1>3. ASSUME NEW u \in Thread, u # t
      PROVE  ThreadTells(pc[u], call[u])'
  <2>1. pc'[u] = pc[u] /\ call'[u] = call[u] /\ ThreadTells(pc[u], call[u])
    BY <1>2, <1>3, TellsParts
  <2>2. pc[u] = "scan" => vendorList' = vendorList
    BY ThreadFacts DEF ListMove, ListInv, LoadingOK
  <2> QED
    BY <2>1, <2>2 DEF ThreadTells, Tells
<1> QED
  BY <1>3 DEF ErrorTellsWhy, ThreadTells, Tells

LEMMA AsksTells ==
  ASSUME ListInv, ErrorTellsWhy, NEW t \in Thread, Asks(t)
  PROVE  ErrorTellsWhy'
<1>1. ListMove(t) /\ Moves(t)
  BY StepListMove
<1>2. DataOK /\ CallsOK /\ pc[t] = "idle" /\ DOMAIN pc = Thread /\ DOMAIN call = Thread
  BY ThreadFacts, AsksForData DEF CallsOK, ThreadOK
<1>3. pc'[t] # "scan"
  BY <1>1, <1>2, Moved DEF Moves, Place
<1>4. ASSUME NEW c \in CallType, NEW e \in {"parameter", "alloc"}, Finish(t, c, e), c.handle = None
      PROVE  ThreadTells(pc[t], call[t])'
  <2>1. e \in Error
    BY DEF Error
  <2>2. PICK f : /\ Move(t, "done", f) /\ f.op = c.op /\ f.handle = c.handle
                 /\ f.vendor = c.vendor /\ f.error = e /\ f.said = c.said
    BY <1>4, <2>1, FinishedSo
  <2>3. pc'[t] = "done" /\ call'[t] = f
    BY <1>2, <2>2, Moved
  <2> QED
    BY <1>4, <2>2, <2>3 DEF ThreadTells, Tells
<1>5. ASSUME NEW p \in Platform, NEW n \in Native, GetPlatformDisplay(t, p, n)
      PROVE  ThreadTells(pc[t], call[t])'
  <2> PICK c : c = [NoCall EXCEPT !.op = "display", !.platform = p, !.native = n]
    OBVIOUS
  <2>1. c \in CallType /\ c.handle = None
    BY DEF NoCall, CallType, Error
  <2>2. Finish(t, c, "parameter") \/ Load(t, "platform", c) \/ Finish(t, c, "alloc")
    BY <1>5 DEF GetPlatformDisplay
  <2>3. CASE Load(t, "platform", c)
    BY <1>2, <2>3 DEF Load, Goto, ThreadTells
  <2> QED
    BY <1>4, <2>1, <2>2, <2>3
<1>6. ASSUME NEW n \in Name, NEW h \in Handle, CallFunction(t, n, h)
      PROVE  ThreadTells(pc[t], call[t])'
  <2> PICK c : c = [NoCall EXCEPT !.op = "call", !.name = n, !.handle = h, !.vendor = displays[h]]
    OBVIOUS
  <2>1. c \in CallType /\ c.op = "call"
    BY <1>2 DEF DataOK, NoCall, CallType, Error
  <2>2. Finish(t, c, "display") \/ \E l \in {"fetch", "call"} : Goto(t, l, c)
    BY <1>6 DEF CallFunction
  <2>3. CASE Finish(t, c, "display")
    <3>1. "display" \in Error
      BY DEF Error
    <3>2. pc'[t] = "done" /\ call'[t].op = "call"
      BY <1>2, <2>1, <2>3, <3>1, FinishedCall
    <3> QED
      BY <3>2 DEF ThreadTells
  <2> QED
    BY <1>2, <2>2, <2>3 DEF Goto, ThreadTells
<1>7. ASSUME \/ \E n \in Native : GetDisplay(t, n)
             \/ \E max \in 0..Cardinality(Device) : QueryDevices(t, max)
             \/ \E n \in Name : GetProcAddress(t, n)
             \/ QueryString(t)
      PROVE  ThreadTells(pc[t], call[t])'
  <2>1. pc'[t] \in {"load", "platform", "guess", "devices", "index", "string", "idle"}
    <3>1. \/ \E next \in {"platform", "guess", "devices", "index", "string"} : \E c : Load(t, next, c)
          \/ Return(t)
      BY <1>7, Zenon DEF GetDisplay, QueryDevices, GetProcAddress, QueryString
    <3> QED
      BY <1>2, <3>1 DEF Load, Goto, Return
  <2> QED
    BY <2>1 DEF ThreadTells
<1> QED
  BY <1>1, <1>5, <1>6, <1>7, TellsStep DEF Asks

LEMMA StepTells ==
  ASSUME ListInv, ErrorTellsWhy, NEW t \in Thread, Step(t)
  PROVE  ErrorTellsWhy'
<1>1. ListMove(t) /\ Moves(t)
  BY StepListMove
<1>2. DataOK /\ CallsOK /\ call[t] \in CallType /\ CallOK(pc[t], call[t])
  BY ThreadFacts
<1>3. CASE GuessPlatformType(t)
  <2>1. \/ Finish(t, [call[t] EXCEPT !.said = {"success"}], "success")
        \/ \E p : Goto(t, "platform", [call[t] EXCEPT !.platform = p])
    BY <1>3, Zenon DEF GuessPlatformType
  <2>2. CASE Finish(t, [call[t] EXCEPT !.said = {"success"}], "success")
    <3>1. pc[t] = "guess"
      BY <1>3, Zenon DEF GuessPlatformType
    <3>2. call[t].handle = None
      BY <1>2, <3>1 DEF CallOK, Doing
    <3>3. PICK c \in CallType :
            Finish(t, c, "success") /\ c.handle = None /\ c.said = {"success"}
      <4> PICK c : c = [call[t] EXCEPT !.said = {"success"}]
        OBVIOUS
      <4>1. c \in CallType /\ c.handle = None /\ c.said = {"success"}
        BY <1>2, <3>2 DEF CallType
      <4> QED
        BY <2>2, <4>1
    <3>4. PICK d : d = call'[t]
      OBVIOUS
    <3>5. /\ pc'[t] = "done" /\ d.handle = None /\ d.error = "success" /\ d.said = {"success"}
      <4>1. /\ pc'[t] = "done" /\ call'[t].handle = c.handle /\ call'[t].error = "success"
            /\ call'[t].said = c.said
        <5>1. "success" \in Error
          BY DEF Error
        <5> QED
          BY <1>2, <3>3, <5>1, FinishedCall
      <4> QED
        BY <3>3, <3>4, <4>1
    <3>6. Tells(d)
      BY <3>5 DEF Tells
    <3>7. ThreadTells(pc[t], call[t])'
      BY <3>4, <3>5, <3>6 DEF ThreadTells, Tells
    <3> QED
      BY <1>1, <3>7, TellsStep
  <2>3. CASE \E p : Goto(t, "platform", [call[t] EXCEPT !.platform = p])
    <3>1. ThreadTells(pc[t], call[t])'
      BY <1>2, <2>3 DEF Goto, ThreadTells, CallsOK, ThreadOK
    <3> QED
      BY <1>1, <3>1, TellsStep
  <2> QED
    BY <2>1, <2>2, <2>3
<1>4. CASE FindPlatform(t)
  <2>1. CASE Refused(t)
    <3>1. ThreadTells(pc[t], call[t])'
      BY <1>2, <2>1, Moved DEF Refused, ThreadTells, Tells
    <3> QED
      BY <1>1, <3>1, TellsStep
  <2>2. CASE DeviceFound(t)
    <3>1. ThreadTells(pc[t], call[t])'
      BY <1>2, <2>2, Moved DEF DeviceFound, ThreadTells
    <3> QED
      BY <1>1, <3>1, TellsStep
  <2>3. CASE Move(t, "scan", call[t]) /\ vendorList # <<>>
    <3>1. pc[t] = "platform" /\ vendorList' = vendorList
      BY <1>4, Zenon DEF FindPlatform, vendorVars
    <3>2. call[t].pos = 1
      BY <1>2, <3>1 DEF CallOK
    <3>3. pc'[t] = "scan" /\ call'[t] = call[t]
      BY <1>2, <2>3, Moved
    <3>4. ThreadTells(pc[t], call[t])'
      BY <2>3, <3>1, <3>2, <3>3 DEF ThreadTells
    <3> QED
      BY <1>1, <3>4, TellsStep
  <2> QED
    BY <1>4, <2>1, <2>2, <2>3, FindPlatformCases
<1>5. CASE AskVendor(t)
  <2>1. pc[t] = "scan" /\ vendorList' = vendorList
    BY <1>5, Zenon DEF AskVendor, vendorVars
  <2>2. vendorList # <<>>
    BY <2>1, TellsParts DEF ThreadTells
  <2>3. CASE DisplayFound(t)
    BY <1>1, <1>2, <2>3, Moved, TellsStep DEF DisplayFound, ThreadTells
  <2>4. CASE NextAsked(t)
    <3>1. PICK c : Move(t, "scan", c) /\ c.said # {}
      BY <2>4 DEF NextAsked
    <3>2. pc'[t] = "scan" /\ call'[t] = c
      BY <1>2, <3>1, Moved
    <3>3. ThreadTells(pc[t], call[t])'
      BY <2>1, <2>2, <3>1, <3>2 DEF ThreadTells
    <3> QED
      BY <1>1, <3>3, TellsStep
  <2> QED
    BY <1>5, <2>3, <2>4, AskVendorCases
<1>6. CASE NoVendorHasDisplay(t)
  <2>1. /\ pc[t] = "scan" /\ call[t].pos > Len(vendorList)
        /\ Finish(t, call[t], NoDisplay(call[t]))
    BY <1>6 DEF NoVendorHasDisplay
  <2>2. /\ call[t].handle = None /\ call[t].pos \in Nat /\ call[t].said \subseteq {"success", "error"}
    BY <1>2, <2>1, CallFields DEF CallOK, Doing
  <2>3. vendorList # <<>> /\ (call[t].said = {} => call[t].pos = 1)
    BY <2>1, TellsParts DEF ThreadTells
  <2>4. vendorList \in Seq(Vendor)
    BY <1>2 DEF DataOK
  <2>5. Len(vendorList) \in Nat /\ Len(vendorList) # 0
    BY <2>3, <2>4
  <2>6. call[t].said # {}
    BY <2>1, <2>2, <2>3, <2>5
  <2> PICK e : e = NoDisplay(call[t])
    OBVIOUS
  <2>7. /\ e \in Error
        /\ e = "success" => "success" \in call[t].said
        /\ e = "vendor's" => call[t].said = {"error"}
    BY <2>2, <2>6 DEF NoDisplay, Error
  <2>8. PICK f : /\ Move(t, "done", f) /\ f.op = call[t].op /\ f.handle = call[t].handle
                 /\ f.vendor = call[t].vendor /\ f.error = e /\ f.said = call[t].said
    BY <1>2, <2>1, <2>7, FinishedSo
  <2>9. pc'[t] = "done" /\ call'[t] = f
    BY <1>2, <2>8, Moved
  <2>10. Tells(f)
    BY <2>2, <2>7, <2>8 DEF Tells
  <2>11. ThreadTells(pc[t], call[t])'
    BY <2>9, <2>10 DEF ThreadTells, Tells
  <2> QED
    BY <1>1, <2>11, TellsStep
<1>7. CASE RecordDisplay(t)
  <2>1. Recorded(t) \/ Lost(t)
    BY <1>7, RecordDisplayCases
  <2>2. PICK c : Move(t, "done", c) /\ Tells(c)
    <3>1. CASE Recorded(t)
      <4>1. PICK c : Move(t, "done", c) /\ c.error = "success" /\ c.handle = call[t].handle
        BY <3>1 DEF Recorded
      <4>2. c.handle # None
        <5>1. call[t].handle \in Handle
          BY <1>7, RecordDisplayCases
        <5> QED
          BY <4>1, <5>1, ConstantsAssumption
      <4> QED
        BY <4>1, <4>2 DEF Tells
    <3>2. CASE Lost(t)
      BY <3>2 DEF Lost, Tells
    <3> QED
      BY <2>1, <3>1, <3>2
  <2>3. pc'[t] = "done" /\ call'[t] = c
    BY <1>2, <2>2, Moved
  <2>4. ThreadTells(pc[t], call[t])'
    BY <2>2, <2>3 DEF ThreadTells, Tells
  <2> QED
    BY <1>1, <2>4, TellsStep
<1>8. CASE ~(\/ GuessPlatformType(t) \/ FindPlatform(t) \/ AskVendor(t)
             \/ NoVendorHasDisplay(t) \/ RecordDisplay(t))
  <2>1. pc[t] \notin {"idle", "guess", "platform", "scan", "add"}
    <3>1. \/ WaitForVendors(t) \/ LoadVendors(t) \/ LoadVendorFromConfigFile(t) \/ VendorsLoaded(t)
          \/ QueryVendorDevices(t) \/ DevicesQueried(t) \/ FindAddress(t) \/ LockIndex(t)
          \/ AllocIndex(t) \/ TellVendor(t) \/ CacheProcAddress(t) \/ FetchDispatchEntry(t)
          \/ CallVendor(t) \/ LockString(t) \/ MergeStrings(t) \/ Done(t)
      BY <1>8, Zenon DEF Step
    <3>2. pc[t] \in {"load", "file", "devices", "index", "stub", "tell", "cache", "fetch", "call",
                     "string", "merge", "done"}
      BY <3>1, Zenon
       DEF WaitForVendors, LoadVendors, LoadVendorFromConfigFile, VendorsLoaded,
           QueryVendorDevices, DevicesQueried, FindAddress, LockIndex,
           AllocIndex, TellVendor, CacheProcAddress, FetchDispatchEntry, CallVendor,
           LockString, MergeStrings, Done
    <3> QED
      BY <3>2
  <2>2. PICK l, c : Move(t, l, c) /\ Place(t, l, c)
    BY <1>1 DEF Moves
  <2>3. pc'[t] = l /\ call'[t] = c
    BY <1>2, <2>2, Moved
  <2>4. ThreadTells(pc[t], call[t])'
    BY <2>1, <2>2, <2>3 DEF ThreadTells, Place
  <2> QED
    BY <1>1, <2>4, TellsStep
<1> QED
  BY <1>3, <1>4, <1>5, <1>6, <1>7, <1>8

\* When eglGetDisplay or eglGetPlatformDisplay returns no display, the error says why: success
\* only if some vendor had no error, or had the display but it could not be recorded; a
\* vendor's error only if every vendor that was asked had one (libegl.c:338).
THEOREM ErrorInvariant == Spec => []ErrorTellsWhy
<1>1. Init => ErrorTellsWhy
  BY DEF Init, ErrorTellsWhy
<1>2. ListInv /\ ErrorTellsWhy /\ [Next]_vars => ErrorTellsWhy'
  <2> SUFFICES ASSUME ListInv, ErrorTellsWhy, [Next]_vars
               PROVE  ErrorTellsWhy'
    OBVIOUS
  <2>1. CASE Unload \/ UNCHANGED vars
    BY <2>1 DEF Unload, vars, vendorVars, threadVars, ErrorTellsWhy
  <2>2. ASSUME NEW t \in Thread,
               (\E d \in Device : QueryDisplayAttrib(t, d)) \/ Fork(t) \/ ResetOnFork(t)
        PROVE  ErrorTellsWhy'
    <3>1. /\ vendorList' = vendorList
          /\ UNCHANGED <<pc, call>> \/ pc' = [u \in Thread |-> "idle"]
      BY <2>2, Zenon DEF QueryDisplayAttrib, Fork, ResetOnFork, vendorVars, threadVars
    <3> QED
      BY <3>1 DEF ErrorTellsWhy
  <2> QED
    BY <2>1, <2>2, Steps, StepTells, AsksTells, Zenon
<1> QED
  BY <1>1, <1>2, ListInvariant, PTL DEF Spec

-----------------------------------------------------------------------------
(* AddressesWork.                                                          *)

ThreadIndex(t) ==
  LET c == call[t] IN
  /\ pc[t] \in {"stub", "tell"} => indexLock = t
  /\ pc[t] = "stub" => index[c.name] = None
  /\ pc[t] \in {"tell", "cache"} => c.vendor # None /\ c.vendor = index[c.name]
  /\ pc[t] = "tell" => /\ c.pos <= Len(vendorList)
                       /\ \A k \in DOMAIN vendorList : k < c.pos => c.name \in told[vendorList[k]]
  /\ pc[t] = "cache" => ToldAll(c.name)
  /\ pc[t] = "fetch" => cache[c.name] # None
  /\ pc[t] = "done" /\ c.op = "call" /\ c.error = "display" =>
       c.vendor = None \/ c.vendor \notin Provided[c.name]

NameIndex(n) ==
  index[n] # None =>
    /\ once = "done" /\ index[n] \in Loaded
    /\ ToldAll(n) \/ \E t \in Thread : pc[t] = "tell" /\ call[t].name = n

NameCache(n) == cache[n] # None => index[n] = cache[n] /\ ToldAll(n)

LEMMA AddressParts ==
  AddressesWork <=> /\ \A t \in Thread : ThreadIndex(t)
                    /\ \A n \in Name : NameIndex(n) /\ NameCache(n)
BY DEF AddressesWork, AddressUsable, CallReachesVendor, IndexOK, ThreadIndex, NameIndex, NameCache,
       ToldAll

\* The names that vendors have been told, indices and cached addresses only grow, and
\* only who has the lock to itself changes it or the indices.
Grow(t) ==
  /\ \A v \in Vendor : told[v] \subseteq told'[v]
  /\ \A n \in Name : /\ index[n] # None => index'[n] = index[n]
                     /\ cache[n] # None => cache'[n] = cache[n]
  /\ \/ indexLock' = indexLock /\ index' = index
     \/ \A u \in Thread \ {t} : pc[u] \notin {"stub", "tell"}

LEMMA ToldGrow ==
  ASSUME DataOK, NEW n, vendorList' = vendorList, ToldAll(n),
         \A v \in Vendor : told[v] \subseteq told'[v]
  PROVE  ToldAll(n)'
BY ListedVendors DEF DataOK, ToldAll, Loaded

\* What other threads and names keep.
LEMMA OthersIndexed ==
  ASSUME ListInv, AddressesWork, NEW t \in Thread, ListMove(t), Moves(t), Grow(t)
  PROVE  /\ \A u \in Thread \ {t} : ThreadIndex(u)'
         /\ \A n \in Name : cache'[n] = cache[n] => NameCache(n)'
         /\ \A n \in Name :
              index'[n] = index[n] /\ ~(pc[t] = "tell" /\ call[t].name = n) => NameIndex(n)'
<1>1. PICK l, c : Move(t, l, c)
  BY DEF Moves
<1>2. \A u \in Thread \ {t} : pc'[u] = pc[u] /\ call'[u] = call[u]
  BY <1>1, ThreadFacts, Moved
<1>3. once = "done" => once' = "done" /\ vendorList' = vendorList
  BY ThreadFacts DEF ListMove, ListInv, LoadingOK
<1>4. DataOK /\ \A v \in Vendor : told[v] \subseteq told'[v]
  BY ThreadFacts DEF Grow
<1>5. ASSUME NEW u \in Thread, u # t
      PROVE  ThreadIndex(u)'
  <2> PICK d : d = call[u]
    OBVIOUS
  <2>1. pc'[u] = pc[u] /\ call'[u] = d /\ ThreadIndex(u) /\ CallOK(pc[u], d) /\ d \in CallType
    BY <1>2, <1>5, AddressParts, ThreadFacts
  <2>2. pc[u] \in {"stub", "tell", "cache", "fetch"} => d.name \in Name
    BY <2>1, CallFields DEF CallOK, Doing
  <2>3. pc[u] \in {"stub", "tell", "cache"} => vendorList' = vendorList
    BY <1>3, ThreadFacts
  <2>4. pc[u] \in {"stub", "tell"} => indexLock' = u
    BY <1>5, <2>1 DEF ThreadIndex, Grow
  <2>5. pc[u] = "stub" => index'[d.name] = None
    BY <1>5, <2>1 DEF ThreadIndex, Grow
  <2>6. pc[u] \in {"tell", "cache"} => d.vendor # None /\ d.vendor = index'[d.name]
    BY <2>1, <2>2 DEF ThreadIndex, Grow
  <2>7. pc[u] = "tell" => /\ d.pos <= Len(vendorList')
                          /\ \A k \in DOMAIN vendorList' :
                               k < d.pos => d.name \in told'[vendorList'[k]]
    <3>1. CASE pc[u] = "tell"
      <4>1. /\ d.pos <= Len(vendorList)
            /\ \A k \in DOMAIN vendorList : k < d.pos => d.name \in told[vendorList[k]]
        BY <2>1, <3>1 DEF ThreadIndex
      <4>2. \A k \in DOMAIN vendorList : vendorList[k] \in Vendor
        BY <1>4, ListedVendors DEF DataOK
      <4> QED
        BY <1>4, <2>3, <3>1, <4>1, <4>2
    <3> QED
      BY <3>1
  <2>8. pc[u] = "cache" => ToldAll(d.name)'
    <3>1. CASE pc[u] = "cache"
      <4> PICK n : n = d.name
        OBVIOUS
      <4>1. ToldAll(n)
        BY <2>1, <3>1 DEF ThreadIndex
      <4>2. ToldAll(n)'
        BY <1>4, <2>3, <3>1, <4>1, ToldGrow
      <4> QED
        BY <4>2
    <3> QED
      BY <3>1
  <2>9. pc[u] = "fetch" => cache'[d.name] # None
    BY <2>1, <2>2 DEF ThreadIndex, Grow
  <2>10. pc[u] = "done" /\ d.op = "call" /\ d.error = "display" =>
           d.vendor = None \/ d.vendor \notin Provided[d.name]
    BY <2>1 DEF ThreadIndex
  <2> QED
    BY <2>1, <2>4, <2>5, <2>6, <2>7, <2>8, <2>9, <2>10 DEF ThreadIndex, ToldAll
<1>6. ASSUME NEW n \in Name, cache'[n] = cache[n]
      PROVE  NameCache(n)'
  <2>1. CASE cache[n] = None
    BY <1>6, <2>1 DEF NameCache
  <2>2. CASE cache[n] # None
    <3>1. index[n] = cache[n] /\ ToldAll(n) /\ once = "done"
      BY <2>2, AddressParts DEF NameCache, NameIndex
    <3>2. index'[n] = cache'[n]
      BY <1>6, <2>2, <3>1 DEF Grow
    <3> QED
      BY <1>3, <1>4, <3>1, <3>2, ToldGrow DEF NameCache
  <2> QED
    BY <2>1, <2>2
<1>7. ASSUME NEW n \in Name, index'[n] = index[n], ~(pc[t] = "tell" /\ call[t].name = n)
      PROVE  NameIndex(n)'
  <2>1. CASE index[n] = None
    BY <1>7, <2>1 DEF NameIndex
  <2>2. CASE index[n] # None
    <3>1. /\ once = "done" /\ index[n] \in Loaded
          /\ ToldAll(n) \/ \E u \in Thread : pc[u] = "tell" /\ call[u].name = n
      BY <2>2, AddressParts DEF NameIndex
    <3>2. vendorList' = vendorList /\ once' = "done"
      BY <1>3, <3>1
    <3>3. ToldAll(n) => ToldAll(n)'
      BY <1>4, <3>2, ToldGrow
    <3>4. (\E u \in Thread : pc[u] = "tell" /\ call[u].name = n)
          => \E u \in Thread : pc'[u] = "tell" /\ call'[u].name = n
      BY <1>2, <1>7
    <3>5. index'[n] \in Loaded'
      BY <1>7, <3>1, <3>2 DEF Loaded
    <3> QED
      BY <3>1, <3>2, <3>3, <3>4, <3>5 DEF NameIndex
  <2> QED
    BY <2>1, <2>2
<1> QED
  BY <1>5, <1>6, <1>7

LEMMA AllIndexed ==
  ASSUME \A u \in Thread : ThreadIndex(u)', \A n \in Name : NameIndex(n)' /\ NameCache(n)'
  PROVE  AddressesWork'
BY DEF AddressesWork, AddressUsable, CallReachesVendor, IndexOK, ThreadIndex, NameIndex, NameCache,
       ToldAll

\* The steps that leave the indices alone.
LEMMA IndicesKept ==
  ASSUME ListInv, AddressesWork, NEW t \in Thread, ListMove(t), Moves(t), pc[t] # "tell",
         UNCHANGED <<told, index, indexLock, cache>>, ThreadIndex(t)'
  PROVE  AddressesWork'
<1>1. Grow(t)
  BY DEF Grow
<1> QED
  BY <1>1, OthersIndexed, AllIndexed

LEMMA NothingIndexed ==
  ASSUME NEW t \in Thread, pc'[t] \notin {"stub", "tell", "cache", "fetch"},
         pc'[t] = "done" => call'[t].op # "call" \/ call'[t].error # "display"
  PROVE  ThreadIndex(t)'
BY DEF ThreadIndex

LEMMA AsksIndices ==
  ASSUME ListInv, AddressesWork, NEW t \in Thread, Asks(t)
  PROVE  AddressesWork'
<1>1. ListMove(t) /\ Moves(t)
  BY StepListMove
<1>2. DataOK /\ CallsOK /\ pc[t] = "idle" /\ UNCHANGED <<told, index, indexLock, cache>>
  BY ThreadFacts, AsksForData DEF indexVars
<1>3. pc'[t] \notin {"stub", "tell", "cache"}
  BY <1>1, <1>2, Moved DEF Moves, Place
<1>4. ASSUME NEW p \in Platform, NEW n \in Native, GetPlatformDisplay(t, p, n)
      PROVE  ThreadIndex(t)'
  <2>1. PICK c \in CallType :
          /\ c.op = "display"
          /\ Load(t, "platform", c) \/ \E e \in {"parameter", "alloc"} : Finish(t, c, e)
    <3> PICK c : c = [NoCall EXCEPT !.op = "display", !.platform = p, !.native = n]
      OBVIOUS
    <3>1. c \in CallType /\ c.op = "display"
      BY DEF NoCall, CallType, Error
    <3>2. Finish(t, c, "parameter") \/ Load(t, "platform", c) \/ Finish(t, c, "alloc")
      BY <1>4 DEF GetPlatformDisplay
    <3> QED
      BY <3>1, <3>2
  <2>2. CASE Load(t, "platform", c)
    BY <1>2, <2>2, NothingIndexed DEF Load, Goto, CallsOK, ThreadOK
  <2>3. ASSUME NEW e \in {"parameter", "alloc"}, Finish(t, c, e)
        PROVE  ThreadIndex(t)'
    <3>1. e \in Error
      BY DEF Error
    <3> QED
      BY <1>2, <2>1, <2>3, <3>1, FinishedCall, NothingIndexed
  <2> QED
    BY <2>1, <2>2, <2>3
<1>5. ASSUME NEW n \in Name, NEW h \in Handle, CallFunction(t, n, h)
      PROVE  ThreadIndex(t)'
  <2>1. PICK c \in CallType :
          /\ c.vendor = displays[h] /\ c.name = n /\ cache[n] # None
          /\ \/ displays[h] = None /\ Finish(t, c, "display")
             \/ \E l \in {"fetch", "call"} : Goto(t, l, c)
    <3> PICK c : c = [NoCall EXCEPT !.op = "call", !.name = n, !.handle = h,
                                    !.vendor = displays[h]]
      OBVIOUS
    <3>1. c \in CallType /\ c.vendor = displays[h] /\ c.name = n
      BY <1>2 DEF DataOK, NoCall, CallType, Error
    <3>2. /\ cache[n] # None
          /\ \/ displays[h] = None /\ Finish(t, c, "display")
             \/ \E l \in {"fetch", "call"} : Goto(t, l, c)
      BY <1>5 DEF CallFunction
    <3> QED
      BY <3>1, <3>2
  <2>2. CASE displays[h] = None /\ Finish(t, c, "display")
    <3>1. "display" \in Error
      BY DEF Error
    <3>2. pc'[t] = "done" /\ call'[t].vendor = None
      BY <1>2, <2>1, <2>2, <3>1, FinishedCall
    <3> QED
      BY <3>2 DEF ThreadIndex
  <2>3. CASE \E l \in {"fetch", "call"} : Goto(t, l, c)
    <3>1. pc'[t] \in {"fetch", "call"} /\ call'[t] = c
      BY <1>2, <2>3 DEF Goto, CallsOK, ThreadOK
    <3>2. cache'[c.name] # None
      BY <1>2, <2>1
    <3> QED
      BY <3>1, <3>2 DEF ThreadIndex
  <2> QED
    BY <2>1, <2>2, <2>3
<1>6. ASSUME \/ \E n \in Native : GetDisplay(t, n)
             \/ \E max \in 0..Cardinality(Device) : QueryDevices(t, max)
             \/ \E n \in Name : GetProcAddress(t, n)
             \/ QueryString(t)
      PROVE  ThreadIndex(t)'
  <2>1. \/ \E next \in {"platform", "guess", "devices", "index", "string"} :
           \E c : Load(t, next, c)
        \/ Return(t)
    BY <1>6, Zenon DEF GetDisplay, QueryDevices, GetProcAddress, QueryString
  <2>2. pc'[t] \in {"load", "platform", "guess", "devices", "index", "string", "idle"}
    BY <1>2, <2>1 DEF Load, Goto, Return, CallsOK, ThreadOK
  <2> QED
    BY <2>2, NothingIndexed
<1> QED
  BY <1>1, <1>2, <1>4, <1>5, <1>6, IndicesKept DEF Asks

LEMMA AddressIndices ==
  ASSUME ListInv, AddressesWork, NEW t \in Thread,
         FindAddress(t) \/ LockIndex(t) \/ CacheProcAddress(t)
  PROVE  AddressesWork'
<1>1. ListMove(t) /\ Moves(t)
  BY StepListMove DEF Step
<1>2. DataOK /\ CallsOK /\ call[t] \in CallType /\ CallOK(pc[t], call[t])
  BY ThreadFacts
<1>3. CASE FindAddress(t)
  <2>1. /\ pc[t] = "index" /\ call[t].name \in Name /\ index[call[t].name] # None
        /\ indexLock = None /\ AddressKnown(t)
    BY <1>3, FindAddressCases
  <2>2. UNCHANGED <<vendorList, told, index, indexLock, cache>>
    BY <1>3, Zenon DEF FindAddress, vendorVars, indexVars
  <2>3. PICK c : /\ Move(t, "cache", c) /\ c.name = call[t].name /\ c.vendor = index[c.name]
    BY <2>1 DEF AddressKnown
  <2>4. pc'[t] = "cache" /\ call'[t] = c
    BY <1>2, <2>3, Moved
  <2>5. \A u \in Thread : pc[u] # "tell"
    BY <2>1, AddressParts, ConstantsAssumption DEF ThreadIndex
  <2>6. ToldAll(c.name)
    BY <2>1, <2>3, <2>5, AddressParts DEF NameIndex
  <2>7. ToldAll(c.name)'
    BY <2>2, <2>6 DEF ToldAll, Loaded
  <2>8. c.vendor # None /\ c.vendor = index'[c.name]
    BY <2>1, <2>2, <2>3
  <2>9. ThreadIndex(t)'
    BY <2>4, <2>7, <2>8 DEF ThreadIndex, ToldAll
  <2> QED
    BY <1>1, <2>1, <2>2, <2>9, IndicesKept
<1>4. CASE LockIndex(t)
  <2>1. /\ pc[t] = "index" /\ indexLock = None /\ index[call[t].name] = None
        /\ indexLock' = t /\ Goto(t, "stub", call[t])
        /\ UNCHANGED <<told, index, cache>>
    BY <1>4 DEF LockIndex
  <2>2. \A u \in Thread : pc[u] \notin {"stub", "tell"}
    BY <2>1, AddressParts, ConstantsAssumption DEF ThreadIndex
  <2>3. Grow(t)
    BY <2>1, <2>2 DEF Grow
  <2>4. pc'[t] = "stub" /\ call'[t] = call[t]
    BY <1>2, <2>1 DEF Goto, CallsOK, ThreadOK
  <2>5. ThreadIndex(t)'
    BY <2>1, <2>4 DEF ThreadIndex
  <2> QED
    BY <1>1, <2>1, <2>3, <2>5, OthersIndexed, AllIndexed
<1>5. CASE CacheProcAddress(t)
  <2> PICK n : n = call[t].name
    OBVIOUS
  <2>1. /\ pc[t] = "cache" /\ Return(t)
        /\ \/ cache[n] = None /\ cache' = [cache EXCEPT ![n] = call[t].vendor]
           \/ cache' = cache
        /\ UNCHANGED <<vendorList, told, index, indexLock>>
    BY <1>5 DEF CacheProcAddress, vendorVars
  <2>2. n \in Name
    BY <1>2, <2>1, CallFields DEF CallOK, Doing
  <2>3. call[t].vendor = index[n] /\ ToldAll(n)
    BY <2>1, AddressParts DEF ThreadIndex
  <2>4. \A m \in Name : cache'[m] = IF m = n /\ cache' # cache THEN index[n] ELSE cache[m]
    BY <1>2, <2>1, <2>2, <2>3 DEF DataOK
  <2>5. Grow(t)
    BY <1>2, <2>1, <2>2 DEF Grow, DataOK
  <2>6. pc'[t] = "idle"
    BY <1>2, <2>1 DEF Return, Goto, CallsOK, ThreadOK
  <2>7. ToldAll(n)'
    BY <2>1, <2>3 DEF ToldAll, Loaded
  <2>8. ASSUME NEW m \in Name
        PROVE  NameCache(m)'
    <3>1. CASE cache'[m] = cache[m]
      BY <1>1, <2>5, <3>1, OthersIndexed
    <3>2. CASE cache'[m] # cache[m]
      <4>1. m = n /\ cache'[m] = index[m]
        BY <2>4, <3>2
      <4> QED
        BY <2>1, <2>7, <4>1 DEF NameCache
    <3> QED
      BY <3>1, <3>2
  <2> QED
    BY <1>1, <2>1, <2>5, <2>6, <2>8, NothingIndexed, OthersIndexed, AllIndexed
<1> QED
  BY <1>3, <1>4, <1>5

LEMMA AllocIndices ==
  ASSUME ListInv, AddressesWork, NEW t \in Thread, AllocIndex(t)
  PROVE  AddressesWork'
<1>1. ListMove(t) /\ Moves(t)
  BY StepListMove DEF Step
<1>2. DataOK /\ CallsOK
  BY ThreadFacts
<1>3. /\ pc[t] = "stub" /\ call[t].name \in Name
      /\ \/ IndexNew(t) /\ indexLock' = indexLock
         \/ Return(t) /\ indexLock' = None /\ index' = index
  BY AllocIndexCases
<1>4. UNCHANGED <<once, vendorList, told, cache>>
  BY Zenon DEF AllocIndex, vendorVars
<1>5. /\ indexLock = t /\ index[call[t].name] = None /\ once = "done"
      /\ \A u \in Thread \ {t} : pc[u] \notin {"stub", "tell"}
  BY <1>3, AddressParts, ThreadFacts DEF ThreadIndex
<1>6. CASE IndexNew(t) /\ indexLock' = indexLock
  <2>1. PICK c : /\ Move(t, "tell", c) /\ c.name = call[t].name /\ c.pos = 1
                 /\ c.vendor \in Loaded /\ c.vendor \in Vendor /\ Len(vendorList) > 0
                 /\ index' = [index EXCEPT ![call[t].name] = c.vendor]
    BY <1>6 DEF IndexNew
  <2>2. pc'[t] = "tell" /\ call'[t] = c
    BY <1>2, <2>1, Moved
  <2>3. \A n \in Name : index'[n] = IF n = c.name THEN c.vendor ELSE index[n]
    BY <1>2, <1>3, <2>1 DEF DataOK
  <2>4. Grow(t)
    BY <1>3, <1>4, <1>5, <2>1, <2>3 DEF Grow
  <2>5. /\ c.pos <= Len(vendorList')
        /\ \A k \in DOMAIN vendorList' : ~(k < c.pos)
    BY <1>2, <1>4, <2>1, ListedVendors DEF DataOK
  <2>6. c.vendor # None /\ c.vendor = index'[c.name] /\ indexLock' = t
    BY <1>3, <1>5, <1>6, <2>1, <2>3, ConstantsAssumption
  <2>7. ThreadIndex(t)'
    BY <2>2, <2>5, <2>6 DEF ThreadIndex
  <2>8. ASSUME NEW n \in Name
        PROVE  NameIndex(n)'
    <3>1. CASE n = c.name
      <4>1. index'[n] \in Loaded' /\ once' = "done"
        BY <1>4, <1>5, <2>1, <2>3, <3>1 DEF Loaded
      <4>2. pc'[t] = "tell" /\ call'[t].name = n
        BY <2>2, <3>1
      <4> QED
        BY <4>1, <4>2 DEF NameIndex
    <3>2. CASE n # c.name
      BY <1>1, <1>3, <2>3, <2>4, <3>2, OthersIndexed
    <3> QED
      BY <3>1, <3>2
  <2> QED
    BY <1>1, <1>4, <2>4, <2>7, <2>8, OthersIndexed, AllIndexed
<1>7. CASE Return(t) /\ indexLock' = None /\ index' = index
  <2>1. Grow(t)
    BY <1>4, <1>5, <1>7 DEF Grow
  <2>2. pc'[t] = "idle"
    BY <1>2, <1>7 DEF Return, Goto, CallsOK, ThreadOK
  <2> QED
    BY <1>1, <1>3, <1>4, <1>7, <2>1, <2>2, NothingIndexed, OthersIndexed, AllIndexed
<1> QED
  BY <1>3, <1>6, <1>7

LEMMA TellIndices ==
  ASSUME ListInv, AddressesWork, NEW t \in Thread, TellVendor(t)
  PROVE  AddressesWork'
<1> PICK k : k = call[t].pos
  OBVIOUS
<1> PICK n : n = call[t].name
  OBVIOUS
<1>1. ListMove(t) /\ Moves(t)
  BY StepListMove DEF Step
<1>2. DataOK /\ CallsOK
  BY ThreadFacts
<1>3. pc[t] = "tell" /\ n \in Name /\ k \in Nat \ {0} /\ Told(t)
  BY TellVendorCases
<1>4. UNCHANGED <<once, vendorList, index, cache>>
  BY Zenon DEF TellVendor, vendorVars
<1>5. /\ indexLock = t /\ once = "done" /\ call[t].vendor # None /\ call[t].vendor = index[n]
      /\ k <= Len(vendorList)
      /\ \A j \in DOMAIN vendorList : j < k => n \in told[vendorList[j]]
      /\ \A u \in Thread \ {t} : pc[u] \notin {"stub", "tell"}
  BY <1>3, AddressParts, ThreadFacts DEF ThreadIndex
<1>6. PICK c : /\ Move(t, IF k = Len(vendorList) THEN "cache" ELSE "tell", c)
               /\ c.name = n /\ c.vendor = call[t].vendor /\ c.pos = k + 1
  BY <1>3 DEF Told
<1>7. /\ indexLock' = IF k = Len(vendorList) THEN None ELSE indexLock
      /\ told' = [told EXCEPT ![vendorList[k]] = told[vendorList[k]] \cup {n}]
  BY <1>3 DEF Told
<1>8. pc'[t] = (IF k = Len(vendorList) THEN "cache" ELSE "tell") /\ call'[t] = c
  BY <1>2, <1>6, Moved
<1>9. /\ Len(vendorList) \in Nat /\ k \in DOMAIN vendorList
      /\ \A j \in DOMAIN vendorList : j \in Nat /\ vendorList[j] \in Vendor
  BY <1>2, <1>3, <1>5, ListedVendors DEF DataOK
<1>10. /\ \A v \in Vendor : told[v] \subseteq told'[v]
       /\ n \in told'[vendorList[k]]
  BY <1>2, <1>7, <1>9 DEF DataOK
<1>11. Grow(t)
  BY <1>4, <1>5, <1>10 DEF Grow
<1>12. \A j \in DOMAIN vendorList : j < k + 1 => n \in told'[vendorList[j]]
  <2>1. ASSUME NEW j \in DOMAIN vendorList, j < k + 1
        PROVE  n \in told'[vendorList[j]]
    <3>1. j < k \/ j = k
      BY <1>3, <1>9, <2>1
    <3> QED
      BY <1>5, <1>9, <1>10, <3>1
  <2> QED
    BY <2>1
<1>13. k = Len(vendorList) => ToldAll(n)'
  <2>1. ASSUME k = Len(vendorList), NEW v \in Loaded
        PROVE  n \in told'[v]
    <3>1. PICK j \in DOMAIN vendorList : vendorList[j] = v
      BY <1>2, ListedVendors DEF DataOK
    <3>2. j <= Len(vendorList)
      BY <1>2, ListedVendors DEF DataOK
    <3> QED
      BY <1>3, <1>9, <1>12, <2>1, <3>1, <3>2
  <2> QED
    BY <1>4, <2>1 DEF ToldAll, Loaded
<1>14. ThreadIndex(t)'
  <2>1. CASE k = Len(vendorList)
    <3>1. pc'[t] = "cache" /\ call'[t] = c
      BY <1>8, <2>1
    <3>2. c.vendor # None /\ c.vendor = index'[c.name]
      BY <1>4, <1>5, <1>6
    <3>3. ToldAll(c.name)'
      BY <1>6, <1>13, <2>1 DEF ToldAll
    <3> QED
      BY <3>1, <3>2, <3>3 DEF ThreadIndex, ToldAll
  <2>2. CASE k # Len(vendorList)
    <3>1. pc'[t] = "tell" /\ call'[t] = c
      BY <1>8, <2>2
    <3>2. c.vendor # None /\ c.vendor = index'[c.name] /\ indexLock' = t
      BY <1>4, <1>5, <1>6, <1>7, <2>2
    <3>3. c.pos <= Len(vendorList')
      BY <1>3, <1>4, <1>5, <1>6, <1>9, <2>2
    <3>4. \A j \in DOMAIN vendorList' : j < c.pos => c.name \in told'[vendorList'[j]]
      BY <1>4, <1>6, <1>12
    <3> QED
      BY <3>1, <3>2, <3>3, <3>4 DEF ThreadIndex
  <2> QED
    BY <2>1, <2>2
<1>15. ASSUME NEW m \in Name
       PROVE  NameIndex(m)'
  <2>1. CASE m # n
    BY <1>1, <1>4, <1>11, <2>1, OthersIndexed
  <2>2. CASE m = n
    <3>1. index[n] # None
      BY <1>5
    <3>2. index'[n] \in Loaded' /\ once' = "done"
      BY <1>3, <1>4, <1>5, <3>1, AddressParts DEF NameIndex, Loaded
    <3>3. ToldAll(n)' \/ (pc'[t] = "tell" /\ call'[t].name = n)
      BY <1>6, <1>8, <1>13
    <3> QED
      BY <2>2, <3>2, <3>3 DEF NameIndex
  <2> QED
    BY <2>1, <2>2
<1> QED
  BY <1>1, <1>4, <1>11, <1>14, <1>15, OthersIndexed, AllIndexed

\* A stub has its index, and all vendors know it: the function is not found only if the
\* vendor of the display has none.
LEMMA CallIndices ==
  ASSUME ListInv, AddressesWork, NEW t \in Thread, FetchDispatchEntry(t) \/ CallVendor(t)
  PROVE  AddressesWork'
<1>1. ListMove(t) /\ Moves(t)
  BY StepListMove DEF Step
<1>2. DataOK /\ CallsOK /\ call[t] \in CallType /\ CallOK(pc[t], call[t])
  BY ThreadFacts
<1>3. CASE FetchDispatchEntry(t)
  <2> PICK n : n = call[t].name
    OBVIOUS
  <2> PICK v : v = call[t].vendor
    OBVIOUS
  <2>1. /\ pc[t] = "fetch" /\ UNCHANGED <<told, index, indexLock, cache>>
        /\ \/ Goto(t, "call", call[t])
           \/ ~(n \in told[index[n]] /\ v \in Provided[n]) /\ Finish(t, call[t], "display")
    BY <1>3 DEF FetchDispatchEntry
  <2>2. n \in Name /\ call[t].op = "call"
    BY <1>2, <2>1, CallFields DEF CallOK
  <2>3. cache[n] # None
    BY <2>1, AddressParts DEF ThreadIndex
  <2>4. ToldAll(n) /\ index[n] \in Loaded
    BY <2>2, <2>3, AddressParts DEF NameCache, NameIndex
  <2>5. n \in told[index[n]]
    BY <2>4 DEF ToldAll
  <2>6. CASE Goto(t, "call", call[t])
    <3>1. pc'[t] = "call"
      BY <1>2, <2>6 DEF Goto, CallsOK, ThreadOK
    <3> QED
      BY <1>1, <2>1, <3>1, NothingIndexed, IndicesKept
  <2>7. CASE v \notin Provided[n] /\ Finish(t, call[t], "display")
    <3>1. "display" \in Error
      BY DEF Error
    <3>2. pc'[t] = "done" /\ call'[t].vendor = v /\ call'[t].name = n
      BY <1>2, <2>7, <3>1, FinishedCall
    <3>3. ThreadIndex(t)'
      BY <2>7, <3>2 DEF ThreadIndex
    <3> QED
      BY <1>1, <2>1, <3>3, IndicesKept
  <2> QED
    BY <2>1, <2>5, <2>6, <2>7
<1>4. CASE CallVendor(t)
  <2>1. /\ pc[t] = "call" /\ Finish(t, call[t], "ask")
        /\ UNCHANGED <<told, index, indexLock, cache>>
    BY <1>4 DEF CallVendor, indexVars
  <2>2. "ask" \in Error
    BY DEF Error
  <2>3. pc'[t] = "done" /\ call'[t].error = "ask"
    BY <1>2, <2>1, <2>2, FinishedCall
  <2> QED
    BY <1>1, <2>1, <2>3, NothingIndexed, IndicesKept
<1> QED
  BY <1>3, <1>4

LEMMA StepIndices ==
  ASSUME ListInv, AddressesWork, NEW t \in Thread, Step(t)
  PROVE  AddressesWork'
<1>1. CASE \/ FindAddress(t) \/ LockIndex(t) \/ AllocIndex(t) \/ TellVendor(t)
           \/ CacheProcAddress(t) \/ FetchDispatchEntry(t) \/ CallVendor(t)
  BY <1>1, AddressIndices, AllocIndices, TellIndices, CallIndices
<1>2. CASE \/ WaitForVendors(t) \/ LoadVendors(t) \/ LoadVendorFromConfigFile(t)
           \/ VendorsLoaded(t) \/ GuessPlatformType(t) \/ FindPlatform(t) \/ AskVendor(t)
           \/ NoVendorHasDisplay(t) \/ RecordDisplay(t) \/ QueryVendorDevices(t)
           \/ DevicesQueried(t) \/ LockString(t) \/ MergeStrings(t) \/ Done(t)
  <2>1. /\ UNCHANGED indexVars
        /\ pc[t] \in {"load", "file", "guess", "platform", "scan", "add", "devices",
                      "string", "merge", "done"}
    BY <1>2, Zenon
       DEF WaitForVendors, LoadVendors, LoadVendorFromConfigFile, VendorsLoaded,
           GuessPlatformType, FindPlatform, AskVendor, NoVendorHasDisplay, RecordDisplay,
           QueryVendorDevices, DevicesQueried, LockString, MergeStrings, Done
  <2>2. ListMove(t) /\ Moves(t)
    BY StepListMove
  <2>3. PICK l, c : Move(t, l, c) /\ Place(t, l, c)
    BY <2>2 DEF Moves
  <2>4. pc'[t] = l /\ call'[t] = c
    BY <2>3, ThreadFacts, Moved
  <2>5. /\ pc'[t] \notin {"stub", "tell", "cache", "fetch"}
        /\ pc'[t] = "done" => call'[t].op # "call"
    BY <2>1, <2>3, <2>4 DEF Place
  <2> QED
    BY <2>1, <2>2, <2>5, NothingIndexed, IndicesKept DEF indexVars
<1> QED
  BY <1>1, <1>2 DEF Step

\* A fork does not stop a thread that tells the vendors an index.
LEMMA OtherIndices ==
  ASSUME ~ForkDuringTell, ListInv, AddressesWork,
         \/ Unload
         \/ \E t \in Thread :
              (\E d \in Device : QueryDisplayAttrib(t, d)) \/ Fork(t) \/ ResetOnFork(t)
         \/ UNCHANGED vars
  PROVE  AddressesWork'
<1>1. CASE Unload
  <2>1. \A u \in Thread : pc'[u] = "idle"
    BY <1>1 DEF Unload, threadVars
  <2>2. \A n \in Name : index'[n] = None /\ cache'[n] = None
    BY <1>1 DEF Unload
  <2> QED
    BY <2>1, <2>2, NothingIndexed, AllIndexed DEF NameIndex, NameCache
<1>2. ASSUME NEW t \in Thread, Fork(t)
      PROVE  AddressesWork'
  <2>1. /\ (\E u \in Thread : pc[u] = "tell") => ForkDuringTell
        /\ pc' = [u \in Thread |-> "idle"]
        /\ UNCHANGED <<once, vendorList, told, index, cache>>
    BY <1>2, Zenon DEF Fork, vendorVars, indexVars
  <2>2. \A n \in Name : NameIndex(n)' /\ NameCache(n)'
    BY <2>1, AddressParts DEF NameIndex, NameCache, ToldAll, Loaded
  <2> QED
    BY <2>1, <2>2, NothingIndexed, AllIndexed
<1>3. ASSUME NEW t \in Thread, NEW d \in Device, QueryDisplayAttrib(t, d)
      PROVE  AddressesWork'
  <2>1. UNCHANGED <<once, vendorList, indexVars, threadVars>>
    BY <1>3, Zenon DEF QueryDisplayAttrib, vendorVars
  <2> QED
    BY <2>1, AddressParts, AllIndexed
       DEF indexVars, threadVars, ThreadIndex, NameIndex, NameCache, ToldAll, Loaded
<1>4. ASSUME NEW t \in Thread, ResetOnFork(t)
      PROVE  AddressesWork'
  <2>1. child /\ UNCHANGED <<once, vendorList, told, index, cache, threadVars>>
    BY <1>4, Zenon DEF ResetOnFork, vendorVars
  <2>2. \A u \in Thread : pc'[u] = "idle"
    BY <2>1 DEF ListInv, LoadingOK, threadVars
  <2>3. \A n \in Name : NameIndex(n)' /\ NameCache(n)'
    BY <2>1, AddressParts DEF NameIndex, NameCache, ToldAll, Loaded, threadVars
  <2> QED
    BY <2>2, <2>3, NothingIndexed, AllIndexed
<1>5. CASE UNCHANGED vars
  BY <1>5, AddressParts, AllIndexed
     DEF vars, vendorVars, indexVars, threadVars, ThreadIndex, NameIndex, NameCache, ToldAll, Loaded
<1> QED
  BY <1>1, <1>2, <1>3, <1>4, <1>5

\* An address that eglGetProcAddress has returned has an index that all vendors have been
\* told, so that a call on any vendor's display gets to that vendor's function, if it has one,
\* whatever fails and in whichever order the threads run.  A process must not fork while
\* another thread tells the vendors an index: the child would have an index that some vendors
\* do not know (libeglmapping.c:85-127).
THEOREM AddressesInvariant ==
  ASSUME ~ForkDuringTell
  PROVE  Spec => []AddressesWork
<1>1. Init => AddressesWork
  BY DEF Init, AddressesWork, AddressUsable, CallReachesVendor, IndexOK
<1>2. ListInv /\ AddressesWork /\ [Next]_vars => AddressesWork'
  BY Steps, StepIndices, AsksIndices, OtherIndices, Zenon
<1> QED
  BY <1>1, <1>2, ListInvariant, PTL DEF Spec

-----------------------------------------------------------------------------
(* HolderAlive.                                                            *)

AtIndex == {"stub", "tell"}

\* A thread takes a lock that is free, gives back its own, or changes neither the lock nor
\* whether it has it.
LockStep(t) ==
  /\ \/ indexLock' = indexLock /\ (pc[t] \in AtIndex <=> pc'[t] \in AtIndex)
     \/ indexLock = None /\ indexLock' = t /\ pc'[t] \in AtIndex
     \/ pc[t] \in AtIndex /\ indexLock' = None /\ pc'[t] \notin AtIndex
  /\ \/ stringLock' = stringLock /\ (pc[t] = "merge" <=> pc'[t] = "merge")
     \/ stringLock = None /\ stringLock' = t /\ pc'[t] = "merge"
     \/ pc[t] = "merge" /\ stringLock' = None /\ pc'[t] # "merge"
  /\ once' = "loading" => pc'[t] = "file" \/ (once = "loading" /\ pc[t] # "file")

LEMMA HolderStep ==
  ASSUME ListInv, HolderAlive, NEW t \in Thread, ListMove(t), Moves(t), LockStep(t)
  PROVE  HolderAlive'
<1>1. PICK l, c : Move(t, l, c)
  BY DEF Moves
<1>2. \A u \in Thread \ {t} : pc'[u] = pc[u]
  BY <1>1, ThreadFacts, Moved
<1>3. child' = FALSE /\ child = FALSE
  BY ThreadFacts DEF ListMove, DataOK
<1>4. indexLock \in Thread \cup {None} /\ stringLock \in Thread \cup {None} /\ None \notin Thread
  BY ThreadFacts, ConstantsAssumption DEF DataOK
<1>5. /\ indexLock # None => pc[indexLock] \in AtIndex
      /\ stringLock # None => pc[stringLock] = "merge"
      /\ once = "loading" => \E u \in Thread : pc[u] = "file"
      /\ \A u \in Thread : /\ pc[u] \in AtIndex => indexLock = u
                           /\ pc[u] = "merge" => stringLock = u
  BY <1>3 DEF HolderAlive, AtIndex
<1>6. indexLock' # None => pc'[indexLock'] \in AtIndex
  BY <1>2, <1>4, <1>5 DEF LockStep
<1>7. stringLock' # None => pc'[stringLock'] = "merge"
  BY <1>2, <1>4, <1>5 DEF LockStep
<1>8. once' = "loading" => \E u \in Thread : pc'[u] = "file"
  BY <1>2, <1>5 DEF LockStep
<1>9. ASSUME NEW u \in Thread
      PROVE  /\ pc'[u] \in AtIndex => indexLock' = u
             /\ pc'[u] = "merge" => stringLock' = u
  <2>1. CASE u = t
    BY <1>5, <2>1 DEF LockStep
  <2>2. CASE u # t
    <3>1. pc'[u] = pc[u]
      BY <1>2, <2>2
    <3>2. pc[u] \in AtIndex => indexLock' = u
      BY <1>4, <1>5, <2>2 DEF LockStep
    <3>3. pc[u] = "merge" => stringLock' = u
      BY <1>4, <1>5, <2>2 DEF LockStep
    <3> QED
      BY <3>1, <3>2, <3>3
  <2> QED
    BY <2>1, <2>2
<1> QED
  BY <1>6, <1>7, <1>8, <1>9 DEF HolderAlive, AtIndex

LEMMA StepLocks ==
  ASSUME ListInv, NEW t \in Thread, Step(t) \/ Asks(t)
  PROVE  LockStep(t)
<1>1. PICK l, c : Move(t, l, c) /\ Place(t, l, c)
  BY StepListMove DEF Moves
<1>2. CallsOK /\ pc'[t] = l /\ DOMAIN pc = Thread
  BY <1>1, ThreadFacts, Moved DEF CallsOK, ThreadOK
<1>3. ASSUME UNCHANGED <<indexVars, stringVars>>, once' # "loading" \/ once' = once,
             pc[t] \notin {"stub", "tell", "merge", "file", "string", "index"}
      PROVE  LockStep(t)
  BY <1>1, <1>2, <1>3 DEF LockStep, AtIndex, Place, indexVars, stringVars
<1>4. CASE Asks(t)
  BY <1>3, <1>4, AsksForData DEF vendorVars
<1>5. CASE \/ WaitForVendors(t)
           \/ GuessPlatformType(t) \/ FindPlatform(t) \/ AskVendor(t)
           \/ NoVendorHasDisplay(t) \/ RecordDisplay(t) \/ QueryVendorDevices(t)
           \/ DevicesQueried(t) \/ CallVendor(t) \/ Done(t)
  <2>1. /\ UNCHANGED <<indexVars, stringVars, once>>
        /\ pc[t] \in {"load", "guess", "platform", "scan", "add", "devices", "call", "done"}
    BY <1>5, Zenon
       DEF WaitForVendors, GuessPlatformType, FindPlatform, AskVendor, NoVendorHasDisplay,
           RecordDisplay, QueryVendorDevices, DevicesQueried, CallVendor, Done, vendorVars
  <2> QED
    BY <1>3, <2>1
<1>6. CASE LoadVendors(t) \/ LoadVendorFromConfigFile(t) \/ VendorsLoaded(t)
  <2>1. /\ UNCHANGED <<indexVars, stringVars>> /\ pc[t] \in {"load", "file"}
        /\ pc'[t] = "file" \/ once' = "done"
    BY <1>2, <1>6
       DEF LoadVendors, LoadVendorFromConfigFile, VendorsLoaded, Goto
  <2> QED
    BY <1>1, <1>2, <2>1 DEF LockStep, AtIndex, Place, indexVars, stringVars
<1>7. CASE FindAddress(t) \/ CacheProcAddress(t) \/ FetchDispatchEntry(t)
  <2>1. /\ UNCHANGED <<indexLock, stringVars, once>> /\ pc[t] \in {"index", "cache", "fetch"}
        /\ pc[t] = "index" => \E d : Goto(t, "cache", d)
    BY <1>7, Zenon DEF FindAddress, CacheProcAddress, FetchDispatchEntry, vendorVars, indexVars
  <2>2. pc'[t] \notin {"stub", "tell", "merge"}
    BY <1>1, <1>2, <2>1 DEF Place, Goto
  <2> QED
    BY <2>1, <2>2 DEF LockStep, AtIndex, stringVars
<1>8. CASE LockIndex(t)
  BY <1>2, <1>8 DEF LockIndex, Goto, LockStep, AtIndex, stringVars, vendorVars
<1>9. CASE AllocIndex(t)
  <2>1. /\ pc[t] = "stub" /\ UNCHANGED <<stringVars, once>>
        /\ \/ indexLock' = indexLock /\ pc'[t] = "tell"
           \/ indexLock' = None /\ pc'[t] = "idle"
    BY <1>2, <1>9 DEF AllocIndex, Goto, Return, vendorVars
  <2> QED
    BY <2>1 DEF LockStep, AtIndex, stringVars
<1>10. CASE TellVendor(t)
  <2>1. pc[t] = "tell" /\ UNCHANGED <<stringVars, once>>
    BY <1>10, Zenon DEF TellVendor, vendorVars
  <2>2. \/ indexLock' = indexLock /\ pc'[t] = "tell"
        \/ indexLock' = None /\ pc'[t] = "cache"
    BY <1>2, <1>10 DEF TellVendor, Goto
  <2> QED
    BY <2>1, <2>2 DEF LockStep, AtIndex, stringVars
<1>11. CASE LockString(t)
  <2>1. /\ pc[t] = "string" /\ UNCHANGED <<indexVars, once>>
        /\ \/ stringLock' = stringLock /\ pc'[t] = "idle"
           \/ stringLock = None /\ stringLock' = t /\ pc'[t] = "merge"
    BY <1>2, <1>11 DEF LockString, Goto, Return, vendorVars
  <2> QED
    BY <2>1 DEF LockStep, AtIndex, indexVars
<1>12. CASE MergeStrings(t)
  <2>1. /\ pc[t] = "merge" /\ UNCHANGED <<indexVars, once>>
        /\ stringLock' = None /\ Return(t)
    BY <1>12, Zenon DEF MergeStrings, vendorVars
  <2>2. pc'[t] = "idle"
    BY <1>2, <2>1 DEF Goto, Return
  <2> QED
    BY <2>1, <2>2 DEF LockStep, AtIndex, indexVars
<1> QED
  BY <1>4, <1>5, <1>6, <1>7, <1>8, <1>9, <1>10, <1>11, <1>12, Zenon DEF Step

LEMMA OtherHolders ==
  ASSUME ~ForkDuringMerge, ~ForkDuringLoad, ListInv, HolderAlive,
         \/ Unload
         \/ \E t \in Thread :
              (\E d \in Device : QueryDisplayAttrib(t, d)) \/ Fork(t) \/ ResetOnFork(t)
         \/ UNCHANGED vars
  PROVE  HolderAlive'
<1>0. indexLock \in Thread \cup {None} /\ stringLock \in Thread \cup {None}
  BY DEF ListInv, TypeOK
<1>1. CASE Unload
  BY <1>1 DEF Unload, HolderAlive, threadVars
<1>2. ASSUME NEW t \in Thread, Fork(t)
      PROVE  HolderAlive'
  <2>1. /\ \A u \in Thread : pc[u] # "merge" /\ pc[u] # "file"
        /\ child' = TRUE /\ pc' = [u \in Thread |-> "idle"]
        /\ UNCHANGED <<once, stringLock>>
    BY <1>2, Zenon DEF Fork, vendorVars, stringVars
  <2>2. stringLock = None /\ once # "loading"
    BY <1>0, <2>1 DEF HolderAlive
  <2> QED
    BY <2>1, <2>2 DEF HolderAlive
<1>3. ASSUME NEW t \in Thread, NEW d \in Device, QueryDisplayAttrib(t, d)
      PROVE  HolderAlive'
  <2>1. UNCHANGED <<once, indexLock, stringLock, pc, child>>
    BY <1>3, Zenon DEF QueryDisplayAttrib, vendorVars, indexVars, stringVars, threadVars, processVars
  <2> QED
    BY <2>1 DEF HolderAlive
<1>4. ASSUME NEW t \in Thread, ResetOnFork(t)
      PROVE  HolderAlive'
  <2>1. child /\ indexLock' = None /\ UNCHANGED <<once, stringLock, pc>>
    BY <1>4, Zenon DEF ResetOnFork, vendorVars, stringVars, threadVars
  <2>2. \A u \in Thread : pc[u] = "idle"
    BY <2>1 DEF ListInv, LoadingOK
  <2> QED
    BY <2>1, <2>2 DEF HolderAlive
<1>5. CASE UNCHANGED vars
  BY <1>5
     DEF vars, HolderAlive, vendorVars, indexVars, stringVars, threadVars, processVars
<1> QED
  BY <1>1, <1>2, <1>3, <1>4, <1>5

\* Whoever holds the lock of the indices or that of the extension string, or loads the vendors,
\* is alive and on its way to give it back, after any number of forks: only the lock of the
\* indices may be orphaned, and only until the child makes it anew.  A process must not fork
\* while another thread builds the extension string or loads the vendors: the child would
\* wait for a thread that it does not have (libeglmapping.c:254).
THEOREM HolderInvariant ==
  ASSUME ~ForkDuringMerge, ~ForkDuringLoad
  PROVE  Spec => []HolderAlive
<1>1. Init => HolderAlive
  BY DEF Init, HolderAlive
<1>2. ListInv /\ HolderAlive /\ [Next]_vars => HolderAlive'
  BY Steps, StepListMove, StepLocks, HolderStep, OtherHolders, Zenon
<1> QED
  BY <1>1, <1>2, ListInvariant, PTL DEF Spec

=============================================================================

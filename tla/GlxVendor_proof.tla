--------------------------- MODULE GlxVendor_proof ---------------------------
(***************************************************************************)
(* Theorems about GlxVendor, for any numbers of threads, vendors, screens, *)
(* displays, names and failures.  They come in three layers:               *)
(*                                                                         *)
(*  - OnceOnly is inductive without any assumption: one load per vendor,   *)
(*    one index and one address per name.                                  *)
(*  - EntrypointsResolved is inductive on top of it when a process does    *)
(*    not fork while a thread loads a vendor: what is used of a vendor is  *)
(*    used after its load.                                                 *)
(*  - OwnFunction is inductive on top of both when applications call only  *)
(*    functions of vendors that they have seen.                            *)
(***************************************************************************)
EXTENDS GlxVendor, FiniteSetTheorems, WellFoundedInduction, TLAPS

-----------------------------------------------------------------------------
(* Sequences.                                                              *)

\* The least element of a set of natural numbers is one of them.
LEMMA MinIsElement ==
  ASSUME NEW S \in SUBSET Nat, S # {}
  PROVE  Min(S) \in S
<1> DEFINE R == {p \in Nat \X Nat : p[1] < p[2]}
<1>0. IsWellFoundedOn(R, Nat)
  BY NatLessThanWellFounded, Zenon DEF OpToRel
<1>2. \A k, m \in Nat : k < m => <<k, m>> \in R
  OBVIOUS
<1> HIDE DEF R
<1>1. PICK m \in S : \A k \in S : ~(<<k, m>> \in R)
  BY <1>0, WFMin, Zenon
<1>3. ASSUME NEW k \in S PROVE m =< k
  <2>1. ~(k < m)
    BY <1>1, <1>2
  <2> QED
    BY <2>1
<1> QED
  BY <1>3 DEF Min

\* __glvndWinsysDispatchFindIndex finds the index of a name if there is one.
LEMMA IndexFound ==
  ASSUME indices \in Seq(IndexEntry), NEW n \in Name
  PROVE  /\ IndexOf(n) \in Nat
         /\ IndexOf(n) > 0 => IndexOf(n) \in DOMAIN indices /\ indices[IndexOf(n)].name = n
         /\ IndexOf(n) = 0 => \A i \in DOMAIN indices : indices[i].name # n
<1> DEFINE I == {i \in 1..Len(indices) : indices[i].name = n}
<1>1. I \in SUBSET Nat
  OBVIOUS
<1>2. I # {} => Min(I) \in I
  BY <1>1, MinIsElement
<1>3. IndexOf(n) = IF I # {} THEN Min(I) ELSE 0
  BY DEF IndexOf, SelectInSeq
<1> QED
  BY <1>2, <1>3

\* The address of a name without an index is that of a loaded vendor's function, or of
\* a generated entrypoint if no loaded vendor has one.
LEMMA AddressChosen ==
  ASSUME loaded \in Seq(Vendor), NEW n \in Name
  PROVE  \/ \E v \in Range(loaded) :
              Provided(v, n) # None /\ DispatchAddress(n) = Provided(v, n)
         \/ /\ \A v \in Range(loaded) : Provided(v, n) = None
            /\ DispatchAddress(n) = Generated(n)
<1> DEFINE I == {i \in 1..Len(loaded) : Provided(loaded[i], n) # None}
           k == IF I # {} THEN Min(I) ELSE 0
<1>1. I \in SUBSET Nat
  OBVIOUS
<1>2. I # {} => Min(I) \in I
  BY <1>1, MinIsElement
<1>3. DispatchAddress(n) = IF k > 0 THEN Provided(loaded[k], n) ELSE Generated(n)
  BY DEF DispatchAddress, SelectInSeq
<1>4. CASE I # {}
  <2>1. k \in 1..Len(loaded) /\ Provided(loaded[k], n) # None
    BY <1>2, <1>4
  <2> HIDE DEF k
  <2>3. k > 0 /\ loaded[k] \in Range(loaded)
    <3>1. k \in DOMAIN loaded /\ k > 0
      BY <2>1
    <3> QED
      BY <3>1 DEF Range
  <2>2. DispatchAddress(n) = Provided(loaded[k], n) /\ Provided(loaded[k], n) # None
    BY <1>3, <2>1, <2>3
  <2> QED
    BY <2>2, <2>3
<1>5. CASE I = {}
  <2>1. \A v \in Range(loaded) : Provided(v, n) = None
    BY <1>5 DEF Range
  <2> QED
    BY <1>3, <1>5, <2>1
<1> QED
  BY <1>4, <1>5

\* Appending adds one element to the range.
LEMMA RangeOfAppend ==
  ASSUME NEW S, NEW s \in Seq(S), NEW x \in S
  PROVE  /\ Append(s, x) \in Seq(S)
         /\ Range(Append(s, x)) = Range(s) \cup {x}
         /\ \A i \in DOMAIN s : i \in DOMAIN Append(s, x) /\ Append(s, x)[i] = s[i]
         /\ \A i \in DOMAIN Append(s, x) :
              i \in DOMAIN s \/ i = Len(s) + 1
         /\ Len(s) + 1 \in DOMAIN Append(s, x) /\ Len(s) + 1 \notin DOMAIN s
         /\ Append(s, x)[Len(s) + 1] = x /\ Len(Append(s, x)) = Len(s) + 1
<1>1. /\ Append(s, x) \in Seq(S)
      /\ \A i \in DOMAIN s : i \in DOMAIN Append(s, x) /\ Append(s, x)[i] = s[i]
      /\ \A i \in DOMAIN Append(s, x) :
           i \in DOMAIN s \/ i = Len(s) + 1
      /\ Len(s) + 1 \in DOMAIN Append(s, x) /\ Len(s) + 1 \notin DOMAIN s
      /\ Append(s, x)[Len(s) + 1] = x /\ Len(Append(s, x)) = Len(s) + 1
  <2>1. DOMAIN Append(s, x) = 1..Len(s) + 1 /\ DOMAIN s = 1..Len(s)
    OBVIOUS
  <2>2. Append(s, x) \in Seq(S) /\ Len(Append(s, x)) = Len(s) + 1
    OBVIOUS
  <2>3. \A i \in 1..Len(s) : Append(s, x)[i] = s[i]
    OBVIOUS
  <2>4. Append(s, x)[Len(s) + 1] = x
    OBVIOUS
  <2>5. Len(s) \in Nat
    OBVIOUS
  <2>6. \A i \in 1..Len(s) + 1 : i \in 1..Len(s) \/ i = Len(s) + 1
    BY <2>5
  <2>7. \A i \in 1..Len(s) : i \in 1..Len(s) + 1
    BY <2>5
  <2>8. Len(s) + 1 \in 1..Len(s) + 1 /\ Len(s) + 1 \notin 1..Len(s)
    BY <2>5
  <2> QED
    BY <2>1, <2>2, <2>3, <2>4, <2>6, <2>7, <2>8, Zenon
<1>2. Range(Append(s, x)) = Range(s) \cup {x}
  BY <1>1 DEF Range
<1> QED
  BY <1>1, <1>2

\* What is left of a sequence of several elements.
LEMMA TailOfLonger ==
  ASSUME NEW S, NEW q \in Seq(S), Len(q) > 1
  PROVE  Tail(q) \in Seq(S) /\ Tail(q) # <<>>
<1>1. Len(Tail(q)) = Len(q) - 1 /\ Tail(q) \in Seq(S)
  BY q # <<>>
<1>2. \A r \in Seq(S) : Len(r) # 0 => r # <<>>
  OBVIOUS
<1>3. Len(Tail(q)) # 0
  BY <1>1
<1> QED
  BY <1>1, <1>2, <1>3, Zenon

-----------------------------------------------------------------------------
(* Types and locks.                                                        *)

Label == {"idle", "resolve", "cache", "screen", "screenWrite", "name",
          "load", "open", "update", "tell", "found", "fetch", "ask", "add"}

\* The steps of a thread that holds the lock of the vendor hash.
Writing == {"open", "update", "tell"}

ToTry == [vendor : Vendor, check : BOOLEAN]

\* What TypeOK says of the data, and of the locks.
DataOK ==
  /\ loaded \in Seq(Vendor)
  /\ indices \in Seq(IndexEntry)
  /\ entrypoint \in [Name -> Addr \cup {Default, None}]
  /\ unstubbed \subseteq {vn \in Vendor \X Name : vn[2] \in GlOf[vn[1]]}
  /\ told \in [Vendor -> [Name -> Nat \cup {None}]]
  /\ fetched \in [Vendor -> [1..Cardinality(Name) -> Name \cup {None}]]
  /\ cache \in [Name -> Addr \cup {None}]
  /\ given \subseteq Name \X Addr
  /\ screenVendor \in [Screen -> Vendor \cup {None}]
  /\ tableLock \in [Vendor -> {"free", "read", "write"}]
  /\ failures \in 0..MaxFailures

NameLockOK ==
  /\ nameLock \in Thread \cup {None}
  /\ \A t \in Thread : nameLock = t <=> pc[t] \in Writing

ScreenLockOK ==
  /\ vendorLock \in [Display -> Thread \cup {None}]
  /\ \A t \in Thread, d \in Display :
       vendorLock[d] = t <=> pc[t] \in Searching /\ DisplayOf[call[t].screen] = d

ThreadOK == pc \in [Thread -> Label] /\ call \in [Thread -> CallType]

Typed == DataOK /\ NameLockOK /\ ScreenLockOK /\ ThreadOK

LEMMA TypeParts == TypeOK <=> Typed
BY DEF TypeOK, Typed, DataOK, NameLockOK, ScreenLockOK, ThreadOK, Label, Writing, Searching

\* The locals of a thread in a call.
LEMMA CallFields ==
  ASSUME NEW c \in CallType
  PROVE  /\ c.name \in Name \cup {None} /\ c.addr \in Addr \cup {None}
         /\ c.screen \in Screen \cup {None} /\ c.todo \in Seq(ToTry)
         /\ c.index \in Nat \cup {None} /\ c.vendor \in Vendor \cup {None}
BY DEF CallType, ToTry

LEMMA CallUpdates ==
  ASSUME NEW c \in CallType
  PROVE  /\ \A a \in Addr : [c EXCEPT !.addr = a] \in CallType
         /\ \A q \in Seq(ToTry) : [c EXCEPT !.todo = q] \in CallType
         /\ \A w \in Vendor : [c EXCEPT !.vendor = w, !.todo = <<>>] \in CallType
<1>1. ASSUME NEW a \in Addr
      PROVE  [c EXCEPT !.addr = a] \in CallType
  BY DEF CallType
<1>2. ASSUME NEW q \in Seq(ToTry)
      PROVE  [c EXCEPT !.todo = q] \in CallType
  BY DEF CallType, ToTry
<1>3. ASSUME NEW w \in Vendor
      PROVE  [c EXCEPT !.vendor = w, !.todo = <<>>] \in CallType
  <2>1. <<>> \in Seq([vendor : Vendor, check : BOOLEAN])
    OBVIOUS
  <2> QED
    BY <2>1 DEF CallType
<1> QED
  BY <1>1, <1>2, <1>3, Zenon

LEMMA NoCallTyped == NoCall \in CallType
<1>1. <<>> \in Seq([vendor : Vendor, check : BOOLEAN])
  OBVIOUS
<1> QED
  BY <1>1 DEF NoCall, CallType

LEMMA NewCalls ==
  /\ \A n \in Name : [NoCall EXCEPT !.name = n] \in CallType
  /\ \A s \in Screen : [NoCall EXCEPT !.screen = s] \in CallType
  /\ \A n \in Name, s \in Screen, i \in Nat \cup {None} :
       [NoCall EXCEPT !.name = n, !.screen = s, !.index = i] \in CallType
<1>2. NoCall \in CallType
  BY NoCallTyped
<1>3. ASSUME NEW n \in Name
      PROVE  [NoCall EXCEPT !.name = n] \in CallType
  BY <1>2 DEF CallType
<1>4. ASSUME NEW s \in Screen
      PROVE  [NoCall EXCEPT !.screen = s] \in CallType
  BY <1>2 DEF CallType
<1>5. ASSUME NEW n \in Name, NEW s \in Screen, NEW i \in Nat \cup {None}
      PROVE  [NoCall EXCEPT !.name = n, !.screen = s, !.index = i] \in CallType
  BY <1>2 DEF CallType
<1> QED
  BY <1>3, <1>4, <1>5, Zenon

LEMMA CandidatesType ==
  ASSUME NEW s \in Screen
  PROVE  Candidates(s) \in Seq(ToTry) /\ Candidates(s) # <<>>
<1> DEFINE first == IF Specified[s] = None THEN <<>>
                    ELSE <<[vendor |-> Specified[s], check |-> FALSE]>>
           queried == [k \in DOMAIN Queried[s] |-> [vendor |-> Queried[s][k], check |-> TRUE]]
           last == <<[vendor |-> Fallback, check |-> FALSE]>>
<1>1. first \in Seq(ToTry)
  <2>1. Specified[s] # None => [vendor |-> Specified[s], check |-> FALSE] \in ToTry
    BY ConstantsAssumption DEF ToTry
  <2> QED
    BY <2>1
<1>2. queried \in Seq(ToTry)
  <2>1. Queried[s] \in Seq(Vendor)
    BY ConstantsAssumption
  <2>2. \A k \in 1..Len(Queried[s]) :
          [vendor |-> Queried[s][k], check |-> TRUE] \in ToTry
    BY <2>1 DEF ToTry
  <2>3. DOMAIN Queried[s] = 1..Len(Queried[s]) /\ Len(Queried[s]) \in Nat
    BY <2>1
  <2> QED
    BY <2>2, <2>3
<1>3. last \in Seq(ToTry) /\ Len(last) = 1
  BY ConstantsAssumption DEF ToTry
<1>4. Candidates(s) = first \o queried \o last
  BY DEF Candidates
<1> HIDE DEF first, queried, last
<1>5. first \o queried \in Seq(ToTry)
  BY <1>1, <1>2
<1>6. first \o queried \o last \in Seq(ToTry) /\ Len(first \o queried \o last) > 0
  BY <1>3, <1>5
<1> QED
  BY <1>4, <1>6

\* A move of one thread leaves the others where they are.
LEMMA Moved ==
  ASSUME ThreadOK, NEW t \in Thread, NEW l \in Label, NEW c \in CallType, Goto(t, l, c)
  PROVE  /\ ThreadOK' /\ pc'[t] = l /\ call'[t] = c
         /\ \A u \in Thread \ {t} : pc'[u] = pc[u] /\ call'[u] = call[u]
BY DEF ThreadOK, Goto

\* A move within the same part of the code with the lock of the hash, into it, out of it.
LEMMA NameLockStep ==
  ASSUME ThreadOK, NameLockOK, NEW t \in Thread, NEW l \in Label, NEW c \in CallType,
         Goto(t, l, c),
         \/ (l \in Writing <=> pc[t] \in Writing) /\ nameLock' = nameLock
         \/ l \in Writing /\ nameLock = None /\ nameLock' = t
         \/ l \notin Writing /\ pc[t] \in Writing /\ nameLock' = None
  PROVE  NameLockOK'
<1>1. /\ pc'[t] = l
      /\ \A u \in Thread \ {t} : pc'[u] = pc[u]
  BY Moved
<1>2. None \notin Thread
  BY ConstantsAssumption
<1>3. CASE (l \in Writing <=> pc[t] \in Writing) /\ nameLock' = nameLock
  BY <1>1, <1>3 DEF NameLockOK
<1>4. CASE l \in Writing /\ nameLock = None /\ nameLock' = t
  BY <1>1, <1>2, <1>4 DEF NameLockOK
<1>5. CASE l \notin Writing /\ pc[t] \in Writing /\ nameLock' = None
  BY <1>1, <1>2, <1>5 DEF NameLockOK
<1> QED
  BY <1>3, <1>4, <1>5

\* The same for the lock of a display.
LEMMA ScreenLockStep ==
  ASSUME ThreadOK, ScreenLockOK, NEW t \in Thread, NEW l \in Label, NEW c \in CallType,
         Goto(t, l, c),
         \/ /\ l \in Searching <=> pc[t] \in Searching
            /\ l \in Searching => c.screen = call[t].screen
            /\ vendorLock' = vendorLock
         \/ /\ l \in Searching /\ pc[t] \notin Searching
            /\ c.screen \in Screen /\ vendorLock[DisplayOf[c.screen]] = None
            /\ vendorLock' = [vendorLock EXCEPT ![DisplayOf[c.screen]] = t]
         \/ /\ l \notin Searching /\ pc[t] \in Searching
            /\ call[t].screen \in Screen
            /\ vendorLock' = [vendorLock EXCEPT ![DisplayOf[call[t].screen]] = None]
  PROVE  ScreenLockOK'
<1>1. /\ pc'[t] = l /\ call'[t] = c
      /\ \A u \in Thread \ {t} : pc'[u] = pc[u] /\ call'[u] = call[u]
  BY Moved
<1>2. \A s \in Screen : DisplayOf[s] \in Display
  BY ConstantsAssumption
<1>3. None \notin Thread
  BY ConstantsAssumption
<1>4. CASE /\ l \in Searching <=> pc[t] \in Searching
           /\ l \in Searching => c.screen = call[t].screen
           /\ vendorLock' = vendorLock
  <2>1. ASSUME NEW u \in Thread, NEW d \in Display
        PROVE  vendorLock[d] = u <=> pc'[u] \in Searching /\ DisplayOf[call'[u].screen] = d
    BY <1>1, <1>4 DEF ScreenLockOK
  <2> QED
    BY <1>4, <2>1 DEF ScreenLockOK
<1>5. CASE /\ l \in Searching /\ pc[t] \notin Searching
           /\ c.screen \in Screen /\ vendorLock[DisplayOf[c.screen]] = None
           /\ vendorLock' = [vendorLock EXCEPT ![DisplayOf[c.screen]] = t]
  <2>1. ASSUME NEW u \in Thread, NEW d \in Display
        PROVE  vendorLock'[d] = u <=> pc'[u] \in Searching /\ DisplayOf[call'[u].screen] = d
    BY <1>1, <1>2, <1>3, <1>5 DEF ScreenLockOK
  <2> QED
    BY <1>2, <1>5, <2>1 DEF ScreenLockOK
<1>6. CASE /\ l \notin Searching /\ pc[t] \in Searching
           /\ call[t].screen \in Screen
           /\ vendorLock' = [vendorLock EXCEPT ![DisplayOf[call[t].screen]] = None]
  <2>1. ASSUME NEW u \in Thread, NEW d \in Display
        PROVE  vendorLock'[d] = u <=> pc'[u] \in Searching /\ DisplayOf[call'[u].screen] = d
    BY <1>1, <1>2, <1>3, <1>6 DEF ScreenLockOK
  <2> QED
    BY <1>2, <1>6, <2>1 DEF ScreenLockOK
<1> QED
  BY <1>4, <1>5, <1>6

\* Addresses of different kinds, or of different owners, are different.
LEMMA AddressKinds ==
  /\ \A v \in Vendor : Stub(v) \in Addr /\ Stub(v) # GlAddr /\ Stub(v) # Default
  /\ \A v, w \in Vendor : Stub(v) = Stub(w) => v = w
  /\ \A n \in Name : Gen(n) \in Addr /\ Gen(n) # GlAddr /\ Gen(n) # Default
  /\ \A n, m \in Name : Gen(n) = Gen(m) => n = m
  /\ \A v \in Vendor, n \in Name : Stub(v) # Gen(n)
  /\ GlAddr \in Addr /\ GlAddr # Default /\ GlAddr # None
  /\ \A a \in Addr : a # None /\ a # Default
  /\ Default # None
<1>1. /\ \A v \in Vendor : Stub(v).kind = "stub" /\ Stub(v).of = v
      /\ \A n \in Name : Gen(n).kind = "gen" /\ Gen(n).of = n
      /\ GlAddr.kind = "gl" /\ Default.kind = "default"
  BY DEF Stub, Gen, GlAddr, Default
<1>2. /\ \A v \in Vendor : Stub(v) \in Addr
      /\ \A n \in Name : Gen(n) \in Addr
      /\ GlAddr \in Addr
  BY DEF Addr
<1>3. \A a \in Addr : a.kind # "default"
  BY <1>1 DEF Addr
<1> QED
  BY <1>1, <1>2, <1>3, NoneAssumption

\* A vendor's function is its stub for a GLX function, and the common stub for an
\* OpenGL function.
LEMMA ProvidedCases ==
  ASSUME NEW v \in Vendor, NEW n \in Name
  PROVE  /\ n \in GlxOf[v] => Provided(v, n) = Stub(v)
         /\ n \in GlOf[v] => Provided(v, n) = GlAddr
         /\ Provided(v, n) # None <=> n \in GlxOf[v] \/ n \in GlOf[v]
         /\ Provided(v, n) \in Addr \cup {None}
BY AddressKinds, NamesAssumption DEF Provided

\* A vendor's GLX function never needs a stub in libGLdispatch.
LEMMA HasStub ==
  ASSUME DataOK, NEW v \in Vendor, NEW n \in GlxOf[v]
  PROVE  Provided(v, n) # None => ~Lacks(v, n)
BY NamesAssumption DEF DataOK, Lacks

\* What glXGetProcAddress finds for a name without an index.
LEMMA AddressCases ==
  ASSUME loaded \in Seq(Vendor), NEW n \in Name
  PROVE  \/ \E v \in Range(loaded) : n \in GlxOf[v] /\ DispatchAddress(n) = Stub(v)
         \/ \E v \in Range(loaded) : n \in GlOf[v] /\ DispatchAddress(n) = GlAddr
         \/ /\ \A v \in Range(loaded) : Provided(v, n) = None
            /\ DispatchAddress(n) \in {Gen(n), None}
<1>1. \A v \in Range(loaded) : v \in Vendor
  BY DEF Range
<1>2. ASSUME NEW v \in Range(loaded),
             Provided(v, n) # None /\ DispatchAddress(n) = Provided(v, n)
      PROVE  \/ n \in GlxOf[v] /\ DispatchAddress(n) = Stub(v)
             \/ n \in GlOf[v] /\ DispatchAddress(n) = GlAddr
  BY <1>1, <1>2, ProvidedCases
<1>3. Generated(n) \in {Gen(n), None}
  BY DEF Generated
<1> QED
  BY <1>2, <1>3, AddressChosen

\* Steps that take no lock.
LEMMA AddressTypes ==
  ASSUME Typed, NEW t \in Thread, CallOK(t),
         \/ \E n \in Name : GetProcAddress(t, n)
         \/ FindAddress(t) \/ NewAddress(t) \/ CacheAddress(t)
  PROVE  Typed'
<1> USE DEF Typed
<1>1. call[t] \in CallType /\ pc[t] \in Label
  BY DEF ThreadOK
<1>2. ASSUME NEW l \in Label \ Searching, NEW c \in CallType, Goto(t, l, c),
             pc[t] \notin Searching, UNCHANGED <<nameLock, vendorLock>>
      PROVE  NameLockOK' /\ ScreenLockOK' /\ ThreadOK'
  <2>1. l \notin Writing /\ pc[t] \notin Writing
    BY <1>2 DEF Writing, Searching
  <2> QED
    BY <1>2, <2>1, Moved, NameLockStep, ScreenLockStep
<1>7. NoCall \in CallType
  BY NoCallTyped
<1>3. ASSUME NEW n \in Name, GetProcAddress(t, n)
      PROVE  Typed'
  <2>1. CASE Hit(t, n)
    BY <1>3, <2>1 DEF GetProcAddress, Hit, DataOK, NameLockOK, ScreenLockOK, ThreadOK, threadVars,
                      indexVars, screenVars
  <2>2. CASE Miss(t, n)
    <3>1. [NoCall EXCEPT !.name = n] \in CallType
      BY NewCalls, Zenon
    <3>2. DataOK'
      BY <1>3, <2>2 DEF GetProcAddress, Miss, DataOK, indexVars, screenVars
    <3> QED
      BY <1>2, <1>3, <2>2, <3>1, <3>2 DEF GetProcAddress, Miss, Label, Searching, screenVars
  <2> QED
    BY <1>3, <2>1, <2>2 DEF GetProcAddress
<1>4. CASE FindAddress(t)
  <2> DEFINE i == IndexOf(call[t].name)
             c == [call[t] EXCEPT !.addr = indices[i].addr]
  <2>1. call[t].name \in Name
    BY <1>1, <1>4, CallFields DEF FindAddress, CallOK
  <2>2. i \in DOMAIN indices
    BY <1>4, <2>1, IndexFound DEF FindAddress, DataOK
  <2>3. indices[i].addr \in Addr
    <3>1. \A j \in DOMAIN indices : indices[j] \in IndexEntry
      BY DEF DataOK
    <3>2. indices[i] \in IndexEntry
      BY <2>2, <3>1, Zenon
    <3> QED
      BY <3>2 DEF IndexEntry
  <2>4. c \in CallType
    BY <1>1, <2>3, CallUpdates, Zenon
  <2>5. Goto(t, "cache", c) /\ pc[t] = "resolve" /\ UNCHANGED <<nameLock, vendorLock>>
    BY <1>4 DEF FindAddress, screenVars
  <2>6. DataOK'
    BY <1>4 DEF FindAddress, DataOK, indexVars, cacheVars, screenVars
  <2> QED
    BY <1>2, <2>4, <2>5, <2>6 DEF Label, Searching
<1>5. CASE NewAddress(t)
  <2> DEFINE n == call[t].name
             a == DispatchAddress(n)
  <2>1. n \in Name
    BY <1>1, <1>5, CallFields DEF NewAddress, CallOK
  <2>2. a \in Addr \cup {None}
    BY <2>1, AddressCases, AddressKinds DEF DataOK, Range
  <2>3. a # None => [call[t] EXCEPT !.addr = a] \in CallType
    <3> HIDE DEF a
    <3> SUFFICES ASSUME a # None PROVE [call[t] EXCEPT !.addr = a] \in CallType
      OBVIOUS
    <3>1. a \in Addr
      BY <2>2
    <3> QED
      BY <1>1, <3>1, CallUpdates, Zenon
  <2>4. entrypoint' \in [Name -> Addr \cup {Default, None}]
    BY <1>5, <2>1 DEF NewAddress, Generate, DataOK
  <2>5. UNCHANGED <<indices, told>> \/ (a # None /\ AllocIndex(n, a) /\ TellLoaded(n, Len(indices')))
    BY <1>5 DEF NewAddress
  <2>6. ASSUME a # None /\ AllocIndex(n, a) /\ TellLoaded(n, Len(indices'))
        PROVE  indices' \in Seq(IndexEntry) /\ told' \in [Vendor -> [Name -> Nat \cup {None}]]
    <3>1. [name |-> n, addr |-> a] \in IndexEntry
      BY <2>1, <2>2, <2>6 DEF IndexEntry
    <3>2. indices' \in Seq(IndexEntry)
      BY <2>6, <3>1 DEF AllocIndex, DataOK
    <3>3. Len(indices') \in Nat
      BY <3>2
    <3>4. told' \in [Vendor -> [Name -> Nat \cup {None}]]
      BY <2>1, <2>6, <3>3 DEF TellLoaded, DataOK
    <3> QED
      BY <3>2, <3>4
  <2>7. failures' \in 0..MaxFailures
    BY <1>5, ConstantsAssumption DEF NewAddress, Fail, DataOK
  <2>8. DataOK'
    BY <1>5, <2>4, <2>5, <2>6, <2>7 DEF NewAddress, DataOK, cacheVars, screenVars
  <2>9. \/ Goto(t, "idle", NoCall)
        \/ a # None /\ Goto(t, "cache", [call[t] EXCEPT !.addr = a])
    BY <1>5 DEF NewAddress, Return
  <2>10. pc[t] = "resolve" /\ UNCHANGED <<nameLock, vendorLock>>
    BY <1>5 DEF NewAddress, screenVars
  <2>11. pc[t] \notin Searching /\ {"idle", "cache"} \subseteq Label \ Searching
    BY <2>10 DEF Label, Searching
  <2>12. CASE Goto(t, "idle", NoCall)
    BY <1>2, <1>7, <2>8, <2>10, <2>11, <2>12
  <2>13. CASE a # None /\ Goto(t, "cache", [call[t] EXCEPT !.addr = a])
    <3> HIDE DEF a
    <3> QED
      BY <1>2, <2>3, <2>8, <2>10, <2>11, <2>13
  <2> QED
    BY <2>9, <2>12, <2>13
<1>6. CASE CacheAddress(t)
  <2>1. call[t].name \in Name /\ call[t].addr \in Addr
    BY <1>1, <1>6, CallFields DEF CacheAddress, CallOK
  <2>2. failures' \in 0..MaxFailures
    BY <1>6, ConstantsAssumption DEF CacheAddress, Fail, DataOK
  <2>3. DataOK'
    <3>1. UNCHANGED <<loaded, nameLock, indices, entrypoint, unstubbed, told, fetched,
                      tableLock, screenVendor, vendorLock>>
      BY <1>6 DEF CacheAddress, indexVars, screenVars
    <3>2. cache' \in [Name -> Addr \cup {None}]
      <4>1. cache' = cache \/ cache' = [cache EXCEPT ![call[t].name] = call[t].addr]
        BY <1>6 DEF CacheAddress
      <4> QED
        BY <2>1, <4>1 DEF DataOK
    <3>3. given' \subseteq Name \X Addr
      <4>1. given' = given \cup {<<call[t].name, call[t].addr>>}
        BY <1>6 DEF CacheAddress
      <4> QED
        BY <2>1, <4>1 DEF DataOK
    <3> QED
      BY <2>2, <3>1, <3>2, <3>3 DEF DataOK
  <2>4. Goto(t, "idle", NoCall) /\ pc[t] = "cache" /\ UNCHANGED <<nameLock, vendorLock>>
    BY <1>6 DEF CacheAddress, Return, screenVars
  <2>5. pc[t] \notin Searching /\ "idle" \in Label \ Searching
    BY <2>4 DEF Label, Searching
  <2> QED
    BY <1>2, <1>7, <2>3, <2>4, <2>5
<1> QED
  BY <1>3, <1>4, <1>5, <1>6

\* Steps of the look-up of a screen, which hold the display's lock and then that of the hash.
LEMMA VendorFoundTypes ==
  ASSUME ThreadOK, NEW t \in Thread, NEW w \in Vendor \cup {None}, VendorFound(t, w)
  PROVE  \E l \in {"idle", "fetch"}, c \in CallType :
           /\ Goto(t, l, c)
           /\ l = "fetch" => /\ w # None /\ call[t].name # None /\ c.vendor = w
                             /\ c.name = call[t].name /\ c.index = call[t].index
<1>1. call[t] \in CallType
  BY DEF ThreadOK
<1>2. CASE call[t].name = None \/ w = None
  <2>1. Goto(t, "idle", NoCall)
    BY <1>2 DEF VendorFound, Return
  <2> QED
    BY <2>1, NoCallTyped
<1>3. CASE ~(call[t].name = None \/ w = None)
  <2> DEFINE c == [call[t] EXCEPT !.vendor = w, !.todo = <<>>]
  <2>1. Goto(t, "fetch", c)
    BY <1>3 DEF VendorFound
  <2>2. w \in Vendor
    BY <1>3
  <2>3. c \in CallType
    BY <1>1, <2>2, CallUpdates, Zenon
  <2>4. c.vendor = w /\ c.name = call[t].name /\ c.index = call[t].index
    BY <1>1 DEF CallType
  <2> HIDE DEF c
  <2> QED
    BY <1>3, <2>1, <2>3, <2>4
<1> QED
  BY <1>2, <1>3

\* The next vendor to try, if there is one; else the look-up is over without one.
LEMMA NextCandidateTypes ==
  ASSUME ThreadOK, NEW t \in Thread, call[t].todo # <<>>, NextCandidate(t)
  PROVE  \/ /\ UNCHANGED screenVars
            /\ \E c \in CallType :
                 /\ Goto(t, "name", c) /\ c.todo # <<>> /\ c.screen = call[t].screen
                 /\ c.name = call[t].name /\ c.index = call[t].index
         \/ SetScreen(t, None)
<1>1. call[t] \in CallType
  BY DEF ThreadOK
<1>2. CASE Len(call[t].todo) > 1
  <2> DEFINE c == [call[t] EXCEPT !.todo = Tail(call[t].todo)]
  <2>1. Goto(t, "name", c) /\ UNCHANGED screenVars
    BY <1>2 DEF NextCandidate
  <2>2. call[t].todo \in Seq(ToTry)
    BY <1>1, CallFields
  <2>3. Tail(call[t].todo) \in Seq(ToTry) /\ Tail(call[t].todo) # <<>>
    BY <1>2, <2>2, TailOfLonger
  <2>4. c \in CallType
    BY <1>1, <2>3, CallUpdates, Zenon
  <2>5. /\ c.todo = Tail(call[t].todo) /\ c.screen = call[t].screen
        /\ c.name = call[t].name /\ c.index = call[t].index
    BY <1>1 DEF CallType
  <2> HIDE DEF c
  <2> QED
    BY <2>1, <2>3, <2>4, <2>5
<1>3. CASE ~(Len(call[t].todo) > 1)
  BY <1>3 DEF NextCandidate
<1> QED
  BY <1>2, <1>3

\* The candidate is a vendor.
LEMMA CandidateType ==
  ASSUME ThreadOK, NEW t \in Thread, call[t].todo # <<>>
  PROVE  Candidate(t) \in Vendor
<1>1. call[t].todo \in Seq(ToTry)
  BY CallFields DEF ThreadOK
<1>2. Head(call[t].todo) \in ToTry
  BY <1>1
<1> QED
  BY <1>2 DEF Candidate, ToTry

LEMMA SearchTypes ==
  ASSUME Typed, NEW t \in Thread, CallOK(t),
         \/ \E s \in Screen : LookupVendorByScreen(t, s)
         \/ ReadScreen(t) \/ WriteScreen(t) \/ FindName(t) \/ LockToLoad(t)
  PROVE  Typed'
<1> USE DEF Typed
<1>1. call[t] \in CallType /\ pc[t] \in Label
  BY DEF ThreadOK
<1>2. ASSUME NEW l \in Label, NEW c \in CallType, Goto(t, l, c),
             UNCHANGED <<nameLock, vendorLock>>,
             l \in Writing <=> pc[t] \in Writing, l \in Searching <=> pc[t] \in Searching,
             l \in Searching => c.screen = call[t].screen
      PROVE  NameLockOK' /\ ScreenLockOK' /\ ThreadOK'
  BY <1>2, Moved, NameLockStep, ScreenLockStep
<1>3. ASSUME NEW s \in Screen, LookupVendorByScreen(t, s)
      PROVE  Typed'
  <2>1. [NoCall EXCEPT !.screen = s] \in CallType
    BY NewCalls, Zenon
  <2>2. DataOK'
    BY <1>3 DEF LookupVendorByScreen, DataOK, indexVars, cacheVars, screenVars
  <2>3. /\ Goto(t, "screen", [NoCall EXCEPT !.screen = s]) /\ pc[t] = "idle"
        /\ UNCHANGED <<nameLock, vendorLock>>
    BY <1>3 DEF LookupVendorByScreen, screenVars
  <2>4. /\ "screen" \in Label \ (Writing \cup Searching) /\ pc[t] \notin Writing \cup Searching
    BY <2>3 DEF Label, Writing, Searching
  <2> QED
    BY <1>2, <2>1, <2>2, <2>3, <2>4
<1>4. CASE ReadScreen(t)
  <2> DEFINE w == screenVendor[call[t].screen]
  <2>1. call[t].screen \in Screen
    BY <1>1, <1>4, CallFields DEF ReadScreen, CallOK
  <2>2. w \in Vendor \cup {None}
    BY <2>1 DEF DataOK
  <2>3. DataOK' /\ pc[t] = "screen" /\ UNCHANGED <<nameLock, vendorLock>>
    BY <1>4 DEF ReadScreen, DataOK, indexVars, cacheVars, screenVars
  <2>4. VendorFound(t, w) \/ Goto(t, "screenWrite", call[t])
    BY <1>4 DEF ReadScreen
  <2>5. \E l \in {"idle", "fetch", "screenWrite"}, c \in CallType : Goto(t, l, c)
    BY <1>1, <2>2, <2>4, VendorFoundTypes
  <2>6. \A l \in {"idle", "fetch", "screenWrite", "screen"} : l \in Label \ (Writing \cup Searching)
    BY DEF Label, Writing, Searching
  <2> QED
    BY <1>2, <2>3, <2>5, <2>6
<1>5. CASE WriteScreen(t)
  <2> DEFINE s == call[t].screen
             w == screenVendor[s]
             c == [call[t] EXCEPT !.todo = Candidates(s)]
  <2>1. s \in Screen
    BY <1>1, <1>5, CallFields DEF WriteScreen, CallOK
  <2>2. w \in Vendor \cup {None}
    BY <2>1 DEF DataOK
  <2>3. DataOK' /\ pc[t] = "screenWrite" /\ UNCHANGED nameLock
    BY <1>5 DEF WriteScreen, DataOK, indexVars, cacheVars
  <2>4. \A l \in {"idle", "fetch", "screenWrite"} : l \in Label \ (Writing \cup Searching)
    BY DEF Label, Writing, Searching
  <2>5. CASE VendorFound(t, w) /\ UNCHANGED vendorLock
    <3>1. \E l \in {"idle", "fetch"}, d \in CallType : Goto(t, l, d)
      BY <2>2, <2>5, VendorFoundTypes
    <3> QED
      BY <1>2, <2>3, <2>4, <2>5, <3>1
  <2>6. CASE /\ vendorLock[DisplayOf[s]] = None
             /\ vendorLock' = [vendorLock EXCEPT ![DisplayOf[s]] = t]
             /\ Goto(t, "name", c)
    <3>1. Candidates(s) \in Seq(ToTry)
      BY <2>1, CandidatesType
    <3>2. c \in CallType
      BY <1>1, <3>1, CallUpdates, Zenon
    <3>3. c.screen = s
      BY <1>1 DEF CallType
    <3>4. "name" \in Label /\ "name" \in Searching /\ "name" \notin Writing
      BY DEF Label, Searching, Writing
    <3> HIDE DEF c
    <3>5. ThreadOK'
      BY <2>6, <3>2, <3>4, Moved
    <3>6. NameLockOK'
      BY <2>3, <2>4, <2>6, <3>2, <3>4, NameLockStep
    <3>7. ScreenLockOK'
      BY <2>1, <2>3, <2>4, <2>6, <3>2, <3>3, <3>4, ScreenLockStep
    <3> QED
      BY <2>3, <3>5, <3>6, <3>7
  <2> QED
    BY <1>5, <2>5, <2>6 DEF WriteScreen, CheckAgain, LockOf
<1>6. CASE FindName(t) \/ LockToLoad(t)
  <2>1. DataOK'
    BY <1>6 DEF FindName, LockToLoad, DataOK, indexVars, cacheVars, screenVars
  <2>2. /\ \/ UNCHANGED nameLock /\ \E l \in {"found", "load"} : Goto(t, l, call[t])
           \/ Goto(t, "open", call[t]) /\ nameLock = None /\ nameLock' = t
        /\ UNCHANGED vendorLock /\ pc[t] \in {"name", "load"}
    BY <1>6 DEF FindName, LockToLoad, screenVars
  <2>3. /\ {"name", "found", "load", "open"} \subseteq Label \cap Searching
        /\ {"name", "found", "load"} \cap Writing = {} /\ "open" \in Writing
    BY DEF Label, Writing, Searching
  <2>4. CASE Goto(t, "open", call[t]) /\ nameLock = None /\ nameLock' = t
    <3>1. ThreadOK' /\ NameLockOK'
      BY <1>1, <2>3, <2>4, Moved, NameLockStep
    <3>2. ScreenLockOK'
      BY <1>1, <2>2, <2>3, <2>4, ScreenLockStep
    <3> QED
      BY <2>1, <3>1, <3>2
  <2>5. ASSUME NEW l \in {"found", "load"}, Goto(t, l, call[t]), UNCHANGED nameLock
        PROVE  Typed'
    BY <1>1, <1>2, <2>1, <2>2, <2>3, <2>5
  <2> QED
    BY <2>2, <2>4, <2>5
<1> QED
  BY <1>3, <1>4, <1>5, <1>6

\* The end of the look-up of a screen.
LEMMA SetScreenTypes ==
  ASSUME ThreadOK, ScreenLockOK, screenVendor \in [Screen -> Vendor \cup {None}],
         NEW t \in Thread, pc[t] \in Searching, call[t].screen \in Screen,
         NEW w \in Vendor \cup {None}, SetScreen(t, w)
  PROVE  /\ ThreadOK' /\ ScreenLockOK'
         /\ screenVendor' = [screenVendor EXCEPT ![call[t].screen] = w]
         /\ screenVendor' \in [Screen -> Vendor \cup {None}]
         /\ \E l \in {"idle", "fetch"}, c \in CallType : Goto(t, l, c)
<1>1. PICK l \in {"idle", "fetch"}, c \in CallType : Goto(t, l, c)
  BY VendorFoundTypes DEF SetScreen
<1>2. l \in Label \ Searching
  BY DEF Label, Searching
<1>3. ThreadOK'
  BY <1>1, <1>2, Moved
<1>4. vendorLock' = [vendorLock EXCEPT ![DisplayOf[call[t].screen]] = None]
  BY DEF SetScreen
<1>5. ScreenLockOK'
  BY <1>1, <1>2, <1>4, ScreenLockStep
<1> QED
  BY <1>1, <1>3, <1>5 DEF SetScreen

\* A step that leaves a candidate for the next one.
LEMMA NextTypes ==
  ASSUME ThreadOK, ScreenLockOK, NameLockOK, screenVendor \in [Screen -> Vendor \cup {None}],
         NEW t \in Thread, pc[t] \in Searching, call[t].screen \in Screen,
         NEW w \in Vendor \cup {None},
         \/ call[t].todo # <<>> /\ NextCandidate(t)
         \/ SetScreen(t, w),
         IF pc[t] \in Writing THEN nameLock' = None ELSE nameLock' = nameLock
  PROVE  /\ ThreadOK' /\ ScreenLockOK' /\ NameLockOK'
         /\ screenVendor' \in [Screen -> Vendor \cup {None}]
<1>1. ASSUME NEW l \in {"name", "idle", "fetch"}, NEW c \in CallType, Goto(t, l, c)
      PROVE  NameLockOK'
  <2>1. l \in Label \ Writing
    BY DEF Label, Writing
  <2> QED
    BY <1>1, <2>1, NameLockStep
<1>2. ASSUME NEW x \in Vendor \cup {None}, SetScreen(t, x)
      PROVE  /\ ThreadOK' /\ ScreenLockOK' /\ NameLockOK'
             /\ screenVendor' \in [Screen -> Vendor \cup {None}]
  BY <1>1, <1>2, SetScreenTypes
<1>3. CASE /\ UNCHANGED screenVars
           /\ \E c \in CallType :
                 /\ Goto(t, "name", c) /\ c.todo # <<>> /\ c.screen = call[t].screen
                 /\ c.name = call[t].name /\ c.index = call[t].index
  <2>1. PICK c \in CallType : Goto(t, "name", c) /\ c.screen = call[t].screen
    BY <1>3
  <2>2. "name" \in Label /\ "name" \in Searching
    BY DEF Label, Searching
  <2>3. vendorLock' = vendorLock
    BY <1>3 DEF screenVars
  <2>4. ScreenLockOK'
    BY <2>1, <2>2, <2>3, ScreenLockStep
  <2> QED
    BY <1>1, <1>3, <2>1, <2>2, <2>4, Moved DEF screenVars
<1> QED
  BY <1>2, <1>3, NextCandidateTypes

\* The load of a vendor.
LEMMA LoadTypes ==
  ASSUME Typed, NEW t \in Thread, CallOK(t),
         \/ LoadFails(t) \/ LoadSucceeds(t) \/ UpdateEntrypoint(t) \/ TellVendor(t)
         \/ CheckScreen(t)
  PROVE  Typed'
<1> USE DEF Typed
<1>1. call[t] \in CallType
  BY DEF ThreadOK
<1>2. pc[t] \in {"open", "update", "tell", "found"}
  BY DEF LoadFails, LoadSucceeds, UpdateEntrypoint, TellVendor, CheckScreen
<1>3. /\ pc[t] \in Searching
      /\ {"open", "update", "tell"} \subseteq Label \cap Searching \cap Writing
      /\ "found" \in (Label \cap Searching) \ Writing
  BY <1>2 DEF Searching, Writing, Label
<1>4. call[t].screen \in Screen /\ call[t].todo # <<>>
  BY <1>1, <1>3, CallFields DEF CallOK
<1>5. Candidate(t) \in Vendor
  BY <1>4, CandidateType
<1>6. CASE LoadFails(t)
  <2>1. failures' \in 0..MaxFailures
    BY <1>6, ConstantsAssumption DEF LoadFails, Fail, DataOK
  <2>2. NextCandidate(t) /\ nameLock' = None /\ pc[t] \in Writing
    BY <1>6 DEF LoadFails, UnlockAfterFailure, Writing
  <2>3. ThreadOK' /\ ScreenLockOK' /\ NameLockOK' /\ screenVendor' \in [Screen -> Vendor \cup {None}]
    BY <1>3, <1>4, <2>2, NextTypes DEF DataOK
  <2> QED
    BY <1>6, <2>1, <2>3 DEF LoadFails, DataOK, indexVars, cacheVars
<1>7. CASE CheckScreen(t)
  <2>1. \/ NextCandidate(t) \/ SetScreen(t, Candidate(t))
    BY <1>7 DEF CheckScreen
  <2>2. pc[t] \notin Writing /\ nameLock' = nameLock
    BY <1>7 DEF CheckScreen, Writing
  <2>3. ThreadOK' /\ ScreenLockOK' /\ NameLockOK' /\ screenVendor' \in [Screen -> Vendor \cup {None}]
    BY <1>3, <1>4, <1>5, <2>1, <2>2, NextTypes DEF DataOK
  <2> QED
    BY <1>7, <2>3 DEF CheckScreen, DataOK, indexVars, cacheVars
<1>8. ASSUME NEW l \in {"update", "tell"}, Goto(t, l, call[t]), UNCHANGED <<nameLock, vendorLock>>,
             pc[t] \in Writing
      PROVE  NameLockOK' /\ ScreenLockOK' /\ ThreadOK'
  BY <1>1, <1>3, <1>8, Moved, NameLockStep, ScreenLockStep
<1>9. CASE LoadSucceeds(t)
  <2>1. loaded' \in Seq(Vendor)
    BY <1>5, <1>9 DEF LoadSucceeds, DataOK
  <2>2. DataOK'
    BY <1>9, <2>1 DEF LoadSucceeds, DataOK, indexVars, cacheVars, screenVars
  <2>3. Goto(t, "update", call[t]) /\ UNCHANGED <<nameLock, vendorLock>> /\ pc[t] \in Writing
    BY <1>9 DEF LoadSucceeds, Writing, screenVars
  <2> QED
    BY <1>8, <2>2, <2>3
<1>10. CASE UpdateEntrypoint(t)
  <2>1. ASSUME NEW n \in ToUpdate(Candidate(t)),
               entrypoint' = [entrypoint EXCEPT ![n] = Provided(Candidate(t), n)]
        PROVE  entrypoint' \in [Name -> Addr \cup {Default, None}]
    <3>1. n \in Name /\ Provided(Candidate(t), n) \in Addr \cup {None}
      BY <1>5, ProvidedCases DEF ToUpdate
    <3> QED
      BY <2>1, <3>1 DEF DataOK
  <2>2. entrypoint' \in [Name -> Addr \cup {Default, None}]
    BY <1>10, <2>1 DEF UpdateEntrypoint, DataOK
  <2>3. /\ unstubbed' \subseteq {vn \in Vendor \X Name : vn[2] \in GlOf[vn[1]]}
        /\ failures' \in 0..MaxFailures
    BY <1>5, <1>10, ConstantsAssumption DEF UpdateEntrypoint, ToUpdate, Fail, DataOK
  <2>4. DataOK'
    BY <1>10, <2>2, <2>3 DEF UpdateEntrypoint, DataOK, cacheVars, screenVars
  <2>5. \/ UNCHANGED threadVars
        \/ Goto(t, "tell", call[t])
    BY <1>10 DEF UpdateEntrypoint
  <2>6. UNCHANGED <<nameLock, vendorLock>> /\ pc[t] \in Writing
    BY <1>10 DEF UpdateEntrypoint, Writing, screenVars
  <2>7. CASE UNCHANGED threadVars
    BY <2>4, <2>6, <2>7 DEF threadVars, ThreadOK, NameLockOK, ScreenLockOK
  <2> QED
    BY <1>8, <2>4, <2>5, <2>6, <2>7
<1>11. CASE TellVendor(t)
  <2>1. ASSUME NEW i \in DOMAIN indices,
               told' = [told EXCEPT ![Candidate(t)][indices[i].name] = i]
        PROVE  told' \in [Vendor -> [Name -> Nat \cup {None}]]
    <3>1. indices[i] \in IndexEntry /\ i \in Nat
      BY DEF DataOK
    <3>2. indices[i].name \in Name
      BY <3>1 DEF IndexEntry
    <3> QED
      BY <1>5, <2>1, <3>1, <3>2 DEF DataOK
  <2>2. told' \in [Vendor -> [Name -> Nat \cup {None}]]
    BY <1>11, <2>1 DEF TellVendor, Untold, DataOK
  <2>3. DataOK'
    BY <1>11, <2>2 DEF TellVendor, DataOK, cacheVars, screenVars
  <2>4. vendorLock' = vendorLock /\ pc[t] \in Writing
    BY <1>11 DEF TellVendor, Writing, screenVars
  <2>5. \/ UNCHANGED <<nameLock, threadVars>>
        \/ nameLock' = None /\ Goto(t, "found", call[t])
    BY <1>11 DEF TellVendor
  <2>6. CASE UNCHANGED <<nameLock, threadVars>>
    BY <2>3, <2>4, <2>6 DEF threadVars, ThreadOK, NameLockOK, ScreenLockOK
  <2>7. CASE nameLock' = None /\ Goto(t, "found", call[t])
    <3>1. NameLockOK' /\ ThreadOK'
      BY <1>1, <1>3, <2>4, <2>7, NameLockStep, Moved
    <3>2. ScreenLockOK'
      BY <1>1, <1>3, <2>4, <2>7, ScreenLockStep
    <3> QED
      BY <2>3, <3>1, <3>2
  <2> QED
    BY <2>5, <2>6, <2>7
<1> QED
  BY <1>6, <1>7, <1>9, <1>10, <1>11

\* A fetch is over, or goes on with an index that has a name.
LEMMA FetchMoves ==
  ASSUME NEW t \in Thread, FetchDispatchEntry(t)
  PROVE  /\ pc[t] \in Fetching
         /\ \/ Goto(t, "idle", NoCall)
            \/ /\ pc[t] = "fetch" /\ call[t].index \in DOMAIN indices
               /\ Goto(t, "ask", call[t])
            \/ pc[t] = "ask" /\ Goto(t, "add", call[t])
         /\ UNCHANGED <<loaded, nameLock, indices, entrypoint, unstubbed, told, cache, given,
                        screenVendor, vendorLock, tableLock>>
<1>1. UNCHANGED <<loaded, nameLock, indices, entrypoint, unstubbed, told, cache, given,
                  screenVendor, vendorLock, tableLock>>
  BY DEF FetchDispatchEntry, indexVars, cacheVars, screenVars
<1>2. CASE LookupFunc(t)
  BY <1>1, <1>2 DEF LookupFunc, Fetching, Return, FetchName
<1>3. CASE AskVendor(t)
  BY <1>1, <1>3 DEF AskVendor, Fetching, Return
<1>4. CASE AddFunc(t)
  BY <1>1, <1>4 DEF AddFunc, Fetching, Return
<1> QED
  BY <1>2, <1>3, <1>4 DEF FetchDispatchEntry

\* The table of the vendor gets the function of the call's index.
LEMMA FetchAdds ==
  ASSUME Typed, NEW t \in Thread, CallOK(t), FetchDispatchEntry(t)
  PROVE  /\ failures' \in 0..MaxFailures
         /\ \/ fetched' = fetched
            \/ \E w \in Vendor, i \in DOMAIN indices :
                 /\ indices[i].name \in Name
                 /\ fetched' = [fetched EXCEPT ![w][i] = indices[i].name]
<1> USE DEF Typed
<1>1. CASE LookupFunc(t) \/ AskVendor(t)
  BY <1>1 DEF LookupFunc, AskVendor, DataOK
<1>2. CASE AddFunc(t)
  <2>1. call[t].vendor \in Vendor /\ call[t].index \in DOMAIN indices
    BY <1>2, CallFields DEF AddFunc, CallOK, ThreadOK, Fetching
  <2>2. \A j \in DOMAIN indices : indices[j] \in IndexEntry
    BY DEF DataOK
  <2>3. indices[call[t].index] \in IndexEntry
    BY <2>1, <2>2
  <2>4. indices[call[t].index].name \in Name
    BY <2>3 DEF IndexEntry
  <2>5. failures' \in 0..MaxFailures
    BY <1>2, ConstantsAssumption DEF AddFunc, Fail, DataOK
  <2>6. \/ fetched' = fetched
        \/ fetched' = [fetched EXCEPT ![call[t].vendor][call[t].index] = indices[call[t].index].name]
    BY <1>2 DEF AddFunc
  <2> QED
    BY <2>1, <2>4, <2>5, <2>6
<1> QED
  BY <1>1, <1>2 DEF FetchDispatchEntry

\* A call of a function, and a fork.
LEMMA CallTypes ==
  ASSUME Typed, NEW t \in Thread, CallOK(t),
         \/ \E n \in Name, s \in Screen : CallFunction(t, n, s)
         \/ FetchDispatchEntry(t) \/ Fork(t)
  PROVE  Typed'
<1> USE DEF Typed
<1>1. call[t] \in CallType /\ NoCall \in CallType
  BY NoCallTyped DEF ThreadOK
<1>2. ASSUME NEW l \in {"idle", "screen", "ask", "add"}, NEW c \in CallType, Goto(t, l, c),
             pc[t] \in {"idle"} \cup Fetching, UNCHANGED <<nameLock, vendorLock>>
      PROVE  NameLockOK' /\ ScreenLockOK' /\ ThreadOK'
  <2>1. /\ l \in Label /\ l \notin Searching /\ pc[t] \notin Searching
        /\ l \notin Writing /\ pc[t] \notin Writing
    BY <1>2 DEF Writing, Searching, Label, Fetching
  <2> QED
    BY <1>2, <2>1, Moved, NameLockStep, ScreenLockStep
<1>3. ASSUME NEW n \in Name, NEW s \in Screen, CallFunction(t, n, s)
      PROVE  Typed'
  <2>1. PICK v \in Vendor :
          Goto(t, "screen", [NoCall EXCEPT !.name = n, !.screen = s, !.index = told[v][n]])
    BY <1>3, Zenon DEF CallFunction
  <2>2. told[v][n] \in Nat \cup {None}
    BY DEF DataOK
  <2>3. [NoCall EXCEPT !.name = n, !.screen = s, !.index = told[v][n]] \in CallType
    BY <2>2, NewCalls, Zenon
  <2>4. DataOK' /\ UNCHANGED <<nameLock, vendorLock>> /\ pc[t] = "idle"
    <3>1. /\ pc[t] = "idle"
          /\ UNCHANGED <<loaded, nameLock, indexVars, fetched, tableLock, cacheVars, screenVars,
                         failures>>
      BY <1>3, Zenon DEF CallFunction
    <3> QED
      BY <3>1 DEF DataOK, indexVars, cacheVars, screenVars
  <2> QED
    BY <1>2, <2>1, <2>3, <2>4
<1>4. CASE FetchDispatchEntry(t)
  <2>1. fetched' \in [Vendor -> [1..Cardinality(Name) -> Name \cup {None}]]
    <3>1. CASE fetched' = fetched
      BY <3>1 DEF DataOK
    <3>2. ASSUME NEW w \in Vendor, NEW i \in DOMAIN indices, indices[i].name \in Name,
                 fetched' = [fetched EXCEPT ![w][i] = indices[i].name]
          PROVE  fetched' \in [Vendor -> [1..Cardinality(Name) -> Name \cup {None}]]
      BY <3>2 DEF DataOK
    <3> QED
      BY <1>4, <3>1, <3>2, FetchAdds
  <2>2. failures' \in 0..MaxFailures
    BY <1>4, FetchAdds
  <2>3. /\ UNCHANGED <<loaded, nameLock, indices, entrypoint, unstubbed, told, cache, given,
                       screenVendor, vendorLock, tableLock>>
        /\ pc[t] \in Fetching
        /\ \/ Goto(t, "idle", NoCall)
           \/ \E l \in {"ask", "add"} : Goto(t, l, call[t])
    BY <1>4, FetchMoves
  <2>4. DataOK'
    BY <2>1, <2>2, <2>3 DEF DataOK
  <2> QED
    BY <1>1, <1>2, <2>3, <2>4
<1>5. CASE Fork(t)
  <2>1. DataOK'
    <3>1. tableLock' \in [Vendor -> {"free", "read", "write"}]
      BY <1>5 DEF Fork, LeaveTableLocks
    <3> QED
      BY <1>5, <3>1 DEF Fork, DataOK, indexVars, cacheVars
  <2>2. ThreadOK'
    BY <1>1, <1>5 DEF Fork, ThreadOK, Label
  <2>3. \A u \in Thread : pc'[u] = "idle"
    BY <1>5 DEF Fork
  <2>4. "idle" \notin Writing \cup Searching
    BY DEF Writing, Searching
  <2>5. NameLockOK'
    BY <1>5, <2>3, <2>4, ConstantsAssumption DEF Fork, NameLockOK
  <2>6. ScreenLockOK'
    BY <1>5, <2>3, <2>4, ConstantsAssumption DEF Fork, ResetVendorLocks, ScreenLockOK
  <2> QED
    BY <2>1, <2>2, <2>5, <2>6
<1> QED
  BY <1>3, <1>4, <1>5

LEMMA TypesInit == Init => Typed
<1> SUFFICES ASSUME Init PROVE Typed
  OBVIOUS
<1>1. DataOK
  <2>1. <<>> \in Seq(Vendor) /\ <<>> \in Seq(IndexEntry)
    OBVIOUS
  <2>2. MaxFailures \in Nat
    BY ConstantsAssumption
  <2>3. 0 \in 0..MaxFailures
    BY <2>2
  <2> QED
    BY <2>1, <2>3 DEF Init, DataOK
<1>2. ThreadOK
  BY NoCallTyped DEF Init, ThreadOK, Label
<1>3. NameLockOK
  BY ConstantsAssumption DEF Init, NameLockOK, Writing
<1>4. ScreenLockOK
  BY ConstantsAssumption DEF Init, ScreenLockOK, Searching
<1> QED
  BY <1>1, <1>2, <1>3, <1>4 DEF Typed

LEMMA TypesStep ==
  ASSUME Typed, \A t \in Thread : CallOK(t), [Next]_vars
  PROVE  Typed'
<1>1. CASE UNCHANGED vars
  BY <1>1 DEF vars, indexVars, cacheVars, screenVars, threadVars, Typed, DataOK, NameLockOK,
              ScreenLockOK, ThreadOK
<1>2. ASSUME NEW t \in Thread, Step(t) \/ Start(t) \/ Fork(t)
      PROVE  Typed'
  BY <1>2, AddressTypes, SearchTypes, LoadTypes, CallTypes DEF Step, Start
<1> QED
  BY <1>1, <1>2 DEF Next

-----------------------------------------------------------------------------
(* One load, one index, one address.                                       *)

\* A step of thread t leaves the other threads where they are.
OthersStay(t) == \A u \in Thread \ {t} : pc'[u] = pc[u] /\ call'[u] = call[u]

LEMMA StepsAreOfOne ==
  ASSUME ThreadOK, NEW t \in Thread, Step(t) \/ Start(t)
  PROVE  OthersStay(t)
<1>1. ASSUME NEW l, NEW c, Goto(t, l, c)
      PROVE  OthersStay(t)
  BY <1>1 DEF Goto, ThreadOK, OthersStay
<1>2. UNCHANGED threadVars => OthersStay(t)
  BY DEF threadVars, OthersStay
<1>3. \A w : VendorFound(t, w) => OthersStay(t)
  BY <1>1 DEF VendorFound, Return
<1>4. NextCandidate(t) => OthersStay(t)
  BY <1>1, <1>3 DEF NextCandidate, SetScreen
<1>5. ASSUME NEW n \in Name, NEW s \in Screen, CallFunction(t, n, s)
      PROVE  OthersStay(t)
  BY <1>1, <1>5, Zenon DEF CallFunction
<1>6. FindAddress(t) \/ NewAddress(t) \/ CacheAddress(t) => OthersStay(t)
  BY <1>1 DEF FindAddress, NewAddress, CacheAddress, Return
<1>7. ReadScreen(t) \/ WriteScreen(t) \/ FindName(t) \/ LockToLoad(t) => OthersStay(t)
  BY <1>1, <1>3 DEF ReadScreen, WriteScreen, FindName, LockToLoad
<1>8. LoadFails(t) \/ LoadSucceeds(t) \/ CheckScreen(t) => OthersStay(t)
  BY <1>1, <1>3, <1>4 DEF LoadFails, LoadSucceeds, CheckScreen, SetScreen
<1>9. UpdateEntrypoint(t) \/ TellVendor(t) \/ FetchDispatchEntry(t) => OthersStay(t)
  BY <1>1, <1>2, FetchMoves DEF UpdateEntrypoint, TellVendor, threadVars
<1>10. ASSUME NEW n \in Name, GetProcAddress(t, n)
       PROVE  OthersStay(t)
  BY <1>1, <1>2, <1>10, Zenon DEF GetProcAddress, Hit, Miss
<1>11. ASSUME NEW s \in Screen, LookupVendorByScreen(t, s)
       PROVE  OthersStay(t)
  BY <1>1, <1>11, Zenon DEF LookupVendorByScreen
<1> QED
  BY <1>5, <1>6, <1>7, <1>8, <1>9, <1>10, <1>11 DEF Step, Start

\* The hash of vendors grows only by the candidate of the thread that has opened it, and
\* a screen gets its vendor only from the thread that searches it.
LEMMA SharedSteps ==
  ASSUME Typed, NEW t \in Thread, CallOK(t), Step(t) \/ Start(t)
  PROVE  /\ \/ loaded' = loaded
            \/ /\ pc[t] = "open" /\ pc'[t] = "update" /\ call'[t] = call[t]
               /\ loaded' = Append(loaded, Candidate(t))
         /\ \/ screenVendor' = screenVendor
            \/ /\ pc[t] \in Searching /\ pc'[t] \notin Searching
               /\ \E w \in Vendor \cup {None} :
                    /\ screenVendor' = [screenVendor EXCEPT ![call[t].screen] = w]
                    /\ w # None => pc[t] = "found" /\ w = Candidate(t)
<1>1. CASE LoadSucceeds(t)
  <2>1. pc'[t] = "update" /\ call'[t] = call[t]
    BY <1>1 DEF LoadSucceeds, Goto, Typed, ThreadOK
  <2> QED
    BY <1>1, <2>1 DEF LoadSucceeds, screenVars
<1>2. ASSUME NEW w \in Vendor \cup {None}, SetScreen(t, w), pc[t] \in Searching
      PROVE  /\ screenVendor' = [screenVendor EXCEPT ![call[t].screen] = w]
             /\ pc'[t] \notin Searching
  <2>1. PICK l \in {"idle", "fetch"}, c \in CallType : Goto(t, l, c)
    BY <1>2, VendorFoundTypes DEF SetScreen, Typed
  <2>2. pc'[t] = l
    BY <2>1 DEF Goto, Typed, ThreadOK
  <2> QED
    BY <1>2, <2>2 DEF SetScreen, Searching
<1>3. CASE LoadFails(t)
  <2>1. pc[t] \in Searching
    BY <1>3 DEF LoadFails, Searching
  <2> QED
    BY <1>2, <1>3, <2>1 DEF LoadFails, NextCandidate, screenVars
<1>4. CASE CheckScreen(t)
  <2>1. pc[t] \in Searching /\ pc[t] = "found"
    BY <1>4 DEF CheckScreen, Searching
  <2>2. Candidate(t) \in Vendor
    BY <2>1, CandidateType DEF CallOK, Typed
  <2> QED
    BY <1>2, <1>4, <2>1, <2>2 DEF CheckScreen, NextCandidate, screenVars
<1>5. CASE ~(LoadSucceeds(t) \/ LoadFails(t) \/ CheckScreen(t))
  BY <1>5, Zenon DEF Step, Start, GetProcAddress, LookupVendorByScreen, CallFunction, FindAddress,
         NewAddress, CacheAddress, ReadScreen, WriteScreen, FindName, LockToLoad,
         UpdateEntrypoint, TellVendor, FetchDispatchEntry, screenVars
<1> QED
  BY <1>1, <1>3, <1>4, <1>5

\* The locks keep what a waiting or searching thread has found out.
LEMMA IndicesGrow ==
  ASSUME Typed, NEW t \in Thread, Step(t) \/ Start(t)
  PROVE  DOMAIN indices \subseteq DOMAIN indices'
<1>1. CASE indices' = indices
  BY <1>1
<1>2. CASE NewAddress(t) /\ indices' # indices
  <2>1. PICK x : indices' = Append(indices, x)
    BY <1>2 DEF NewAddress, AllocIndex
  <2>2. indices \in Seq(IndexEntry)
    BY DEF Typed, DataOK
  <2> QED
    BY <2>1, <2>2
<1>3. CASE ~NewAddress(t)
  <2>1. indices' = indices
    BY <1>3, Zenon DEF Step, Start, GetProcAddress, LookupVendorByScreen, CallFunction, FindAddress,
         CacheAddress, ReadScreen, WriteScreen, FindName, LockToLoad, LoadFails, LoadSucceeds,
         UpdateEntrypoint, TellVendor, CheckScreen, FetchDispatchEntry, indexVars
  <2> QED
    BY <2>1
<1> QED
  BY <1>1, <1>2, <1>3

LEMMA CallOthers ==
  ASSUME Typed, \A u \in Thread : CallOK(u), NEW t \in Thread, Step(t) \/ Start(t)
  PROVE  \A u \in Thread \ {t} : CallOK(u)'
<1> SUFFICES ASSUME NEW u \in Thread, u # t PROVE CallOK(u)'
  OBVIOUS
<1>1. pc'[u] = pc[u] /\ call'[u] = call[u]
  BY StepsAreOfOne DEF OthersStay, Typed
<1>2. Candidate(u)' = Candidate(u)
  BY <1>1 DEF Candidate
<1>3. Range(loaded) \subseteq Range(loaded') /\ (pc[u] = "open" => loaded' = loaded)
  <2>1. CASE loaded' = loaded
    BY <2>1
  <2>2. CASE pc[t] = "open" /\ loaded' = Append(loaded, Candidate(t))
    <3>1. Candidate(t) \in Vendor
      BY <2>2, CandidateType DEF CallOK, Fetching, Searching, Typed
    <3>2. pc[u] # "open"
      BY <2>2 DEF Typed, NameLockOK, Writing
    <3> QED
      BY <2>2, <3>1, <3>2, RangeOfAppend DEF Typed, DataOK
  <2> QED
    BY <2>1, <2>2, SharedSteps
<1>4. pc[u] \in Searching => screenVendor'[call[u].screen] = screenVendor[call[u].screen]
  <2> SUFFICES ASSUME pc[u] \in Searching
               PROVE  screenVendor'[call[u].screen] = screenVendor[call[u].screen]
    OBVIOUS
  <2>1. call[u].screen \in Screen
    BY CallFields DEF CallOK, Typed, ThreadOK
  <2>2. DisplayOf[call[u].screen] \in Display
    BY <2>1, ConstantsAssumption
  <2>3. pc[t] \in Searching => call[t].screen # call[u].screen
    BY <2>2 DEF Typed, ScreenLockOK
  <2>4. \/ screenVendor' = screenVendor
        \/ /\ pc[t] \in Searching
           /\ \E w : screenVendor' = [screenVendor EXCEPT ![call[t].screen] = w]
    BY SharedSteps
  <2> QED
    BY <2>1, <2>3, <2>4 DEF Typed, DataOK
<1>5. DOMAIN indices \subseteq DOMAIN indices'
  BY IndicesGrow
<1> QED
  BY <1>1, <1>2, <1>3, <1>4, <1>5 DEF CallOK

\* Where a thread that has got a name is next.
LEMMA CallOfName ==
  ASSUME Typed, NEW t \in Thread, CallOK(t),
         \/ \E n \in Name : GetProcAddress(t, n)
         \/ FindAddress(t) \/ NewAddress(t) \/ CacheAddress(t)
  PROVE  CallOK(t)'
<1>1. call[t] \in CallType /\ NoCall \in CallType
  BY NoCallTyped DEF Typed, ThreadOK
<1>2. Goto(t, "idle", NoCall) => CallOK(t)'
  BY DEF Goto, Typed, ThreadOK, CallOK, Fetching, Searching
<1>3. ASSUME NEW n \in Name, GetProcAddress(t, n)
      PROVE  CallOK(t)'
  <2>1. CASE Hit(t, n)
    <3>1. UNCHANGED <<pc, call, screenVendor, loaded>>
      BY <1>3, <2>1 DEF GetProcAddress, Hit, threadVars, screenVars
    <3>2. DOMAIN indices \subseteq DOMAIN indices'
      BY <1>3, IndicesGrow DEF Start
    <3> QED
      BY <3>1, <3>2 DEF CallOK, Candidate
  <2>2. CASE Miss(t, n)
    <3>1. pc'[t] = "resolve" /\ call'[t] = [NoCall EXCEPT !.name = n]
      BY <2>2, Zenon DEF Miss, Goto, Typed, ThreadOK
    <3>2. call'[t].name = n /\ n # None
      BY <1>1, <3>1, ConstantsAssumption DEF CallType
    <3> QED
      BY <3>1, <3>2 DEF CallOK, Fetching, Searching
  <2> QED
    BY <1>3, <2>1, <2>2 DEF GetProcAddress
<1>4. CASE FindAddress(t)
  <2> DEFINE i == IndexOf(call[t].name)
  <2>1. call[t].name \in Name
    BY <1>1, <1>4, CallFields DEF FindAddress, CallOK
  <2>2. i \in DOMAIN indices
    BY <1>4, <2>1, IndexFound DEF FindAddress, Typed, DataOK
  <2>3. indices[i].addr # None
    <3>1. \A j \in DOMAIN indices : indices[j] \in IndexEntry
      BY DEF Typed, DataOK
    <3>2. indices[i] \in IndexEntry
      BY <2>2, <3>1, Zenon
    <3> QED
      BY <3>2, AddressKinds DEF IndexEntry
  <2>4. pc'[t] = "cache" /\ call'[t] = [call[t] EXCEPT !.addr = indices[i].addr]
    BY <1>4, Zenon DEF FindAddress, Goto, Typed, ThreadOK
  <2> HIDE DEF i
  <2>5. call'[t].name = call[t].name /\ call'[t].addr = indices[i].addr
    BY <1>1, <2>4 DEF CallType
  <2> QED
    BY <1>4, <2>1, <2>3, <2>4, <2>5, ConstantsAssumption DEF CallOK, Fetching, Searching
<1>5. CASE NewAddress(t)
  <2> DEFINE a == DispatchAddress(call[t].name)
  <2>1. call[t].name \in Name
    BY <1>1, <1>5, CallFields DEF NewAddress, CallOK
  <2>2. \/ Goto(t, "idle", NoCall)
        \/ a # None /\ Goto(t, "cache", [call[t] EXCEPT !.addr = a])
    BY <1>5 DEF NewAddress, Return
  <2> HIDE DEF a
  <2>3. CASE a # None /\ Goto(t, "cache", [call[t] EXCEPT !.addr = a])
    <3>1. pc'[t] = "cache" /\ call'[t] = [call[t] EXCEPT !.addr = a]
      BY <2>3, Zenon DEF Goto, Typed, ThreadOK
    <3>2. call'[t].name = call[t].name /\ call'[t].addr = a
      BY <1>1, <3>1 DEF CallType
    <3> QED
      BY <2>1, <2>3, <3>1, <3>2, ConstantsAssumption DEF CallOK, Fetching, Searching
  <2> QED
    BY <1>2, <2>2, <2>3
<1>6. CASE CacheAddress(t)
  BY <1>2, <1>6 DEF CacheAddress, Return
<1> QED
  BY <1>3, <1>4, <1>5, <1>6

\* Where a thread is next that looks for the vendor of a screen.
LEMMA CallOfSearch ==
  ASSUME Typed, NEW t \in Thread, CallOK(t),
         \/ \E s \in Screen : LookupVendorByScreen(t, s)
         \/ ReadScreen(t) \/ WriteScreen(t) \/ FindName(t) \/ LockToLoad(t)
         \/ LoadFails(t) \/ LoadSucceeds(t) \/ UpdateEntrypoint(t) \/ TellVendor(t)
         \/ CheckScreen(t)
  PROVE  CallOK(t)'
<1>1. call[t] \in CallType
  BY DEF Typed, ThreadOK
<1>2. ASSUME NEW w \in Vendor \cup {None}, VendorFound(t, w)
      PROVE  CallOK(t)'
  <2>1. PICK l \in {"idle", "fetch"}, c \in CallType :
          /\ Goto(t, l, c)
          /\ l = "fetch" => w # None /\ call[t].name # None /\ c.vendor = w /\ c.name = call[t].name
    BY <1>2, VendorFoundTypes DEF Typed
  <2>2. pc'[t] = l /\ call'[t] = c
    BY <2>1 DEF Goto, Typed, ThreadOK
  <2> QED
    BY <2>1, <2>2 DEF CallOK, Fetching, Searching
<1>3. ASSUME NEW l \in Searching, Goto(t, l, call[t]), pc[t] \in Searching,
             UNCHANGED screenVendor,
             l = "open" => Candidate(t) \notin Range(loaded'),
             l \in {"update", "tell", "found"} => Candidate(t) \in Range(loaded')
      PROVE  CallOK(t)'
  <2>1. pc'[t] = l /\ call'[t] = call[t]
    BY <1>3 DEF Goto, Typed, ThreadOK
  <2> QED
    BY <1>3, <2>1 DEF CallOK, Fetching, Searching, Candidate
<1>4. ASSUME call[t].todo # <<>>, NextCandidate(t), pc[t] \in Searching
      PROVE  CallOK(t)'
  <2>1. CASE SetScreen(t, None)
    BY <1>2, <2>1 DEF SetScreen
  <2>2. CASE /\ UNCHANGED screenVars
             /\ \E c \in CallType :
                  /\ Goto(t, "name", c) /\ c.todo # <<>> /\ c.screen = call[t].screen
                  /\ c.name = call[t].name /\ c.index = call[t].index
    <3>1. PICK c \in CallType : Goto(t, "name", c) /\ c.todo # <<>> /\ c.screen = call[t].screen
      BY <2>2
    <3>2. pc'[t] = "name" /\ call'[t] = c
      BY <3>1 DEF Goto, Typed, ThreadOK
    <3> QED
      BY <1>4, <2>2, <3>1, <3>2 DEF CallOK, Fetching, Searching, screenVars
  <2> QED
    BY <1>4, <2>1, <2>2, NextCandidateTypes DEF Typed
<1>5. ASSUME NEW s \in Screen, LookupVendorByScreen(t, s)
      PROVE  CallOK(t)'
  <2>1. pc'[t] = "screen" /\ call'[t] = [NoCall EXCEPT !.screen = s]
    BY <1>5, Zenon DEF LookupVendorByScreen, Goto, Typed, ThreadOK
  <2>2. call'[t].screen = s /\ s # None
    BY <2>1, ConstantsAssumption, NoCallTyped DEF CallType
  <2> QED
    BY <2>1, <2>2 DEF CallOK, Fetching, Searching
<1>6. CASE ReadScreen(t)
  <2>1. call[t].screen \in Screen
    BY <1>1, <1>6, CallFields DEF ReadScreen, CallOK
  <2>2. screenVendor[call[t].screen] \in Vendor \cup {None}
    BY <2>1 DEF Typed, DataOK
  <2>3. CASE Goto(t, "screenWrite", call[t])
    <3>1. pc'[t] = "screenWrite" /\ call'[t] = call[t]
      BY <2>3 DEF Goto, Typed, ThreadOK
    <3> QED
      BY <2>1, <3>1, ConstantsAssumption DEF CallOK, Fetching, Searching
  <2> QED
    BY <1>2, <1>6, <2>2, <2>3 DEF ReadScreen
<1>7. CASE WriteScreen(t)
  <2> DEFINE s == call[t].screen
  <2>1. s \in Screen /\ s # None
    BY <1>1, <1>7, CallFields DEF WriteScreen, CallOK
  <2>2. screenVendor[s] \in Vendor \cup {None}
    BY <2>1 DEF Typed, DataOK
  <2>3. CASE screenVendor[s] = None /\ Goto(t, "name", [call[t] EXCEPT !.todo = Candidates(s)])
    <3>1. pc'[t] = "name" /\ call'[t] = [call[t] EXCEPT !.todo = Candidates(s)]
      BY <2>3, Zenon DEF Goto, Typed, ThreadOK
    <3>2. call'[t].screen = s /\ call'[t].todo = Candidates(s)
      BY <1>1, <3>1 DEF CallType
    <3>3. Candidates(s) # <<>>
      BY <2>1, CandidatesType
    <3>4. screenVendor' = screenVendor
      BY <1>7 DEF WriteScreen
    <3> QED
      BY <2>1, <2>3, <3>1, <3>2, <3>3, <3>4 DEF CallOK, Fetching, Searching
  <2> QED
    BY <1>2, <1>7, <2>2, <2>3 DEF WriteScreen, CheckAgain
<1>8. CASE FindName(t) \/ LockToLoad(t)
  <2>1. /\ pc[t] \in Searching /\ UNCHANGED <<loaded, screenVendor>>
        /\ \/ Candidate(t) \in Range(loaded) /\ Goto(t, "found", call[t])
           \/ Candidate(t) \notin Range(loaded) /\ \E l \in {"load", "open"} : Goto(t, l, call[t])
    BY <1>8 DEF FindName, LockToLoad, LoadedMeanwhile, Searching, screenVars
  <2>2. {"load", "open", "found"} \subseteq Searching
    BY DEF Searching
  <2> QED
    BY <1>3, <2>1, <2>2
<1>9. CASE LoadFails(t) \/ CheckScreen(t)
  <2>1. pc[t] \in Searching
    BY <1>9 DEF LoadFails, CheckScreen, Searching
  <2>2. call[t].todo # <<>>
    BY <2>1 DEF CallOK
  <2>3. NextCandidate(t) \/ SetScreen(t, Candidate(t))
    BY <1>9 DEF LoadFails, CheckScreen
  <2> QED
    BY <1>2, <1>4, <2>1, <2>2, <2>3, CandidateType DEF SetScreen, Typed
<1>10. CASE LoadSucceeds(t)
  <2>1. pc[t] \in Searching /\ "update" \in Searching
    BY <1>10 DEF LoadSucceeds, Searching
  <2>2. Candidate(t) \in Range(loaded')
    BY <1>10, <2>1, CandidateType, RangeOfAppend DEF LoadSucceeds, Typed, DataOK, CallOK
  <2> QED
    BY <1>3, <1>10, <2>1, <2>2 DEF LoadSucceeds, screenVars
<1>11. CASE UpdateEntrypoint(t) \/ TellVendor(t)
  <2>1. /\ pc[t] \in Searching /\ {"tell", "found"} \subseteq Searching
        /\ UNCHANGED <<loaded, screenVendor>> /\ Candidate(t) \in Range(loaded)
    BY <1>11 DEF UpdateEntrypoint, TellVendor, Searching, CallOK, screenVars
  <2>2. UNCHANGED threadVars \/ \E l \in {"tell", "found"} : Goto(t, l, call[t])
    BY <1>11 DEF UpdateEntrypoint, TellVendor, threadVars
  <2>3. CASE UNCHANGED threadVars
    <3>1. DOMAIN indices \subseteq DOMAIN indices'
      BY <1>11, IndicesGrow DEF Step
    <3> QED
      BY <2>1, <2>3, <3>1 DEF CallOK, Candidate, threadVars
  <2> QED
    BY <1>3, <2>1, <2>2, <2>3
<1> QED
  BY <1>5, <1>6, <1>7, <1>8, <1>9, <1>10, <1>11

\* And of one that calls a function.
LEMMA CallOfCall ==
  ASSUME Typed, NEW t \in Thread, CallOK(t),
         \/ \E n \in Name, s \in Screen : CallFunction(t, n, s)
         \/ FetchDispatchEntry(t)
  PROVE  CallOK(t)'
<1>1. ASSUME NEW n \in Name, NEW s \in Screen, CallFunction(t, n, s)
      PROVE  CallOK(t)'
  <2>1. PICK v \in Vendor :
          Goto(t, "screen", [NoCall EXCEPT !.name = n, !.screen = s, !.index = told[v][n]])
    BY <1>1, Zenon DEF CallFunction
  <2>2. /\ pc'[t] = "screen"
        /\ call'[t] = [NoCall EXCEPT !.name = n, !.screen = s, !.index = told[v][n]]
    BY <2>1, Zenon DEF Goto, Typed, ThreadOK
  <2>3. call'[t].screen = s /\ s # None
    BY <2>2, ConstantsAssumption, NoCallTyped DEF CallType
  <2> QED
    BY <2>2, <2>3 DEF CallOK, Fetching, Searching
<1>2. CASE FetchDispatchEntry(t)
  <2>1. CASE Goto(t, "idle", NoCall)
    BY <2>1 DEF Goto, Typed, ThreadOK, CallOK, Fetching, Searching
  <2>2. ASSUME NEW l \in {"ask", "add"}, Goto(t, l, call[t]), pc[t] \in Fetching,
               call[t].index \in DOMAIN indices, indices' = indices
        PROVE  CallOK(t)'
    <3>1. pc'[t] = l /\ call'[t] = call[t]
      BY <2>2 DEF Goto, Typed, ThreadOK
    <3> QED
      BY <2>2, <3>1 DEF CallOK, Fetching, Searching
  <2>3. pc[t] = "ask" => call[t].index \in DOMAIN indices
    BY DEF CallOK
  <2> QED
    BY <1>2, <2>1, <2>2, <2>3, FetchMoves
<1> QED
  BY <1>1, <1>2

LEMMA CallStep ==
  ASSUME Typed, \A t \in Thread : CallOK(t), [Next]_vars
  PROVE  \A t \in Thread : CallOK(t)'
<1>1. CASE UNCHANGED vars
  BY <1>1 DEF vars, threadVars, screenVars, indexVars, CallOK, Candidate
<1>2. ASSUME NEW t \in Thread, Step(t) \/ Start(t)
      PROVE  \A u \in Thread : CallOK(u)'
  <2>1. CallOK(t)'
    BY <1>2, CallOfName, CallOfSearch, CallOfCall DEF Step, Start
  <2> QED
    BY <1>2, <2>1, CallOthers
<1>3. ASSUME NEW t \in Thread, Fork(t)
      PROVE  \A u \in Thread : CallOK(u)'
  <2>1. \A u \in Thread : pc'[u] = "idle"
    BY <1>3 DEF Fork
  <2> QED
    BY <2>1 DEF CallOK, Fetching, Searching
<1> QED
  BY <1>1, <1>2, <1>3 DEF Next

\* What a new name gets: an entrypoint of its own if no loaded vendor knows it, and an
\* index unless it is an OpenGL function.
NewName(t, n, a) ==
  /\ nameLock = None
  /\ \A i \in DOMAIN indices : indices[i].name # n
  /\ a = Gen(n) => \A v \in Range(loaded) : Provided(v, n) = None
  /\ \/ entrypoint' = entrypoint
     \/ /\ entrypoint' = [entrypoint EXCEPT ![n] = Default] /\ entrypoint[n] = None
        /\ a = Gen(n)
  /\ \/ UNCHANGED <<indices, told>> /\ pc'[t] = "idle"
     \/ /\ UNCHANGED <<indices, told>> /\ a = GlAddr
        /\ \E v \in Range(loaded) : n \in GlOf[v]
        /\ pc'[t] = "cache" /\ call'[t].name = n /\ call'[t].addr = a
     \/ /\ indices' = Append(indices, [name |-> n, addr |-> a])
        /\ TellLoaded(n, Len(indices) + 1)
        /\ \/ a = Gen(n) /\ entrypoint'[n] # None
           \/ \E v \in Range(loaded) : n \in GlxOf[v] /\ a = Stub(v)
        /\ pc'[t] = "cache" /\ call'[t].name = n /\ call'[t].addr = a

LEMMA NewAddressCases ==
  ASSUME Typed, NEW t \in Thread, CallOK(t), NewAddress(t)
  PROVE  \E n \in Name, a \in Addr \cup {None} : NewName(t, n, a)
<1> DEFINE n == call[t].name
           a == DispatchAddress(n)
<1>1. call[t] \in CallType
  BY DEF Typed, ThreadOK
<1>2. n \in Name
  BY <1>1, CallFields DEF NewAddress, CallOK
<1>3. \A i \in DOMAIN indices : indices[i].name # n
  BY <1>2, IndexFound DEF NewAddress, Typed, DataOK
<1>4. \/ \E v \in Range(loaded) : n \in GlxOf[v] /\ a = Stub(v)
      \/ \E v \in Range(loaded) : n \in GlOf[v] /\ a = GlAddr
      \/ (\A v \in Range(loaded) : Provided(v, n) = None) /\ a \in {Gen(n), None}
  BY <1>2, AddressCases DEF Typed, DataOK
<1>5. \A v \in Range(loaded) : v \in Vendor
  BY DEF Typed, DataOK, Range
<1>6. nameLock = None /\ Generate(n, a)
  BY DEF NewAddress
<1>7. \/ UNCHANGED <<indices, told>> /\ Goto(t, "idle", NoCall)
      \/ /\ UNCHANGED <<indices, told>> /\ a = GlAddr
         /\ Goto(t, "cache", [call[t] EXCEPT !.addr = a])
      \/ /\ AllocIndex(n, a) /\ TellLoaded(n, Len(indices')) /\ a \notin {GlAddr, None}
         /\ Goto(t, "cache", [call[t] EXCEPT !.addr = a])
  BY DEF NewAddress, Return
<1> HIDE DEF a, n
<1>8. a \in Addr \cup {None}
  BY <1>2, <1>4, <1>5, AddressKinds
<1>9. a = Gen(n) => \A v \in Range(loaded) : Provided(v, n) = None
  BY <1>2, <1>4, <1>5, AddressKinds
<1>10. /\ \/ entrypoint' = entrypoint
          \/ /\ entrypoint' = [entrypoint EXCEPT ![n] = Default] /\ entrypoint[n] = None
             /\ a = Gen(n)
       /\ a = Gen(n) => entrypoint'[n] # None
  BY <1>2, <1>6, AddressKinds DEF Generate, Typed, DataOK
<1>11. ASSUME Goto(t, "cache", [call[t] EXCEPT !.addr = a])
       PROVE  pc'[t] = "cache" /\ call'[t].name = n /\ call'[t].addr = a
  <2>1. pc'[t] = "cache" /\ call'[t] = [call[t] EXCEPT !.addr = a]
    BY <1>11, Zenon DEF Goto, Typed, ThreadOK
  <2> QED
    BY <1>1, <2>1 DEF CallType, n
<1>12. ASSUME Goto(t, "idle", NoCall)
       PROVE  pc'[t] = "idle" /\ call'[t].name = None
  BY <1>12 DEF Goto, Typed, ThreadOK, NoCall
<1>13. ASSUME AllocIndex(n, a), TellLoaded(n, Len(indices'))
       PROVE  /\ indices' = Append(indices, [name |-> n, addr |-> a])
              /\ TellLoaded(n, Len(indices) + 1)
  <2>1. indices' = Append(indices, [name |-> n, addr |-> a])
    BY <1>13 DEF AllocIndex
  <2>2. Len(indices') = Len(indices) + 1
    BY <2>1 DEF Typed, DataOK
  <2> QED
    BY <1>13, <2>1, <2>2
<1>15. a = GlAddr => \E v \in Range(loaded) : n \in GlOf[v]
  BY <1>2, <1>4, <1>5, AddressKinds
<1>16. a \notin {GlAddr, None} =>
         a = Gen(n) \/ \E v \in Range(loaded) : n \in GlxOf[v] /\ a = Stub(v)
  BY <1>4
<1>17. \/ UNCHANGED <<indices, told>> /\ pc'[t] = "idle"
       \/ /\ UNCHANGED <<indices, told>> /\ a = GlAddr
          /\ \E v \in Range(loaded) : n \in GlOf[v]
          /\ pc'[t] = "cache" /\ call'[t].name = n /\ call'[t].addr = a
       \/ /\ indices' = Append(indices, [name |-> n, addr |-> a])
          /\ TellLoaded(n, Len(indices) + 1)
          /\ \/ a = Gen(n) /\ entrypoint'[n] # None
             \/ \E v \in Range(loaded) : n \in GlxOf[v] /\ a = Stub(v)
          /\ pc'[t] = "cache" /\ call'[t].name = n /\ call'[t].addr = a
  BY <1>7, <1>10, <1>11, <1>12, <1>13, <1>15, <1>16
<1>18. NewName(t, n, a)
  BY <1>3, <1>6, <1>9, <1>10, <1>17 DEF NewName
<1> QED
  BY <1>2, <1>8, <1>18

\* Only a new name changes the list; an entrypoint is made and then resolved, once.
LEMMA ListSteps ==
  ASSUME Typed, NEW t \in Thread, CallOK(t), Step(t) \/ Start(t)
  PROVE  /\ NewAddress(t) \/ indices' = indices
         /\ NewAddress(t) \/ UpdateEntrypoint(t) \/ entrypoint' = entrypoint
         /\ \A n \in Name :
              /\ entrypoint[n] # None => entrypoint'[n] # None
              /\ entrypoint[n] \notin {None, Default} => entrypoint'[n] = entrypoint[n]
<1>1. CASE NewAddress(t)
  <2> PICK n \in Name, a \in Addr \cup {None} : NewName(t, n, a)
    BY <1>1, NewAddressCases
  <2> QED
    BY <1>1, AddressKinds DEF NewName, Typed, DataOK
<1>2. CASE UpdateEntrypoint(t)
  <2>1. Candidate(t) \in Vendor
    BY <1>2, CandidateType DEF UpdateEntrypoint, CallOK, Searching, Typed
  <2>2. indices' = indices
    BY <1>2 DEF UpdateEntrypoint
  <2>3. \/ entrypoint' = entrypoint
        \/ \E n \in ToUpdate(Candidate(t)) :
             entrypoint' = [entrypoint EXCEPT ![n] = Provided(Candidate(t), n)]
    BY <1>2 DEF UpdateEntrypoint
  <2>4. \A n \in ToUpdate(Candidate(t)) :
          n \in Name /\ entrypoint[n] = Default /\ Provided(Candidate(t), n) # None
    BY DEF ToUpdate, Lacks
  <2> QED
    BY <1>2, <2>1, <2>2, <2>3, <2>4, AddressKinds DEF Typed, DataOK
<1>3. CASE ~(NewAddress(t) \/ UpdateEntrypoint(t))
  <2>1. indices' = indices /\ entrypoint' = entrypoint
    BY <1>3, Zenon DEF Step, Start, GetProcAddress, LookupVendorByScreen, CallFunction, FindAddress,
         CacheAddress, ReadScreen, WriteScreen, FindName, LockToLoad, LoadFails, LoadSucceeds,
         TellVendor, CheckScreen, FetchDispatchEntry, indexVars
  <2> QED
    BY <1>3, <2>1
<1> QED
  BY <1>1, <1>2, <1>3

\* The part of OnceOnly that makes it inductive.
OnceParts ==
  /\ Typed /\ LoadedOnce /\ IndexListOK /\ AddressesFound
  /\ \A t \in Thread : CallOK(t)

LEMMA LoadedGrows ==
  ASSUME Typed, NEW t \in Thread, CallOK(t), Step(t) \/ Start(t)
  PROVE  Range(loaded) \subseteq Range(loaded')
<1>1. CASE loaded' = loaded
  BY <1>1
<1>2. CASE pc[t] = "open" /\ loaded' = Append(loaded, Candidate(t))
  <2>1. Candidate(t) \in Vendor
    BY <1>2, CandidateType DEF CallOK, Fetching, Searching, Typed
  <2> QED
    BY <1>2, <2>1, RangeOfAppend DEF Typed, DataOK
<1> QED
  BY <1>1, <1>2, SharedSteps

\* A vendor is looked up again, under the lock that it is loaded with.
LEMMA LoadedOnceStep ==
  ASSUME OnceParts, NEW t \in Thread, Step(t) \/ Start(t)
  PROVE  LoadedOnce'
<1> USE DEF OnceParts
<1>1. CASE loaded' = loaded
  BY <1>1 DEF LoadedOnce, IsInjective
<1>2. CASE pc[t] = "open" /\ loaded' = Append(loaded, Candidate(t))
  <2>1. Candidate(t) \in Vendor /\ Candidate(t) \notin Range(loaded)
    BY <1>2, CandidateType DEF CallOK, Fetching, Searching, Typed
  <2>2. \A i \in DOMAIN loaded : loaded[i] \in Range(loaded)
    BY DEF Range
  <2>3. loaded \in Seq(Vendor)
    BY DEF Typed, DataOK
  <2> PICK v \in Vendor : v = Candidate(t)
    BY <2>1
  <2>4. /\ \A i \in DOMAIN loaded : loaded'[i] = loaded[i]
        /\ \A i \in DOMAIN loaded' : i \in DOMAIN loaded \/ i = Len(loaded) + 1
        /\ loaded'[Len(loaded) + 1] = v
    BY <1>2, <2>3, RangeOfAppend
  <2> QED
    BY <2>1, <2>2, <2>4 DEF LoadedOnce, IsInjective
<1> QED
  BY <1>1, <1>2, SharedSteps

\* A name that has no index gets one address, and no other name is touched.
LEMMA IndexListStep ==
  ASSUME OnceParts, NEW t \in Thread, Step(t) \/ Start(t)
  PROVE  IndexListOK'
<1> USE DEF OnceParts
<1>1. Range(loaded) \subseteq Range(loaded')
  BY LoadedGrows
<1>2. \A n \in Name : entrypoint[n] # None => entrypoint'[n] # None
  BY ListSteps
<1>3. \A i \in DOMAIN indices : indices[i].name \in Name
  <2>1. \A i \in DOMAIN indices : indices[i] \in IndexEntry
    BY DEF Typed, DataOK
  <2> QED
    BY <2>1 DEF IndexEntry
<1>4. CASE indices' = indices
  BY <1>1, <1>2, <1>3, <1>4 DEF IndexListOK
<1>5. ASSUME NEW n \in Name, NEW a \in Addr,
             \A i \in DOMAIN indices : indices[i].name # n,
             indices' = Append(indices, [name |-> n, addr |-> a]),
             \/ a = Gen(n) /\ entrypoint'[n] # None
             \/ \E v \in Range(loaded) : n \in GlxOf[v] /\ a = Stub(v)
      PROVE  IndexListOK'
  <2> PICK e \in IndexEntry : e = [name |-> n, addr |-> a]
    BY DEF IndexEntry
  <2>1. e.name = n /\ e.addr = a
    OBVIOUS
  <2>2. /\ \A i \in DOMAIN indices : indices'[i] = indices[i]
        /\ \A i \in DOMAIN indices' : i \in DOMAIN indices \/ i = Len(indices) + 1
        /\ indices'[Len(indices) + 1] = e
    BY <1>5, RangeOfAppend DEF Typed, DataOK
  <2>3. \A i, j \in DOMAIN indices' : indices'[i].name = indices'[j].name => i = j
    BY <1>5, <2>1, <2>2 DEF IndexListOK
  <2>4. ASSUME NEW i \in DOMAIN indices'
        PROVE  LET m == indices'[i].name IN
               \/ indices'[i].addr = Gen(m) /\ entrypoint'[m] # None
               \/ \E v \in Range(loaded') : m \in GlxOf[v] /\ indices'[i].addr = Stub(v)
    <3>1. CASE i \in DOMAIN indices
      BY <1>1, <1>2, <1>3, <2>2, <3>1 DEF IndexListOK
    <3>2. CASE i = Len(indices) + 1
      BY <1>1, <1>5, <2>1, <2>2, <3>2
    <3> QED
      BY <2>2, <3>1, <3>2
  <2> QED
    BY <2>3, <2>4 DEF IndexListOK
<1>6. CASE NewAddress(t)
  <2> PICK n \in Name, a \in Addr \cup {None} : NewName(t, n, a)
    BY <1>6, NewAddressCases
  <2>1. \A v \in Range(loaded) : v \in Vendor
    BY DEF Typed, DataOK, Range
  <2>2. CASE indices' # indices
    <3>1. \/ a = Gen(n) /\ entrypoint'[n] # None
          \/ \E v \in Range(loaded) : n \in GlxOf[v] /\ a = Stub(v)
      BY <2>2 DEF NewName
    <3>2. a \in Addr
      BY <2>1, <3>1, AddressKinds
    <3> QED
      BY <1>5, <2>2, <3>1, <3>2 DEF NewName
  <2> QED
    BY <1>4, <2>2
<1> QED
  BY <1>4, <1>6, ListSteps

\* An address stays that of its name.
LEMMA FoundKept ==
  ASSUME OnceParts, NEW t \in Thread, Step(t) \/ Start(t),
         NEW m \in Name, NEW b, AddressFound(m, b)
  PROVE  AddressFound(m, b)'
<1> USE DEF OnceParts
<1>1. Range(loaded) \subseteq Range(loaded')
  BY LoadedGrows
<1>2. CASE indices' = indices
  BY <1>1, <1>2 DEF AddressFound
<1>3. ASSUME NEW n \in Name, NEW a \in Addr,
             \A i \in DOMAIN indices : indices[i].name # n,
             \/ \A v \in Range(loaded) : Provided(v, n) = None
             \/ \E v \in Range(loaded) : n \in GlxOf[v],
             indices' = Append(indices, [name |-> n, addr |-> a])
      PROVE  AddressFound(m, b)'
  <2> PICK e \in IndexEntry : e = [name |-> n, addr |-> a]
    BY DEF IndexEntry
  <2>1. e.name = n
    OBVIOUS
  <2>2. /\ \A i \in DOMAIN indices : i \in DOMAIN indices' /\ indices'[i] = indices[i]
        /\ \A i \in DOMAIN indices' : i \in DOMAIN indices \/ i = Len(indices) + 1
        /\ indices'[Len(indices) + 1] = e
    BY <1>3, RangeOfAppend DEF Typed, DataOK
  <2>3. CASE \E i \in DOMAIN indices : indices[i].name = m /\ indices[i].addr = b
    BY <2>2, <2>3 DEF AddressFound
  <2>4. CASE /\ b = GlAddr
             /\ \A i \in DOMAIN indices : indices[i].name # m
             /\ \E v \in Range(loaded) : m \in GlOf[v]
    <3>1. \A v \in Range(loaded) : v \in Vendor
      BY DEF Typed, DataOK, Range
    <3>2. m # n
      BY <1>3, <2>4, <3>1, ProvidedCases, AddressKinds, NamesAssumption
    <3>3. \A i \in DOMAIN indices' : indices'[i].name # m
      BY <2>1, <2>2, <2>4, <3>2
    <3> QED
      BY <1>1, <2>4, <3>3 DEF AddressFound
  <2> QED
    BY <2>3, <2>4 DEF AddressFound
<1>4. CASE NewAddress(t)
  <2> PICK n \in Name, a \in Addr \cup {None} : NewName(t, n, a)
    BY <1>4, NewAddressCases
  <2>1. \A v \in Range(loaded) : v \in Vendor
    BY DEF Typed, DataOK, Range
  <2>2. CASE indices' # indices
    <3>1. \/ a = Gen(n) /\ \A v \in Range(loaded) : Provided(v, n) = None
          \/ \E v \in Range(loaded) : n \in GlxOf[v] /\ a = Stub(v)
      BY <2>2 DEF NewName
    <3>2. a \in Addr
      BY <2>1, <3>1, AddressKinds
    <3> QED
      BY <1>3, <2>2, <3>1, <3>2 DEF NewName
  <2> QED
    BY <1>2, <2>2
<1> QED
  BY <1>2, <1>4, ListSteps

\* Only the three steps of glXGetProcAddress lead to the cache.
LEMMA SearchesNeverCache ==
  ASSUME Typed, NEW t \in Thread, CallOK(t), Step(t) \/ Start(t),
         ~((\E n \in Name : GetProcAddress(t, n)) \/ FindAddress(t) \/ NewAddress(t)
           \/ CacheAddress(t))
  PROVE  \/ pc'[t] # "cache"
         \/ pc[t] = "cache" /\ call'[t] = call[t]
<1>1. ASSUME NEW l, NEW c, Goto(t, l, c), l # "cache"
      PROVE  pc'[t] # "cache"
  BY <1>1 DEF Goto, Typed, ThreadOK
<1>2. \A w : VendorFound(t, w) => pc'[t] # "cache"
  BY <1>1 DEF VendorFound, Return
<1>3. NextCandidate(t) => pc'[t] # "cache"
  BY <1>1, <1>2 DEF NextCandidate, SetScreen
<1>4. ASSUME NEW n \in Name, NEW s \in Screen, CallFunction(t, n, s)
      PROVE  pc'[t] # "cache"
  <2>1. \E c : Goto(t, "screen", c)
    BY <1>4, Zenon DEF CallFunction
  <2> QED
    BY <1>1, <2>1
<1>5. ASSUME NEW s \in Screen, LookupVendorByScreen(t, s)
      PROVE  pc'[t] # "cache"
  <2>1. \E c : Goto(t, "screen", c)
    BY <1>5, Zenon DEF LookupVendorByScreen
  <2> QED
    BY <1>1, <2>1
<1>6. ReadScreen(t) \/ WriteScreen(t) \/ FindName(t) \/ LockToLoad(t) => pc'[t] # "cache"
  BY <1>1, <1>2 DEF ReadScreen, WriteScreen, FindName, LockToLoad
<1>7. LoadFails(t) \/ LoadSucceeds(t) \/ CheckScreen(t) => pc'[t] # "cache"
  BY <1>1, <1>2, <1>3 DEF LoadFails, LoadSucceeds, CheckScreen, SetScreen
<1>8. UpdateEntrypoint(t) \/ TellVendor(t) \/ FetchDispatchEntry(t) => pc'[t] # "cache"
  BY <1>1, FetchMoves DEF UpdateEntrypoint, TellVendor, Fetching, threadVars
<1> QED
  BY <1>4, <1>5, <1>6, <1>7, <1>8 DEF Step, Start

\* Every address that a thread brings out of the look-up was found for its name.
LEMMA AddressesFoundStep ==
  ASSUME OnceParts, NEW t \in Thread, Step(t) \/ Start(t)
  PROVE  AddressesFound'
<1> USE DEF OnceParts
<1>1. \A u \in Thread \ {t} : pc'[u] = pc[u] /\ call'[u] = call[u]
  BY StepsAreOfOne DEF OthersStay, Typed
<1>2. \A u \in Thread : call[u] \in CallType /\ pc[u] \in Label
  BY DEF Typed, ThreadOK
<1>3. \A u \in Thread : pc[u] = "cache" => call[u].name \in Name /\ call[u].addr \in Addr
  BY <1>2, CallFields DEF CallOK
<1>4. given \subseteq Name \X Addr /\ \A n \in Name : cache[n] # None => cache[n] \in Addr
  BY DEF Typed, DataOK
<1>5. \A m \in Name, b \in Addr : AddressFound(m, b) => AddressFound(m, b)'
  BY FoundKept
<1>6. ASSUME NEW u \in Thread, pc[u] = "cache"
      PROVE  /\ call[u].name \in Name /\ call[u].addr \in Addr
             /\ AddressFound(call[u].name, call[u].addr)
  BY <1>3, <1>6 DEF AddressesFound
<1> DEFINE Known(n, b) == n \in Name /\ b \in Addr /\ AddressFound(n, b)
           KnownThen(n, b) == n \in Name /\ b \in Addr /\ AddressFound(n, b)'
<1>7. ASSUME NEW n, NEW b,
             UNCHANGED cache \/ (cache' = [cache EXCEPT ![n] = b] /\ Known(n, b)),
             UNCHANGED given \/ (given' = given \cup {<<n, b>>} /\ Known(n, b)),
             \/ pc'[t] # "cache"
             \/ pc[t] = "cache" /\ call'[t] = call[t]
             \/ call'[t].name = n /\ call'[t].addr = b /\ KnownThen(n, b)
      PROVE  AddressesFound'
  <2>1. ASSUME NEW g \in given'
        PROVE  \E m \in Name, c \in Addr : g = <<m, c>> /\ AddressFound(m, c)
    <3>1. CASE g \in given
      BY <1>4, <3>1 DEF AddressesFound
    <3>2. CASE g = <<n, b>> /\ Known(n, b)
      BY <3>2
    <3> QED
      BY <1>7, <3>1, <3>2
  <2>2. \A g \in given' : AddressFound(g[1], g[2])'
    <3> SUFFICES ASSUME NEW g \in given' PROVE \E m \in Name, c \in Addr :
                          g[1] = m /\ g[2] = c /\ AddressFound(m, c)'
      OBVIOUS
    <3> QED
      BY <1>5, <2>1
  <2>3. \A m \in Name : cache'[m] # None => cache'[m] \in Addr /\ AddressFound(m, cache'[m])
    BY <1>4, <1>7 DEF AddressesFound, Typed, DataOK
  <2>4. \A m \in Name : cache'[m] # None =>
          \E c \in Addr : cache'[m] = c /\ AddressFound(m, c)'
    BY <1>5, <2>3
  <2>5. \A u \in Thread : pc'[u] = "cache" =>
          \E m \in Name, c \in Addr : call'[u].name = m /\ call'[u].addr = c /\ AddressFound(m, c)'
    <3> SUFFICES ASSUME NEW u \in Thread, pc'[u] = "cache"
                 PROVE  \E m \in Name, c \in Addr :
                          call'[u].name = m /\ call'[u].addr = c /\ AddressFound(m, c)'
      OBVIOUS
    <3>1. CASE pc[u] = "cache" /\ call'[u] = call[u]
      BY <1>5, <1>6, <3>1
    <3>2. CASE u = t /\ call'[t].name = n /\ call'[t].addr = b /\ KnownThen(n, b)
      BY <3>2
    <3> QED
      BY <1>1, <1>7, <3>1, <3>2
  <2> QED
    BY <2>2, <2>4, <2>5 DEF AddressesFound
<1>8. ASSUME NEW n \in Name, GetProcAddress(t, n)
      PROVE  AddressesFound'
  <2>1. CASE Hit(t, n)
    <3>1. Known(n, cache[n])
      BY <1>4, <2>1 DEF Hit, AddressesFound
    <3>2. UNCHANGED <<cache, pc, call>> /\ given' = given \cup {<<n, cache[n]>>}
      BY <1>8, <2>1 DEF GetProcAddress, Hit, threadVars
    <3> QED
      BY <1>7, <3>1, <3>2
  <2>2. CASE Miss(t, n)
    <3>1. pc'[t] # "cache" /\ UNCHANGED <<cache, given>>
      BY <1>2, <1>8, <2>2, Zenon DEF GetProcAddress, Miss, Goto, Typed, ThreadOK
    <3> QED
      BY <1>7, <3>1
  <2> QED
    BY <1>8, <2>1, <2>2 DEF GetProcAddress
<1>9. CASE FindAddress(t)
  <2> DEFINE i == IndexOf(call[t].name)
  <2>1. call[t].name \in Name
    BY <1>2, <1>9, CallFields DEF FindAddress, CallOK
  <2>2. i \in DOMAIN indices /\ indices[i].name = call[t].name
    BY <1>9, <2>1, IndexFound DEF FindAddress, Typed, DataOK
  <2>3. pc'[t] = "cache" /\ call'[t] = [call[t] EXCEPT !.addr = indices[i].addr]
    BY <1>9, Zenon DEF FindAddress, Goto, Typed, ThreadOK
  <2>4. indices' = indices /\ UNCHANGED <<given, cache>>
    BY <1>9 DEF FindAddress, indexVars, cacheVars
  <2> HIDE DEF i
  <2>5. call'[t].name = call[t].name /\ call'[t].addr = indices[i].addr
    BY <1>2, <2>3 DEF CallType
  <2>6. indices[i].addr \in Addr
    <3>1. \A j \in DOMAIN indices : indices[j] \in IndexEntry
      BY DEF Typed, DataOK
    <3>2. indices[i] \in IndexEntry
      BY <2>2, <3>1, Zenon
    <3> QED
      BY <3>2 DEF IndexEntry
  <2> PICK n \in Name, b \in Addr : n = call[t].name /\ b = indices[i].addr
    BY <2>1, <2>6
  <2>7. AddressFound(n, b)
    BY <2>2 DEF AddressFound
  <2> QED
    BY <1>5, <1>7, <2>4, <2>5, <2>6, <2>7
<1>10. CASE NewAddress(t)
  <2> PICK n \in Name, b \in Addr \cup {None} : NewName(t, n, b)
    BY <1>10, NewAddressCases
  <2>1. UNCHANGED <<given, cache>>
    BY <1>10 DEF NewAddress, cacheVars
  <2>2. CASE pc'[t] = "idle"
    BY <1>7, <2>1, <2>2
  <2>3. CASE pc'[t] # "idle"
    <3>1. call'[t].name = n /\ call'[t].addr = b
      BY <2>3 DEF NewName
    <3>2. \A v \in Range(loaded) : v \in Vendor /\ v \in Range(loaded')
      <4>1. Range(loaded) \subseteq Range(loaded')
        BY LoadedGrows
      <4>2. \A v \in Range(loaded) : v \in Vendor
        BY DEF Typed, DataOK, Range
      <4> QED
        BY <4>1, <4>2
    <3>3. b \in Addr
      BY <2>3, <3>2, AddressKinds DEF NewName
    <3>4. CASE indices' = indices
      BY <1>7, <2>1, <2>3, <3>1, <3>2, <3>3, <3>4 DEF NewName, AddressFound
    <3>5. CASE indices' = Append(indices, [name |-> n, addr |-> b])
      <4> PICK e \in IndexEntry : e = [name |-> n, addr |-> b]
        BY <3>3 DEF IndexEntry
      <4>1. e.name = n /\ e.addr = b
        OBVIOUS
      <4>2. Len(indices) + 1 \in DOMAIN indices' /\ indices'[Len(indices) + 1] = e
        BY <3>5, RangeOfAppend DEF Typed, DataOK
      <4>3. AddressFound(n, b)'
        BY <4>1, <4>2 DEF AddressFound
      <4> QED
        BY <1>7, <2>1, <3>1, <3>3, <4>3
    <3> QED
      BY <3>4, <3>5 DEF NewName
  <2> QED
    BY <2>2, <2>3
<1>11. CASE CacheAddress(t)
  <2> PICK n : n = call[t].name
    OBVIOUS
  <2> PICK b : b = call[t].addr
    OBVIOUS
  <2>1. Known(n, b)
    BY <1>6, <1>11 DEF CacheAddress
  <2>2. /\ UNCHANGED cache \/ cache' = [cache EXCEPT ![n] = b]
        /\ given' = given \cup {<<n, b>>}
    BY <1>11 DEF CacheAddress
  <2>3. pc'[t] # "cache"
    BY <1>11 DEF CacheAddress, Return, Goto, Typed, ThreadOK
  <2> QED
    BY <1>7, <2>1, <2>2, <2>3
<1>12. CASE ~((\E n \in Name : GetProcAddress(t, n)) \/ FindAddress(t) \/ NewAddress(t)
              \/ CacheAddress(t))
  <2>1. UNCHANGED <<given, cache>>
    BY <1>12, Zenon DEF Step, Start, LookupVendorByScreen, CallFunction, ReadScreen, WriteScreen,
         FindName, LockToLoad, LoadFails, LoadSucceeds, UpdateEntrypoint, TellVendor, CheckScreen,
         FetchDispatchEntry, cacheVars
  <2>2. \/ pc'[t] # "cache"
        \/ pc[t] = "cache" /\ call'[t] = call[t]
    BY <1>12, SearchesNeverCache
  <2> QED
    BY <1>7, <2>1, <2>2
<1> QED
  BY <1>8, <1>9, <1>10, <1>11, <1>12

\* No address is known for a name but the one found first.
LEMMA OneAddressHolds ==
  ASSUME OnceParts
  PROVE  OneAddress
<1> USE DEF OnceParts
<1>1. ASSUME NEW n, NEW a, NEW b, AddressFound(n, a), AddressFound(n, b)
      PROVE  a = b
  BY <1>1 DEF AddressFound, IndexListOK
<1> DEFINE addresses == given
             \cup {<<n, cache[n]>> : n \in {m \in Name : cache[m] # None}}
             \cup {<<call[t].name, call[t].addr>> : t \in {u \in Thread : pc[u] = "cache"}}
<1>2. ASSUME NEW p \in addresses
      PROVE  AddressFound(p[1], p[2])
  BY DEF AddressesFound
<1> HIDE DEF addresses, OnceParts
<1>3. \A p, q \in addresses : p[1] = q[1] => p[2] = q[2]
  BY <1>1, <1>2
<1> QED
  BY <1>3 DEF OneAddress, addresses

LEMMA OncePartsAre == OnceParts <=> OnceOnly
BY TypeParts, OneAddressHolds DEF OnceOnly, OnceParts

LEMMA OnceInit == Init => OnceParts
<1> SUFFICES ASSUME Init PROVE OnceParts
  OBVIOUS
<1>1. Typed
  BY TypesInit
<1>2. DOMAIN loaded = {} /\ DOMAIN indices = {}
  BY DEF Init
<1>3. LoadedOnce /\ IndexListOK
  BY <1>2 DEF LoadedOnce, IsInjective, IndexListOK
<1>4. AddressesFound
  BY DEF Init, AddressesFound
<1>5. \A t \in Thread : CallOK(t)
  BY DEF Init, CallOK, Fetching, Searching
<1> QED
  BY <1>1, <1>3, <1>4, <1>5 DEF OnceParts

LEMMA OnceStep == OnceParts /\ [Next]_vars => OnceParts'
<1> SUFFICES ASSUME OnceParts, [Next]_vars PROVE OnceParts'
  OBVIOUS
<1>1. Typed' /\ \A t \in Thread : CallOK(t)'
  BY TypesStep, CallStep DEF OnceParts
<1>2. CASE UNCHANGED vars
  BY <1>1, <1>2 DEF OnceParts, LoadedOnce, IndexListOK, AddressesFound, AddressFound, vars, indexVars,
                    cacheVars, threadVars
<1>3. ASSUME NEW t \in Thread, Step(t) \/ Start(t)
      PROVE  OnceParts'
  BY <1>1, <1>3, LoadedOnceStep, IndexListStep, AddressesFoundStep DEF OnceParts
<1>4. ASSUME NEW t \in Thread, Fork(t)
      PROVE  OnceParts'
  BY <1>1, <1>4 DEF Fork, OnceParts, LoadedOnce, IndexListOK, AddressesFound, AddressFound, indexVars,
                    cacheVars
<1> QED
  BY <1>2, <1>3, <1>4 DEF Next

\* A vendor is loaded once, and a name has one address for ever, whichever vendors are
\* loaded by whichever threads and whenever the process forks: the second look under
\* the write lock is enough (libglxmapping.c:405, libglx.c:1786).
THEOREM OnceOnlyInvariant == Spec => []OnceOnly
BY OnceInit, OnceStep, OncePartsAre, PTL DEF Spec

LEMMA PrefixOfItself ==
  ASSUME NEW S, NEW q \in Seq(S)
  PROVE  /\ IsPrefix(q, q)
         /\ \A x \in S : IsPrefix(q, Append(q, x))
<1>1. Len(q) \in Nat
  OBVIOUS
<1>2. IsPrefix(q, q)
  BY <1>1 DEF IsPrefix
<1>3. ASSUME NEW x \in S
      PROVE  IsPrefix(q, Append(q, x))
  <2>1. Len(Append(q, x)) = Len(q) + 1 /\ \A i \in 1..Len(q) : Append(q, x)[i] = q[i]
    OBVIOUS
  <2>2. SubSeq(Append(q, x), 1, Len(q)) = SubSeq(q, 1, Len(q))
    BY <1>1, <2>1
  <2> QED
    BY <1>1, <2>1, <2>2 DEF IsPrefix
<1> QED
  BY <1>2, <1>3

\* A step changes nothing that was decided.
LEMMA FixedStep ==
  ASSUME OnceParts, NEW t \in Thread, Step(t) \/ Start(t)
  PROVE  Fixed
<1> USE DEF OnceParts
<1>1. \A n \in Name : entrypoint[n] \notin {None, Default} => entrypoint'[n] = entrypoint[n]
  BY ListSteps
<1>2. \A s \in Screen : screenVendor[s] # None => screenVendor'[s] = screenVendor[s]
  <2>1. CASE screenVendor' = screenVendor
    BY <2>1
  <2>2. ASSUME pc[t] \in Searching,
               NEW w, screenVendor' = [screenVendor EXCEPT ![call[t].screen] = w]
        PROVE  \A s \in Screen : screenVendor[s] # None => screenVendor'[s] = screenVendor[s]
    BY <2>2 DEF CallOK, Typed, DataOK
  <2> QED
    BY <2>1, <2>2, SharedSteps
<1>3. IsPrefix(indices, indices')
  <2>1. indices \in Seq(IndexEntry)
    BY DEF Typed, DataOK
  <2>2. indices' = indices => IsPrefix(indices, indices')
    BY <2>1, PrefixOfItself
  <2>3. CASE NewAddress(t)
    <3> PICK n \in Name, a \in Addr \cup {None} : NewName(t, n, a)
      BY <2>3, NewAddressCases
    <3>1. CASE indices' # indices
      <4>1. \A v \in Range(loaded) : v \in Vendor
        BY DEF Typed, DataOK, Range
      <4>2. a \in Addr
        BY <3>1, <4>1, AddressKinds DEF NewName
      <4>3. [name |-> n, addr |-> a] \in IndexEntry
        BY <4>2 DEF IndexEntry
      <4>4. indices' = Append(indices, [name |-> n, addr |-> a])
        BY <3>1 DEF NewName
      <4> QED
        BY <2>1, <4>3, <4>4, PrefixOfItself
    <3> QED
      BY <2>2, <3>1
  <2> QED
    BY <2>2, <2>3, ListSteps
<1> QED
  BY <1>1, <1>2, <1>3 DEF Fixed

\* What was decided once stays, in a child of the process, too: the index of a name, the
\* function in an entrypoint and the vendor of a screen (libglxmapping.c:494).
THEOREM Decided == Spec => DecidedStays
<1>1. OnceParts /\ [Next]_vars => [Fixed]_vars
  <2> SUFFICES ASSUME OnceParts, Next PROVE Fixed \/ UNCHANGED vars
    OBVIOUS
  <2>1. ASSUME NEW t \in Thread, Fork(t)
        PROVE  Fixed
    <3>1. UNCHANGED <<indices, entrypoint, screenVendor>>
      BY <2>1 DEF Fork, indexVars
    <3>2. IsPrefix(indices, indices)
      BY PrefixOfItself DEF OnceParts, Typed, DataOK
    <3> QED
      BY <3>1, <3>2 DEF Fixed
  <2> QED
    BY <2>1, FixedStep DEF Next
<1> QED
  BY <1>1, OnceInit, OnceStep, PTL DEF Spec, DecidedStays

-----------------------------------------------------------------------------
(* What is used of a vendor, and when.                                     *)

\* Which step leads to the parts of a load.
LEMMA LoadMoves ==
  ASSUME Typed, NEW t \in Thread, CallOK(t), Step(t) \/ Start(t)
  PROVE  /\ pc'[t] = "update" => (LoadSucceeds(t) \/ UpdateEntrypoint(t)) /\ call'[t] = call[t]
         /\ pc'[t] = "tell" => (UpdateEntrypoint(t) \/ TellVendor(t)) /\ call'[t] = call[t]
         /\ pc'[t] = "found" =>
              /\ TellVendor(t) \/ (nameLock = None /\ Candidate(t) \in Range(loaded))
              /\ call'[t] = call[t]
         /\ pc[t] = "update" => UpdateEntrypoint(t)
         /\ pc[t] = "tell" => TellVendor(t)
<1> DEFINE Parts == {"update", "tell", "found"}
<1>1. ASSUME NEW l, NEW c, Goto(t, l, c)
      PROVE  pc'[t] = l /\ call'[t] = c
  BY <1>1 DEF Goto, Typed, ThreadOK
<1>2. \A w : VendorFound(t, w) => pc'[t] \notin Parts
  BY <1>1 DEF VendorFound, Return
<1>3. NextCandidate(t) => pc'[t] \notin Parts
  BY <1>1, <1>2 DEF NextCandidate, SetScreen
<1>4. ASSUME NEW n \in Name, NEW s \in Screen, CallFunction(t, n, s)
      PROVE  pc'[t] \notin Parts /\ pc[t] = "idle"
  <2>1. pc[t] = "idle" /\ \E c : Goto(t, "screen", c)
    BY <1>4, Zenon DEF CallFunction
  <2> QED
    BY <1>1, <2>1
<1>5. ASSUME NEW s \in Screen, LookupVendorByScreen(t, s)
      PROVE  pc'[t] \notin Parts /\ pc[t] = "idle"
  <2>1. pc[t] = "idle" /\ \E c : Goto(t, "screen", c)
    BY <1>5, Zenon DEF LookupVendorByScreen
  <2> QED
    BY <1>1, <2>1
<1>6. ASSUME NEW n \in Name, GetProcAddress(t, n)
      PROVE  pc'[t] \notin Parts /\ pc[t] = "idle"
  <2>1. pc[t] = "idle" /\ (UNCHANGED <<pc, call>> \/ \E c : Goto(t, "resolve", c))
    BY <1>6, Zenon DEF GetProcAddress, Hit, Miss, threadVars
  <2> QED
    BY <1>1, <2>1
<1>7. FindAddress(t) \/ NewAddress(t) \/ CacheAddress(t) =>
        pc'[t] \notin Parts /\ pc[t] \in {"resolve", "cache"}
  BY <1>1 DEF FindAddress, NewAddress, CacheAddress, Return
<1>8. ReadScreen(t) \/ WriteScreen(t) =>
        pc'[t] \notin Parts /\ pc[t] \in {"screen", "screenWrite"}
  BY <1>1, <1>2 DEF ReadScreen, WriteScreen
<1>9. LoadFails(t) \/ CheckScreen(t) \/ FetchDispatchEntry(t) =>
        pc'[t] \notin Parts /\ pc[t] \in {"open", "found", "fetch", "ask", "add"}
  BY <1>1, <1>2, <1>3, FetchMoves DEF LoadFails, CheckScreen, SetScreen, Fetching
<1>10. FindName(t) \/ LockToLoad(t) =>
         /\ pc'[t] \in {"found", "load", "open"} /\ pc[t] \in {"name", "load"}
         /\ pc'[t] = "found" => nameLock = None /\ Candidate(t) \in Range(loaded)
         /\ call'[t] = call[t]
  BY <1>1 DEF FindName, LockToLoad, LoadedMeanwhile
<1>11. LoadSucceeds(t) => pc'[t] = "update" /\ pc[t] = "open" /\ call'[t] = call[t]
  BY <1>1 DEF LoadSucceeds
<1>12. UpdateEntrypoint(t) =>
         pc'[t] \in {"update", "tell"} /\ pc[t] = "update" /\ call'[t] = call[t]
  BY <1>1 DEF UpdateEntrypoint, threadVars
<1>13. TellVendor(t) => pc'[t] \in {"tell", "found"} /\ pc[t] = "tell" /\ call'[t] = call[t]
  BY <1>1 DEF TellVendor, threadVars
<1> QED
  BY <1>4, <1>5, <1>6, <1>7, <1>8, <1>9, <1>10, <1>11, <1>12, <1>13 DEF Step, Start

\* The vendors that are there while nobody has the lock have been loaded to the end.
LEMMA UnlockedReady ==
  ASSUME Typed, nameLock = None
  PROVE  Ready = Range(loaded)
<1>1. \A t \in Thread : pc[t] \notin {"update", "tell"}
  BY ConstantsAssumption DEF Typed, NameLockOK, Writing
<1> QED
  BY <1>1 DEF Ready

\* A vendor becomes ready when it has been told all the indices, and stays it.
LEMMA ReadySteps ==
  ASSUME OnceParts, NEW t \in Thread, Step(t) \/ Start(t)
  PROVE  /\ Ready \subseteq Ready'
         /\ \A v \in Ready' \ Ready :
              TellVendor(t) /\ pc'[t] = "found" /\ v = Candidate(t)
         /\ TellVendor(t) /\ pc'[t] = "found" =>
              Ready' = Range(loaded) /\ loaded' = loaded /\ Candidate(t) \in Range(loaded)
<1> USE DEF OnceParts
<1>1. \A u \in Thread \ {t} : pc'[u] = pc[u] /\ call'[u] = call[u]
  BY StepsAreOfOne DEF OthersStay, Typed
<1>2. \A u \in Thread : call'[u] = call[u] => Candidate(u)' = Candidate(u)
  BY DEF Candidate
<1>3. \A u \in Thread : pc[u] \in Writing <=> nameLock = u
  BY DEF Typed, NameLockOK
<1>4. \A u \in Thread \ {t} : pc[t] \in Writing => pc'[u] \notin {"update", "tell"}
  BY <1>1, <1>3 DEF Writing
<1>5. CASE LoadSucceeds(t)
  <2>1. /\ pc[t] = "open" /\ pc'[t] = "update" /\ loaded' = Append(loaded, Candidate(t))
        /\ call'[t] = call[t]
    BY <1>5 DEF LoadSucceeds, Goto, Typed, ThreadOK
  <2>2. Candidate(t) \in Vendor /\ Candidate(t) \notin Range(loaded)
    BY <2>1, CandidateType DEF CallOK, Fetching, Searching, Typed
  <2>3. Range(loaded') = Range(loaded) \cup {Candidate(t)}
    BY <2>1, <2>2, RangeOfAppend DEF Typed, DataOK
  <2>4. Candidate(t)' = Candidate(t) /\ ~TellVendor(t)
    BY <1>2, <2>1 DEF TellVendor
  <2>5. \A u \in Thread : pc'[u] \in {"update", "tell"} <=> u = t
    BY <1>4, <2>1 DEF Writing
  <2>6. Ready' = Range(loaded)
    BY <2>2, <2>3, <2>4, <2>5 DEF Ready
  <2>7. Ready = Range(loaded)
    BY <1>1, <2>1, <2>5 DEF Ready
  <2> QED
    BY <2>4, <2>6, <2>7
<1>6. CASE ~LoadSucceeds(t)
  <2>1. loaded' = loaded
    <3>1. loaded' # loaded => pc[t] = "open" /\ pc'[t] = "update"
      BY SharedSteps
    <3>2. pc'[t] = "update" => LoadSucceeds(t) \/ UpdateEntrypoint(t)
      BY LoadMoves
    <3> QED
      BY <1>6, <3>1, <3>2 DEF UpdateEntrypoint
  <2>2. ASSUME NEW u \in Thread, pc'[u] \in {"update", "tell"}
        PROVE  pc[u] \in {"update", "tell"} /\ Candidate(u)' = Candidate(u)
    <3>1. CASE u = t
      BY <1>2, <1>6, <2>2, <3>1, LoadMoves DEF UpdateEntrypoint, TellVendor
    <3> QED
      BY <1>1, <1>2, <2>2, <3>1
  <2>3. Ready \subseteq Ready'
    BY <2>1, <2>2 DEF Ready
  <2>4. ASSUME TellVendor(t), pc'[t] = "found"
        PROVE  Ready' = Range(loaded) /\ Candidate(t) \in Range(loaded)
    <3>1. pc[t] = "tell"
      BY <2>4 DEF TellVendor
    <3>2. \A u \in Thread : pc'[u] \notin {"update", "tell"}
      BY <1>4, <2>4, <3>1 DEF Writing
    <3> QED
      BY <2>1, <3>1, <3>2 DEF Ready, CallOK
  <2>5. ASSUME NEW v \in Ready', v \notin Ready
        PROVE  TellVendor(t) /\ pc'[t] = "found" /\ v = Candidate(t)
    <3>1. PICK u \in Thread : pc[u] \in {"update", "tell"} /\ Candidate(u) = v
      BY <2>1, <2>5 DEF Ready
    <3>2. ~(pc'[u] \in {"update", "tell"} /\ Candidate(u)' = v)
      BY <2>5 DEF Ready
    <3>3. u = t
      BY <1>1, <1>2, <3>1, <3>2
    <3>4. CASE pc[t] = "update"
      <4>1. pc'[t] \in {"update", "tell"} /\ call'[t] = call[t]
        BY <3>4, LoadMoves DEF UpdateEntrypoint, Goto, threadVars, Typed, ThreadOK
      <4> QED
        BY <1>2, <3>1, <3>2, <3>3, <4>1
    <3>5. CASE pc[t] = "tell"
      <4>1. TellVendor(t)
        BY <3>5, LoadMoves
      <4>2. pc'[t] \in {"tell", "found"} /\ call'[t] = call[t]
        BY <4>1 DEF TellVendor, Goto, threadVars, Typed, ThreadOK
      <4> QED
        BY <1>2, <3>1, <3>2, <3>3, <4>1, <4>2
    <3> QED
      BY <3>1, <3>3, <3>4, <3>5
  <2> QED
    BY <2>1, <2>3, <2>4, <2>5
<1> QED
  BY <1>5, <1>6

\* A thread becomes the writer of the entrypoints only by steps of its own.
LEMMA TellingThreads ==
  ASSUME OnceParts, NEW t \in Thread, Step(t) \/ Start(t), NEW u \in Thread, pc'[u] = "tell"
  PROVE  /\ Candidate(u)' = Candidate(u)
         /\ pc[u] = "tell" \/ (u = t /\ UpdateEntrypoint(t))
<1>1. CASE u = t
  <2>1. (UpdateEntrypoint(t) \/ TellVendor(t)) /\ call'[t] = call[t]
    BY <1>1, LoadMoves DEF OnceParts
  <2> QED
    BY <1>1, <2>1 DEF TellVendor, Candidate
<1>2. CASE u # t
  BY <1>2, StepsAreOfOne DEF OthersStay, OnceParts, Typed, Candidate
<1> QED
  BY <1>1, <1>2

\* The indices that the vendors have been told are right, and none is forgotten: a new
\* index is told to all vendors that are there, and an old one before a load ends.
LEMMA ToldStep ==
  ASSUME OnceParts, ToldOK, NEW t \in Thread, Step(t) \/ Start(t)
  PROVE  ToldOK'
<1> USE DEF OnceParts
<1>1. /\ \A v \in Ready : v \in Range(loaded)
      /\ \A v \in Range(loaded) : v \in Vendor
  BY DEF Ready, Range, Typed, DataOK
<1>2. \A i \in DOMAIN indices : i \in Nat /\ i # None /\ indices[i].name \in Name
  <2>1. \A i \in DOMAIN indices : indices[i] \in IndexEntry /\ i \in Nat
    BY DEF Typed, DataOK
  <2> QED
    BY <2>1, NoneAssumption DEF IndexEntry
<1>3. CASE NewAddress(t)
  <2> PICK n \in Name, a \in Addr \cup {None} : NewName(t, n, a)
    BY <1>3, NewAddressCases
  <2>1. Ready' = Ready
    BY <1>3, ReadySteps DEF NewAddress, TellVendor
  <2>2. CASE UNCHANGED <<indices, told>>
    BY <2>1, <2>2 DEF ToldOK
  <2>3. CASE /\ indices' = Append(indices, [name |-> n, addr |-> a])
             /\ TellLoaded(n, Len(indices) + 1)
             /\ \/ a = Gen(n) /\ entrypoint'[n] # None
                \/ \E v \in Range(loaded) : n \in GlxOf[v] /\ a = Stub(v)
    <3>1. a \in Addr
      BY <1>1, <2>3, AddressKinds
    <3> PICK e \in IndexEntry : e = [name |-> n, addr |-> a]
      BY <3>1 DEF IndexEntry
    <3>2. e.name = n
      OBVIOUS
    <3>3. /\ \A i \in DOMAIN indices : i \in DOMAIN indices' /\ indices'[i] = indices[i]
          /\ \A i \in DOMAIN indices' : i \in DOMAIN indices \/ i = Len(indices) + 1
          /\ Len(indices) + 1 \in DOMAIN indices' /\ indices'[Len(indices) + 1] = e
      BY <2>3, RangeOfAppend DEF Typed, DataOK
    <3>4. Len(indices) + 1 \in Nat /\ Len(indices) + 1 # None
      BY NoneAssumption DEF Typed, DataOK
    <3> PICK last \in Nat : last = Len(indices) + 1 /\ last # None
      BY <3>4
    <3>5. \A v \in Vendor, m \in Name :
            told'[v][m] = IF v \in Range(loaded) /\ m = n THEN last ELSE told[v][m]
      <4>1. told' = [v \in Vendor |-> IF v \in Range(loaded) THEN [told[v] EXCEPT ![n] = last]
                                      ELSE told[v]]
        BY <2>3 DEF TellLoaded
      <4>2. \A v \in Vendor : told[v] \in [Name -> Nat \cup {None}]
        BY DEF Typed, DataOK
      <4> QED
        BY <4>1, <4>2
    <3>6. \A v \in Vendor, m \in Name : told'[v][m] # None =>
            told'[v][m] \in DOMAIN indices' /\ indices'[told'[v][m]].name = m
      BY <3>2, <3>3, <3>5 DEF ToldOK
    <3>7. \A v \in Ready', i \in DOMAIN indices' : told'[v][indices'[i].name] # None
      BY <1>1, <1>2, <2>1, <3>2, <3>3, <3>5 DEF ToldOK
    <3> QED
      BY <3>6, <3>7 DEF ToldOK
  <2> QED
    BY <2>2, <2>3 DEF NewName
<1>4. CASE TellVendor(t)
  <2>1. pc[t] = "tell" /\ UNCHANGED indices
    BY <1>4 DEF TellVendor
  <2>2. Candidate(t) \in Vendor
    BY <2>1, CandidateType DEF CallOK, Fetching, Searching, Typed
  <2>3. ASSUME NEW i \in Untold(Candidate(t)), UNCHANGED threadVars,
               told' = [told EXCEPT ![Candidate(t)][indices[i].name] = i]
        PROVE  ToldOK'
    <3>1. Ready' = Ready
      BY <2>1, <2>3, ReadySteps DEF threadVars
    <3>2. i \in DOMAIN indices
      BY DEF Untold
    <3>3. \A v \in Vendor, m \in Name :
            told'[v][m] = IF v = Candidate(t) /\ m = indices[i].name THEN i ELSE told[v][m]
      BY <1>2, <2>2, <2>3, <3>2 DEF Typed, DataOK
    <3> QED
      BY <1>1, <1>2, <2>1, <3>1, <3>2, <3>3 DEF ToldOK
  <2>4. ASSUME Untold(Candidate(t)) = {}, UNCHANGED told
        PROVE  ToldOK'
    <3>1. \A v \in Ready' : v \in Ready \/ v = Candidate(t)
      BY ReadySteps
    <3>2. \A i \in DOMAIN indices : told[Candidate(t)][indices[i].name] # None
      BY <2>4 DEF Untold
    <3> QED
      BY <2>1, <2>4, <3>1, <3>2 DEF ToldOK
  <2> QED
    BY <1>4, <2>3, <2>4 DEF TellVendor
<1>5. CASE ~(NewAddress(t) \/ TellVendor(t))
  <2>1. told' = told /\ indices' = indices
    BY <1>5, Zenon DEF Step, Start, GetProcAddress, LookupVendorByScreen, CallFunction, FindAddress,
         CacheAddress, ReadScreen, WriteScreen, FindName, LockToLoad, LoadFails, LoadSucceeds,
         UpdateEntrypoint, CheckScreen, FetchDispatchEntry, indexVars
  <2>2. Ready' = Ready
    BY <1>5, ReadySteps
  <2> QED
    BY <2>1, <2>2 DEF ToldOK
<1> QED
  BY <1>3, <1>4, <1>5

\* What a vendor lacks when it is loaded it lacks for good.
LEMMA LacksKept ==
  ASSUME NEW t \in Thread, Step(t) \/ Start(t)
  PROVE  \A v \in Vendor, n \in Name : Lacks(v, n) => Lacks(v, n)'
<1>1. UpdateEntrypoint(t) => unstubbed \subseteq unstubbed'
  BY DEF UpdateEntrypoint
<1>2. CASE ~UpdateEntrypoint(t)
  BY <1>2, Zenon DEF Step, Start, GetProcAddress, LookupVendorByScreen, CallFunction, FindAddress,
     NewAddress, CacheAddress, ReadScreen, WriteScreen, FindName, LockToLoad, LoadFails,
     LoadSucceeds, TellVendor, CheckScreen, FetchDispatchEntry, indexVars, Lacks, Provided
<1> QED
  BY <1>1, <1>2 DEF Lacks, Provided

\* An entrypoint is generated only for a name that no vendor has, and a vendor that has
\* it fills it in before its load ends.
LEMMA UpdatedStep ==
  ASSUME OnceParts, UpdatedOK, NEW t \in Thread, Step(t) \/ Start(t)
  PROVE  UpdatedOK'
<1> USE DEF OnceParts
<1>1. /\ \A v \in Ready : v \in Range(loaded)
      /\ \A v \in Range(loaded) : v \in Vendor /\ v \in Range(loaded')
  <2>1. Range(loaded) \subseteq Range(loaded')
    BY LoadedGrows
  <2>2. \A v \in Range(loaded) : v \in Vendor
    BY DEF Range, Typed, DataOK
  <2> QED
    BY <2>1, <2>2 DEF Ready
<1>2. \A v \in Vendor, n \in Name : Lacks(v, n) => Lacks(v, n)'
  BY LacksKept
<1>3. \A v \in Ready, n \in Name : Lacks(v, n) => Lacks(v, n)'
  BY <1>1, <1>2
<1>4. CASE NewAddress(t)
  <2> PICK n \in Name, a \in Addr \cup {None} : NewName(t, n, a)
    BY <1>4, NewAddressCases
  <2>1. Ready' = Ready
    BY <1>4, ReadySteps DEF NewAddress, TellVendor
  <2>2. \A u \in Thread : pc'[u] # "tell"
    <3>1. \A u \in Thread : pc[u] # "tell"
      BY ConstantsAssumption DEF NewName, Typed, NameLockOK, Writing
    <3> QED
      BY <1>4, <3>1, TellingThreads DEF NewAddress, UpdateEntrypoint
  <2>3. \A m \in Name : \/ entrypoint'[m] = entrypoint[m]
                        \/ /\ entrypoint'[m] = Default
                           /\ \A v \in Range(loaded) : Provided(v, m) = None
    BY DEF NewName, Typed, DataOK
  <2>4. \A v \in Vendor : Stub(v) # Default
    BY AddressKinds
  <2> QED
    <3>1. \A m \in Name : entrypoint'[m] = Default => \A v \in Ready' : Lacks(v, m)'
      <4>1. \A v \in Ready, m \in Name : Provided(v, m) = None => Lacks(v, m)
        BY DEF Lacks
      <4> QED
        BY <1>1, <1>3, <2>1, <2>3, <4>1 DEF UpdatedOK
    <3>2. \A m \in Name, v \in Vendor : entrypoint'[m] = Stub(v) =>
            v \in Range(loaded') /\ (v \in Ready' \/ \A w \in Ready' : Lacks(w, m)')
      BY <1>1, <1>3, <2>1, <2>3, <2>4 DEF UpdatedOK
    <3> QED
      BY <2>2, <3>1, <3>2 DEF UpdatedOK
<1>5. CASE UpdateEntrypoint(t)
  <2>1. pc[t] = "update" /\ UNCHANGED loaded /\ ~TellVendor(t)
    BY <1>5 DEF UpdateEntrypoint, TellVendor
  <2>2. Candidate(t) \in Vendor /\ Candidate(t) \in Range(loaded)
    BY <2>1, CandidateType DEF CallOK, Fetching, Searching, Typed
  <2>3. Ready' = Ready
    BY <2>1, ReadySteps
  <2>4. ASSUME NEW n \in ToUpdate(Candidate(t)), UNCHANGED threadVars,
               entrypoint' = [entrypoint EXCEPT ![n] = Provided(Candidate(t), n)]
        PROVE  UpdatedOK'
    <3>1. /\ n \in Name /\ entrypoint[n] = Default
          /\ entrypoint'[n] = Provided(Candidate(t), n) /\ entrypoint'[n] # Default
          /\ \A m \in Name \ {n} : entrypoint'[m] = entrypoint[m]
          /\ \A v \in Vendor : entrypoint'[n] = Stub(v) => v = Candidate(t)
      BY <2>2, <2>4, AddressKinds, ProvidedCases DEF ToUpdate, Lacks, Typed, DataOK
    <3>2. \A u \in Thread : pc'[u] = "tell" => pc[u] = "tell" /\ Candidate(u)' = Candidate(u)
      BY <2>4 DEF threadVars, Candidate
    <3>3. \A v \in Ready : Lacks(v, n)
      BY <3>1 DEF UpdatedOK
    <3>4. \A m \in Name : entrypoint'[m] = Default => m # n
      BY <3>1
    <3>5. \A m \in Name : entrypoint'[m] = Default =>
            /\ \A v \in Ready' : Lacks(v, m)'
            /\ \A u \in Thread : pc'[u] = "tell" => Lacks(Candidate(u), m)'
      <4>1. \A u \in Thread : pc[u] = "tell" => Candidate(u) \in Vendor
        BY CandidateType DEF CallOK, Searching, Typed
      <4> QED
        BY <1>2, <1>3, <2>3, <3>1, <3>2, <3>4, <4>1 DEF UpdatedOK
    <3>6. \A m \in Name, v \in Vendor : entrypoint'[m] = Stub(v) =>
            v \in Range(loaded') /\ (v \in Ready' \/ \A w \in Ready' : Lacks(w, m)')
      BY <1>1, <1>3, <2>1, <2>2, <2>3, <3>1, <3>3 DEF UpdatedOK
    <3> QED
      BY <3>5, <3>6 DEF UpdatedOK
  <2>5. ASSUME UNCHANGED entrypoint, ToUpdate(Candidate(t)) = {} \/ UNCHANGED threadVars
        PROVE  UpdatedOK'
    <3>1. ToUpdate(Candidate(t)) = {} =>
            \A n \in Name : entrypoint[n] = Default => Lacks(Candidate(t), n)
      BY DEF ToUpdate
    <3>2. \A u \in Thread : pc'[u] = "tell" =>
            /\ Candidate(u)' = Candidate(u)
            /\ pc[u] = "tell" \/ (u = t /\ ToUpdate(Candidate(t)) = {})
      BY <2>1, <2>5, TellingThreads DEF threadVars
    <3>3. \A u \in Thread : pc[u] = "tell" => Candidate(u) \in Vendor
      BY CandidateType DEF CallOK, Searching, Typed
    <3>4. \A n \in Name : entrypoint'[n] = Default =>
            /\ \A v \in Ready' : Lacks(v, n)'
            /\ \A u \in Thread : pc'[u] = "tell" => Lacks(Candidate(u), n)'
      BY <1>2, <1>3, <2>2, <2>3, <2>5, <3>1, <3>2, <3>3 DEF UpdatedOK
    <3> QED
      BY <1>3, <2>1, <2>3, <2>5, <3>4 DEF UpdatedOK
  <2> QED
    BY <1>5, <2>4, <2>5 DEF UpdateEntrypoint
<1>6. CASE ~(NewAddress(t) \/ UpdateEntrypoint(t))
  <2>1. entrypoint' = entrypoint
    BY <1>6, ListSteps
  <2>2. \A u \in Thread : pc'[u] = "tell" => /\ pc[u] = "tell" /\ Candidate(u)' = Candidate(u)
                                             /\ Candidate(u) \in Vendor
    BY <1>6, TellingThreads, CandidateType DEF CallOK, Searching, Typed
  <2>3. ASSUME \A v \in Ready' : v \in Ready \/ (v = Candidate(t) /\ pc[t] = "tell"),
               Ready' = Ready \/ Ready' = Range(loaded)
        PROVE  UpdatedOK'
    <3>1. pc[t] = "tell" => Candidate(t) \in Vendor
      BY CandidateType DEF CallOK, Searching, Typed
    <3>2. \A n \in Name : entrypoint'[n] = Default =>
            /\ \A v \in Ready' : Lacks(v, n)'
            /\ \A u \in Thread : pc'[u] = "tell" => Lacks(Candidate(u), n)'
      BY <1>2, <1>3, <2>1, <2>2, <2>3, <3>1 DEF UpdatedOK
    <3>3. ASSUME NEW n \in Name, NEW v \in Vendor, entrypoint'[n] = Stub(v)
          PROVE  v \in Range(loaded') /\ (v \in Ready' \/ \A w \in Ready' : Lacks(w, n)')
      BY <1>1, <1>3, <2>1, <2>3, <3>3 DEF UpdatedOK
    <3> QED
      BY <3>2, <3>3 DEF UpdatedOK
  <2>4. CASE TellVendor(t) /\ pc'[t] = "found"
    BY <2>4, <2>3, ReadySteps DEF TellVendor
  <2>5. CASE ~(TellVendor(t) /\ pc'[t] = "found")
    BY <2>5, <2>3, ReadySteps
  <2> QED
    BY <2>4, <2>5
<1> QED
  BY <1>4, <1>5, <1>6

\* Nothing is taken of a vendor before its load has ended.
LEMMA UsedStep ==
  ASSUME OnceParts, UsedReady, NEW t \in Thread, Step(t) \/ Start(t)
  PROVE  UsedReady'
<1> USE DEF OnceParts
<1>1. Ready \subseteq Ready'
  BY ReadySteps
<1>2. \A u \in Thread : pc'[u] = "found" => Candidate(u)' \in Ready'
  <2> SUFFICES ASSUME NEW u \in Thread, pc'[u] = "found" PROVE Candidate(u)' \in Ready'
    OBVIOUS
  <2>1. CASE u = t
    <3>1. /\ TellVendor(t) \/ (nameLock = None /\ Candidate(t) \in Range(loaded))
          /\ call'[t] = call[t]
      BY <2>1, LoadMoves
    <3>2. Candidate(u)' = Candidate(t)
      BY <2>1, <3>1 DEF Candidate
    <3>3. Candidate(t) \in Ready'
      BY <1>1, <2>1, <3>1, ReadySteps, UnlockedReady
    <3> QED
      BY <3>2, <3>3
  <2>2. CASE u # t
    <3>1. pc[u] = "found" /\ Candidate(u)' = Candidate(u)
      BY <2>2, StepsAreOfOne DEF OthersStay, Typed, Candidate
    <3> QED
      BY <1>1, <3>1 DEF UsedReady
  <2> QED
    BY <2>1, <2>2
<1>3. \A s \in Screen : screenVendor'[s] # None => screenVendor'[s] \in Ready'
  <2>1. CASE screenVendor' = screenVendor
    BY <1>1, <2>1 DEF UsedReady
  <2>2. ASSUME NEW w, screenVendor' = [screenVendor EXCEPT ![call[t].screen] = w],
               w # None => pc[t] = "found" /\ w = Candidate(t)
        PROVE  \A s \in Screen : screenVendor'[s] # None => screenVendor'[s] \in Ready'
    <3>1. w # None => w \in Ready
      BY <2>2 DEF UsedReady
    <3>2. \A s \in Screen : screenVendor'[s] = screenVendor[s] \/ screenVendor'[s] = w
      BY <2>2 DEF Typed, DataOK
    <3> QED
      BY <1>1, <3>1, <3>2 DEF UsedReady
  <2> QED
    BY <2>1, <2>2, SharedSteps
<1>4. \A i \in DOMAIN indices', v \in Vendor : indices'[i].addr = Stub(v) => v \in Ready'
  <2>1. CASE indices' = indices
    BY <1>1, <2>1 DEF UsedReady
  <2>2. CASE NewAddress(t) /\ indices' # indices
    <3> PICK n \in Name, a \in Addr \cup {None} : NewName(t, n, a)
      BY <2>2, NewAddressCases
    <3>1. /\ indices' = Append(indices, [name |-> n, addr |-> a])
          /\ a = Gen(n) \/ \E v \in Range(loaded) : a = Stub(v)
          /\ nameLock = None
      BY <2>2 DEF NewName
    <3>2. \A v \in Range(loaded) : v \in Vendor
      BY DEF Typed, DataOK, Range
    <3>3. a \in Addr /\ \A v \in Vendor : a = Stub(v) => v \in Range(loaded)
      BY <3>1, <3>2, AddressKinds
    <3> PICK e \in IndexEntry : e = [name |-> n, addr |-> a]
      BY <3>3 DEF IndexEntry
    <3>4. e.addr = a
      OBVIOUS
    <3>5. /\ \A i \in DOMAIN indices : indices'[i] = indices[i]
          /\ \A i \in DOMAIN indices' : i \in DOMAIN indices \/ i = Len(indices) + 1
          /\ indices'[Len(indices) + 1] = e
      BY <3>1, RangeOfAppend DEF Typed, DataOK
    <3>6. Ready = Range(loaded)
      BY <3>1, UnlockedReady
    <3> QED
      BY <1>1, <3>3, <3>4, <3>5, <3>6 DEF UsedReady
  <2> QED
    BY <2>1, <2>2, ListSteps
<1> QED
  BY <1>2, <1>3, <1>4 DEF UsedReady

LoadParts == UsedReady /\ ToldOK /\ UpdatedOK

LEMMA LoadInit == Init => LoadParts
<1> SUFFICES ASSUME Init PROVE LoadParts
  OBVIOUS
<1>1. DOMAIN loaded = {} /\ DOMAIN indices = {}
  BY DEF Init
<1>2. Ready = {}
  BY <1>1 DEF Ready, Range
<1>3. UsedReady
  BY <1>1 DEF Init, UsedReady
<1>4. ToldOK
  BY <1>1, <1>2 DEF Init, ToldOK
<1>5. UpdatedOK
  BY NoneAssumption, AddressKinds DEF Init, UpdatedOK
<1> QED
  BY <1>3, <1>4, <1>5 DEF LoadParts

LEMMA LoadStep ==
  ASSUME ~ForkDuringLoad
  PROVE  OnceParts /\ LoadParts /\ [Next]_vars => LoadParts'
<1> SUFFICES ASSUME OnceParts, LoadParts, [Next]_vars PROVE LoadParts'
  OBVIOUS
<1>1. CASE UNCHANGED vars
  <2>1. UNCHANGED <<loaded, indices, entrypoint, unstubbed, told, screenVendor, pc, call>>
    BY <1>1 DEF vars, indexVars, screenVars, threadVars
  <2>2. Ready' = Ready /\ \A u \in Thread : Candidate(u)' = Candidate(u)
    BY <2>1 DEF Ready, Candidate
  <2> QED
    BY <2>1, <2>2 DEF LoadParts, UsedReady, ToldOK, UpdatedOK, Lacks, Provided
<1>2. ASSUME NEW t \in Thread, Step(t) \/ Start(t)
      PROVE  LoadParts'
  BY <1>2, UsedStep, ToldStep, UpdatedStep DEF LoadParts
<1>3. ASSUME NEW t \in Thread, Fork(t)
      PROVE  LoadParts'
  <2>1. /\ nameLock = None /\ \A u \in Thread : pc'[u] = "idle"
        /\ UNCHANGED <<loaded, indices, entrypoint, unstubbed, told, screenVendor>>
    BY <1>3 DEF Fork, indexVars
  <2>2. Ready = Range(loaded)
    BY <2>1, UnlockedReady DEF OnceParts
  <2>3. Ready' = Ready
    BY <2>1, <2>2 DEF Ready
  <2> QED
    BY <2>1, <2>3 DEF LoadParts, UsedReady, ToldOK, UpdatedOK, Lacks, Provided
<1> QED
  BY <1>1, <1>2, <1>3 DEF Next

\* Where a call of a name ends up.
LEMMA TargetCases ==
  ASSUME OnceParts, NEW g \in given
  PROVE  \/ Target(g[2]) = entrypoint[g[1]] /\ g[2] = Gen(g[1]) /\ entrypoint[g[1]] # None
            /\ \E i \in DOMAIN indices : indices[i].name = g[1]
         \/ \E v \in Range(loaded), i \in DOMAIN indices :
              /\ Target(g[2]) = Stub(v)
              /\ indices[i].name = g[1] /\ indices[i].addr = Stub(v)
         \/ Target(g[2]) = GlAddr
<1>1. AddressFound(g[1], g[2]) /\ IndexListOK
  BY DEF OnceParts, AddressesFound
<1>2. /\ \A a : Target(Gen(a)) = entrypoint[a]
      /\ \A v : Target(Stub(v)) = Stub(v)
      /\ Target(GlAddr) = GlAddr
  BY DEF Target, Gen, Stub, GlAddr
<1>3. ASSUME NEW i \in DOMAIN indices, indices[i].name = g[1], indices[i].addr = g[2]
      PROVE  \/ g[2] = Gen(g[1]) /\ entrypoint[g[1]] # None
             \/ \E v \in Range(loaded) : g[2] = Stub(v)
  BY <1>1, <1>3 DEF IndexListOK
<1> QED
  BY <1>1, <1>2, <1>3 DEF AddressFound

LEMMA ResolvedHolds ==
  ASSUME OnceParts, LoadParts
  PROVE  EntrypointsResolved
<1> USE DEF OnceParts, LoadParts
<1>1. VendorsTold
  <2> SUFFICES ASSUME nameLock = None, NEW v \in Range(loaded), NEW i \in DOMAIN indices
               PROVE  told[v][indices[i].name] = i
    BY DEF VendorsTold
  <2>1. v \in Ready /\ v \in Vendor
    BY UnlockedReady DEF Range, Typed, DataOK
  <2>2. indices[i].name \in Name
    <3>1. indices[i] \in IndexEntry
      BY DEF Typed, DataOK
    <3> QED
      BY <3>1 DEF IndexEntry
  <2>3. told[v][indices[i].name] # None
    BY <2>1 DEF ToldOK
  <2> QED
    BY <2>1, <2>2, <2>3 DEF ToldOK, IndexListOK
<1>2. EntrypointsUpdated
  BY UnlockedReady DEF EntrypointsUpdated, UpdatedOK
<1>3. AnnouncedResolved
  <2> SUFFICES ASSUME NEW n \in Name, Announced(n), NEW g \in given, g[1] = n
               PROVE  Target(g[2]) # Default
    BY DEF AnnouncedResolved
  <2>1. \A v \in Range(loaded) : v \in Vendor
    BY DEF Range, Typed, DataOK
  <2>2. PICK w \in Ready : w \in Vendor /\ n \in GlxOf[w]
    BY DEF Announced, UsedReady, Typed, DataOK
  <2>3. ~Lacks(w, n)
    BY <2>2, ProvidedCases, HasStub DEF Typed
  <2>4. entrypoint[n] # Default
    BY <2>3 DEF UpdatedOK
  <2> QED
    BY <2>1, <2>4, TargetCases, AddressKinds
<1> QED
  BY <1>1, <1>2, <1>3 DEF EntrypointsResolved

\* Vendors and names come in any order, from any threads: an application that has seen a
\* vendor reaches its functions and never the default one, and each vendor knows every
\* index (libglxmapping.c:149, :494).  No fork comes while another thread loads a vendor:
\* in a child that inherits half of a load, the vendor is listed and never told.
THEOREM Resolved ==
  ASSUME ~ForkDuringLoad
  PROVE  Spec => []EntrypointsResolved
<1>1. OnceParts /\ LoadParts => EntrypointsResolved
  BY ResolvedHolds
<1>2. OnceParts /\ LoadParts /\ [Next]_vars => (OnceParts /\ LoadParts)'
  BY OnceStep, LoadStep
<1> QED
  BY <1>1, <1>2, OnceInit, LoadInit, PTL DEF Spec

-----------------------------------------------------------------------------
(* The index that a dispatch stub hands over.                              *)

\* The parts of a call of a function.
Calling == {"screen", "screenWrite"} \cup Searching \cup Fetching

\* The name and the index of a call stay until it is over.
LEMMA CallKept ==
  ASSUME Typed, NEW t \in Thread, CallOK(t), Step(t) \/ Start(t),
         pc'[t] \in Calling, call'[t].name # None
  PROVE  \/ \E n \in Name, s \in Screen : CallFunction(t, n, s)
         \/ pc[t] \in Calling /\ call'[t].name = call[t].name /\ call'[t].index = call[t].index
<1> DEFINE Kept == pc[t] \in Calling /\ call'[t].name = call[t].name /\ call'[t].index = call[t].index
<1>1. ASSUME NEW l, NEW c, Goto(t, l, c)
      PROVE  pc'[t] = l /\ call'[t] = c
  BY <1>1 DEF Goto, Typed, ThreadOK
<1>2. pc'[t] \notin {"idle", "resolve", "cache"}
  BY DEF Calling, Searching, Fetching
<1>3. ASSUME NEW w \in Vendor \cup {None}, VendorFound(t, w), pc[t] \in Calling
      PROVE  Kept
  <2>1. PICK l \in {"idle", "fetch"}, c \in CallType :
          /\ Goto(t, l, c)
          /\ l = "fetch" => c.name = call[t].name /\ c.index = call[t].index
    BY <1>3, VendorFoundTypes DEF Typed
  <2> QED
    BY <1>1, <1>2, <1>3, <2>1
<1>4. ASSUME NextCandidate(t), pc[t] \in Searching
      PROVE  Kept
  <2>1. call[t].todo # <<>> /\ pc[t] \in Calling
    BY <1>4 DEF CallOK, Calling
  <2>2. CASE \E c \in CallType : /\ Goto(t, "name", c) /\ c.todo # <<>>
                                 /\ c.screen = call[t].screen
                                 /\ c.name = call[t].name /\ c.index = call[t].index
    BY <1>1, <2>1, <2>2
  <2>3. CASE SetScreen(t, None)
    BY <1>3, <2>1, <2>3 DEF SetScreen
  <2> QED
    BY <1>4, <2>1, <2>2, <2>3, NextCandidateTypes DEF Typed
<1>5. ASSUME NEW l, Goto(t, l, call[t]), pc[t] \in Calling
      PROVE  Kept
  BY <1>1, <1>5
<1>6. ASSUME NEW n \in Name, GetProcAddress(t, n)
      PROVE  Kept
  <2>1. pc[t] = "idle" /\ (UNCHANGED <<pc, call>> \/ \E c : Goto(t, "resolve", c))
    BY <1>6, Zenon DEF GetProcAddress, Hit, Miss, threadVars
  <2> QED
    BY <1>1, <1>2, <2>1
<1>7. ~(FindAddress(t) \/ NewAddress(t) \/ CacheAddress(t))
  BY <1>1, <1>2 DEF FindAddress, NewAddress, CacheAddress, Return
<1>15. CASE FetchDispatchEntry(t)
  BY <1>1, <1>2, <1>5, <1>15, FetchMoves DEF Calling
<1>8. ASSUME NEW s \in Screen, LookupVendorByScreen(t, s)
      PROVE  Kept
  <2>1. Goto(t, "screen", [NoCall EXCEPT !.screen = s])
    BY <1>8 DEF LookupVendorByScreen
  <2>2. [NoCall EXCEPT !.screen = s].name = None
    BY DEF NoCall
  <2> QED
    BY <1>1, <2>1, <2>2
<1>9. CASE ReadScreen(t)
  <2>1. pc[t] = "screen" /\ call[t].screen \in Screen
    BY <1>9, CallFields DEF ReadScreen, CallOK, Typed, ThreadOK
  <2>2. screenVendor[call[t].screen] \in Vendor \cup {None}
    BY <2>1 DEF Typed, DataOK
  <2> QED
    BY <1>3, <1>5, <1>9, <2>1, <2>2 DEF ReadScreen, Calling
<1>10. CASE WriteScreen(t)
  <2>1. pc[t] = "screenWrite" /\ call[t].screen \in Screen
    BY <1>10, CallFields DEF WriteScreen, CallOK, Typed, ThreadOK
  <2>2. screenVendor[call[t].screen] \in Vendor \cup {None}
    BY <2>1 DEF Typed, DataOK
  <2>3. CASE Goto(t, "name", [call[t] EXCEPT !.todo = Candidates(call[t].screen)])
    <3>1. call[t] \in CallType
      BY DEF Typed, ThreadOK
    <3>2. /\ [call[t] EXCEPT !.todo = Candidates(call[t].screen)].name = call[t].name
          /\ [call[t] EXCEPT !.todo = Candidates(call[t].screen)].index = call[t].index
      BY <3>1 DEF CallType
    <3> QED
      BY <1>1, <2>1, <2>3, <3>2 DEF Calling
  <2> QED
    BY <1>3, <1>10, <2>1, <2>2, <2>3 DEF WriteScreen, CheckAgain, Calling
<1>11. CASE FindName(t) \/ LockToLoad(t) \/ LoadSucceeds(t)
  BY <1>5, <1>11 DEF FindName, LockToLoad, LoadSucceeds, Calling, Searching
<1>12. CASE LoadFails(t)
  BY <1>4, <1>12 DEF LoadFails, Searching
<1>13. CASE UpdateEntrypoint(t) \/ TellVendor(t)
  <2>1. pc[t] \in Calling
    BY <1>13 DEF UpdateEntrypoint, TellVendor, Calling, Searching
  <2>2. UNCHANGED call \/ \E l : Goto(t, l, call[t])
    BY <1>13 DEF UpdateEntrypoint, TellVendor, threadVars
  <2> QED
    BY <1>5, <2>1, <2>2
<1>14. CASE CheckScreen(t)
  <2>1. pc[t] = "found" /\ pc[t] \in Searching /\ pc[t] \in Calling
    BY <1>14 DEF CheckScreen, Searching, Calling
  <2>2. Candidate(t) \in Vendor
    BY <2>1, CandidateType DEF CallOK, Typed
  <2> QED
    BY <1>3, <1>4, <1>14, <2>1, <2>2 DEF CheckScreen, SetScreen
<1> QED
  BY <1>6, <1>7, <1>8, <1>9, <1>10, <1>11, <1>12, <1>13, <1>14, <1>15 DEF Step, Start

\* The index of a name stays.
LEMMA IndexKept ==
  ASSUME OnceParts, NEW t \in Thread, Step(t) \/ Start(t), NEW i \in DOMAIN indices
  PROVE  i \in DOMAIN indices' /\ indices'[i] = indices[i]
<1>1. indices \in Seq(IndexEntry)
  BY DEF OnceParts, Typed, DataOK
<1>2. CASE NewAddress(t) /\ indices' # indices
  <2> PICK n \in Name, a \in Addr \cup {None} : NewName(t, n, a)
    BY <1>2, NewAddressCases DEF OnceParts
  <2>1. /\ indices' = Append(indices, [name |-> n, addr |-> a])
        /\ a = Gen(n) \/ \E v \in Range(loaded) : a = Stub(v)
    BY <1>2 DEF NewName
  <2>2. \A v \in Range(loaded) : v \in Vendor
    BY DEF OnceParts, Typed, DataOK, Range
  <2>3. [name |-> n, addr |-> a] \in IndexEntry
    BY <2>1, <2>2, AddressKinds DEF IndexEntry
  <2> QED
    BY <1>1, <2>1, <2>3, RangeOfAppend
<1> QED
  BY <1>2, ListSteps DEF OnceParts

\* An application that has seen a vendor with a function calls a stub that knows the index.
LEMMA CalledWithIndex ==
  ASSUME OnceParts, LoadParts, ~EarlyCalls, NEW t \in Thread,
         NEW n \in Name, NEW s \in Screen, CallFunction(t, n, s)
  PROVE  /\ call'[t].name = n
         /\ call'[t].index \in DOMAIN indices /\ indices[call'[t].index].name = n
<1> USE DEF OnceParts, LoadParts
<1>1. PICK v \in Vendor :
        /\ \E g \in given : g[1] = n /\ Target(g[2]) = Stub(v)
        /\ Goto(t, "screen", [NoCall EXCEPT !.name = n, !.screen = s, !.index = told[v][n]])
  BY Zenon DEF CallFunction
<1>2. call'[t].name = n /\ call'[t].index = told[v][n]
  <2>1. call'[t] = [NoCall EXCEPT !.name = n, !.screen = s, !.index = told[v][n]]
    BY <1>1, Zenon DEF Goto, Typed, ThreadOK
  <2> QED
    BY <2>1 DEF NoCall
<1>3. Announced(n)
  BY Zenon DEF CallFunction
<1>4. PICK w \in Ready : w \in Vendor /\ n \in GlxOf[w]
  BY <1>3 DEF Announced, UsedReady, Typed, DataOK
<1>5. ~Lacks(w, n)
  BY <1>4, ProvidedCases, HasStub DEF Typed
<1>6. PICK g \in given : g[1] = n /\ Target(g[2]) = Stub(v)
  BY <1>1
<1>7. \A u \in Range(loaded) : u \in Vendor
  BY DEF Typed, DataOK, Range
<1>8. v \in Ready /\ \E i \in DOMAIN indices : indices[i].name = n
  <2>1. CASE Target(g[2]) = GlAddr
    BY <1>6, <2>1, AddressKinds
  <2>2. CASE /\ Target(g[2]) = entrypoint[g[1]] /\ g[2] = Gen(g[1]) /\ entrypoint[g[1]] # None
             /\ \E i \in DOMAIN indices : indices[i].name = g[1]
    BY <1>4, <1>5, <1>6, <2>2 DEF UpdatedOK
  <2>3. ASSUME NEW u \in Range(loaded), NEW i \in DOMAIN indices, Target(g[2]) = Stub(u),
               indices[i].name = g[1], indices[i].addr = Stub(u)
        PROVE  v \in Ready /\ \E j \in DOMAIN indices : indices[j].name = n
    <3>1. u = v
      BY <1>6, <1>7, <2>3, AddressKinds
    <3> QED
      BY <1>6, <2>3, <3>1 DEF UsedReady
  <2> QED
    BY <2>1, <2>2, <2>3, TargetCases
<1>9. told[v][n] # None
  BY <1>8 DEF ToldOK
<1> QED
  BY <1>2, <1>9 DEF ToldOK

OwnParts == FetchedOK /\ \A t \in Thread : CallIndexOK(t)

LEMMA FetchedStep ==
  ASSUME OnceParts, FetchedOK, NEW t \in Thread, Step(t) \/ Start(t)
  PROVE  FetchedOK'
<1> USE DEF OnceParts
<1>1. CASE fetched' = fetched
  BY <1>1, IndexKept DEF FetchedOK
<1>2. CASE FetchDispatchEntry(t) /\ fetched' # fetched
  <2> PICK w \in Vendor, i \in DOMAIN indices :
             fetched' = [fetched EXCEPT ![w][i] = indices[i].name]
    BY <1>2, FetchAdds
  <2>1. \A v \in Vendor :
          /\ DOMAIN fetched'[v] = DOMAIN fetched[v]
          /\ \A j \in DOMAIN fetched[v] :
               fetched'[v][j] = fetched[v][j] \/ (j = i /\ fetched'[v][j] = indices[i].name)
    BY DEF Typed, DataOK
  <2> QED
    BY <2>1, IndexKept DEF FetchedOK
<1>3. CASE ~FetchDispatchEntry(t)
  <2>1. fetched' = fetched
    BY <1>3, Zenon DEF Step, Start, GetProcAddress, LookupVendorByScreen, CallFunction, FindAddress,
         NewAddress, CacheAddress, ReadScreen, WriteScreen, FindName, LockToLoad, LoadFails,
         LoadSucceeds, UpdateEntrypoint, TellVendor, CheckScreen
  <2> QED
    BY <1>1, <2>1
<1> QED
  BY <1>1, <1>2, <1>3

LEMMA CallIndexStep ==
  ASSUME OnceParts, LoadParts, ~EarlyCalls, \A u \in Thread : CallIndexOK(u),
         NEW t \in Thread, Step(t) \/ Start(t), NEW u \in Thread
  PROVE  CallIndexOK(u)'
<1> SUFFICES ASSUME pc'[u] \in Calling, call'[u].name # None
             PROVE  call'[u].index \in DOMAIN indices' /\ indices'[call'[u].index].name = call'[u].name
  BY DEF CallIndexOK, Calling
<1>1. CASE pc[u] \in Calling /\ call'[u].name = call[u].name /\ call'[u].index = call[u].index
  <2>1. call[u].index \in DOMAIN indices /\ indices[call[u].index].name = call[u].name
    BY <1>1 DEF CallIndexOK, Calling
  <2> QED
    BY <1>1, <2>1, IndexKept
<1>2. CASE u # t
  BY <1>1, <1>2, StepsAreOfOne DEF OthersStay, OnceParts, Typed
<1>3. CASE u = t
  <2>1. ASSUME NEW n \in Name, NEW s \in Screen, CallFunction(t, n, s)
        PROVE  call'[u].index \in DOMAIN indices' /\ indices'[call'[u].index].name = call'[u].name
    BY <1>3, <2>1, CalledWithIndex, IndexKept
  <2> QED
    BY <1>1, <1>3, <2>1, CallKept DEF OnceParts
<1> QED
  BY <1>2, <1>3

LEMMA OwnInit == Init => OwnParts
<1> SUFFICES ASSUME Init PROVE OwnParts
  OBVIOUS
<1> QED
  BY DEF Init, OwnParts, FetchedOK, CallIndexOK, Searching, Fetching

LEMMA OwnStep ==
  ASSUME ~EarlyCalls
  PROVE  OnceParts /\ LoadParts /\ OwnParts /\ [Next]_vars => OwnParts'
<1> SUFFICES ASSUME OnceParts, LoadParts, OwnParts, [Next]_vars PROVE OwnParts'
  OBVIOUS
<1>1. CASE UNCHANGED vars
  BY <1>1 DEF OwnParts, FetchedOK, CallIndexOK, vars, indexVars, threadVars
<1>2. ASSUME NEW t \in Thread, Step(t) \/ Start(t)
      PROVE  OwnParts'
  BY <1>2, FetchedStep, CallIndexStep DEF OwnParts
<1>3. ASSUME NEW t \in Thread, Fork(t)
      PROVE  OwnParts'
  BY <1>3 DEF Fork, OwnParts, FetchedOK, CallIndexOK, Searching, Fetching, indexVars
<1> QED
  BY <1>1, <1>2, <1>3 DEF Next

LEMMA CountTo ==
  ASSUME NEW k \in Nat
  PROVE  IsFiniteSet(1..k) /\ Cardinality(1..k) = k
<1>1. 1 \in Int /\ k \in Int
  OBVIOUS
<1>2. IsFiniteSet(1..k) /\ Cardinality(1..k) = IF 1 > k THEN 0 ELSE k - 1 + 1
  BY <1>1, FS_Interval
<1> QED
  BY <1>2

\* There is room for the function of every index: no name has two.
LEMMA IndicesFit ==
  ASSUME OnceParts
  PROVE  DOMAIN indices \subseteq 1..Cardinality(Name)
<1> DEFINE f == [i \in 1..Len(indices) |-> indices[i].name]
<1>1. indices \in Seq(IndexEntry) /\ IsFiniteSet(Name)
  BY ConstantsAssumption DEF OnceParts, Typed, DataOK
<1>2. Len(indices) \in Nat /\ DOMAIN indices = 1..Len(indices)
  BY <1>1
<1>3. f \in [1..Len(indices) -> Name]
  <2>1. \A i \in 1..Len(indices) : indices[i] \in IndexEntry
    BY <1>1
  <2> QED
    BY <2>1 DEF IndexEntry
<1>4. \A i, j \in 1..Len(indices) : f[i] = f[j] => i = j
  BY <1>2 DEF OnceParts, IndexListOK
<1>5. IsFiniteSet(1..Len(indices)) /\ Cardinality(1..Len(indices)) = Len(indices)
  BY <1>2, CountTo, Zenon
<1>6. ~(Cardinality(Name) < Len(indices))
  <2> HIDE DEF f
  <2> QED
    BY <1>1, <1>3, <1>4, <1>5, FS_PigeonHole
<1>7. Cardinality(Name) \in Nat
  BY <1>1, FS_CardinalityType
<1> QED
  BY <1>2, <1>6, <1>7

LEMMA OwnHolds ==
  ASSUME OnceParts, OwnParts
  PROVE  OwnFunction
<1> SUFFICES ASSUME NEW t \in Thread, pc[t] \in Fetching
             PROVE  FetchName(call[t].vendor, call[t].index) = call[t].name
  BY DEF OwnParts, OwnFunction
<1>1. call[t].name # None /\ call[t].vendor \in Vendor
  BY CallFields DEF OnceParts, CallOK, Typed, ThreadOK
<1>2. call[t].index \in DOMAIN indices /\ indices[call[t].index].name = call[t].name
  BY <1>1 DEF OwnParts, CallIndexOK
<1>3. call[t].index \in DOMAIN fetched[call[t].vendor]
  BY <1>1, <1>2, IndicesFit DEF OnceParts, Typed, DataOK
<1> QED
  BY <1>1, <1>2, <1>3 DEF FetchName, OwnParts, FetchedOK

\* A call reaches the function of its own name, through any vendor's stub and for the
\* vendor of any screen: the vendors agree on the meaning of an index, which a stub
\* reads without a lock.
THEOREM OwnFunctions ==
  ASSUME ~ForkDuringLoad, ~EarlyCalls
  PROVE  Spec => []OwnFunction
<1>1. OnceParts /\ OwnParts => OwnFunction
  BY OwnHolds
<1>2. OnceParts /\ LoadParts /\ OwnParts /\ [Next]_vars => (OnceParts /\ LoadParts /\ OwnParts)'
  BY OnceStep, LoadStep, OwnStep
<1> QED
  BY <1>1, <1>2, OnceInit, LoadInit, OwnInit, PTL DEF Spec

=============================================================================

------------------------------- MODULE GlxVendor -------------------------------
(***************************************************************************)
(* How libGLX loads vendor libraries and gives out GLX functions           *)
(* (src/GLX/libglxmapping.c, src/util/winsys_dispatch.c,                   *)
(* src/GLX/glvnd_genentry.c and the address cache of src/GLX/libglx.c).    *)
(*                                                                         *)
(* A function that a loaded vendor knows gets the vendor's dispatch stub.  *)
(* One that no vendor knows yet gets a generated entrypoint, into which    *)
(* the stub of a vendor that is loaded later is plugged.  A dispatch stub  *)
(* finds the vendor of a screen and asks it for the function by index, so  *)
(* each vendor must have been told the index of each name.                 *)
(*                                                                         *)
(* The lock of __glXVendorNameHash also covers the index list and the      *)
(* generated entrypoints, but neither the jump through an entrypoint nor a *)
(* stub's read of its index takes it.  Sections that only look something   *)
(* up under a read lock are one step, which waits for the writer.          *)
(***************************************************************************)
EXTENDS Integers, FiniteSets, SequencesExt

CONSTANTS
  Thread,
  Vendor,
  Screen,
  Display,
  DisplayOf,        \* the display of each screen
  Name,             \* names that start with glX, without those that libGLX
                    \* itself implements and has in its list from the start
  GlxOf,            \* for each vendor the names it has a dispatch stub for
  GlOf,             \* for each vendor the names it has only an implementation of
  Specified,        \* the vendor the environment names for a screen, or None
  Queried,          \* for each screen the vendors that the X server names
  Fallback,         \* the vendor to use when nothing else works
  Supports,         \* which vendors support which screens
  MaxGenerated,     \* GENERATED_ENTRYPOINT_MAX
  MaxFailures,      \* bound on the number of loads and allocations that fail
  MaxLeftLocked,    \* bound on the number of tables that forks leave locked
  EarlyCalls,       \* whether an application may call a function before it has
                    \* seen a vendor that supports it
  ForkDuringLoad,   \* whether a fork may come while another thread is loading
  None

ASSUME ConstantsAssumption ==
  /\ IsFiniteSet(Thread) /\ IsFiniteSet(Vendor) /\ IsFiniteSet(Name)
  /\ {GlxOf, GlOf} \subseteq [Vendor -> SUBSET Name]
  /\ DisplayOf \in [Screen -> Display]
  /\ Specified \in [Screen -> Vendor \cup {None}]
  /\ Queried \in [Screen -> Seq(Vendor)]
  /\ Fallback \in Vendor
  /\ Supports \subseteq Vendor \X Screen
  /\ {MaxGenerated, MaxFailures, MaxLeftLocked} \subseteq Nat
  /\ {EarlyCalls, ForkDuringLoad} \subseteq BOOLEAN
  /\ None \notin Thread \cup Vendor \cup Screen \cup Display \cup Name

\* A name is a GLX function for all vendors or an OpenGL function for all.
ASSUME NamesAssumption == \A v, w \in Vendor : GlxOf[v] \cap GlOf[w] = {}

VARIABLES
  loaded,       \* __glXVendorNameHash, in the order in which it is walked
  nameLock,     \* the thread that holds its lock for writing, or None
  indices,      \* dispatchIndexList
  entrypoint,   \* the function of each generated entrypoint, or None
  unstubbed,    \* the vendors and their OpenGL functions that libGLdispatch had no
                \* stub for when the vendor was loaded
  told,         \* the index of each name that each vendor was told, or None
  fetched,      \* dynDispatch of each vendor: the implementation by index
  cache,        \* __glXProcAddressHash
  screenVendor, \* vendors[] of the displays
  vendorLock,   \* the thread that holds a display's vendorLock for writing, or None
  tableLock,    \* how forks have left the lock of each vendor's dynDispatch: "free", or
                \* held for "read" or "write" by a thread that the child does not have
  given,        \* the addresses that glXGetProcAddress has returned
  pc,           \* where each thread is: see TypeOK
  call,         \* what a thread in a call is about
  failures

indexVars  == <<indices, entrypoint, unstubbed, told>>
screenVars == <<screenVendor, vendorLock>>
cacheVars  == <<cache, given>>
threadVars == <<pc, call>>
vars == <<loaded, nameLock, indexVars, fetched, cacheVars, screenVars, tableLock,
          threadVars, failures>>

\* Addresses of functions.
Stub(v)   == [kind |-> "stub", of |-> v]     \* a vendor's dispatch stub
Gen(n)    == [kind |-> "gen", of |-> n]      \* the generated entrypoint of a name
GlAddr    == [kind |-> "gl", of |-> None]    \* the stub in libGLdispatch
Default   == [kind |-> "default", of |-> None]

Addr == {Stub(v) : v \in Vendor} \cup {Gen(n) : n \in Name} \cup {GlAddr}

ASSUME NoneAssumption == None \notin Addr \cup {Default} \cup Nat

NoCall == [name |-> None, addr |-> None, screen |-> None, todo |-> <<>>,
           index |-> None, vendor |-> None]

Init ==
  /\ loaded = <<>>
  /\ nameLock = None
  /\ indices = <<>>
  /\ entrypoint = [n \in Name |-> None]
  /\ unstubbed = {}
  /\ told = [v \in Vendor |-> [n \in Name |-> None]]
  /\ fetched = [v \in Vendor |-> [i \in 1..Cardinality(Name) |-> None]]
  /\ cache = [n \in Name |-> None]
  /\ screenVendor = [s \in Screen |-> None]
  /\ vendorLock = [d \in Display |-> None]
  /\ tableLock = [v \in Vendor |-> "free"]
  /\ given = {}
  /\ pc = [t \in Thread |-> "idle"]
  /\ call = [t \in Thread |-> NoCall]
  /\ failures = 0

Goto(t, l, c) ==
  /\ pc' = [pc EXCEPT ![t] = l]
  /\ call' = [call EXCEPT ![t] = c]

Return(t) == Goto(t, "idle", NoCall)

\* A load or an allocation fails.
Fail == failures < MaxFailures /\ failures' = failures + 1

-----------------------------------------------------------------------------
(* glXGetProcAddress.                                                      *)

\* __glvndWinsysDispatchFindIndex, with 0 for -1
IndexOf(n) == SelectInSeq(indices, LAMBDA e : e.name = n)

\* The function of vendor v that a name stands for.
Provided(v, n) ==
  IF n \in GlxOf[v] THEN Stub(v) ELSE IF n \in GlOf[v] THEN GlAddr ELSE None

\* glvndGenerateEntrypoint
Generated(n) ==
  IF entrypoint[n] # None \/ Cardinality({m \in Name : entrypoint[m] # None}) < MaxGenerated
  THEN Gen(n) ELSE None

\* The first loaded vendor that knows the name, for a name without an index.
DispatchAddress(n) ==
  LET k == SelectInSeq(loaded, LAMBDA v : Provided(v, n) # None)
  IN IF k > 0 THEN Provided(loaded[k], n) ELSE Generated(n)

Generate(n, a) ==
  entrypoint' = IF a = Gen(n) /\ entrypoint[n] = None
                THEN [entrypoint EXCEPT ![n] = Default] ELSE entrypoint

\* __glvndWinsysDispatchAllocIndex
AllocIndex(n, a) == indices' = Append(indices, [name |-> n, addr |-> a])

\* Variant: the loaded vendors are told the index before the one of the name.
TellLoaded_OffByOne(n, i) ==
  told' = [v \in Vendor |-> IF v \in Range(loaded) THEN [told[v] EXCEPT ![n] = i - 1] ELSE told[v]]

TellLoaded(n, i) ==
  told' = [v \in Vendor |-> IF v \in Range(loaded) THEN [told[v] EXCEPT ![n] = i] ELSE told[v]]

Hit(t, n) ==
  /\ cache[n] # None
  /\ given' = given \cup {<<n, cache[n]>>}
  /\ UNCHANGED threadVars

Miss(t, n) ==
  /\ cache[n] = None
  /\ Goto(t, "resolve", [NoCall EXCEPT !.name = n])
  /\ UNCHANGED given

GetProcAddress(t, n) ==
  /\ pc[t] = "idle"
  /\ Hit(t, n) \/ Miss(t, n)
  /\ UNCHANGED <<loaded, nameLock, indexVars, fetched, tableLock, cache, screenVars, failures>>

\* __glXGetGLXDispatchAddress of a name that has an index.
FindAddress(t) ==
  LET i == IndexOf(call[t].name) IN
  /\ pc[t] = "resolve" /\ nameLock = None
  /\ i > 0
  /\ Goto(t, "cache", [call[t] EXCEPT !.addr = indices[i].addr])
  /\ UNCHANGED <<loaded, nameLock, indexVars, fetched, tableLock, cacheVars, screenVars, failures>>

\* And of a name that has none: a GLX function gets one.  libGLdispatch may have no
\* stub left for an OpenGL function.
NewAddress(t) ==
  LET n == call[t].name
      a == DispatchAddress(n)
  IN
  /\ pc[t] = "resolve" /\ nameLock = None
  /\ IndexOf(n) = 0
  /\ Generate(n, a)
  /\ \/ /\ a \in {GlAddr, None}
        /\ UNCHANGED <<indices, told, failures>>
        /\ IF a = None THEN Return(t) ELSE Goto(t, "cache", [call[t] EXCEPT !.addr = a])
     \/ /\ a \notin {GlAddr, None}
        /\ AllocIndex(n, a)
        /\ TellLoaded(n, Len(indices'))
        /\ Goto(t, "cache", [call[t] EXCEPT !.addr = a])
        /\ UNCHANGED failures
     \/ /\ a # None /\ Fail
        /\ UNCHANGED <<indices, told>>
        /\ Return(t)
  /\ UNCHANGED <<loaded, nameLock, unstubbed, fetched, tableLock, cacheVars, screenVars>>

\* cacheProcAddress, and the end of glXGetProcAddress.  Another thread may have
\* cached the name meanwhile; the code asserts that it found the same address.
CacheAddress(t) ==
  LET n == call[t].name IN
  /\ pc[t] = "cache"
  /\ \/ cache[n] # None /\ UNCHANGED <<cache, failures>>
     \/ /\ cache[n] = None
        /\ cache' = [cache EXCEPT ![n] = call[t].addr]
        /\ UNCHANGED failures
     \/ cache[n] = None /\ Fail /\ UNCHANGED cache
  /\ given' = given \cup {<<n, call[t].addr>>}
  /\ Return(t)
  /\ UNCHANGED <<loaded, nameLock, indexVars, fetched, tableLock, screenVars>>

-----------------------------------------------------------------------------
(* __glXLookupVendorByScreen and __glXLookupVendorByName.                  *)

\* The vendors to try for a screen; those of the X server have to support it.
Candidates(s) ==
  (IF Specified[s] = None THEN <<>> ELSE <<[vendor |-> Specified[s], check |-> FALSE]>>)
  \o [k \in DOMAIN Queried[s] |-> [vendor |-> Queried[s][k], check |-> TRUE]]
  \o <<[vendor |-> Fallback, check |-> FALSE]>>

\* The look-up of a screen's vendor is over; a dispatch stub goes on with it.
VendorFound(t, w) ==
  IF call[t].name = None \/ w = None THEN Return(t)
  ELSE Goto(t, "fetch", [call[t] EXCEPT !.vendor = w, !.todo = <<>>])

\* The lock of the display that the thread looks up a screen of.
LockOf(t) == vendorLock[DisplayOf[call[t].screen]]

LookupVendorByScreen(t, s) ==
  /\ pc[t] = "idle"
  /\ Goto(t, "screen", [NoCall EXCEPT !.screen = s])
  /\ UNCHANGED <<loaded, nameLock, indexVars, fetched, tableLock, cacheVars, screenVars, failures>>

ReadScreen(t) ==
  LET w == screenVendor[call[t].screen] IN
  /\ pc[t] = "screen" /\ LockOf(t) = None
  /\ IF w # None THEN VendorFound(t, w) ELSE Goto(t, "screenWrite", call[t])
  /\ UNCHANGED <<loaded, nameLock, indexVars, fetched, tableLock, cacheVars, screenVars, failures>>

\* Variant: the screen is not looked at again under the write lock.
CheckAgain_Never(s) == None

CheckAgain(s) == screenVendor[s]

WriteScreen(t) ==
  LET s == call[t].screen
      w == CheckAgain(s)
  IN
  /\ pc[t] = "screenWrite" /\ LockOf(t) = None
  /\ \/ w # None /\ VendorFound(t, w) /\ UNCHANGED vendorLock
     \/ /\ w = None
        /\ vendorLock' = [vendorLock EXCEPT ![DisplayOf[s]] = t]
        /\ Goto(t, "name", [call[t] EXCEPT !.todo = Candidates(s)])
  /\ UNCHANGED <<loaded, nameLock, indexVars, fetched, tableLock, cacheVars, screenVendor, failures>>

\* The end of __glXLookupVendorByScreen, for the vendor found or for none.
SetScreen(t, w) ==
  /\ screenVendor' = [screenVendor EXCEPT ![call[t].screen] = w]
  /\ vendorLock' = [vendorLock EXCEPT ![DisplayOf[call[t].screen]] = None]
  /\ VendorFound(t, w)

NextCandidate(t) ==
  IF Len(call[t].todo) > 1
  THEN Goto(t, "name", [call[t] EXCEPT !.todo = Tail(call[t].todo)]) /\ UNCHANGED screenVars
  ELSE SetScreen(t, None)

Candidate(t) == Head(call[t].todo).vendor

\* The first look at the hash, under the read lock.
FindName(t) ==
  /\ pc[t] = "name" /\ nameLock = None
  /\ Goto(t, IF Candidate(t) \in Range(loaded) THEN "found" ELSE "load", call[t])
  /\ UNCHANGED <<loaded, nameLock, indexVars, fetched, tableLock, cacheVars, screenVars, failures>>

\* Variant: the hash is not looked at again under the write lock.
LoadedMeanwhile_Never(v) == FALSE

LoadedMeanwhile(v) == v \in Range(loaded)

LockToLoad(t) ==
  /\ pc[t] = "load" /\ nameLock = None
  /\ \/ LoadedMeanwhile(Candidate(t)) /\ Goto(t, "found", call[t]) /\ UNCHANGED nameLock
     \/ ~LoadedMeanwhile(Candidate(t)) /\ Goto(t, "open", call[t]) /\ nameLock' = t
  /\ UNCHANGED <<loaded, indexVars, fetched, tableLock, cacheVars, screenVars, failures>>

\* Variant: a load that fails leaves the hash locked.
UnlockAfterFailure_Missing == UNCHANGED nameLock

UnlockAfterFailure == nameLock' = None

\* The library is missing, is of another version or lacks a function.
LoadFails(t) ==
  /\ pc[t] = "open"
  /\ Fail
  /\ UnlockAfterFailure
  /\ NextCandidate(t)
  /\ UNCHANGED <<loaded, indexVars, fetched, tableLock, cacheVars>>

LoadSucceeds(t) ==
  /\ pc[t] = "open"
  /\ loaded' = Append(loaded, Candidate(t))
  /\ Goto(t, "update", call[t])
  /\ UNCHANGED <<nameLock, indexVars, fetched, tableLock, cacheVars, screenVars, failures>>

\* Variant: the vendor is only asked for GLX functions.
ToUpdate_OnlyGlx(v) == {n \in GlxOf[v] : entrypoint[n] = Default}

\* Vendor v has no function for the name, or libGLdispatch had no stub for it.
Lacks(v, n) == Provided(v, n) = None \/ <<v, n>> \in unstubbed

\* The entrypoints for which GLXEntrypointUpdateCallback has yet to look.
ToUpdate(v) == {n \in Name : entrypoint[n] = Default /\ ~Lacks(v, n)}

\* One round of the loop in glvndUpdateEntrypoints.  libGLdispatch may have no stub
\* left for an OpenGL function: the entrypoint is left as it is.
UpdateEntrypoint(t) ==
  LET v == Candidate(t) IN
  /\ pc[t] = "update"
  /\ \/ \E n \in ToUpdate(v) :
          /\ entrypoint' = [entrypoint EXCEPT ![n] = Provided(v, n)]
          /\ UNCHANGED <<unstubbed, threadVars, failures>>
     \/ \E n \in ToUpdate(v) \cap GlOf[v] :
          /\ Fail
          /\ unstubbed' = unstubbed \cup {<<v, n>>}
          /\ UNCHANGED <<entrypoint, threadVars>>
     \/ /\ ToUpdate(v) = {}
        /\ Goto(t, "tell", call[t])
        /\ UNCHANGED <<entrypoint, unstubbed, failures>>
  /\ UNCHANGED <<loaded, nameLock, indices, told, fetched, tableLock, cacheVars, screenVars>>

\* The indices that vendor v has not been told yet.
Untold(v) == {i \in DOMAIN indices : told[v][indices[i].name] = None}

\* One call of setDispatchIndex, or the end of the load.
TellVendor(t) ==
  LET v == Candidate(t) IN
  /\ pc[t] = "tell"
  /\ \/ \E i \in Untold(v) :
          /\ \A j \in Untold(v) : i <= j
          /\ told' = [told EXCEPT ![v][indices[i].name] = i]
          /\ UNCHANGED <<nameLock, threadVars>>
     \/ /\ Untold(v) = {}
        /\ nameLock' = None
        /\ Goto(t, "found", call[t])
        /\ UNCHANGED told
  /\ UNCHANGED <<loaded, indices, entrypoint, unstubbed, fetched, tableLock, cacheVars, screenVars, failures>>

\* A vendor that the X server named has to support the screen.
CheckScreen(t) ==
  /\ pc[t] = "found"
  /\ IF Head(call[t].todo).check /\ <<Candidate(t), call[t].screen>> \notin Supports
     THEN NextCandidate(t)
     ELSE SetScreen(t, Candidate(t))
  /\ UNCHANGED <<loaded, nameLock, indexVars, fetched, tableLock, cacheVars, failures>>

-----------------------------------------------------------------------------
(* A call of a function, through the address that was given for its name.  *)

\* Where a call through an address ends up.
Target(a) == IF a.kind = "gen" THEN entrypoint[a.of] ELSE a

\* The application has loaded the vendors of the screens and read what
\* extensions they have, and n belongs to one of these.
Announced(n) == \E s \in Screen : screenVendor[s] # None /\ n \in GlxOf[screenVendor[s]]

\* A dispatch stub reads its index first and then looks up the vendor.  Only
\* calls that reach a dispatch stub do anything here.
CallFunction(t, n, s) ==
  /\ pc[t] = "idle"
  /\ EarlyCalls \/ Announced(n)
  /\ \E v \in Vendor :
       /\ \E g \in given : g[1] = n /\ Target(g[2]) = Stub(v)
       /\ Goto(t, "screen", [NoCall EXCEPT !.name = n, !.screen = s, !.index = told[v][n]])
  /\ UNCHANGED <<loaded, nameLock, indexVars, fetched, tableLock, cacheVars, screenVars, failures>>

\* The name whose implementation __glXFetchDispatchEntry returns or asks for,
\* or None if there is no such index, against which the code asserts.
FetchName(w, i) ==
  IF i \notin DOMAIN indices THEN None
  ELSE IF fetched[w][i] # None THEN fetched[w][i] ELSE indices[i].name

\* The steps of __glXFetchDispatchEntry.  Each section under the lock of the
\* vendor's table is one step; Fork says what a fork in the middle of one leaves.
Fetching == {"fetch", "ask", "add"}

\* __glvndWinsysVendorDispatchLookupFunc
LookupFunc(t) ==
  LET w == call[t].vendor
      i == call[t].index
  IN
  /\ pc[t] = "fetch" /\ tableLock[w] # "write"
  /\ IF FetchName(w, i) = None \/ fetched[w][i] # None
     THEN Return(t)
     ELSE Goto(t, "ask", call[t])
  /\ UNCHANGED <<fetched, failures>>

\* The name is read under the lock of the vendor hash.
AskVendor(t) ==
  /\ pc[t] = "ask" /\ nameLock = None
  /\ IF Provided(call[t].vendor, indices[call[t].index].name) = None
     THEN Return(t)
     ELSE Goto(t, "add", call[t])
  /\ UNCHANGED <<fetched, failures>>

\* __glvndWinsysVendorDispatchAddFunc; a failure to record the function is ignored.
AddFunc(t) ==
  LET w == call[t].vendor
      i == call[t].index
  IN
  /\ pc[t] = "add" /\ tableLock[w] = "free"
  /\ \/ fetched' = [fetched EXCEPT ![w][i] = indices[i].name] /\ UNCHANGED failures
     \/ fetched[w][i] = None /\ Fail /\ UNCHANGED fetched
  /\ Return(t)

FetchDispatchEntry(t) ==
  /\ LookupFunc(t) \/ AskVendor(t) \/ AddFunc(t)
  /\ UNCHANGED <<loaded, nameLock, indexVars, cacheVars, screenVars, tableLock>>

-----------------------------------------------------------------------------
(* A fork by a thread that is outside libGLX.  The child initialises the   *)
(* locks of the vendor hash and of the displays again in its first GLX     *)
(* call, before that call does anything else; that is part of this step.   *)
(* It does not initialise the locks of the vendors' tables: one that       *)
(* another thread held stays held for ever.                                *)

ResetVendorLocks == vendorLock' = [d \in Display |-> None]

\* A thread that is about to read a vendor's table, or to add to it, may hold its lock.
TableLockLeft(v) ==
  {tableLock[v]}
  \cup {m \in {"read"} : /\ tableLock[v] # "write"
                         /\ \E u \in Thread : pc[u] = "fetch" /\ call[u].vendor = v}
  \cup {m \in {"write"} : /\ tableLock[v] = "free"
                          /\ \E u \in Thread : pc[u] = "add" /\ call[u].vendor = v}

LeaveTableLocks ==
  \E left \in [Vendor -> {"free", "read", "write"}] :
    /\ \A v \in Vendor : left[v] \in TableLockLeft(v)
    /\ Cardinality({v \in Vendor : left[v] # "free"}) <= MaxLeftLocked
    /\ tableLock' = left

Fork(t) ==
  /\ pc[t] = "idle"
  /\ nameLock = None \/ ForkDuringLoad
  /\ nameLock' = None
  /\ ResetVendorLocks
  /\ LeaveTableLocks
  /\ pc' = [u \in Thread |-> "idle"]
  /\ call' = [u \in Thread |-> NoCall]
  /\ UNCHANGED <<loaded, indexVars, fetched, cacheVars, screenVendor, failures>>

-----------------------------------------------------------------------------
\* The steps of a thread in a call.
Step(t) ==
  \/ FindAddress(t) \/ NewAddress(t) \/ CacheAddress(t)
  \/ ReadScreen(t) \/ WriteScreen(t)
  \/ FindName(t) \/ LockToLoad(t) \/ LoadFails(t) \/ LoadSucceeds(t)
  \/ UpdateEntrypoint(t) \/ TellVendor(t) \/ CheckScreen(t)
  \/ FetchDispatchEntry(t)

Start(t) ==
  \/ \E n \in Name : GetProcAddress(t, n)
  \/ \E s \in Screen : LookupVendorByScreen(t, s)
  \/ \E n \in Name, s \in Screen : CallFunction(t, n, s)

Next == \E t \in Thread : Step(t) \/ Start(t) \/ Fork(t)

Spec == Init /\ [][Next]_vars

\* A thread in a call goes on when it can: the locks are held by threads that
\* go on too, and only finitely many loads fail.
FairSpec == Spec /\ \A t \in Thread : WF_vars(Step(t))

-----------------------------------------------------------------------------
IndexEntry == [name : Name, addr : Addr]

CallType == [name : Name \cup {None}, addr : Addr \cup {None}, screen : Screen \cup {None},
             todo : Seq([vendor : Vendor, check : BOOLEAN]),
             index : Nat \cup {None}, vendor : Vendor \cup {None}]

\* The types, what the program counters mean, and that the writer of each lock
\* is in the part of the code that holds it.
TypeOK ==
  /\ loaded \in Seq(Vendor)
  /\ nameLock \in Thread \cup {None}
  /\ indices \in Seq(IndexEntry)
  /\ entrypoint \in [Name -> Addr \cup {Default, None}]
  /\ unstubbed \subseteq {vn \in Vendor \X Name : vn[2] \in GlOf[vn[1]]}
  /\ told \in [Vendor -> [Name -> Nat \cup {None}]]
  /\ fetched \in [Vendor -> [1..Cardinality(Name) -> Name \cup {None}]]
  /\ cache \in [Name -> Addr \cup {None}]
  /\ given \subseteq Name \X Addr
  /\ screenVendor \in [Screen -> Vendor \cup {None}]
  /\ vendorLock \in [Display -> Thread \cup {None}]
  /\ tableLock \in [Vendor -> {"free", "read", "write"}]
  /\ pc \in [Thread -> {"idle", "resolve", "cache", "screen", "screenWrite", "name",
                        "load", "open", "update", "tell", "found", "fetch", "ask", "add"}]
  /\ call \in [Thread -> CallType]
  /\ failures \in 0..MaxFailures
  /\ \A t \in Thread :
       /\ nameLock = t <=> pc[t] \in {"open", "update", "tell"}
       /\ \A d \in Display :
            vendorLock[d] = t <=> /\ pc[t] \in {"name", "load", "open", "update", "tell", "found"}
                                  /\ DisplayOf[call[t].screen] = d

\* A name has one address for ever: whatever glXGetProcAddress has returned for
\* it, has cached for it or is about to return is the same, whichever vendors
\* were loaded meanwhile and whichever threads asked.  cacheProcAddress asserts
\* this (libglx.c:1786), and applications keep the addresses.
OneAddress ==
  LET addresses == given
        \cup {<<n, cache[n]>> : n \in {m \in Name : cache[m] # None}}
        \cup {<<call[t].name, call[t].addr>> : t \in {u \in Thread : pc[u] = "cache"}}
  IN \A p, q \in addresses : p[1] = q[1] => p[2] = q[2]

\* A vendor library is loaded once, although two threads that need it look it up
\* under the read lock and each come back to load it.
LoadedOnce == IsInjective(loaded)

\* The steps of a thread that holds the lock of its screen's display.
Searching == {"name", "load", "open", "update", "tell", "found"}

\* What a thread in a call has: a name or a screen, and while it looks for the screen's
\* vendor a candidate that it loads only if nobody has.
CallOK(t) ==
  /\ pc[t] \in {"resolve", "cache"} \cup Fetching => call[t].name # None
  /\ pc[t] \in {"screen", "screenWrite"} \cup Searching => call[t].screen # None
  /\ pc[t] \in Searching => call[t].todo # <<>> /\ screenVendor[call[t].screen] = None
  /\ pc[t] = "open" => Candidate(t) \notin Range(loaded)
  /\ pc[t] \in {"update", "tell", "found"} => Candidate(t) \in Range(loaded)
  /\ pc[t] = "cache" => call[t].addr # None
  /\ pc[t] \in Fetching => call[t].vendor # None
  /\ pc[t] \in {"ask", "add"} => call[t].index \in DOMAIN indices

\* A name is in the list once, with the entrypoint generated for it or the stub of a
\* vendor that was loaded.
IndexListOK ==
  /\ \A i, j \in DOMAIN indices : indices[i].name = indices[j].name => i = j
  /\ \A i \in DOMAIN indices :
       LET n == indices[i].name IN
       \/ indices[i].addr = Gen(n) /\ entrypoint[n] # None
       \/ \E v \in Range(loaded) : n \in GlxOf[v] /\ indices[i].addr = Stub(v)

\* An address that was found for a name is the one in the list, or the name is an
\* OpenGL function of a loaded vendor and never gets an index.
AddressFound(n, a) ==
  \/ \E i \in DOMAIN indices : indices[i].name = n /\ indices[i].addr = a
  \/ /\ a = GlAddr
     /\ \A i \in DOMAIN indices : indices[i].name # n
     /\ \E v \in Range(loaded) : n \in GlOf[v]

AddressesFound ==
  /\ \A g \in given : AddressFound(g[1], g[2])
  /\ \A n \in Name : cache[n] # None => AddressFound(n, cache[n])
  /\ \A t \in Thread : pc[t] = "cache" => AddressFound(call[t].name, call[t].addr)

\* A vendor is loaded once, and a name gets its address once, whatever two threads do
\* between a look-up and the lock (libglxmapping.c:405, libglx.c:1786).
OnceOnly ==
  /\ TypeOK /\ LoadedOnce /\ OneAddress /\ IndexListOK /\ AddressesFound
  /\ \A t \in Thread : CallOK(t)

\* When no thread is loading a vendor, every loaded vendor knows the index of
\* every name: those that were there when it was loaded and those added since.
VendorsTold ==
  nameLock = None =>
    \A v \in Range(loaded), i \in DOMAIN indices : told[v][indices[i].name] = i

\* An application that has seen a vendor with a function never reaches the
\* default function through the entrypoint it got for it, be it generated before
\* or after; this is the case in which the comment at libglxmapping.c:149 says
\* that the entrypoint goes to the correct dispatch stub.
AnnouncedResolved ==
  \A n \in Name : Announced(n) => \A g \in given : g[1] = n => Target(g[2]) # Default

\* No generated entrypoint is left without its function when a loaded vendor has
\* it, as a GLX function or as an OpenGL function that libGLdispatch had a stub for.
EntrypointsUpdated ==
  nameLock = None =>
    \A v \in Range(loaded), n \in Name : entrypoint[n] = Default => Lacks(v, n)

\* The vendors whose load is over.
Ready == {v \in Range(loaded) :
            \A t \in Thread : pc[t] \in {"update", "tell"} => Candidate(t) # v}

\* Only vendors whose load is over are used for a screen, or for the address of a name.
UsedReady ==
  /\ \A t \in Thread : pc[t] = "found" => Candidate(t) \in Ready
  /\ \A s \in Screen : screenVendor[s] # None => screenVendor[s] \in Ready
  /\ \A i \in DOMAIN indices, v \in Vendor : indices[i].addr = Stub(v) => v \in Ready

\* An index that a vendor was told is that of the name, and a vendor whose load is
\* over was told all of them.
ToldOK ==
  /\ \A v \in Vendor, n \in Name : told[v][n] # None =>
       told[v][n] \in DOMAIN indices /\ indices[told[v][n]].name = n
  /\ \A v \in Ready, i \in DOMAIN indices : told[v][indices[i].name] # None

\* A vendor that has got past the update of the entrypoints left none that it has the
\* function of, and it took only those that no vendor before it has.
UpdatedOK ==
  \A n \in Name :
    /\ entrypoint[n] = Default =>
         /\ \A v \in Ready : Lacks(v, n)
         /\ \A t \in Thread : pc[t] = "tell" => Lacks(Candidate(t), n)
    /\ \A v \in Vendor : entrypoint[n] = Stub(v) =>
         v \in Range(loaded) /\ (v \in Ready \/ \A w \in Ready : Lacks(w, n))

\* Vendors and names may come in any order: once both are there, the vendor has been
\* told the index and the entrypoint leads to the vendor (libglxmapping.c:494).
EntrypointsResolved ==
  /\ VendorsTold /\ AnnouncedResolved /\ EntrypointsUpdated
  /\ UsedReady /\ ToldOK /\ UpdatedOK

\* A dispatch stub goes on with the index of its own name.
CallIndexOK(t) ==
  pc[t] \in {"screen", "screenWrite"} \cup Searching \cup Fetching /\ call[t].name # None =>
    call[t].index \in DOMAIN indices /\ indices[call[t].index].name = call[t].name

\* What a vendor was asked for under an index is the function of that index.
FetchedOK ==
  \A v \in Vendor : \A i \in DOMAIN fetched[v] : fetched[v][i] # None =>
    i \in DOMAIN indices /\ fetched[v][i] = indices[i].name

\* A call reaches the implementation of its own name: the index that the stub of
\* one vendor hands over means the same function for the vendor of the screen.
OwnFunction ==
  /\ \A t \in Thread : pc[t] \in Fetching =>
       FetchName(call[t].vendor, call[t].index) = call[t].name
  /\ FetchedOK /\ \A t \in Thread : CallIndexOK(t)

\* What was decided once stays: the index list only grows, an entrypoint keeps
\* the function it was given, and a screen keeps its vendor, since applications
\* hold objects that belong to it.
Fixed ==
  /\ IsPrefix(indices, indices')
  /\ \A n \in Name : entrypoint[n] \notin {None, Default} => entrypoint'[n] = entrypoint[n]
  /\ \A s \in Screen : screenVendor[s] # None => screenVendor'[s] = screenVendor[s]

DecidedStays == [][Fixed]_vars

\* The thread needs the lock of a table that a fork has left held: nothing in the
\* child releases it, nor makes it anew (libglxmapping.c:1052).
WaitsForever(t) ==
  LET m == tableLock[call[t].vendor] IN
  \/ pc[t] = "fetch" /\ m = "write"
  \/ pc[t] = "add" /\ m # "free"

\* Every call returns, so that each thread is in none again and again, past the locks
\* of the vendor hash and of the displays, loads that fail and forks; the only
\* exception is a call of a child for which the lock of a vendor's table was left held.
CallsReturn == \A t \in Thread : []<>(pc[t] = "idle" \/ WaitsForever(t))

=============================================================================

----------------------------- MODULE GLdispatch -----------------------------
(***************************************************************************)
(* libGLdispatch (src/GLdispatch/GLdispatch.c) with the entrypoint stubs   *)
(* it patches (vnd-glapi/stub.c) and the libraries that link to it.        *)
(*                                                                         *)
(* libGLdispatch keeps, for every thread, the vendor whose dispatch table  *)
(* OpenGL calls of that thread go to.  A vendor library may also overwrite *)
(* ("patch") the code of the OpenGL entrypoints, which are shared by all   *)
(* threads, so that calls bypass the table.  The dispatch lock protects    *)
(* the shared state: every critical section is one action here, and what a *)
(* thread does after unlocking is a separate step of that thread.          *)
(*                                                                         *)
(* A patch callback table and a vendor ID both name a vendor and are       *)
(* always assigned together (GLdispatch.c:531-560), so stubOwner stands    *)
(* for stubCurrentPatchCb and stubOwnerVendorID.  A dispatch table is the  *)
(* set of the names whose slots were looked up; {} is a NULL table.        *)
(***************************************************************************)
EXTENDS Integers, FiniteSets

CONSTANTS
  Thread,           \* the threads of the process
  Vendor,           \* the vendor libraries of all window-system APIs
  PatchVendor,      \* those that pass patch callbacks
  Winsys,           \* the window-system libraries, libGLX and libEGL
  Api,              \* Api[v]: the window-system library that loads v
  StubLib,          \* libraries with entrypoints of their own (libGL, ...)
  Local,            \* libGLdispatch's own set of entrypoints
  StaticProc,       \* the names that have a static stub
  ProcName,         \* the names an application asks for
  MayUnload,        \* the client libraries that may be unloaded
  MaxDynamic,       \* MAPI_TABLE_NUM_DYNAMIC
  MaxForks,         \* bound on the number of forks
  PatchingDisabled, \* the value of __GLVND_DISALLOW_PATCHING
  RestoreMayFail,   \* whether mprotect may fail when restoring a stub set
  ResetWhileCurrent, \* whether a library may be reset after a fork while
                    \* another thread of the child has a current context
  Default,          \* the code libglvnd generates for an entrypoint
  None

Client == Winsys \cup StubLib
StubSet == StubLib \cup {Local}

\* The assertions of GLdispatch.c and stub.c that the model keeps.
Assertions == {"GLdispatch.c:241", "GLdispatch.c:304", "stub.c:219", "stub.c:246"}

ASSUME ConstantsAssumption ==
  /\ IsFiniteSet(Thread)
  /\ PatchVendor \subseteq Vendor
  /\ Api \in [Vendor -> Winsys]
  /\ Winsys \cap StubLib = {}
  /\ Local \notin Client
  /\ StaticProc # {} /\ StaticProc \subseteq ProcName
  /\ MayUnload \subseteq Client
  /\ MaxDynamic \in Nat /\ MaxForks \in Nat
  /\ {PatchingDisabled, RestoreMayFail, ResetWhileCurrent} \subseteq BOOLEAN
  /\ None \notin Vendor \cup Assertions /\ Default \notin Vendor /\ None # Default

VARIABLES
  client,              \* where each client library is between load and unload
  vendor,              \* whether each vendor's dispatch table exists
  step,                \* what each thread still does after an unlock
  tls,                 \* the thread state, by its vendor
  priv,                \* threadState->priv, by the vendor of priv->dispatch
  glapi,               \* the thread's _glapi_Current; None is the no-op table
  numCurrentContexts,
  currentThreads,      \* the use count of each vendor's table
  currentDispatchList, \* the tables that GetProcAddress has to fix up
  stubs,               \* the names that have a stub
  tableProcs,          \* the names each vendor's table was populated with
  stubOwner,           \* the vendor whose patch is installed, or None
  isPatched,           \* the stub sets that hold the owner's code
  code,                \* whose code each stub set holds
  saved,               \* savedEntrypoints of each stub set
  forkPending,         \* the libraries that have yet to notice a fork
  forks,               \* number of forks so far
  failedAssert         \* the assertion that aborted the process, or None

clientVars == <<client, vendor>>
threadVars == <<step, tls, priv, glapi>>
countVars  == <<numCurrentContexts, currentThreads, currentDispatchList>>
tableVars  == <<stubs, tableProcs>>
patchVars  == <<stubOwner, isPatched, code, saved>>
forkVars   == <<forkPending, forks>>
vars == <<clientVars, threadVars, countVars, tableVars, patchVars, forkVars,
          failedAssert>>

-----------------------------------------------------------------------------
(* Helpers of GLdispatch.c and stub.c.                                     *)

\* Some client is between its __glDispatchInit and its __glDispatchFini.
Initialized == \E c \in Client : client[c] # "out"

\* Stub libraries whose destructor has run stub_cleanup and no more.
Cleaned == {s \in StubLib : client[s] = "cleaned"}

\* dispatchStubList
Registered ==
  {s \in StubLib : client[s] = "registered"} \cup Cleaned
    \cup (IF Initialized THEN {Local} ELSE {})

\* A thread can enter the window-system library w: it is loaded, and the
\* CheckFork at the top of every entrypoint has nothing left to do.
CanCall(t, w) ==
  /\ step[t] = "idle"
  /\ client[w] = "loaded"
  /\ w \notin forkPending

ContextIsCurrentInAnyOtherThread(t) ==
  numCurrentContexts - (IF tls[t] # None THEN 1 ELSE 0) # 0

\* Variant: the other threads are not asked about.
PatchingIsSafe_AnyThreads(t) ==
  Registered # {} /\ ~PatchingDisabled

PatchingIsSafe(t) ==
  /\ Registered # {}
  /\ ~PatchingDisabled
  /\ ~ContextIsCurrentInAnyOtherThread(t)

CurrentEntrypointsSafeToUse(owner, v) == owner = None \/ owner = v

\* Variant: only a table that has just been allocated is filled.
FixupDispatchTable_OnlyNew(procs, count) == IF procs = {} THEN count ELSE procs

FixupDispatchTable(procs, count) == procs \cup count

\* What is left of the stub sets once the previous owner's patch is taken
\* out.  Those in stuck stay as they are: entry_patch_start failed.
ToRestore == IF stubOwner = None THEN {} ELSE Registered \cap isPatched

RestoredCode(stuck) ==
  [s \in StubSet |-> IF s \in ToRestore \ stuck THEN saved[s] ELSE code[s]]
RestoredSaved(stuck) ==
  [s \in StubSet |-> IF s \in ToRestore \ stuck THEN None ELSE saved[s]]

RestoreAsserts(stuck) == \E s \in ToRestore \ stuck : saved[s] = None
PatchAsserts(stuck, tried) == \E s \in tried : RestoredSaved(stuck)[s] # None

AbortPatching(assertion) ==
  /\ failedAssert' = assertion
  /\ UNCHANGED patchVars

InstallPatch(cb, stuck, done) ==
  /\ stubOwner' = IF done = {} THEN None ELSE cb
  /\ isPatched' = (isPatched \ Registered) \cup done
  /\ code' = [s \in StubSet |-> IF s \in done THEN cb ELSE RestoredCode(stuck)[s]]
  /\ saved' = [s \in StubSet |-> IF s \in done THEN RestoredCode(stuck)[s]
                                              ELSE RestoredSaved(stuck)[s]]
  /\ UNCHANGED failedAssert

\* PatchEntrypoints past its early returns.  The new owner's callbacks are
\* tried on the sets in tried (isPatchSupported), and succeed on those in
\* done; a failed attempt leaves the set as it was (stubAbortPatch).
ReplacePatch(cb) ==
  \E stuck \in SUBSET (IF RestoreMayFail THEN ToRestore ELSE {}),
     tried \in SUBSET (IF cb = None THEN {} ELSE Registered) :
    \/ RestoreAsserts(stuck) /\ AbortPatching("stub.c:246")
    \/ /\ ~RestoreAsserts(stuck) /\ PatchAsserts(stuck, tried)
       /\ AbortPatching("stub.c:219")
    \/ /\ ~RestoreAsserts(stuck) /\ ~PatchAsserts(stuck, tried)
       /\ \E done \in SUBSET tried : InstallPatch(cb, stuck, done)

PatchEntrypoints(t, cb) ==
  IF ~PatchingIsSafe(t) \/ cb = stubOwner
  THEN UNCHANGED <<patchVars, failedAssert>>
  ELSE ReplacePatch(cb)

\* Variant: only the first thread is counted.
DispatchCurrentRef_FirstOnly(v) ==
  /\ currentThreads' = [currentThreads EXCEPT ![v] = IF @ = 0 THEN 1 ELSE @]
  /\ currentDispatchList' = currentDispatchList \cup {v}

DispatchCurrentRef(v) ==
  /\ currentThreads' = [currentThreads EXCEPT ![v] = @ + 1]
  /\ currentDispatchList' = IF currentThreads[v] + 1 = 1
                            THEN currentDispatchList \cup {v}
                            ELSE currentDispatchList

DispatchCurrentUnref(v) ==
  /\ currentThreads' = [currentThreads EXCEPT ![v] = @ - 1]
  /\ currentDispatchList' = IF currentThreads[v] - 1 = 0
                            THEN currentDispatchList \ {v}
                            ELSE currentDispatchList
  /\ failedAssert' = IF currentThreads[v] - 1 < 0 THEN "GLdispatch.c:241"
                                                  ELSE failedAssert

-----------------------------------------------------------------------------
(* Loading and unloading of the libraries that link to libGLdispatch.      *)

Init ==
  /\ client = [c \in Client |-> "out"]
  /\ vendor = [v \in Vendor |-> "unloaded"]
  /\ step = [t \in Thread |-> "idle"]
  /\ tls = [t \in Thread |-> None]
  /\ priv = [t \in Thread |-> None]
  /\ glapi = [t \in Thread |-> None]
  /\ numCurrentContexts = 0
  /\ currentThreads = [v \in Vendor |-> 0]
  /\ currentDispatchList = {}
  /\ stubs = StaticProc
  /\ tableProcs = [v \in Vendor |-> {}]
  /\ stubOwner = None
  /\ isPatched = {}
  /\ code = [s \in StubSet |-> Default]
  /\ saved = [s \in StubSet |-> None]
  /\ forkPending = {}
  /\ forks = 0
  /\ failedAssert = None

\* A client library's constructor calls __glDispatchInit.  The first call
\* registers libGLdispatch's own stubs (see Registered) and empties the lists.
DispatchInit(c) ==
  /\ client[c] = "out"
  /\ client' = [client EXCEPT ![c] = IF c \in Winsys THEN "loaded" ELSE "init"]
  /\ currentDispatchList' = IF Initialized THEN currentDispatchList ELSE {}
  /\ UNCHANGED <<vendor, threadVars, numCurrentContexts, currentThreads,
                 tableVars, patchVars, forkVars, failedAssert>>

RegisterStubCallbacks(s) ==
  /\ client[s] = "init"
  /\ client' = [client EXCEPT ![s] = "registered"]
  /\ isPatched' = isPatched \ {s}
  /\ UNCHANGED <<vendor, threadVars, countVars, tableVars, stubOwner, code,
                 saved, forkVars, failedAssert>>

\* The destructor of a stub library: stub_cleanup, without the dispatch
\* lock; then its stub set is unregistered; then __glDispatchFini.
StubCleanup(s) ==
  /\ s \in MayUnload
  /\ client[s] = "registered"
  /\ client' = [client EXCEPT ![s] = "cleaned"]
  /\ saved' = [saved EXCEPT ![s] = None]
  /\ UNCHANGED <<vendor, threadVars, countVars, tableVars, stubOwner,
                 isPatched, code, forkVars, failedAssert>>

UnregisterStubCallbacks(s) ==
  /\ client[s] = "cleaned"
  /\ client' = [client EXCEPT ![s] = "unregistered"]
  /\ isPatched' = isPatched \ {s}
  /\ UNCHANGED <<vendor, threadVars, countVars, tableVars, stubOwner, code,
                 saved, forkVars, failedAssert>>

\* What an application that unloads a library is required to have done.
ContextsReleased(vs) == \A t \in Thread : tls[t] \notin vs /\ priv[t] \notin vs

VendorsOf(w) == {v \in Vendor : Api[v] = w}

\* __glDispatchFini.  A library may be unloaded when nothing of it is in use.
\* The last client leaves an empty stub list and a deleted key behind, but the
\* counters and the patch state stay.  A stub library takes its code along.
DispatchFini(c) ==
  LET last == \A d \in Client \ {c} : client[d] = "out"
      gone == (StubLib \cap {c}) \cup (IF last THEN {Local} ELSE {})
  IN
  /\ c \in MayUnload
  /\ \/ c \in StubLib /\ client[c] = "unregistered"
     \/ /\ c \in Winsys /\ client[c] = "loaded" /\ c \notin forkPending
        /\ ContextsReleased(VendorsOf(c))
        /\ \A v \in VendorsOf(c) : vendor[v] = "unloaded"
  /\ client' = [client EXCEPT ![c] = "out"]
  /\ isPatched' = isPatched \ gone
  /\ saved' = [s \in StubSet |-> IF s \in gone THEN None ELSE saved[s]]
  /\ code' = [s \in StubSet |-> IF s = c THEN Default ELSE code[s]]
  /\ stubs' = IF last THEN StaticProc ELSE stubs
  /\ tls' = IF last THEN [t \in Thread |-> None] ELSE tls
  /\ priv' = IF last THEN [t \in Thread |-> None] ELSE priv
  /\ UNCHANGED <<vendor, step, glapi, countVars, tableProcs, stubOwner,
                 forkVars, failedAssert>>

CreateTable(v) ==
  /\ client[Api[v]] = "loaded" /\ Api[v] \notin forkPending
  /\ vendor[v] = "unloaded"
  /\ vendor' = [vendor EXCEPT ![v] = "loaded"]
  /\ tableProcs' = [tableProcs EXCEPT ![v] = {}]
  /\ currentThreads' = [currentThreads EXCEPT ![v] = 0]
  /\ UNCHANGED <<client, threadVars, numCurrentContexts, currentDispatchList,
                 stubs, patchVars, forkVars, failedAssert>>

\* Variant: the entrypoints are left patched.
ForceUnpatch_Nothing(v) ==
  /\ Api[v] \in MayUnload \ forkPending
  /\ vendor[v] = "loaded"
  /\ ContextsReleased({v})
  /\ vendor' = [vendor EXCEPT ![v] = "closing"]
  /\ UNCHANGED <<client, threadVars, countVars, tableVars, patchVars, forkVars,
                 failedAssert>>

\* Unloading a vendor: __glDispatchForceUnpatch, whether or not contexts are
\* current in other threads, and then __glDispatchDestroyTable.
ForceUnpatch(v) ==
  /\ Api[v] \in MayUnload \ forkPending
  /\ vendor[v] = "loaded"
  /\ ContextsReleased({v})
  /\ IF stubOwner = v THEN ReplacePatch(None)
                      ELSE UNCHANGED <<patchVars, failedAssert>>
  /\ vendor' = IF failedAssert' = None THEN [vendor EXCEPT ![v] = "closing"]
                                       ELSE vendor
  /\ UNCHANGED <<client, threadVars, countVars, tableVars, forkVars>>

DestroyTable(v) ==
  /\ vendor[v] = "closing"
  /\ vendor' = [vendor EXCEPT ![v] = "unloaded"]
  /\ UNCHANGED <<client, threadVars, countVars, tableVars, patchVars, forkVars,
                 failedAssert>>

-----------------------------------------------------------------------------
(* The operations of a thread.                                             *)

\* __glDispatchMakeCurrent up to its unlock.  The caller has made sure that
\* the thread has no current state.  The call fails when the entrypoints
\* belong to another vendor, or when the table cannot be allocated.
MakeCurrent(t, v) ==
  /\ CanCall(t, Api[v])
  /\ vendor[v] = "loaded"
  /\ tls[t] = None
  /\ PatchEntrypoints(t, IF v \in PatchVendor THEN v ELSE None)
  /\ \/ /\ \/ ~CurrentEntrypointsSafeToUse(stubOwner', v)
           \/ tableProcs[v] = {}
           \/ failedAssert' # None
        /\ UNCHANGED <<threadVars, countVars, tableVars>>
     \/ /\ CurrentEntrypointsSafeToUse(stubOwner', v)
        /\ failedAssert' = None
        /\ tableProcs' = [tableProcs EXCEPT ![v] = FixupDispatchTable(@, stubs)]
        /\ DispatchCurrentRef(v)
        /\ numCurrentContexts' = numCurrentContexts + 1
        /\ priv' = [priv EXCEPT ![t] = v]
        /\ step' = [step EXCEPT ![t] = "made"]
        /\ UNCHANGED <<tls, glapi, stubs>>
  /\ UNCHANGED <<clientVars, forkVars>>

\* ... and after it: SetCurrentThreadState and _glapi_set_current.
PublishCurrent(t) ==
  /\ step[t] = "made"
  /\ tls' = [tls EXCEPT ![t] = priv[t]]
  /\ glapi' = [glapi EXCEPT ![t] = priv[t]]
  /\ step' = [step EXCEPT ![t] = "idle"]
  /\ UNCHANGED <<clientVars, priv, countVars, tableVars, patchVars, forkVars,
                 failedAssert>>

\* The locked part of LoseCurrentInternal.  The patch stays installed.
LoseCurrentLocked(t) ==
  /\ step[t] = "idle"
  /\ tls[t] # None
  /\ numCurrentContexts' = numCurrentContexts - 1
  /\ DispatchCurrentUnref(priv[t])
  /\ priv' = [priv EXCEPT ![t] = None]

\* __glDispatchLoseCurrent; eglReleaseThread calls it without a CheckFork.
LoseCurrent(t) ==
  /\ LoseCurrentLocked(t)
  /\ step' = [step EXCEPT ![t] = "lost"]
  /\ UNCHANGED <<clientVars, tls, glapi, tableVars, patchVars, forkVars>>

ClearCurrent(t) ==
  /\ step[t] = "lost"
  /\ tls' = [tls EXCEPT ![t] = None]
  /\ glapi' = [glapi EXCEPT ![t] = None]
  /\ step' = [step EXCEPT ![t] = "idle"]
  /\ UNCHANGED <<clientVars, priv, countVars, tableVars, patchVars, forkVars,
                 failedAssert>>

\* Variant: the key has no destructor.
ThreadDestroyed_NoDestructor(t) ==
  /\ step[t] = "idle" /\ tls[t] # None
  /\ tls' = [tls EXCEPT ![t] = None]
  /\ glapi' = [glapi EXCEPT ![t] = None]
  /\ priv' = [priv EXCEPT ![t] = None]
  /\ UNCHANGED <<clientVars, step, countVars, tableVars, patchVars, forkVars,
                 failedAssert>>
\* Variant: the destructor does not check that there is a thread state.
ThreadDestroyed_NoNullCheck(t) ==
  /\ step[t] = "idle" /\ tls[t] = None
  /\ numCurrentContexts' = numCurrentContexts - 1
  /\ UNCHANGED <<clientVars, threadVars, currentThreads, currentDispatchList,
                 tableVars, patchVars, forkVars, failedAssert>>

\* The thread exits with a current context: the key's destructor runs.  Its
\* place in Thread is then free for a new thread.
ThreadDestroyed(t) ==
  /\ LoseCurrentLocked(t)
  /\ tls' = [tls EXCEPT ![t] = None]
  /\ glapi' = [glapi EXCEPT ![t] = None]
  /\ UNCHANGED <<clientVars, step, tableVars, patchVars, forkVars>>

\* __glDispatchGetProcAddress of a name without a stub adds a stub, up to the
\* limit, and gives every current table an entry for it.
GetProcAddress(t, name) ==
  /\ \E w \in Winsys : CanCall(t, w)
  /\ name \notin stubs
  /\ Cardinality(stubs \ StaticProc) < MaxDynamic
  /\ stubs' = stubs \cup {name}
  /\ tableProcs' = [v \in Vendor |-> IF v \in currentDispatchList
                                     THEN FixupDispatchTable(tableProcs[v], stubs')
                                     ELSE tableProcs[v]]
  /\ failedAssert' = IF \E v \in currentDispatchList : tableProcs[v] = {}
                     THEN "GLdispatch.c:304" ELSE failedAssert
  /\ UNCHANGED <<clientVars, threadVars, countVars, patchVars, forkVars>>

\* A fork, seen from the child: only the calling thread is left.
Fork(t) ==
  /\ forks < MaxForks
  /\ step[t] = "idle"
  /\ forks' = forks + 1
  /\ forkPending' = {w \in Winsys : client[w] = "loaded"}
  /\ step' = [u \in Thread |-> "idle"]
  /\ tls' = [u \in Thread |-> IF u = t THEN tls[u] ELSE None]
  /\ priv' = [u \in Thread |-> IF u = t THEN priv[u] ELSE None]
  /\ glapi' = [u \in Thread |-> IF u = t THEN glapi[u] ELSE None]
  /\ UNCHANGED <<clientVars, countVars, tableVars, patchVars, failedAssert>>

\* Variant: the tables leave the list with their counts as they are.
ResetDispatchList_KeepsCounts == currentDispatchList' = {} /\ UNCHANGED currentThreads

ResetDispatchList ==
  /\ currentThreads' = [v \in Vendor |-> IF v \in currentDispatchList
                                         THEN 0 ELSE currentThreads[v]]
  /\ currentDispatchList' = {}

\* The first entrypoint of w that thread t enters after a fork calls
\* __glDispatchReset.  The thread state it drops is never used again.
Reset(t, w) ==
  /\ step[t] = "idle"
  /\ w \in forkPending
  /\ ResetWhileCurrent \/ \A u \in Thread \ {t} : tls[u] = None /\ priv[u] = None
  /\ forkPending' = forkPending \ {w}
  /\ ResetDispatchList
  /\ tls' = [tls EXCEPT ![t] = None]
  /\ priv' = [priv EXCEPT ![t] = None]
  /\ glapi' = [glapi EXCEPT ![t] = None]
  /\ UNCHANGED <<clientVars, step, numCurrentContexts, tableVars, patchVars,
                 forks, failedAssert>>

LibraryStep ==
  \/ \E c \in Client : DispatchInit(c) \/ DispatchFini(c)
  \/ \E s \in StubLib : \/ RegisterStubCallbacks(s)
                        \/ StubCleanup(s)
                        \/ UnregisterStubCallbacks(s)
  \/ \E v \in Vendor : CreateTable(v) \/ ForceUnpatch(v) \/ DestroyTable(v)

ThreadStep(t) ==
  \/ \E v \in Vendor : MakeCurrent(t, v)
  \/ PublishCurrent(t) \/ LoseCurrent(t) \/ ClearCurrent(t) \/ ThreadDestroyed(t)
  \/ \E name \in ProcName : GetProcAddress(t, name)
  \/ Fork(t)
  \/ \E w \in Winsys : Reset(t, w)

\* A failed assertion aborts the process.
Next ==
  /\ failedAssert = None
  /\ LibraryStep \/ \E t \in Thread : ThreadStep(t)

Spec == Init /\ [][Next]_vars

-----------------------------------------------------------------------------
(* Correctness properties.                                                 *)

\* The type invariant.
TypeOK ==
  /\ client \in [Client -> {"out", "loaded", "init", "registered", "cleaned",
                            "unregistered"}]
  /\ vendor \in [Vendor -> {"unloaded", "loaded", "closing"}]
  /\ step \in [Thread -> {"idle", "made", "lost"}]
  /\ tls \in [Thread -> Vendor \cup {None}]
  /\ priv \in [Thread -> Vendor \cup {None}]
  /\ glapi \in [Thread -> Vendor \cup {None}]
  /\ numCurrentContexts \in Int
  /\ currentThreads \in [Vendor -> Int]
  /\ currentDispatchList \subseteq Vendor
  /\ stubs \subseteq ProcName
  /\ tableProcs \in [Vendor -> SUBSET ProcName]
  /\ stubOwner \in Vendor \cup {None}
  /\ isPatched \subseteq StubSet
  /\ code \in [StubSet -> Vendor \cup {Default}]
  /\ saved \in [StubSet -> Vendor \cup {Default, None}]
  /\ forkPending \subseteq Winsys
  /\ forks \in 0..MaxForks
  /\ failedAssert \in Assertions \cup {None}

HasContext(t) == priv[t] # None
Contexts == {t \in Thread : HasContext(t)}
ThreadsOf(v) == {t \in Thread : priv[t] = v}

\* While a thread can call OpenGL functions with vendor v current, its table
\* pointer is v's table and no entrypoint it can call holds the code of
\* another vendor: the patch of v or libglvnd's own stub, never a third.
OwnCodeOnly ==
  \A t \in Thread : step[t] = "idle" /\ tls[t] # None =>
    /\ glapi[t] = tls[t]
    /\ \A s \in Registered : code[s] \in {Default, tls[t]}

\* A patch of one vendor excludes the contexts of every other vendor, also
\* those that a thread is about to publish.
OwnerExcludesOthers ==
  stubOwner # None => \A t \in Thread : priv[t] \in {None, stubOwner}

\* The code of an entrypoint that some library still exports changes only
\* when no thread has a context: nobody can be running in it.
CodeChangesOnlyUnused ==
  [][\A s \in Registered :
       code'[s] # code[s] => \A t \in Thread : ~HasContext(t)]_vars

\* Each registered stub set is either untouched, or holds the owner's code
\* with libglvnd's code saved, so that it can be put back.
PatchStateConsistent ==
  \A s \in Registered \ Cleaned :
    IF s \in isPatched THEN /\ stubOwner # None
                            /\ code[s] = stubOwner /\ saved[s] = Default
                       ELSE code[s] = Default /\ saved[s] = None

\* No entrypoint holds the code of a vendor library that is on its way out.
PatchOfLoadedVendor ==
  \A s \in Registered : code[s] # Default => vendor[code[s]] = "loaded"

\* "The number of current contexts that GLdispatch is aware of" never falls
\* below the number there are, so PatchingIsSafe never errs on the unsafe
\* side, and its assertion (GLdispatch.c:378) holds.
CountCoversContexts ==
  numCurrentContexts >= Cardinality(Contexts)

\* A thread can be refused a vendor switch only while some thread really has
\* a context: when nobody has one, numCurrentContexts is back to zero.
RefusalJustified ==
  numCurrentContexts # 0 => \E t \in Thread : HasContext(t)

\* A table's use count is the number of threads that have it, and the list
\* GetProcAddress walks holds exactly the tables in use, no table of a vendor
\* that is going away.  From a fork until the library that owns the table has
\* been reset, the count may be too high, never too low.
TableUsesCounted ==
  \A v \in Vendor :
    /\ v \in currentDispatchList <=> vendor[v] = "loaded" /\ currentThreads[v] > 0
    /\ vendor[v] = "loaded" =>
         /\ currentThreads[v] >= Cardinality(ThreadsOf(v))
         /\ Api[v] \notin forkPending => currentThreads[v] = Cardinality(ThreadsOf(v))

\* A thread never calls through an unset slot: the table it calls through has
\* an entry for every stub there is, whenever the stub was added.
CurrentTableComplete ==
  \A t \in Thread : step[t] = "idle" /\ glapi[t] # None =>
    stubs \subseteq tableProcs[glapi[t]]

\* No assertion of GLdispatch.c or stub.c fails.
NoAssertFails == failedAssert = None

\* libGLdispatch implements EntrypointOwnership: a thread has a context from
\* the moment it is counted until the moment it is no longer counted.
Ownership == INSTANCE EntrypointOwnership WITH current <- priv, owner <- stubOwner
ImplementsOwnership == Ownership!Spec

-----------------------------------------------------------------------------
(* The inductive invariants of the proofs in GLdispatch_proof.             *)

\* What a thread's own state is at each point of its last operation.
ThreadInv ==
  \A t \in Thread :
    /\ step[t] = "idle" => tls[t] = priv[t] /\ glapi[t] = priv[t]
    /\ step[t] = "made" => tls[t] = None /\ glapi[t] = None /\ HasContext(t)
    /\ step[t] = "lost" => ~HasContext(t)

\* A patch belongs to a loaded vendor, and a vendor to a loaded library.
LoadInv ==
  /\ \A w \in Winsys : client[w] \in {"out", "loaded"}
  /\ \A s \in StubLib : client[s] # "loaded"
  /\ \A v \in Vendor : vendor[v] # "unloaded" => client[Api[v]] = "loaded"
  /\ \A t \in Thread : HasContext(t) => vendor[priv[t]] = "loaded"
  /\ stubOwner # None => vendor[stubOwner] = "loaded"

OwnershipInv ==
  TypeOK /\ ThreadInv /\ LoadInv /\ CountCoversContexts /\ OwnerExcludesOthers

\* The code of each stub set against the copy that was saved of it.
PatchInv ==
  /\ \A s \in Registered :
       IF s \in isPatched
       THEN /\ stubOwner # None /\ code[s] = stubOwner
            /\ saved[s] = Default \/ (s \in Cleaned /\ saved[s] = None)
       ELSE code[s] = Default /\ saved[s] = None
  /\ \A s \in StubSet \ Registered :
       \/ s \in StubLib /\ client[s] = "unregistered"
       \/ code[s] = Default /\ saved[s] = None /\ s \notin isPatched

CodeInv == OwnershipInv /\ PatchInv

\* The tables in use are those that GetProcAddress keeps complete, and there is
\* no stub they lack an entry for (GLdispatch.c:254).
ListedTablesComplete ==
  /\ StaticProc \subseteq stubs
  /\ \A v \in currentDispatchList : stubs \subseteq tableProcs[v]

TableInv == TableUsesCounted /\ ListedTablesComplete

=============================================================================

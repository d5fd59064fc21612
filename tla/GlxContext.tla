------------------------------ MODULE GlxContext ------------------------------
(***************************************************************************)
(* GLX contexts in libGLX (src/GLX/libglx.c): the hash of context infos    *)
(* with their use counts, glXMakeCurrent in all its cases, contexts that   *)
(* are created and destroyed meanwhile, threads that exit, displays that   *)
(* are closed, and forks.                                                  *)
(*                                                                         *)
(* glXMakeCurrent holds glxContextHashLock from the lookup of the context  *)
(* to the end, and calls into libGLdispatch and up to three times into a   *)
(* vendor library on the way.  Each such call is a step here, with what    *)
(* libGLX does after it.  libGLdispatch is the abstract one of             *)
(* EntrypointOwnership; the vendor libraries are external.                 *)
(***************************************************************************)
EXTENDS Integers, FiniteSets

CONSTANTS
  Thread,
  Vendor,
  Handle,           \* the values that vendors return as a GLXContext
  Display,
  MaxForks,         \* bound on the number of forks
  Gone,             \* the holder of a lock that was another thread's in the parent
  None

\* __GLXcontextInfo, and what the vendor of a context keeps of it.
Info == [vendor: Vendor, currentCount: Nat, deleted: BOOLEAN]
VendorContext == [vendor: Vendor, dpy: Display, doomed: BOOLEAN]

\* __GLXThreadState, and the arguments and locals of a GLX function.
ThreadState == [context: Handle \cup {None}, vendor: Vendor, dpy: Display \cup {None}]
Request == [new: Handle \cup {None}, dpy: Display \cup {None},
            restore: ThreadState \cup {None}]

ASSUME ConstantsAssumption ==
  /\ IsFiniteSet(Thread)
  /\ MaxForks \in Nat
  /\ Gone \notin Thread /\ Gone # None
  /\ None \notin Thread \cup Vendor \cup Handle \cup Display
  /\ None \notin Info \cup ThreadState \cup VendorContext

VARIABLES
  hash,        \* glxContextHash: for each handle its info, or None
  lock,        \* the holder of glxContextHashLock, None, or Gone
  glx,         \* the __GLXThreadState of each thread, or None
  pc,          \* where each thread is: see TypeOK
  call,        \* what a thread in a GLX function is to do next
  current,     \* the vendor of each thread's libGLdispatch state, or None
  owner,       \* the vendor that owns the entrypoints, or None
  vendorCtx,   \* the contexts that exist in the vendor libraries
  vendorCur,   \* the context that a vendor has current in a thread, or None
  forkPending, \* CheckFork has yet to see a fork
  forks,
  leaked,      \* history: the contexts that a thread was creating or destroying
               \* when a fork left it behind, so that no thread has them now
  reused       \* history: the contexts that have the handle, and the info, of a
               \* destroyed one that libGLX had not freed yet

hashVars     == <<hash, lock>>
threadVars   == <<glx, pc, call>>
dispatchVars == <<current, owner>>
vendorVars   == <<vendorCtx, vendorCur>>
historyVars  == <<forkPending, forks, leaked, reused>>
vars == <<hashVars, threadVars, dispatchVars, vendorVars, historyVars>>

Dispatch == INSTANCE EntrypointOwnership

NoCall == [new |-> None, dpy |-> None, restore |-> None]

Init ==
  /\ hash = [c \in Handle |-> None]
  /\ lock = None
  /\ glx = [t \in Thread |-> None]
  /\ pc = [t \in Thread |-> "idle"]
  /\ call = [t \in Thread |-> NoCall]
  /\ Dispatch!Init
  /\ vendorCtx = [c \in Handle |-> None]
  /\ vendorCur = [tv \in Thread \X Vendor |-> None]
  /\ forkPending = FALSE
  /\ forks = 0
  /\ leaked = {} /\ reused = {}

-----------------------------------------------------------------------------
(* The hash of context infos.                                              *)

\* Variant: the last use of any context frees its info.
FreeIfUnused_NotDeleted(info) == IF info.currentCount = 0 THEN None ELSE info

\* CheckContextDeleted
FreeIfUnused(info) == IF info.deleted /\ info.currentCount = 0 THEN None ELSE info

AddUse(h, c) == [h EXCEPT ![c].currentCount = @ + 1]
DropUse(h, c) == [h EXCEPT ![c] = FreeIfUnused([h[c] EXCEPT !.currentCount = @ - 1])]

UpdateCurrentContext(h, new, old) == IF new = old THEN h ELSE DropUse(AddUse(h, new), old)

\* Variant: it is not checked whether releasing the old context frees it.
CanRestoreOldContext_Always(c) == TRUE

CanRestoreOldContext(c) == ~(hash[c].deleted /\ hash[c].currentCount = 1)

-----------------------------------------------------------------------------
(* The vendor libraries.                                                   *)

\* A context that was destroyed while it was current lives until it is not.
Surviving(contexts, cur) ==
  [c \in Handle |->
     IF contexts[c] # None /\ contexts[c].doomed /\ \A tv \in Thread \X Vendor : cur[tv] # c
     THEN None ELSE contexts[c]]

VendorSet(t, v, c) ==
  /\ vendorCur' = [vendorCur EXCEPT ![<<t, v>>] = c]
  /\ vendorCtx' = Surviving(vendorCtx, vendorCur')

\* The vendor's makeCurrent of c on d succeeds; it need not.
VendorMakesCurrent(t, v, d, c) ==
  /\ vendorCtx[c] # None
  /\ vendorCtx[c].vendor = v /\ vendorCtx[c].dpy = d
  /\ VendorSet(t, v, c)

VendorLosesCurrent(t, vs) ==
  /\ vendorCur' = [tv \in Thread \X Vendor |->
                     IF tv[1] = t /\ tv[2] \in vs THEN None ELSE vendorCur[tv]]
  /\ vendorCtx' = Surviving(vendorCtx, vendorCur')

\* A vendor's own cleanup when a display is closed: it releases what it has
\* current in this thread, and destroys the contexts on the display.
VendorClosesDisplay(t, d) ==
  LET closed == [c \in Handle |->
                   IF vendorCtx[c] # None /\ vendorCtx[c].dpy = d
                   THEN [vendorCtx[c] EXCEPT !.doomed = TRUE] ELSE vendorCtx[c]]
  IN
  /\ vendorCur' = [tv \in Thread \X Vendor |->
                     IF tv[1] = t /\ glx[t] # None /\ glx[t].dpy = d
                     THEN None ELSE vendorCur[tv]]
  /\ vendorCtx' = Surviving(closed, vendorCur')

-----------------------------------------------------------------------------
(* glXMakeCurrent and glXMakeContextCurrent.                               *)

CanCall(t) == pc[t] = "idle" /\ ~forkPending

\* The display is not inTeardown.
Open(d) == \A t \in Thread : pc[t] = "close" => call[t].dpy # d

\* The end of CommonMakeCurrent.
EndCall(t) ==
  /\ lock' = None
  /\ pc' = [pc EXCEPT ![t] = "idle"]
  /\ call' = [call EXCEPT ![t] = NoCall]

\* The start of InternalMakeCurrentDispatch: the new context is counted and
\* the thread state created, with no context in it yet.
StartAcquire(t, h, request) ==
  /\ hash' = AddUse(h, request.new)
  /\ glx' = [glx EXCEPT ![t] = [context |-> None, vendor |-> h[request.new].vendor,
                                dpy |-> None]]
  /\ pc' = [pc EXCEPT ![t] = "dispatch"]
  /\ call' = [call EXCEPT ![t] = request]

\* CommonMakeCurrent up to its first call into a library.  With an unknown
\* context, a display that is being closed, or nothing to change, it returns and
\* nothing has happened.
MakeCurrent(t, d, c) ==
  /\ CanCall(t)
  /\ lock = None
  /\ hash[c] # None
  /\ Open(d)
  /\ lock' = t
  /\ \/ /\ glx[t] = None
        /\ StartAcquire(t, hash, [new |-> c, dpy |-> d, restore |-> None])
     \/ /\ glx[t] # None
        /\ LET sameVendor == glx[t].vendor = hash[c].vendor
               canRestore == ~sameVendor /\ CanRestoreOldContext(glx[t].context)
           IN
           /\ pc' = [pc EXCEPT ![t] = IF sameVendor THEN "switch" ELSE "release"]
           /\ call' = [call EXCEPT ![t] =
                         [new |-> c, dpy |-> d,
                          restore |-> IF canRestore THEN glx[t] ELSE None]]
        /\ UNCHANGED <<hash, glx>>
  /\ UNCHANGED <<dispatchVars, vendorVars, historyVars>>

\* The same with a NULL context, while a context is current.
MakeNoneCurrent(t) ==
  /\ CanCall(t)
  /\ lock = None
  /\ glx[t] # None
  /\ lock' = t
  /\ pc' = [pc EXCEPT ![t] = "release"]
  /\ UNCHANGED <<hash, glx, call, dispatchVars, vendorVars, historyVars>>

\* InternalMakeCurrentVendor, for a context of the same vendor.
SwitchContext(t) ==
  /\ pc[t] = "switch"
  /\ \/ /\ VendorMakesCurrent(t, glx[t].vendor, call[t].dpy, call[t].new)
        /\ glx' = [glx EXCEPT ![t].context = call[t].new, ![t].dpy = call[t].dpy]
        /\ hash' = UpdateCurrentContext(hash, call[t].new, glx[t].context)
     \/ UNCHANGED <<hash, glx, vendorVars>>
  /\ EndCall(t)
  /\ UNCHANGED <<dispatchVars, historyVars>>

\* InternalLoseCurrent; the new context, if there is one, comes next.
LoseCurrent(t) ==
  /\ pc[t] = "release"
  /\ \/ /\ VendorLosesCurrent(t, {glx[t].vendor})
        /\ Dispatch!Release({t})
        /\ LET left == DropUse(hash, glx[t].context)
           IN  IF call[t].new = None
               THEN /\ hash' = left
                    /\ glx' = [glx EXCEPT ![t] = None]
                    /\ EndCall(t)
               ELSE StartAcquire(t, left, call[t]) /\ UNCHANGED lock
     \/ /\ EndCall(t)
        /\ UNCHANGED <<hash, glx, dispatchVars, vendorVars>>
  /\ UNCHANGED historyVars

\* The end of a failed InternalMakeCurrentDispatch.  After a switch of vendors
\* the old context is tried next.
AcquireFailed(t) ==
  LET left == DropUse(hash, call[t].new)
      old  == call[t].restore
  IN
  IF old = None
  THEN /\ hash' = left
       /\ glx' = [glx EXCEPT ![t] = None]
       /\ EndCall(t)
  ELSE /\ StartAcquire(t, left, [new |-> old.context, dpy |-> old.dpy, restore |-> None])
       /\ UNCHANGED lock

\* __glDispatchMakeCurrent, which may fail.
DispatchMakeCurrent(t) ==
  /\ pc[t] = "dispatch"
  /\ \/ /\ Dispatch!Acquire(t, glx[t].vendor)
        /\ pc' = [pc EXCEPT ![t] = "vendor"]
        /\ UNCHANGED <<hashVars, glx, call>>
     \/ /\ Dispatch!ChangeOwner \/ UNCHANGED dispatchVars
        /\ AcquireFailed(t)
  /\ UNCHANGED <<vendorVars, historyVars>>

\* Variant: the libGLdispatch state is kept when the vendor refuses.
VendorMakeCurrent_KeepsDispatch(t) ==
  /\ pc[t] = "vendor"
  /\ \/ /\ VendorMakesCurrent(t, glx[t].vendor, call[t].dpy, call[t].new)
        /\ glx' = [glx EXCEPT ![t].context = call[t].new, ![t].dpy = call[t].dpy]
        /\ EndCall(t)
        /\ UNCHANGED <<hash, dispatchVars>>
     \/ AcquireFailed(t) /\ UNCHANGED <<vendorVars, dispatchVars>>
  /\ UNCHANGED historyVars

\* The call into the vendor library that follows.
VendorMakeCurrent(t) ==
  /\ pc[t] = "vendor"
  /\ \/ /\ VendorMakesCurrent(t, glx[t].vendor, call[t].dpy, call[t].new)
        /\ glx' = [glx EXCEPT ![t].context = call[t].new, ![t].dpy = call[t].dpy]
        /\ EndCall(t)
        /\ UNCHANGED <<hash, dispatchVars>>
     \/ /\ Dispatch!Release({t})
        /\ AcquireFailed(t)
        /\ UNCHANGED vendorVars
  /\ UNCHANGED historyVars

-----------------------------------------------------------------------------
(* Creating and destroying contexts.                                       *)

\* The vendor returns a handle that names no context of any vendor; libGLX may
\* still have the info of one that is destroyed ...
CreateContext(t, v, d, c) ==
  /\ CanCall(t) /\ Open(d)
  /\ vendorCtx[c] = None
  /\ vendorCtx' = [vendorCtx EXCEPT ![c] = [vendor |-> v, dpy |-> d, doomed |-> FALSE]]
  /\ pc' = [pc EXCEPT ![t] = "add"]
  /\ call' = [call EXCEPT ![t].new = c, ![t].dpy = d]
  /\ leaked' = leaked \ {c}
  /\ UNCHANGED <<hashVars, glx, dispatchVars, vendorCur, forkPending, forks, reused>>

\* ... and __glXAddVendorContextMapping records it.  An info of the same vendor is
\* kept as it is, deleted or not.  If the handle is known as that of another
\* vendor, or there is no memory, the new context is destroyed again.
AddVendorContextMapping(t) ==
  LET c == call[t].new IN
  /\ pc[t] = "add"
  /\ lock = None
  /\ \/ /\ hash[c] = None
        /\ hash' = [hash EXCEPT ![c] = [vendor |-> vendorCtx[c].vendor,
                                        currentCount |-> 0, deleted |-> FALSE]]
        /\ UNCHANGED vendorCtx
     \/ /\ hash[c] # None /\ hash[c].vendor = vendorCtx[c].vendor
        /\ UNCHANGED <<hash, vendorCtx>>
     \/ /\ hash[c] # None => hash[c].vendor # vendorCtx[c].vendor
        /\ vendorCtx' = [vendorCtx EXCEPT ![c] = None]
        /\ UNCHANGED hash
  /\ reused' = IF hash[c] # None /\ hash[c].deleted THEN reused \cup {c} ELSE reused \ {c}
  /\ EndCall(t)
  /\ UNCHANGED <<glx, dispatchVars, vendorCur, forkPending, forks, leaked>>

\* The contexts an application has been given and has not destroyed.
Created(c) ==
  /\ vendorCtx[c] # None /\ ~vendorCtx[c].doomed /\ c \notin leaked
  /\ \A t \in Thread : pc[t] \in {"add", "destroy"} => call[t].new # c

\* glXDestroyContext marks the info, and frees it if the context is not
\* current, before it calls the vendor.
DestroyContext(t, c) ==
  /\ CanCall(t)
  /\ lock = None
  /\ Created(c) /\ Open(vendorCtx[c].dpy) /\ hash[c] # None
  /\ hash' = [hash EXCEPT ![c] = FreeIfUnused([@ EXCEPT !.deleted = TRUE])]
  /\ pc' = [pc EXCEPT ![t] = "destroy"]
  /\ call' = [call EXCEPT ![t].new = c, ![t].dpy = vendorCtx[c].dpy]
  /\ UNCHANGED <<lock, glx, dispatchVars, vendorVars, historyVars>>

VendorDestroyContext(t) ==
  /\ pc[t] = "destroy"
  /\ vendorCtx' = Surviving([vendorCtx EXCEPT ![call[t].new].doomed = TRUE], vendorCur)
  /\ pc' = [pc EXCEPT ![t] = "idle"]
  /\ call' = [call EXCEPT ![t] = NoCall]
  /\ UNCHANGED <<hashVars, glx, dispatchVars, vendorCur, historyVars>>

-----------------------------------------------------------------------------
(* Threads that exit, displays that are closed, and forks.                 *)

\* A thread exits with a current context: libGLdispatch's ThreadDestroyed.
ExitDispatch(t) ==
  /\ pc[t] \in {"idle", "exiting"}
  /\ glx[t] # None
  /\ Dispatch!Release({t})
  /\ pc' = [pc EXCEPT ![t] = "callback"]
  /\ UNCHANGED <<hashVars, glx, call, vendorVars, historyVars>>

\* libGLX's ThreadDestroyed, which libGLdispatch calls next.
ExitCallback(t) ==
  /\ pc[t] = "callback"
  /\ lock = None
  /\ hash' = DropUse(hash, glx[t].context)
  /\ glx' = [glx EXCEPT ![t] = None]
  /\ pc' = [pc EXCEPT ![t] = "exited"]
  /\ UNCHANGED <<lock, call, dispatchVars, vendorVars, historyVars>>

\* The vendor's cleanup for the thread, in the order that POSIX does not fix.
VendorThreadExit(t) ==
  /\ \/ pc[t] = "exited" /\ pc' = [pc EXCEPT ![t] = "idle"]
     \/ /\ pc[t] = "idle" /\ glx[t] # None
        /\ pc' = [pc EXCEPT ![t] = "exiting"]
  /\ VendorLosesCurrent(t, Vendor)
  /\ UNCHANGED <<hashVars, glx, call, dispatchVars, historyVars>>

\* XCloseDisplay calls __glXDisplayClosed, which first has libGLdispatch lose
\* the context of the calling thread; the vendors' hooks come before or after.
\* The application makes sure that no other thread is using the display.
DisplayClosed(t, d) ==
  LET mine == glx[t] # None /\ glx[t].dpy = d IN
  /\ pc[t] = "idle"
  /\ \A u \in Thread \ {t} : /\ glx[u] # None /\ glx[u].dpy = d => pc[u] = "idle"
                             /\ call[u].dpy # d
  /\ Dispatch!Release(IF mine THEN {t} ELSE {})
  /\ VendorClosesDisplay(t, d) \/ UNCHANGED vendorVars
  /\ pc' = [pc EXCEPT ![t] = "close"]
  /\ call' = [call EXCEPT ![t].dpy = d]
  /\ UNCHANGED <<hashVars, glx, historyVars>>

\* The rest: the context is no longer counted, and the other threads' states
\* forget the display.
ForgetDisplay(t) ==
  LET d == call[t].dpy
      mine == glx[t] # None /\ glx[t].dpy = d
  IN
  /\ pc[t] = "close"
  /\ mine => lock = None
  /\ hash' = IF mine THEN DropUse(hash, glx[t].context) ELSE hash
  /\ glx' = [u \in Thread |->
               IF glx[u] = None \/ glx[u].dpy # d THEN glx[u]
               ELSE IF u = t THEN None ELSE [glx[u] EXCEPT !.dpy = None]]
  /\ pc' = [pc EXCEPT ![t] = "idle"]
  /\ call' = [call EXCEPT ![t] = NoCall]
  /\ VendorClosesDisplay(t, d)
  /\ UNCHANGED <<lock, dispatchVars, historyVars>>

\* A fork, seen from the child: the calling thread is left, with its own state
\* and all of the hash, wherever the other threads were.  A lock that one of them
\* held stays locked.
Fork(t) ==
  /\ forks < MaxForks
  /\ pc[t] = "idle"
  /\ forks' = forks + 1
  /\ forkPending' = TRUE
  /\ glx' = [u \in Thread |-> IF u = t THEN glx[u] ELSE None]
  /\ pc' = [u \in Thread |-> "idle"]
  /\ call' = [u \in Thread |-> NoCall]
  /\ Dispatch!Release(Thread \ {t})
  /\ vendorCur' = [tv \in Thread \X Vendor |-> IF tv[1] = t THEN vendorCur[tv] ELSE None]
  /\ lock' = IF lock = None THEN None ELSE Gone
  /\ leaked' = leaked \cup {call[u].new : u \in {w \in Thread : pc[w] \in {"add", "destroy"}}}
  /\ UNCHANGED <<hash, vendorCtx, reused>>

\* Variant: the counts are those of the parent.
ResetCounts_Kept(info) == info

ResetCounts(info) == IF info = None THEN None ELSE FreeIfUnused([info EXCEPT !.currentCount = 0])

\* __glXResetOnFork, in the first GLX function the child calls.  The thread
\* that forked calls it; its vendor has noticed the fork, too.  It takes no lock
\* for the hash, and does not make glxContextHashLock anew.
ResetOnFork(t) ==
  /\ pc[t] = "idle"
  /\ forkPending
  /\ \A u \in Thread \ {t} : glx[u] = None
  /\ forkPending' = FALSE
  /\ hash' = [c \in Handle |-> ResetCounts(hash[c])]
  /\ glx' = [glx EXCEPT ![t] = None]
  /\ Dispatch!Release({t})
  /\ VendorLosesCurrent(t, Vendor)
  /\ UNCHANGED <<lock, pc, call, forks, leaked, reused>>

-----------------------------------------------------------------------------

MakeCurrentStep(t) ==
  \/ \E d \in Display, c \in Handle : MakeCurrent(t, d, c)
  \/ MakeNoneCurrent(t)
  \/ SwitchContext(t) \/ LoseCurrent(t) \/ DispatchMakeCurrent(t) \/ VendorMakeCurrent(t)

ContextStep(t) ==
  \/ \E v \in Vendor, d \in Display, c \in Handle : CreateContext(t, v, d, c)
  \/ AddVendorContextMapping(t)
  \/ \E c \in Handle : DestroyContext(t, c)
  \/ VendorDestroyContext(t)

LifeStep(t) ==
  \/ ExitDispatch(t) \/ ExitCallback(t) \/ VendorThreadExit(t)
  \/ \E d \in Display : DisplayClosed(t, d)
  \/ ForgetDisplay(t)
  \/ Fork(t) \/ ResetOnFork(t)

Next == \E t \in Thread : MakeCurrentStep(t) \/ ContextStep(t) \/ LifeStep(t)

Spec == Init /\ [][Next]_vars

-----------------------------------------------------------------------------
(* Correctness properties.                                                 *)

\* The type invariant.
TypeOK ==
  /\ hash \in [Handle -> Info \cup {None}]
  /\ lock \in Thread \cup {None, Gone}
  /\ glx \in [Thread -> ThreadState \cup {None}]
  /\ pc \in [Thread -> {"idle", "switch", "release", "dispatch", "vendor", "add",
                        "destroy", "close", "exiting", "callback", "exited"}]
  /\ call \in [Thread -> Request]
  /\ current \in [Thread -> Vendor \cup {None}]
  /\ owner \in Vendor \cup {None}
  /\ vendorCtx \in [Handle -> VendorContext \cup {None}]
  /\ vendorCur \in [Thread \X Vendor -> Handle \cup {None}]
  /\ forkPending \in BOOLEAN
  /\ forks \in 0..MaxForks
  /\ leaked \subseteq Handle /\ reused \subseteq Handle

\* The context a thread's state counts for.
InUse(t) ==
  IF glx[t] = None THEN None
  ELSE IF pc[t] \in {"dispatch", "vendor"} THEN call[t].new ELSE glx[t].context

\* The threads that a context is in use by.
Uses(c) == {t \in Thread : InUse(t) = c}

\* A context's count is the number of threads that have it current, or are
\* about to, at every point of glXMakeCurrent; only a fork loses track, until
\* the child has been reset, and leaves the count too high, never too low.
CountIsUse ==
  \A c \in Handle : hash[c] # None =>
    /\ hash[c].currentCount >= Cardinality(Uses(c))
    /\ ~forkPending => hash[c].currentCount = Cardinality(Uses(c))

\* No thread is left with a pointer to a freed context info: not in its thread
\* state, and not as the old context that a failed switch goes back to.
NoFreedInfo ==
  \A t \in Thread :
    /\ InUse(t) # None => hash[InUse(t)] # None
    /\ call[t].restore # None => hash[call[t].restore.context] # None

\* libGLX, libGLdispatch and the vendor libraries agree on what is current in
\* a thread that is in no GLX function, whatever failed in the last one.
Agreement ==
  \A t \in Thread : pc[t] = "idle" /\ ~forkPending =>
    /\ current[t] = IF glx[t] = None THEN None ELSE glx[t].vendor
    /\ \A v \in Vendor :
         vendorCur[<<t, v>>] = IF glx[t] # None /\ glx[t].vendor = v THEN glx[t].context
                                                                 ELSE None

\* "A __GLXcontextInfo struct will stay valid for as long as a context is":
\* libGLX knows every context the application has, as not deleted, and by its
\* vendor; but for a context whose handle the vendor took from a destroyed one
\* before the last use of that was over (libglx.c:721).
ContextKnown ==
  \A c \in Handle \ reused : Created(c) =>
    /\ hash[c] # None
    /\ hash[c].vendor = vendorCtx[c].vendor
    /\ ~hash[c].deleted

-----------------------------------------------------------------------------
(* The inductive invariant of the proofs in GlxContext_proof.              *)

\* glxContextHashLock is held by a thread exactly as long as that is in
\* CommonMakeCurrent: every way out of it unlocks, whatever failed.  Only a fork
\* leaves it locked for nobody, and then for ever: no reset makes it anew
\* (libglx.c:1984).
LockInv ==
  /\ \A t \in Thread : pc[t] \in {"switch", "release", "dispatch", "vendor"} <=> lock = t
  /\ lock = Gone => forks > 0
  /\ forkPending => /\ lock \in {None, Gone}
                    /\ \A t \in Thread : pc[t] \notin {"add", "destroy"}

\* What a thread in a GLX function is about to do can be done: the contexts it
\* goes from, to and back to are known, and are those of the vendors it has seen.
CallOK(t) ==
  /\ pc[t] \in {"idle", "exiting", "callback", "exited"} => call[t] = NoCall
  /\ pc[t] \in {"add", "destroy", "switch", "dispatch", "vendor"} => call[t].new # None
  /\ pc[t] = "close" => call[t].new = None /\ call[t].dpy # None
  /\ pc[t] = "release" /\ call[t].new # None =>
       hash[call[t].new] # None /\ hash[call[t].new].vendor # glx[t].vendor
  /\ pc[t] = "switch" =>
       hash[call[t].new] # None /\ hash[call[t].new].vendor = glx[t].vendor
  /\ call[t].restore # None =>
       /\ pc[t] \in {"release", "dispatch", "vendor"}
       /\ call[t].restore.context \notin {None, call[t].new} /\ call[t].new # None
       /\ hash[call[t].restore.context] # None
       /\ pc[t] = "release" =>
            /\ call[t].restore.context = glx[t].context
            /\ CanRestoreOldContext(glx[t].context)

\* The thread state, by where the thread is, and the context it counts for.
StateOK(t) ==
  /\ pc[t] \in {"switch", "release", "dispatch", "vendor", "exiting", "callback"} =>
       glx[t] # None
  /\ pc[t] = "exited" => glx[t] = None
  /\ glx[t] # None =>
       /\ InUse(t) # None /\ hash[InUse(t)] # None
       /\ hash[InUse(t)].vendor = glx[t].vendor

\* The display that the thread is closing is that of its current context.
Closing(t) == pc[t] = "close" /\ glx[t] # None /\ glx[t].dpy = call[t].dpy

\* What libGLdispatch and the vendors have current, at each step of a thread.
CurrentOK(t) ==
  /\ current[t] = IF \/ glx[t] = None \/ Closing(t)
                     \/ pc[t] \in {"dispatch", "callback", "exited"}
                  THEN None ELSE glx[t].vendor
  /\ pc[t] \notin {"callback", "exited"} /\ ~Closing(t) =>
       \A v \in Vendor :
         vendorCur[<<t, v>>] = IF /\ glx[t] # None /\ glx[t].vendor = v
                              /\ pc[t] \notin {"dispatch", "vendor", "exiting"}
                           THEN glx[t].context ELSE None

\* A context that is being created or destroyed exists, no other thread has to do
\* with it, and its display stays open meanwhile.
VendorContextOK(t) ==
  pc[t] \in {"add", "destroy"} =>
    LET c == call[t].new IN
    /\ vendorCtx[c] # None /\ ~vendorCtx[c].doomed
    /\ vendorCtx[c].dpy = call[t].dpy
    /\ \A u \in Thread \ {t} : /\ pc[u] \in {"add", "destroy"} => call[u].new # c
                               /\ pc[u] = "close" => call[u].dpy # call[t].dpy

\* No display is closed by two threads.
CloseOK ==
  \A t, u \in Thread : pc[t] = "close" /\ pc[u] = "close" /\ call[t].dpy = call[u].dpy => t = u

\* Counts and the lock belong to the threads that there are: whatever a thread does, or
\* fails to do, in whatever order with other threads, it leaves neither behind
\* (libglx.c:1093, 1987).
ContextInv ==
  /\ TypeOK /\ CountIsUse /\ LockInv /\ ContextKnown /\ CloseOK
  /\ \A t \in Thread : CallOK(t) /\ StateOK(t) /\ CurrentOK(t) /\ VendorContextOK(t)

=============================================================================

----------------------------- MODULE UCurrentTsd -----------------------------
(***************************************************************************)
(* The per-thread dispatch table pointer in the builds that keep it in     *)
(* thread-specific data (src/GLdispatch/vnd-glapi/u_current_tsd.c), with   *)
(* __glDispatchCheckMultithreaded, which every GLX and EGL function calls. *)
(*                                                                         *)
(* While one thread calls OpenGL, the entrypoints find its table in the    *)
(* global _glapi_Current.  When a second thread shows up, ThreadSafe is    *)
(* set and _glapi_Current becomes NULL, which sends every entrypoint to    *)
(* the thread-specific data.  None of the reads and writes of the two      *)
(* variables is under a lock that both sides hold: each is a step here.    *)
(***************************************************************************)
EXTENDS Naturals

CONSTANTS
  Thread,         \* the threads, by their pthread_t
  Table,          \* the dispatch tables of the vendors
  ExitWithTable,  \* whether a thread may exit with a current context
  ReloadAfterSwitch, \* whether the client libraries may be unloaded and loaded
                  \* again once two threads have called them
  MaxReloads,     \* bound on such reloads
  Noop,           \* table_noop_array
  Null

ASSUME ConstantsAssumption ==
  /\ {ExitWithTable, ReloadAfterSwitch} \subseteq BOOLEAN
  /\ MaxReloads \in Nat
  /\ Noop \notin Table /\ Null \notin Table \cup {Noop} \cup Thread

VARIABLES
  glapiCurrent,  \* _glapi_Current
  tsd,           \* u_current_tsd of each thread
  ThreadSafe,
  isMultiThreaded,
  firstThreadId,
  pc,            \* where each thread is: see TypeOK
  seen,          \* the value of ThreadSafe the thread has read
  arg,           \* the table it is setting
  own,           \* the table of its current context, or Noop
  attached,      \* whether it has called a GLX function, and whether it has
                  \* since the switch to ThreadSafe
  late,          \* ghost: the thread that wrote its table to _glapi_Current as if it
                 \* were alone, after the switch, or Null
  dropped,       \* ghost: the threads whose table was replaced by the no-op table,
                 \* because they took the switch for a missing table
  reloads

sharedVars == <<glapiCurrent, ThreadSafe>>
lockedVars == <<isMultiThreaded, firstThreadId>>
raceVars   == <<late, dropped>>
vars == <<sharedVars, lockedVars, raceVars, tsd, pc, seen, arg, own, attached, reloads>>

Init ==
  /\ glapiCurrent = Noop
  /\ tsd = [t \in Thread |-> Null]
  /\ ThreadSafe = FALSE
  /\ isMultiThreaded = FALSE
  /\ firstThreadId = Null
  /\ pc = [t \in Thread |-> "outside"]
  /\ seen = [t \in Thread |-> FALSE]
  /\ arg = [t \in Thread |-> Noop]
  /\ own = [t \in Thread |-> Noop]
  /\ attached = [t \in Thread |-> "no"]
  /\ late = Null
  /\ dropped = {}
  /\ reloads = 0

Goto(t, from, to) == pc[t] = from /\ pc' = [pc EXCEPT ![t] = to]

-----------------------------------------------------------------------------

\* u_current_set up to its read of ThreadSafe ...
BeginSet(t, table) ==
  /\ tsd' = [tsd EXCEPT ![t] = table]
  /\ seen' = [seen EXCEPT ![t] = ThreadSafe]
  /\ arg' = [arg EXCEPT ![t] = table]

\* Variant: the global is written whatever the mode.
EndSet_Always(t) == glapiCurrent' = arg[t]

\* ... and its write of _glapi_Current.
EndSet(t) == glapiCurrent' = IF seen[t] THEN Null ELSE arg[t]

\* The write is late if the thread had read ThreadSafe before the switch.
Late(t) == late' = IF ThreadSafe /\ ~seen[t] THEN t ELSE Null

\* A thread calls a GLX or EGL function; _glapi_get_current reads ThreadSafe
\* and then what that tells it to.
Enter(t) ==
  /\ Goto(t, "outside", "get")
  /\ seen' = [seen EXCEPT ![t] = ThreadSafe]
  /\ UNCHANGED <<sharedVars, lockedVars, raceVars, tsd, arg, own, attached, reloads>>

\* Variant: a missing table is left missing.
GetCurrent_NoPlug(t) ==
  /\ Goto(t, "get", "lock")
  /\ UNCHANGED <<sharedVars, lockedVars, raceVars, tsd, seen, arg, own, attached, reloads>>

\* The switch may have made the global NULL since the thread read ThreadSafe.
GetCurrent(t) ==
  /\ IF Null = (IF seen[t] THEN tsd[t] ELSE glapiCurrent)
     THEN /\ Goto(t, "get", "plug") /\ BeginSet(t, Noop)
          /\ dropped' = IF own[t] # Noop THEN dropped \cup {t} ELSE dropped
     ELSE Goto(t, "get", "lock") /\ UNCHANGED <<tsd, seen, arg, dropped>>
  /\ UNCHANGED <<sharedVars, lockedVars, late, own, attached, reloads>>

\* The thread had no table: the end of _glapi_set_current(NULL).
PlugNoop(t) ==
  /\ Goto(t, "plug", "lock")
  /\ EndSet(t) /\ Late(t)
  /\ UNCHANGED <<ThreadSafe, lockedVars, dropped, tsd, seen, arg, own, attached, reloads>>

\* The part of __glDispatchCheckMultithreaded under the dispatch lock; a thread
\* that is the second one starts the switch, wherever the others are.
CheckThread(t) ==
  /\ \A u \in Thread : pc[u] # "switch"
  /\ \/ /\ isMultiThreaded \/ firstThreadId = t
        /\ Goto(t, "lock", "inside")
        /\ UNCHANGED <<ThreadSafe, lockedVars>>
     \/ /\ ~isMultiThreaded /\ firstThreadId = Null
        /\ Goto(t, "lock", "inside")
        /\ firstThreadId' = t
        /\ UNCHANGED <<ThreadSafe, isMultiThreaded>>
     \/ /\ ~isMultiThreaded /\ firstThreadId \notin {Null, t}
        /\ Goto(t, "lock", "switch")
        /\ isMultiThreaded' = TRUE
        /\ ThreadSafe' = TRUE
        /\ UNCHANGED firstThreadId
  /\ UNCHANGED <<glapiCurrent, raceVars, tsd, seen, arg, own, attached, reloads>>

\* The end of u_current_set_multithreaded.
Switch(t) ==
  /\ Goto(t, "switch", "inside")
  /\ glapiCurrent' = Null
  /\ late' = Null
  /\ UNCHANGED <<ThreadSafe, lockedVars, dropped, tsd, seen, arg, own, attached, reloads>>

\* __glDispatchMakeCurrent and __glDispatchLoseCurrent set the table; the
\* thread leaves one context before it takes another.
SetCurrent(t, table) ==
  /\ (own[t] = Noop) # (table = Noop)
  /\ Goto(t, "inside", "publish")
  /\ BeginSet(t, table)
  /\ own' = [own EXCEPT ![t] = table]
  /\ dropped' = dropped \ {t}
  /\ UNCHANGED <<sharedVars, lockedVars, late, attached, reloads>>

Publish(t) ==
  /\ Goto(t, "publish", "inside")
  /\ EndSet(t) /\ Late(t)
  /\ UNCHANGED <<ThreadSafe, lockedVars, dropped, tsd, seen, arg, own, attached, reloads>>

\* seen[t] is what the thread read last, so it did see the switch.
Return(t) ==
  /\ Goto(t, "inside", "outside")
  /\ attached' = [attached EXCEPT ![t] = IF seen[t] THEN "after" ELSE "before"]
  /\ UNCHANGED <<sharedVars, lockedVars, raceVars, tsd, seen, arg, own, reloads>>

\* The thread exits; its pthread_t may name a new thread from then on.
ThreadExit(t) ==
  /\ pc[t] = "outside"
  /\ ExitWithTable \/ own[t] = Noop
  /\ tsd' = [tsd EXCEPT ![t] = Null]
  /\ own' = [own EXCEPT ![t] = Noop]
  /\ attached' = [attached EXCEPT ![t] = "no"]
  /\ dropped' = dropped \ {t}
  /\ UNCHANGED <<sharedVars, lockedVars, late, pc, seen, arg, reloads>>

\* The last client library is unloaded and one is loaded again, while
\* libGLdispatch itself stays: u_current_destroy and u_current_init.
Reload ==
  /\ reloads < MaxReloads
  /\ ReloadAfterSwitch \/ ~isMultiThreaded
  /\ \A t \in Thread : pc[t] = "outside" /\ own[t] = Noop
  /\ reloads' = reloads + 1
  /\ tsd' = [t \in Thread |-> Null]
  /\ glapiCurrent' = Noop
  /\ ThreadSafe' = FALSE
  /\ attached' = [t \in Thread |-> "no"]
  /\ late' = Null /\ dropped' = {}
  /\ UNCHANGED <<lockedVars, pc, seen, arg, own>>

ThreadStep(t) ==
  \/ Enter(t) \/ GetCurrent(t) \/ PlugNoop(t) \/ CheckThread(t) \/ Switch(t)
  \/ \E table \in Table \cup {Noop} : SetCurrent(t, table)
  \/ Publish(t) \/ Return(t) \/ ThreadExit(t)

Next == Reload \/ \E t \in Thread : ThreadStep(t)

Spec == Init /\ [][Next]_vars

-----------------------------------------------------------------------------

\* What an entrypoint loads: _glapi_Current, and if that is NULL, what
\* _glapi_get_current returns.
TableOf(t) ==
  IF glapiCurrent # Null THEN glapiCurrent
  ELSE IF ThreadSafe THEN tsd[t] ELSE Null

\* The type invariant.
TypeOK ==
  /\ glapiCurrent \in Table \cup {Noop, Null}
  /\ tsd \in [Thread -> Table \cup {Noop, Null}]
  /\ {ThreadSafe, isMultiThreaded} \subseteq BOOLEAN
  /\ firstThreadId \in Thread \cup {Null}
  /\ pc \in [Thread -> {"outside", "get", "plug", "lock", "switch", "inside",
                        "publish"}]
  /\ seen \in [Thread -> BOOLEAN]
  /\ arg \in [Thread -> Table \cup {Noop}]
  /\ own \in [Thread -> Table \cup {Noop}]
  /\ attached \in [Thread -> {"no", "before", "after"}]
  /\ late \in Thread \cup {Null} /\ dropped \subseteq Thread
  /\ reloads \in 0..MaxReloads

\* An OpenGL call of a thread that has called a GLX function goes through the table of
\* the thread's own context.  A thread without one may find no table, but never that of
\* another thread.  If the switch fell between two accesses of a thread, that thread
\* may have lost its table to the no-op table until it sets one, or the others call
\* through the table that it wrote late, until somebody sets one (u_current_tsd.c:84-95).
OwnTable ==
  \A t \in Thread : pc[t] = "outside" /\ attached[t] # "no" =>
    \/ TableOf(t) = own[t]
    \/ own[t] = Noop /\ TableOf(t) = Null
    \/ t \in dropped /\ TableOf(t) = Noop
    \/ late \notin {t, Null} /\ glapiCurrent # Null

\* "As long as the thread calls at least one GLX function first, any OpenGL
\* calls will go to the no-op stubs instead of crashing."
NeverNull ==
  \A t \in Thread : pc[t] = "outside" /\ attached[t] # "no" => TableOf(t) # Null

\* A weaker promise that the code keeps: one GLX function called after the
\* switch to ThreadSafe is enough.
NeverNullAfterSwitch ==
  \A t \in Thread : pc[t] = "outside" /\ attached[t] = "after" => TableOf(t) # Null

\* What a thread knows of the switch at each of its steps, and what its own
\* pointer is by then.
ThreadInv ==
  \A t \in Thread :
    /\ \/ tsd[t] = own[t]
       \/ tsd[t] = Null /\ own[t] = Noop
       \/ tsd[t] = Noop /\ t \in dropped
    /\ seen[t] => ThreadSafe
    /\ pc[t] = "plug" => seen[t]
    /\ pc[t] = "publish" => arg[t] = own[t] /\ (seen[t] \/ t = firstThreadId)
    /\ seen[t] /\ pc[t] \notin {"outside", "get"} => tsd[t] # Null
    /\ attached[t] = "after" => tsd[t] # Null

\* Until the switch is over, the global is the pointer of the first thread, and
\* no other thread has a context; after it, the global is NULL, or the first thread has
\* written its table late.
GlobalInv ==
  /\ ThreadSafe = isMultiThreaded
  /\ glapiCurrent = Null => ThreadSafe
  /\ ThreadSafe => firstThreadId # Null
  /\ \A t \in Thread : pc[t] = "switch" =>
       ThreadSafe /\ \A u \in Thread : pc[u] = "switch" => u = t
  /\ ThreadSafe /\ (\A t \in Thread : pc[t] # "switch") =>
       glapiCurrent = Null \/ late # Null
  /\ late # Null =>
       /\ ThreadSafe /\ late = firstThreadId
       /\ glapiCurrent # Null
       /\ pc[late] # "publish" => glapiCurrent = own[late]
  /\ (~ThreadSafe \/ \E t \in Thread : pc[t] = "switch") =>
       /\ firstThreadId = Null => glapiCurrent = Noop
       /\ \A t \in Thread :
            IF t = firstThreadId
            THEN pc[t] # "publish" => glapiCurrent \in {Null, own[t]}
            ELSE /\ attached[t] = "no" /\ own[t] = Noop
                 /\ pc[t] \notin {"inside", "publish"}

\* The pointer of a thread is set wherever the code relies on it, between the accesses
\* of other threads, too (GLdispatch.c:777).
PointerInv == TypeOK /\ ThreadInv /\ GlobalInv /\ NeverNullAfterSwitch

=============================================================================

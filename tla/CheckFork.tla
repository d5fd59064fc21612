------------------------------ MODULE CheckFork ------------------------------
(***************************************************************************)
(* CheckFork of libGLX (src/GLX/libglx.c), which every GLX entrypoint      *)
(* calls first, instruction by instruction.  libEGL has its own copy of    *)
(* the function and of its two variables (src/EGL/libegl.c).               *)
(*                                                                         *)
(* After a fork the first thread of the child to arrive resets the library *)
(* state that the child inherited; the others wait for it.  The model      *)
(* follows the child of each fork: to the parent a fork is no event.       *)
(***************************************************************************)
EXTENDS Integers, FiniteSets

CONSTANTS
  Caller,             \* the threads of the process
  MaxCalls,           \* bound on the calls of each thread
  MaxForks,           \* bound on the number of forks
  ForkBeforeFirstCall, \* whether a fork may come before any call has stored
                      \* the process ID
  PidReuse            \* whether a child may get the process ID of a dead
                      \* ancestor

ASSUME ForksAssumption ==
  /\ IsFiniteSet(Caller)
  /\ MaxCalls \in Nat /\ MaxForks \in Nat
  /\ {ForkBeforeFirstCall, PidReuse} \subseteq BOOLEAN

VARIABLES
  g_threadsInCheck, \* the threads that have not yet compared process IDs
  g_lastPid,        \* the process of the last call, or -1
  place,            \* where each thread is: see CFTypeOK
  oldVal,           \* the thread's local variable in the decrement
  pid,              \* getpid()
  calls,            \* the calls each thread has made
  forks,            \* the number of forks so far
  used,             \* some call has used the library state, in this process
                    \* or in one it was forked from
  state             \* whose the library state is: this process's own, or the
                    \* parent's and not yet reset, used there or unused

counterVars == <<g_threadsInCheck, g_lastPid>>
historyVars == <<calls, used, state>>
processVars == <<pid, forks>>
checkVars == <<counterVars, place, oldVal, historyVars, processVars>>

CFInit ==
  /\ g_threadsInCheck = 0
  /\ g_lastPid = -1
  /\ place = [t \in Caller |-> "outside"]
  /\ oldVal = [t \in Caller |-> 0]
  /\ pid = 1
  /\ calls = [t \in Caller |-> 0]
  /\ forks = 0
  /\ used = FALSE
  /\ state = "own"

Move(t, from, to) == place[t] = from /\ place' = [place EXCEPT ![t] = to]

-----------------------------------------------------------------------------

\* The thread calls a GLX function: AtomicIncrement.
Increment(t) ==
  /\ calls[t] < MaxCalls
  /\ Move(t, "outside", "swap")
  /\ calls' = [calls EXCEPT ![t] = @ + 1]
  /\ g_threadsInCheck' = g_threadsInCheck + 1
  /\ UNCHANGED <<g_lastPid, oldVal, used, state, processVars>>

\* Variant: the process ID is stored only after the reset.
Swap_AfterReset(t) ==
  /\ IF g_lastPid \notin {-1, pid} THEN Move(t, "swap", "reset")
                                   ELSE Move(t, "swap", "load")
  /\ g_lastPid' = IF g_lastPid = -1 THEN pid ELSE g_lastPid
  /\ UNCHANGED <<g_threadsInCheck, oldVal, historyVars, processVars>>

\* AtomicSwap, and the comparison of the process IDs.
Swap(t) ==
  /\ IF g_lastPid \notin {-1, pid} THEN Move(t, "swap", "reset")
                                   ELSE Move(t, "swap", "load")
  /\ g_lastPid' = pid
  /\ UNCHANGED <<g_threadsInCheck, oldVal, historyVars, processVars>>

\* __glXResetOnFork.
ResetOnFork(t) ==
  /\ Move(t, "reset", "unblock")
  /\ state' = "own"
  /\ UNCHANGED <<counterVars, oldVal, calls, used, processVars>>

\* Variant: the count is left to the threads that made it.
Unblock_NotForced(t) ==
  /\ Move(t, "unblock", "load")
  /\ UNCHANGED <<counterVars, oldVal, historyVars, processVars>>

Unblock(t) ==
  /\ Move(t, "unblock", "inside")
  /\ g_threadsInCheck' = 0
  /\ used' = TRUE
  /\ UNCHANGED <<g_lastPid, oldVal, calls, state, processVars>>

\* AtomicDecrementClampAtZero reads the counter, and leaves a zero alone ...
Load(t) ==
  /\ IF g_threadsInCheck <= 0 THEN Move(t, "load", "spin")
                              ELSE Move(t, "load", "cas")
  /\ oldVal' = [oldVal EXCEPT ![t] = g_threadsInCheck]
  /\ UNCHANGED <<counterVars, historyVars, processVars>>

\* ... and otherwise tries to lower it until nobody else has changed it since.
CompareAndSwap(t) ==
  /\ \/ /\ g_threadsInCheck = oldVal[t]
        /\ Move(t, "cas", "spin")
        /\ g_threadsInCheck' = oldVal[t] - 1
        /\ UNCHANGED oldVal
     \/ /\ g_threadsInCheck # oldVal[t]
        /\ IF g_threadsInCheck > 0 THEN Move(t, "cas", "cas")
                                   ELSE Move(t, "cas", "spin")
        /\ oldVal' = [oldVal EXCEPT ![t] = g_threadsInCheck]
        /\ UNCHANGED g_threadsInCheck
  /\ UNCHANGED <<g_lastPid, historyVars, processVars>>

\* Variant: the thread does not wait for the others.
Spin_NoWait(t) ==
  /\ Move(t, "spin", "inside")
  /\ used' = TRUE
  /\ UNCHANGED <<counterVars, oldVal, calls, state, processVars>>

\* The wait for the other threads; while the count is positive it only yields.
Spin(t) ==
  /\ g_threadsInCheck <= 0
  /\ Move(t, "spin", "inside")
  /\ used' = TRUE
  /\ UNCHANGED <<counterVars, oldVal, calls, state, processVars>>

\* The rest of the GLX function.
Leave(t) ==
  /\ Move(t, "inside", "outside")
  /\ UNCHANGED <<counterVars, oldVal, historyVars, processVars>>

\* A fork in a thread that is in no GLX function, wherever the others are.
\* The child has only that thread; new ones take the places of the others.
Fork(t) ==
  /\ forks < MaxForks
  /\ place[t] = "outside"
  /\ g_lastPid # -1 \/ ForkBeforeFirstCall
  /\ forks' = forks + 1
  /\ pid' \in {forks + 2} \cup (IF PidReuse THEN 1..(forks + 1) \ {pid} ELSE {})
  /\ place' = [u \in Caller |-> "outside"]
  /\ oldVal' = [u \in Caller |-> 0]
  /\ state' = IF used THEN "inherited" ELSE "unused"
  /\ UNCHANGED <<counterVars, calls, used>>

\* What a thread does once it has called a GLX function.
Call(t) ==
  \/ Swap(t) \/ ResetOnFork(t) \/ Unblock(t)
  \/ Load(t) \/ CompareAndSwap(t) \/ Spin(t) \/ Leave(t)

\* Every thread has made its calls, in the last process.
Finished ==
  /\ forks = MaxForks
  /\ \A t \in Caller : place[t] = "outside" /\ calls[t] = MaxCalls

CFNext ==
  \/ \E t \in Caller : Increment(t) \/ Call(t) \/ Fork(t)
  \/ Finished /\ UNCHANGED checkVars

\* The scheduler runs every thread that has something to do.
Fairness == \A t \in Caller : WF_checkVars(Call(t))

CFSpec == CFInit /\ [][CFNext]_checkVars
CFFairSpec == CFSpec /\ Fairness

-----------------------------------------------------------------------------

\* The type invariant; with it, the assertion of AtomicDecrementClampAtZero
\* (libglx.c:1908): the counter never becomes negative.
CFTypeOK ==
  /\ g_threadsInCheck \in Nat
  /\ g_lastPid \in {-1} \cup 1..(forks + 1)
  /\ place \in [Caller -> {"outside", "swap", "reset", "unblock", "load", "cas",
                        "spin", "inside"}]
  /\ oldVal \in [Caller -> Nat]
  /\ pid \in 1..(forks + 1)
  /\ calls \in [Caller -> 0..MaxCalls]
  /\ forks \in 0..MaxForks
  /\ used \in BOOLEAN
  /\ state \in {"own", "unused", "inherited"}

\* No thread gets past CheckFork while the library state is that of another
\* process: the reset has been run, and is over.
ResetBeforeUse == \A t \in Caller : place[t] = "inside" => state # "inherited"

\* Only inherited state is thrown away: never a second time in one process,
\* when threads may be using what they have made since the first.
ResetOnlyInherited ==
  [][\A t \in Caller : place[t] = "reset" /\ place'[t] = "unblock" => state # "own"]_checkVars

\* A call returns, with any fork before it and any other calls around it.
CallReturns == \A t \in Caller : place[t] # "outside" ~> place[t] = "outside"

-----------------------------------------------------------------------------
(* The inductive invariant of the proofs in ThreadInitialize_proof.        *)

\* The threads whose increment is still part of g_threadsInCheck.
Pending == {t \in Caller : place[t] \in {"swap", "reset", "load", "cas"}}

\* Until inherited state is reset, nobody uses it, no increment of this process
\* is lost, and the thread that stored the process ID, if any, is resetting.
InheritedInv ==
  state = "inherited" =>
    /\ g_threadsInCheck >= Cardinality(Pending)
    /\ \A t \in Caller : place[t] \notin {"unblock", "inside"}
    /\ IF g_lastPid = pid
       THEN \E t \in Caller : place[t] = "reset"
       ELSE \A t \in Caller : place[t] \in {"outside", "swap"}

ForkInv ==
  /\ CFTypeOK
  /\ \A t \in Caller : place[t] = "reset" => state # "own" /\ g_lastPid = pid
  /\ \A t, u \in Caller : place[t] = "reset" /\ place[u] = "reset" => t = u
  /\ \A t \in Caller : place[t] = "cas" => oldVal[t] > 0
  /\ used \/ (\E t \in Caller : place[t] \in {"reset", "unblock", "load", "cas", "spin"}) =>
       g_lastPid # -1
  /\ state = "own" => g_lastPid \in {-1, pid}
  /\ state = "inherited" => used
  /\ InheritedInv

=============================================================================

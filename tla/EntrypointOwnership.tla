-------------------------- MODULE EntrypointOwnership --------------------------
(***************************************************************************)
(* What libGLdispatch promises about the OpenGL entrypoints, which all     *)
(* threads share: at most one vendor owns their code at a time, a thread   *)
(* gets a context of another vendor only while nobody owns them, and they  *)
(* change hands only when no thread has a context.                         *)
(***************************************************************************)
CONSTANTS Thread, Vendor, None

VARIABLES
  current,  \* the vendor of each thread's context, or None
  owner     \* the vendor whose code the entrypoints hold, or None

Init ==
  /\ current = [t \in Thread |-> None]
  /\ owner = None

Unused == \A t \in Thread : current[t] = None

\* The entrypoints change hands.
ChangeOwner ==
  /\ Unused
  /\ owner' \in Vendor \cup {None}
  /\ UNCHANGED current

\* A thread gets a context of v, and v may take the entrypoints on the way.
Acquire(t, v) ==
  /\ current[t] = None
  /\ current' = [current EXCEPT ![t] = v]
  /\ owner' \in {None, v}
  /\ owner' = owner \/ Unused

\* Threads give up their contexts, exit, or vanish in a fork.
Release(threads) ==
  /\ current' = [t \in Thread |-> IF t \in threads THEN None ELSE current[t]]
  /\ UNCHANGED owner

Next ==
  \/ ChangeOwner
  \/ \E t \in Thread, v \in Vendor : Acquire(t, v)
  \/ \E threads \in SUBSET Thread : Release(threads)

Spec == Init /\ [][Next]_<<current, owner>>

\* The owner's code never serves the context of another vendor.
Exclusive == owner # None => \A t \in Thread : current[t] \in {None, owner}

================================================================================

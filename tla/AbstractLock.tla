----------------------------- MODULE AbstractLock -----------------------------
(***************************************************************************)
(* What the two locks of the repository promise their callers, whatever    *)
(* the lock word and the waiting look like: a thread asks, at most one     *)
(* thread owns the lock, and only the owner gives it back.  Mutex.tla and  *)
(* SpinLock.tla are shown to implement it.                                 *)
(***************************************************************************)
CONSTANT Threads

VARIABLES
  owners,     (* the threads that own the lock: none or one                *)
  waiting     (* the threads inside Lock() that do not own it yet          *)

vars == <<owners, waiting>>

Init == owners = {} /\ waiting = {}

Request(t) ==
  /\ t \notin owners \cup waiting
  /\ waiting' = waiting \cup {t}
  /\ UNCHANGED owners

(* An uncontended Lock() acquires in the step that asks. *)
Acquire(t) ==
  /\ owners = {}
  /\ owners' = {t}
  /\ waiting' = waiting \ {t}

Release(t) ==
  /\ owners = {t}
  /\ owners' = {}
  /\ UNCHANGED waiting

Next == \E t \in Threads : Request(t) \/ Acquire(t) \/ Release(t)

Spec == Init /\ [][Next]_vars
=============================================================================

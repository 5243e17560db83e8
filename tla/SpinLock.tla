------------------------------ MODULE SpinLock ------------------------------
(***************************************************************************)
(* spinlock/spinlock.h: test-and-test-and-set with a yield after every     *)
(* MaxNumTries polls.  Every exchange, load, store and yield is one step.  *)
(*                                                                         *)
(* seen and carried follow the C++ happens-before order of the last access *)
(* to the data the lock protects, as in Mutex.tla: the threads it is       *)
(* visible to, and whether an acquire read of locked makes it visible.     *)
(***************************************************************************)
EXTENDS Naturals

CONSTANTS
  Threads,            (* the threads that use one SpinLock                 *)
  MaxNumTries         (* polls before a yield: 10 in the code              *)

ASSUME MaxNumTriesAssumption == MaxNumTries \in Nat \ {0}

VARIABLES locked, pc, num_tries, seen, carried

vars == <<locked, pc, num_tries, seen, carried>>

Labels == {"idle", "exchange", "load", "yield", "locked", "used"}

(* A thread has counted to MaxNumTries only when it is about to yield. *)
TypeOK ==
  /\ locked \in BOOLEAN
  /\ pc \in [Threads -> Labels]
  /\ num_tries \in [Threads -> 0..MaxNumTries]
  /\ \A t \in Threads : num_tries[t] = MaxNumTries => pc[t] = "yield"
  /\ seen \in SUBSET Threads
  /\ carried \in BOOLEAN

Init ==
  /\ locked = FALSE
  /\ pc = [t \in Threads |-> "idle"]
  /\ num_tries = [t \in Threads |-> 0]
  /\ seen = Threads
  /\ carried = FALSE

Goto(t, label) == pc' = [pc EXCEPT ![t] = label]

-----------------------------------------------------------------------------
(* The call of Lock(): a fresh num_tries. *)
Lock(t) ==
  /\ pc[t] = "idle"
  /\ num_tries' = [num_tries EXCEPT ![t] = 0]
  /\ Goto(t, "exchange")
  /\ UNCHANGED <<locked, seen, carried>>

MutExchange(t) ==      \* while (!locked_.exchange(true))
  /\ pc[t] = "exchange"
  /\ locked' = TRUE
  /\ seen' = IF carried THEN seen \cup {t} ELSE seen
  /\ Goto(t, IF locked THEN "locked" ELSE "load")
  /\ UNCHANGED <<num_tries, carried>>

(* exchange(true, acquire): a read-modify-write keeps the release sequence. *)
Exchange(t) ==
  /\ pc[t] = "exchange"
  /\ locked' = TRUE
  /\ seen' = IF carried THEN seen \cup {t} ELSE seen
  /\ Goto(t, IF locked THEN "load" ELSE "locked")
  /\ UNCHANGED <<num_tries, carried>>

MutLoadReset(t) ==     \* num_tries is declared inside the outer loop's body
  /\ pc[t] = "load"
  /\ IF locked THEN Goto(t, "load") ELSE Goto(t, "exchange")
  /\ num_tries' = [num_tries EXCEPT ![t] = 0]
  /\ UNCHANGED <<locked, seen, carried>>

Load(t) ==
  /\ pc[t] = "load"
  /\ \/ /\ ~locked
        /\ Goto(t, "exchange")
        /\ UNCHANGED num_tries
     \/ /\ locked
        /\ num_tries' = [num_tries EXCEPT ![t] = @ + 1]
        /\ Goto(t, IF num_tries[t] + 1 >= MaxNumTries THEN "yield" ELSE "load")
  /\ UNCHANGED <<locked, seen, carried>>

Yield(t) ==
  /\ pc[t] = "yield"
  /\ num_tries' = [num_tries EXCEPT ![t] = 0]
  /\ Goto(t, "load")
  /\ UNCHANGED <<locked, seen, carried>>

(* The caller's critical section, spinlock/test.cpp. *)
Use(t) ==
  /\ pc[t] = "locked"
  /\ seen' = {t}
  /\ carried' = FALSE
  /\ Goto(t, "used")
  /\ UNCHANGED <<locked, num_tries>>

MutUnlock(t) ==        \* store(false, memory_order_relaxed)
  /\ pc[t] = "used"
  /\ locked' = FALSE
  /\ carried' = FALSE
  /\ Goto(t, "idle")
  /\ UNCHANGED <<num_tries, seen>>

Unlock(t) ==
  /\ pc[t] = "used"
  /\ locked' = FALSE
  /\ carried' = (t \in seen)
  /\ Goto(t, "idle")
  /\ UNCHANGED <<num_tries, seen>>

-----------------------------------------------------------------------------
InLock(t) == Exchange(t) \/ Load(t) \/ Yield(t)

Next == \E t \in Threads : Lock(t) \/ InLock(t) \/ Use(t) \/ Unlock(t)

Spec == Init /\ [][Next]_vars

(* A thread inside Lock() is scheduled again and again; nobody has to call *)
(* Lock(), and a critical section may last for ever.                       *)
FairSpec == Spec /\ \A t \in Threads : WF_vars(InLock(t))

-----------------------------------------------------------------------------
Owns(t) == pc[t] \in {"locked", "used"}

Spins(t) == pc[t] \in {"exchange", "load", "yield"}

(* Two threads never own the lock: a poll that finds it free is only a     *)
(* hint, the exchange decides.                                             *)
MutualExclusion == \A t, u \in Threads : Owns(t) /\ Owns(u) => t = u

(* The relaxed polls do not hurt: the owner happens after the last access  *)
(* of the previous owner.                                                  *)
NoDataRace == \A t \in Threads : pc[t] = "locked" => t \in seen

Abstract == INSTANCE AbstractLock
  WITH owners  <- {t \in Threads : Owns(t)},
       waiting <- {t \in Threads : Spins(t)}

(* The spinlock is a lock in the sense of AbstractLock.tla. *)
ImplementsLock == Abstract!Spec

(* While another thread's critical section lasts, a spinning thread yields *)
(* the cpu again and again, so an owner that was preempted can run.        *)
WaitersYield ==
  \A t, u \in Threads :
    <>[](pc[u] = "used" /\ Spins(t)) => []<>(pc[t] = "yield")
=============================================================================

-------------------------------- MODULE Mutex --------------------------------
(***************************************************************************)
(* mutex/mutex.h: the futex mutex of Drepper's "Futexes are tricky".  The  *)
(* lock word is 0 (free), 1 (locked) or 2 (locked, perhaps with sleepers). *)
(* Every atomic access and every futex call is one step of a thread.       *)
(*                                                                         *)
(* seen and carried follow the C++ happens-before order of the last access *)
(* to the data the mutex protects: seen are the threads it is visible to,  *)
(* carried says whether an acquire read of the current lock word           *)
(* synchronises with a release that saw it.                                *)
(***************************************************************************)
EXTENDS Naturals

CONSTANT Threads      (* the threads that use one Mutex                    *)

VARIABLES locked, pc, seen, carried

vars == <<locked, pc, seen, carried>>

Labels == {"idle", "exchange", "wait", "asleep", "retry", "mark",
           "locked", "used", "reset", "wake"}

TypeOK ==
  /\ locked \in 0..2
  /\ pc \in [Threads -> Labels]
  /\ seen \in SUBSET Threads
  /\ carried \in BOOLEAN

Init ==
  /\ locked = 0
  /\ pc = [t \in Threads |-> "idle"]
  /\ seen = Threads
  /\ carried = FALSE

Goto(t, label) == pc' = [pc EXCEPT ![t] = label]

(* A load with memory_order_acquire of the current lock word. *)
AcquireView(t) == seen' = IF carried THEN seen \cup {t} ELSE seen

-----------------------------------------------------------------------------
(* One compare_exchange_weak: it may fail although the lock is free. *)
TryLock(t, won, lost) ==
  /\ UNCHANGED carried
  /\ \/ /\ locked = 0
        /\ locked' = 1
        /\ AcquireView(t)
        /\ Goto(t, won)
     \/ /\ Goto(t, lost)
        /\ UNCHANGED <<locked, seen>>

MutLock(t) ==          \* enters whatever the compare_exchange returned
  pc[t] = "idle" /\ TryLock(t, "locked", "locked")

Lock(t) == pc[t] = "idle" /\ TryLock(t, "locked", "exchange")

MutExchange(t) ==      \* forgets that sleepers may exist
  /\ pc[t] = "exchange"
  /\ locked' = 1
  /\ AcquireView(t)
  /\ Goto(t, IF locked = 0 THEN "locked" ELSE "wait")
  /\ UNCHANGED carried

Exchange(t) ==
  /\ pc[t] = "exchange"
  /\ locked' = 2
  /\ AcquireView(t)
  /\ Goto(t, IF locked = 0 THEN "locked" ELSE "wait")
  /\ UNCHANGED carried

MutFutexWait(t) ==     \* sleeps without comparing the word first
  /\ pc[t] = "wait"
  /\ Goto(t, "asleep")
  /\ UNCHANGED <<locked, seen, carried>>

FutexWait(t) ==
  /\ pc[t] = "wait"
  /\ Goto(t, IF locked = 2 THEN "asleep" ELSE "retry")
  /\ UNCHANGED <<locked, seen, carried>>

(* A signal or a stray wake ends FUTEX_WAIT. *)
Interrupted(t) ==
  /\ pc[t] = "asleep"
  /\ Goto(t, "retry")
  /\ UNCHANGED <<locked, seen, carried>>

MutRetry(t) ==         \* Parking() without the final store of 2
  pc[t] = "retry" /\ TryLock(t, "locked", "exchange")

Retry(t) == pc[t] = "retry" /\ TryLock(t, "mark", "exchange")

(* The relaxed store of 2 starts no release sequence. *)
Mark(t) ==
  /\ pc[t] = "mark"
  /\ locked' = 2
  /\ carried' = FALSE
  /\ Goto(t, "locked")
  /\ UNCHANGED seen

(* The caller's critical section, mutex/test.cpp: ++counter. *)
Use(t) ==
  /\ pc[t] = "locked"
  /\ seen' = {t}
  /\ carried' = FALSE
  /\ Goto(t, "used")
  /\ UNCHANGED locked

MutUnlock(t) ==        \* fetch_sub with memory_order_relaxed
  /\ pc[t] = "used"
  /\ locked' = locked - 1
  /\ Goto(t, IF locked = 1 THEN "idle" ELSE "reset")
  /\ UNCHANGED <<seen, carried>>

Unlock(t) ==
  /\ pc[t] = "used"
  /\ locked' = locked - 1
  /\ carried' = (carried \/ t \in seen)
  /\ Goto(t, IF locked = 1 THEN "idle" ELSE "reset")
  /\ UNCHANGED seen

Reset(t) ==
  /\ pc[t] = "reset"
  /\ locked' = 0
  /\ carried' = (t \in seen)
  /\ Goto(t, "wake")
  /\ UNCHANGED seen

Asleep == {t \in Threads : pc[t] = "asleep"}

(* FUTEX_WAKE with a count of 1: the kernel picks the sleeper. *)
FutexWake(t) ==
  /\ pc[t] = "wake"
  /\ \/ Asleep = {} /\ Goto(t, "idle")
     \/ \E u \in Asleep : pc' = [pc EXCEPT ![t] = "idle", ![u] = "retry"]
  /\ UNCHANGED <<locked, seen, carried>>

-----------------------------------------------------------------------------
InLock(t) == Exchange(t) \/ FutexWait(t) \/ Retry(t) \/ Mark(t)

InUnlock(t) == Unlock(t) \/ Reset(t) \/ FutexWake(t)

Next == \E t \in Threads :
          Lock(t) \/ InLock(t) \/ Interrupted(t) \/ Use(t) \/ InUnlock(t)

Spec == Init /\ [][Next]_vars

(* A thread inside Lock() is scheduled again and again; nobody has to call *)
(* Lock(), and a critical section may last for ever.                       *)
FairSpec == Spec /\ \A t \in Threads : WF_vars(InLock(t))

-----------------------------------------------------------------------------
Owns(t) == pc[t] \in {"mark", "locked", "used", "reset"}

Parked(t) == pc[t] \in {"exchange", "wait", "asleep", "retry"}

(* Two threads are never between Lock() and the end of Unlock()'s stores.  *)
(* Parking() and Unlock() overlap here: the lock word is 1 between         *)
(* fetch_sub and store(0) although nobody may enter yet.                   *)
MutualExclusion == \A t, u \in Threads : Owns(t) /\ Owns(u) => t = u

(* The protected data is race free: whoever enters the critical section    *)
(* has the previous owner's access in its happens-before past, on all      *)
(* three ways out of Lock() and both ways through Unlock().                *)
NoDataRace == \A t \in Threads : pc[t] = "locked" => t \in seen

(* No lost wakeup: while a thread sleeps in FutexWait, either the owner    *)
(* will find 2 in the lock word, or some thread is on its way to store 2   *)
(* or to call FutexWake.                                                   *)
SleeperHasWaker ==
  Asleep # {} =>
    \E u \in Threads :
      \/ pc[u] \in {"mark", "reset", "wake", "retry", "exchange"}
      \/ locked = 2 /\ pc[u] \in {"locked", "used"}

Abstract == INSTANCE AbstractLock
  WITH owners  <- {t \in Threads : Owns(t)},
       waiting <- {t \in Threads : Parked(t)}

(* The futex protocol implements a lock: owners come from waiting or free  *)
(* threads one at a time and only the owner releases.                      *)
ImplementsLock == Abstract!Spec

(* If critical sections end and a thread is parked in Lock(), the mutex is *)
(* taken by somebody: the sleepers are not forgotten for ever.             *)
LockProgress ==
  (\A t \in Threads : WF_vars(Use(t) \/ InUnlock(t))) =>
    ((\E t \in Threads : Parked(t)) ~> (\E t \in Threads : pc[t] = "locked"))

(* mutex/test.cpp:71 "thread should not consume cpu until holder           *)
(* finished": while one critical section goes on and the kernel interrupts *)
(* nobody, every thread that wants the mutex ends up asleep.               *)
WaitersSleep ==
  \A t, u \in Threads :
    /\ <>[][\A v \in Threads : ~Interrupted(v)]_vars
    /\ <>[](pc[u] = "used")
    => <>[](pc[t] \in {"asleep", "idle", "wake", "used"})
=============================================================================

------------------------------ MODULE Semaphore ------------------------------
(***************************************************************************)
(* semaphore/semaphore.h: a counting semaphore with tickets over one mutex *)
(* and one condition variable.  A step is what a thread does between two   *)
(* releases of mutex_: the predicate of cv_.wait runs under the mutex, on  *)
(* entry and after every wakeup.  The callback is the one of Acquire(),    *)
(* --count, or one that throws and leaves count alone.                     *)
(***************************************************************************)
EXTENDS Naturals, FiniteSets

CONSTANTS
  Threads,
  InitialCount,       (* the constructor's argument                        *)
  MaxTickets          (* bound: Acquire is called so many times            *)

ASSUME CountAssumption == InitialCount \in Nat \ {0}
ASSUME ThreadsAssumption == IsFiniteSet(Threads)
ASSUME BoundAssumption == MaxTickets \in Nat

VARIABLES
  count, ticket, top,
  pc,
  thread_ticket       (* the local variable of each thread's Acquire       *)

vars == <<count, ticket, top, pc, thread_ticket>>

(* "waiting": in cv_; "woken": notified, has to take mutex_ again.         *)
Labels == {"idle", "waiting", "woken", "holding"}

TypeOK ==
  /\ count \in 0..InitialCount
  /\ ticket \in Nat
  /\ top \in Nat
  /\ pc \in [Threads -> Labels]
  /\ thread_ticket \in [Threads -> Nat]

Init ==
  /\ count = InitialCount
  /\ ticket = 0
  /\ top = 0
  /\ pc = [t \in Threads |-> "idle"]
  /\ thread_ticket = [t \in Threads |-> 0]

Sleeping == {t \in Threads : pc[t] = "waiting"}

Woken == {t \in Threads : pc[t] = "woken"}

Queue == Sleeping \cup Woken

Holders == {t \in Threads : pc[t] = "holding"}

-----------------------------------------------------------------------------
(* cv_.notify_one() by t, which goes to label: any sleeper may be chosen,  *)
(* and the notification is lost when nobody sleeps.                        *)
GotoNotifying(t, label) ==
  \/ /\ Sleeping = {}
     /\ pc' = [pc EXCEPT ![t] = label]
  \/ \E u \in Sleeping : pc' = [pc EXCEPT ![t] = label, ![u] = "woken"]

MutPass(t, mine) ==    \* Semaphore without the tickets
  /\ count # 0
  /\ count' = count - 1
  /\ top' = top + 1
  /\ pc' = [pc EXCEPT ![t] = "holding"]

Pass(t, mine) ==
  /\ count # 0 /\ mine <= top
  /\ count' = count - 1
  /\ top' = top + 1
  /\ pc' = [pc EXCEPT ![t] = "holding"]

(* callback throws: the mutex is given back, ++top_ is not reached.        *)
Throw(t, mine) ==
  /\ count # 0 /\ mine <= top
  /\ pc' = [pc EXCEPT ![t] = "idle"]
  /\ UNCHANGED <<count, top>>

MutSleep(t, mine) ==          \* the predicate does not notify
  /\ ~(count # 0 /\ mine <= top)
  /\ pc' = [pc EXCEPT ![t] = "waiting"]
  /\ UNCHANGED <<count, top>>

(* The predicate is false: a permit that is not for t is announced again. *)
Sleep(t, mine) ==
  /\ ~(count # 0 /\ mine <= top)
  /\ \/ count = 0 /\ pc' = [pc EXCEPT ![t] = "waiting"]
     \/ count # 0 /\ GotoNotifying(t, "waiting")
  /\ UNCHANGED <<count, top>>

Acquire(t) ==
  /\ pc[t] = "idle"
  /\ ticket < MaxTickets
  /\ ticket' = ticket + 1
  /\ thread_ticket' = [thread_ticket EXCEPT ![t] = ticket]
  /\ Pass(t, ticket) \/ Throw(t, ticket) \/ Sleep(t, ticket)

Resume(t) ==
  /\ pc[t] = "woken"
  /\ \/ Pass(t, thread_ticket[t]) \/ Throw(t, thread_ticket[t])
     \/ Sleep(t, thread_ticket[t])
  /\ UNCHANGED <<ticket, thread_ticket>>

(* cv_.wait may return although nobody has notified t. *)
Spurious(t) ==
  /\ pc[t] = "waiting"
  /\ pc' = [pc EXCEPT ![t] = "woken"]
  /\ UNCHANGED <<count, ticket, top, thread_ticket>>

MutRelease(t) ==       \* no notification
  /\ pc[t] = "holding"
  /\ count' = count + 1
  /\ pc' = [pc EXCEPT ![t] = "idle"]
  /\ UNCHANGED <<ticket, top, thread_ticket>>

Release(t) ==
  /\ pc[t] = "holding"
  /\ count' = count + 1
  /\ GotoNotifying(t, "idle")
  /\ UNCHANGED <<ticket, top, thread_ticket>>

-----------------------------------------------------------------------------
Next == \E t \in Threads : Acquire(t) \/ Resume(t) \/ Spurious(t) \/ Release(t)

Spec == Init /\ [][Next]_vars

(* A woken thread gets mutex_, and a holder releases. *)
Running == \A t \in Threads : WF_vars(Resume(t)) /\ WF_vars(Release(t))

FairSpec == Spec /\ Running

-----------------------------------------------------------------------------
(* semaphore/test.cpp:33: a permit is held or counted, so never more than  *)
(* InitialCount threads pass Acquire() without a Release().                *)
PermitsConserved == count + Cardinality(Holders) = InitialCount

(* Nobody has the ticket whose turn it is: its callback has thrown, and    *)
(* top_ stays behind for ever.                                             *)
Skipped == top < ticket /\ \A t \in Queue : thread_ticket[t] # top

(* The tickets of the queued threads are exactly top .. ticket-1, without  *)
(* top when it is skipped: none is lost, and none below top_ still waits.  *)
TicketsContiguous ==
  /\ \A t \in Queue : thread_ticket[t] \in top..(ticket - 1)
  /\ \A t, u \in Queue : thread_ticket[t] = thread_ticket[u] => t = u
  /\ \A n \in (top + 1)..(ticket - 1) : \E t \in Queue : thread_ticket[t] = n

(* When every permit is back, a queued thread has been woken: the baton    *)
(* that the predicate hands on is not dropped.  With one permit this says  *)
(* that no wakeup is ever lost.                                            *)
FreeSemaphoreWakes ==
  count = InitialCount /\ Queue # {} /\ ~Skipped => Woken # {}

(* A callback that throws stops the semaphore: nobody passes any more.     *)
ThrowIsFatal == [][Skipped => Skipped' /\ Holders' \subseteq Holders]_vars

(* The thread whose turn it is does not sleep beside a free permit, unless *)
(* a thread is already woken for it.                                       *)
NoStrandedWaiter ==
  count # 0 /\ (\E t \in Sleeping : thread_ticket[t] <= top) => Woken # {}

Abstract == INSTANCE FairSemaphore
  WITH permits <- count,
       holders <- Holders,
       ahead   <- [t \in Queue |->
                     {u \in Queue : thread_ticket[u] < thread_ticket[t]}]

(* Permits go to the waiters in ticket order, whatever order notify_one    *)
(* wakes them in.                                                          *)
ImplementsFairSemaphore == Abstract!Spec

(* notify_one does not wake others again and again while one thread sleeps *)
(* on: C++ does not promise it.                                            *)
NonePassedOver ==
  <>[](Woken = {}) \/ \A t \in Threads : []<>(t \notin Sleeping)

(* Holders release and no callback throws.  Then nobody waits for ever,    *)
(* whomever notify_one chooses, if in the end no more than two threads     *)
(* queue.  With a longer queue two threads may hand the notification to    *)
(* each other for ever while the third, whose turn it is, sleeps: this is  *)
(* the only way in which a thread that has asked is not served.            *)
EveryWaiterServed ==
  NonePassedOver \/ <>[](Cardinality(Queue) <= 2) =>
    \A t \in Threads : t \in Queue ~> t \in Holders \/ Skipped
=============================================================================

--------------------------- MODULE SemaphoreProofs ---------------------------
(***************************************************************************)
(* Proofs about Semaphore.tla for every finite set of threads and every    *)
(* number of permits: conservation, the tickets, the baton, and that the   *)
(* semaphore is first come, first served.                                  *)
(***************************************************************************)
EXTENDS Semaphore, FiniteSetTheorems, TLAPS

IInv ==
  /\ TypeOK
  /\ top <= ticket
  /\ PermitsConserved
  /\ TicketsContiguous
  /\ FreeSemaphoreWakes

(* What a step of a thread does to the three groups of threads. *)
Admitted(t, mine) ==
  /\ count # 0 /\ mine <= top /\ count' = count - 1 /\ top' = top + 1
  /\ Holders' = Holders \cup {t} /\ Queue' = Queue \ {t} /\ t \notin Holders

Queued(t, mine) ==
  /\ ~(count # 0 /\ mine <= top) /\ UNCHANGED <<count, top>>
  /\ Holders' = Holders /\ Queue' = Queue \cup {t}
  /\ \/ count = 0
     \/ Sleeping = {} /\ Woken' = Woken \ {t}
     \/ Woken' # {}

Dropped(t, mine) ==
  /\ count # 0 /\ mine <= top /\ UNCHANGED <<count, top>>
  /\ Holders' = Holders /\ Queue' = Queue \ {t}

Released(t) ==
  /\ count' = count + 1 /\ UNCHANGED <<ticket, top, thread_ticket>>
  /\ t \in Holders /\ Holders' = Holders \ {t} /\ Queue' = Queue
  /\ Queue # {} => Woken' # {}

-----------------------------------------------------------------------------
LEMMA HoldersFinite ==
  IsFiniteSet(Holders) /\ Cardinality(Holders) \in Nat
  <1>1. Holders \subseteq Threads
    BY DEF Holders
  <1> QED BY <1>1, ThreadsAssumption, FS_Subset, FS_CardinalityType

LEMMA PassEffect ==
  ASSUME TypeOK, NEW t \in Threads, NEW mine, pc[t] \in {"idle", "woken"},
         Pass(t, mine)
  PROVE  Admitted(t, mine)
  BY DEF TypeOK, Pass, Admitted, Holders, Queue, Sleeping, Woken

LEMMA ThrowEffect ==
  ASSUME TypeOK, NEW t \in Threads, NEW mine, pc[t] \in {"idle", "woken"},
         Throw(t, mine)
  PROVE  Dropped(t, mine)
  BY DEF TypeOK, Throw, Dropped, Holders, Queue, Sleeping, Woken

LEMMA SleepEffect ==
  ASSUME TypeOK, NEW t \in Threads, NEW mine, pc[t] \in {"idle", "woken"},
         Sleep(t, mine)
  PROVE  Queued(t, mine)
  <1> USE DEF TypeOK, Holders, Queue, Sleeping, Woken
  <1>1. CASE pc' = [pc EXCEPT ![t] = "waiting"] /\ (count = 0 \/ Sleeping = {})
    BY <1>1 DEF Sleep, Queued
  <1>2. CASE \E u \in Sleeping : pc' = [pc EXCEPT ![t] = "waiting", ![u] = "woken"]
    <2>1. PICK u \in Sleeping : pc' = [pc EXCEPT ![t] = "waiting", ![u] = "woken"]
      BY <1>2
    <2>2. u # t /\ pc'[u] = "woken" /\ pc'[t] = "waiting" /\ pc[u] = "waiting"
          /\ \A v \in Threads \ {t, u} : pc'[v] = pc[v]
      BY <2>1
    <2> QED BY <2>2 DEF Sleep, Queued
  <1> QED BY <1>1, <1>2 DEF Sleep, GotoNotifying

LEMMA ReleaseEffect ==
  ASSUME TypeOK, NEW t \in Threads, Release(t)
  PROVE  Released(t)
  <1> USE DEF TypeOK, Release, Released, Holders, Queue, Sleeping, Woken
  <1>1. CASE Sleeping = {} /\ pc' = [pc EXCEPT ![t] = "idle"]
    BY <1>1
  <1>2. CASE \E u \in Sleeping : pc' = [pc EXCEPT ![t] = "idle", ![u] = "woken"]
    <2>1. PICK u \in Sleeping : pc' = [pc EXCEPT ![t] = "idle", ![u] = "woken"]
      BY <1>2
    <2>2. u # t /\ pc'[u] = "woken" /\ pc'[t] = "idle" /\ pc[u] = "waiting"
          /\ \A v \in Threads \ {t, u} : pc'[v] = pc[v]
      BY <2>1
    <2> QED BY <2>2
  <1> QED BY <1>1, <1>2 DEF GotoNotifying

(* A thread whose turn has not come leaves somebody queued before it,      *)
(* unless that one's callback has thrown.                                  *)
LEMMA TopIsQueued ==
  ASSUME top < ticket, ~Skipped
  PROVE  \E t \in Queue : thread_ticket[t] = top
  BY DEF Skipped

LEMMA QueueEmpty ==
  ASSUME IInv, ticket <= top
  PROVE  Queue = {}
  BY DEF IInv, TypeOK, TicketsContiguous, Queue, Sleeping, Woken

-----------------------------------------------------------------------------
LEMMA InitIInv == Init => IInv
  <1> SUFFICES ASSUME Init PROVE IInv
    OBVIOUS
  <1>1. Holders = {} /\ Queue = {}
    BY DEF Init, Holders, Queue, Sleeping, Woken
  <1>2. TypeOK /\ top <= ticket
    BY CountAssumption DEF Init, TypeOK, Labels
  <1>3. PermitsConserved
    BY <1>1, CountAssumption, FS_EmptySet DEF Init, PermitsConserved
  <1>4. TicketsContiguous /\ FreeSemaphoreWakes
    BY <1>1 DEF Init, TicketsContiguous, FreeSemaphoreWakes
  <1> QED BY <1>2, <1>3, <1>4 DEF IInv

LEMMA ConservedStep ==
  ASSUME IInv, NEW t \in Threads, NEW mine,
         Admitted(t, mine) \/ Released(t) \/ (UNCHANGED <<count, Holders>>)
  PROVE  PermitsConserved' /\ count' \in 0..InitialCount
  <1> USE CountAssumption, HoldersFinite DEF IInv, TypeOK, PermitsConserved
  <1>1. CASE Admitted(t, mine)
    <2>1. Cardinality(Holders') = Cardinality(Holders) + 1
      BY <1>1, FS_AddElement DEF Admitted
    <2> QED BY <1>1, <2>1 DEF Admitted
  <1>2. CASE Released(t)
    <2>1. Cardinality(Holders') = Cardinality(Holders) - 1 /\ Cardinality(Holders) # 0
      BY <1>2, FS_RemoveElement, FS_EmptySet DEF Released
    <2> QED BY <1>2, <2>1 DEF Released
  <1>3. CASE UNCHANGED <<count, Holders>>
    BY <1>3
  <1> QED BY <1>1, <1>2, <1>3

LEMMA AcquireIInv ==
  ASSUME IInv, NEW t \in Threads, Acquire(t)
  PROVE  IInv'
  <1> USE DEF IInv
  <1>1. t \notin Queue /\ t \notin Woken
    BY DEF Acquire, Queue, Sleeping, Woken
  <1>2. pc' \in [Threads -> Labels] /\ ticket' \in Nat /\ top' \in Nat
        /\ thread_ticket' \in [Threads -> Nat]
    BY DEF TypeOK, Acquire, Pass, Throw, Sleep, GotoNotifying, Labels
  <1>3. CASE Pass(t, ticket)
    <2>1. Admitted(t, ticket)
      BY <1>3, PassEffect DEF Acquire
    <2>2. Queue = {} /\ Queue' = {} /\ ticket = top
      BY <2>1, QueueEmpty DEF Admitted, TypeOK
    <2>3. TicketsContiguous' /\ top' <= ticket' /\ FreeSemaphoreWakes'
      BY <2>1, <2>2 DEF Acquire, Admitted, TypeOK, TicketsContiguous, FreeSemaphoreWakes
    <2> QED BY <1>2, <2>1, <2>3, ConservedStep DEF TypeOK
  <1>4. CASE Sleep(t, ticket)
    <2>1. Queued(t, ticket)
      BY <1>4, SleepEffect DEF Acquire
    <2>2. /\ ticket' = ticket + 1 /\ thread_ticket'[t] = ticket
          /\ \A u \in Threads \ {t} : thread_ticket'[u] = thread_ticket[u]
      BY DEF Acquire, TypeOK
    <2>3. TicketsContiguous'
      <3>1. \A u \in Queue : u # t /\ u \in Threads
        BY <1>1 DEF Queue, Sleeping, Woken
      <3> QED BY <2>1, <2>2, <3>1 DEF Queued, TypeOK, TicketsContiguous
    <2>4. FreeSemaphoreWakes'
      <3>1. CASE count = 0
        BY <2>1, <3>1, CountAssumption DEF Queued, FreeSemaphoreWakes
      <3>2. CASE count # 0 /\ Sleeping = {} /\ Woken' = Woken \ {t}
        <4>1. top < ticket
          BY <2>1, <3>2 DEF Queued, TypeOK
        <4>2. CASE Skipped'
          BY <4>2 DEF FreeSemaphoreWakes
        <4>3. CASE ~Skipped'
          <5>1. PICK u \in Queue' : thread_ticket'[u] = top
            BY <2>1, <2>2, <4>1, <4>3 DEF Queued, Skipped, TypeOK
          <5>2. u \in Queue /\ u # t
            BY <2>1, <2>2, <4>1, <5>1 DEF Queued, TypeOK
          <5> QED BY <1>1, <3>2, <5>2 DEF FreeSemaphoreWakes, Queue
        <4> QED BY <4>2, <4>3
      <3> QED BY <2>1, <3>1, <3>2 DEF Queued, FreeSemaphoreWakes
    <2>5. PermitsConserved' /\ count' \in 0..InitialCount
      BY <2>1, ConservedStep DEF Queued
    <2>6. top' <= ticket'
      BY <2>1, <2>2 DEF Queued, TypeOK
    <2> QED BY <1>2, <2>3, <2>4, <2>5, <2>6 DEF TypeOK
  <1>5. CASE Throw(t, ticket)
    <2>1. Dropped(t, ticket)
      BY <1>5, ThrowEffect DEF Acquire
    <2>2. Queue = {} /\ Queue' = {} /\ ticket = top
      BY <2>1, QueueEmpty DEF Dropped, TypeOK
    <2>3. TicketsContiguous' /\ top' <= ticket' /\ FreeSemaphoreWakes'
      BY <2>1, <2>2 DEF Acquire, Dropped, TypeOK, TicketsContiguous, FreeSemaphoreWakes
    <2>4. PermitsConserved' /\ count' \in 0..InitialCount
      BY <2>1, ConservedStep DEF Dropped
    <2> QED BY <1>2, <2>3, <2>4 DEF TypeOK
  <1> QED BY <1>3, <1>4, <1>5 DEF Acquire

LEMMA ResumeIInv ==
  ASSUME IInv, NEW t \in Threads, Resume(t)
  PROVE  IInv'
  <1> USE DEF IInv
  <1>1. t \in Queue /\ t \in Woken /\ UNCHANGED <<ticket, thread_ticket>>
    BY DEF Resume, Queue, Woken
  <1>2. pc' \in [Threads -> Labels] /\ ticket' \in Nat /\ top' \in Nat
        /\ thread_ticket' \in [Threads -> Nat]
    BY DEF TypeOK, Resume, Pass, Throw, Sleep, GotoNotifying, Labels
  <1>3. CASE Pass(t, thread_ticket[t])
    <2>1. Admitted(t, thread_ticket[t])
      BY <1>3, PassEffect DEF Resume
    <2>2. thread_ticket[t] = top /\ top < ticket
      BY <1>1, <2>1 DEF Admitted, TypeOK, TicketsContiguous
    <2>3. TicketsContiguous'
      BY <1>1, <2>1, <2>2 DEF Admitted, TypeOK, TicketsContiguous
    <2>4. top' <= ticket' /\ FreeSemaphoreWakes'
      BY <1>1, <2>1, <2>2, CountAssumption DEF Admitted, TypeOK, FreeSemaphoreWakes
    <2> QED BY <1>2, <2>1, <2>3, <2>4, ConservedStep DEF TypeOK
  <1>4. CASE Sleep(t, thread_ticket[t])
    <2>1. Queued(t, thread_ticket[t]) /\ Queue' = Queue
      BY <1>1, <1>4, SleepEffect DEF Resume, Queued
    <2>2. TicketsContiguous' /\ top' <= ticket'
      BY <1>1, <2>1 DEF Queued, TicketsContiguous
    <2>3. FreeSemaphoreWakes'
      <3>1. CASE count = 0
        BY <2>1, <3>1, CountAssumption DEF Queued, FreeSemaphoreWakes
      <3>2. CASE count # 0 /\ Sleeping = {} /\ Woken' = Woken \ {t}
        <4>1. top < thread_ticket[t] /\ top < ticket
          BY <1>1, <2>1, <3>2 DEF Queued, TypeOK, TicketsContiguous
        <4>2. CASE Skipped
          BY <1>1, <2>1, <4>2 DEF Queued, FreeSemaphoreWakes, Skipped
        <4>3. CASE ~Skipped
          <5>1. PICK u \in Queue : thread_ticket[u] = top
            BY <4>1, <4>3, TopIsQueued
          <5>2. u # t
            BY <4>1, <5>1 DEF TypeOK
          <5> QED BY <3>2, <5>1, <5>2 DEF FreeSemaphoreWakes, Queue
        <4> QED BY <4>2, <4>3
      <3> QED BY <2>1, <3>1, <3>2 DEF Queued, FreeSemaphoreWakes
    <2>4. PermitsConserved' /\ count' \in 0..InitialCount
      BY <2>1, ConservedStep DEF Queued
    <2> QED BY <1>2, <2>2, <2>3, <2>4 DEF TypeOK
  <1>5. CASE Throw(t, thread_ticket[t])
    <2>1. Dropped(t, thread_ticket[t])
      BY <1>5, ThrowEffect DEF Resume
    <2>2. thread_ticket[t] = top /\ top < ticket
      BY <1>1, <2>1 DEF Dropped, TypeOK, TicketsContiguous
    <2>3. TicketsContiguous' /\ top' <= ticket'
      BY <1>1, <2>1, <2>2 DEF Dropped, TypeOK, TicketsContiguous
    <2>4. FreeSemaphoreWakes'
      BY <1>1, <2>1, <2>2 DEF Dropped, Skipped, TicketsContiguous, FreeSemaphoreWakes
    <2>5. PermitsConserved' /\ count' \in 0..InitialCount
      BY <2>1, ConservedStep DEF Dropped
    <2> QED BY <1>2, <2>3, <2>4, <2>5 DEF TypeOK
  <1> QED BY <1>3, <1>4, <1>5 DEF Resume

LEMMA ReleaseIInv ==
  ASSUME IInv, NEW t \in Threads, Release(t)
  PROVE  IInv'
  <1> USE DEF IInv
  <1>1. Released(t)
    BY ReleaseEffect
  <1>2. pc' \in [Threads -> Labels]
    BY DEF TypeOK, Release, GotoNotifying, Labels
  <1>3. TicketsContiguous' /\ FreeSemaphoreWakes' /\ top' <= ticket'
    BY <1>1 DEF Released, TicketsContiguous, FreeSemaphoreWakes, Skipped
  <1>4. PermitsConserved' /\ count' \in 0..InitialCount
    BY <1>1, ConservedStep
  <1> QED BY <1>1, <1>2, <1>3, <1>4 DEF Released, TypeOK

LEMMA SpuriousIInv ==
  ASSUME IInv, NEW t \in Threads, Spurious(t)
  PROVE  IInv'
  <1> USE DEF IInv
  <1>1. Holders' = Holders /\ Queue' = Queue /\ Woken' # {}
        /\ UNCHANGED <<count, ticket, top, thread_ticket>>
    BY DEF Spurious, TypeOK, Holders, Queue, Sleeping, Woken
  <1>2. TypeOK'
    BY <1>1 DEF Spurious, TypeOK, Labels
  <1>3. PermitsConserved'
    BY <1>1, ConservedStep
  <1> QED BY <1>1, <1>2, <1>3 DEF TicketsContiguous, FreeSemaphoreWakes, Skipped

LEMMA StepIInv == IInv /\ [Next]_vars => IInv'
  <1> SUFFICES ASSUME IInv, [Next]_vars PROVE IInv'
    OBVIOUS
  <1>1. CASE UNCHANGED vars
    BY <1>1 DEF vars, IInv, TypeOK, PermitsConserved, TicketsContiguous,
                FreeSemaphoreWakes, Skipped, Holders, Queue, Sleeping, Woken
  <1> QED BY <1>1, AcquireIInv, ResumeIInv, ReleaseIInv, SpuriousIInv DEF Next

(* The invariant the other results rest on. *)
THEOREM Invariance == Spec => []IInv
  BY InitIInv, StepIInv, PTL DEF Spec

(* The counter never leaves 0 .. InitialCount. *)
THEOREM TypeCorrect == Spec => []TypeOK
  <1>1. IInv => TypeOK
    BY DEF IInv
  <1> QED BY <1>1, Invariance, PTL

(* Permits are neither lost nor made. *)
THEOREM Conservation == Spec => []PermitsConserved
  <1>1. IInv => PermitsConserved
    BY DEF IInv
  <1> QED BY <1>1, Invariance, PTL

(* The queued tickets are top .. ticket-1, one each. *)
THEOREM Tickets == Spec => []TicketsContiguous
  <1>1. IInv => TicketsContiguous
    BY DEF IInv
  <1> QED BY <1>1, Invariance, PTL

(* When every permit is free some queued thread is awake. *)
THEOREM BatonKept == Spec => []FreeSemaphoreWakes
  <1>1. IInv => FreeSemaphoreWakes
    BY DEF IInv
  <1> QED BY <1>1, Invariance, PTL

(* With a single permit the thread whose turn it is never sleeps beside    *)
(* it; with two it may, see the run semaphore_stranded.                    *)
THEOREM SinglePermitNotStranded ==
  ASSUME InitialCount = 1
  PROVE  Spec => []NoStrandedWaiter
  <1>1. IInv => NoStrandedWaiter
    BY DEF IInv, TypeOK, TicketsContiguous, FreeSemaphoreWakes, NoStrandedWaiter,
           Skipped, Queue
  <1> QED BY <1>1, Invariance, PTL

(* A callback that throws stops the semaphore for ever. *)
THEOREM ThrowStops == Spec => ThrowIsFatal
  <1>1. IInv /\ [Next]_vars => [Skipped => Skipped' /\ Holders' \subseteq Holders]_vars
    <2> SUFFICES ASSUME IInv, Next, Skipped PROVE Skipped' /\ Holders' \subseteq Holders
      BY DEF vars
    <2> USE DEF IInv
    <2>1. \A t \in Queue : top < thread_ticket[t]
      BY DEF Skipped, TicketsContiguous, TypeOK
    <2>2. ASSUME NEW t \in Threads, Acquire(t) PROVE Skipped' /\ Holders' \subseteq Holders
      <3>1. Queued(t, ticket)
        BY <2>2, PassEffect, ThrowEffect, SleepEffect
        DEF Acquire, Skipped, TypeOK, Admitted, Dropped
      <3> QED BY <2>2, <3>1 DEF Acquire, Queued, Skipped, TypeOK, Queue, Sleeping, Woken
    <2>3. ASSUME NEW t \in Threads, Resume(t) PROVE Skipped' /\ Holders' \subseteq Holders
      <3>1. t \in Queue /\ UNCHANGED <<ticket, thread_ticket>>
        BY <2>3 DEF Resume, Queue, Woken
      <3>2. Sleep(t, thread_ticket[t])
        BY <2>1, <2>3, <3>1 DEF Resume, Pass, Throw, TypeOK
      <3>3. Queued(t, thread_ticket[t])
        BY <2>3, <3>2, SleepEffect DEF Resume
      <3> QED BY <3>1, <3>3 DEF Queued, Skipped
    <2>4. ASSUME NEW t \in Threads, Release(t) PROVE Skipped' /\ Holders' \subseteq Holders
      BY <2>4, ReleaseEffect DEF Released, Skipped
    <2>5. ASSUME NEW t \in Threads, Spurious(t) PROVE Skipped' /\ Holders' \subseteq Holders
      BY <2>5 DEF Spurious, TypeOK, Skipped, Holders, Queue, Sleeping, Woken
    <2> QED BY <2>2, <2>3, <2>4, <2>5 DEF Next
  <1> QED BY <1>1, Invariance, PTL DEF Spec, ThrowIsFatal

-----------------------------------------------------------------------------
LEMMA InitRefines == Init => Abstract!Init
  <1> SUFFICES ASSUME Init PROVE Abstract!Init
    OBVIOUS
  <1>1. Holders = {} /\ Queue = {}
    BY DEF Init, Holders, Queue, Sleeping, Woken
  <1> QED BY <1>1 DEF Init, Abstract!Init

LEMMA StepRefines == IInv /\ [Next]_vars => [Abstract!Next]_(Abstract!vars)
  <1> SUFFICES ASSUME IInv, [Next]_vars PROVE [Abstract!Next]_(Abstract!vars)
    OBVIOUS
  <1> DEFINE Before(t) == {u \in Queue : thread_ticket[u] < thread_ticket[t]}
             ahead == [t \in Queue |-> Before(t)]
  <1>0. DOMAIN ahead = Queue
    OBVIOUS
  <1>1. CASE UNCHANGED vars
    BY <1>1 DEF vars, Abstract!vars, Holders, Queue, Sleeping, Woken
  <1>2. ASSUME NEW t \in Threads, Acquire(t) PROVE [Abstract!Next]_(Abstract!vars)
    <2>1. t \notin Queue /\ t \notin Holders
      BY <1>2 DEF Acquire, Queue, Sleeping, Woken, Holders
    <2>2. CASE Pass(t, ticket)
      <3>1. Admitted(t, ticket)
        BY <1>2, <2>2, PassEffect DEF Acquire, IInv
      <3>2. Queue = {} /\ Queue' = {}
        BY <3>1, QueueEmpty DEF Admitted
      <3>3. count > 0
        BY <3>1 DEF Admitted, IInv, TypeOK
      <3> QED BY <2>1, <3>1, <3>2, <3>3
              DEF Admitted, Abstract!Next, Abstract!Take, Abstract!Waiting
    <2>3. CASE Sleep(t, ticket)
      <3>1. Queued(t, ticket)
        BY <1>2, <2>3, SleepEffect DEF Acquire, IInv
      <3>2. /\ thread_ticket'[t] = ticket
            /\ \A u \in Queue : thread_ticket'[u] = thread_ticket[u]
                                /\ thread_ticket[u] \in Nat /\ thread_ticket[u] < ticket
        BY <1>2, <2>1
        DEF Acquire, IInv, TypeOK, TicketsContiguous, Queue, Sleeping, Woken
      <3>3. Before(t)' = Queue /\ \A u \in Queue : Before(u)' = Before(u)
        BY <2>1, <3>1, <3>2 DEF Queued, IInv, TypeOK
      <3>4. ahead' = [u \in Queue \cup {t} |-> IF u = t THEN Queue ELSE ahead[u]]
        BY <2>1, <3>1, <3>3 DEF Queued
      <3> QED BY <1>0, <2>1, <3>1, <3>4
              DEF Queued, Abstract!Next, Abstract!Arrive, Abstract!Waiting
    <2>4. CASE Throw(t, ticket)
      <3>1. Dropped(t, ticket)
        BY <1>2, <2>4, ThrowEffect DEF Acquire, IInv
      <3>2. Queue = {} /\ Queue' = {}
        BY <3>1, QueueEmpty DEF Dropped
      <3> QED BY <3>1, <3>2 DEF Dropped, Abstract!vars
    <2> QED BY <1>2, <2>2, <2>3, <2>4 DEF Acquire
  <1>3. ASSUME NEW t \in Threads, Resume(t) PROVE [Abstract!Next]_(Abstract!vars)
    <2>1. t \in Queue /\ UNCHANGED thread_ticket
      BY <1>3 DEF Resume, Queue, Woken
    <2>2. CASE Pass(t, thread_ticket[t])
      <3>1. Admitted(t, thread_ticket[t])
        BY <1>3, <2>2, PassEffect DEF Resume, IInv
      <3>2. count > 0 /\ Before(t) = {}
        BY <2>1, <3>1 DEF Admitted, IInv, TypeOK, TicketsContiguous
      <3>3. \A u \in Queue \ {t} : Before(u)' = Before(u) \ {t}
        BY <2>1, <3>1 DEF Admitted
      <3>4. ahead' = [u \in Queue \ {t} |-> ahead[u] \ {t}]
        BY <3>1, <3>3 DEF Admitted
      <3>5. ahead[t] = {}
        BY <2>1, <3>2
      <3> QED BY <1>0, <2>1, <3>1, <3>2, <3>4, <3>5
              DEF Admitted, Abstract!Next, Abstract!Take, Abstract!Waiting
    <2>3. CASE Sleep(t, thread_ticket[t])
      <3>1. Queued(t, thread_ticket[t]) /\ Queue' = Queue
        BY <1>3, <2>1, <2>3, SleepEffect DEF Resume, IInv, Queued
      <3> QED BY <2>1, <3>1 DEF Queued, Abstract!vars
    <2>4. CASE Throw(t, thread_ticket[t])
      <3>1. Dropped(t, thread_ticket[t])
        BY <1>3, <2>4, ThrowEffect DEF Resume, IInv
      <3>2. count > 0 /\ Before(t) = {}
        BY <2>1, <3>1 DEF Dropped, IInv, TypeOK, TicketsContiguous
      <3>3. \A u \in Queue \ {t} : Before(u)' = Before(u) \ {t}
        BY <2>1, <3>1 DEF Dropped
      <3>4. ahead' = [u \in Queue \ {t} |-> ahead[u] \ {t}]
        BY <3>1, <3>3 DEF Dropped
      <3>5. ahead[t] = {}
        BY <2>1, <3>2
      <3> QED BY <1>0, <2>1, <3>1, <3>2, <3>4, <3>5
              DEF Dropped, Abstract!Next, Abstract!Leave, Abstract!Waiting
    <2> QED BY <1>3, <2>2, <2>3, <2>4 DEF Resume
  <1>4. ASSUME NEW t \in Threads, Release(t) PROVE Abstract!Next
    <2>1. Released(t)
      BY <1>4, ReleaseEffect DEF IInv
    <2> QED BY <2>1 DEF Released, Abstract!Next, Abstract!Give
  <1>5. ASSUME NEW t \in Threads, Spurious(t) PROVE UNCHANGED Abstract!vars
    BY <1>5 DEF Spurious, IInv, TypeOK, Abstract!vars, Holders, Queue, Sleeping, Woken
  <1> QED BY <1>1, <1>2, <1>3, <1>4, <1>5 DEF Next

(* semaphore.h serves its waiters in the order of their tickets. *)
THEOREM FairnessRefinement == Spec => ImplementsFairSemaphore
  BY InitRefines, StepRefines, Invariance, PTL
  DEF Spec, ImplementsFairSemaphore, Abstract!Spec
=============================================================================

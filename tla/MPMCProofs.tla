------------------------------ MODULE MPMCProofs ------------------------------
(***************************************************************************)
(* Proofs about MPMC.tla for every set of threads and every size: claims   *)
(* are exclusive, element->data is race free, false is returned only for a *)
(* reason, and the ring is a bounded first in, first out queue.            *)
(***************************************************************************)
EXTENDS MPMC, SequenceTheorems, TLAPS

Holding(t) == Writing(t) \/ Reading(t)

Publishing(t) == pc[t] \in {"epublish", "dpublish"}

(* Every slot is in one of two laps: its element is there or is being      *)
(* written, or it is free or is being read.                                *)
SlotsCovered ==
  /\ \A p \in head..(tail - 1) :
       \/ epoch[Slot(p)] = p + 1
       \/ epoch[Slot(p)] = p /\ \E t \in Threads : Writing(t) /\ pos[t] = p
  /\ \A p \in tail..(head + MaxSize - 1) :
       \/ epoch[Slot(p)] = p
       \/ /\ epoch[Slot(p)] = p - MaxSize + 1
          /\ \E t \in Threads : Reading(t) /\ pos[t] = p - MaxSize

(* Who holds a slot has a position of its own next to the window, and the  *)
(* epoch says so.                                                          *)
HoldersPlaced ==
  /\ \A t \in Threads : Writing(t) =>
       pos[t] >= head /\ pos[t] < tail /\ epoch[SlotOf(t)] = pos[t]
  /\ \A t \in Threads : Reading(t) =>
       pos[t] < head /\ pos[t] + MaxSize >= tail /\ epoch[SlotOf(t)] = pos[t] + 1
  /\ \A t, u \in Threads :
       pos[t] = pos[u] /\ ((Writing(t) /\ Writing(u)) \/ (Reading(t) /\ Reading(u))) => t = u

(* Epochs never go back, so that an old position is never thought free and *)
(* a check that has succeeded stays true.                                  *)
ChecksLast ==
  /\ \A p \in 0..(head - 1) : epoch[Slot(p)] > p
  /\ \A t \in Threads :
       /\ pc[t] \in {"echeck", "ecas"} => pos[t] <= tail
       /\ pc[t] \in {"dcheck", "dcas"} => pos[t] <= head
       /\ pc[t] = "ecas" => epoch[SlotOf(t)] >= pos[t]
       /\ pc[t] = "dcas" => epoch[SlotOf(t)] > pos[t]

(* The last access to a slot is known to its holder, and to every thread   *)
(* whose compare_exchange can still succeed.  Unless somebody is about to  *)
(* publish, the epoch passes it on or everybody knows it.                  *)
ViewsPassedOn ==
  /\ \A s \in Slots :
       \/ s \in carried
       \/ \A t \in Threads : s \in fresh[t]
       \/ \E t \in Threads : Publishing(t) /\ SlotOf(t) = s
  /\ \A t \in Threads :
       /\ Holding(t) => SlotOf(t) \in fresh[t]
       /\ pc[t] = "ecas" /\ pos[t] = tail /\ epoch[SlotOf(t)] = pos[t] => SlotOf(t) \in fresh[t]
       /\ pc[t] = "dcas" /\ pos[t] = head /\ epoch[SlotOf(t)] = pos[t] + 1 => SlotOf(t) \in fresh[t]

(* Between head and tail there are values, and readers find one. *)
ValuesThere ==
  /\ \A t \in Threads : pc[t] \in {"echeck", "ecas", "write", "epublish", "dpublish"} => val[t] \in Values
  /\ \A t \in Threads : pc[t] = "read" => data[SlotOf(t)] \in Values
  /\ \A p \in head..(tail - 1) :
       (\A t \in Threads : pc[t] = "write" => pos[t] # p) => data[Slot(p)] \in Values

IInv ==
  /\ TypeOK
  /\ SlotsCovered
  /\ HoldersPlaced
  /\ ChecksLast
  /\ ViewsPassedOn
  /\ ValuesThere

-----------------------------------------------------------------------------
(* The ring: Slot is the remainder of a division, and positions less than  *)
(* a lap apart are in different slots.                                     *)
LEMMA DivMod ==
  ASSUME NEW p \in Nat
  PROVE  /\ p \div MaxSize \in Int
         /\ p = MaxSize * (p \div MaxSize) + Slot(p)
         /\ Slot(p) \in Slots
  BY SizeAssumption DEF Slot, Slots

LEMMA SmallMultiple ==
  ASSUME NEW k \in Int, -MaxSize < MaxSize * k, MaxSize * k < MaxSize
  PROVE  k = 0
  <1>1. CASE k >= 1
    BY <1>1, SizeAssumption
  <1>2. CASE k <= -1
    BY <1>2, SizeAssumption
  <1> QED BY <1>1, <1>2

LEMMA SlotOfNextLap ==
  ASSUME NEW p \in Nat
  PROVE  Slot(p + MaxSize) = Slot(p)
  <1> DEFINE d == p \div MaxSize
             e == (p + MaxSize) \div MaxSize
  <1>1. /\ d \in Int /\ p = MaxSize * d + Slot(p) /\ Slot(p) \in Slots
        /\ e \in Int /\ p + MaxSize = MaxSize * e + Slot(p + MaxSize)
        /\ Slot(p + MaxSize) \in Slots
    BY SizeAssumption, DivMod
  <1> HIDE DEF d, e
  <1>2. MaxSize * (d + 1 - e) = Slot(p + MaxSize) - Slot(p)
    BY <1>1, SizeAssumption DEF Slots
  <1>3. -MaxSize < MaxSize * (d + 1 - e) /\ MaxSize * (d + 1 - e) < MaxSize
    BY <1>1, <1>2, SizeAssumption DEF Slots
  <1>4. d + 1 - e = 0
    BY <1>1, <1>3, SmallMultiple
  <1> QED BY <1>1, <1>2, <1>4, SizeAssumption DEF Slots

LEMMA SlotsDiffer ==
  \A p, q \in Nat : p < q /\ Slot(p) = Slot(q) => p + MaxSize <= q
  <1> SUFFICES ASSUME NEW p \in Nat, NEW q \in Nat,
                      p < q, Slot(p) = Slot(q), q < p + MaxSize
               PROVE  FALSE
    BY SizeAssumption
  <1> DEFINE d == p \div MaxSize
             e == q \div MaxSize
  <1>1. /\ d \in Int /\ p = MaxSize * d + Slot(p) /\ Slot(p) \in Slots
        /\ e \in Int /\ q = MaxSize * e + Slot(q)
    BY DivMod
  <1> HIDE DEF d, e
  <1>2. MaxSize * (e - d) = q - p
    BY <1>1, SizeAssumption DEF Slots
  <1>3. e - d = 0
    BY <1>1, <1>2, SmallMultiple, SizeAssumption
  <1> QED BY <1>2, <1>3, SizeAssumption

LEMMA SlotType == \A p \in Nat : Slot(p) \in Slots
  BY DivMod

-----------------------------------------------------------------------------
(* The slot at tail_: when its epoch lets a producer pass, it is free.     *)
LEMMA TailSlot ==
  ASSUME IInv, epoch[Slot(tail)] >= tail
  PROVE  /\ tail < head + MaxSize /\ epoch[Slot(tail)] = tail
         /\ \A u \in Threads : Holding(u) => SlotOf(u) # Slot(tail)
  <1> USE SizeAssumption DEF IInv, TypeOK
  <1>1. tail < head + MaxSize
    <2> SUFFICES ASSUME tail = head + MaxSize PROVE FALSE
      OBVIOUS
    <2>1. Slot(tail) = Slot(head)
      BY SlotOfNextLap
    <2>2. head \in head..(tail - 1)
      OBVIOUS
    <2>3. epoch[Slot(head)] \in {head, head + 1}
      BY <2>2 DEF SlotsCovered
    <2> QED BY <2>1, <2>3
  <1>2. tail \in tail..(head + MaxSize - 1)
    BY <1>1
  <1>3. epoch[Slot(tail)] = tail
    BY <1>2 DEF SlotsCovered
  <1>4. ASSUME NEW u \in Threads, Holding(u), SlotOf(u) = Slot(tail) PROVE FALSE
    <2>1. CASE Writing(u)
      BY <1>3, <1>4, <2>1 DEF HoldersPlaced
    <2>2. CASE Reading(u)
      <3>1. pos[u] + 1 = tail /\ pos[u] \in Nat
        BY <1>3, <1>4, <2>2 DEF HoldersPlaced
      <3> QED BY <1>4, <3>1, SlotsDiffer DEF SlotOf
    <2> QED BY <1>4, <2>1, <2>2 DEF Holding
  <1> QED BY <1>1, <1>3, <1>4

(* The slot at head_: when its epoch lets a consumer pass, an element is   *)
(* there.                                                                  *)
LEMMA HeadSlot ==
  ASSUME IInv, epoch[Slot(head)] > head
  PROVE  /\ head < tail /\ epoch[Slot(head)] = head + 1
         /\ \A u \in Threads : Holding(u) => SlotOf(u) # Slot(head)
  <1> USE SizeAssumption DEF IInv, TypeOK
  <1>1. head < tail
    <2> SUFFICES ASSUME tail = head PROVE FALSE
      OBVIOUS
    <2>1. head \in tail..(head + MaxSize - 1)
      OBVIOUS
    <2>2. epoch[Slot(head)] \in {head, head - MaxSize + 1}
      BY <2>1 DEF SlotsCovered
    <2> QED BY <2>2
  <1>2. head \in head..(tail - 1)
    BY <1>1
  <1>3. epoch[Slot(head)] = head + 1
    BY <1>2 DEF SlotsCovered
  <1>4. ASSUME NEW u \in Threads, Holding(u), SlotOf(u) = Slot(head) PROVE FALSE
    <2>1. CASE Writing(u)
      <3>1. pos[u] = head + 1 /\ pos[u] \in Nat
        BY <1>3, <1>4, <2>1 DEF HoldersPlaced
      <3> QED BY <1>4, <3>1, SlotsDiffer DEF SlotOf
    <2>2. CASE Reading(u)
      BY <1>3, <1>4, <2>2 DEF HoldersPlaced
    <2> QED BY <1>4, <2>1, <2>2 DEF Holding
  <1> QED BY <1>1, <1>3, <1>4

(* Two holders have two slots. *)
LEMMA SlotHasOneHolder ==
  ASSUME IInv, NEW t \in Threads, NEW u \in Threads,
         Holding(t), Holding(u), SlotOf(t) = SlotOf(u)
  PROVE  t = u
  <1> USE SizeAssumption DEF IInv, TypeOK
  <1>1. pos[t] \in Nat /\ pos[u] \in Nat
    OBVIOUS
  <1>2. CASE Writing(t) /\ Writing(u)
    BY <1>2 DEF HoldersPlaced
  <1>3. CASE Reading(t) /\ Reading(u)
    BY <1>3 DEF HoldersPlaced
  <1>4. CASE Writing(t) /\ Reading(u)
    <2>1. pos[t] = pos[u] + 1
      BY <1>4 DEF HoldersPlaced
    <2> QED BY <1>1, <2>1, SlotsDiffer DEF SlotOf
  <1>5. CASE Reading(t) /\ Writing(u)
    <2>1. pos[u] = pos[t] + 1
      BY <1>5 DEF HoldersPlaced
    <2> QED BY <1>1, <2>1, SlotsDiffer DEF SlotOf
  <1> QED BY <1>2, <1>3, <1>4, <1>5 DEF Holding

(* Who comes to a slot that nobody holds learns of the last access to it.  *)
LEMMA FreeSlotSeen ==
  ASSUME IInv, NEW t \in Threads, AcquireView(t),
         \A u \in Threads : Holding(u) => SlotOf(u) # SlotOf(t)
  PROVE  SlotOf(t) \in fresh'[t]
  <1>1. SlotOf(t) \in Slots
    BY SlotType DEF IInv, TypeOK, SlotOf
  <1>2. SlotOf(t) \in carried \/ SlotOf(t) \in fresh[t]
    BY <1>1 DEF IInv, ViewsPassedOn, Publishing, Holding, Writing, Reading
  <1> QED BY <1>2 DEF AcquireView, IInv, TypeOK

-----------------------------------------------------------------------------
(* A step of t that claims, accesses and publishes nothing: it may learn   *)
(* of accesses, and its new position and label have to be justified.       *)
LEMMA LocalStep ==
  ASSUME IInv, NEW t \in Threads,
         UNCHANGED <<queue, carried>>,
         ~Holding(t), ~Holding(t)',
         pc' \in [Threads -> Labels], pos' \in [Threads -> Nat],
         val' \in [Threads -> Values \cup {None}],
         fresh' \in [Threads -> SUBSET Slots],
         \A u \in Threads \ {t} :
           pc'[u] = pc[u] /\ pos'[u] = pos[u] /\ val'[u] = val[u] /\ fresh'[u] = fresh[u],
         fresh[t] \subseteq fresh'[t],
         pc'[t] \in {"echeck", "ecas"} => pos'[t] <= tail /\ val'[t] \in Values,
         pc'[t] \in {"dcheck", "dcas"} => pos'[t] <= head,
         pc'[t] = "ecas" =>
           /\ epoch[Slot(pos'[t])] >= pos'[t]
           /\ pos'[t] = tail /\ epoch[Slot(tail)] = tail => Slot(tail) \in fresh'[t],
         pc'[t] = "dcas" =>
           /\ epoch[Slot(pos'[t])] > pos'[t]
           /\ pos'[t] = head /\ epoch[Slot(head)] = head + 1 => Slot(head) \in fresh'[t]
  PROVE  IInv'
  <1> USE SizeAssumption DEF IInv, queue
  <1>1. TypeOK'
    BY DEF TypeOK
  <1>2. /\ ~Writing(t) /\ ~Writing(t)' /\ ~Reading(t) /\ ~Reading(t)'
        /\ ~Publishing(t) /\ ~Publishing(t)'
        /\ pc'[t] \notin {"write", "epublish", "read", "dpublish"}
        /\ pc[t] \notin {"write", "epublish", "read", "dpublish"}
    BY DEF Holding, Writing, Reading, Publishing
  <1>3. \A u \in Threads \ {t} :
          /\ Writing(u)' <=> Writing(u)
          /\ Reading(u)' <=> Reading(u)
          /\ Publishing(u)' <=> Publishing(u)
          /\ Holding(u)' <=> Holding(u)
          /\ SlotOf(u)' = SlotOf(u)
    BY DEF Holding, Writing, Reading, Publishing, SlotOf
  <1>4. SlotsCovered'
    BY <1>2, <1>3 DEF SlotsCovered
  <1>5. HoldersPlaced'
    BY <1>2, <1>3 DEF HoldersPlaced
  <1>6. ChecksLast'
    BY <1>3 DEF ChecksLast, SlotOf
  <1>7. ViewsPassedOn'
    <2>1. ASSUME NEW s \in Slots
          PROVE  s \in carried \/ (\A u \in Threads : s \in fresh'[u])
                 \/ \E u \in Threads : Publishing(u)' /\ SlotOf(u)' = s
      BY <1>2, <1>3 DEF ViewsPassedOn
    <2>2. ASSUME NEW u \in Threads
          PROVE  /\ Holding(u)' => SlotOf(u)' \in fresh'[u]
                 /\ pc'[u] = "ecas" /\ pos'[u] = tail /\ epoch[SlotOf(u)'] = pos'[u]
                      => SlotOf(u)' \in fresh'[u]
                 /\ pc'[u] = "dcas" /\ pos'[u] = head /\ epoch[SlotOf(u)'] = pos'[u] + 1
                      => SlotOf(u)' \in fresh'[u]
      <3>1. CASE u = t
        BY <3>1 DEF SlotOf
      <3>2. CASE u # t
        BY <3>2, <1>3 DEF ViewsPassedOn
      <3> QED BY <3>1, <3>2
    <2> QED BY <2>1, <2>2 DEF ViewsPassedOn
  <1>8. ValuesThere'
    BY <1>2, <1>3 DEF ValuesThere, SlotOf
  <1> QED BY <1>1, <1>4, <1>5, <1>6, <1>7, <1>8

LEMMA StartStep ==
  ASSUME IInv, NEW t \in Threads, (\E v \in Values : Enqueue(t, v)) \/ Dequeue(t)
  PROVE  IInv'
  <1> USE DEF IInv, TypeOK, queue, Goto, Holding, Writing, Reading, Labels
  <1>1. CASE \E v \in Values : Enqueue(t, v)
    <2>1. PICK v \in Values : Enqueue(t, v)
      BY <1>1
    <2> QED BY <2>1, LocalStep DEF Enqueue
  <1>2. CASE Dequeue(t)
    BY <1>2, LocalStep DEF Dequeue
  <1> QED BY <1>1, <1>2

LEMMA ReturnStep ==
  ASSUME IInv, NEW t \in Threads, EnqueueFull(t) \/ DequeueEmpty(t)
  PROVE  IInv'
  <1> USE DEF IInv, TypeOK, queue, Goto, Return, AcquireView, Holding, Writing, Reading, Labels
  <1>1. SlotOf(t) \in Slots
    BY SlotType DEF SlotOf
  <1> QED BY <1>1, LocalStep DEF EnqueueFull, DequeueEmpty

LEMMA RetryStep ==
  ASSUME IInv, NEW t \in Threads, EnqueueRetry(t) \/ DequeueRetry(t)
  PROVE  IInv'
  <1> USE DEF IInv, TypeOK, queue, Goto, Holding, Writing, Reading, Labels
  <1>1. CASE EnqueueRetry(t)
    BY <1>1, LocalStep DEF EnqueueRetry, ValuesThere
  <1>2. CASE DequeueRetry(t)
    BY <1>2, LocalStep DEF DequeueRetry
  <1> QED BY <1>1, <1>2

LEMMA EnqueueCheckStep ==
  ASSUME IInv, NEW t \in Threads, EnqueueCheck(t)
  PROVE  IInv'
  <1> USE DEF IInv, TypeOK, queue, Goto, Holding, Writing, Reading, Labels
  <1>1. SlotOf(t) \in Slots
    BY SlotType DEF SlotOf
  <1>2. pos[t] = tail => SlotOf(t) \in fresh'[t]
    BY TailSlot, FreeSlotSeen DEF EnqueueCheck, SlotOf
  <1>3. fresh' \in [Threads -> SUBSET Slots] /\ fresh[t] \subseteq fresh'[t]
        /\ \A u \in Threads \ {t} : fresh'[u] = fresh[u]
    BY <1>1 DEF EnqueueCheck, AcquireView
  <1> QED BY <1>2, <1>3, LocalStep DEF EnqueueCheck, ValuesThere, ChecksLast, SlotOf

LEMMA DequeueCheckStep ==
  ASSUME IInv, NEW t \in Threads, DequeueCheck(t)
  PROVE  IInv'
  <1> USE DEF IInv, TypeOK, queue, Goto, Holding, Writing, Reading, Labels
  <1>1. SlotOf(t) \in Slots
    BY SlotType DEF SlotOf
  <1>2. epoch[SlotOf(t)] > pos[t]
    BY <1>1 DEF DequeueCheck
  <1>3. pos[t] = head => SlotOf(t) \in fresh'[t]
    BY <1>2, HeadSlot, FreeSlotSeen DEF DequeueCheck, SlotOf
  <1>4. fresh' \in [Threads -> SUBSET Slots] /\ fresh[t] \subseteq fresh'[t]
        /\ \A u \in Threads \ {t} : fresh'[u] = fresh[u]
    BY <1>1 DEF DequeueCheck, AcquireView
  <1> QED BY <1>2, <1>3, <1>4, LocalStep DEF DequeueCheck, ChecksLast, SlotOf

(* What the steps of a holder change for the others: nothing but their     *)
(* views of the slot of t.                                                 *)
Alone(t) ==
  \A u \in Threads \ {t} :
    /\ pc'[u] = pc[u] /\ pos'[u] = pos[u] /\ val'[u] = val[u]
    /\ Writing(u)' <=> Writing(u)
    /\ Reading(u)' <=> Reading(u)
    /\ Publishing(u)' <=> Publishing(u)
    /\ SlotOf(u)' = SlotOf(u)

LEMMA EnqueueClaimStep ==
  ASSUME IInv, NEW t \in Threads, EnqueueClaim(t)
  PROVE  IInv'
  <1> USE SizeAssumption DEF IInv, EnqueueClaim, Goto
  <1>1. TypeOK /\ pos[t] = tail /\ SlotOf(t) = Slot(tail) /\ epoch[Slot(tail)] >= tail
    BY DEF ChecksLast, TypeOK, SlotOf
  <1>2. /\ tail < head + MaxSize /\ epoch[Slot(tail)] = tail
        /\ \A u \in Threads : Holding(u) => SlotOf(u) # Slot(tail)
    BY <1>1, TailSlot
  <1>3. Alone(t)
    BY <1>1 DEF Alone, Writing, Reading, Publishing, SlotOf, TypeOK
  <1>4. /\ pc'[t] = "write" /\ ~Writing(t) /\ Writing(t)' /\ ~Reading(t) /\ ~Reading(t)'
        /\ ~Publishing(t) /\ ~Publishing(t)' /\ SlotOf(t)' = Slot(tail)
    BY <1>1 DEF Writing, Reading, Publishing, SlotOf, TypeOK
  <1>5. TypeOK'
    BY <1>1, <1>2 DEF TypeOK, Labels
  <1>6. SlotsCovered'
    <2>1. ASSUME NEW p \in head..tail
          PROVE  \/ epoch[Slot(p)] = p + 1
                 \/ epoch[Slot(p)] = p /\ \E u \in Threads : Writing(u)' /\ pos[u] = p
      <3>1. CASE p = tail
        BY <1>1, <1>2, <1>4, <3>1
      <3>2. CASE p # tail
        BY <1>1, <1>3, <1>4, <3>2 DEF SlotsCovered, Alone, TypeOK
      <3> QED BY <3>1, <3>2
    <2>2. ASSUME NEW p \in (tail + 1)..(head + MaxSize - 1)
          PROVE  \/ epoch[Slot(p)] = p
                 \/ /\ epoch[Slot(p)] = p - MaxSize + 1
                    /\ \E u \in Threads : Reading(u)' /\ pos[u] = p - MaxSize
      BY <1>1, <1>3, <1>4 DEF SlotsCovered, Alone, TypeOK
    <2> QED BY <1>1, <2>1, <2>2 DEF SlotsCovered, TypeOK
  <1>7. HoldersPlaced'
    <2>1. ASSUME NEW u \in Threads, Reading(u)'
          PROVE  pos[u] + MaxSize >= tail + 1
      <3>1. u # t /\ Reading(u) /\ pos[u] \in Nat /\ pos[u] + MaxSize >= tail
        BY <1>1, <1>3, <1>4, <2>1 DEF HoldersPlaced, Alone, TypeOK
      <3>2. pos[u] + MaxSize # tail
        BY <1>2, <3>1, SlotOfNextLap DEF SlotOf, Holding
      <3> QED BY <1>1, <3>1, <3>2 DEF TypeOK
    <2> QED BY <1>1, <1>2, <1>3, <1>4, <2>1 DEF HoldersPlaced, Alone, TypeOK
  <1>8. ChecksLast'
    BY <1>1, <1>3, <1>4 DEF ChecksLast, Alone, TypeOK
  <1>9. ViewsPassedOn'
    BY <1>1, <1>2, <1>3, <1>4 DEF ViewsPassedOn, ChecksLast, Alone, TypeOK, Holding
  <1>10. ValuesThere'
    BY <1>1, <1>3, <1>4 DEF ValuesThere, Alone, TypeOK
  <1> QED BY <1>5, <1>6, <1>7, <1>8, <1>9, <1>10

LEMMA DequeueClaimStep ==
  ASSUME IInv, NEW t \in Threads, DequeueClaim(t)
  PROVE  IInv'
  <1> USE SizeAssumption DEF IInv, DequeueClaim, Goto
  <1>1. TypeOK /\ pos[t] = head /\ SlotOf(t) = Slot(head) /\ epoch[Slot(head)] > head
    BY DEF ChecksLast, TypeOK, SlotOf
  <1>2. /\ head < tail /\ epoch[Slot(head)] = head + 1
        /\ \A u \in Threads : Holding(u) => SlotOf(u) # Slot(head)
    BY <1>1, HeadSlot
  <1>3. Alone(t)
    BY <1>1 DEF Alone, Writing, Reading, Publishing, SlotOf, TypeOK
  <1>4. /\ pc'[t] = "read" /\ ~Writing(t) /\ ~Writing(t)' /\ ~Reading(t) /\ Reading(t)'
        /\ ~Publishing(t) /\ ~Publishing(t)' /\ SlotOf(t)' = Slot(head)
    BY <1>1 DEF Writing, Reading, Publishing, SlotOf, TypeOK
  <1>5. TypeOK'
    BY <1>1, <1>2 DEF TypeOK, Labels
  <1>6. SlotsCovered'
    <2>1. ASSUME NEW p \in (head + 1)..(tail - 1)
          PROVE  \/ epoch[Slot(p)] = p + 1
                 \/ epoch[Slot(p)] = p /\ \E u \in Threads : Writing(u)' /\ pos[u] = p
      BY <1>1, <1>3, <1>4 DEF SlotsCovered, Alone, TypeOK
    <2>2. ASSUME NEW p \in tail..(head + MaxSize)
          PROVE  \/ epoch[Slot(p)] = p
                 \/ /\ epoch[Slot(p)] = p - MaxSize + 1
                    /\ \E u \in Threads : Reading(u)' /\ pos[u] = p - MaxSize
      <3>1. CASE p = head + MaxSize
        <4>1. Slot(p) = Slot(head)
          BY <1>1, <3>1, SlotOfNextLap DEF TypeOK
        <4> QED BY <1>1, <1>2, <1>4, <3>1, <4>1 DEF TypeOK
      <3>2. CASE p # head + MaxSize
        BY <1>1, <1>3, <1>4, <3>2 DEF SlotsCovered, Alone, TypeOK
      <3> QED BY <3>1, <3>2
    <2>3. (head + 1) + MaxSize - 1 = head + MaxSize
      BY <1>1 DEF TypeOK
    <2> QED BY <1>1, <2>1, <2>2, <2>3 DEF SlotsCovered, TypeOK
  <1>7. HoldersPlaced'
    <2>1. ASSUME NEW u \in Threads, Writing(u)'
          PROVE  pos[u] >= head + 1
      BY <1>1, <1>2, <1>3, <1>4, <2>1 DEF HoldersPlaced, Alone, TypeOK, Holding, SlotOf
    <2> QED BY <1>1, <1>2, <1>3, <1>4, <2>1 DEF HoldersPlaced, Alone, TypeOK
  <1>8. ChecksLast'
    BY <1>1, <1>3, <1>4 DEF ChecksLast, Alone, TypeOK
  <1>9. ViewsPassedOn'
    BY <1>1, <1>2, <1>3, <1>4 DEF ViewsPassedOn, ChecksLast, Alone, TypeOK, Holding
  <1>10. ValuesThere'
    <2>1. \A u \in Threads : pc[u] = "write" => pos[u] # head
      BY <1>1, <1>2 DEF Holding, Writing, SlotOf
    <2>2. data[Slot(head)] \in Values
      BY <1>1, <1>2, <2>1 DEF ValuesThere, TypeOK
    <2> QED BY <1>1, <1>3, <1>4, <2>2 DEF ValuesThere, Alone, TypeOK
  <1> QED BY <1>5, <1>6, <1>7, <1>8, <1>9, <1>10

LEMMA AccessStep ==
  ASSUME IInv, NEW t \in Threads, Write(t) \/ Read(t)
  PROVE  IInv'
  <1> USE SizeAssumption DEF IInv, Goto
  <1>1. TypeOK /\ SlotOf(t) \in Slots /\ Access(t) /\ UNCHANGED <<head, tail, epoch, pos>>
    BY SlotType DEF Write, Read, SlotOf, TypeOK, queue
  <1>2. Alone(t)
    BY <1>1 DEF Write, Read, Alone, Writing, Reading, Publishing, SlotOf, TypeOK
  <1>3. /\ Holding(t) /\ Publishing(t)' /\ SlotOf(t)' = SlotOf(t)
        /\ Writing(t)' <=> Writing(t)
        /\ Reading(t)' <=> Reading(t)
    BY <1>1 DEF Write, Read, Holding, Writing, Reading, Publishing, SlotOf, TypeOK
  <1>4. \A u \in Threads \ {t} : Holding(u) => SlotOf(u) # SlotOf(t)
    BY <1>3, SlotHasOneHolder
  <1>5. TypeOK'
    <2>1. fresh' \in [Threads -> SUBSET Slots] /\ carried' \in SUBSET Slots
      BY <1>1 DEF Access, TypeOK
    <2>2. CASE Write(t)
      BY <1>1, <2>1, <2>2 DEF Write, TypeOK, Labels
    <2>3. CASE Read(t)
      BY <1>1, <2>1, <2>3 DEF Read, TypeOK, Labels, ValuesThere, queue
    <2> QED BY <2>2, <2>3
  <1>6. SlotsCovered'
    BY <1>1, <1>2, <1>3 DEF SlotsCovered, Alone
  <1>7. HoldersPlaced'
    BY <1>1, <1>2, <1>3 DEF HoldersPlaced, Alone
  <1>8. ChecksLast'
    BY <1>1, <1>2, <1>3 DEF ChecksLast, Alone, Publishing
  <1>9. ViewsPassedOn'
    <2>1. ASSUME NEW s \in Slots
          PROVE  s \in carried' \/ (\A u \in Threads : s \in fresh'[u])
                 \/ \E u \in Threads : Publishing(u)' /\ SlotOf(u)' = s
      <3>1. CASE s = SlotOf(t)
        BY <1>3, <3>1
      <3>2. CASE s # SlotOf(t)
        <4>1. ~(Publishing(t) /\ SlotOf(t) = s)
          BY <3>2
        <4>2. CASE s \in carried \/ \A u \in Threads : s \in fresh[u]
          BY <1>1, <3>2, <4>2 DEF Access, TypeOK
        <4>3. CASE \E u \in Threads : Publishing(u) /\ SlotOf(u) = s
          BY <1>2, <4>1, <4>3 DEF Alone
        <4> QED BY <4>2, <4>3 DEF ViewsPassedOn
      <3> QED BY <3>1, <3>2
    <2>2. SlotOf(t) \in fresh'[t]
      BY <1>1 DEF Access, TypeOK
    <2>3. ASSUME NEW u \in Threads, u # t
          PROVE  /\ Holding(u)' => SlotOf(u)' \in fresh'[u]
                 /\ pc'[u] = "ecas" /\ pos'[u] = tail' /\ epoch'[SlotOf(u)'] = pos'[u]
                      => SlotOf(u)' \in fresh'[u]
                 /\ pc'[u] = "dcas" /\ pos'[u] = head' /\ epoch'[SlotOf(u)'] = pos'[u] + 1
                      => SlotOf(u)' \in fresh'[u]
      <3>1. /\ fresh'[u] = fresh[u] \ {SlotOf(t)} /\ pc'[u] = pc[u] /\ pos'[u] = pos[u]
            /\ SlotOf(u)' = SlotOf(u)
            /\ Holding(u)' <=> Holding(u)
        BY <1>1, <1>2, <2>3 DEF Access, Alone, TypeOK, Holding
      <3>2. Holding(u)' => SlotOf(u)' \in fresh'[u]
        <4>1. Holding(u) => SlotOf(u) \in fresh[u] /\ SlotOf(u) # SlotOf(t)
          BY <1>4, <2>3 DEF ViewsPassedOn
        <4> QED BY <3>1, <4>1
      <3>3. ASSUME pc[u] = "ecas", pos[u] = tail, epoch[SlotOf(u)] = pos[u]
            PROVE  SlotOf(u) \in fresh'[u]
        <4>1. SlotOf(u) = Slot(tail) /\ epoch[Slot(tail)] >= tail
          BY <1>1, <3>3 DEF SlotOf, TypeOK
        <4>2. SlotOf(t) # SlotOf(u)
          BY <1>3, <4>1, TailSlot
        <4> QED BY <3>1, <3>3, <4>2 DEF ViewsPassedOn
      <3>4. ASSUME pc[u] = "dcas", pos[u] = head, epoch[SlotOf(u)] = pos[u] + 1
            PROVE  SlotOf(u) \in fresh'[u]
        <4>1. SlotOf(u) = Slot(head) /\ epoch[Slot(head)] > head
          BY <1>1, <3>4 DEF SlotOf, TypeOK
        <4>2. SlotOf(t) # SlotOf(u)
          BY <1>3, <4>1, HeadSlot
        <4> QED BY <3>1, <3>4, <4>2 DEF ViewsPassedOn
      <3>5. epoch' = epoch /\ head' = head /\ tail' = tail
        BY <1>1
      <3> HIDE DEF IInv, SlotOf
      <3> QED BY <3>1, <3>2, <3>3, <3>4, <3>5
    <2> QED BY <1>3, <2>1, <2>2, <2>3 DEF ViewsPassedOn, Publishing
  <1>10. ValuesThere'
    <2>1. CASE Write(t)
      <3>1. /\ val[t] \in Values /\ Writing(t) /\ pos[t] \in Nat /\ data' = [data EXCEPT ![SlotOf(t)] = val[t]]
            /\ val' = val /\ pc'[t] = "epublish"
        BY <1>1, <2>1 DEF Write, ValuesThere, Writing, TypeOK
      <3>2. ASSUME NEW u \in Threads, pc'[u] = "read"
            PROVE  data'[SlotOf(u)'] \in Values
        BY <1>1, <1>2, <1>4, <3>1, <3>2 DEF ValuesThere, Alone, Holding, Reading, TypeOK
      <3>3. ASSUME NEW p \in head..(tail - 1), \A u \in Threads : pc'[u] = "write" => pos[u] # p
            PROVE  data'[Slot(p)] \in Values
        <4>0. Slot(p) \in Slots
          BY <1>1, SlotType DEF TypeOK
        <4>1. CASE Slot(p) = SlotOf(t)
          BY <1>1, <3>1, <4>0, <4>1 DEF TypeOK
        <4>2. CASE Slot(p) # SlotOf(t)
          BY <1>1, <1>2, <3>1, <3>3, <4>0, <4>2 DEF ValuesThere, Alone, TypeOK, SlotOf
        <4> QED BY <4>1, <4>2
      <3> QED BY <1>1, <1>2, <3>1, <3>2, <3>3 DEF ValuesThere, Alone
    <2>2. CASE Read(t)
      BY <1>1, <1>2, <2>2 DEF Read, ValuesThere, Alone, TypeOK, SlotOf, queue
    <2> QED BY <2>1, <2>2
  <1> QED BY <1>5, <1>6, <1>7, <1>8, <1>9, <1>10

(* The effect of a fetch_add that hands the slot of t to the next lap.     *)
LEMMA PublishEffect ==
  ASSUME IInv, NEW t \in Threads, EnqueuePublish(t) \/ DequeuePublish(t)
  PROVE  /\ UNCHANGED <<head, tail, data, fresh>> /\ Alone(t) /\ TypeOK'
         /\ Holding(t) /\ ~Holding(t)' /\ pc'[t] = "idle" /\ SlotOf(t) \in Slots
         /\ epoch' = [epoch EXCEPT ![SlotOf(t)] =
                        IF Writing(t) THEN pos[t] + 1 ELSE pos[t] + MaxSize]
         /\ epoch'[SlotOf(t)] > epoch[SlotOf(t)]
         /\ carried' = carried \cup {SlotOf(t)}
  <1> USE SizeAssumption DEF IInv, Goto, Return, FetchAddEpoch
  <1>1. /\ TypeOK /\ SlotOf(t) \in Slots /\ Holding(t) /\ SlotOf(t) \in fresh[t]
        /\ UNCHANGED <<head, tail, data, fresh>> /\ pc'[t] = "idle" /\ ~Holding(t)'
        /\ carried' = carried \cup {SlotOf(t)}
    BY SlotType DEF EnqueuePublish, DequeuePublish, SlotOf, TypeOK, ViewsPassedOn,
                    Holding, Writing, Reading
  <1>2. Alone(t)
    BY <1>1 DEF EnqueuePublish, DequeuePublish, Alone, Writing, Reading, Publishing,
                SlotOf, TypeOK
  <1>3. /\ epoch' = [epoch EXCEPT ![SlotOf(t)] =
                       IF Writing(t) THEN pos[t] + 1 ELSE pos[t] + MaxSize]
        /\ epoch'[SlotOf(t)] > epoch[SlotOf(t)] /\ epoch' \in [Slots -> Nat]
    <2>1. CASE EnqueuePublish(t)
      <3>1. Writing(t) /\ epoch[SlotOf(t)] = pos[t] /\ pos[t] \in Nat
        BY <2>1 DEF EnqueuePublish, Writing, HoldersPlaced, TypeOK
      <3> QED BY <1>1, <2>1, <3>1 DEF EnqueuePublish, TypeOK
    <2>2. CASE DequeuePublish(t)
      <3>1. Reading(t) /\ ~Writing(t) /\ epoch[SlotOf(t)] = pos[t] + 1 /\ pos[t] \in Nat
        BY <2>2 DEF DequeuePublish, Writing, Reading, HoldersPlaced, TypeOK
      <3>2. epoch[SlotOf(t)] + (MaxSize - 1) = pos[t] + MaxSize
            /\ pos[t] + MaxSize > pos[t] + 1 /\ pos[t] + MaxSize \in Nat
        BY <3>1
      <3> QED BY <1>1, <2>2, <3>1, <3>2 DEF DequeuePublish, TypeOK
    <2> QED BY <2>1, <2>2
  <1>4. TypeOK'
    BY <1>1, <1>3 DEF EnqueuePublish, DequeuePublish, TypeOK, Labels
  <1> QED BY <1>1, <1>2, <1>3, <1>4

LEMMA PublishStep ==
  ASSUME IInv, NEW t \in Threads, EnqueuePublish(t) \/ DequeuePublish(t)
  PROVE  IInv'
  <1> USE SizeAssumption DEF IInv
  <1>1. /\ UNCHANGED <<head, tail, data, fresh>> /\ Alone(t) /\ TypeOK'
        /\ Holding(t) /\ ~Holding(t)' /\ pc'[t] = "idle" /\ SlotOf(t) \in Slots
        /\ epoch' = [epoch EXCEPT ![SlotOf(t)] =
                       IF Writing(t) THEN pos[t] + 1 ELSE pos[t] + MaxSize]
        /\ epoch'[SlotOf(t)] > epoch[SlotOf(t)]
        /\ carried' = carried \cup {SlotOf(t)}
    BY PublishEffect
  <1>2. pos[t] \in Nat /\ head \in Nat /\ tail \in Nat /\ head <= tail /\ tail <= head + MaxSize
    BY DEF TypeOK
  <1>3. \A u \in Threads \ {t} : Holding(u) => SlotOf(u) # SlotOf(t)
    BY <1>1, SlotHasOneHolder
  <1>4. \A s \in Slots : /\ epoch[s] \in Nat /\ epoch'[s] \in Nat /\ epoch'[s] >= epoch[s]
                         /\ s # SlotOf(t) => epoch'[s] = epoch[s]
    BY <1>1 DEF TypeOK
  <1>5. ~Writing(t)' /\ ~Reading(t)' /\ ~Publishing(t)' /\ pc[t] \in {"epublish", "dpublish"}
    <2>1. pc[t] \in {"epublish", "dpublish"}
      BY DEF EnqueuePublish, DequeuePublish
    <2> QED BY <1>1, <2>1 DEF Writing, Reading, Publishing
  <1>6. SlotsCovered'
    <2>1. ASSUME NEW p \in head..(tail - 1)
          PROVE  \/ epoch'[Slot(p)] = p + 1
                 \/ epoch'[Slot(p)] = p /\ \E u \in Threads : Writing(u)' /\ pos'[u] = p
      <3>0. p \in Nat /\ Slot(p) \in Slots
        BY <1>2, SlotType
      <3>1. CASE Slot(p) = SlotOf(t) /\ Writing(t)
        <4>1. p = pos[t]
          BY <1>2, <3>0, <3>1, SlotsDiffer DEF HoldersPlaced, SlotOf
        <4> QED BY <1>1, <3>1, <4>1 DEF TypeOK
      <3>2. CASE Slot(p) = SlotOf(t) /\ Reading(t)
        <4>1. pos[t] < p /\ p < pos[t] + MaxSize
          BY <1>2, <3>0, <3>2 DEF HoldersPlaced
        <4> QED BY <1>2, <3>0, <3>2, <4>1, SlotsDiffer DEF SlotOf
      <3>3. CASE Slot(p) # SlotOf(t)
        <4>1. epoch'[Slot(p)] = epoch[Slot(p)]
          BY <1>4, <3>0, <3>3
        <4>2. \A u \in Threads : Writing(u) /\ pos[u] = p => Writing(u)' /\ pos'[u] = p
          BY <1>1, <3>3 DEF SlotOf, Alone
        <4> QED BY <4>1, <4>2 DEF SlotsCovered
      <3> QED BY <1>1, <3>1, <3>2, <3>3 DEF Holding
    <2>2. ASSUME NEW p \in tail..(head + MaxSize - 1)
          PROVE  \/ epoch'[Slot(p)] = p
                 \/ /\ epoch'[Slot(p)] = p - MaxSize + 1
                    /\ \E u \in Threads : Reading(u)' /\ pos'[u] = p - MaxSize
      <3>0. p \in Nat /\ Slot(p) \in Slots
        BY <1>2, SlotType
      <3>1. CASE Slot(p) = SlotOf(t) /\ Writing(t)
        <4>1. pos[t] < p /\ p < pos[t] + MaxSize
          BY <1>2, <3>0, <3>1 DEF HoldersPlaced
        <4> QED BY <1>2, <3>0, <3>1, <4>1, SlotsDiffer DEF SlotOf
      <3>2. CASE Slot(p) = SlotOf(t) /\ Reading(t)
        <4>1. ~Writing(t) /\ pos[t] + MaxSize \in Nat /\ Slot(pos[t] + MaxSize) = Slot(p)
              /\ tail <= pos[t] + MaxSize /\ pos[t] + MaxSize < head + MaxSize
          BY <1>2, <3>2, SlotOfNextLap DEF HoldersPlaced, SlotOf, Writing, Reading
        <4>2. p = pos[t] + MaxSize
          BY <1>2, <3>0, <4>1, SlotsDiffer
        <4> QED BY <1>1, <3>2, <4>1, <4>2 DEF TypeOK
      <3>3. CASE Slot(p) # SlotOf(t)
        <4>1. epoch'[Slot(p)] = epoch[Slot(p)]
          BY <1>4, <3>0, <3>3
        <4>2. ASSUME NEW u \in Threads, Reading(u), pos[u] = p - MaxSize
              PROVE  Reading(u)' /\ pos'[u] = p - MaxSize
          <5>1. pos[u] \in Nat /\ pos[u] + MaxSize = p
            BY <3>0, <4>2 DEF TypeOK
          <5>2. SlotOf(u) = Slot(p)
            BY <5>1, SlotOfNextLap DEF SlotOf
          <5> QED BY <1>1, <3>3, <4>2, <5>2 DEF Alone
        <4> QED BY <4>1, <4>2 DEF SlotsCovered
      <3> QED BY <1>1, <3>1, <3>2, <3>3 DEF Holding
    <2> QED BY <1>1, <2>1, <2>2 DEF SlotsCovered
  <1>7. HoldersPlaced'
    <2>1. \A u \in Threads \ {t} : Holding(u) => SlotOf(u) \in Slots /\ epoch'[SlotOf(u)] = epoch[SlotOf(u)]
      BY <1>3, <1>4, SlotType DEF SlotOf, TypeOK
    <2> QED BY <1>1, <1>5, <2>1 DEF HoldersPlaced, Alone, Holding
  <1>8. ChecksLast'
    <2>1. ASSUME NEW p \in 0..(head - 1) PROVE epoch'[Slot(p)] > p
      <3>1. p \in Nat /\ Slot(p) \in Slots /\ epoch[Slot(p)] > p
        BY <1>2, SlotType DEF ChecksLast
      <3> QED BY <1>4, <3>1
    <2>2. ASSUME NEW u \in Threads \ {t}
          PROVE  /\ pc'[u] = "ecas" => epoch'[SlotOf(u)'] >= pos'[u]
                 /\ pc'[u] = "dcas" => epoch'[SlotOf(u)'] > pos'[u]
      <3>1. pos[u] \in Nat /\ SlotOf(u) \in Slots
        BY SlotType DEF SlotOf, TypeOK
      <3>2. pc'[u] = pc[u] /\ pos'[u] = pos[u] /\ SlotOf(u)' = SlotOf(u)
        BY <1>1 DEF Alone
      <3> QED BY <1>4, <3>1, <3>2 DEF ChecksLast
    <2> QED BY <1>1, <2>1, <2>2 DEF ChecksLast, Alone
  <1>9. ViewsPassedOn'
    <2>1. ASSUME NEW s \in Slots
          PROVE  s \in carried' \/ (\A u \in Threads : s \in fresh'[u])
                 \/ \E u \in Threads : Publishing(u)' /\ SlotOf(u)' = s
      BY <1>1 DEF ViewsPassedOn, Alone
    <2>2. ASSUME NEW u \in Threads \ {t}
          PROVE  /\ Holding(u)' => SlotOf(u)' \in fresh'[u]
                 /\ pc'[u] = "ecas" /\ pos'[u] = tail /\ epoch'[SlotOf(u)'] = pos'[u]
                      => SlotOf(u)' \in fresh'[u]
                 /\ pc'[u] = "dcas" /\ pos'[u] = head /\ epoch'[SlotOf(u)'] = pos'[u] + 1
                      => SlotOf(u)' \in fresh'[u]
      <3>1. /\ pos[u] \in Nat /\ SlotOf(u) \in Slots
            /\ epoch'[SlotOf(u)] >= epoch[SlotOf(u)] /\ epoch[SlotOf(u)] \in Nat
            /\ epoch'[SlotOf(u)] \in Nat
        BY <1>4, SlotType DEF SlotOf, TypeOK
      <3>2. /\ pc'[u] = pc[u] /\ pos'[u] = pos[u] /\ SlotOf(u)' = SlotOf(u) /\ fresh' = fresh
            /\ Holding(u)' <=> Holding(u)
        BY <1>1 DEF Alone, Holding
      <3>3. pc[u] = "ecas" /\ epoch'[SlotOf(u)] = pos[u] => epoch[SlotOf(u)] = pos[u]
        BY <3>1 DEF ChecksLast
      <3>4. pc[u] = "dcas" /\ epoch'[SlotOf(u)] = pos[u] + 1 => epoch[SlotOf(u)] = pos[u] + 1
        BY <3>1 DEF ChecksLast
      <3> QED BY <3>2, <3>3, <3>4 DEF ViewsPassedOn
    <2> QED BY <1>1, <2>1, <2>2 DEF ViewsPassedOn
  <1>10. ValuesThere'
    BY <1>1, <1>5 DEF ValuesThere, Alone
  <1> QED BY <1>1, <1>6, <1>7, <1>8, <1>9, <1>10

-----------------------------------------------------------------------------
LEMMA InitIInv == Init => IInv
  <1> SUFFICES ASSUME Init PROVE IInv
    OBVIOUS
  <1> USE SizeAssumption DEF Init
  <1>1. \A s \in Slots : Slot(s) = s
    BY DEF Slot, Slots
  <1>2. TypeOK
    BY DEF TypeOK, Slots, Labels
  <1>3. SlotsCovered
    BY <1>1 DEF SlotsCovered, Slots
  <1>4. HoldersPlaced /\ ChecksLast /\ ViewsPassedOn /\ ValuesThere
    BY DEF HoldersPlaced, ChecksLast, ViewsPassedOn, ValuesThere, Holding, Writing, Reading
  <1> QED BY <1>2, <1>3, <1>4 DEF IInv

LEMMA StutterStep == ASSUME IInv, UNCHANGED vars PROVE IInv'
  BY DEF vars, IInv, TypeOK, SlotsCovered, HoldersPlaced, ChecksLast, ViewsPassedOn, ValuesThere,
         Holding, Writing, Reading, Publishing, SlotOf

LEMMA NextIInv == IInv /\ [Next]_vars => IInv'
  <1> SUFFICES ASSUME IInv, [Next]_vars PROVE IInv'
    OBVIOUS
  <1>1. CASE UNCHANGED vars
    BY <1>1, StutterStep
  <1>2. ASSUME NEW t \in Threads, (\E v \in Values : Enqueue(t, v)) \/ Dequeue(t) \/ InCall(t)
        PROVE  IInv'
    BY <1>2, StartStep, ReturnStep, RetryStep, EnqueueCheckStep, DequeueCheckStep,
       EnqueueClaimStep, DequeueClaimStep, AccessStep, PublishStep DEF InCall, InEnqueue, InDequeue
  <1> QED BY <1>1, <1>2 DEF Next

LEMMA Invariance == Spec => []IInv
  BY InitIInv, NextIInv, PTL DEF Spec

(* A thread that has claimed a position has the slot for itself, and the   *)
(* epoch stands still until it moves it, for any number of producers and   *)
(* consumers: the claims by compare_exchange and the late publications by  *)
(* fetch_add fit together.                                                 *)
THEOREM Exclusiveness == Spec => []ClaimsExclusive
  <1>1. IInv => ClaimsExclusive
    <2> SUFFICES ASSUME IInv PROVE ClaimsExclusive
      OBVIOUS
    <2>1. \A t, u \in Threads : Holding(t) /\ Holding(u) /\ SlotOf(t) = SlotOf(u) => t = u
      BY SlotHasOneHolder
    <2> QED BY <2>1 DEF IInv, HoldersPlaced, ClaimsExclusive, Holding
  <1> QED BY <1>1, Invariance, PTL

(* The writes and reads of element->data are ordered by the acquire loads  *)
(* and the release fetch_adds of the epochs.                               *)
THEOREM DataRaceFree == Spec => []NoDataRace
  <1>1. IInv => NoDataRace
    BY DEF IInv, ViewsPassedOn, NoDataRace, Holding, Writing, Reading
  <1> QED BY <1>1, Invariance, PTL

(* Enqueue and Dequeue return false only for a full or empty queue or an   *)
(* element that another thread has in its hands, however old the position  *)
(* was that the relaxed load has returned.                                 *)
THEOREM FalseJustified == Spec => []FalseIsJustified
  <1>1. ASSUME IInv, NEW t \in Threads, pc[t] = "echeck", pos[t] > epoch[SlotOf(t)]
        PROVE  \/ tail = head + MaxSize
               \/ \E u \in Threads : Reading(u) /\ pos[u] + MaxSize = tail
    <2> USE <1>1, SizeAssumption DEF IInv, TypeOK
    <2>1. /\ pos[t] \in Nat /\ pos[t] <= tail /\ SlotOf(t) = Slot(pos[t])
          /\ epoch[SlotOf(t)] \in Nat
      BY SlotType DEF ChecksLast, SlotOf
    <2>2. pos[t] >= head
      BY <2>1 DEF ChecksLast
    <2>3. pos[t] = tail
      BY <2>1, <2>2 DEF SlotsCovered
    <2>4. ASSUME tail # head + MaxSize
          PROVE  \E u \in Threads : Reading(u) /\ pos[u] + MaxSize = tail
      BY <2>1, <2>3, <2>4 DEF SlotsCovered
    <2> QED BY <2>4
  <1>2. ASSUME IInv, NEW t \in Threads, pc[t] = "dcheck", pos[t] + 1 > epoch[SlotOf(t)]
        PROVE  \/ head = tail
               \/ \E u \in Threads : Writing(u) /\ pos[u] = head
    <2> USE <1>2, SizeAssumption DEF IInv, TypeOK
    <2>1. /\ pos[t] \in Nat /\ pos[t] <= head /\ SlotOf(t) = Slot(pos[t])
          /\ epoch[SlotOf(t)] \in Nat
      BY SlotType DEF ChecksLast, SlotOf
    <2>2. pos[t] = head
      BY <2>1 DEF ChecksLast
    <2> QED BY <2>1, <2>2 DEF SlotsCovered
  <1>3. IInv => FalseIsJustified
    BY <1>1, <1>2 DEF FalseIsJustified
  <1> QED BY <1>3, Invariance, PTL

-----------------------------------------------------------------------------
(* The abstract queue: what stands between head_ and tail_, and what a     *)
(* consumer has taken.                                                     *)
Items == [i \in 1..(tail - head) |-> ItemAt(head + i - 1)]

Hand == [t \in Threads |-> InHand(t)]

LEMMA ItemOfWriter ==
  ASSUME IInv, NEW t \in Threads, pc[t] = "write"
  PROVE  ItemAt(pos[t]) = val[t]
  <1>1. \A u \in Threads : pc[u] = "write" /\ pos[u] = pos[t] <=> u = t
    BY DEF IInv, HoldersPlaced, Writing
  <1> QED BY <1>1 DEF ItemAt

LEMMA ItemInSlot ==
  ASSUME NEW p, \A t \in Threads : pc[t] = "write" => pos[t] # p
  PROVE  ItemAt(p) = data[Slot(p)]
  BY DEF ItemAt

LEMMA ItemsAreValues ==
  IInv => Items \in Seq(Values) /\ Len(Items) = tail - head
  <1> SUFFICES ASSUME IInv PROVE Items \in Seq(Values) /\ Len(Items) = tail - head
    OBVIOUS
  <1> USE DEF IInv, TypeOK
  <1>1. ASSUME NEW p \in head..(tail - 1) PROVE ItemAt(p) \in Values
    <2>1. CASE \E t \in Threads : pc[t] = "write" /\ pos[t] = p
      BY <2>1, ItemOfWriter DEF ValuesThere
    <2>2. CASE \A t \in Threads : pc[t] = "write" => pos[t] # p
      BY <2>2, ItemInSlot DEF ValuesThere
    <2> QED BY <2>1, <2>2
  <1>2. tail - head \in Nat /\ \A i \in 1..(tail - head) : head + i - 1 \in head..(tail - 1)
    OBVIOUS
  <1>3. \A i \in 1..(tail - head) : ItemAt(head + i - 1) \in Values
    BY <1>1, <1>2
  <1> HIDE DEF IInv, TypeOK
  <1> QED BY <1>1, <1>2, <1>3, IsASeq, LenProperties DEF Items

LEMMA ItemsStayValues ==
  IInv' => (Items \in Seq(Values) /\ Len(Items) = tail - head)'
  BY ItemsAreValues, PTL

(* The items stay when no position in the window changes its item. *)
LEMMA ItemsStay ==
  ASSUME IInv, UNCHANGED <<head, tail>>,
         \A p \in head..(tail - 1) : ItemAt(p)' = ItemAt(p)
  PROVE  Items' = Items
  <1>1. \A i \in 1..(tail - head) : head + i - 1 \in head..(tail - 1)
    BY DEF IInv, TypeOK
  <1> QED BY <1>1 DEF Items

(* ... so when nobody begins or ends to write and data is as it was. *)
LEMMA ItemAtStays ==
  ASSUME IInv, IInv', UNCHANGED data, NEW p,
         \A t \in Threads : /\ pc'[t] = "write" <=> pc[t] = "write"
                            /\ pc[t] = "write" => pos'[t] = pos[t] /\ val'[t] = val[t]
  PROVE  ItemAt(p)' = ItemAt(p)
  <1>1. CASE \E t \in Threads : pc[t] = "write" /\ pos[t] = p
    <2>1. PICK t \in Threads : pc[t] = "write" /\ pos[t] = p
      BY <1>1
    <2>2. ItemAt(p) = val[t]
      BY <2>1, ItemOfWriter
    <2>3. \A u \in Threads : pc'[u] = "write" /\ pos'[u] = p <=> u = t
      BY <2>1 DEF IInv, HoldersPlaced, Writing
    <2>4. ItemAt(p)' = val'[t]
      BY <2>3 DEF ItemAt
    <2> QED BY <2>1, <2>2, <2>4
  <1>2. CASE \A t \in Threads : pc[t] = "write" => pos[t] # p
    BY <1>2 DEF ItemAt
  <1> QED BY <1>1, <1>2

LEMMA QuietStep ==
  ASSUME IInv, IInv', NEW t \in Threads,
         \/ (\E v \in Values : Enqueue(t, v)) \/ Dequeue(t)
         \/ EnqueueFull(t) \/ EnqueueCheck(t) \/ EnqueueRetry(t) \/ EnqueuePublish(t)
         \/ DequeueEmpty(t) \/ DequeueCheck(t) \/ DequeueRetry(t)
  PROVE  Items' = Items /\ Hand' = Hand
  <1>1. /\ UNCHANGED <<head, tail, data>>
        /\ pc[t] \notin {"write", "read", "dpublish"} /\ pc'[t] \notin {"write", "read", "dpublish"}
        /\ \A u \in Threads \ {t} : pc'[u] = pc[u] /\ pos'[u] = pos[u] /\ val'[u] = val[u]
    BY DEF Enqueue, Dequeue, EnqueueFull, EnqueueCheck, EnqueueRetry, EnqueuePublish,
           DequeueEmpty, DequeueCheck, DequeueRetry, Return, Goto, queue, IInv, TypeOK
  <1>2. Items' = Items
    BY <1>1, ItemAtStays, ItemsStay
  <1>3. \A u \in Threads : InHand(u)' = InHand(u)
    BY <1>1 DEF InHand, SlotOf
  <1> QED BY <1>2, <1>3 DEF Hand

LEMMA WriteStutters ==
  ASSUME IInv, IInv', NEW t \in Threads, Write(t)
  PROVE  Items' = Items /\ Hand' = Hand
  <1> USE SizeAssumption DEF Write, Goto
  <1>1. /\ TypeOK /\ UNCHANGED <<head, tail, pos, val>> /\ SlotOf(t) \in Slots
        /\ pc[t] = "write" /\ pc'[t] = "epublish" /\ Holding(t) /\ Writing(t)
        /\ \A u \in Threads \ {t} : pc'[u] = pc[u]
        /\ data' = [data EXCEPT ![SlotOf(t)] = val[t]]
    BY SlotType DEF IInv, TypeOK, SlotOf, Holding, Writing
  <1>2. ASSUME NEW p \in head..(tail - 1) PROVE ItemAt(p)' = ItemAt(p)
    <2>0. p \in Nat /\ Slot(p) \in Slots
      BY <1>1, SlotType DEF TypeOK
    <2>1. CASE p = pos[t]
      <3>1. ItemAt(p) = val[t]
        BY <1>1, <2>1, ItemOfWriter
      <3>2. \A u \in Threads : pc'[u] = "write" => pos'[u] # p
        BY <1>1, <2>1 DEF IInv, HoldersPlaced, Writing
      <3>3. ItemAt(p)' = data'[Slot(p)]
        BY <3>2 DEF ItemAt
      <3> QED BY <1>1, <2>0, <2>1, <3>1, <3>3 DEF TypeOK, SlotOf
    <2>2. CASE p # pos[t]
      <3>1. Slot(p) # SlotOf(t)
        <4>1. pos[t] \in Nat /\ pos[t] >= head /\ pos[t] < tail /\ tail <= head + MaxSize
          BY <1>1 DEF IInv, HoldersPlaced, TypeOK
        <4> QED BY <1>1, <2>0, <2>2, <4>1, SlotsDiffer DEF SlotOf, TypeOK
      <3>2. data'[Slot(p)] = data[Slot(p)]
        BY <1>1, <2>0, <3>1 DEF TypeOK
      <3>3. \A u \in Threads : pc'[u] = "write" /\ pos'[u] = p <=> pc[u] = "write" /\ pos[u] = p
        BY <1>1, <2>2
      <3>4. CASE \E u \in Threads : pc[u] = "write" /\ pos[u] = p
        <4>1. PICK u \in Threads : pc[u] = "write" /\ pos[u] = p
          BY <3>4
        <4>2. ItemAt(p) = val[u]
          BY <4>1, ItemOfWriter
        <4>3. \A x \in Threads : pc'[x] = "write" /\ pos'[x] = p <=> x = u
          BY <3>3, <4>1 DEF IInv, HoldersPlaced, Writing
        <4>4. ItemAt(p)' = val'[u]
          BY <4>3 DEF ItemAt
        <4> QED BY <1>1, <4>2, <4>4
      <3>5. CASE \A u \in Threads : pc[u] = "write" => pos[u] # p
        BY <3>2, <3>3, <3>5 DEF ItemAt
      <3> QED BY <3>4, <3>5
    <2> QED BY <2>1, <2>2
  <1>3. \A u \in Threads : InHand(u)' = InHand(u)
    <2>1. \A u \in Threads \ {t} : Reading(u) => data'[SlotOf(u)'] = data[SlotOf(u)]
      BY <1>1, SlotHasOneHolder, SlotType DEF Holding, SlotOf, TypeOK
    <2> QED BY <1>1, <2>1 DEF InHand, Reading
  <1> QED BY <1>1, <1>2, <1>3, ItemsStay DEF Hand

LEMMA ReadStutters ==
  ASSUME IInv, IInv', NEW t \in Threads, Read(t)
  PROVE  Items' = Items /\ Hand' = Hand
  <1>1. /\ TypeOK /\ UNCHANGED <<head, tail, data, pos>>
        /\ pc[t] = "read" /\ pc'[t] = "dpublish" /\ val'[t] = data[SlotOf(t)]
        /\ \A u \in Threads \ {t} : pc'[u] = pc[u] /\ val'[u] = val[u]
    BY DEF Read, Goto, IInv, TypeOK, queue
  <1>2. Items' = Items
    BY <1>1, ItemAtStays, ItemsStay
  <1>3. \A u \in Threads : InHand(u)' = InHand(u)
    BY <1>1 DEF InHand, SlotOf
  <1> QED BY <1>2, <1>3 DEF Hand

(* Claiming tail_ is the abstract Put: the item is still in its producer.  *)
LEMMA EnqueueClaimPuts ==
  ASSUME IInv, IInv', NEW t \in Threads, EnqueueClaim(t)
  PROVE  Len(Items) < MaxSize /\ Items' = Append(Items, val[t]) /\ Hand' = Hand
  <1> USE SizeAssumption
  <1>1. /\ TypeOK /\ UNCHANGED <<head, data, pos, val>> /\ tail' = tail + 1
        /\ tail = pos[t] /\ pc[t] = "ecas" /\ pc'[t] = "write"
        /\ \A u \in Threads \ {t} : pc'[u] = pc[u]
    BY DEF EnqueueClaim, Goto, IInv, TypeOK
  <1>2. tail < head + MaxSize
    BY <1>1, TailSlot DEF IInv, ChecksLast, SlotOf
  <1>3. /\ Items \in Seq(Values) /\ Len(Items) = tail - head
        /\ Items' \in Seq(Values) /\ Len(Items') = tail - head + 1
    BY <1>1, ItemsAreValues, ItemsStayValues DEF TypeOK
  <1>4. ASSUME NEW p, p = tail PROVE ItemAt(p)' = val[t]
    <2>1. \A u \in Threads : pc'[u] = "write" /\ pos'[u] = p <=> u = t
      BY <1>1, <1>4 DEF IInv, HoldersPlaced, Writing
    <2>2. ItemAt(p)' = val'[t]
      BY <1>1, <2>1 DEF ItemAt
    <2> QED BY <1>1, <2>2
  <1>5. ASSUME NEW p \in head..(tail - 1) PROVE ItemAt(p)' = ItemAt(p)
    <2>1. p # tail
      BY <1>1 DEF TypeOK
    <2>2. \A u \in Threads : pc'[u] = "write" /\ pos'[u] = p <=> pc[u] = "write" /\ pos[u] = p
      BY <1>1, <2>1
    <2>3. CASE \E u \in Threads : pc[u] = "write" /\ pos[u] = p
      <3>1. PICK u \in Threads : pc[u] = "write" /\ pos[u] = p
        BY <2>3
      <3>2. ItemAt(p) = val[u]
        BY <3>1, ItemOfWriter
      <3>3. \A x \in Threads : pc'[x] = "write" /\ pos'[x] = p <=> x = u
        BY <2>2, <3>1 DEF IInv, HoldersPlaced, Writing
      <3>4. ItemAt(p)' = val'[u]
        BY <3>3 DEF ItemAt
      <3> QED BY <1>1, <3>2, <3>4
    <2>4. CASE \A u \in Threads : pc[u] = "write" => pos[u] # p
      BY <1>1, <2>2, <2>4 DEF ItemAt
    <2> QED BY <2>3, <2>4
  <1>6. \A i \in 1..(tail - head) : Items'[i] = Items[i]
    <2>1. \A i \in 1..(tail - head) : /\ head + i - 1 \in head..(tail - 1)
                                      /\ i \in 1..(tail' - head')
      BY <1>1 DEF TypeOK
    <2> QED BY <1>1, <1>5, <2>1 DEF Items
  <1>7. Items'[tail - head + 1] = val[t]
    <2>1. PICK p : p = tail
      OBVIOUS
    <2>2. tail - head + 1 \in 1..(tail' - head') /\ head' + (tail - head + 1) - 1 = p
      BY <1>1, <2>1 DEF TypeOK
    <2>3. Items'[tail - head + 1] = ItemAt(p)'
      BY <2>2 DEF Items
    <2> QED BY <1>4, <2>1, <2>3
  <1>8. val[t] \in Values /\ tail - head \in Nat
    BY <1>1 DEF IInv, ValuesThere, TypeOK
  <1>9. Items' = Append(Items, val[t])
    <2>1. /\ Append(Items, val[t]) \in Seq(Values)
          /\ Len(Append(Items, val[t])) = tail - head + 1
          /\ \A i \in 1..(tail - head) : Append(Items, val[t])[i] = Items[i]
          /\ Append(Items, val[t])[tail - head + 1] = val[t]
      BY <1>3, <1>8, AppendProperties
    <2>2. \A i \in 1..(tail - head + 1) : Items'[i] = Append(Items, val[t])[i]
      BY <1>6, <1>7, <1>8, <2>1
    <2> QED BY <1>3, <2>1, <2>2, SeqEqual
  <1>10. \A u \in Threads : InHand(u)' = InHand(u)
    BY <1>1 DEF InHand, SlotOf
  <1> QED BY <1>1, <1>2, <1>3, <1>9, <1>10 DEF Hand, TypeOK

(* Claiming head_ is the abstract Get of the first item. *)
LEMMA DequeueClaimGets ==
  ASSUME IInv, IInv', NEW t \in Threads, DequeueClaim(t)
  PROVE  /\ Items # <<>> /\ Hand[t] = None
         /\ Items' = Tail(Items)
         /\ Hand' = [Hand EXCEPT ![t] = Head(Items)]
  <1> USE SizeAssumption
  <1>1. /\ TypeOK /\ UNCHANGED <<tail, data, pos, val>> /\ head' = head + 1
        /\ head = pos[t] /\ pc[t] = "dcas" /\ pc'[t] = "read"
        /\ \A u \in Threads \ {t} : pc'[u] = pc[u]
    BY DEF DequeueClaim, Goto, IInv, TypeOK
  <1>2. head < tail
    BY <1>1 DEF IInv, TypeOK
  <1>3. /\ Items \in Seq(Values) /\ Len(Items) = tail - head
        /\ Items' \in Seq(Values) /\ Len(Items') = tail - head - 1
    <2>1. head \in Nat /\ tail \in Nat /\ tail' = tail /\ head' = head + 1
      BY <1>1 DEF TypeOK
    <2>2. Items \in Seq(Values) /\ Len(Items) = tail - head
      BY ItemsAreValues
    <2>3. Items' \in Seq(Values) /\ Len(Items') = tail' - head'
      BY ItemsStayValues
    <2> QED BY <2>1, <2>2, <2>3
  <1>4. Items # <<>> /\ tail - head \in Nat
    BY <1>1, <1>2, <1>3 DEF TypeOK
  <1>5. \A p : ItemAt(p)' = ItemAt(p)
    BY <1>1, ItemAtStays
  <1>6. Items' = Tail(Items)
    <2>1. /\ Tail(Items) \in Seq(Values) /\ Len(Tail(Items)) = tail - head - 1
          /\ \A i \in 1..(tail - head - 1) : Tail(Items)[i] = Items[i + 1]
      BY <1>3, <1>4, HeadTailProperties
    <2>2. \A i \in 1..(tail - head - 1) : Items'[i] = Items[i + 1]
      <3>1. \A i \in 1..(tail - head - 1) : /\ i \in 1..(tail' - head') /\ i + 1 \in 1..(tail - head)
                                            /\ head' + i - 1 = head + (i + 1) - 1
        BY <1>1 DEF TypeOK
      <3> QED BY <1>5, <3>1 DEF Items
    <2> QED BY <1>3, <2>1, <2>2, SeqEqual
  <1>7. Head(Items) = ItemAt(head)
    <2>1. 1 \in 1..(tail - head) /\ head + 1 - 1 = head
      BY <1>1, <1>2 DEF TypeOK
    <2> QED BY <2>1, <1>3, <1>4, HeadTailProperties DEF Items
  <1>8. ItemAt(head) = data[SlotOf(t)]
    <2>1. epoch[SlotOf(t)] > head
      BY <1>1 DEF IInv, ChecksLast
    <2>2. \A u \in Threads : pc[u] = "write" => pos[u] # head
      BY <1>1, <2>1 DEF IInv, HoldersPlaced, Writing, SlotOf, TypeOK
    <2> QED BY <1>1, <2>2, ItemInSlot DEF SlotOf
  <1>9. /\ InHand(t) = None /\ InHand(t)' = data[SlotOf(t)]
        /\ \A u \in Threads \ {t} : InHand(u)' = InHand(u)
    BY <1>1 DEF InHand, SlotOf
  <1> QED BY <1>4, <1>6, <1>7, <1>8, <1>9 DEF Hand

(* Moving the epoch on hands the item over to the caller. *)
LEMMA DequeuePublishDelivers ==
  ASSUME IInv, IInv', NEW t \in Threads, DequeuePublish(t)
  PROVE  Items' = Items /\ Hand[t] # None /\ Hand' = [Hand EXCEPT ![t] = None]
  <1>1. /\ TypeOK /\ UNCHANGED <<head, tail, data>> /\ pc[t] = "dpublish" /\ pc'[t] = "idle"
        /\ \A u \in Threads \ {t} : pc'[u] = pc[u] /\ pos'[u] = pos[u] /\ val'[u] = val[u]
    BY DEF DequeuePublish, Return, Goto, IInv, TypeOK
  <1>2. Items' = Items
    BY <1>1, ItemAtStays, ItemsStay
  <1>3. /\ InHand(t) = val[t] /\ InHand(t)' = None
        /\ \A u \in Threads \ {t} : InHand(u)' = InHand(u)
    BY <1>1 DEF InHand, SlotOf
  <1>4. val[t] # None
    BY <1>1, NoneAssumption DEF IInv, ValuesThere
  <1>5. Hand' = [Hand EXCEPT ![t] = None]
    BY <1>3 DEF Hand
  <1> QED BY <1>2, <1>3, <1>4, <1>5 DEF Hand

LEMMA StepRefines ==
  ASSUME IInv, IInv', [Next]_vars
  PROVE  [Abstract!Next]_(Abstract!vars)
  <1>1. CASE UNCHANGED vars
    BY <1>1 DEF vars, Abstract!vars, ItemAt, InHand, SlotOf
  <1>2. ASSUME NEW t \in Threads, (\E v \in Values : Enqueue(t, v)) \/ Dequeue(t) \/ InCall(t)
        PROVE  [Abstract!Next]_(Abstract!vars)
    <2>1. CASE Items' = Items /\ Hand' = Hand
      BY <2>1 DEF Abstract!vars, Items, Hand
    <2>2. CASE EnqueueClaim(t)
      <3>1. val[t] \in Values
        BY <2>2 DEF EnqueueClaim, IInv, ValuesThere
      <3>2. Abstract!Put(val[t])
        BY <2>2, EnqueueClaimPuts DEF Abstract!Put, Items, Hand
      <3> QED BY <3>1, <3>2 DEF Abstract!Next
    <2>3. CASE DequeueClaim(t)
      <3>1. Abstract!Get(t)
        BY <2>3, DequeueClaimGets DEF Abstract!Get, Items, Hand
      <3> QED BY <3>1 DEF Abstract!Next
    <2>4. CASE DequeuePublish(t)
      <3>1. Abstract!Deliver(t)
        BY <2>4, DequeuePublishDelivers DEF Abstract!Deliver, Items, Hand
      <3> QED BY <3>1 DEF Abstract!Next
    <2> QED BY <1>2, <2>1, <2>2, <2>3, <2>4, QuietStep, WriteStutters, ReadStutters
            DEF InCall, InEnqueue, InDequeue
  <1> QED BY <1>1, <1>2 DEF Next

LEMMA InitRefines == Init => Abstract!Init
  <1> SUFFICES ASSUME Init PROVE Abstract!Init
    OBVIOUS
  <1>1. Items = <<>>
    <2>1. IInv /\ tail - head = 0
      BY InitIInv DEF Init
    <2> QED BY <2>1, ItemsAreValues
  <1>2. Hand = [t \in Threads |-> None]
    BY DEF Init, Hand, InHand
  <1> QED BY <1>1, <1>2 DEF Abstract!Init, Items, Hand

(* mpmc-bounded-queue/README.md: the ring is a bounded first in, first out *)
(* queue.  Every value comes out once, in the order of the claims of       *)
(* tail_, for any number of producers, consumers and slots.                *)
THEOREM QueueRefinement == Spec => ImplementsQueue
  BY InitRefines, StepRefines, Invariance, PTL DEF Spec, ImplementsQueue, Abstract!Spec
=============================================================================

-------------------------------- MODULE MPMC --------------------------------
(***************************************************************************)
(* mpmc-bounded-queue/mpmc.h: a ring of elements, each with an epoch that  *)
(* says whose turn it is: position p may be written when the epoch is p    *)
(* and read when it is p + 1.  Every atomic access and every access to     *)
(* element->data is one step.                                              *)
(*                                                                         *)
(* fresh and carried follow the C++ happens-before order of the last       *)
(* access to each element's data: fresh[t] are the slots whose last access *)
(* is in t's past, carried are the slots whose epoch passes it on to an    *)
(* acquire load.                                                           *)
(***************************************************************************)
EXTENDS Integers, FiniteSets

CONSTANTS
  Threads,            (* each may enqueue and dequeue                      *)
  Values,
  None,
  MaxSize,
  SpuriousCAS,        (* whether compare_exchange_weak fails for no reason *)
  MaxPos              (* bound: no Enqueue starts that could pass it      *)

(* mpmc.h:20-21, in a comment: a power of two, up to kMaxSize.  1 is left  *)
(* out: one slot cannot tell "full" from "free in the next lap", and the   *)
(* second Enqueue overwrites the first.                                    *)
ASSUME SizeAssumption == MaxSize \in Nat /\ MaxSize > 1
ASSUME PowerOfTwoAssumption == \E k \in 1..20 : MaxSize = 2^k
ASSUME NoneAssumption == None \notin Values
ASSUME SpuriousAssumption == SpuriousCAS \in BOOLEAN
ASSUME BoundAssumption == MaxPos \in Nat

VARIABLES
  head, tail, epoch, data,
  pc,
  pos,                (* prev_tail or prev_head                            *)
  val,                (* value, or what was read                           *)
  fresh, carried

queue == <<head, tail, epoch, data>>

vars == <<head, tail, epoch, data, pc, pos, val, fresh, carried>>

Slots == 0..(MaxSize - 1)

(* index & (max_size_ - 1) *)
Slot(p) == p % MaxSize

Labels == {"idle", "echeck", "ecas", "write", "epublish",
           "dcheck", "dcas", "read", "dpublish"}

(* At most MaxSize positions are between head_ and tail_. *)
TypeOK ==
  /\ tail \in Nat
  /\ head \in 0..tail /\ tail <= head + MaxSize
  /\ epoch \in [Slots -> Nat]
  /\ data \in [Slots -> Values \cup {None}]
  /\ pc \in [Threads -> Labels]
  /\ pos \in [Threads -> Nat]
  /\ val \in [Threads -> Values \cup {None}]
  /\ fresh \in [Threads -> SUBSET Slots]
  /\ carried \in SUBSET Slots

Init ==
  /\ head = 0 /\ tail = 0
  /\ epoch = [s \in Slots |-> s]
  /\ data = [s \in Slots |-> None]
  /\ pc = [t \in Threads |-> "idle"]
  /\ pos = [t \in Threads |-> 0]
  /\ val = [t \in Threads |-> None]
  /\ fresh = [t \in Threads |-> Slots]
  /\ carried = {}

Goto(t, label) == pc' = [pc EXCEPT ![t] = label]

SlotOf(t) == Slot(pos[t])

(* The call ends and its local variables with it. *)
Return(t) ==
  /\ Goto(t, "idle")
  /\ pos' = [pos EXCEPT ![t] = 0]
  /\ val' = [val EXCEPT ![t] = None]

(* A load of the slot's epoch with memory_order_acquire. *)
AcquireView(t) ==
  fresh' = [fresh EXCEPT ![t] = @ \cup ({SlotOf(t)} \cap carried)]

(* t accesses the data of its slot. *)
Access(t) ==
  /\ fresh' = [u \in Threads |-> IF u = t THEN fresh[u] \cup {SlotOf(t)}
                                          ELSE fresh[u] \ {SlotOf(t)}]
  /\ carried' = carried \ {SlotOf(t)}

(* epoch.fetch_add(n, release): a read-modify-write keeps what the epoch   *)
(* already carries.                                                        *)
FetchAddEpoch(t, n) ==
  /\ epoch' = [epoch EXCEPT ![SlotOf(t)] = @ + n]
  /\ carried' = carried \cup ({SlotOf(t)} \cap fresh[t])
  /\ UNCHANGED fresh

-----------------------------------------------------------------------------
(* Enqueue(v).  The relaxed load may return an older value of tail_. *)
Enqueue(t, v) ==
  /\ pc[t] = "idle"
  /\ tail + Cardinality({u \in Threads : pc[u] \in {"echeck", "ecas"}}) < MaxPos
  /\ \E p \in 0..tail : pos' = [pos EXCEPT ![t] = p]
  /\ val' = [val EXCEPT ![t] = v]
  /\ Goto(t, "echeck")
  /\ UNCHANGED <<queue, fresh, carried>>

EnqueueFull(t) ==
  /\ pc[t] = "echeck"
  /\ pos[t] > epoch[SlotOf(t)]
  /\ AcquireView(t)
  /\ Return(t)
  /\ UNCHANGED <<queue, carried>>

EnqueueCheck(t) ==
  /\ pc[t] = "echeck"
  /\ pos[t] <= epoch[SlotOf(t)]
  /\ AcquireView(t)
  /\ Goto(t, "ecas")
  /\ UNCHANGED <<queue, pos, val, carried>>

MutEnqueueClaim(t) ==     \* tail_.store(prev_tail + 1)
  /\ pc[t] = "ecas"
  /\ tail' = pos[t] + 1
  /\ Goto(t, "write")
  /\ UNCHANGED <<head, epoch, data, pos, val, fresh, carried>>

EnqueueClaim(t) ==
  /\ pc[t] = "ecas"
  /\ tail = pos[t]
  /\ tail' = tail + 1
  /\ Goto(t, "write")
  /\ UNCHANGED <<head, epoch, data, pos, val, fresh, carried>>

EnqueueRetry(t) ==
  /\ pc[t] = "ecas"
  /\ SpuriousCAS \/ tail # pos[t]
  /\ pos' = [pos EXCEPT ![t] = tail]
  /\ Goto(t, "echeck")
  /\ UNCHANGED <<queue, val, fresh, carried>>

Write(t) ==
  /\ pc[t] = "write"
  /\ data' = [data EXCEPT ![SlotOf(t)] = val[t]]
  /\ Access(t)
  /\ Goto(t, "epublish")
  /\ UNCHANGED <<head, tail, epoch, pos, val>>

MutEnqueuePublish(t) ==   \* fetch_add(1, memory_order_relaxed)
  /\ pc[t] = "epublish"
  /\ epoch' = [epoch EXCEPT ![SlotOf(t)] = @ + 1]
  /\ Return(t)
  /\ UNCHANGED <<head, tail, data, fresh, carried>>

EnqueuePublish(t) ==
  /\ pc[t] = "epublish"
  /\ FetchAddEpoch(t, 1)
  /\ Return(t)
  /\ UNCHANGED <<head, tail, data>>

-----------------------------------------------------------------------------
(* Dequeue(data). *)
Dequeue(t) ==
  /\ pc[t] = "idle"
  /\ \E p \in 0..head : pos' = [pos EXCEPT ![t] = p]
  /\ Goto(t, "dcheck")
  /\ UNCHANGED <<queue, val, fresh, carried>>

MutDequeueEmpty(t) ==     \* waits for the producer instead
  /\ pc[t] = "dcheck"
  /\ pos[t] + 1 > epoch[SlotOf(t)]
  /\ AcquireView(t)
  /\ pos' = [pos EXCEPT ![t] = head]
  /\ UNCHANGED <<queue, pc, val, carried>>

DequeueEmpty(t) ==
  /\ pc[t] = "dcheck"
  /\ pos[t] + 1 > epoch[SlotOf(t)]
  /\ AcquireView(t)
  /\ Return(t)
  /\ UNCHANGED <<queue, carried>>

DequeueCheck(t) ==
  /\ pc[t] = "dcheck"
  /\ pos[t] + 1 <= epoch[SlotOf(t)]
  /\ AcquireView(t)
  /\ Goto(t, "dcas")
  /\ UNCHANGED <<queue, pos, val, carried>>

DequeueClaim(t) ==
  /\ pc[t] = "dcas"
  /\ head = pos[t]
  /\ head' = head + 1
  /\ Goto(t, "read")
  /\ UNCHANGED <<tail, epoch, data, pos, val, fresh, carried>>

DequeueRetry(t) ==
  /\ pc[t] = "dcas"
  /\ SpuriousCAS \/ head # pos[t]
  /\ pos' = [pos EXCEPT ![t] = head]
  /\ Goto(t, "dcheck")
  /\ UNCHANGED <<queue, val, fresh, carried>>

Read(t) ==
  /\ pc[t] = "read"
  /\ val' = [val EXCEPT ![t] = data[SlotOf(t)]]
  /\ Access(t)
  /\ Goto(t, "dpublish")
  /\ UNCHANGED <<queue, pos>>

MutDequeueOver(t) ==      \* fetch_add(max_size_)
  /\ pc[t] = "dpublish"
  /\ FetchAddEpoch(t, MaxSize)
  /\ Return(t)
  /\ UNCHANGED <<head, tail, data>>

MutDequeueUnder(t) ==     \* the epoch is not moved on
  /\ pc[t] = "dpublish"
  /\ FetchAddEpoch(t, 0)
  /\ Return(t)
  /\ UNCHANGED <<head, tail, data>>

DequeuePublish(t) ==
  /\ pc[t] = "dpublish"
  /\ FetchAddEpoch(t, MaxSize - 1)
  /\ Return(t)
  /\ UNCHANGED <<head, tail, data>>

-----------------------------------------------------------------------------
InEnqueue(t) ==
  \/ EnqueueFull(t) \/ EnqueueCheck(t) \/ EnqueueClaim(t) \/ EnqueueRetry(t)
  \/ Write(t) \/ EnqueuePublish(t)

InDequeue(t) ==
  \/ DequeueEmpty(t) \/ DequeueCheck(t) \/ DequeueClaim(t) \/ DequeueRetry(t)
  \/ Read(t) \/ DequeuePublish(t)

InCall(t) == InEnqueue(t) \/ InDequeue(t)

Next ==
  \E t \in Threads :
    \/ \E v \in Values : Enqueue(t, v)
    \/ Dequeue(t)
    \/ InCall(t)

Spec == Init /\ [][Next]_vars

-----------------------------------------------------------------------------
Writing(t) == pc[t] \in {"write", "epublish"}

Reading(t) == pc[t] \in {"read", "dpublish"}

(* A thread that has claimed a position has the slot for itself, and the   *)
(* epoch stands still until it moves it.                                   *)
ClaimsExclusive ==
  /\ TypeOK
  /\ \A t \in Threads : Writing(t) => epoch[SlotOf(t)] = pos[t]
  /\ \A t \in Threads : Reading(t) => epoch[SlotOf(t)] = pos[t] + 1
  /\ \A t, u \in Threads :
       /\ Writing(t) \/ Reading(t)
       /\ Writing(u) \/ Reading(u)
       /\ SlotOf(t) = SlotOf(u)
       => t = u

(* element->data is race free, although the claims themselves are ordered  *)
(* by nothing but the epochs.                                              *)
NoDataRace ==
  \A t \in Threads : pc[t] \in {"write", "read"} => SlotOf(t) \in fresh[t]

(* mpmc-bounded-queue/test.cpp "NoSpuriousFails": Enqueue returns false    *)
(* only when the queue is full or the oldest slot is still being read, and *)
(* Dequeue only when the queue is empty or the first element is still      *)
(* being written, also when the position was an old one.                   *)
FalseIsJustified ==
  \A t \in Threads :
    /\ pc[t] = "echeck" /\ pos[t] > epoch[SlotOf(t)] =>
         \/ tail = head + MaxSize
         \/ \E u \in Threads : Reading(u) /\ pos[u] + MaxSize = tail
    /\ pc[t] = "dcheck" /\ pos[t] + 1 > epoch[SlotOf(t)] =>
         \/ head = tail
         \/ \E u \in Threads : Writing(u) /\ pos[u] = head

(* The value at a position: still with its producer or in the slot. *)
ItemAt(p) ==
  IF \E t \in Threads : pc[t] = "write" /\ pos[t] = p
    THEN val[CHOOSE t \in Threads : pc[t] = "write" /\ pos[t] = p]
    ELSE data[Slot(p)]

InHand(t) ==
  CASE pc[t] = "read" -> data[SlotOf(t)]
    [] pc[t] = "dpublish" -> val[t]
    [] OTHER -> None

Abstract == INSTANCE BoundedQueue
  WITH items <- [i \in 1..(tail - head) |-> ItemAt(head + i - 1)],
       hand  <- [t \in Threads |-> InHand(t)]

(* Every value comes out once, in the order of the claims of tail_.        *)
ImplementsQueue == Abstract!Spec

(* Nobody waits for anybody: a thread that keeps running returns from its  *)
(* call wherever the others have stopped.                                  *)
LockFree ==
  \A t \in Threads : WF_vars(InCall(t)) => (pc[t] # "idle" ~> pc[t] = "idle")
=============================================================================

---------------------------- MODULE BoundedQueue ----------------------------
(***************************************************************************)
(* What mpmc-bounded-queue/README.md promises: a bounded first in, first   *)
(* out queue.  An element is on its way from the queue to the caller's     *)
(* variable while it is in a thread's hand.  MPMC.tla is shown to          *)
(* implement it.                                                           *)
(***************************************************************************)
EXTENDS Naturals, Sequences

CONSTANTS Threads, Values, MaxSize, None

VARIABLES
  items,
  hand        (* the value a thread has taken and not yet delivered        *)

vars == <<items, hand>>

Init == items = <<>> /\ hand = [t \in Threads |-> None]

Put(v) ==
  /\ Len(items) < MaxSize
  /\ items' = Append(items, v)
  /\ UNCHANGED hand

Get(t) ==
  /\ items # <<>>
  /\ hand[t] = None
  /\ hand' = [hand EXCEPT ![t] = Head(items)]
  /\ items' = Tail(items)

Deliver(t) ==
  /\ hand[t] # None
  /\ hand' = [hand EXCEPT ![t] = None]
  /\ UNCHANGED items

Next ==
  \/ \E v \in Values : Put(v)
  \/ \E t \in Threads : Get(t) \/ Deliver(t)

Spec == Init /\ [][Next]_vars
=============================================================================

----------------------------- MODULE NamedDeque -----------------------------
(* Deque under names of its own. *)
EXTENDS Named, Integers

CONSTANTS BlockSize, MaxBlocks, Junk

VARIABLES deque, blockHeap, stopped

dequeVars == <<deque, blockHeap, stopped>>

Deques == INSTANCE Deque WITH heap <- blockHeap, Null <- Nil

ASSUME DequeNames == Deques!NamesAssumption
ASSUME DequeBounds == Deques!BoundsAssumption

(* No block of a Deque leaks, is shared or deleted twice; few are spare.   *)
BlocksOwned == Deques!BlocksOwned

(* An element of a Deque stays where it is when others come and go.        *)
ElementsStay == Deques!ElementsStay

(* A Deque is a sequence that grows and shrinks at both ends.              *)
ImplementsDeque == Deques!ImplementsDeque

(* A legal call never ends in undefined behaviour.                         *)
NeverStops == Deques!NeverStops
=============================================================================

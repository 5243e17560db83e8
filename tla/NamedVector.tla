----------------------------- MODULE NamedVector -----------------------------
(* Vector under names of its own. *)
EXTENDS Named, Integers, FiniteSets

CONSTANTS ArrayAddresses, MaxCapacity, Junk

VARIABLES array, vector, cellIt

vectorVars == <<array, vector, cellIt>>

Vectors == INSTANCE Vector
  WITH Addresses <- ArrayAddresses, Gone <- NoObject, Null <- Nil, it <- cellIt

ASSUME VectorNames == Vectors!NamesAssumption
ASSUME VectorBounds == Vectors!BoundsAssumption

(* A call makes at most one array before it frees one. *)
ASSUME VectorRoom ==
  /\ IsFiniteSet(Objects)
  /\ IsFiniteSet(ArrayAddresses) => Cardinality(ArrayAddresses) > Cardinality(Objects)

(* No array of a Vector leaks, is shared or read before it is written.     *)
ArraysOwned == Vectors!ArraysOwned

(* A Vector is a sequence that grows by doubling, its iterators stay at    *)
(* their element as long as capacity_ lasts.                               *)
ImplementsVector == Vectors!ImplementsVector
=============================================================================

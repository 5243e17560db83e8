------------------------------ MODULE NamedAny ------------------------------
(* Any under names of its own. *)
EXTENDS Named, Integers, FiniteSets

CONSTANTS HolderAddresses, MaxNesting, Leaves, X

VARIABLES ptr, inner

anyVars == <<ptr, inner>>

Anys == INSTANCE Any
  WITH Variables <- Objects, Addresses <- HolderAddresses, MaxDepth <- MaxNesting,
       Gone <- NoObject, Null <- Nil

ASSUME AnyNames == Anys!NamesAssumption
ASSUME AnyBounds == Anys!BoundsAssumption

(* A call makes at most one temporary Any before it frees one. *)
ASSUME AnyRoom ==
  /\ IsFiniteSet(Objects)
  /\ IsFiniteSet(HolderAddresses) =>
       Cardinality(HolderAddresses) >= (Cardinality(Objects) + 1) * MaxNesting

(* No holder of an Any leaks, is shared or deleted twice.                  *)
HoldersOwned == Anys!HoldersOwned

(* An Any holds values of every type by value, nested ones too.            *)
ImplementsAny == Anys!ImplementsAny
=============================================================================

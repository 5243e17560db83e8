------------------------------ MODULE NamedList ------------------------------
(* List under names of its own. *)
EXTENDS Named, Integers, Sequences

CONSTANT Unusable

VARIABLES node, list, nodeIt

listVars == <<node, list, nodeIt>>

Owning == INSTANCE List
  WITH Lists <- Objects, Gone <- NoObject, Lost <- Unusable, Null <- Nil, it <- nodeIt

ASSUME ListNames == Owning!NamesAssumption
ASSUME ListBounds == Owning!BoundsAssumption

(* No node of a List leaks, is shared or deleted twice; size_ is right.    *)
NodesOwned == Owning!NodesOwned

(* A List is a sequence of values, its iterators stay at their value.      *)
ImplementsList == Owning!ImplementsList
=============================================================================

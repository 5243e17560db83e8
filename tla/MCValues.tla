------------------------------ MODULE MCValues ------------------------------
(***************************************************************************)
(* Optional and Set, in one run.  They share nothing: a program chooses    *)
(* one of them (header) and uses it alone, the variables of the other stay *)
(* as they are.                                                            *)
(***************************************************************************)
EXTENDS Optional, TLC

CONSTANT Null                      \* for Set.tla

VARIABLES header,
          tree, nodeIt             \* Set

setVars == <<tree, nodeIt>>

Sets == INSTANCE Set WITH MaxKey <- 12, MaxWalked <- 5, it <- nodeIt

ASSUME OptionalNames == NamesAssumption

Start ==
  /\ header \in {"optional", "set"}
  /\ Init /\ Sets!Init

UseOptional == header = "optional" /\ Next /\ UNCHANGED <<header, setVars>>

UseSet == header = "set" /\ Sets!Step /\ UNCHANGED <<header, vars>>

Use == UseOptional \/ UseSet

Program == Start /\ [][Use]_<<header, vars, setVars>>

-----------------------------------------------------------------------------
(* The tree of a Set is balanced, its links and balances are right.        *)
TreeSound == Sets!TreeSound

(* Walks and searches in a Set meet exactly its keys, in order.            *)
SearchExact == Sets!SearchExact

(* A Set is an ordered set with iterators that survive other changes.      *)
ImplementsSet == Sets!ImplementsSet
=============================================================================

---------------------------- MODULE MCContainers ----------------------------
(***************************************************************************)
(* IntrusiveList, List, Vector and Any, in one run.  They share nothing: a *)
(* program chooses one of them (header) and uses it alone, the variables   *)
(* of the others stay as they are.                                         *)
(***************************************************************************)
EXTENDS IntrusiveList, NamedList, NamedVector, NamedAny, TLC

MCArrays == 1..5
MCHolders == 1..10

VARIABLE header

ASSUME IntrusiveNames == NamesAssumption

Start ==
  /\ header \in {"intrusive", "list", "vector", "any"}
  /\ Init /\ Owning!Init /\ Vectors!Init /\ Anys!Init

UseIntrusive ==
  header = "intrusive" /\ Next /\ UNCHANGED <<header, listVars, vectorVars, anyVars>>

UseList ==
  header = "list" /\ Owning!Next /\ UNCHANGED <<header, vars, vectorVars, anyVars>>

UseVector ==
  header = "vector" /\ Vectors!Next /\ UNCHANGED <<header, vars, listVars, anyVars>>

UseAny == header = "any" /\ Anys!Next /\ UNCHANGED <<header, vars, listVars, vectorVars>>

Use == UseIntrusive \/ UseList \/ UseVector \/ UseAny

Program == Start /\ [][Use]_<<header, vars, listVars, vectorVars, anyVars>>

-----------------------------------------------------------------------------
(* Objects are two of the Lists. *)
Symmetry == Permutations(Objects) \cup Permutations(Items)

(* Addresses are only names: states that differ in them alone behave alike. *)
(* A ring is seen in both directions: 0 is the root, n the n-th node that  *)
(* next leads to, -1 whatever else prev points to.                         *)
PrevOf(l, n) ==
  LET ring == [m \in 0..Owning!Length(l) |-> IF m = 0 THEN list[l].root ELSE Owning!Nodes(l)[m]]
      same == {m \in DOMAIN ring : ring[m] = node[ring[n]].prev}
  IN  IF same = {} THEN -1 ELSE CHOOSE m \in same : TRUE

SeenList(l) ==
  IF list[l] \in {NoObject, Unusable} THEN list[l]
  ELSE <<Owning!Contents(l), [n \in 0..Owning!Length(l) |-> PrevOf(l, n)], list[l].size>>

SeenVector(d) ==
  IF vector[d] = NoObject THEN NoObject ELSE <<Vectors!Elements(d), vector[d].size, vector[d].capacity>>

NoAddresses ==
  <<header,
    CASE header = "intrusive" -> vars
      [] header = "list" ->
           <<[l \in Objects |-> SeenList(l)], Owning!Position, Cardinality(DOMAIN node)>>
      [] header = "vector" ->
           <<[d \in Objects |-> SeenVector(d)], Vectors!Position, Cardinality(DOMAIN array)>>
      [] header = "any" -> <<Anys!Contents, Cardinality(DOMAIN inner)>> >>
=============================================================================

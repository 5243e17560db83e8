------------------------------ MODULE OrderedSet ------------------------------
(***************************************************************************)
(* What set/set.h promises: a set of keys and an iterator that stands at a *)
(* key, at the end or nowhere, is moved in the order of the keys and stays *)
(* where it is when other keys are inserted and erased.                    *)
(***************************************************************************)
EXTENDS Integers, FiniteSets

CONSTANTS Keys, End, Nowhere

VARIABLES keys, size, position

vars == <<keys, size, position>>

(* The first key of S, or the end. *)
First(S) == IF S = {} THEN End ELSE CHOOSE k \in S : \A l \in S : k <= l

Init == keys = {} /\ size = 0 /\ position = Nowhere

Insert(k) == keys' = keys \cup {k} /\ UNCHANGED position

Erase(k) ==
  /\ keys' = keys \ {k}
  /\ position' = IF position = k THEN Nowhere ELSE position

Assign == position' = Nowhere /\ UNCHANGED keys

Find(k)       == position' = IF k \in keys THEN k ELSE End
LowerBound(k) == position' = First({l \in keys : l >= k})
Begin         == position' = First(keys)
AtEnd         == position' = End

Obtain ==
  /\ position = Nowhere
  /\ (\E k \in Keys : Find(k) \/ LowerBound(k)) \/ Begin \/ AtEnd

Forget == position' = Nowhere

Increment ==
  /\ position \in keys
  /\ position' = First({l \in keys : l > position})

Decrement ==
  /\ position \in keys \cup {End}
  /\ \E l \in keys : /\ position' = l
                     /\ l < position \/ position = End
                     /\ \A m \in keys : m <= l \/ (m >= position /\ position # End)

Move == (Obtain \/ Forget \/ Increment \/ Decrement) /\ UNCHANGED keys

Next ==
  /\ (\E k \in Keys : Insert(k) \/ Erase(k)) \/ Assign \/ Move
  /\ size' = Cardinality(keys')

Spec == Init /\ [][Next]_vars
=============================================================================

----------------------------- MODULE AbstractAny -----------------------------
(***************************************************************************)
(* What any/any.h promises: a variable holds nothing or a value of any     *)
(* type.  A value is a leaf, or an X that has an Any inside, and so on;    *)
(* contents of a variable is the sequence of these values, outermost       *)
(* first.  Copies are deep and may be taken of any part of anything, and   *)
(* what is moved from holds nothing.                                       *)
(***************************************************************************)
EXTENDS Integers, Sequences

CONSTANTS Variables, Leaves, X, NoObject

VARIABLE contents

Live == {v \in Variables : contents[v] # NoObject}

Init == contents = [v \in Variables |-> NoObject]

(* The Any objects there are: variables, and those inside of an X. *)
Parts == UNION {{SubSeq(contents[v], i, Len(contents[v])) : i \in 1..Len(contents[v]) + 1} : v \in Live}

Set(v, s) == contents' = [contents EXCEPT ![v] = s]

Take(v, w, s) == contents' = [contents EXCEPT ![w] = <<>>, ![v] = s]

Construct(v) ==
  \/ Set(v, <<>>)
  \/ \E l \in Leaves : Set(v, <<l>>)
  \/ \E s \in Parts : Set(v, s) \/ Set(v, <<X>> \o s)
  \/ \E w \in Live : Take(v, w, contents[w]) \/ Take(v, w, <<X>> \o contents[w])

Destroy(v) == v \in Live /\ Set(v, NoObject)

Swap(v, w) ==
  /\ {v, w} \subseteq Live
  /\ contents' = [contents EXCEPT ![v] = contents[w], ![w] = contents[v]]

(* Assignments are what constructors are; Clear() is the empty one. *)
Next == \E v \in Variables : Construct(v) \/ Destroy(v) \/ \E w \in Variables : Swap(v, w)

Spec == Init /\ [][Next]_contents
=============================================================================

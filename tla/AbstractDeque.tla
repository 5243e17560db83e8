---------------------------- MODULE AbstractDeque ----------------------------
(***************************************************************************)
(* What deque/deque.h promises: objects that hold a sequence of values,    *)
(* grow and shrink at both ends, are copied by value and are emptied when  *)
(* they are moved from.  NoObject stands for an object not constructed.    *)
(***************************************************************************)
EXTENDS Integers, Sequences

CONSTANTS Objects, Values, NoObject

VARIABLE items

Live == {d \in Objects : items[d] # NoObject}

Init == items = [d \in Objects |-> NoObject]

Construct(d) ==
  /\ d \notin Live
  /\ \/ /\ items'[d] \in Seq(Values)
        /\ items' = [items EXCEPT ![d] = items'[d]]
     \/ \E e \in Live : items' = [items EXCEPT ![d] = items[e]]
     \/ \E e \in Live : items' = [items EXCEPT ![d] = items[e], ![e] = <<>>]

Destroy(d) ==
  /\ d \in Live
  /\ items' = [items EXCEPT ![d] = NoObject]

Push(d) ==
  /\ d \in Live
  /\ \E v \in Values : \/ items' = [items EXCEPT ![d] = Append(@, v)]
                       \/ items' = [items EXCEPT ![d] = <<v>> \o @]

Pop(d) ==
  /\ d \in Live
  /\ items[d] # <<>>
  /\ \/ items' = [items EXCEPT ![d] = Tail(@)]
     \/ items' = [items EXCEPT ![d] = SubSeq(@, 1, Len(@) - 1)]

Modify(d) ==
  /\ d \in Live
  /\ \E i \in DOMAIN items[d], v \in Values : items' = [items EXCEPT ![d][i] = v]

Clear(d) ==
  /\ d \in Live
  /\ items' = [items EXCEPT ![d] = <<>>]

Assign(d, e) ==
  /\ {d, e} \subseteq Live
  /\ \/ items' = [items EXCEPT ![d] = items[e]]
     \/ items' = [items EXCEPT ![d] = items[e], ![e] = <<>>]
     \/ items' = [items EXCEPT ![d] = items[e], ![e] = items[d]]

Next == \E d \in Objects :
          \/ Construct(d) \/ Destroy(d) \/ Push(d) \/ Pop(d) \/ Modify(d) \/ Clear(d)
          \/ \E e \in Objects : Assign(d, e)

Spec == Init /\ [][Next]_items
=============================================================================

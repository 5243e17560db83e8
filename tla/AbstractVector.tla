--------------------------- MODULE AbstractVector ---------------------------
(***************************************************************************)
(* What vector/vector.h promises: objects with a sequence of values and a  *)
(* capacity that doubles when it is used up, is not given back by PopBack  *)
(* and Clear, and goes along with the values when these are moved.  An     *)
(* iterator is good until its vector has to reallocate, or until its index *)
(* is past the end.                                                        *)
(***************************************************************************)
EXTENDS Integers, Sequences

CONSTANTS Objects, Values, NoObject, Nowhere

VARIABLES items, capacity,   (* of an object, or NoObject                  *)
          position           (* of the iterator: <<object, index>> or Nowhere *)

vars == <<items, capacity, position>>

Live == {d \in Objects : items[d] # NoObject}

At(d) == position # Nowhere /\ position[1] = d

Init ==
  /\ items = [d \in Objects |-> NoObject]
  /\ capacity = items
  /\ position = Nowhere

(* d has the values s in another array with room for c. *)
Reallocates(d, s, c) ==
  /\ items' = [items EXCEPT ![d] = s]
  /\ capacity' = [capacity EXCEPT ![d] = c]
  /\ position' = IF At(d) THEN Nowhere ELSE position

(* d gets the array of e, and e an empty one or that of d. *)
Takes(d, e) ==
  /\ items' = [items EXCEPT ![d] = items[e], ![e] = <<>>]
  /\ capacity' = [capacity EXCEPT ![d] = capacity[e], ![e] = 0]
  /\ position' = IF At(d) THEN Nowhere ELSE IF At(e) THEN <<d, position[2]>> ELSE position

Swap(d, e) ==
  /\ items' = [items EXCEPT ![d] = items[e], ![e] = items[d]]
  /\ capacity' = [capacity EXCEPT ![d] = capacity[e], ![e] = capacity[d]]
  /\ position' = IF At(d) THEN <<e, position[2]>> ELSE IF At(e) THEN <<d, position[2]>> ELSE position

Construct(d) ==
  /\ d \notin Live
  /\ \/ items'[d] \in Seq(Values) /\ Reallocates(d, items'[d], Len(items'[d]))
     \/ \E e \in Live : Takes(d, e)

Assign(d) ==
  /\ d \in Live
  /\ \E e \in Live : \/ Reallocates(d, items[e], Len(items[e]))
                     \/ d # e /\ Takes(d, e)
                     \/ Swap(d, e)

Destroy(d) == d \in Live /\ Reallocates(d, NoObject, NoObject)

PushBack(d) ==
  /\ d \in Live
  /\ \E v \in Values :
       IF Len(items[d]) < capacity[d]
       THEN items' = [items EXCEPT ![d] = Append(@, v)] /\ UNCHANGED <<capacity, position>>
       ELSE Reallocates(d, Append(items[d], v), IF capacity[d] = 0 THEN 1 ELSE 2 * capacity[d])

Reserve(d) ==
  /\ d \in Live /\ capacity'[d] > capacity[d]
  /\ Reallocates(d, items[d], capacity'[d])

(* PopBack and Clear *)
Shorten(d) ==
  /\ d \in Live
  /\ \E n \in {Len(items[d]) - 1, 0} :
       /\ items' = [items EXCEPT ![d] = SubSeq(@, 1, n)]
       /\ position' = IF At(d) /\ position[2] > n + 1 THEN Nowhere ELSE position
  /\ UNCHANGED capacity

Modify(d) ==
  /\ d \in Live
  /\ \E i \in DOMAIN items[d], v \in Values : items' = [items EXCEPT ![d][i] = v]
  /\ UNCHANGED <<capacity, position>>

Move(d) ==
  /\ d \in Live
  /\ \/ position' = Nowhere
     \/ \E i \in 1..Len(items[d]) + 1 : (position = Nowhere \/ At(d)) /\ position' = <<d, i>>
  /\ UNCHANGED <<items, capacity>>

Next == \E d \in Objects : \/ Construct(d) \/ Assign(d) \/ Destroy(d) \/ PushBack(d)
                           \/ Reserve(d) \/ Shorten(d) \/ Modify(d) \/ Move(d)

Spec == Init /\ [][Next]_vars
=============================================================================

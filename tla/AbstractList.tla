---------------------------- MODULE AbstractList ----------------------------
(***************************************************************************)
(* What list/list.h promises: lists that own a sequence of values each,    *)
(* copied by value and emptied when moved from, and an iterator that stays *)
(* at its element, or at its end, until the list lets go of that element;  *)
(* it goes along when all of the list is moved.  A move assignment may     *)
(* fail and lose the list that it is for.                                  *)
(***************************************************************************)
EXTENDS SequencesExt

CONSTANTS Lists, Values, NoList, Lost, Nowhere

VARIABLES items,      (* of a list: its values, NoList or Lost             *)
          position    (* of the iterator: <<list, index>> or Nowhere       *)

vars == <<items, position>>

Live == {l \in Lists : items[l] \notin {NoList, Lost}}

At(l) == position # Nowhere /\ position[1] = l

Init == items = [l \in Lists |-> NoList] /\ position = Nowhere

(* What l held is given up, with the iterators to it. *)
Gives(l, s) ==
  /\ items' = [items EXCEPT ![l] = s]
  /\ position' = IF At(l) THEN Nowhere ELSE position

(* l gets all that other holds, and the iterators to it. *)
Takes(l, other) ==
  /\ items' = [items EXCEPT ![l] = items[other], ![other] = <<>>]
  /\ position' = IF At(l) THEN Nowhere ELSE IF At(other) THEN <<l, position[2]>> ELSE position

Construct(l) ==
  /\ items[l] = NoList
  /\ \/ Gives(l, <<>>)
     \/ \E other \in Live : Gives(l, items[other]) \/ Takes(l, other)

Assign(l) ==
  /\ l \in Live
  /\ \E other \in Live : Gives(l, items[other]) \/ Takes(l, other)

Destroy(l) == l \in Live /\ Gives(l, NoList)

Lose(l) == l \in Live /\ Gives(l, Lost)

Insert(l) ==
  /\ l \in Live
  /\ \E n \in {1, Len(items[l]) + 1}, v \in Values :
       /\ items' = [items EXCEPT ![l] = InsertAt(@, n, v)]
       /\ position' = IF At(l) /\ position[2] >= n THEN <<l, position[2] + 1>> ELSE position

Delete(l) ==
  /\ l \in Live
  /\ \E n \in DOMAIN items[l] :
       /\ items' = [items EXCEPT ![l] = RemoveAt(@, n)]
       /\ position' = IF ~At(l) \/ position[2] < n THEN position
                      ELSE IF position[2] = n THEN Nowhere ELSE <<l, position[2] - 1>>

(* Through the iterator, which may also be moved, made and dropped. *)
Modify(l) ==
  /\ At(l) /\ position[2] \in DOMAIN items[l]
  /\ \E v \in Values : items' = [items EXCEPT ![l][position[2]] = v]
  /\ UNCHANGED position

Move(l) ==
  /\ UNCHANGED items
  /\ \/ l \in Live /\ position = Nowhere /\ position' \in {<<l, 1>>, <<l, Len(items[l]) + 1>>}
     \/ position' = Nowhere
     \/ /\ At(l) /\ position' \in {<<l, position[2] - 1>>, <<l, position[2] + 1>>}
        /\ position'[2] \in 1..Len(items[l]) + 1

Next == \E l \in Lists : \/ Construct(l) \/ Assign(l) \/ Destroy(l) \/ Lose(l)
                         \/ Insert(l) \/ Delete(l) \/ Modify(l) \/ Move(l)

Spec == Init /\ [][Next]_vars
=============================================================================

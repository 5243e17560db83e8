---------------------------- MODULE AbstractLists ----------------------------
(***************************************************************************)
(* What intrusive-list/intrusive_list.h promises: lists that do not own    *)
(* their items, an item in at most one of them, that leaves it when it is  *)
(* destroyed or the list is; an iterator stays at its item while the item  *)
(* is moved with its whole list or its neighbours come and go.             *)
(***************************************************************************)
EXTENDS SequencesExt

CONSTANTS Lists, Items, NoObject, Nowhere

VARIABLES contents,   (* of a list: its items, or NoObject                 *)
          items,      (* the items constructed                             *)
          position    (* of the iterator: an item, a list (its end) or Nowhere *)

vars == <<contents, items, position>>

Live == {l \in Lists : contents[l] # NoObject}

Linked == UNION {ToSet(contents[l]) : l \in Live}

Init ==
  /\ contents = [l \in Lists |-> NoObject]
  /\ items = {}
  /\ position = Nowhere

(* Iterators at items that leave their list may not be used any more. *)
Lets(gone) == position' = IF position \in gone THEN Nowhere ELSE position

Construct(l) ==
  /\ l \notin Live
  /\ \/ contents' = [contents EXCEPT ![l] = <<>>]
     \/ \E other \in Live : contents' = [contents EXCEPT ![l] = contents[other],
                                                         ![other] = <<>>]
  /\ UNCHANGED <<items, position>>

Destroy(l) ==
  /\ l \in Live
  /\ contents' = [contents EXCEPT ![l] = NoObject]
  /\ Lets(ToSet(contents[l]) \cup {l})
  /\ UNCHANGED items

MoveAssign(l, other) ==
  /\ {l, other} \subseteq Live
  /\ contents' = [contents EXCEPT ![l] = IF l = other THEN <<>> ELSE contents[other],
                                  ![other] = <<>>]
  /\ Lets(ToSet(contents[l]))
  /\ UNCHANGED items

Push(l, i) ==
  /\ l \in Live /\ i \in items \ Linked
  /\ \/ contents' = [contents EXCEPT ![l] = Append(@, i)]
     \/ contents' = [contents EXCEPT ![l] = <<i>> \o @]
  /\ UNCHANGED <<items, position>>

(* Pops are Unlinks of the last or the first item. *)
Unlink(i) ==
  /\ i \in items
  /\ \/ i \notin Linked /\ UNCHANGED contents
     \/ \E l \in Live : \E n \in 1..Len(contents[l]) :
          contents[l][n] = i /\ contents' = [contents EXCEPT ![l] = RemoveAt(@, n)]
  /\ Lets({i})
  /\ items' \in {items, items \ {i}}

PopBack(l) ==
  /\ l \in Live /\ contents[l] # <<>>
  /\ contents' = [contents EXCEPT ![l] = Front(@)]
  /\ Lets({Last(contents[l])})
  /\ UNCHANGED items

PopFront(l) ==
  /\ l \in Live /\ contents[l] # <<>>
  /\ contents' = [contents EXCEPT ![l] = Tail(@)]
  /\ Lets({Head(contents[l])})
  /\ UNCHANGED items

ConstructItem(i) ==
  /\ items' = items \cup {i}
  /\ UNCHANGED <<contents, position>>

(* The items of l with its end after the last one. *)
Ring(l) == Append(contents[l], l)

Move ==
  /\ \/ position = Nowhere /\ position' \in Linked \cup Live
     \/ position' = Nowhere
     \/ \E l \in Live : \E n \in 1..Len(contents[l]) :
          \/ position = Ring(l)[n] /\ position' = Ring(l)[n + 1]
          \/ position = Ring(l)[n + 1] /\ position' = Ring(l)[n]
  /\ UNCHANGED <<contents, items>>

Next ==
  \/ \E l \in Lists : \/ Construct(l) \/ Destroy(l) \/ PopBack(l) \/ PopFront(l)
                      \/ \E other \in Lists : MoveAssign(l, other)
                      \/ \E i \in Items : Push(l, i)
  \/ \E i \in Items : ConstructItem(i) \/ Unlink(i)
  \/ Move

Spec == Init /\ [][Next]_vars
=============================================================================

---------------------------- MODULE IntrusiveList ----------------------------
(***************************************************************************)
(* intrusive-list/intrusive_list.h: ListHook and List over one memory of   *)
(* hooks.  A hook is an item, or the root_ of a list and then named by the *)
(* list.  next and prev are the pointers of the hooks, Null in hooks that  *)
(* do not exist.                                                           *)
(*                                                                         *)
(* Items and lists may be destroyed in any order.  The program keeps to    *)
(* what the interface asks for: only an item that is not linked is pushed  *)
(* (LinkBefore does not look), root_ is private, and an iterator (it) is   *)
(* used while its hook is in a list, not across the end.                   *)
(***************************************************************************)
EXTENDS Integers, FiniteSetsExt, SequencesExt

CONSTANTS Lists, Items, Null

Hooks == Lists \cup Items

NamesAssumption ==
  Lists \cap Items = {} /\ Null \notin Hooks \cup Seq(Items) /\ IsFiniteSet(Items)

VARIABLES next, prev, constructed, it

vars == <<next, prev, constructed, it>>

(* Roots are always in a ring; only hooks that exist are pointed to. *)
TypeOK ==
  /\ constructed \subseteq Hooks
  /\ next \in [Hooks -> constructed \cup {Null}]
  /\ prev \in [Hooks -> constructed \cup {Null}]
  /\ \A l \in Lists \cap constructed : next[l] # Null /\ prev[l] # Null
  /\ it \in constructed \cup {Null}

-----------------------------------------------------------------------------
(* A memory m is [next, prev]. *)
Memory == [next |-> next, prev |-> prev]

(* Unlink() *)
Unlinked(m, h) ==
  LET r == IF m.prev[h] = Null THEN m ELSE [m EXCEPT !.next[m.prev[h]] = m.next[h]]
      s == IF r.next[h] = Null THEN r ELSE [r EXCEPT !.prev[r.next[h]] = r.prev[h]]
  IN  [s EXCEPT !.next[h] = Null, !.prev[h] = Null]

(* h.LinkBefore(other) *)
LinkedBefore(m, h, other) ==
  LET s == IF m.prev[other] = Null THEN m ELSE [m EXCEPT !.next[m.prev[other]] = h]
      t == [s EXCEPT !.prev[h] = s.prev[other]]
  IN  [t EXCEPT !.prev[other] = h, !.next[h] = other]

Alone(m, l) == [m EXCEPT !.next[l] = l, !.prev[l] = l]

IsEmpty(m, l) == m.next[l] = l

IsLinked(m, h) == m.next[h] # Null \/ m.prev[h] # Null

PoppedBack(m, l) ==
  IF ~IsEmpty(m, l) /\ m.prev[l] # Null THEN Unlinked(m, m.prev[l]) ELSE m

PoppedFront(m, l) ==
  IF ~IsEmpty(m, l) /\ m.next[l] # Null THEN Unlinked(m, m.next[l]) ELSE m

(* while (!IsEmpty()) PopBack(); a list has no more than all the items. *)
Emptied(m, l) ==
  LET after[n \in 0..Cardinality(Items)] ==
        IF n = 0 THEN m ELSE PoppedBack(after[n - 1], l)
  IN  Alone(after[Cardinality(Items)], l)

(* The ring of other becomes the ring of l. *)
Moved(m, l, other) == Alone(Unlinked(LinkedBefore(m, l, other), other), other)

(* The walk from the first item of l; Size() steps lead back to l. *)
Walk(l) ==
  LET After == [h \in Hooks |-> IF h \in Items THEN next[h] ELSE h]
      at[n \in 0..Cardinality(Items)] == IF n = 0 THEN next[l] ELSE After[at[n - 1]]
  IN  at

Size(l) == Cardinality({n \in DOMAIN Walk(l) : Walk(l)[n] \in Items})

Contents(l) == [i \in 1..Size(l) |-> Walk(l)[i - 1]]

-----------------------------------------------------------------------------
Becomes(m) == next' = m.next /\ prev' = m.prev

(* An iterator at a hook that is gone or unlinked may not be used again. *)
IteratorKept ==
  it' = IF it # Null /\ it \in constructed' /\ next'[it] # Null THEN it ELSE Null

Init ==
  /\ next = [h \in Hooks |-> Null]
  /\ prev = [h \in Hooks |-> Null]
  /\ constructed = {}
  /\ it = Null

ConstructItem(i) ==
  /\ i \notin constructed
  /\ constructed' = constructed \cup {i}
  /\ UNCHANGED <<next, prev, it>>

(* ~ListHook() *)
DestroyItem(i) ==
  /\ i \in constructed
  /\ Becomes(Unlinked(Memory, i))
  /\ constructed' = constructed \ {i}
  /\ IteratorKept

Unlink(i) ==
  /\ i \in constructed
  /\ Becomes(Unlinked(Memory, i))
  /\ UNCHANGED constructed
  /\ IteratorKept

(* List() *)
Construct(l) ==
  /\ l \notin constructed
  /\ Becomes(Alone(Memory, l))
  /\ constructed' = constructed \cup {l}
  /\ UNCHANGED it

(* List(List&& other) *)
MoveConstruct(l, other) ==
  /\ l \notin constructed /\ other \in constructed
  /\ Becomes(Moved(Memory, l, other))
  /\ constructed' = constructed \cup {l}
  /\ UNCHANGED it

MutDestroy(l) ==               \* ~ListHook() of root_ alone
  /\ l \in constructed
  /\ Becomes(Unlinked(Memory, l))
  /\ constructed' = constructed \ {l}
  /\ IteratorKept

(* ~List(), then ~ListHook() of root_ *)
Destroy(l) ==
  /\ l \in constructed
  /\ Becomes(Unlinked(Emptied(Memory, l), l))
  /\ constructed' = constructed \ {l}
  /\ IteratorKept

MutMoveAssign(l, other) ==     \* what the list held is not unlinked
  /\ {l, other} \subseteq constructed
  /\ Becomes(Moved(Alone(Memory, l), l, other))
  /\ UNCHANGED constructed
  /\ IteratorKept

(* operator=(List&& other): a list moved to itself is emptied. *)
MoveAssign(l, other) ==
  /\ {l, other} \subseteq constructed
  /\ Becomes(Moved(Emptied(Memory, l), l, other))
  /\ UNCHANGED constructed
  /\ IteratorKept

PushBack(l, i) ==
  /\ {l, i} \subseteq constructed /\ ~IsLinked(Memory, i)
  /\ Becomes(LinkedBefore(Memory, i, l))
  /\ UNCHANGED <<constructed, it>>

MutPushFront(l, i) ==          \* before the root
  /\ {l, i} \subseteq constructed /\ ~IsLinked(Memory, i)
  /\ Becomes(LinkedBefore(Memory, i, l))
  /\ UNCHANGED <<constructed, it>>

PushFront(l, i) ==
  /\ {l, i} \subseteq constructed /\ ~IsLinked(Memory, i)
  /\ Becomes(LinkedBefore(Memory, i, next[l]))
  /\ UNCHANGED <<constructed, it>>

PopBack(l) ==
  /\ l \in constructed
  /\ Becomes(PoppedBack(Memory, l))
  /\ UNCHANGED constructed
  /\ IteratorKept

PopFront(l) ==
  /\ l \in constructed
  /\ Becomes(PoppedFront(Memory, l))
  /\ UNCHANGED constructed
  /\ IteratorKept

(* Begin(), End() and IteratorTo() of an item in a list. *)
GetIterator ==
  /\ it = Null
  /\ \/ \E l \in Lists \cap constructed : it' \in {next[l], l}
     \/ \E i \in Items \cap constructed : IsLinked(Memory, i) /\ it' = i
  /\ UNCHANGED <<next, prev, constructed>>

(* The iterator goes out of scope. *)
Forget == it' = Null /\ UNCHANGED <<next, prev, constructed>>

Increment ==
  /\ it \in Items
  /\ it' = next[it]
  /\ UNCHANGED <<next, prev, constructed>>

Decrement ==
  /\ it # Null /\ prev[it] \in Items
  /\ it' = prev[it]
  /\ UNCHANGED <<next, prev, constructed>>

-----------------------------------------------------------------------------
Next ==
  \/ \E l \in Lists :
       \/ Construct(l) \/ Destroy(l) \/ PopBack(l) \/ PopFront(l)
       \/ \E other \in Lists : MoveConstruct(l, other) \/ MoveAssign(l, other)
       \/ \E i \in Items : PushBack(l, i) \/ PushFront(l, i)
  \/ \E i \in Items : ConstructItem(i) \/ DestroyItem(i) \/ Unlink(i)
  \/ GetIterator \/ Forget \/ Increment \/ Decrement

Spec == Init /\ [][Next]_vars

-----------------------------------------------------------------------------
LinksAgree ==
  /\ \A h \in Hooks : next[h] # Null => prev[next[h]] = h
  /\ \A h \in Hooks : prev[h] # Null => next[prev[h]] = h

LinkedInOneList ==
  \A i \in Items :
    Cardinality({l \in Lists \cap constructed : Contains(Contents(l), i)})
      = IF IsLinked(Memory, i) THEN 1 ELSE 0

(* The two directions agree and no hook keeps a pointer to one that has    *)
(* been destroyed, whoever went first.  IsLinked() is true exactly of the  *)
(* items in a list: a list that dies or is overwritten lets all of its     *)
(* items go, and none is in a ring without a list.                         *)
HooksConsistent == TypeOK /\ LinksAgree /\ LinkedInOneList

(* Back and front are not mixed up, whatever the ring was before.          *)
EndsRespected ==
  [][\A l \in Lists \cap constructed :
       /\ \A i \in Items : PushBack(l, i)  => Contents(l)' = Append(Contents(l), i)
       /\ \A i \in Items : PushFront(l, i) => Contents(l)' = <<i>> \o Contents(l)
       /\ PopBack(l) /\ Contents(l) # <<>>  => Contents(l)' = Front(Contents(l))
       /\ PopFront(l) /\ Contents(l) # <<>> => Contents(l)' = Tail(Contents(l))]_vars

AllContents == [l \in Lists |-> IF l \in constructed THEN Contents(l) ELSE Null]

Abstract == INSTANCE AbstractLists
  WITH contents <- AllContents,
       items <- Items \cap constructed, position <- it, NoObject <- Null, Nowhere <- Null

(* The hooks implement lists of items that do not own them. *)
ImplementsLists == Abstract!Spec
=============================================================================

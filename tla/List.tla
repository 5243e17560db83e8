-------------------------------- MODULE List --------------------------------
(***************************************************************************)
(* list/list.h: List objects whose nodes form a ring with an allocated     *)
(* root.  node maps the allocated addresses to their BaseNode or Node,     *)
(* list a constructed object to its root_ptr_ and size_, and it is one     *)
(* iterator, at a node or at a root (End()).                               *)
(*                                                                         *)
(* The program does not pop an empty list, uses an iterator only while its *)
(* node exists, and calls Erase of the list that has the node.  new and    *)
(* T's constructors may throw; where that changes nothing it is no step.   *)
(* A list that is Lost may not be touched any more, not even destroyed.    *)
(* Addresses are numbers, and new goes on counting.  MaxSize bounds the    *)
(* lists.                                                                  *)
(***************************************************************************)
EXTENDS Integers, Sequences, FiniteSetsExt, Functions

CONSTANTS Lists, Values, MaxSize, Gone, Lost, Null

Headers == [root : Nat, size : Nat]

NamesAssumption ==
  /\ Null \notin Nat \cup Values \cup (Lists \X Nat)
  /\ Gone \notin Headers \cup Seq(Values)
  /\ Lost \notin Headers \cup Seq(Values) \cup {Gone}

BoundsAssumption == MaxSize \in Nat

VARIABLES node, list, it

vars == <<node, list, it>>

Constructed == {l \in Lists : list[l] \notin {Gone, Lost}}

-----------------------------------------------------------------------------
(* A list in memory is s = [node, root, size]. *)
In(nodes, l) == [node |-> nodes, root |-> list[l].root, size |-> list[l].size]

Memory(l) == In(node, l)

(* new: the next address, also after those that the call has freed. *)
Fresh(nodes) ==
  LET used == DOMAIN nodes \cup DOMAIN node
  IN  CHOOSE a \in {0} \cup {b + 1 : b \in used} : \A b \in used : b < a

With(nodes, a, n) == [b \in DOMAIN nodes \cup {a} |-> IF b = a THEN n ELSE nodes[b]]

(* List(): a root that is alone in its ring. *)
New(nodes) ==
  LET r == Fresh(nodes) IN
    [node |-> With(nodes, r, [prev |-> r, next |-> r, value |-> Null]), root |-> r, size |-> 0]

(* LinkAfter(target, new Node(v)) and ++size_ *)
LinkAfter(s, target, v) ==
  LET n == Fresh(s.node)
      after == s.node[target].next
      nodes == With(s.node, n, [prev |-> target, next |-> after, value |-> v])
  IN  [node |-> [nodes EXCEPT ![after].prev = n, ![target].next = n],
       root |-> s.root, size |-> s.size + 1]

MutUnlink(s, n) ==         \* node->next->prev is left as it is
  LET p == s.node[n].prev
      q == s.node[n].next
      nodes == [s.node EXCEPT ![p].next = q]
  IN  [node |-> Restrict(nodes, DOMAIN nodes \ {n}), root |-> s.root, size |-> s.size - 1]

(* Unlink(n), delete n and --size_ *)
Unlink(s, n) ==
  LET p == s.node[n].prev
      q == s.node[n].next
      nodes == [s.node EXCEPT ![p].next = q, ![q].prev = p]
  IN  [node |-> Restrict(nodes, DOMAIN nodes \ {n}), root |-> s.root, size |-> s.size - 1]

PushedBack(s, v)  == LinkAfter(s, s.node[s.root].prev, v)
PushedFront(s, v) == LinkAfter(s, s.root, v)
PoppedBack(s)     == Unlink(s, s.node[s.root].prev)
PoppedFront(s)    == Unlink(s, s.node[s.root].next)

(* ~List() of s: the nodes that are left. *)
Destroyed(s) ==
  LET popped[n \in 0..s.size] == IF n = 0 THEN s ELSE PoppedBack(popped[n - 1])
      left == popped[s.size].node
  IN  Restrict(left, DOMAIN left \ {s.root})

(* The walk from Begin(), which stays at End() when it gets there. *)
Walk(l) ==
  LET root == list[l].root
      After == [a \in DOMAIN node |-> IF a = root THEN a ELSE node[a].next]
      at[n \in 1..MaxSize + 1] == IF n = 1 THEN node[root].next ELSE After[at[n - 1]]
  IN  at

Length(l) == Cardinality({n \in 1..MaxSize + 1 : Walk(l)[n] # list[l].root})

Nodes(l) == [n \in 1..Length(l) |-> Walk(l)[n]]

Contents(l) == [n \in 1..Length(l) |-> node[Walk(l)[n]].value]

(* A new list with a PushBack of each of the values. *)
Filled(values) ==
  LET pushed[n \in 0..Len(values)] ==
        IF n = 0 THEN New(node) ELSE PushedBack(pushed[n - 1], values[n])
  IN  pushed[Len(values)]

MutCopied(l) ==            \* from the back to the front
  Filled([n \in 1..Length(l) |-> Contents(l)[Length(l) + 1 - n]])

Copied(l) == Filled(Contents(l))

-----------------------------------------------------------------------------
Header(s) == [root |-> s.root, size |-> s.size]

(* An iterator to a node that is deleted may not be used any more. *)
IteratorKept == it' = IF it \in DOMAIN node' THEN it ELSE Null

Becomes(l, s) ==
  /\ node' = s.node
  /\ list' = [list EXCEPT ![l] = Header(s)]
  /\ IteratorKept

Init ==
  /\ node = <<>>
  /\ list = [l \in Lists |-> Gone]
  /\ it = Null

(* List() and List(const List&) *)
Construct(l) ==
  /\ list[l] = Gone
  /\ Becomes(l, New(node)) \/ \E other \in Constructed : Becomes(l, Copied(other))

(* A copy that throws, in operator= too: ~List() takes away the part that  *)
(* is there, as List() has been called.                                    *)
CopyThrows(other) ==
  /\ other \in Constructed
  /\ \E n \in 0..list[other].size :
       node' = Destroyed(Filled(SubSeq(Contents(other), 1, n)))
  /\ UNCHANGED <<list, it>>

(* List(List&&) *)
MoveConstruct(l, other) ==
  /\ list[l] = Gone /\ other \in Constructed
  /\ node' = New(node).node
  /\ list' = [list EXCEPT ![l] = list[other], ![other] = Header(New(node))]
  /\ UNCHANGED it

Destroy(l) ==
  /\ l \in Constructed
  /\ node' = Destroyed(Memory(l))
  /\ list' = [list EXCEPT ![l] = Gone]
  /\ IteratorKept

(* operator=(const List&): tmp is copied, swapped and destroyed. *)
CopyAssign(l, other) ==
  /\ {l, other} \subseteq Constructed
  /\ LET tmp == Copied(other) IN
       /\ node' = Destroyed(In(tmp.node, l))
       /\ list' = [list EXCEPT ![l] = Header(tmp)]
  /\ IteratorKept

(* operator=(List&&): a list moved to itself is destroyed and gets the     *)
(* root made for other.  When the new of that root throws l has a root     *)
(* that is not its own.                                                    *)
MoveAssign(l, other) ==
  /\ {l, other} \subseteq Constructed
  /\ LET left == New(Destroyed(Memory(l))) IN
       \/ /\ node' = left.node
          /\ list' = [list EXCEPT ![l] = list[other], ![other] = Header(left)]
       \/ /\ node' = Destroyed(Memory(l))
          /\ list' = [list EXCEPT ![l] = Lost]
  /\ IteratorKept

PushBack(l, v) ==
  /\ l \in Constructed /\ list[l].size < MaxSize
  /\ Becomes(l, PushedBack(Memory(l), v))

PushFront(l, v) ==
  /\ l \in Constructed /\ list[l].size < MaxSize
  /\ Becomes(l, PushedFront(Memory(l), v))

PopBack(l)  == l \in Constructed /\ list[l].size > 0 /\ Becomes(l, PoppedBack(Memory(l)))

PopFront(l) == l \in Constructed /\ list[l].size > 0 /\ Becomes(l, PoppedFront(Memory(l)))

Erase(l) ==
  /\ l \in Constructed /\ it \in Range(Nodes(l))
  /\ Becomes(l, Unlink(Memory(l), it))

Modify(v) ==
  /\ it # Null /\ node[it].value # Null
  /\ node' = [node EXCEPT ![it].value = v]
  /\ UNCHANGED <<list, it>>

(* Begin(), End(), ++, -- and the end of the iterator's scope. *)
GetIterator ==
  /\ it = Null
  /\ \E l \in Constructed : it' \in {node[list[l].root].next, list[l].root}
  /\ UNCHANGED <<node, list>>

Increment ==
  /\ it # Null /\ node[it].value # Null
  /\ it' = node[it].next
  /\ UNCHANGED <<node, list>>

Decrement ==
  /\ it # Null /\ node[node[it].prev].value # Null
  /\ it' = node[it].prev
  /\ UNCHANGED <<node, list>>

Forget == it' = Null /\ UNCHANGED <<node, list>>

Next ==
  \/ \E l \in Lists :
       \/ Construct(l) \/ Destroy(l) \/ PopBack(l) \/ PopFront(l) \/ Erase(l)
       \/ CopyThrows(l)
       \/ \E other \in Lists :
            MoveConstruct(l, other) \/ CopyAssign(l, other) \/ MoveAssign(l, other)
       \/ \E v \in Values : PushBack(l, v) \/ PushFront(l, v)
  \/ \E v \in Values : Modify(v)
  \/ GetIterator \/ Increment \/ Decrement \/ Forget

Spec == Init /\ [][Next]_vars

-----------------------------------------------------------------------------
TypeOK ==
  /\ DOMAIN node \subseteq Nat
  /\ \A a \in DOMAIN node : /\ {node[a].prev, node[a].next} \subseteq DOMAIN node
                            /\ node[a].value \in Values \cup {Null}
  /\ \A l \in Constructed : list[l].root \in DOMAIN node /\ list[l].size \in Nat
  /\ it \in DOMAIN node \cup {Null}

(* Everything allocated is the root or a node of one list, size_ is the    *)
(* number of its nodes (the destructor counts on it), and the two          *)
(* directions of the ring agree: nothing leaks, nothing is deleted twice   *)
(* or shared, through copies, moves, moves to itself and exceptions.  Only *)
(* a move assignment (line 147) may lose the list that it is for.          *)
NodesOwned ==
  /\ TypeOK
  /\ \A a \in DOMAIN node : node[node[a].next].prev = a
  /\ \A a \in DOMAIN node :
       \E l \in Constructed :
         {k \in Constructed : a = list[k].root \/ a \in Range(Nodes(k))} = {l}
  /\ \A l \in Constructed : Length(l) = list[l].size

(* Where the iterator is: Begin() of its list is 1. *)
Position ==
  IF it = Null THEN Null
  ELSE LET Steps(l) == {n \in 1..MaxSize + 1 : Walk(l)[n] = it}
           l == CHOOSE l \in Constructed : Steps(l) # {}
       IN  <<l, Min(Steps(l))>>

AllContents == [l \in Lists |-> IF l \in Constructed THEN Contents(l) ELSE list[l]]

Abstract == INSTANCE AbstractList
  WITH items <- AllContents, position <- Position, NoList <- Gone, Nowhere <- Null

(* The rings are sequences of values, and the iterator stays at its value. *)
ImplementsList == Abstract!Spec
=============================================================================

--------------------------------- MODULE Set ---------------------------------
(***************************************************************************)
(* set/set.h: Set, an AVL tree whose root hangs to the left of a fakeroot. *)
(*                                                                         *)
(* A node keeps its key for life, and a key has at most one node, so the   *)
(* node is named by its key; the names are 1..MaxKey.  The domain of node  *)
(* is what is allocated: the fakeroot and the nodes in the tree (left and  *)
(* right own, parent is weak).  balance is the height of the left subtree  *)
(* minus that of the right one.                                            *)
(*                                                                         *)
(* The loops and recursive functions of the code are recursive operators   *)
(* on a tree t = [node, leftmost, size]; insert, erase and operator= are   *)
(* one action each, as the code is sequential.  An iterator is a node or   *)
(* nothing (Null); it is only used while its node is in the tree, and      *)
(* not moved past the ends.                                                *)
(***************************************************************************)
EXTENDS Integers, FiniteSets

CONSTANTS
  MaxKey,             (* bound: the keys are 1..MaxKey                     *)
  MaxWalked,          (* bound: the size of a set with an iterator in it   *)
  Null

Keys == 1..MaxKey

Fakeroot == 0

VARIABLES tree, it

vars == <<tree, it>>

Nodes(t) == DOMAIN t.node \ {Fakeroot}

(* -2 and 2 are repaired before a call returns. *)
TypeOK ==
  /\ DOMAIN tree.node \subseteq Keys \cup {Fakeroot}
  /\ Fakeroot \in DOMAIN tree.node
  /\ tree.node \in [DOMAIN tree.node ->
       [left : Nodes(tree) \cup {Null}, right : Nodes(tree) \cup {Null},
        parent : DOMAIN tree.node \cup {Null}, balance : -1..1]]
  /\ tree.leftmost \in DOMAIN tree.node
  /\ tree.size \in Nat
  /\ it \in Keys \cup {Fakeroot, Null}

-----------------------------------------------------------------------------
(* Searching and walking. *)
RECURSIVE Min(_, _), Max(_, _), Climb(_, _, _), Search(_, _, _, _)

Min(t, n) == IF t.node[n].left = Null THEN n ELSE Min(t, t.node[n].left)

Max(t, n) == IF t.node[n].right = Null THEN n ELSE Max(t, t.node[n].right)

(* The first ancestor that does not have n on its side. *)
Climb(t, n, side) ==
  LET p == t.node[n].parent IN
    IF p # Null /\ t.node[p][side] = n THEN Climb(t, p, side) ELSE p

Next(t, n) ==
  IF t.node[n].right # Null THEN Min(t, t.node[n].right) ELSE Climb(t, n, "right")

Prev(t, n) ==
  IF t.node[n].left # Null THEN Max(t, t.node[n].left) ELSE Climb(t, n, "left")

(* The loop of Find: the node with the key, or the lower bound met so far. *)
Search(t, key, n, lower_bound) ==
  CASE n = Null -> lower_bound
    [] n = key  -> n
    [] n > key  -> Search(t, key, t.node[n].left,
                          IF lower_bound = Fakeroot \/ n < lower_bound
                          THEN n ELSE lower_bound)
    [] OTHER    -> Search(t, key, t.node[n].right, lower_bound)

MutFind(t, key, find_lower_bound) ==   \* the lower bound for any key not found
  Search(t, key, t.node[Fakeroot].left, Fakeroot)

Find(t, key, find_lower_bound) ==
  LET n == Search(t, key, t.node[Fakeroot].left, Fakeroot) IN
    IF n = key \/ find_lower_bound THEN n ELSE Fakeroot

-----------------------------------------------------------------------------
(* Rotations. *)
SetParent(t, n, p) == IF n = Null THEN t ELSE [t EXCEPT !.node[n].parent = p]

(* The pointer of p to its child old becomes a pointer to new. *)
SetChild(t, p, old, new) ==
  IF t.node[p].left = old THEN [t EXCEPT !.node[p].left = new]
                          ELSE [t EXCEPT !.node[p].right = new]

MutRotateLeft(t, a) ==  \* the balance of a is not corrected for that of b
  LET b == t.node[a].right
      m == t.node[b].left
      p == t.node[a].parent
      moved == SetChild(SetParent(t, m, a), p, a, b)
      bal_a == t.node[a].balance + 1
      bal_b == t.node[b].balance + 1 + (IF t.node[b].balance < 0 THEN bal_a ELSE 0)
  IN  [moved EXCEPT !.node[a] = [@ EXCEPT !.right = m, !.parent = b, !.balance = bal_a],
                    !.node[b] = [@ EXCEPT !.left = a, !.parent = p, !.balance = bal_b]]

RotateLeft(t, a) ==
  LET b == t.node[a].right
      m == t.node[b].left
      p == t.node[a].parent
      moved == SetChild(SetParent(t, m, a), p, a, b)
      bal_a == t.node[a].balance + 1
                 + (IF t.node[b].balance < 0 THEN -t.node[b].balance ELSE 0)
      bal_b == t.node[b].balance + 1 + (IF t.node[b].balance < 0 THEN bal_a ELSE 0)
  IN  [moved EXCEPT !.node[a] = [@ EXCEPT !.right = m, !.parent = b, !.balance = bal_a],
                    !.node[b] = [@ EXCEPT !.left = a, !.parent = p, !.balance = bal_b]]

RotateRight(t, a) ==
  LET b == t.node[a].left
      m == t.node[b].right
      p == t.node[a].parent
      moved == SetChild(SetParent(t, m, a), p, a, b)
      bal_a == t.node[a].balance - 1
                 + (IF t.node[b].balance > 0 THEN -t.node[b].balance ELSE 0)
      bal_b == t.node[b].balance - 1 + (IF t.node[b].balance > 0 THEN bal_a ELSE 0)
  IN  [moved EXCEPT !.node[a] = [@ EXCEPT !.left = m, !.parent = b, !.balance = bal_a],
                    !.node[b] = [@ EXCEPT !.right = a, !.parent = p, !.balance = bal_b]]

RotateRightLeft(t, n) == RotateLeft(RotateRight(t, t.node[n].right), n)

RotateLeftRight(t, n) == RotateRight(RotateLeft(t, t.node[n].left), n)

(* One turn of the loop of Rebalance at n. *)
Repair(t, n, on_insert) ==
  LET p == t.node[n].parent
      change == IF on_insert = (t.node[p].left = n) THEN 1 ELSE -1
  IN  CASE t.node[n].balance = -2 ->
             IF t.node[t.node[n].right].balance = 1
             THEN RotateRightLeft(t, n) ELSE RotateLeft(t, n)
        [] t.node[n].balance = 2 ->
             IF t.node[t.node[n].left].balance = -1
             THEN RotateLeftRight(t, n) ELSE RotateRight(t, n)
        [] OTHER -> [t EXCEPT !.node[p].balance = @ + change]

RECURSIVE Rebalance(_, _, _)

Rebalance(t, n, on_insert) ==
  IF \/ n = Fakeroot
     \/ on_insert /\ t.node[n].balance = 0
     \/ ~on_insert /\ t.node[n].balance \in {-1, 1}
  THEN [t EXCEPT !.node[Fakeroot].balance = 0]
  ELSE LET s == Repair(t, n, on_insert)
       IN  Rebalance(s, s.node[n].parent, on_insert)

-----------------------------------------------------------------------------
(* Insert and Erase. *)
NewNode(parent, balance) ==
  [left |-> Null, right |-> Null, parent |-> parent, balance |-> balance]

(* make_shared<Node>(key), hung under p. *)
Hang(t, key, p, side, balance) ==
  [t EXCEPT !.node = [n \in DOMAIN @ \cup {key} |->
     IF n = key THEN NewNode(p, balance)
     ELSE IF n = p THEN [@[n] EXCEPT ![side] = key] ELSE @[n]]]

RECURSIVE Descend(_, _, _)

(* The loop of Insert: the node with the key, or the parent of a new one. *)
Descend(t, key, n) ==
  LET child == IF key < n THEN t.node[n].left ELSE t.node[n].right
  IN  IF key = n \/ child = Null THEN n ELSE Descend(t, key, child)

MutDuplicate(t, key) ==  \* ++size also for a key that is there
  IF t.node[Fakeroot].left = Null
  THEN [Hang(t, key, Fakeroot, "left", 0) EXCEPT !.leftmost = key, !.size = @ + 1]
  ELSE LET p    == Descend(t, key, t.node[Fakeroot].left)
           side == IF key < p THEN "left" ELSE "right"
           hung == [Hang(t, key, p, side, 0)
                      EXCEPT !.node[p].balance = @ + (IF key < p THEN 1 ELSE -1)]
           leftmost == IF hung.node[t.leftmost].left # Null
                       THEN hung.node[t.leftmost].left ELSE t.leftmost
       IN  IF p = key THEN [t EXCEPT !.size = @ + 1]
           ELSE Rebalance([hung EXCEPT !.leftmost = leftmost, !.size = @ + 1], p, TRUE)

Inserted(t, key) ==
  IF t.node[Fakeroot].left = Null
  THEN [Hang(t, key, Fakeroot, "left", 0) EXCEPT !.leftmost = key, !.size = @ + 1]
  ELSE LET p    == Descend(t, key, t.node[Fakeroot].left)
           side == IF key < p THEN "left" ELSE "right"
           hung == [Hang(t, key, p, side, 0)
                      EXCEPT !.node[p].balance = @ + (IF key < p THEN 1 ELSE -1)]
           leftmost == IF hung.node[t.leftmost].left # Null
                       THEN hung.node[t.leftmost].left ELSE t.leftmost
       IN  IF p = key THEN t
           ELSE Rebalance([hung EXCEPT !.leftmost = leftmost, !.size = @ + 1], p, TRUE)

Exchange(t, l, r, field) ==
  [t EXCEPT !.node[l][field] = t.node[r][field], !.node[r][field] = t.node[l][field]]

(* Every pointer to and from l and r, in the order of the code: when r is  *)
(* the right child of l, r is for a while its own parent and child.        *)
SwapNodes(t, l, r) ==
  LET s1 == SetParent(t, t.node[l].left, r)
      s2 == Exchange(SetParent(s1, s1.node[r].left, l), l, r, "left")
      s3 == SetParent(s2, s2.node[l].right, r)
      s4 == Exchange(SetParent(s3, s3.node[r].right, l), l, r, "right")
      s5 == SetChild(s4, s4.node[l].parent, l, r)
      s6 == SetChild(s5, s5.node[r].parent, r, l)
  IN  Exchange(Exchange(s6, l, r, "parent"), l, r, "balance")

(* A node without a right or a left child is replaced by the other one,    *)
(* and freed when its last owner lets go.                                  *)
Unlinked(t, n) ==
  LET p     == t.node[n].parent
      child == IF t.node[n].right # Null THEN t.node[n].right ELSE t.node[n].left
      moved == SetChild([SetParent(t, child, p) EXCEPT
                           !.node[p].balance = @ + (IF t.node[p].left = n THEN -1 ELSE 1)],
                        p, n, child)
  IN  [moved EXCEPT !.node = [k \in DOMAIN @ \ {n} |-> @[k]], !.size = @ - 1]

Erased(t, n) ==
  LET next    == Next(t, n)
      forward == [t EXCEPT !.leftmost = IF n = @ THEN next ELSE @]
      swapped == IF t.node[n].left # Null /\ t.node[n].right # Null
                 THEN SwapNodes(forward, n, next) ELSE forward
  IN  Rebalance(Unlinked(swapped, n), swapped.node[n].parent, FALSE)

(* AVLTree() *)
Empty == [node |-> [n \in {Fakeroot} |-> NewNode(Null, 0)],
          leftmost |-> Fakeroot, size |-> 0]

RECURSIVE DeepCopy(_, _, _)

(* The subtree of n in orig, hung in copy below its node n. *)
DeepCopy(orig, copy, n) ==
  LET with(c, side) ==
        LET child == orig.node[n][side] IN
          IF child = Null THEN c
          ELSE DeepCopy(orig, Hang(c, child, n, side, orig.node[child].balance), child)
  IN  with(with(copy, "left"), "right")

(* AVLTree(other): leftmost_node_ptr is searched anew. *)
Copied(orig) ==
  LET root == orig.node[Fakeroot].left
      copy == DeepCopy(orig, Hang(Empty, root, Fakeroot, "left",
                                  orig.node[root].balance), root)
  IN  IF root = Null THEN Empty
      ELSE [copy EXCEPT !.leftmost = Min(copy, root), !.size = orig.size]

-----------------------------------------------------------------------------
(* The program's calls. *)
Init == tree = Empty /\ it = Null

Insert(key) ==
  /\ it = Null \/ tree.size < MaxWalked
  /\ tree' = Inserted(tree, key)
  /\ UNCHANGED it

(* An iterator at the erased node may not be used again. *)
Erase(key) ==
  LET n == Find(tree, key, FALSE) IN
    /\ tree' = IF n = Fakeroot THEN tree ELSE Erased(tree, n)
    /\ it' = IF it = key THEN Null ELSE it

(* set = Set(set): iterators still point into the old tree. *)
Assign ==
  /\ tree' = Copied(tree)
  /\ it' = Null

GetIterator ==
  /\ it = Null /\ tree.size <= MaxWalked
  /\ \/ it' = tree.leftmost
     \/ it' = Fakeroot
     \/ \E key \in Keys, lower_bound \in BOOLEAN : it' = Find(tree, key, lower_bound)
  /\ UNCHANGED tree

(* The iterator goes out of scope. *)
Forget == it' = Null /\ UNCHANGED tree

Increment ==
  /\ it \notin {Null, Fakeroot}
  /\ it' = Next(tree, it)
  /\ UNCHANGED tree

Decrement ==
  /\ it \notin {Null, tree.leftmost}
  /\ it' = Prev(tree, it)
  /\ UNCHANGED tree

Step ==
  \/ \E key \in Keys : Insert(key) \/ Erase(key)
  \/ Assign \/ GetIterator \/ Forget \/ Increment \/ Decrement

Spec == Init /\ [][Step]_vars

-----------------------------------------------------------------------------
RECURSIVE Height(_, _), Subtree(_, _)

Height(t, n) ==
  IF n = Null THEN 0
  ELSE LET l == Height(t, t.node[n].left)
           r == Height(t, t.node[n].right)
       IN  1 + IF l > r THEN l ELSE r

Subtree(t, n) ==
  IF n = Null THEN {}
  ELSE {n} \cup Subtree(t, t.node[n].left) \cup Subtree(t, t.node[n].right)

(* Pointers agree: a child's parent is the node that owns it, and every    *)
(* allocated node is owned, so nothing leaks in a cycle of shared_ptr.     *)
WellLinked ==
  /\ TypeOK
  /\ \A n \in DOMAIN tree.node :
       \A c \in {tree.node[n].left, tree.node[n].right} \ {Null} : tree.node[c].parent = n
  /\ tree.node[Fakeroot].right = Null
  /\ Nodes(tree) = Subtree(tree, tree.node[Fakeroot].left)

(* The balances kept by increments and by the formulas of the rotations    *)
(* are the differences of the real heights.                                *)
BalancesReal ==
  \A n \in Nodes(tree) : tree.node[n].balance =
    Height(tree, tree.node[n].left) - Height(tree, tree.node[n].right)

(* The tree stays a balanced tree whose links and balances are right,      *)
(* after every insertion, erasure by exchange of nodes, and copy.          *)
TreeSound == WellLinked /\ BalancesReal

LeftmostReal ==
  tree.leftmost = IF Nodes(tree) = {} THEN Fakeroot
                  ELSE Min(tree, tree.node[Fakeroot].left)

(* Parent and child links lead through the keys in their order, and from   *)
(* the end back to the last one, from Begin(), which is kept and not       *)
(* searched: every subtree is a search tree.                               *)
WalkInOrder ==
  /\ LeftmostReal
  /\ \A n \in Nodes(tree) :
       LET next == Next(tree, n) IN
         /\ n < next \/ next = Fakeroot
         /\ \A m \in Nodes(tree) : m <= n \/ (m >= next /\ next # Fakeroot)
         /\ Prev(tree, next) = n

(* The search with the bound kept on the way down misses no key and no     *)
(* closer bound.                                                           *)
FindExact ==
  \A key \in Keys :
    LET n == Find(tree, key, TRUE) IN
      /\ Find(tree, key, FALSE) = IF key \in Nodes(tree) THEN key ELSE Fakeroot
      /\ n >= key \/ n = Fakeroot
      /\ \A m \in Nodes(tree) : m < key \/ (m >= n /\ n # Fakeroot)

(* Walks and searches meet exactly the keys that are there, in order.      *)
SearchExact == WalkInOrder /\ FindExact

AbstractSet == INSTANCE OrderedSet
  WITH keys <- Nodes(tree), size <- tree.size, position <- it, End <- Fakeroot, Nowhere <- Null

(* Set is an ordered set: insert, erase, find, lower_bound and iterators   *)
(* that survive changes to other elements, as std::set's do.               *)
ImplementsSet == AbstractSet!Spec
=============================================================================

------------------------------- MODULE Deque --------------------------------
(***************************************************************************)
(* deque/deque.h: several Deque objects over one heap of blocks.           *)
(*                                                                         *)
(* deque maps a constructed object to its members.  blocks is the array    *)
(* blocks_ (Null: nullptr), head and tail are head_block_ptr_ and          *)
(* tail_block_ptr_ as distances from blocks_, so head may be -1 and tail   *)
(* may be num_blocks; headInd and tailInd are the next free cells inside   *)
(* the blocks at head + 1 and tail - 1.  The heap maps the address of each *)
(* block allocated with new int[kBlockSize] to its cells.  Junk stands for *)
(* a cell nobody may read: not written yet, or left over from a popped     *)
(* element.                                                                *)
(*                                                                         *)
(* Every member function is one action.  PopBack and PopFront can read one *)
(* pointer outside blocks_; what lies there is a null pointer (the call    *)
(* goes on) or anything else, which delete[] does not survive (stopped).   *)
(* Addresses are numbers, and new, which does not throw, goes on counting. *)
(***************************************************************************)
EXTENDS Integers, Sequences, Functions

CONSTANTS
  Objects,            (* the Deque variables of the program                *)
  Values,             (* the ints pushed; 0 is one of them                 *)
  BlockSize,          (* kBlockSize: 128 in the code                       *)
  MaxSize,            (* bound: elements of all objects                    *)
  MaxBlocks,          (* bound: num_blocks_ of all objects                 *)
  NoObject, Null, Junk

NamesAssumption ==
  /\ Null \notin Nat
  /\ NoObject \notin Seq(Values)

BoundsAssumption == BlockSize \in Nat \ {0} /\ MaxSize \in Nat /\ 0 \in Values

ReallocationCoef == 2

VARIABLES deque, heap, stopped

vars == <<deque, heap, stopped>>

Constructed == DOMAIN deque

Indices == 0..(BlockSize - 1)

-----------------------------------------------------------------------------
(* A memory m is the heap together with the members q of one deque. *)
Initialized ==
  [blocks |-> [i \in 0..1 |-> Null], num_blocks |-> 2, head |-> 0, tail |-> 1,
   headInd |-> -1, tailInd |-> BlockSize, size |-> 0]

EmptyBlock == [j \in Indices |-> Junk]

(* The next address after those in use. *)
Fresh(blocks) ==
  CHOOSE a \in {0} \cup {b + 1 : b \in DOMAIN blocks} : \A b \in DOMAIN blocks : b < a

AllocateIfNull(m, i) ==
  LET a == Fresh(m.heap) IN
    IF m.q.blocks[i] # Null THEN m
    ELSE [heap |-> [b \in DOMAIN m.heap \cup {a} |-> IF b = a THEN EmptyBlock ELSE m.heap[b]],
          q    |-> [m.q EXCEPT !.blocks = [@ EXCEPT ![i] = a]]]

(* A block that is there is deleted and its pointer reset; outside blocks_ *)
(* the word read is taken to be null.                                      *)
Release(m, i) ==
  IF i \in DOMAIN m.q.blocks /\ m.q.blocks[i] # Null
  THEN [heap |-> Restrict(m.heap, DOMAIN m.heap \ {m.q.blocks[i]}),
        q    |-> [m.q EXCEPT !.blocks = [@ EXCEPT ![i] = Null]]]
  ELSE m

Write(m, i, j, v) ==
  [heap |-> [m.heap EXCEPT ![m.q.blocks[i]] = [@ EXCEPT ![j] = v]], q |-> m.q]

(* The pointers of blocks_ in the middle of an array of new_num_blocks. *)
Widened(blocks, new_num_blocks, offset) ==
  [i \in 0..(new_num_blocks - 1) |->
     IF i - offset \in DOMAIN blocks THEN blocks[i - offset] ELSE Null]

MutReallocate(m, new_num_blocks) ==   \* head_block_ptr_ is not moved
  LET offset == (new_num_blocks - m.q.num_blocks) \div 2 IN
    IF new_num_blocks <= m.q.num_blocks THEN m
    ELSE [heap |-> m.heap,
          q    |-> [m.q EXCEPT !.blocks = Widened(@, new_num_blocks, offset),
                               !.num_blocks = new_num_blocks, !.tail = @ + offset]]

Reallocate(m, new_num_blocks) ==
  LET offset == (new_num_blocks - m.q.num_blocks) \div 2 IN
    IF new_num_blocks <= m.q.num_blocks THEN m
    ELSE [heap |-> m.heap,
          q    |-> [m.q EXCEPT !.blocks = Widened(@, new_num_blocks, offset),
                               !.num_blocks = new_num_blocks,
                               !.head = @ + offset, !.tail = @ + offset]]

(* The block behind the last one, and in front of the first one. *)
BackReady(m) ==
  LET roomy == IF m.q.tail >= m.q.num_blocks
               THEN Reallocate(m, ReallocationCoef * m.q.num_blocks) ELSE m
      new   == AllocateIfNull(roomy, roomy.q.tail)
  IN  [heap |-> new.heap, q |-> [new.q EXCEPT !.tail = @ + 1, !.tailInd = 0]]

FrontReady(m) ==
  LET roomy == IF m.q.head < 0
               THEN Reallocate(m, ReallocationCoef * m.q.num_blocks) ELSE m
      new   == AllocateIfNull(roomy, roomy.q.head)
  IN  [heap |-> new.heap, q |-> [new.q EXCEPT !.head = @ - 1, !.headInd = BlockSize - 1]]

PushedBack(m, v) ==
  LET ready   == IF m.q.tailInd >= BlockSize THEN BackReady(m) ELSE m
      written == Write(ready, ready.q.tail - 1, ready.q.tailInd, v)
  IN  [heap |-> written.heap, q |-> [ready.q EXCEPT !.tailInd = @ + 1, !.size = @ + 1]]

PushedFront(m, v) ==
  LET ready   == IF m.q.headInd <= -1 THEN FrontReady(m) ELSE m
      written == Write(ready, ready.q.head + 1, ready.q.headInd, v)
  IN  [heap |-> written.heap, q |-> [ready.q EXCEPT !.headInd = @ - 1, !.size = @ + 1]]

(* The popped cell keeps its int, which nobody may read: Junk. *)
PoppedBack(m) ==
  LET last == IF m.q.tailInd > 0 THEN Write(m, m.q.tail - 1, m.q.tailInd - 1, Junk)
              ELSE Write(Release(m, m.q.tail), m.q.tail - 2, BlockSize - 1, Junk)
  IN  [heap |-> last.heap,
       q    |-> IF m.q.tailInd > 0 THEN [last.q EXCEPT !.tailInd = @ - 1, !.size = @ - 1]
                ELSE [last.q EXCEPT !.tailInd = BlockSize - 1, !.tail = @ - 1, !.size = @ - 1]]

PoppedFront(m) ==
  LET first == IF m.q.headInd < BlockSize - 1 THEN Write(m, m.q.head + 1, m.q.headInd + 1, Junk)
               ELSE Write(Release(m, m.q.head), m.q.head + 2, 0, Junk)
  IN  [heap |-> first.heap,
       q    |-> IF m.q.headInd < BlockSize - 1
                THEN [first.q EXCEPT !.headInd = @ + 1, !.size = @ - 1]
                ELSE [first.q EXCEPT !.headInd = 0, !.head = @ + 1, !.size = @ - 1]]

(* The reads outside blocks_. *)
PopsBackOutside(q)  == q.size > 0 /\ q.tailInd = 0 /\ q.tail = q.num_blocks
PopsFrontOutside(q) == q.size > 0 /\ q.headInd = BlockSize - 1 /\ q.head = -1

MutPlace(q, index) ==           \* headInd + index in the first block
  LET first_block_num_elems == BlockSize - q.headInd - 1
      rest == index - first_block_num_elems
  IN  IF first_block_num_elems > index
      THEN <<q.blocks[q.head + 1], q.headInd + index>>
      ELSE <<q.blocks[q.head + 2 + rest \div BlockSize], rest % BlockSize>>

(* operator[]: the block and the cell of an index. *)
Place(q, index) ==
  LET first_block_num_elems == BlockSize - q.headInd - 1
      rest == index - first_block_num_elems
  IN  IF first_block_num_elems > index
      THEN <<q.blocks[q.head + 1], q.headInd + index + 1>>
      ELSE <<q.blocks[q.head + 2 + rest \div BlockSize], rest % BlockSize>>

MutCopied(m) == m       \* a shallow copy

(* The deep copy of m.q: a fresh block for every block. *)
Copied(m) ==
  LET a == Fresh(m.heap)
      Full == {i \in DOMAIN m.q.blocks : m.q.blocks[i] # Null}
  IN  [heap |-> [b \in DOMAIN m.heap \cup {a + i : i \in Full} |->
                   IF b \in DOMAIN m.heap THEN m.heap[b] ELSE m.heap[m.q.blocks[b - a]]],
       q    |-> [m.q EXCEPT !.blocks = [i \in DOMAIN @ |-> IF i \in Full THEN a + i ELSE Null]]]

(* The heap after ~Deque(). *)
Freed(blocks, q) == Restrict(blocks, DOMAIN blocks \ Range(q.blocks))

(* The number of blocks the constructors ask for. *)
BlocksFor(size) ==
  LET num[k \in 0..size] ==
        IF k = 0 THEN Initialized.num_blocks
        ELSE IF BlockSize * num[k - 1] < size THEN ReallocationCoef * num[k - 1] ELSE num[k - 1]
  IN  num[size]

(* The first half of the list is pushed to the front, backwards, the rest  *)
(* to the back.                                                            *)
Filled(m, list, half) ==
  LET pushed[n \in 0..Len(list)] ==
        IF n = 0 THEN m
        ELSE IF n <= half THEN PushedFront(pushed[n - 1], list[half + 1 - n])
        ELSE PushedBack(pushed[n - 1], list[n])
  IN  pushed[Len(list)]

-----------------------------------------------------------------------------
Memory(d) == [heap |-> heap, q |-> deque[d]]

(* The bounds are on the objects together. *)
InBounds ==
  /\ FoldFunction(+, 0, [d \in Constructed |-> deque[d].size]) <= MaxSize
  /\ FoldFunction(+, 0, [d \in Constructed |-> deque[d].num_blocks]) <= MaxBlocks

With(deques, d, q) == [e \in DOMAIN deques \cup {d} |-> IF e = d THEN q ELSE deques[e]]

(* The deque d and the heap are those of m. *)
Becomes(d, m) ==
  /\ deque' = With(deque, d, m.q)
  /\ heap' = m.heap
  /\ InBounds'
  /\ UNCHANGED stopped

Init == deque = <<>> /\ heap = <<>> /\ stopped = FALSE

(* Deque() *)
Construct(d) ==
  /\ d \notin Constructed
  /\ Becomes(d, [heap |-> heap, q |-> Initialized])

(* Deque(size) and Deque(list) *)
ConstructFilled(d, list, half) ==
  /\ d \notin Constructed
  /\ LET m == Reallocate([heap |-> heap, q |-> Initialized], BlocksFor(Len(list)))
     IN  Becomes(d, Filled(m, list, half))

ConstructSize(d) == \E size \in 0..MaxSize : ConstructFilled(d, [i \in 1..size |-> 0], 0)

ConstructList(d) ==
  \E size \in 1..MaxSize : \E list \in [1..size -> Values] :
    ConstructFilled(d, list, size \div 2)

(* Deque(const Deque& other) *)
CopyConstruct(d, other) ==
  /\ d \notin Constructed /\ other \in Constructed
  /\ Becomes(d, Copied(Memory(other)))

(* Deque(Deque&& other) *)
MoveConstruct(d, other) ==
  /\ d \notin Constructed /\ other \in Constructed
  /\ deque' = With(With(deque, d, deque[other]), other, Initialized)
  /\ UNCHANGED <<heap, stopped>>

Destroy(d) ==
  /\ d \in Constructed
  /\ deque' = Restrict(deque, Constructed \ {d})
  /\ heap' = Freed(heap, deque[d])
  /\ UNCHANGED stopped

(* operator=(const Deque& other): the copy is swapped in and what d held   *)
(* is destroyed; nothing happens to an object assigned to itself.          *)
CopyAssign(d, other) ==
  /\ {d, other} \subseteq Constructed /\ d # other
  /\ LET m == Copied(Memory(other)) IN
       Becomes(d, [heap |-> Freed(m.heap, deque[d]), q |-> m.q])

(* operator=(Deque&& other): an object moved to itself is emptied. *)
MoveAssign(d, other) ==
  /\ {d, other} \subseteq Constructed
  /\ heap' = Freed(heap, deque[d])
  /\ deque' = With(With(deque, d, deque[other]), other, Initialized)
  /\ UNCHANGED stopped

Swap(d, other) ==
  /\ {d, other} \subseteq Constructed
  /\ deque' = [deque EXCEPT ![d] = deque[other], ![other] = deque[d]]
  /\ UNCHANGED <<heap, stopped>>

PushBack(d) ==
  /\ d \in Constructed
  /\ \E v \in Values : Becomes(d, PushedBack(Memory(d), v))

PushFront(d) ==
  /\ d \in Constructed
  /\ \E v \in Values : Becomes(d, PushedFront(Memory(d), v))

PopBack(d) ==
  /\ d \in Constructed
  /\ IF deque[d].size = 0 THEN UNCHANGED vars
     ELSE Becomes(d, PoppedBack(Memory(d)))

PopFront(d) ==
  /\ d \in Constructed
  /\ IF deque[d].size = 0 THEN UNCHANGED vars
     ELSE Becomes(d, PoppedFront(Memory(d)))

(* The word read outside blocks_ is not null and delete[] is given it. *)
PopOutside(d) ==
  /\ d \in Constructed
  /\ PopsBackOutside(deque[d]) \/ PopsFrontOutside(deque[d])
  /\ stopped' = TRUE
  /\ UNCHANGED <<deque, heap>>

(* a[index] = value through the reference operator[] returns. *)
Modify(d) ==
  /\ d \in Constructed
  /\ \E index \in 0..(deque[d].size - 1), v \in Values :
       LET place == Place(deque[d], index) IN
         heap' = [heap EXCEPT ![place[1]] = [@ EXCEPT ![place[2]] = v]]
  /\ UNCHANGED <<deque, stopped>>

Clear(d) ==
  /\ d \in Constructed
  /\ Becomes(d, [heap |-> Freed(heap, deque[d]), q |-> Initialized])

-----------------------------------------------------------------------------
Call(d) ==
  \/ Construct(d) \/ ConstructSize(d) \/ ConstructList(d) \/ Destroy(d)
  \/ PushBack(d) \/ PushFront(d) \/ PopBack(d) \/ PopFront(d)
  \/ PopOutside(d) \/ Modify(d) \/ Clear(d)
  \/ \E other \in Objects :
       \/ CopyConstruct(d, other) \/ MoveConstruct(d, other)
       \/ CopyAssign(d, other) \/ MoveAssign(d, other) \/ Swap(d, other)

Next == ~stopped /\ \E d \in Objects : Call(d)

Spec == Init /\ [][Next]_vars

-----------------------------------------------------------------------------
(* size_ counts the cells between the two ends. *)
TypeOK ==
  /\ heap \in [DOMAIN heap -> [Indices -> Values \cup {Junk}]] /\ DOMAIN heap \subseteq Nat
  /\ Constructed \subseteq Objects /\ stopped \in BOOLEAN
  /\ \A d \in Constructed : LET q == deque[d] IN
       /\ q.num_blocks \in Nat /\ q.blocks \in [0..(q.num_blocks - 1) -> Nat \cup {Null}]
       /\ q.head \in -1..(q.num_blocks - 1) /\ q.headInd \in -1..(BlockSize - 1)
       /\ q.tail \in 0..q.num_blocks /\ q.tailInd \in 0..BlockSize
       /\ q.size = (q.tail - q.head - 2) * BlockSize + q.tailInd - q.headInd - 1

Owned(d) == Range(deque[d].blocks) \ {Null}

OneOwnerEach ==
  /\ DOMAIN heap = UNION {Owned(d) : d \in Constructed}
  /\ \A d, e \in Constructed : d # e => Owned(d) \cap Owned(e) = {}
  /\ \A d \in Constructed : \A i, j \in DOMAIN deque[d].blocks :
       deque[d].blocks[i] = deque[d].blocks[j] /\ deque[d].blocks[i] # Null => i = j

FewSpareBlocks ==
  \A d \in Constructed : \A i \in DOMAIN deque[d].blocks :
    deque[d].blocks[i] # Null => i \in deque[d].head..deque[d].tail

(* Every block on the heap has one owner and every pointer points to a     *)
(* block: nothing leaks, nothing is deleted twice, no copy shares a block. *)
(* Pops give memory back: at most one block beyond each end stays.         *)
BlocksOwned == TypeOK /\ OneOwnerEach /\ FewSpareBlocks

Places(q) == [i \in 1..q.size |-> Place(q, i - 1)]

ButLast(s) == SubSeq(s, 1, Len(s) - 1)

(* Pushes and pops at the ends leave every other element where it is, also *)
(* when blocks_ is reallocated (deque/test.cpp, "Reallocations").          *)
ElementsStay ==
  [][\A d \in Constructed :
       /\ PushBack(d)  => Places(deque[d]) = ButLast(Places(deque'[d]))
       /\ PushFront(d) => Places(deque[d]) = Tail(Places(deque'[d]))
       /\ deque[d].size > 0 => /\ PopBack(d)  => Places(deque'[d]) = ButLast(Places(deque[d]))
                               /\ PopFront(d) => Places(deque'[d]) = Tail(Places(deque[d]))]_vars

Value(place) ==
  IF place[1] \in DOMAIN heap /\ place[2] \in Indices THEN heap[place[1]][place[2]] ELSE Junk

Contents ==
  [d \in Objects |->
     IF d \in Constructed
     THEN [i \in 1..deque[d].size |-> Value(Place(deque[d], i - 1))]
     ELSE NoObject]

Abstract == INSTANCE AbstractDeque WITH items <- Contents

(* Read through operator[], the objects are sequences of values that grow, *)
(* shrink, are copied and are moved as std::deque's are.                   *)
ImplementsDeque == Abstract!Spec

(* No sequence of legal calls ends in undefined behaviour, as promised by  *)
(* the std::deque deque/README.md names: violated by PopBack and PopFront. *)
NeverStops == ~stopped
=============================================================================

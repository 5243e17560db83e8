------------------------------- MODULE Vector -------------------------------
(***************************************************************************)
(* vector/vector.h: Vector objects over one heap of arrays.  array maps    *)
(* the allocated addresses to their cells, vector a constructed object to  *)
(* its members, and it is one iterator, <<array, offset>>.                 *)
(*                                                                         *)
(* The program indexes below Size() and uses an iterator while its array   *)
(* exists and it is not past the end.  new does not throw.  MaxSize bounds *)
(* size_ and MaxCapacity the arguments of Reserve.                         *)
(***************************************************************************)
EXTENDS Integers, Sequences, Functions

CONSTANTS Objects, Values, Addresses, MaxSize, MaxCapacity, Gone, Null, Junk

Headers == [elements : Addresses, size : Nat, capacity : Nat]

Cells == Values \cup {Junk}

NamesAssumption ==
  /\ Gone \notin Headers \cup Seq(Values) \cup Nat
  /\ Null \notin (Addresses \X Nat) \cup (Objects \X Nat)

(* The values of a Vector(size_t) are 0. *)
BoundsAssumption == 0 \in Values /\ MaxSize \in Nat /\ MaxCapacity \in Nat

VARIABLES array, vector, it

vars == <<array, vector, it>>

Constructed == {d \in Objects : vector[d] # Gone}

-----------------------------------------------------------------------------
(* A vector in memory is s = [array, elements, size, capacity]. *)
Memory(d) ==
  [array |-> array, elements |-> vector[d].elements, size |-> vector[d].size,
   capacity |-> vector[d].capacity]

Header(s) == [elements |-> s.elements, size |-> s.size, capacity |-> s.capacity]

Elements(d) == SubSeq(array[vector[d].elements], 1, vector[d].size)

Fresh(arrays) == CHOOSE a \in Addresses : a \notin DOMAIN arrays

(* A new array with these cells, all of them used. *)
New(arrays, cells) ==
  LET a == Fresh(arrays) IN
    [array |-> [b \in DOMAIN arrays \cup {a} |-> IF b = a THEN cells ELSE arrays[b]],
     elements |-> a, size |-> Len(cells), capacity |-> Len(cells)]

Freed(arrays, a) == Restrict(arrays, DOMAIN arrays \ {a})

MutReserved(s, n) ==       \* all but the last element are copied
  LET new == New(s.array, [i \in 1..n |-> IF i < s.size THEN s.array[s.elements][i] ELSE Junk])
  IN  IF n <= s.capacity THEN s
      ELSE [s EXCEPT !.array = Freed(new.array, s.elements),
                     !.elements = new.elements, !.capacity = n]

Reserved(s, n) ==
  LET new == New(s.array, [i \in 1..n |-> IF i <= s.size THEN s.array[s.elements][i] ELSE Junk])
  IN  IF n <= s.capacity THEN s
      ELSE [s EXCEPT !.array = Freed(new.array, s.elements),
                     !.elements = new.elements, !.capacity = n]

PushedBack(s, v) ==
  LET t == IF s.size < s.capacity THEN s
           ELSE Reserved(s, IF s.capacity = 0 THEN 1 ELSE 2 * s.capacity)
  IN  [t EXCEPT !.array[t.elements][t.size + 1] = v, !.size = @ + 1]

-----------------------------------------------------------------------------
(* An iterator into an array that is deleted, or past the end of the       *)
(* vector that has it, may not be used any more.                           *)
IteratorKept ==
  it' = IF it # Null /\ \E d \in Constructed' : /\ vector'[d].elements = it[1]
                                                /\ it[2] <= vector'[d].size
        THEN it ELSE Null

Becomes(d, s) ==
  /\ array' = s.array
  /\ vector' = [vector EXCEPT ![d] = Header(s)]
  /\ IteratorKept

Init ==
  /\ array = <<>>
  /\ vector = [d \in Objects |-> Gone]
  /\ it = Null

(* Vector(), Vector(size_t), Vector(std::initializer_list<int>) and        *)
(* Vector(const Vector&)                                                   *)
Construct(d) ==
  /\ d \notin Constructed
  /\ \/ \E n \in 0..MaxSize : Becomes(d, New(array, [i \in 1..n |-> 0]))
     \/ \E n \in 0..MaxSize : \E cells \in [1..n -> Values] : Becomes(d, New(array, cells))
     \/ \E e \in Constructed : Becomes(d, New(array, Elements(e)))

(* Vector(Vector&&) *)
MoveConstruct(d, e) ==
  /\ d \notin Constructed /\ e \in Constructed
  /\ array' = New(array, <<>>).array
  /\ vector' = [vector EXCEPT ![d] = vector[e], ![e] = Header(New(array, <<>>))]
  /\ IteratorKept

Destroy(d) ==
  /\ d \in Constructed
  /\ array' = Freed(array, vector[d].elements)
  /\ vector' = [vector EXCEPT ![d] = Gone]
  /\ IteratorKept

(* operator=(const Vector&): tmp is copied, swapped and destroyed. *)
CopyAssign(d, e) ==
  /\ {d, e} \subseteq Constructed
  /\ LET tmp == New(array, Elements(e)) IN
       Becomes(d, [tmp EXCEPT !.array = Freed(tmp.array, vector[d].elements)])

MutMoveAssign(d, e) ==     \* without tmp: what d held goes to nobody
  /\ {d, e} \subseteq Constructed
  /\ LET left == New(array, <<>>) IN
       /\ array' = left.array
       /\ vector' = [vector EXCEPT ![d] = vector[e], ![e] = Header(left)]
  /\ IteratorKept

(* operator=(Vector&&): through tmp d gets even its own array back. *)
MoveAssign(d, e) ==
  /\ {d, e} \subseteq Constructed
  /\ LET left == New(array, <<>>)
         moved == [vector EXCEPT ![e] = Header(left)] IN
       /\ array' = Freed(left.array, moved[d].elements)
       /\ vector' = [moved EXCEPT ![d] = vector[e]]
  /\ IteratorKept

Swap(d, e) ==
  /\ {d, e} \subseteq Constructed
  /\ vector' = [vector EXCEPT ![d] = vector[e], ![e] = vector[d]]
  /\ UNCHANGED <<array, it>>

PushBack(d, v) ==
  /\ d \in Constructed /\ vector[d].size < MaxSize
  /\ Becomes(d, PushedBack(Memory(d), v))

PopBack(d) ==
  /\ d \in Constructed
  /\ Becomes(d, [Memory(d) EXCEPT !.size = IF @ > 0 THEN @ - 1 ELSE 0])

Clear(d) ==
  /\ d \in Constructed
  /\ Becomes(d, [Memory(d) EXCEPT !.size = 0])

Reserve(d, n) ==
  /\ d \in Constructed
  /\ Becomes(d, Reserved(Memory(d), n))

(* operator[] and the reference of an iterator *)
Modify(d, i, v) ==
  /\ d \in Constructed /\ i <= vector[d].size
  /\ array' = [array EXCEPT ![vector[d].elements][i] = v]
  /\ UNCHANGED <<vector, it>>

(* begin() and end(), and any arithmetic that stays between the two. *)
MoveIterator ==
  /\ \E d \in Constructed : /\ it # Null => it[1] = vector[d].elements
                            /\ \E n \in 0..vector[d].size : it' = <<vector[d].elements, n>>
  /\ UNCHANGED <<array, vector>>

Forget == it' = Null /\ UNCHANGED <<array, vector>>

Next ==
  \/ \E d \in Objects :
       \/ Construct(d) \/ Destroy(d) \/ PopBack(d) \/ Clear(d)
       \/ \E e \in Objects :
            MoveConstruct(d, e) \/ CopyAssign(d, e) \/ MoveAssign(d, e) \/ Swap(d, e)
       \/ \E n \in 0..MaxCapacity : Reserve(d, n)
       \/ \E v \in Values : PushBack(d, v) \/ \E i \in 1..MaxSize : Modify(d, i, v)
  \/ MoveIterator \/ Forget

Spec == Init /\ [][Next]_vars

-----------------------------------------------------------------------------
TypeOK ==
  /\ DOMAIN array \subseteq Addresses
  /\ \A d \in Constructed : /\ vector[d].elements \in DOMAIN array
                            /\ vector[d].size \in 0..vector[d].capacity
  /\ it # Null => it[1] \in DOMAIN array

(* Every array allocated belongs to one vector and has capacity_ cells, of *)
(* which the first size_ are initialized: no array leaks, is deleted twice *)
(* or shared, and no copy reads what was never written.                    *)
ArraysOwned ==
  /\ TypeOK
  /\ \A a \in DOMAIN array :
       \E d \in Constructed : {e \in Constructed : vector[e].elements = a} = {d}
  /\ \A d \in Constructed : /\ Len(array[vector[d].elements]) = vector[d].capacity
                            /\ Elements(d) \in Seq(Values)

(* Where the iterator is: begin() of its vector is 1. *)
Position ==
  IF it = Null THEN Null
  ELSE <<CHOOSE d \in Constructed : vector[d].elements = it[1], it[2] + 1>>

Stored == [d \in Objects |-> IF d \in Constructed THEN Elements(d) ELSE Gone]

Capacities == [d \in Objects |-> IF d \in Constructed THEN vector[d].capacity ELSE Gone]

Abstract == INSTANCE AbstractVector
  WITH items <- Stored, capacity <- Capacities, position <- Position,
       NoObject <- Gone, Nowhere <- Null

(* The arrays are sequences that grow by doubling; iterators stay at their *)
(* element through moves and swaps and as long as capacity_ lasts.         *)
ImplementsVector == Abstract!Spec
=============================================================================

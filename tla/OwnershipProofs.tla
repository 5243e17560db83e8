-------------------------- MODULE OwnershipProofs --------------------------
(***************************************************************************)
(* Who deletes what: proofs about SmartPtr.tla, Vector.tla and Any.tla,    *)
(* for any number of objects.                                              *)
(*                                                                         *)
(* SmartPtr: the counts are exact, no counter and no string leaks or is    *)
(* deleted twice, and the pointers share ownership as SharedOwnership.tla  *)
(* says.  The proofs are about numbers: N[c] SharedPtrs and W[c] WeakPtrs  *)
(* have the counter c, and O[c] is the string it counts the owners of.     *)
(*                                                                         *)
(* Vector: every array has one owner, and the vectors are the sequences of *)
(* AbstractVector.tla.  A call gives one vector another array              *)
(* (Reallocated), writes to the array it has (Changed), exchanges the      *)
(* arrays of two (Moved, after an empty one was made), or drops one.       *)
(*                                                                         *)
(* Any: every holder is in the chain of one variable, or of the temporary  *)
(* that a call makes, and a variable holds the values in its chain, as in  *)
(* AbstractAny.tla.  A call wraps holders around what a temporary has      *)
(* (WrapKeeps), exchanges the chains of two owners (TradeKeeps) and        *)
(* deletes the chain of one (DropKeeps).                                   *)
(***************************************************************************)
EXTENDS SmartPtr, NamedVector, NamedAny, Sequences, FiniteSetTheorems, NaturalsInduction, TLAPS

-----------------------------------------------------------------------------
(* SmartPtr *)

Variables == Pointers \cup {Gone, Lost}

By(f, D, c) == {x \in D : Held(f[x]) = c}

Num(f, D) == [c \in Counters |-> Cardinality(By(f, D, c))]

Plus(N, k) == [c \in Counters |-> IF c = k THEN N[c] + 1 ELSE N[c]]

Minus(N, k) == [c \in Counters |-> IF c = k THEN N[c] - 1 ELSE N[c]]

Allocated(N, W) == {c \in Counters : N[c] + W[c] > 0}

OwnedStrings(N, O) == {O[c] : c \in {d \in Counters : N[d] > 0}} \ {Null}

(* The memory is what the numbers say. *)
Heap(m, N, W, O, lk) ==
  m = [counter |-> [c \in Allocated(N, W) |-> [strong |-> N[c], weak |-> W[c]]],
       strings |-> lk \cup OwnedStrings(N, O)]

(* A pair that a SharedPtr may have: empty, or with a counter and a string *)
(* that an owner keeps alive.                                              *)
MayOwn(p, N, O) ==
  \/ p = Empty
  \/ p.counter \in Counters /\ N[p.counter] > 0 /\ p.obj = O[p.counter]

(* No string has two counters, and a leaked one has none. *)
Distinct(N, O, lk) ==
  \A c \in Counters : N[c] > 0 =>
    /\ O[c] \notin lk
    /\ \A d \in Counters : N[d] > 0 /\ O[c] = O[d] /\ O[c] # Null => c = d

(* A pointer with a counter has the string of this counter; a WeakPtr that *)
(* outlives the string may have the address of another one.                *)
PairsAgree(sh, wk, N, O) ==
  /\ \A x \in SharedPtrs : sh[x] \notin {Gone, Lost} =>
       IF sh[x].counter = Null THEN sh[x] = Empty ELSE sh[x].obj = O[sh[x].counter]
  /\ \A w \in WeakPtrs : wk[w] \notin {Gone, Lost} /\ wk[w].counter \in Counters =>
       (N[wk[w].counter] > 0 => wk[w].obj = O[wk[w].counter])

Typed(sh, wk, O, lk) ==
  /\ sh \in [SharedPtrs -> Pointers \cup {Gone, Lost}]
  /\ wk \in [WeakPtrs -> Pointers \cup {Gone}]
  /\ O \in [Counters -> Strings \cup {Null}]
  /\ lk \subseteq Strings

Balanced(sh, wk, m, O, lk) ==
  /\ Typed(sh, wk, O, lk)
  /\ Heap(m, Num(sh, SharedPtrs), Num(wk, WeakPtrs), O, lk)
  /\ Distinct(Num(sh, SharedPtrs), O, lk)
  /\ PairsAgree(sh, wk, Num(sh, SharedPtrs), O)

IInv ==
  /\ IsFiniteSet(leaked) /\ Cardinality(leaked) <= MaxLeaked
  /\ \E O : Balanced(shared, weak, Memory, O, leaked)

-----------------------------------------------------------------------------
(* Counting: how the numbers change when one variable does. *)
LEMMA ByFinite ==
  ASSUME NEW D, IsFiniteSet(D), NEW f, NEW c
  PROVE  IsFiniteSet(By(f, D, c)) /\ Cardinality(By(f, D, c)) \in Nat
  BY FS_Subset, FS_CardinalityType DEF By

LEMMA NumType ==
  ASSUME NEW D, IsFiniteSet(D), NEW f
  PROVE  /\ Num(f, D) \in [Counters -> Nat]
         /\ \A c \in Counters : Num(f, D)[c] > 0 <=> \E x \in D : Held(f[x]) = c
  <1>1. Num(f, D) \in [Counters -> Nat]
    BY ByFinite DEF Num
  <1>2. ASSUME NEW c \in Counters PROVE Num(f, D)[c] > 0 <=> \E x \in D : Held(f[x]) = c
    <2>1. Num(f, D)[c] = Cardinality(By(f, D, c)) /\ Num(f, D)[c] \in Nat
      BY <1>1 DEF Num
    <2>2. Cardinality(By(f, D, c)) = 0 <=> By(f, D, c) = {}
      BY ByFinite, FS_EmptySet
    <2> QED BY <2>1, <2>2 DEF By
  <1> QED BY <1>1, <1>2

LEMMA NumChanges ==
  ASSUME NEW D, IsFiniteSet(D), NEW f, NEW g, NEW x \in D, NEW p,
         \A y \in D : g[y] = IF y = x THEN p ELSE f[y]
  PROVE  Num(g, D) = Plus(Minus(Num(f, D), Held(f[x])), Held(p))
  <1>1. ASSUME NEW c \in Counters
        PROVE  Num(g, D)[c] = Plus(Minus(Num(f, D), Held(f[x])), Held(p))[c]
    <2> DEFINE S == By(f, D, c)
               T == By(g, D, c)
    <2>1. /\ T \ {x} = S \ {x}
          /\ x \in S <=> Held(f[x]) = c
          /\ x \in T <=> Held(p) = c
      BY DEF By
    <2>2. IsFiniteSet(S) /\ IsFiniteSet(T) /\ Cardinality(S) \in Nat /\ Cardinality(T) \in Nat
      BY ByFinite
    <2>3. /\ Cardinality(S \ {x}) = IF x \in S THEN Cardinality(S) - 1 ELSE Cardinality(S)
          /\ Cardinality(T \ {x}) = IF x \in T THEN Cardinality(T) - 1 ELSE Cardinality(T)
      BY <2>2, FS_RemoveElement
    <2>4. /\ Num(g, D)[c] = Cardinality(T)
          /\ Plus(Minus(Num(f, D), Held(f[x])), Held(p))[c] =
               (IF c = Held(f[x]) THEN Cardinality(S) - 1 ELSE Cardinality(S))
                 + (IF c = Held(p) THEN 1 ELSE 0)
      BY <2>2 DEF Num, Plus, Minus
    <2> HIDE DEF S, T
    <2>5. Cardinality(T \ {x}) = Cardinality(S \ {x})
      BY <2>1
    <2>6. Cardinality(T) = (IF Held(f[x]) = c THEN Cardinality(S) - 1 ELSE Cardinality(S))
                             + (IF Held(p) = c THEN 1 ELSE 0)
      BY <2>1, <2>2, <2>3, <2>5
    <2> QED BY <2>4, <2>6
  <1> QED BY <1>1 DEF Num, Plus

(* What the counter of a variable can be. *)
LEMMA HeldType ==
  /\ \A p \in Pointers : /\ Held(p) = p.counter /\ p \notin {Gone, Lost}
                         /\ p.counter \in Counters \cup {Null} /\ p.obj \in Strings \cup {Null}
                         /\ p = [obj |-> p.obj, counter |-> p.counter]
  /\ Held(Gone) \notin Counters /\ Held(Lost) \notin Counters /\ Null \notin Counters
  /\ Empty \in Pointers /\ Held(Empty) = Null /\ Empty.counter = Null
  BY NamesAssumption DEF Held, Pointers, Empty

-----------------------------------------------------------------------------
(* The calls on a counter: what each does to the numbers. *)
LEMMA StrongChanges ==
  ASSUME NEW F, NEW Y, NEW k, NEW m, m = [counter |-> F, strings |-> Y],
         NEW s, s = [m EXCEPT !.counter[k].strong = @ - 1]
  PROVE  s = [counter |-> [F EXCEPT ![k].strong = @ - 1], strings |-> Y]
  OBVIOUS

LEMMA WeakChanges ==
  ASSUME NEW F, NEW Y, NEW k, NEW m, m = [counter |-> F, strings |-> Y],
         NEW s, s = [m EXCEPT !.counter[k].weak = @ - 1]
  PROVE  s = [counter |-> [F EXCEPT ![k].weak = @ - 1], strings |-> Y]
  OBVIOUS

LEMMA StrongGrows ==
  ASSUME NEW F, NEW Y, NEW k, NEW m, m = [counter |-> F, strings |-> Y],
         NEW s, s = [m EXCEPT !.counter[k].strong = @ + 1]
  PROVE  s = [counter |-> [F EXCEPT ![k].strong = @ + 1], strings |-> Y]
  OBVIOUS

LEMMA WeakGrows ==
  ASSUME NEW F, NEW Y, NEW k, NEW m, m = [counter |-> F, strings |-> Y],
         NEW s, s = [m EXCEPT !.counter[k].weak = @ + 1]
  PROVE  s = [counter |-> [F EXCEPT ![k].weak = @ + 1], strings |-> Y]
  OBVIOUS

LEMMA CounterAdded ==
  ASSUME NEW F, NEW Y, NEW c, NEW m, m = [counter |-> F, strings |-> Y],
         NEW G, [d \in DOMAIN F \cup {c} |->
                   IF d = c THEN [strong |-> 1, weak |-> 0] ELSE F[d]] = G,
         NEW s, s = [m EXCEPT !.counter = [d \in DOMAIN @ \cup {c} |->
                                             IF d = c THEN [strong |-> 1, weak |-> 0] ELSE @[d]]]
  PROVE  s = [counter |-> G, strings |-> Y]
  OBVIOUS

LEMMA StringDeleted ==
  ASSUME NEW F, NEW Y, NEW y, NEW m, m = [counter |-> F, strings |-> Y]
  PROVE  [m EXCEPT !.strings = @ \ {y}] = [counter |-> F, strings |-> Y \ {y}]
  OBVIOUS

LEMMA CounterDeleted ==
  ASSUME NEW F, NEW Y, NEW k, NEW m, m = [counter |-> F, strings |-> Y]
  PROVE  FreeCounter(m, k) = [counter |-> [d \in DOMAIN F \ {k} |-> F[d]], strings |-> Y]
  BY DEF FreeCounter

LEMMA MinusType ==
  ASSUME NEW N \in [Counters -> Nat], NEW k \in Counters, N[k] > 0
  PROVE  /\ Minus(N, k) \in [Counters -> Nat] /\ Minus(N, k) = [N EXCEPT ![k] = @ - 1]
         /\ Minus(N, k)[k] = N[k] - 1
         /\ \A c \in Counters : c # k => Minus(N, k)[c] = N[c]
  <1>1. \A c \in Counters : (IF c = k THEN N[c] - 1 ELSE N[c]) \in Nat
    OBVIOUS
  <1> QED BY <1>1 DEF Minus

LEMMA SharedHeap ==
  ASSUME NEW N \in [Counters -> Nat], NEW W \in [Counters -> Nat], NEW O, NEW lk, NEW m,
         NEW p \in Pointers, Heap(m, N, W, O, lk),
         p.counter # Null => N[p.counter] > 0
  PROVE  Heap(Shared(m, p), Plus(N, p.counter), W, O, lk)
  <1> DEFINE k == p.counter
             N1 == Plus(N, k)
  <1>1. CASE k = Null
    <2>1. N1 = N
      BY <1>1, HeldType DEF Plus
    <2> QED BY <1>1, <2>1 DEF Shared
  <1>2. CASE k # Null
    <2>1. k \in Counters /\ N[k] > 0 /\ k \in Allocated(N, W)
      BY <1>2, HeldType DEF Allocated
    <2>2. N1 = [N EXCEPT ![k] = @ + 1]
      BY <2>1 DEF Plus
    <2>3. Allocated(N1, W) = Allocated(N, W) /\ OwnedStrings(N1, O) = OwnedStrings(N, O)
      BY <2>1, <2>2 DEF Allocated, OwnedStrings
    <2>4. Shared(m, p) = [m EXCEPT !.counter[k].strong = @ + 1]
      BY <1>2 DEF Shared
    <2> DEFINE F == [c \in Allocated(N, W) |-> [strong |-> N[c], weak |-> W[c]]]
               G == [c \in Allocated(N, W) |-> [strong |-> N1[c], weak |-> W[c]]]
    <2>5. [F EXCEPT ![k].strong = @ + 1] = G
      BY <2>1, <2>2 DEF Allocated
    <2>6. m = [counter |-> F, strings |-> lk \cup OwnedStrings(N, O)]
      BY DEF Heap
    <2>7. Shared(m, p) = [counter |-> G, strings |-> lk \cup OwnedStrings(N, O)]
      <3> HIDE DEF F, G
      <3> QED BY <2>4, <2>5, <2>6, StrongGrows
    <2> QED BY <2>3, <2>7 DEF Heap
  <1> QED BY <1>1, <1>2

LEMMA WatchedHeap ==
  ASSUME NEW N \in [Counters -> Nat], NEW W \in [Counters -> Nat], NEW O, NEW lk, NEW m,
         NEW p \in Pointers, Heap(m, N, W, O, lk),
         p.counter # Null => N[p.counter] + W[p.counter] > 0
  PROVE  Heap(Watched(m, p), N, Plus(W, p.counter), O, lk)
  <1> DEFINE k == p.counter
             W1 == Plus(W, k)
  <1>1. CASE k = Null
    <2>1. W1 = W
      BY <1>1, HeldType DEF Plus
    <2> QED BY <1>1, <2>1 DEF Watched
  <1>2. CASE k # Null
    <2>1. k \in Counters /\ k \in Allocated(N, W)
      BY <1>2, HeldType DEF Allocated
    <2>2. W1 = [W EXCEPT ![k] = @ + 1]
      BY <2>1 DEF Plus
    <2>3. Allocated(N, W1) = Allocated(N, W)
      BY <2>1, <2>2 DEF Allocated
    <2>4. Watched(m, p) = [m EXCEPT !.counter[k].weak = @ + 1]
      BY <1>2 DEF Watched
    <2> DEFINE F == [c \in Allocated(N, W) |-> [strong |-> N[c], weak |-> W[c]]]
               G == [c \in Allocated(N, W) |-> [strong |-> N[c], weak |-> W1[c]]]
    <2>5. [F EXCEPT ![k].weak = @ + 1] = G
      BY <2>1, <2>2 DEF Allocated
    <2>6. m = [counter |-> F, strings |-> lk \cup OwnedStrings(N, O)]
      BY DEF Heap
    <2>7. Watched(m, p) = [counter |-> G, strings |-> lk \cup OwnedStrings(N, O)]
      <3> HIDE DEF F, G
      <3> QED BY <2>4, <2>5, <2>6, WeakGrows
    <2> QED BY <2>3, <2>7 DEF Heap
  <1> QED BY <1>1, <1>2

(* The last owner deletes the string, and the counter if nobody watches. *)
LEMMA ReleasedHeap ==
  ASSUME NEW N \in [Counters -> Nat], NEW W \in [Counters -> Nat], NEW O, NEW lk, NEW m,
         NEW p \in Pointers, Heap(m, N, W, O, lk), Distinct(N, O, lk),
         p.counter # Null => N[p.counter] > 0 /\ p.obj = O[p.counter]
  PROVE  Heap(Released(m, p), Minus(N, p.counter), W, O, lk)
  <1> DEFINE k == p.counter
             N1 == Minus(N, k)
             F == [c \in Allocated(N, W) |-> [strong |-> N[c], weak |-> W[c]]]
             G == [c \in Allocated(N, W) |-> [strong |-> N1[c], weak |-> W[c]]]
             s == [m EXCEPT !.counter[k].strong = @ - 1]
             t == [s EXCEPT !.strings = @ \ {p.obj}]
  <1>1. CASE k = Null
    <2>1. N1 = N
      BY <1>1, HeldType DEF Minus
    <2> QED BY <1>1, <2>1 DEF Released
  <1>2. CASE k # Null
    <2>1. k \in Counters /\ N[k] > 0 /\ k \in Allocated(N, W) /\ p.obj = O[k]
      BY <1>2, HeldType DEF Allocated
    <2>2. N1 = [N EXCEPT ![k] = @ - 1] /\ N1 \in [Counters -> Nat] /\ N1[k] = N[k] - 1
      BY <2>1, MinusType
    <2>3. m.counter = F /\ m.strings = lk \cup OwnedStrings(N, O) /\ m.counter[k].strong = N[k]
      BY <2>1 DEF Heap
    <2>4. [F EXCEPT ![k].strong = @ - 1] = G
      BY <2>1, <2>2 DEF Allocated
    <2>5. s = [counter |-> G, strings |-> lk \cup OwnedStrings(N, O)]
      <3>1. m = [counter |-> F, strings |-> lk \cup OwnedStrings(N, O)]
        BY DEF Heap
      <3> HIDE DEF F, G
      <3>2. s = [m EXCEPT !.counter[k].strong = @ - 1]
        OBVIOUS
      <3> HIDE DEF s
      <3> QED BY <2>4, <3>1, <3>2, StrongChanges
    <2>6. G[k].strong = N1[k] /\ G[k].weak = W[k]
      BY <2>1
    <2>7. CASE N1[k] > 0
      <3>1. Allocated(N1, W) = Allocated(N, W) /\ OwnedStrings(N1, O) = OwnedStrings(N, O)
        BY <2>1, <2>2, <2>7 DEF Allocated, OwnedStrings
      <3>2. Released(m, p) = s
        BY <1>2, <2>1, <2>3, <2>5, <2>6, <2>7 DEF Released
      <3> QED BY <2>5, <3>1, <3>2 DEF Heap
    <2>8. CASE N1[k] = 0
      <3>1. (lk \cup OwnedStrings(N, O)) \ {p.obj} = lk \cup OwnedStrings(N1, O)
        <4>1. \A c \in Counters : N[c] > 0 <=> c = k \/ N1[c] > 0
          BY <2>1, <2>2
        <4>2. ~(N1[k] > 0)
          BY <2>8
        <4> QED BY <2>1, <4>1, <4>2 DEF OwnedStrings, Distinct
      <3>2. t = [counter |-> G, strings |-> lk \cup OwnedStrings(N1, O)]
        <4> HIDE DEF G, s
        <4> QED BY <2>5, <3>1, StringDeleted
      <3>3. CASE W[k] > 0
        <4>1. Allocated(N1, W) = Allocated(N, W)
          BY <2>1, <2>2, <3>3 DEF Allocated
        <4>2. Released(m, p) = t
          BY <1>2, <2>1, <2>3, <2>5, <2>6, <2>8, <3>2, <3>3 DEF Released
        <4> QED BY <3>2, <4>1, <4>2 DEF Heap
      <3>4. CASE W[k] = 0
        <4>1. Allocated(N1, W) = Allocated(N, W) \ {k}
          BY <2>1, <2>2, <2>8, <3>4 DEF Allocated
        <4>2. Released(m, p) = FreeCounter(t, k)
          BY <1>2, <2>1, <2>3, <2>5, <2>6, <2>8, <3>2, <3>4 DEF Released
        <4>3. FreeCounter(t, k) = [counter |-> [c \in Allocated(N, W) \ {k} |-> G[c]],
                                   strings |-> lk \cup OwnedStrings(N1, O)]
          <5>1. DOMAIN G = Allocated(N, W)
            OBVIOUS
          <5> HIDE DEF G, t
          <5> QED BY <3>2, <5>1, CounterDeleted
        <4>4. [c \in Allocated(N, W) \ {k} |-> G[c]]
                = [c \in Allocated(N1, W) |-> [strong |-> N1[c], weak |-> W[c]]]
          BY <4>1
        <4> QED BY <4>2, <4>3, <4>4 DEF Heap
      <3> QED BY <2>1, <3>3, <3>4
    <2> QED BY <2>2, <2>7, <2>8
  <1> QED BY <1>1, <1>2

(* The last one of all deletes the counter. *)
LEMMA UnwatchedHeap ==
  ASSUME NEW N \in [Counters -> Nat], NEW W \in [Counters -> Nat], NEW O, NEW lk, NEW m,
         NEW p \in Pointers, Heap(m, N, W, O, lk),
         p.counter # Null => W[p.counter] > 0
  PROVE  Heap(Unwatched(m, p), N, Minus(W, p.counter), O, lk)
  <1> DEFINE k == p.counter
             W1 == Minus(W, k)
             F == [c \in Allocated(N, W) |-> [strong |-> N[c], weak |-> W[c]]]
             G == [c \in Allocated(N, W) |-> [strong |-> N[c], weak |-> W1[c]]]
             s == [m EXCEPT !.counter[k].weak = @ - 1]
  <1>1. CASE k = Null
    <2>1. W1 = W
      BY <1>1, HeldType DEF Minus
    <2> QED BY <1>1, <2>1 DEF Unwatched
  <1>2. CASE k # Null
    <2>1. k \in Counters /\ W[k] > 0 /\ k \in Allocated(N, W)
      BY <1>2, HeldType DEF Allocated
    <2>2. W1 = [W EXCEPT ![k] = @ - 1] /\ W1 \in [Counters -> Nat] /\ W1[k] = W[k] - 1
      BY <2>1, MinusType
    <2>3. m.counter = F /\ m.strings = lk \cup OwnedStrings(N, O) /\ m.counter[k].weak = W[k]
      BY <2>1 DEF Heap
    <2>4. [F EXCEPT ![k].weak = @ - 1] = G
      BY <2>1, <2>2 DEF Allocated
    <2>5. s = [counter |-> G, strings |-> lk \cup OwnedStrings(N, O)]
      <3>1. m = [counter |-> F, strings |-> lk \cup OwnedStrings(N, O)]
        BY DEF Heap
      <3> HIDE DEF F, G
      <3>2. s = [m EXCEPT !.counter[k].weak = @ - 1]
        OBVIOUS
      <3> HIDE DEF s
      <3> QED BY <2>4, <3>1, <3>2, WeakChanges
    <2>6. G[k].strong = N[k] /\ G[k].weak = W1[k]
      BY <2>1
    <2>7. CASE W1[k] > 0 \/ N[k] > 0
      <3>1. Allocated(N, W1) = Allocated(N, W)
        BY <2>1, <2>2, <2>7 DEF Allocated
      <3>2. Unwatched(m, p) = s
        BY <1>2, <2>1, <2>2, <2>3, <2>5, <2>6, <2>7 DEF Unwatched
      <3> QED BY <2>5, <3>1, <3>2 DEF Heap
    <2>8. CASE W1[k] = 0 /\ N[k] = 0
      <3>1. Allocated(N, W1) = Allocated(N, W) \ {k}
        BY <2>1, <2>2, <2>8 DEF Allocated
      <3>2. Unwatched(m, p) = FreeCounter(s, k)
        BY <1>2, <2>1, <2>3, <2>5, <2>6, <2>8 DEF Unwatched
      <3>3. FreeCounter(s, k) = [counter |-> [c \in Allocated(N, W) \ {k} |-> G[c]],
                                 strings |-> lk \cup OwnedStrings(N, O)]
        <4>1. DOMAIN G = Allocated(N, W)
          OBVIOUS
        <4> HIDE DEF G, s
        <4> QED BY <2>5, <4>1, CounterDeleted
      <3>4. [c \in Allocated(N, W) \ {k} |-> G[c]]
              = [c \in Allocated(N, W1) |-> [strong |-> N[c], weak |-> W1[c]]]
        BY <3>1
      <3> QED BY <3>2, <3>3, <3>4 DEF Heap
    <2> QED BY <2>1, <2>2, <2>7, <2>8
  <1> QED BY <1>1, <1>2

-----------------------------------------------------------------------------
(* A variable takes a pair and lets go of what it had: the calls on the    *)
(* counters have to come to this, in whatever order they are made.         *)
LEMMA OwnerTakes ==
  ASSUME NEW sh, NEW wk, NEW m, NEW O, NEW lk, Balanced(sh, wk, m, O, lk),
         NEW x \in SharedPtrs, NEW p \in Variables, NEW m2,
         p \in Pointers => MayOwn(p, Num(sh, SharedPtrs), O),
         Heap(m2, Plus(Minus(Num(sh, SharedPtrs), Held(sh[x])), Held(p)), Num(wk, WeakPtrs), O, lk)
  PROVE  Balanced([sh EXCEPT ![x] = p], wk, m2, O, lk)
  <1> DEFINE sh2 == [sh EXCEPT ![x] = p]
             N == Num(sh, SharedPtrs)
             N2 == Num(sh2, SharedPtrs)
  <1>1. Typed(sh, wk, O, lk) /\ Distinct(N, O, lk) /\ PairsAgree(sh, wk, N, O)
    BY DEF Balanced
  <1>2. N2 = Plus(Minus(N, Held(sh[x])), Held(p))
    <2>1. \A y \in SharedPtrs : sh2[y] = IF y = x THEN p ELSE sh[y]
      BY <1>1 DEF Typed
    <2> HIDE DEF sh2
    <2> QED BY <2>1, NumChanges, RoomAssumption
  <1>3. N \in [Counters -> Nat] /\ N2 \in [Counters -> Nat]
    BY NumType, RoomAssumption
  <1>4. Typed(sh2, wk, O, lk)
    BY <1>1 DEF Typed, Variables
  <1>5. Heap(m2, N2, Num(wk, WeakPtrs), O, lk)
    BY <1>2
  <1> HIDE DEF N, N2
  <1>6. \A c \in Counters : N2[c] > 0 => N[c] > 0
    <2> SUFFICES ASSUME NEW c \in Counters, N2[c] > 0, ~(N[c] > 0) PROVE FALSE
      OBVIOUS
    <2>1. \/ N[c] = 0 /\ c # Held(p)
          \/ p \notin Pointers
          \/ Held(p) \notin Counters
      BY <1>3, HeldType DEF N, MayOwn
    <2>2. p \notin Pointers => Held(p) \notin Counters
      BY HeldType DEF Variables
    <2> QED BY <1>2, <1>3, <2>1, <2>2 DEF Plus, Minus
  <1>7. Distinct(N2, O, lk)
    BY <1>1, <1>6 DEF Distinct
  <1>8. PairsAgree(sh2, wk, N2, O)
    <2>1. p \notin {Gone, Lost} => IF p.counter = Null THEN p = Empty ELSE p.obj = O[p.counter]
      BY HeldType DEF Variables, MayOwn
    <2>2. \A y \in SharedPtrs : sh2[y] = IF y = x THEN p ELSE sh[y]
      BY <1>1 DEF Typed
    <2> HIDE DEF sh2
    <2> QED BY <1>1, <1>6, <2>1, <2>2 DEF PairsAgree
  <1> QED BY <1>4, <1>5, <1>7, <1>8 DEF Balanced, N2

LEMMA WatcherTakes ==
  ASSUME NEW sh, NEW wk, NEW m, NEW O, NEW lk, Balanced(sh, wk, m, O, lk),
         NEW w \in WeakPtrs, NEW p \in Pointers \cup {Gone}, NEW m2,
         p \in Pointers => \/ p.counter = Null
                           \/ Num(sh, SharedPtrs)[p.counter] > 0 => p.obj = O[p.counter],
         Heap(m2, Num(sh, SharedPtrs), Plus(Minus(Num(wk, WeakPtrs), Held(wk[w])), Held(p)), O, lk)
  PROVE  Balanced(sh, [wk EXCEPT ![w] = p], m2, O, lk)
  <1> DEFINE wk2 == [wk EXCEPT ![w] = p]
             N == Num(sh, SharedPtrs)
  <1>1. Typed(sh, wk, O, lk) /\ Distinct(N, O, lk) /\ PairsAgree(sh, wk, N, O)
    BY DEF Balanced
  <1>2. Num(wk2, WeakPtrs) = Plus(Minus(Num(wk, WeakPtrs), Held(wk[w])), Held(p))
    <2>1. \A u \in WeakPtrs : wk2[u] = IF u = w THEN p ELSE wk[u]
      BY <1>1 DEF Typed
    <2> HIDE DEF wk2
    <2> QED BY <2>1, NumChanges, RoomAssumption
  <1>3. Typed(sh, wk2, O, lk)
    BY <1>1 DEF Typed
  <1>4. Heap(m2, N, Num(wk2, WeakPtrs), O, lk)
    BY <1>2
  <1> HIDE DEF N
  <1>5. PairsAgree(sh, wk2, N, O)
    <2>1. \A u \in WeakPtrs : wk2[u] = IF u = w THEN p ELSE wk[u]
      BY <1>1 DEF Typed
    <2>2. p \notin {Gone, Lost} /\ p.counter \in Counters => (N[p.counter] > 0 => p.obj = O[p.counter])
      BY HeldType DEF N
    <2> HIDE DEF wk2
    <2> QED BY <1>1, <2>1, <2>2 DEF PairsAgree
  <1> QED BY <1>1, <1>3, <1>4, <1>5 DEF Balanced, N

(* new LinkCounter{1, 0} for a string s that nobody has yet: s was leaked  *)
(* until here, and is not any more.                                        *)
LEMMA CountedHeap ==
  ASSUME NEW sh, NEW wk, NEW m, NEW O, NEW lk, NEW s \in Strings \cup {Null}, s \notin lk,
         Balanced(sh, wk, m, O, lk \cup ({s} \ {Null})),
         NEW x \in SharedPtrs, Held(sh[x]) \notin Counters,
         \E c \in Counters : c \notin DOMAIN m.counter
  PROVE  \E Q : Balanced([sh EXCEPT ![x] = Counted(m, s).pair], wk, Counted(m, s).memory, Q, lk)
  <1> DEFINE c == CHOOSE c \in Counters : c \notin DOMAIN m.counter
             p == [obj |-> s, counter |-> c]
             sh2 == [sh EXCEPT ![x] = p]
             Q == [O EXCEPT ![c] = s]
             N == Num(sh, SharedPtrs)
             W == Num(wk, WeakPtrs)
             N2 == Num(sh2, SharedPtrs)
             lk1 == lk \cup ({s} \ {Null})
  <1>1. Typed(sh, wk, O, lk1) /\ Heap(m, N, W, O, lk1) /\ Distinct(N, O, lk1) /\ PairsAgree(sh, wk, N, O)
    BY DEF Balanced
  <1>2. N \in [Counters -> Nat] /\ W \in [Counters -> Nat] /\ N2 \in [Counters -> Nat]
    BY NumType, RoomAssumption
  <1>3. c \in Counters /\ c \notin DOMAIN m.counter
    OBVIOUS
  <1>4. DOMAIN m.counter = Allocated(N, W) /\ m.strings = lk1 \cup OwnedStrings(N, O)
    BY <1>1 DEF Heap
  <1>5. p \in Pointers /\ Held(p) = c
    BY <1>3, HeldType DEF Pointers
  <1>6. Counted(m, s).pair = p
    BY DEF Counted
  <1>7. Counted(m, s).memory = [m EXCEPT !.counter = [d \in DOMAIN @ \cup {c} |->
                                  IF d = c THEN [strong |-> 1, weak |-> 0] ELSE @[d]]]
    BY DEF Counted
  <1> HIDE DEF c
  <1>8. N[c] = 0 /\ W[c] = 0
    <2>1. N[c] \in Nat /\ W[c] \in Nat
      BY <1>2, <1>3
    <2>2. c \notin Allocated(N, W)
      BY <1>3, <1>4
    <2> HIDE DEF N, W
    <2> QED BY <1>3, <2>1, <2>2 DEF Allocated
  <1>9. N2 = [N EXCEPT ![c] = 1]
    <2>1. N2 = Plus(Minus(N, Held(sh[x])), Held(p))
      <3>1. \A y \in SharedPtrs : sh2[y] = IF y = x THEN p ELSE sh[y]
        BY <1>1 DEF Typed
      <3> HIDE DEF sh2, p
      <3> QED BY <3>1, NumChanges, RoomAssumption
    <2> HIDE DEF N2, N, p
    <2>2. Minus(N, Held(sh[x])) = N
      BY <1>2 DEF Minus
    <2>3. Plus(N, c) = [N EXCEPT ![c] = 1]
      <3> HIDE DEF N, W, sh2
      <3>1. N \in [Counters -> Nat] /\ N[c] = 0 /\ c \in Counters
        BY <1>2, <1>3, <1>8
      <3>2. \A d \in Counters : (IF d = c THEN N[d] + 1 ELSE N[d]) = IF d = c THEN 1 ELSE N[d]
        BY <3>1
      <3>3. Plus(N, c) = [d \in Counters |-> IF d = c THEN 1 ELSE N[d]]
        BY <3>2 DEF Plus
      <3> QED BY <3>1, <3>3
    <2> QED BY <1>5, <2>1, <2>2, <2>3
  <1>10. \A y \in SharedPtrs : Held(sh[y]) # c
    BY <1>3, <1>8, NumType, RoomAssumption
  <1>11. \A w \in WeakPtrs : Held(wk[w]) # c
    BY <1>3, <1>8, NumType, RoomAssumption
  <1>12. Typed(sh2, wk, Q, lk)
    BY <1>1, <1>3, <1>5 DEF Typed
  <1> HIDE DEF N, W, N2
  <1>13. Distinct(N2, Q, lk)
    BY <1>1, <1>2, <1>3, <1>8, <1>9 DEF Distinct, Typed
  <1>14. PairsAgree(sh2, wk, N2, Q)
    <2>1. \A y \in SharedPtrs : sh2[y] = IF y = x THEN p ELSE sh[y]
      BY <1>1 DEF Typed
    <2>2. /\ \A y \in SharedPtrs : sh[y] \notin {Gone, Lost} => sh[y].counter # c
          /\ \A w \in WeakPtrs : wk[w] \notin {Gone, Lost} => wk[w].counter # c
      BY <1>10, <1>11 DEF Held
    <2>3. /\ \A d \in Counters : d # c => Q[d] = O[d] /\ N2[d] = N[d]
          /\ Q[c] = s
      BY <1>1, <1>2, <1>3, <1>9 DEF Typed
    <2>4. p.counter = c /\ p.obj = s /\ c # Null
      BY <1>3, HeldType
    <2>5. \A y \in SharedPtrs : sh[y] \notin {Gone, Lost} => sh[y].counter \in Counters \cup {Null}
      BY <1>1, HeldType DEF Typed
    <2> HIDE DEF sh2, p, Q
    <2> QED BY <1>1, <2>1, <2>2, <2>3, <2>4, <2>5 DEF PairsAgree
  <1>15. Heap(Counted(m, s).memory, N2, W, Q, lk)
    <2> DEFINE F == [d \in Allocated(N, W) |-> [strong |-> N[d], weak |-> W[d]]]
               G == [d \in Allocated(N2, W) |-> [strong |-> N2[d], weak |-> W[d]]]
    <2>1. Allocated(N2, W) = Allocated(N, W) \cup {c}
      BY <1>2, <1>3, <1>9, <1>8 DEF Allocated
    <2>2. [d \in DOMAIN F \cup {c} |-> IF d = c THEN [strong |-> 1, weak |-> 0] ELSE F[d]] = G
      BY <1>2, <1>3, <1>8, <1>9, <2>1 DEF Allocated
    <2>3. OwnedStrings(N2, Q) = OwnedStrings(N, O) \cup ({s} \ {Null})
      BY <1>1, <1>2, <1>3, <1>8, <1>9 DEF OwnedStrings, Typed
    <2>4. m = [counter |-> F, strings |-> lk1 \cup OwnedStrings(N, O)]
      BY <1>1 DEF Heap
    <2>5. Counted(m, s).memory = [counter |-> G, strings |-> lk1 \cup OwnedStrings(N, O)]
      <3> HIDE DEF F, G
      <3> QED BY <1>7, <2>2, <2>4, CounterAdded
    <2> QED BY <2>3, <2>5 DEF Heap
  <1> QED BY <1>6, <1>12, <1>13, <1>14, <1>15 DEF Balanced, N2, W

(* A string that nobody has and nobody leaks yet. *)
LEMMA StringComes ==
  ASSUME NEW sh, NEW wk, NEW m, NEW O, NEW lk, Balanced(sh, wk, m, O, lk),
         NEW s \in Strings \cup {Null}, s \notin m.strings
  PROVE  /\ Balanced(sh, wk, WithString(m, s), O, lk \cup ({s} \ {Null}))
         /\ s \notin lk
  <1> DEFINE N == Num(sh, SharedPtrs)
             W == Num(wk, WeakPtrs)
             F == [c \in Allocated(N, W) |-> [strong |-> N[c], weak |-> W[c]]]
             Y == lk \cup OwnedStrings(N, O)
  <1>1. m = [counter |-> F, strings |-> Y]
    BY DEF Balanced, Heap
  <1>2. Typed(sh, wk, O, lk) /\ Distinct(N, O, lk) /\ PairsAgree(sh, wk, N, O)
    BY DEF Balanced
  <1> HIDE DEF N, W, F
  <1>3. s \notin lk /\ (s # Null => s \notin OwnedStrings(N, O))
    BY <1>1
  <1>4. WithString(m, s) = [counter |-> F, strings |-> (lk \cup ({s} \ {Null})) \cup OwnedStrings(N, O)]
    BY <1>1 DEF WithString
  <1>5. Typed(sh, wk, O, lk \cup ({s} \ {Null}))
    BY <1>2 DEF Typed
  <1>6. Distinct(N, O, lk \cup ({s} \ {Null}))
    BY <1>2, <1>3 DEF Distinct, OwnedStrings
  <1> QED BY <1>2, <1>3, <1>4, <1>5, <1>6 DEF Balanced, Heap, N, W, F

-----------------------------------------------------------------------------
(* There is always room: every counter and every string has a pointer. *)
LEMMA ImageSize ==
  ASSUME NEW S, IsFiniteSet(S), NEW f
  PROVE  /\ IsFiniteSet({f[x] : x \in S})
         /\ Cardinality({f[x] : x \in S}) \in Nat /\ Cardinality(S) \in Nat
         /\ Cardinality({f[x] : x \in S}) <= Cardinality(S)
  <1> DEFINE T == {f[x] : x \in S}
             g == [x \in S |-> f[x]]
  <1>1. g \in Surjection(S, T)
    BY DEF Surjection
  <1> HIDE DEF g, T
  <1>2. IsFiniteSet(T) /\ Cardinality(T) <= Cardinality(S)
    BY <1>1, FS_Surjection
  <1> QED BY <1>2, FS_CardinalityType DEF T

LEMMA CounterRoom ==
  ASSUME NEW sh, NEW wk, NEW m, NEW O, NEW lk, Balanced(sh, wk, m, O, lk)
  PROVE  \E c \in Counters : c \notin DOMAIN m.counter
  <1> SUFFICES ASSUME \A c \in Counters : c \in DOMAIN m.counter PROVE FALSE
    OBVIOUS
  <1> DEFINE N == Num(sh, SharedPtrs)
             W == Num(wk, WeakPtrs)
             f == [x \in SharedPtrs |-> Held(sh[x])]
             g == [w \in WeakPtrs |-> Held(wk[w])]
             A == {f[x] : x \in SharedPtrs}
             B == {g[w] : w \in WeakPtrs}
  <1>1. DOMAIN m.counter = Allocated(N, W)
    BY DEF Balanced, Heap
  <1>2. N \in [Counters -> Nat] /\ W \in [Counters -> Nat]
    BY NumType, RoomAssumption
  <1>3. \A c \in Counters : N[c] > 0 \/ W[c] > 0
    <2> HIDE DEF N, W
    <2> QED BY <1>1, <1>2 DEF Allocated
  <1>4. Counters \subseteq A \cup B
    BY <1>3, NumType, RoomAssumption
  <1> HIDE DEF A, B, f, g, N, W
  <1>5. /\ IsFiniteSet(A) /\ Cardinality(A) \in Nat /\ Cardinality(A) <= Cardinality(SharedPtrs)
        /\ IsFiniteSet(B) /\ Cardinality(B) \in Nat /\ Cardinality(B) <= Cardinality(WeakPtrs)
        /\ Cardinality(SharedPtrs) \in Nat /\ Cardinality(WeakPtrs) \in Nat
    BY ImageSize, RoomAssumption DEF A, B
  <1>6. /\ IsFiniteSet(A \cup B) /\ Cardinality(A \cup B) \in Nat
        /\ Cardinality(A \cup B) <= Cardinality(A) + Cardinality(B)
    <2>1. /\ IsFiniteSet(A \cup B)
          /\ Cardinality(A \cup B) = Cardinality(A) + Cardinality(B) - Cardinality(A \cap B)
      BY <1>5, FS_Union
    <2>2. Cardinality(A \cap B) \in Nat
      BY <1>5, FS_Intersection, FS_CardinalityType
    <2> QED BY <1>5, <2>1, <2>2, FS_CardinalityType
  <1>7. IsFiniteSet(Counters) /\ Cardinality(Counters) <= Cardinality(A \cup B)
    BY <1>4, <1>6, FS_Subset
  <1>8. Cardinality(Counters) \in Nat
    BY <1>7, FS_CardinalityType
  <1> QED BY <1>5, <1>6, <1>7, <1>8, RoomAssumption

LEMMA StringRoom ==
  ASSUME NEW sh, NEW wk, NEW m, NEW O, NEW lk, Balanced(sh, wk, m, O, lk),
         IsFiniteSet(lk), Cardinality(lk) <= MaxLeaked
  PROVE  \E s \in Strings : s \notin m.strings
  <1> SUFFICES ASSUME \A s \in Strings : s \in m.strings PROVE FALSE
    OBVIOUS
  <1> DEFINE N == Num(sh, SharedPtrs)
             f == [x \in SharedPtrs |-> IF Held(sh[x]) \in Counters THEN O[Held(sh[x])] ELSE Null]
             A == {f[x] : x \in SharedPtrs}
  <1>1. m.strings = lk \cup OwnedStrings(N, O)
    BY DEF Balanced, Heap
  <1>2. \A c \in Counters : N[c] > 0 => O[c] \in A
    BY NumType, RoomAssumption
  <1>3. Strings \subseteq lk \cup A
    <2> HIDE DEF N, A
    <2> QED BY <1>1, <1>2 DEF OwnedStrings
  <1> HIDE DEF A, f, N
  <1>4. /\ IsFiniteSet(A) /\ Cardinality(A) \in Nat /\ Cardinality(A) <= Cardinality(SharedPtrs)
        /\ Cardinality(lk) \in Nat /\ Cardinality(SharedPtrs) \in Nat /\ MaxLeaked \in Nat
    BY ImageSize, RoomAssumption, FS_CardinalityType DEF A
  <1>5. /\ IsFiniteSet(lk \cup A) /\ Cardinality(lk \cup A) \in Nat
        /\ Cardinality(lk \cup A) <= Cardinality(lk) + Cardinality(A)
    <2>1. /\ IsFiniteSet(lk \cup A)
          /\ Cardinality(lk \cup A) = Cardinality(lk) + Cardinality(A) - Cardinality(lk \cap A)
      BY <1>4, FS_Union
    <2>2. Cardinality(lk \cap A) \in Nat
      BY FS_Intersection, FS_CardinalityType
    <2> QED BY <1>4, <2>1, <2>2, FS_CardinalityType
  <1>6. IsFiniteSet(Strings) /\ Cardinality(Strings) <= Cardinality(lk \cup A)
    BY <1>3, <1>5, FS_Subset
  <1>7. Cardinality(Strings) \in Nat
    BY <1>6, FS_CardinalityType
  <1> QED BY <1>4, <1>5, <1>6, <1>7, RoomAssumption

-----------------------------------------------------------------------------
(* The state: what its variables hold, and what a call may leave.          *)
N0 == Num(shared, SharedPtrs)

W0 == Num(weak, WeakPtrs)

LEMMA NumbersType ==
  ASSUME NEW sh, NEW wk
  PROVE  Num(sh, SharedPtrs) \in [Counters -> Nat] /\ Num(wk, WeakPtrs) \in [Counters -> Nat]
  BY NumType, RoomAssumption

LEMMA OwnedPair ==
  ASSUME NEW sh, NEW wk, NEW m, NEW O, NEW lk, Balanced(sh, wk, m, O, lk),
         NEW x \in SharedPtrs, sh[x] \notin {Gone, Lost}
  PROVE  sh[x] \in Pointers /\ Held(sh[x]) = sh[x].counter /\ MayOwn(sh[x], Num(sh, SharedPtrs), O)
  <1>1. Typed(sh, wk, O, lk) /\ PairsAgree(sh, wk, Num(sh, SharedPtrs), O)
    BY DEF Balanced
  <1>2. sh[x] \in Pointers /\ Held(sh[x]) = sh[x].counter /\ sh[x].counter \in Counters \cup {Null}
    BY <1>1, HeldType DEF Typed
  <1>3. sh[x].counter \in Counters => Num(sh, SharedPtrs)[sh[x].counter] > 0
    BY <1>2, NumType, RoomAssumption
  <1> QED BY <1>1, <1>2, <1>3, HeldType DEF PairsAgree, MayOwn

LEMMA WatchedPair ==
  ASSUME NEW sh, NEW wk, NEW m, NEW O, NEW lk, Balanced(sh, wk, m, O, lk),
         NEW w \in WeakPtrs, wk[w] # Gone
  PROVE  /\ wk[w] \in Pointers /\ Held(wk[w]) = wk[w].counter
         /\ wk[w].counter \in Counters =>
              /\ Num(wk, WeakPtrs)[wk[w].counter] > 0
              /\ Num(sh, SharedPtrs)[wk[w].counter] > 0 => wk[w].obj = O[wk[w].counter]
  <1>1. Typed(sh, wk, O, lk) /\ PairsAgree(sh, wk, Num(sh, SharedPtrs), O)
    BY DEF Balanced
  <1>2. wk[w] \in Pointers /\ Held(wk[w]) = wk[w].counter /\ wk[w] \notin {Gone, Lost}
    BY <1>1, HeldType DEF Typed
  <1>3. wk[w].counter \in Counters => Num(wk, WeakPtrs)[wk[w].counter] > 0
    BY <1>2, NumType, RoomAssumption
  <1> QED BY <1>1, <1>2, <1>3 DEF PairsAgree

(* Lock() gives a pair that somebody owns, or an empty one. *)
LEMMA LockedPair ==
  ASSUME NEW O, Balanced(shared, weak, Memory, O, leaked), NEW w \in WeakPtrs, weak[w] # Gone
  PROVE  Lock(weak[w]) \in Pointers /\ MayOwn(Lock(weak[w]), N0, O)
  <1> DEFINE p == weak[w]
  <1>1. /\ p \in Pointers /\ p.counter \in Counters \cup {Null}
        /\ p.counter \in Counters => /\ W0[p.counter] > 0
                                     /\ N0[p.counter] > 0 => p.obj = O[p.counter]
    BY WatchedPair, HeldType DEF N0, W0
  <1>2. N0 \in [Counters -> Nat] /\ W0 \in [Counters -> Nat]
    BY NumbersType DEF N0, W0
  <1>3. counter = [c \in Allocated(N0, W0) |-> [strong |-> N0[c], weak |-> W0[c]]]
    BY DEF Balanced, Heap, Memory, N0, W0
  <1> HIDE DEF p
  <1>4. p.counter \in Counters => counter[p.counter].strong = N0[p.counter]
    BY <1>1, <1>2, <1>3 DEF Allocated
  <1>5. CASE IsExpired(p)
    BY <1>5, HeldType DEF Lock, MayOwn, p
  <1>6. CASE ~IsExpired(p)
    BY <1>1, <1>2, <1>4, <1>6 DEF Lock, IsExpired, MayOwn, p
  <1> QED BY <1>5, <1>6

LEMMA CallEnds ==
  ASSUME NEW m, NEW O, Becomes(m), Balanced(shared', weak', m, O, leaked'),
         IsFiniteSet(leaked'), Cardinality(leaked') <= MaxLeaked
  PROVE  IInv'
  <1>1. m = [counter |-> m.counter, strings |-> m.strings]
    BY DEF Balanced, Heap
  <1>2. Memory' = m
    BY <1>1 DEF Becomes, Memory
  <1> QED BY <1>2 DEF IInv

LEMMA MemoryStays ==
  ASSUME UNCHANGED <<counter, strings>>
  PROVE  Becomes(Memory) /\ Memory' = Memory
  BY DEF Becomes, Memory

-----------------------------------------------------------------------------
(* What the calls do to the memory, in the terms of OwnerTakes. *)
LEMMA CopyBalances ==
  ASSUME NEW sh, NEW wk, NEW m, NEW O, NEW lk, Balanced(sh, wk, m, O, lk),
         NEW x \in SharedPtrs, Held(sh[x]) \notin Counters,
         NEW p \in Pointers, MayOwn(p, Num(sh, SharedPtrs), O)
  PROVE  Balanced([sh EXCEPT ![x] = p], wk, Shared(m, p), O, lk)
  <1> DEFINE N == Num(sh, SharedPtrs)
             W == Num(wk, WeakPtrs)
  <1>1. N \in [Counters -> Nat] /\ W \in [Counters -> Nat] /\ Heap(m, N, W, O, lk)
    BY NumbersType DEF Balanced
  <1>2. p.counter # Null => N[p.counter] > 0
    BY HeldType DEF MayOwn
  <1> HIDE DEF N, W
  <1>3. Heap(Shared(m, p), Plus(N, p.counter), W, O, lk)
    BY <1>1, <1>2, SharedHeap
  <1>4. Minus(N, Held(sh[x])) = N /\ Held(p) = p.counter
    BY <1>1, HeldType DEF Minus
  <1> QED BY <1>3, <1>4, OwnerTakes DEF N, W, Variables

LEMMA ReleaseBalances ==
  ASSUME NEW sh, NEW wk, NEW m, NEW O, NEW lk, Balanced(sh, wk, m, O, lk),
         NEW x \in SharedPtrs, sh[x] \notin {Gone, Lost}, NEW p \in {Gone, Lost}
  PROVE  Balanced([sh EXCEPT ![x] = p], wk, Released(m, sh[x]), O, lk)
  <1> DEFINE N == Num(sh, SharedPtrs)
             W == Num(wk, WeakPtrs)
  <1>1. N \in [Counters -> Nat] /\ W \in [Counters -> Nat] /\ Heap(m, N, W, O, lk) /\ Distinct(N, O, lk)
    BY NumbersType DEF Balanced
  <1>2. sh[x] \in Pointers /\ Held(sh[x]) = sh[x].counter /\ MayOwn(sh[x], N, O)
    BY OwnedPair
  <1> HIDE DEF N, W
  <1>3. sh[x].counter # Null => N[sh[x].counter] > 0 /\ sh[x].obj = O[sh[x].counter]
    BY <1>2, HeldType DEF MayOwn
  <1>4. Heap(Released(m, sh[x]), Minus(N, sh[x].counter), W, O, lk)
    BY <1>1, <1>2, <1>3, ReleasedHeap
  <1>5. Plus(Minus(N, Held(sh[x])), Held(p)) = Minus(N, Held(sh[x]))
    BY HeldType DEF Plus, Minus
  <1>6. p \notin Pointers
    BY HeldType
  <1> QED BY <1>2, <1>4, <1>5, <1>6, OwnerTakes DEF N, W, Variables

(* The copy is made before the old pair is released, so it may be the same *)
(* string, and the counter is never zero in between.                       *)
LEMMA AssignBalances ==
  ASSUME NEW sh, NEW wk, NEW m, NEW O, NEW lk, Balanced(sh, wk, m, O, lk),
         NEW x \in SharedPtrs, sh[x] \notin {Gone, Lost},
         NEW p \in Pointers, MayOwn(p, Num(sh, SharedPtrs), O)
  PROVE  Balanced([sh EXCEPT ![x] = p], wk, Released(Shared(m, p), sh[x]), O, lk)
  <1> DEFINE N == Num(sh, SharedPtrs)
             N1 == Plus(N, p.counter)
             W == Num(wk, WeakPtrs)
             q == sh[x]
  <1>1. N \in [Counters -> Nat] /\ W \in [Counters -> Nat] /\ Heap(m, N, W, O, lk) /\ Distinct(N, O, lk)
    BY NumbersType DEF Balanced
  <1>2. q \in Pointers /\ Held(q) = q.counter /\ MayOwn(q, N, O) /\ MayOwn(p, N, O)
    BY OwnedPair
  <1> HIDE DEF N, W, q
  <1>3. /\ p.counter # Null => N[p.counter] > 0
        /\ q.counter # Null => N[q.counter] > 0 /\ q.obj = O[q.counter]
        /\ p.counter \in Counters \cup {Null} /\ q.counter \in Counters \cup {Null}
        /\ Held(p) = p.counter /\ Null \notin Counters
    BY <1>2, HeldType DEF MayOwn
  <1>4. Heap(Shared(m, p), N1, W, O, lk)
    BY <1>1, <1>3, SharedHeap
  <1>5. N1 \in [Counters -> Nat] /\ \A c \in Counters : N1[c] > 0 <=> N[c] > 0
    BY <1>1, <1>3 DEF Plus
  <1>6. Distinct(N1, O, lk)
    BY <1>1, <1>5 DEF Distinct
  <1>7. q.counter # Null => N1[q.counter] > 0
    BY <1>3, <1>5
  <1>8. Plus(Minus(N, q.counter), p.counter) = Minus(N1, q.counter)
    <2>1. \A c \in Counters : Plus(Minus(N, q.counter), p.counter)[c] = Minus(N1, q.counter)[c]
      BY <1>1 DEF Plus, Minus
    <2> QED BY <2>1 DEF Plus, Minus
  <1> HIDE DEF N1
  <1>9. Heap(Released(Shared(m, p), q), Minus(N1, q.counter), W, O, lk)
    BY <1>2, <1>1, <1>3, <1>4, <1>5, <1>6, <1>7, ReleasedHeap
  <1> QED BY <1>2, <1>3, <1>8, <1>9, OwnerTakes DEF N, W, q, Variables

(* A move gives the pair on and leaves an empty pointer. *)
LEMMA MoveBalances ==
  ASSUME NEW sh, NEW wk, NEW m, NEW m1, NEW O, NEW lk,
         NEW x \in SharedPtrs, NEW y \in SharedPtrs, x # y, sh[y] \notin {Gone, Lost},
         Balanced(sh, wk, m1, O, lk),
         Balanced([sh EXCEPT ![x] = sh[y]], wk, m, O, lk),
         NEW m2, Heap(m2, Minus(Num([sh EXCEPT ![x] = sh[y]], SharedPtrs), sh[y].counter),
                      Num(wk, WeakPtrs), O, lk)
  PROVE  Balanced([sh EXCEPT ![x] = sh[y], ![y] = Empty], wk, m2, O, lk)
  <1> DEFINE sh1 == [sh EXCEPT ![x] = sh[y]]
             N1 == Num(sh1, SharedPtrs)
  <1>1. sh1[y] = sh[y] /\ Held(sh[y]) = sh[y].counter
    BY OwnedPair DEF Balanced, Typed
  <1>2. [sh EXCEPT ![x] = sh[y], ![y] = Empty] = [sh1 EXCEPT ![y] = Empty]
    OBVIOUS
  <1> HIDE DEF sh1
  <1>3. Plus(Minus(N1, Held(sh1[y])), Held(Empty)) = Minus(N1, sh[y].counter)
    BY <1>1, HeldType DEF Plus, Minus
  <1>4. Empty \in Variables /\ MayOwn(Empty, N1, O)
    BY HeldType DEF MayOwn, Variables
  <1>5. Balanced(sh1, wk, m, O, lk) /\ Heap(m2, Minus(N1, sh[y].counter), Num(wk, WeakPtrs), O, lk)
    BY DEF sh1
  <1>6. Balanced([sh1 EXCEPT ![y] = Empty], wk, m2, O, lk)
    BY <1>3, <1>4, <1>5, OwnerTakes
  <1> QED BY <1>2, <1>6

LEMMA PlusMinus ==
  ASSUME NEW N \in [Counters -> Int], NEW k
  PROVE  Minus(Plus(N, k), k) = N
  BY DEF Plus, Minus

LEMMA NumAfter ==
  ASSUME NEW sh, NEW wk, NEW m, NEW O, NEW lk, Balanced(sh, wk, m, O, lk),
         NEW x \in SharedPtrs, NEW p
  PROVE  Num([sh EXCEPT ![x] = p], SharedPtrs) = Plus(Minus(Num(sh, SharedPtrs), Held(sh[x])), Held(p))
  <1> DEFINE sh2 == [sh EXCEPT ![x] = p]
  <1>1. \A y \in SharedPtrs : sh2[y] = IF y = x THEN p ELSE sh[y]
    BY DEF Balanced, Typed
  <1> HIDE DEF sh2
  <1>2. Num(sh2, SharedPtrs) = Plus(Minus(Num(sh, SharedPtrs), Held(sh[x])), Held(p))
    BY <1>1, NumChanges, RoomAssumption
  <1> QED BY <1>2 DEF sh2

-----------------------------------------------------------------------------
(* A string that is new: memory has one that nobody has. *)
LEMMA NewString ==
  ASSUME NEW O, Balanced(shared, weak, Memory, O, leaked), NEW s \in RawPointers,
         IsFiniteSet(leaked), Cardinality(leaked) <= MaxLeaked
  PROVE  /\ s \in Strings \cup {Null}
         /\ Balanced(shared, weak, WithString(Memory, s), O, leaked \cup ({s} \ {Null}))
         /\ s \notin leaked
  <1>1. s \in Strings \cup {Null} /\ s \notin Memory.strings
    <2>1. PICK z \in Strings : z \notin strings
      BY StringRoom DEF Memory
    <2>2. Null \notin strings
      BY NamesAssumption DEF Balanced, Typed, Heap, OwnedStrings, Memory
    <2> QED BY <2>1, <2>2 DEF RawPointers, Memory
  <1> QED BY <1>1, StringComes

LEMMA ConstructStep ==
  ASSUME IInv, NEW x \in SharedPtrs, ConstructShared(x)
  PROVE  IInv'
  <1>1. PICK O : Balanced(shared, weak, Memory, O, leaked)
    BY DEF IInv
  <1>2. UNCHANGED <<weak, leaked>> /\ shared[x] = Gone /\ Held(shared[x]) \notin Counters
    BY HeldType DEF ConstructShared, SetShared
  <1>3. CASE SetShared(x, Empty, Memory)
    <2>1. Balanced([shared EXCEPT ![x] = Empty], weak, Shared(Memory, Empty), O, leaked)
      BY <1>1, <1>2, CopyBalances, HeldType DEF MayOwn
    <2>2. Shared(Memory, Empty) = Memory
      BY HeldType DEF Shared
    <2> QED BY <1>2, <1>3, <2>1, <2>2, CallEnds DEF SetShared, IInv
  <1>4. ASSUME NEW s \in RawPointers,
               SetShared(x, Counted(WithString(Memory, s), s).pair, Counted(WithString(Memory, s), s).memory)
        PROVE  IInv'
    <2> DEFINE m == WithString(Memory, s)
    <2>1. /\ s \in Strings \cup {Null} /\ s \notin leaked
          /\ Balanced(shared, weak, m, O, leaked \cup ({s} \ {Null}))
      BY <1>1, NewString DEF IInv
    <2> HIDE DEF m
    <2>2. PICK Q : Balanced([shared EXCEPT ![x] = Counted(m, s).pair], weak, Counted(m, s).memory, Q, leaked)
      BY <1>2, <2>1, CounterRoom, CountedHeap
    <2>3. SetShared(x, Counted(m, s).pair, Counted(m, s).memory)
      BY <1>4 DEF m
    <2> QED BY <1>2, <2>2, <2>3, CallEnds DEF SetShared, IInv
  <1> QED BY <1>3, <1>4 DEF ConstructShared

LEMMA CopyStep ==
  ASSUME IInv, NEW x \in SharedPtrs, NEW y \in SharedPtrs, CopyShared(x, y)
  PROVE  IInv'
  <1>1. PICK O : Balanced(shared, weak, Memory, O, leaked)
    BY DEF IInv
  <1>2. UNCHANGED <<weak, leaked>> /\ Held(shared[x]) \notin Counters /\ shared[y] \notin {Gone, Lost}
    BY HeldType DEF CopyShared, SetShared, Live
  <1>3. Balanced([shared EXCEPT ![x] = shared[y]], weak, Shared(Memory, shared[y]), O, leaked)
    BY <1>1, <1>2, OwnedPair, CopyBalances
  <1> QED BY <1>2, <1>3, CallEnds DEF CopyShared, SetShared, IInv

LEMMA MoveStep ==
  ASSUME IInv, NEW x \in SharedPtrs, NEW y \in SharedPtrs, MoveShared(x, y)
  PROVE  IInv'
  <1>1. PICK O : Balanced(shared, weak, Memory, O, leaked)
    BY DEF IInv
  <1>2. /\ UNCHANGED <<weak, leaked, counter, strings>> /\ Held(shared[x]) \notin Counters
        /\ shared[y] \notin {Gone, Lost} /\ x # y
    BY HeldType DEF MoveShared, Live
  <1> DEFINE p == shared[y]
             sh1 == [shared EXCEPT ![x] = p]
  <1>3. p \in Pointers /\ Held(p) = p.counter /\ MayOwn(p, N0, O)
    BY <1>1, <1>2, OwnedPair DEF N0
  <1>4. Balanced(sh1, weak, Shared(Memory, p), O, leaked)
    BY <1>1, <1>2, <1>3, CopyBalances DEF N0
  <1>5. Heap(Memory, Minus(Num(sh1, SharedPtrs), p.counter), W0, O, leaked)
    <2>1. N0 \in [Counters -> Nat]
      BY NumbersType DEF N0
    <2>2. Num(sh1, SharedPtrs) = Plus(Minus(N0, Held(shared[x])), Held(p))
      BY <1>1, NumAfter DEF N0
    <2> HIDE DEF p, sh1
    <2>3. Minus(N0, Held(shared[x])) = N0
      BY <1>2, <2>1 DEF Minus
    <2>4. Minus(Num(sh1, SharedPtrs), p.counter) = N0
      BY <1>3, <2>1, <2>2, <2>3, PlusMinus
    <2> QED BY <1>1, <2>4 DEF Balanced, N0, W0
  <1>6. Balanced([shared EXCEPT ![x] = p, ![y] = Empty], weak, Memory, O, leaked)
    BY <1>1, <1>2, <1>4, <1>5, MoveBalances DEF W0
  <1> QED BY <1>2, <1>6, MemoryStays, CallEnds DEF MoveShared, IInv

LEMMA LockStep ==
  ASSUME IInv, NEW x \in SharedPtrs, NEW w \in WeakPtrs, LockShared(x, w)
  PROVE  IInv'
  <1>1. PICK O : Balanced(shared, weak, Memory, O, leaked)
    BY DEF IInv
  <1>2. UNCHANGED <<weak, leaked>> /\ Held(shared[x]) \notin Counters /\ weak[w] # Gone
    BY HeldType DEF LockShared, SetShared
  <1> DEFINE p == Lock(weak[w])
  <1>3. p \in Pointers /\ MayOwn(p, N0, O)
    BY <1>1, <1>2, LockedPair
  <1> HIDE DEF p
  <1>4. Balanced([shared EXCEPT ![x] = p], weak, Shared(Memory, p), O, leaked)
    BY <1>1, <1>2, <1>3, CopyBalances DEF N0
  <1> QED BY <1>2, <1>4, CallEnds DEF LockShared, SetShared, IInv, p

LEMMA DestroyStep ==
  ASSUME IInv, NEW x \in SharedPtrs, DestroyShared(x)
  PROVE  IInv'
  <1>1. PICK O : Balanced(shared, weak, Memory, O, leaked)
    BY DEF IInv
  <1>2. UNCHANGED <<weak, leaked>> /\ shared[x] \notin {Gone, Lost}
    BY DEF DestroyShared, SetShared, Live
  <1>3. Balanced([shared EXCEPT ![x] = Gone], weak, Released(Memory, shared[x]), O, leaked)
    BY <1>1, <1>2, ReleaseBalances
  <1> QED BY <1>2, <1>3, CallEnds DEF DestroyShared, SetShared, IInv

LEMMA CopyAssignStep ==
  ASSUME IInv, NEW x \in SharedPtrs, NEW y \in SharedPtrs, CopyAssignShared(x, y)
  PROVE  IInv'
  <1>1. PICK O : Balanced(shared, weak, Memory, O, leaked)
    BY DEF IInv
  <1>2. UNCHANGED <<weak, leaked>> /\ shared[x] \notin {Gone, Lost} /\ shared[y] \notin {Gone, Lost}
    BY DEF CopyAssignShared, SetShared, Live
  <1>3. Balanced([shared EXCEPT ![x] = shared[y]], weak,
                 Released(Shared(Memory, shared[y]), shared[x]), O, leaked)
    BY <1>1, <1>2, OwnedPair, AssignBalances
  <1> QED BY <1>2, <1>3, CallEnds DEF CopyAssignShared, SetShared, IInv

LEMMA LockAssignStep ==
  ASSUME IInv, NEW x \in SharedPtrs, NEW w \in WeakPtrs, LockAssign(x, w)
  PROVE  IInv'
  <1>1. PICK O : Balanced(shared, weak, Memory, O, leaked)
    BY DEF IInv
  <1>2. UNCHANGED <<weak, leaked>> /\ shared[x] \notin {Gone, Lost} /\ weak[w] # Gone
    BY DEF LockAssign, SetShared, Live
  <1> DEFINE p == Lock(weak[w])
  <1>3. p \in Pointers /\ MayOwn(p, N0, O)
    BY <1>1, <1>2, LockedPair
  <1> HIDE DEF p
  <1>4. Balanced([shared EXCEPT ![x] = p], weak, Released(Shared(Memory, p), shared[x]), O, leaked)
    BY <1>1, <1>2, <1>3, AssignBalances DEF N0
  <1> QED BY <1>2, <1>4, CallEnds DEF LockAssign, SetShared, IInv, p

LEMMA MoveAssignStep ==
  ASSUME IInv, NEW x \in SharedPtrs, NEW y \in SharedPtrs, MoveAssignShared(x, y), x # y
  PROVE  IInv'
  <1>1. PICK O : Balanced(shared, weak, Memory, O, leaked)
    BY DEF IInv
  <1>2. /\ UNCHANGED <<weak, leaked>> /\ shared[x] \notin {Gone, Lost} /\ shared[y] \notin {Gone, Lost}
        /\ shared' = [shared EXCEPT ![x] = shared[y], ![y] = Empty]
        /\ Becomes(Released(Memory, shared[x]))
    BY DEF MoveAssignShared, Live
  <1> DEFINE p == shared[y]
             q == shared[x]
             sh1 == [shared EXCEPT ![x] = p]
             sh2 == [shared EXCEPT ![x] = Gone]
  <1>3. /\ p \in Pointers /\ Held(p) = p.counter /\ MayOwn(p, N0, O)
        /\ q \in Pointers /\ Held(q) = q.counter
    BY <1>1, <1>2, OwnedPair DEF N0
  <1>4. Balanced(sh1, weak, Released(Shared(Memory, p), q), O, leaked)
    BY <1>1, <1>2, <1>3, AssignBalances DEF N0
  <1>5. Heap(Released(Memory, q), Minus(Num(sh1, SharedPtrs), p.counter), W0, O, leaked)
    <2>1. N0 \in [Counters -> Nat]
      BY NumbersType DEF N0
    <2>2. Num(sh1, SharedPtrs) = Plus(Minus(N0, Held(q)), Held(p))
      BY <1>1, NumAfter DEF N0
    <2>3. Num(sh2, SharedPtrs) = Plus(Minus(N0, Held(q)), Held(Gone))
      BY <1>1, NumAfter DEF N0
    <2>4. Heap(Released(Memory, q), Num(sh2, SharedPtrs), W0, O, leaked)
      BY <1>1, <1>2, ReleaseBalances DEF Balanced, W0
    <2> HIDE DEF p, q, sh1, sh2
    <2>5. Minus(N0, Held(q)) \in [Counters -> Int]
      BY <2>1 DEF Minus
    <2>6. Plus(Minus(N0, Held(q)), Held(Gone)) = Minus(N0, Held(q))
      BY <2>5, HeldType DEF Plus
    <2>7. Minus(Num(sh1, SharedPtrs), p.counter) = Minus(N0, Held(q))
      BY <1>3, <2>2, <2>5, PlusMinus
    <2> QED BY <2>3, <2>4, <2>6, <2>7
  <1>6. Balanced([shared EXCEPT ![x] = p, ![y] = Empty], weak, Released(Memory, q), O, leaked)
    BY <1>1, <1>2, <1>4, <1>5, MoveBalances DEF W0
  <1> QED BY <1>2, <1>6, CallEnds DEF IInv

(* Reset(ptr) is a release and then a construction. *)
LEMMA ResetStep ==
  ASSUME IInv, NEW x \in SharedPtrs, ResetShared(x)
  PROVE  IInv'
  <1>1. PICK O : Balanced(shared, weak, Memory, O, leaked)
    BY DEF IInv
  <1>2. PICK s \in RawPointers :
          SetShared(x, Counted(Released(WithString(Memory, s), shared[x]), s).pair,
                       Counted(Released(WithString(Memory, s), shared[x]), s).memory)
    BY DEF ResetShared
  <1> DEFINE m == Released(WithString(Memory, s), shared[x])
             sh1 == [shared EXCEPT ![x] = Gone]
  <1>3. UNCHANGED <<weak, leaked>> /\ shared[x] \notin {Gone, Lost}
    BY <1>2 DEF ResetShared, SetShared, Live
  <1>4. /\ s \in Strings \cup {Null} /\ s \notin leaked
        /\ Balanced(shared, weak, WithString(Memory, s), O, leaked \cup ({s} \ {Null}))
    BY <1>1, NewString DEF IInv
  <1>5. Balanced(sh1, weak, m, O, leaked \cup ({s} \ {Null}))
    BY <1>3, <1>4, ReleaseBalances
  <1>6. sh1[x] = Gone /\ Held(sh1[x]) \notin Counters
    BY <1>4, HeldType DEF Balanced, Typed
  <1>7. /\ [sh1 EXCEPT ![x] = Counted(m, s).pair] = [shared EXCEPT ![x] = Counted(m, s).pair]
        /\ SetShared(x, Counted(m, s).pair, Counted(m, s).memory)
    BY <1>2
  <1> HIDE DEF m, sh1
  <1>8. PICK Q : Balanced([sh1 EXCEPT ![x] = Counted(m, s).pair], weak, Counted(m, s).memory, Q, leaked)
    BY <1>4, <1>5, <1>6, CounterRoom, CountedHeap
  <1> QED BY <1>3, <1>7, <1>8, CallEnds DEF SetShared, IInv

(* When new throws, the string stays with the leaked ones. *)
LEMMA ThrowStep ==
  ASSUME IInv, NEW x \in SharedPtrs, ConstructThrows(x) \/ ResetThrows(x)
  PROVE  IInv'
  <1>1. PICK O : Balanced(shared, weak, Memory, O, leaked)
    BY DEF IInv
  <1>2. ASSUME NEW s \in RawPointers, Leaks(s)
        PROVE  /\ Balanced(shared, weak, WithString(Memory, s), O, leaked')
               /\ IsFiniteSet(leaked') /\ Cardinality(leaked') <= MaxLeaked
    <2>1. IsFiniteSet({s} \ {Null})
      BY FS_Singleton, FS_Difference
    <2>2. IsFiniteSet(leaked \cup ({s} \ {Null}))
      BY <2>1, FS_Union DEF IInv
    <2> QED BY <1>1, <1>2, <2>2, NewString DEF Leaks, IInv
  <1>3. CASE ConstructThrows(x)
    <2>1. PICK s \in RawPointers : Leaks(s) /\ Becomes(WithString(Memory, s))
      BY <1>3 DEF ConstructThrows
    <2>2. UNCHANGED <<shared, weak>>
      BY <1>3 DEF ConstructThrows
    <2> QED BY <1>2, <2>1, <2>2, CallEnds
  <1>4. CASE ResetThrows(x)
    <2>1. PICK s \in RawPointers : Leaks(s) /\ Becomes(Released(WithString(Memory, s), shared[x]))
      BY <1>4 DEF ResetThrows
    <2>2. UNCHANGED weak /\ shared' = [shared EXCEPT ![x] = Lost] /\ shared[x] \notin {Gone, Lost}
      BY <1>4 DEF ResetThrows, Live
    <2>3. Balanced([shared EXCEPT ![x] = Lost], weak, Released(WithString(Memory, s), shared[x]), O, leaked')
      BY <1>2, <2>1, <2>2, ReleaseBalances
    <2> QED BY <1>2, <2>1, <2>2, <2>3, CallEnds
  <1> QED BY <1>3, <1>4

-----------------------------------------------------------------------------
(* WeakPtr: a pair that may be watched has a counter that is there. *)
MayWatch(p, N, W, O) ==
  \/ p.counter = Null
  \/ /\ p.counter \in Counters /\ N[p.counter] + W[p.counter] > 0
     /\ N[p.counter] > 0 => p.obj = O[p.counter]

LEMMA WatchablePair ==
  ASSUME NEW O, Balanced(shared, weak, Memory, O, leaked), NEW p \in {Empty} \cup Watchable
  PROVE  p \in Pointers /\ MayWatch(p, N0, W0, O)
  <1>1. N0 \in [Counters -> Nat] /\ W0 \in [Counters -> Nat]
    BY NumbersType DEF N0, W0
  <1>2. CASE p = Empty
    BY <1>2, HeldType DEF MayWatch
  <1>3. ASSUME NEW w \in WeakPtrs, p = weak[w], p # Gone
        PROVE  p \in Pointers /\ MayWatch(p, N0, W0, O)
    <2>1. /\ p \in Pointers /\ p.counter \in Counters \cup {Null}
          /\ p.counter \in Counters => W0[p.counter] > 0 /\ (N0[p.counter] > 0 => p.obj = O[p.counter])
      BY <1>3, WatchedPair, HeldType DEF N0, W0
    <2> QED BY <1>1, <2>1 DEF MayWatch
  <1>4. ASSUME NEW x \in Live, p = shared[x]
        PROVE  p \in Pointers /\ MayWatch(p, N0, W0, O)
    <2>1. p \in Pointers /\ MayOwn(p, N0, O)
      BY <1>4, OwnedPair DEF Live, N0
    <2> QED BY <1>1, <2>1, HeldType DEF MayWatch, MayOwn
  <1> QED BY <1>2, <1>3, <1>4 DEF Watchable

LEMMA WatchBalances ==
  ASSUME NEW sh, NEW wk, NEW m, NEW O, NEW lk, Balanced(sh, wk, m, O, lk),
         NEW w \in WeakPtrs, Held(wk[w]) \notin Counters, NEW p \in Pointers,
         MayWatch(p, Num(sh, SharedPtrs), Num(wk, WeakPtrs), O)
  PROVE  Balanced(sh, [wk EXCEPT ![w] = p], Watched(m, p), O, lk)
  <1> DEFINE N == Num(sh, SharedPtrs)
             W == Num(wk, WeakPtrs)
  <1>1. N \in [Counters -> Nat] /\ W \in [Counters -> Nat] /\ Heap(m, N, W, O, lk)
    BY NumbersType DEF Balanced
  <1>2. /\ p.counter # Null => N[p.counter] + W[p.counter] > 0
        /\ p.counter = Null \/ (N[p.counter] > 0 => p.obj = O[p.counter])
    BY DEF MayWatch
  <1> HIDE DEF N, W
  <1>3. Heap(Watched(m, p), N, Plus(W, p.counter), O, lk)
    BY <1>1, <1>2, WatchedHeap
  <1>4. Minus(W, Held(wk[w])) = W /\ Held(p) = p.counter
    BY <1>1, HeldType DEF Minus
  <1> QED BY <1>2, <1>3, <1>4, WatcherTakes DEF N, W

LEMMA UnwatchBalances ==
  ASSUME NEW sh, NEW wk, NEW m, NEW O, NEW lk, Balanced(sh, wk, m, O, lk),
         NEW w \in WeakPtrs, wk[w] # Gone, NEW p \in {Gone, Empty}
  PROVE  Balanced(sh, [wk EXCEPT ![w] = p], Unwatched(m, wk[w]), O, lk)
  <1> DEFINE N == Num(sh, SharedPtrs)
             W == Num(wk, WeakPtrs)
  <1>1. N \in [Counters -> Nat] /\ W \in [Counters -> Nat] /\ Heap(m, N, W, O, lk)
    BY NumbersType DEF Balanced
  <1>2. /\ wk[w] \in Pointers /\ Held(wk[w]) = wk[w].counter
        /\ wk[w].counter # Null => W[wk[w].counter] > 0
    BY WatchedPair, HeldType
  <1> HIDE DEF N, W
  <1>3. Heap(Unwatched(m, wk[w]), N, Minus(W, wk[w].counter), O, lk)
    BY <1>1, <1>2, UnwatchedHeap
  <1>4. Plus(Minus(W, Held(wk[w])), Held(p)) = Minus(W, Held(wk[w]))
    BY HeldType DEF Plus, Minus
  <1>5. p \in Pointers \cup {Gone} /\ (p \in Pointers => p.counter = Null)
    BY HeldType
  <1> QED BY <1>2, <1>3, <1>4, <1>5, WatcherTakes DEF N, W

(* As for SharedPtr, the new pair is counted before the old one is let go. *)
LEMMA RewatchBalances ==
  ASSUME NEW sh, NEW wk, NEW m, NEW O, NEW lk, Balanced(sh, wk, m, O, lk),
         NEW w \in WeakPtrs, wk[w] # Gone, NEW p \in Pointers,
         MayWatch(p, Num(sh, SharedPtrs), Num(wk, WeakPtrs), O)
  PROVE  Balanced(sh, [wk EXCEPT ![w] = p], Unwatched(Watched(m, p), wk[w]), O, lk)
  <1> DEFINE N == Num(sh, SharedPtrs)
             W == Num(wk, WeakPtrs)
             W1 == Plus(W, p.counter)
             q == wk[w]
  <1>1. N \in [Counters -> Nat] /\ W \in [Counters -> Nat] /\ Heap(m, N, W, O, lk)
    BY NumbersType DEF Balanced
  <1>2. /\ q \in Pointers /\ Held(q) = q.counter /\ Held(p) = p.counter /\ Null \notin Counters
        /\ q.counter # Null => W[q.counter] > 0
        /\ q.counter \in Counters \cup {Null} /\ p.counter \in Counters \cup {Null}
    BY WatchedPair, HeldType
  <1>3. /\ p.counter # Null => N[p.counter] + W[p.counter] > 0
        /\ p.counter = Null \/ (N[p.counter] > 0 => p.obj = O[p.counter])
    BY DEF MayWatch
  <1> HIDE DEF N, W, q
  <1>4. Heap(Watched(m, p), N, W1, O, lk)
    BY <1>1, <1>3, WatchedHeap
  <1>5. W1 \in [Counters -> Nat] /\ (q.counter # Null => W1[q.counter] > 0)
    BY <1>1, <1>2 DEF Plus
  <1>6. Plus(Minus(W, q.counter), p.counter) = Minus(W1, q.counter)
    <2>1. \A c \in Counters : Plus(Minus(W, q.counter), p.counter)[c] = Minus(W1, q.counter)[c]
      BY <1>1 DEF Plus, Minus
    <2> QED BY <2>1 DEF Plus, Minus
  <1> HIDE DEF W1
  <1>7. Heap(Unwatched(Watched(m, p), q), N, Minus(W1, q.counter), O, lk)
    BY <1>1, <1>2, <1>4, <1>5, UnwatchedHeap
  <1> QED BY <1>2, <1>3, <1>6, <1>7, WatcherTakes DEF N, W, q

LEMMA NumAfterWatch ==
  ASSUME NEW sh, NEW wk, NEW m, NEW O, NEW lk, Balanced(sh, wk, m, O, lk),
         NEW w \in WeakPtrs, NEW p
  PROVE  Num([wk EXCEPT ![w] = p], WeakPtrs) = Plus(Minus(Num(wk, WeakPtrs), Held(wk[w])), Held(p))
  <1> DEFINE wk2 == [wk EXCEPT ![w] = p]
  <1>1. \A u \in WeakPtrs : wk2[u] = IF u = w THEN p ELSE wk[u]
    BY DEF Balanced, Typed
  <1> HIDE DEF wk2
  <1>2. Num(wk2, WeakPtrs) = Plus(Minus(Num(wk, WeakPtrs), Held(wk[w])), Held(p))
    BY <1>1, NumChanges, RoomAssumption
  <1> QED BY <1>2 DEF wk2

LEMMA MoveWatchBalances ==
  ASSUME NEW sh, NEW wk, NEW m, NEW m1, NEW O, NEW lk,
         NEW w \in WeakPtrs, NEW u \in WeakPtrs, w # u, wk[u] # Gone,
         Balanced(sh, wk, m1, O, lk),
         Balanced(sh, [wk EXCEPT ![w] = wk[u]], m, O, lk),
         NEW m2, Heap(m2, Num(sh, SharedPtrs),
                      Minus(Num([wk EXCEPT ![w] = wk[u]], WeakPtrs), wk[u].counter), O, lk)
  PROVE  Balanced(sh, [wk EXCEPT ![w] = wk[u], ![u] = Empty], m2, O, lk)
  <1> DEFINE wk1 == [wk EXCEPT ![w] = wk[u]]
             W1 == Num(wk1, WeakPtrs)
  <1>1. wk1[u] = wk[u] /\ Held(wk[u]) = wk[u].counter
    BY WatchedPair DEF Balanced, Typed
  <1>2. [wk EXCEPT ![w] = wk[u], ![u] = Empty] = [wk1 EXCEPT ![u] = Empty]
    OBVIOUS
  <1> HIDE DEF wk1
  <1>3. Plus(Minus(W1, Held(wk1[u])), Held(Empty)) = Minus(W1, wk[u].counter)
    BY <1>1, HeldType DEF Plus, Minus
  <1>4. Empty \in Pointers \cup {Gone} /\ Empty.counter = Null
    BY HeldType
  <1>5. Balanced(sh, wk1, m, O, lk) /\ Heap(m2, Num(sh, SharedPtrs), Minus(W1, wk[u].counter), O, lk)
    BY DEF wk1
  <1>6. Balanced(sh, [wk1 EXCEPT ![u] = Empty], m2, O, lk)
    BY <1>3, <1>4, <1>5, WatcherTakes
  <1> QED BY <1>2, <1>6

-----------------------------------------------------------------------------
LEMMA WatchStep ==
  ASSUME IInv, NEW w \in WeakPtrs,
         ConstructWeak(w) \/ DestroyWeak(w) \/ CopyAssignWeak(w) \/ ResetWeak(w)
  PROVE  IInv'
  <1>1. PICK O : Balanced(shared, weak, Memory, O, leaked)
    BY DEF IInv
  <1>2. UNCHANGED <<shared, leaked>>
    BY DEF ConstructWeak, DestroyWeak, CopyAssignWeak, ResetWeak, SetWeak
  <1>3. CASE ConstructWeak(w)
    <2>1. PICK p \in {Empty} \cup Watchable : SetWeak(w, p, Watched(Memory, p))
      BY <1>3 DEF ConstructWeak
    <2>2. p \in Pointers /\ MayWatch(p, N0, W0, O) /\ Held(weak[w]) \notin Counters
      BY <1>1, <1>3, WatchablePair, HeldType DEF ConstructWeak
    <2>3. Balanced(shared, [weak EXCEPT ![w] = p], Watched(Memory, p), O, leaked)
      BY <1>1, <2>2, WatchBalances DEF N0, W0
    <2> QED BY <1>2, <2>1, <2>3, CallEnds DEF SetWeak, IInv
  <1>4. CASE DestroyWeak(w)
    <2>1. Balanced(shared, [weak EXCEPT ![w] = Gone], Unwatched(Memory, weak[w]), O, leaked)
      BY <1>1, <1>4, UnwatchBalances DEF DestroyWeak
    <2> QED BY <1>2, <1>4, <2>1, CallEnds DEF DestroyWeak, SetWeak, IInv
  <1>5. CASE CopyAssignWeak(w)
    <2>1. PICK p \in Watchable : SetWeak(w, p, Unwatched(Watched(Memory, p), weak[w]))
      BY <1>5 DEF CopyAssignWeak
    <2>2. p \in Pointers /\ MayWatch(p, N0, W0, O) /\ weak[w] # Gone
      BY <1>1, <1>5, WatchablePair DEF CopyAssignWeak
    <2>3. Balanced(shared, [weak EXCEPT ![w] = p], Unwatched(Watched(Memory, p), weak[w]), O, leaked)
      BY <1>1, <2>2, RewatchBalances DEF N0, W0
    <2> QED BY <1>2, <2>1, <2>3, CallEnds DEF SetWeak, IInv
  <1>6. CASE ResetWeak(w)
    <2>1. Balanced(shared, [weak EXCEPT ![w] = Empty], Unwatched(Memory, weak[w]), O, leaked)
      BY <1>1, <1>6, UnwatchBalances DEF ResetWeak
    <2> QED BY <1>2, <1>6, <2>1, CallEnds DEF ResetWeak, SetWeak, IInv
  <1> QED BY <1>3, <1>4, <1>5, <1>6

LEMMA MoveWatchStep ==
  ASSUME IInv, NEW w \in WeakPtrs, NEW u \in WeakPtrs, w # u,
         MoveWeak(w, u) \/ MoveAssignWeak(w, u)
  PROVE  IInv'
  <1>1. PICK O : Balanced(shared, weak, Memory, O, leaked)
    BY DEF IInv
  <1>2. /\ UNCHANGED <<shared, leaked>> /\ weak[u] # Gone
        /\ weak' = [weak EXCEPT ![w] = weak[u], ![u] = Empty]
    BY DEF MoveWeak, MoveAssignWeak
  <1> DEFINE p == weak[u]
             q == weak[w]
             wk1 == [weak EXCEPT ![w] = p]
             wk2 == [weak EXCEPT ![w] = Gone]
             W1 == Num(wk1, WeakPtrs)
  <1>3. p \in Pointers /\ Held(p) = p.counter /\ MayWatch(p, N0, W0, O)
    BY <1>1, <1>2, WatchablePair, HeldType DEF Watchable
  <1>4. N0 \in [Counters -> Nat] /\ W0 \in [Counters -> Nat]
    BY NumbersType DEF N0, W0
  <1>5. W1 = Plus(Minus(W0, Held(q)), Held(p))
    BY <1>1, NumAfterWatch DEF W0
  <1>6. Minus(W1, p.counter) = Minus(W0, Held(q))
    <2> HIDE DEF p, q, W1
    <2>1. Minus(W0, Held(q)) \in [Counters -> Int]
      BY <1>4 DEF Minus
    <2> QED BY <1>3, <1>5, <2>1, PlusMinus
  <1>7. CASE MoveWeak(w, u)
    <2>1. weak[w] = Gone /\ UNCHANGED <<counter, strings>> /\ Held(q) \notin Counters
      BY <1>7, HeldType DEF MoveWeak
    <2>2. Balanced(shared, wk1, Watched(Memory, p), O, leaked)
      BY <1>1, <1>3, <2>1, WatchBalances DEF N0, W0
    <2>3. Heap(Memory, N0, Minus(W1, p.counter), O, leaked)
      <3> HIDE DEF W1, p, q
      <3>1. Minus(W0, Held(q)) = W0
        BY <1>4, <2>1 DEF Minus
      <3> QED BY <1>1, <1>6, <3>1 DEF Balanced, N0, W0
    <2>4. Balanced(shared, [weak EXCEPT ![w] = p, ![u] = Empty], Memory, O, leaked)
      BY <1>1, <1>2, <2>2, <2>3, MoveWatchBalances DEF N0
    <2> QED BY <1>2, <2>1, <2>4, MemoryStays, CallEnds DEF IInv
  <1>8. CASE MoveAssignWeak(w, u)
    <2>1. weak[w] # Gone /\ Becomes(Unwatched(Memory, q))
      BY <1>8 DEF MoveAssignWeak
    <2>2. Balanced(shared, wk1, Unwatched(Watched(Memory, p), q), O, leaked)
      BY <1>1, <1>3, <2>1, RewatchBalances DEF N0, W0
    <2>3. Heap(Unwatched(Memory, q), N0, Minus(W1, p.counter), O, leaked)
      <3>1. Num(wk2, WeakPtrs) = Plus(Minus(W0, Held(q)), Held(Gone))
        BY <1>1, NumAfterWatch DEF W0
      <3>2. Heap(Unwatched(Memory, q), N0, Num(wk2, WeakPtrs), O, leaked)
        BY <1>1, <2>1, UnwatchBalances DEF Balanced, N0
      <3> HIDE DEF W1, p, q, wk2
      <3>3. Plus(Minus(W0, Held(q)), Held(Gone)) = Minus(W0, Held(q))
        BY HeldType DEF Plus, Minus
      <3> QED BY <1>6, <3>1, <3>2, <3>3
    <2>4. Balanced(shared, [weak EXCEPT ![w] = p, ![u] = Empty], Unwatched(Memory, q), O, leaked)
      BY <1>1, <1>2, <2>2, <2>3, MoveWatchBalances DEF N0
    <2> QED BY <1>2, <2>1, <2>4, CallEnds DEF IInv
  <1> QED BY <1>7, <1>8

LEMMA StutterStep == ASSUME IInv, UNCHANGED vars PROVE IInv'
  BY DEF vars, IInv, Memory

LEMMA InitIInv == Init => IInv
  <1> SUFFICES ASSUME Init PROVE IInv
    OBVIOUS
  <1> DEFINE O == [c \in Counters |-> Null]
  <1>1. N0 \in [Counters -> Nat] /\ W0 \in [Counters -> Nat]
    BY NumbersType DEF N0, W0
  <1>2. /\ \A x \in SharedPtrs : Held(shared[x]) \notin Counters
        /\ \A w \in WeakPtrs : Held(weak[w]) \notin Counters
    BY HeldType DEF Init
  <1>3. \A c \in Counters : ~(N0[c] > 0) /\ ~(W0[c] > 0)
    BY <1>2, NumType, RoomAssumption DEF N0, W0
  <1>4. Allocated(N0, W0) = {} /\ OwnedStrings(N0, O) = {}
    BY <1>1, <1>3 DEF Allocated, OwnedStrings
  <1>5. Heap(Memory, N0, W0, O, leaked)
    BY <1>4 DEF Init, Heap, Memory
  <1>6. Typed(shared, weak, O, leaked)
    BY DEF Init, Typed
  <1>7. Distinct(N0, O, leaked) /\ PairsAgree(shared, weak, N0, O)
    BY <1>3, NamesAssumption DEF Init, Distinct, PairsAgree
  <1>8. IsFiniteSet(leaked) /\ Cardinality(leaked) <= MaxLeaked
    BY FS_EmptySet, RoomAssumption DEF Init
  <1> QED BY <1>5, <1>6, <1>7, <1>8 DEF IInv, Balanced, N0, W0

LEMMA NextIInv == IInv /\ [Next]_vars => IInv'
  <1> SUFFICES ASSUME IInv, [Next]_vars PROVE IInv'
    OBVIOUS
  <1>1. CASE UNCHANGED vars
    BY <1>1, StutterStep
  <1>2. ASSUME NEW x \in SharedPtrs, NEW y \in SharedPtrs, MoveShared(x, y) \/ MoveAssignShared(x, y)
        PROVE  IInv'
    <2>1. CASE x = y
      BY <1>2, <2>1, StutterStep DEF MoveShared, MoveAssignShared, Live, vars
    <2> QED BY <1>2, <2>1, MoveStep, MoveAssignStep
  <1>3. ASSUME NEW w \in WeakPtrs, NEW u \in WeakPtrs, MoveWeak(w, u) \/ MoveAssignWeak(w, u)
        PROVE  IInv'
    <2>1. CASE w = u
      BY <1>3, <2>1, StutterStep DEF MoveWeak, MoveAssignWeak, vars
    <2> QED BY <1>3, <2>1, MoveWatchStep
  <1> QED BY <1>1, <1>2, <1>3, ConstructStep, DestroyStep, ResetStep, ThrowStep, CopyStep,
             CopyAssignStep, LockStep, LockAssignStep, WatchStep DEF Next

LEMMA Invariance == Spec => []IInv
  BY InitIInv, NextIInv, PTL DEF Spec

-----------------------------------------------------------------------------
LEMMA CountedSets ==
  ASSUME NEW O, Balanced(shared, weak, Memory, O, leaked), NEW c \in Counters
  PROVE  /\ SharedBy(c) = By(shared, SharedPtrs, c) /\ WatchedBy(c) = By(weak, WeakPtrs, c)
         /\ N0[c] = Cardinality(SharedBy(c)) /\ W0[c] = Cardinality(WatchedBy(c))
         /\ (N0[c] = 0 => SharedBy(c) = {}) /\ (W0[c] = 0 => WatchedBy(c) = {})
  <1>1. SharedBy(c) = By(shared, SharedPtrs, c)
    BY NamesAssumption DEF SharedBy, By, Live, Held
  <1>2. WatchedBy(c) = By(weak, WeakPtrs, c)
    BY NamesAssumption DEF WatchedBy, By, Held, Balanced, Typed, Pointers
  <1>3. N0[c] = Cardinality(By(shared, SharedPtrs, c)) /\ W0[c] = Cardinality(By(weak, WeakPtrs, c))
    BY DEF N0, W0, Num
  <1>4. IsFiniteSet(By(shared, SharedPtrs, c)) /\ IsFiniteSet(By(weak, WeakPtrs, c))
    BY ByFinite, RoomAssumption
  <1> QED BY <1>1, <1>2, <1>3, <1>4, FS_EmptySet

(* No counter, and else no string, leaks or is deleted twice or too early, *)
(* whatever number of SharedPtrs and WeakPtrs is copied, moved, assigned,  *)
(* reset and destroyed in whatever order.                                  *)
THEOREM OwnershipKept == Spec => []OwnershipExact
  <1>1. ASSUME IInv PROVE OwnershipExact
    <2>1. PICK O : Balanced(shared, weak, Memory, O, leaked)
      BY <1>1 DEF IInv
    <2>2. /\ Typed(shared, weak, O, leaked) /\ PairsAgree(shared, weak, N0, O)
          /\ Distinct(N0, O, leaked) /\ Heap(Memory, N0, W0, O, leaked)
      BY <2>1 DEF Balanced, N0, W0
    <2>3. N0 \in [Counters -> Nat] /\ W0 \in [Counters -> Nat]
      BY NumbersType DEF N0, W0
    <2>4. /\ counter = [c \in Allocated(N0, W0) |-> [strong |-> N0[c], weak |-> W0[c]]]
          /\ strings = leaked \cup OwnedStrings(N0, O)
      BY <2>2 DEF Heap, Memory
    <2>5. TypeOK
      BY <2>2, <2>3, <2>4 DEF TypeOK, Typed, Allocated, OwnedStrings
    <2>6. CountsExact
      <3>1. \A c \in Counters : N0[c] = Cardinality(SharedBy(c)) /\ W0[c] = Cardinality(WatchedBy(c))
        BY <2>1, CountedSets
      <3>2. \A c \in DOMAIN counter : c \in Counters /\ counter[c].strong = N0[c] /\ counter[c].weak = W0[c]
        BY <2>4 DEF Allocated
      <3>3. ASSUME NEW c \in Counters \ DOMAIN counter PROVE N0[c] = 0 /\ W0[c] = 0
        <4>1. c \in Counters /\ c \notin Allocated(N0, W0)
          BY <2>4
        <4>2. N0[c] \in Nat /\ W0[c] \in Nat /\ ~(N0[c] + W0[c] > 0)
          BY <2>3, <4>1 DEF Allocated
        <4> QED BY <4>2
      <3> QED BY <2>1, <2>5, <3>1, <3>2, <3>3, CountedSets DEF CountsExact
    <2>7. \A x \in Live : /\ shared[x].counter \in Counters \cup {Null} /\ MayOwn(shared[x], N0, O)
                          /\ shared[x].counter = Null => shared[x].obj = Null
      BY <2>1, <2>2, OwnedPair, HeldType DEF Live, N0, PairsAgree, Empty
    <2>8. \A x \in Live : shared[x].obj # Null =>
            /\ shared[x].counter \in Counters /\ N0[shared[x].counter] > 0
            /\ shared[x].obj = O[shared[x].counter]
      BY <2>7 DEF MayOwn, Empty
    <2>9. strings \ leaked = {shared[x].obj : x \in Live} \ {Null}
      <3>1. OwnedStrings(N0, O) = {shared[x].obj : x \in Live} \ {Null}
        <4>1. ASSUME NEW c \in Counters, N0[c] > 0 PROVE \E x \in Live : shared[x].obj = O[c]
          <5>1. PICK x \in SharedPtrs : Held(shared[x]) = c
            BY <4>1, NumType, RoomAssumption DEF N0
          <5>2. x \in Live /\ shared[x].counter = c /\ c # Null
            BY <5>1, HeldType DEF Live, Held
          <5> QED BY <2>2, <5>2 DEF PairsAgree, Live
        <4> QED BY <2>8, <4>1 DEF OwnedStrings
      <3>2. OwnedStrings(N0, O) \cap leaked = {}
        BY <2>2 DEF OwnedStrings, Distinct
      <3> QED BY <2>4, <3>1, <3>2
    <2>10. \A x, y \in Live : shared[x].obj # Null =>
             (shared[x].obj = shared[y].obj <=> shared[x].counter = shared[y].counter)
      <3> SUFFICES ASSUME NEW x \in Live, NEW y \in Live, shared[x].obj # Null
                   PROVE  shared[x].obj = shared[y].obj <=> shared[x].counter = shared[y].counter
        OBVIOUS
      <3>1. CASE shared[x].obj = shared[y].obj
        BY <2>2, <2>8, <3>1 DEF Distinct
      <3>2. CASE shared[x].counter = shared[y].counter
        <4>1. shared[y].counter # Null /\ shared[y].obj = O[shared[y].counter]
          BY <2>2, <2>8, <3>2, HeldType DEF PairsAgree, Live
        <4> QED BY <2>8, <3>2, <4>1
      <3> QED BY <3>1, <3>2
    <2> QED BY <2>6, <2>9, <2>10 DEF OwnershipExact, StringsOwned
  <1> QED BY <1>1, Invariance, PTL

-----------------------------------------------------------------------------
(* The abstract state: who owns and who watches which object. *)
Owns == [x \in SharedPtrs |-> Held(shared[x])]

Watches == [w \in WeakPtrs |-> Held(weak[w])]

Alive == {c \in DOMAIN counter : counter[c].strong > 0}

LEMMA AliveIsOwned == IInv => Alive = Ownership!Owned
  <1> SUFFICES ASSUME IInv PROVE Alive = Ownership!Owned
    OBVIOUS
  <1>1. PICK O : Balanced(shared, weak, Memory, O, leaked)
    BY DEF IInv
  <1>2. N0 \in [Counters -> Nat] /\ W0 \in [Counters -> Nat]
    BY NumbersType DEF N0, W0
  <1>3. counter = [c \in Allocated(N0, W0) |-> [strong |-> N0[c], weak |-> W0[c]]]
    BY <1>1 DEF Balanced, Heap, Memory, N0, W0
  <1>4. Alive = {c \in Counters : N0[c] > 0}
    BY <1>2, <1>3 DEF Alive, Allocated
  <1>5. \A c \in Counters : N0[c] > 0 <=> \E x \in SharedPtrs : Held(shared[x]) = c
    BY NumType, RoomAssumption DEF N0
  <1> QED BY <1>4, <1>5 DEF Ownership!Owned

LEMMA AliveIsOwnedNext == IInv' => (Alive = Ownership!Owned)'
  BY AliveIsOwned, PTL

LEMMA AbstractStep ==
  ASSUME IInv, IInv',
         \/ \E x \in SharedPtrs : Ownership!Construct(x) \/ Ownership!Assign(x) \/ Ownership!Destroy(x)
         \/ \E w \in WeakPtrs : Ownership!Watch(w)
  PROVE  Ownership!Next
  BY AliveIsOwnedNext DEF Ownership!Next, Alive

LEMMA AbstractStutter ==
  ASSUME IInv, IInv', UNCHANGED <<shared, weak>>
  PROVE  UNCHANGED Ownership!vars
  BY AliveIsOwned, AliveIsOwnedNext DEF Ownership!vars, Ownership!Owned, Alive

LEMMA HeldNames ==
  /\ Held(Gone) = Gone /\ Held(Lost) = Lost /\ Held(Empty) = Null
  /\ \A p \in Pointers : Held(p) = p.counter /\ Held(p) \notin {Gone, Lost}
  BY NamesAssumption, HeldType DEF Held

LEMMA OwnerChanges ==
  ASSUME IInv, NEW x \in SharedPtrs, NEW p, shared' = [shared EXCEPT ![x] = p]
  PROVE  Owns' = [Owns EXCEPT ![x] = Held(p)]
  <1>1. /\ shared'[x] = p
        /\ \A y \in SharedPtrs \ {x} : shared'[y] = shared[y]
    BY DEF IInv, Balanced, Typed
  <1>2. \A y \in SharedPtrs : Held(shared'[y]) = IF y = x THEN Held(p) ELSE Held(shared[y])
    BY <1>1
  <1> QED BY <1>2 DEF Owns

LEMMA TwoOwnersChange ==
  ASSUME IInv, NEW x \in SharedPtrs, NEW y \in SharedPtrs, x # y, NEW p,
         shared' = [shared EXCEPT ![x] = p, ![y] = Empty]
  PROVE  Owns' = [Owns EXCEPT ![x] = Held(p), ![y] = Null]
  <1>1. /\ shared'[x] = p /\ shared'[y] = Empty
        /\ \A z \in SharedPtrs \ {x, y} : shared'[z] = shared[z]
    BY DEF IInv, Balanced, Typed
  <1>2. ASSUME NEW z \in SharedPtrs
        PROVE  Held(shared'[z]) = IF z = y THEN Null ELSE IF z = x THEN Held(p) ELSE Held(shared[z])
    <2>1. CASE z = y
      BY <1>1, <2>1, HeldNames
    <2>2. CASE z = x /\ z # y
      BY <1>1, <2>2
    <2>3. CASE z \notin {x, y}
      <3>1. z # x /\ z # y /\ shared'[z] = shared[z]
        BY <1>1, <2>3
      <3> QED BY <3>1
    <2> QED BY <2>1, <2>2, <2>3
  <1> QED BY <1>2 DEF Owns

LEMMA WatcherChanges ==
  ASSUME IInv, NEW w \in WeakPtrs, NEW p, weak' = [weak EXCEPT ![w] = p]
  PROVE  Watches' = [Watches EXCEPT ![w] = Held(p)]
  <1>1. /\ weak'[w] = p
        /\ \A u \in WeakPtrs \ {w} : weak'[u] = weak[u]
    BY DEF IInv, Balanced, Typed
  <1>2. \A u \in WeakPtrs : Held(weak'[u]) = IF u = w THEN Held(p) ELSE Held(weak[u])
    BY <1>1
  <1> QED BY <1>2 DEF Watches

LEMMA TwoWatchersChange ==
  ASSUME IInv, NEW w \in WeakPtrs, NEW u \in WeakPtrs, w # u, NEW p,
         weak' = [weak EXCEPT ![w] = p, ![u] = Empty]
  PROVE  Watches' = [Watches EXCEPT ![w] = Held(p), ![u] = Null]
  <1>1. /\ weak'[w] = p /\ weak'[u] = Empty
        /\ \A z \in WeakPtrs \ {w, u} : weak'[z] = weak[z]
    BY DEF IInv, Balanced, Typed
  <1>2. ASSUME NEW z \in WeakPtrs
        PROVE  Held(weak'[z]) = IF z = u THEN Null ELSE IF z = w THEN Held(p) ELSE Held(weak[z])
    <2>1. CASE z = u
      BY <1>1, <2>1, HeldNames
    <2>2. CASE z = w /\ z # u
      BY <1>1, <2>2
    <2>3. CASE z \notin {w, u}
      <3>1. z # w /\ z # u /\ weak'[z] = weak[z]
        BY <1>1, <2>3
      <3> QED BY <3>1
    <2> QED BY <2>1, <2>2, <2>3
  <1> QED BY <1>2 DEF Watches

LEMMA LiveOwner ==
  ASSUME IInv, NEW x \in Live
  PROVE  x \in Ownership!Live /\ Owns[x] = Held(shared[x])
  BY OwnedPair, HeldNames DEF IInv, Live, Ownership!Live, Owns

LEMMA LiveWatcher ==
  ASSUME IInv, NEW w \in WeakPtrs, weak[w] # Gone
  PROVE  Watches[w] # Gone /\ Watches[w] = Held(weak[w])
  BY WatchedPair, HeldNames DEF IInv, Watches

LEMMA LockIsLocked ==
  ASSUME IInv, NEW w \in WeakPtrs, weak[w] # Gone
  PROVE  Held(Lock(weak[w])) = Ownership!Locked(w)
  <1> DEFINE p == weak[w]
  <1>1. PICK O : Balanced(shared, weak, Memory, O, leaked)
    BY DEF IInv
  <1>2. N0 \in [Counters -> Nat] /\ W0 \in [Counters -> Nat]
    BY NumbersType DEF N0, W0
  <1>3. counter = [c \in Allocated(N0, W0) |-> [strong |-> N0[c], weak |-> W0[c]]]
    BY <1>1 DEF Balanced, Heap, Memory, N0, W0
  <1>4. /\ p \in Pointers /\ Held(p) = p.counter /\ p.counter \in Counters \cup {Null} /\ Null \notin Counters
        /\ p.counter \in Counters => W0[p.counter] > 0
    BY <1>1, WatchedPair, HeldType DEF W0
  <1>5. Ownership!Locked(w) = IF p.counter \in Alive THEN p.counter ELSE Null
    BY <1>4 DEF Ownership!Locked, Alive
  <1> HIDE DEF p
  <1>6. p.counter \in Counters => p.counter \in Allocated(N0, W0) /\ counter[p.counter].strong = N0[p.counter]
    BY <1>2, <1>3, <1>4 DEF Allocated
  <1>7. Allocated(N0, W0) \subseteq Counters
    BY DEF Allocated
  <1>8. p.counter \in Alive <=> ~IsExpired(p)
    BY <1>2, <1>3, <1>4, <1>6, <1>7 DEF Alive, IsExpired
  <1>9. Held(Lock(p)) = IF IsExpired(p) THEN Null ELSE p.counter
    BY <1>4, HeldNames DEF Lock
  <1> QED BY <1>5, <1>8, <1>9 DEF p

(* A counter that new returns belongs to nobody. *)
LEMMA NewCounter ==
  ASSUME NEW sh, NEW wk, NEW m, NEW O, NEW lk, Balanced(sh, wk, m, O, lk), NEW s
  PROVE  \E c \in Counters :
           /\ Counted(m, s).pair = [obj |-> s, counter |-> c]
           /\ \A y \in SharedPtrs : Held(sh[y]) # c
           /\ \A w \in WeakPtrs : Held(wk[w]) # c
  <1> DEFINE c == CHOOSE c \in Counters : c \notin DOMAIN m.counter
             N == Num(sh, SharedPtrs)
             W == Num(wk, WeakPtrs)
  <1>1. Counted(m, s).pair = [obj |-> s, counter |-> c]
    BY DEF Counted
  <1>2. c \in Counters /\ c \notin DOMAIN m.counter
    BY CounterRoom
  <1> HIDE DEF c
  <1>3. DOMAIN m.counter = Allocated(N, W)
    BY DEF Balanced, Heap
  <1>4. N[c] \in Nat /\ W[c] \in Nat
    BY <1>2, NumbersType
  <1>5. ~(N[c] > 0) /\ ~(W[c] > 0)
    <2> HIDE DEF N, W
    <2> QED BY <1>2, <1>3, <1>4 DEF Allocated
  <1> QED BY <1>1, <1>2, <1>5, NumType, RoomAssumption

LEMMA MadeCounter ==
  ASSUME IInv, NEW x \in SharedPtrs, NEW s \in RawPointers,
         \/ shared' = [shared EXCEPT ![x] = Counted(WithString(Memory, s), s).pair]
         \/ /\ x \in Live
            /\ shared' = [shared EXCEPT ![x] = Counted(Released(WithString(Memory, s), shared[x]), s).pair]
  PROVE  \E c \in Counters :
           /\ Owns' = [Owns EXCEPT ![x] = c]
           /\ \A y \in SharedPtrs \ {x} : Owns[y] # c
           /\ \A w \in WeakPtrs : Watches[w] # c
  <1>1. PICK O : Balanced(shared, weak, Memory, O, leaked)
    BY DEF IInv
  <1>2. /\ s \in Strings \cup {Null}
        /\ Balanced(shared, weak, WithString(Memory, s), O, leaked \cup ({s} \ {Null}))
    BY <1>1, NewString DEF IInv
  <1>3. \E m : /\ shared' = [shared EXCEPT ![x] = Counted(m, s).pair]
               /\ \E sh, lk : /\ Balanced(sh, weak, m, O, lk)
                              /\ \A y \in SharedPtrs \ {x} : sh[y] = shared[y]
    <2>1. CASE shared' = [shared EXCEPT ![x] = Counted(WithString(Memory, s), s).pair]
      BY <1>2, <2>1
    <2>2. CASE /\ x \in Live
               /\ shared' = [shared EXCEPT ![x] = Counted(Released(WithString(Memory, s), shared[x]), s).pair]
      <3>1. Balanced([shared EXCEPT ![x] = Gone], weak, Released(WithString(Memory, s), shared[x]),
                     O, leaked \cup ({s} \ {Null}))
        BY <1>2, <2>2, ReleaseBalances DEF Live
      <3>2. \A y \in SharedPtrs \ {x} : [shared EXCEPT ![x] = Gone][y] = shared[y]
        BY <1>1 DEF Balanced, Typed
      <3> QED BY <2>2, <3>1, <3>2
    <2> QED BY <2>1, <2>2
  <1>4. PICK m, sh, lk : /\ shared' = [shared EXCEPT ![x] = Counted(m, s).pair]
                         /\ Balanced(sh, weak, m, O, lk)
                         /\ \A y \in SharedPtrs \ {x} : sh[y] = shared[y]
    BY <1>3
  <1>5. PICK c \in Counters : /\ Counted(m, s).pair = [obj |-> s, counter |-> c]
                              /\ \A y \in SharedPtrs : Held(sh[y]) # c
                              /\ \A w \in WeakPtrs : Held(weak[w]) # c
    BY <1>4, NewCounter
  <1>6. [obj |-> s, counter |-> c] \in Pointers /\ Held([obj |-> s, counter |-> c]) = c
    BY <1>2, HeldType DEF Pointers
  <1>7. Owns' = [Owns EXCEPT ![x] = c]
    <2> DEFINE p == [obj |-> s, counter |-> c]
    <2>1. shared' = [shared EXCEPT ![x] = p] /\ Held(p) = c
      BY <1>4, <1>5, <1>6
    <2> HIDE DEF p
    <2>2. Owns' = [Owns EXCEPT ![x] = Held(p)]
      BY <2>1, OwnerChanges
    <2> QED BY <2>1, <2>2
  <1> QED BY <1>4, <1>5, <1>7 DEF Owns, Watches

LEMMA ConstructRefines ==
  ASSUME IInv, NEW x \in SharedPtrs,
         \/ ConstructShared(x)
         \/ \E y \in SharedPtrs : CopyShared(x, y) \/ MoveShared(x, y)
         \/ \E w \in WeakPtrs : LockShared(x, w)
  PROVE  Ownership!Construct(x)
  <1>1. shared[x] = Gone /\ UNCHANGED weak
    BY DEF ConstructShared, CopyShared, MoveShared, LockShared, SetShared
  <1>2. Owns[x] = Gone /\ Watches' = Watches
    BY <1>1, HeldNames DEF Owns, Watches
  <1>3. CASE SetShared(x, Empty, Memory)
    <2>1. Owns' = [Owns EXCEPT ![x] = Null]
      BY <1>3, OwnerChanges, HeldNames DEF SetShared
    <2> QED BY <1>2, <2>1 DEF Ownership!Construct, Owns, Watches
  <1>4. ASSUME NEW s \in RawPointers,
               shared' = [shared EXCEPT ![x] = Counted(WithString(Memory, s), s).pair]
        PROVE  Ownership!Construct(x)
    <2>1. PICK c \in Counters : /\ Owns' = [Owns EXCEPT ![x] = c]
                                /\ \A y \in SharedPtrs \ {x} : Owns[y] # c
                                /\ \A w \in WeakPtrs : Watches[w] # c
      BY <1>4, MadeCounter
    <2>2. c \in Ownership!Fresh
      BY <1>2, <2>1, NamesAssumption DEF Ownership!Fresh, Ownership!Owned, Owns, Watches
    <2> QED BY <1>2, <2>1, <2>2 DEF Ownership!Construct, Owns, Watches
  <1>5. ASSUME NEW y \in SharedPtrs, CopyShared(x, y)
        PROVE  Ownership!Construct(x)
    <2>1. y \in Live /\ shared' = [shared EXCEPT ![x] = shared[y]]
      BY <1>5 DEF CopyShared, SetShared
    <2>2. Owns' = [Owns EXCEPT ![x] = Held(shared[y])]
      BY <2>1, OwnerChanges
    <2>3. y \in Ownership!Live /\ Owns[y] = Held(shared[y])
      BY <2>1, LiveOwner
    <2> QED BY <1>2, <2>2, <2>3 DEF Ownership!Construct, Owns, Watches
  <1>6. ASSUME NEW y \in SharedPtrs, MoveShared(x, y)
        PROVE  Ownership!Construct(x)
    <2>1. x # y /\ y \in Live /\ shared' = [shared EXCEPT ![x] = shared[y], ![y] = Empty]
      BY <1>6 DEF MoveShared, Live
    <2>2. Owns' = [Owns EXCEPT ![x] = Held(shared[y]), ![y] = Null]
      BY <2>1, TwoOwnersChange
    <2>3. y \in Ownership!Live /\ Owns[y] = Held(shared[y])
      BY <2>1, LiveOwner
    <2> QED BY <1>2, <2>2, <2>3 DEF Ownership!Construct, Owns, Watches
  <1>7. ASSUME NEW w \in WeakPtrs, LockShared(x, w)
        PROVE  Ownership!Construct(x)
    <2>1. weak[w] # Gone /\ Watches[w] # Gone
      BY <1>7, LiveWatcher DEF LockShared
    <2>2. shared' = [shared EXCEPT ![x] = Lock(weak[w])]
      BY <1>7 DEF LockShared, SetShared
    <2>3. Owns' = [Owns EXCEPT ![x] = Held(Lock(weak[w]))]
      BY <2>2, OwnerChanges
    <2>4. Held(Lock(weak[w])) = Ownership!Locked(w)
      BY <2>1, LockIsLocked
    <2> QED BY <1>2, <2>1, <2>3, <2>4 DEF Ownership!Construct, Owns, Watches
  <1>8. CASE ConstructShared(x)
    BY <1>3, <1>4, <1>8 DEF ConstructShared, SetShared
  <1> QED BY <1>5, <1>6, <1>7, <1>8

LEMMA AssignRefines ==
  ASSUME IInv, NEW x \in SharedPtrs,
         \/ ResetShared(x)
         \/ \E y \in SharedPtrs : CopyAssignShared(x, y) \/ (x # y /\ MoveAssignShared(x, y))
         \/ \E w \in WeakPtrs : LockAssign(x, w)
  PROVE  Ownership!Assign(x)
  <1>1. x \in Live /\ UNCHANGED weak
    BY DEF ResetShared, CopyAssignShared, MoveAssignShared, LockAssign, SetShared
  <1>2. x \in Ownership!Live /\ Watches' = Watches
    BY <1>1, LiveOwner DEF Watches
  <1>3. CASE ResetShared(x)
    <2>1. PICK s \in RawPointers :
            shared' = [shared EXCEPT ![x] = Counted(Released(WithString(Memory, s), shared[x]), s).pair]
      BY <1>3 DEF ResetShared, SetShared
    <2>2. PICK c \in Counters : /\ Owns' = [Owns EXCEPT ![x] = c]
                                /\ \A y \in SharedPtrs \ {x} : Owns[y] # c
                                /\ \A w \in WeakPtrs : Watches[w] # c
      BY <1>1, <2>1, MadeCounter
    <2> QED BY <1>2, <2>2 DEF Ownership!Assign, Owns, Watches
  <1>4. ASSUME NEW y \in SharedPtrs, CopyAssignShared(x, y)
        PROVE  Ownership!Assign(x)
    <2>1. y \in Live /\ shared' = [shared EXCEPT ![x] = shared[y]]
      BY <1>4 DEF CopyAssignShared, SetShared
    <2>2. Owns' = [Owns EXCEPT ![x] = Held(shared[y])]
      BY <2>1, OwnerChanges
    <2>3. y \in Ownership!Live /\ Owns[y] = Held(shared[y])
      BY <2>1, LiveOwner
    <2> QED BY <1>2, <2>2, <2>3 DEF Ownership!Assign, Owns, Watches
  <1>5. ASSUME NEW y \in SharedPtrs, x # y, MoveAssignShared(x, y)
        PROVE  Ownership!Assign(x)
    <2>1. y \in Ownership!Live /\ Owns' = [Owns EXCEPT ![x] = Owns[y], ![y] = Null]
      BY <1>5, LiveOwner, TwoOwnersChange DEF MoveAssignShared
    <2> QED BY <1>2, <1>5, <2>1 DEF Ownership!Assign, Owns, Watches
  <1>6. ASSUME NEW w \in WeakPtrs, LockAssign(x, w)
        PROVE  Ownership!Assign(x)
    <2>1. weak[w] # Gone /\ Watches[w] # Gone
      BY <1>6, LiveWatcher DEF LockAssign
    <2>2. shared' = [shared EXCEPT ![x] = Lock(weak[w])]
      BY <1>6 DEF LockAssign, SetShared
    <2>3. Owns' = [Owns EXCEPT ![x] = Held(Lock(weak[w]))]
      BY <2>2, OwnerChanges
    <2>4. Held(Lock(weak[w])) = Ownership!Locked(w)
      BY <2>1, LockIsLocked
    <2> QED BY <1>2, <2>1, <2>3, <2>4 DEF Ownership!Assign, Owns, Watches
  <1> QED BY <1>3, <1>4, <1>5, <1>6

LEMMA DestroyRefines ==
  ASSUME IInv, NEW x \in SharedPtrs, DestroyShared(x) \/ ResetThrows(x)
  PROVE  Ownership!Destroy(x)
  <1>1. x \in Live /\ UNCHANGED weak
    BY DEF DestroyShared, ResetThrows, SetShared
  <1>2. x \in Ownership!Live /\ Watches' = Watches
    BY <1>1, LiveOwner DEF Watches
  <1>3. PICK v \in {Gone, Lost} : shared' = [shared EXCEPT ![x] = v]
    BY DEF DestroyShared, ResetThrows, SetShared
  <1>4. Owns' = [Owns EXCEPT ![x] = v]
    BY <1>3, OwnerChanges, HeldNames
  <1> QED BY <1>2, <1>4 DEF Ownership!Destroy, Owns, Watches

LEMMA WatchRefines ==
  ASSUME IInv, NEW w \in WeakPtrs,
         \/ ConstructWeak(w) \/ DestroyWeak(w) \/ CopyAssignWeak(w) \/ ResetWeak(w)
         \/ \E u \in WeakPtrs : w # u /\ (MoveWeak(w, u) \/ MoveAssignWeak(w, u))
  PROVE  Ownership!Watch(w)
  <1>1. UNCHANGED shared /\ Owns' = Owns
    BY DEF ConstructWeak, DestroyWeak, CopyAssignWeak, ResetWeak, MoveWeak, MoveAssignWeak,
           SetWeak, Owns
  <1>2. ASSUME NEW p \in {Empty, Gone} \cup Watchable, weak' = [weak EXCEPT ![w] = p]
        PROVE  Ownership!Watch(w)
    <2>1. Watches' = [Watches EXCEPT ![w] = Held(p)]
      BY <1>2, WatcherChanges
    <2>2. CASE p \in {Empty, Gone}
      BY <1>1, <2>1, <2>2, HeldNames DEF Ownership!Watch, Owns, Watches
    <2>3. ASSUME NEW u \in WeakPtrs, p = weak[u], p # Gone PROVE Ownership!Watch(w)
      <3>1. Watches[u] # Gone /\ Watches' = [Watches EXCEPT ![w] = Watches[u]]
        BY <2>1, <2>3, LiveWatcher
      <3> QED BY <1>1, <3>1 DEF Ownership!Watch, Owns, Watches
    <2>4. ASSUME NEW x \in Live, p = shared[x] PROVE Ownership!Watch(w)
      <3>1. x \in SharedPtrs /\ x \in Ownership!Live /\ Watches' = [Watches EXCEPT ![w] = Owns[x]]
        BY <2>1, <2>4, LiveOwner DEF Live
      <3> QED BY <1>1, <3>1 DEF Ownership!Watch, Owns, Watches
    <2> QED BY <1>2, <2>2, <2>3, <2>4 DEF Watchable
  <1>3. ASSUME NEW u \in WeakPtrs, w # u, MoveWeak(w, u) \/ MoveAssignWeak(w, u)
        PROVE  Ownership!Watch(w)
    <2>1. weak[u] # Gone /\ weak' = [weak EXCEPT ![w] = weak[u], ![u] = Empty]
      BY <1>3 DEF MoveWeak, MoveAssignWeak
    <2>2. Watches' = [Watches EXCEPT ![w] = Held(weak[u]), ![u] = Null]
      BY <1>3, <2>1, TwoWatchersChange
    <2>3. Watches[u] # Gone /\ Watches[u] = Held(weak[u])
      BY <2>1, LiveWatcher
    <2> QED BY <1>1, <1>3, <2>2, <2>3 DEF Ownership!Watch, Owns, Watches
  <1>4. CASE ConstructWeak(w) \/ DestroyWeak(w) \/ CopyAssignWeak(w) \/ ResetWeak(w)
    BY <1>2, <1>4 DEF ConstructWeak, DestroyWeak, CopyAssignWeak, ResetWeak, SetWeak
  <1> QED BY <1>3, <1>4

LEMMA StepRefines ==
  ASSUME IInv, IInv', [Next]_vars
  PROVE  [Ownership!Next]_(Ownership!vars)
  <1>1. CASE UNCHANGED <<shared, weak>>
    BY <1>1, AbstractStutter
  <1>2. ASSUME NEW x \in SharedPtrs,
               Ownership!Construct(x) \/ Ownership!Assign(x) \/ Ownership!Destroy(x)
        PROVE  Ownership!Next
    BY <1>2, AbstractStep
  <1>3. ASSUME NEW w \in WeakPtrs, Ownership!Watch(w)
        PROVE  Ownership!Next
    BY <1>3, AbstractStep
  <1>4. ASSUME NEW x \in SharedPtrs, NEW y \in SharedPtrs, MoveAssignShared(x, y), x = y
        PROVE  UNCHANGED <<shared, weak>>
    BY <1>4 DEF MoveAssignShared
  <1>5. ASSUME NEW w \in WeakPtrs, NEW u \in WeakPtrs, MoveWeak(w, u) \/ MoveAssignWeak(w, u), w = u
        PROVE  UNCHANGED <<shared, weak>>
    BY <1>5 DEF MoveWeak, MoveAssignWeak
  <1>6. ASSUME NEW x \in SharedPtrs, ConstructThrows(x)
        PROVE  UNCHANGED <<shared, weak>>
    BY <1>6 DEF ConstructThrows
  <1>7. CASE UNCHANGED vars
    BY <1>1, <1>7 DEF vars
  <1> QED BY <1>1, <1>2, <1>3, <1>4, <1>5, <1>6, <1>7, ConstructRefines, AssignRefines,
             DestroyRefines, WatchRefines DEF Next

LEMMA InitRefines == Init => Ownership!Init
  <1> SUFFICES ASSUME Init PROVE Ownership!Init
    OBVIOUS
  <1>1. Owns = [x \in SharedPtrs |-> Gone] /\ Watches = [w \in WeakPtrs |-> Gone]
    BY HeldNames DEF Init, Owns, Watches
  <1>2. Alive = {}
    BY DEF Init, Alive
  <1> QED BY <1>1, <1>2 DEF Ownership!Init, Owns, Watches, Alive

(* Through any sequence of copies, moves, assignments, locks and failures  *)
(* of new the pointers are owners and observers of objects: one that is    *)
(* alive stays so while it is owned, and an expired WeakPtr gives nobody   *)
(* anything any more.                                                      *)
THEOREM OwnershipRefinement == Spec => ImplementsOwnership
  BY InitRefines, StepRefines, Invariance, PTL DEF Spec, ImplementsOwnership, Ownership!Spec

-----------------------------------------------------------------------------
(* Vector: the objects constructed, their headers and the arrays. *)
With(vs) == {d \in Objects : vs[d] # NoObject}

(* The array of a vector with the header h. *)
Holds(ar, h) ==
  /\ h \in Vectors!Headers
  /\ h.elements \in DOMAIN ar
  /\ ar[h.elements] \in Seq(Vectors!Cells)
  /\ Len(ar[h.elements]) = h.capacity
  /\ h.size <= h.capacity
  /\ \A i \in 1..h.size : ar[h.elements][i] \in Values

VectorsSound(ar, vs) ==
  /\ DOMAIN ar \subseteq ArrayAddresses
  /\ vs \in [Objects -> Vectors!Headers \cup {NoObject}]
  /\ \A d \in With(vs) : Holds(ar, vs[d])
  /\ \A d, e \in With(vs) : vs[d].elements = vs[e].elements => d = e
  /\ \A a \in DOMAIN ar : \E d \in With(vs) : vs[d].elements = a

At(vs, i, d, n) == n \in 0..vs[d].size /\ i = <<vs[d].elements, n>>

IteratorGood(vs, i) == i = Nil \/ \E d \in With(vs) : \E n \in Nat : At(vs, i, d, n)

VectorInv == VectorsSound(array, vector) /\ IteratorGood(vector, cellIt)

(* The iterator after a step that leaves the vectors vs. *)
Kept(vs, i) ==
  IF i # Nil /\ \E d \in With(vs) : vs[d].elements = i[1] /\ i[2] <= vs[d].size THEN i ELSE Nil

(* d has the header h and the array of h, the others have what they had.   *)
Replaced(ar, vs, br, ws, d, h) ==
  /\ ws = [vs EXCEPT ![d] = h]
  /\ Holds(br, h)
  /\ DOMAIN br = {h.elements} \cup {vs[e].elements : e \in With(vs) \ {d}}
  /\ \A e \in With(vs) \ {d} : /\ vs[e].elements # h.elements
                               /\ br[vs[e].elements] = ar[vs[e].elements]

Sets(vs, ws, d, h) ==
  /\ ws \in [Objects -> Vectors!Headers \cup {NoObject}]
  /\ ws[d] = h /\ h \in Vectors!Headers
  /\ \A e \in Objects \ {d} : ws[e] = vs[e]
  /\ With(ws) = With(vs) \cup {d}

LEMMA HeaderNotGone == NoObject \notin Vectors!Headers
  BY VectorNames DEF Vectors!NamesAssumption

LEMMA WithType ==
  ASSUME NEW ar, NEW vs, VectorsSound(ar, vs), NEW d \in With(vs)
  PROVE  /\ d \in Objects /\ vs[d] \in Vectors!Headers /\ vs[d].elements \in DOMAIN ar
         /\ vs[d].elements \in ArrayAddresses /\ vs[d].size \in Nat /\ vs[d].capacity \in Nat
         /\ Holds(ar, vs[d])
  BY DEF VectorsSound, With, Holds, Vectors!Headers

ArraysIn(vs) == {vs[d].elements : d \in With(vs)}

LEMMA ArraysOf ==
  ASSUME NEW ar, NEW vs, VectorsSound(ar, vs)
  PROVE  DOMAIN ar = ArraysIn(vs)
  <1>1. \A d \in With(vs) : vs[d].elements \in DOMAIN ar
    BY WithType
  <1>2. \A a \in DOMAIN ar : a \in {vs[d].elements : d \in With(vs)}
    BY DEF VectorsSound
  <1> QED BY <1>1, <1>2 DEF ArraysIn

LEMMA ReplacedPointwise ==
  ASSUME NEW ar, NEW vs, VectorsSound(ar, vs), NEW br, NEW ws, NEW d \in Objects, NEW h,
         Replaced(ar, vs, br, ws, d, h)
  PROVE  Sets(vs, ws, d, h)
  BY HeaderNotGone DEF Replaced, VectorsSound, With, Holds, Sets

LEMMA ReplacedSound ==
  ASSUME NEW ar, NEW vs, VectorsSound(ar, vs), NEW br, NEW ws, NEW d \in Objects, NEW h,
         Replaced(ar, vs, br, ws, d, h)
  PROVE  VectorsSound(br, ws)
  <1>0. Sets(vs, ws, d, h)
    BY ReplacedPointwise, Zenon
  <1>1. /\ ws \in [Objects -> Vectors!Headers \cup {NoObject}]
        /\ ws[d] = h /\ h \in Vectors!Headers
        /\ \A e \in Objects \ {d} : ws[e] = vs[e]
        /\ With(ws) = With(vs) \cup {d}
    BY <1>0 DEF Sets
  <1>2. ASSUME NEW e \in With(vs), e # d
        PROVE  /\ Holds(br, ws[e]) /\ ws[e] = vs[e]
               /\ ws[e].elements # h.elements /\ ws[e].elements \in DOMAIN br
    <2>1. Holds(ar, vs[e]) /\ ws[e] = vs[e]
      BY <1>1, <1>2, WithType
    <2>2. vs[e].elements # h.elements /\ br[vs[e].elements] = ar[vs[e].elements]
      BY <1>2 DEF Replaced
    <2>3. vs[e].elements \in DOMAIN br
      BY <1>2 DEF Replaced
    <2> QED BY <2>1, <2>2, <2>3 DEF Holds
  <1>3. DOMAIN br \subseteq ArrayAddresses
    <2>1. h.elements \in ArrayAddresses
      BY <1>1 DEF Vectors!Headers
    <2> QED BY <2>1, WithType DEF Replaced
  <1>4. \A e \in With(ws) : Holds(br, ws[e])
    BY <1>1, <1>2 DEF Replaced
  <1>5. ASSUME NEW e \in With(ws), NEW g \in With(ws), ws[e].elements = ws[g].elements
        PROVE  e = g
    <2>1. CASE e = d \/ g = d
      BY <2>1, <1>1, <1>2, <1>5
    <2>2. CASE e # d /\ g # d
      <3>1. e \in With(vs) /\ g \in With(vs) /\ vs[e].elements = vs[g].elements
        BY <2>2, <1>1, <1>2, <1>5
      <3> QED BY <3>1 DEF VectorsSound
    <2> QED BY <2>1, <2>2
  <1>6. ASSUME NEW a \in DOMAIN br PROVE \E e \in With(ws) : ws[e].elements = a
    <2>1. CASE a = h.elements
      BY <2>1, <1>1
    <2>2. CASE \E e \in With(vs) \ {d} : a = vs[e].elements
      BY <2>2, <1>1, <1>2
    <2>3. a = h.elements \/ \E e \in With(vs) \ {d} : a = vs[e].elements
      BY <1>6 DEF Replaced
    <2> QED BY <2>1, <2>2, <2>3
  <1> QED BY <1>1, <1>3, <1>4, <1>5, <1>6 DEF VectorsSound

LEMMA KeptGood ==
  ASSUME NEW ar, NEW vs, VectorsSound(ar, vs), NEW ws, NEW br, VectorsSound(br, ws),
         NEW i, IteratorGood(vs, i)
  PROVE  IteratorGood(ws, Kept(ws, i))
  <1>1. CASE i # Nil /\ \E d \in With(ws) : ws[d].elements = i[1] /\ i[2] <= ws[d].size
    <2>1. PICK d \in With(ws) : ws[d].elements = i[1] /\ i[2] <= ws[d].size
      BY <1>1
    <2>2. PICK e \in With(vs), n \in Nat : At(vs, i, e, n)
      BY <1>1 DEF IteratorGood
    <2>3. i = <<vs[e].elements, n>> /\ i[1] = vs[e].elements /\ i[2] = n
      BY <2>2 DEF At
    <2>4. ws[d].size \in Nat
      BY WithType
    <2>5. At(ws, i, d, n)
      BY <2>1, <2>3, <2>4 DEF At
    <2> QED BY <1>1, <2>5 DEF Kept, IteratorGood
  <1> QED BY <1>1 DEF Kept, IteratorGood

(* d is not there any more, nor is its array. *)
LEMMA DroppedSound ==
  ASSUME NEW ar, NEW vs, VectorsSound(ar, vs), NEW br, NEW ws, NEW d \in With(vs),
         ws = [vs EXCEPT ![d] = NoObject],
         DOMAIN br = DOMAIN ar \ {vs[d].elements},
         \A a \in DOMAIN br : br[a] = ar[a]
  PROVE  VectorsSound(br, ws) /\ With(ws) = With(vs) \ {d}
  <1>1. /\ ws \in [Objects -> Vectors!Headers \cup {NoObject}]
        /\ ws[d] = NoObject
        /\ \A e \in Objects \ {d} : ws[e] = vs[e]
        /\ With(ws) = With(vs) \ {d}
    BY DEF VectorsSound, With
  <1>2. ASSUME NEW e \in With(ws) PROVE Holds(br, ws[e]) /\ ws[e] = vs[e]
    <2>1. Holds(ar, vs[e]) /\ ws[e] = vs[e] /\ e \in With(vs) /\ e # d
      BY <1>1, WithType DEF With
    <2>2. vs[e].elements # vs[d].elements
      BY <2>1 DEF VectorsSound
    <2> QED BY <2>1, <2>2 DEF Holds
  <1>3. \A e, g \in With(ws) : ws[e].elements = ws[g].elements => e = g
    BY <1>1, <1>2 DEF VectorsSound
  <1>4. ASSUME NEW a \in DOMAIN br PROVE \E e \in With(ws) : ws[e].elements = a
    <2>1. a \in DOMAIN ar /\ a # vs[d].elements
      OBVIOUS
    <2>2. PICK e \in With(vs) : vs[e].elements = a
      BY <2>1 DEF VectorsSound
    <2> QED BY <2>1, <2>2, <1>1, <1>2
  <1> QED BY <1>1, <1>2, <1>3, <1>4 DEF VectorsSound

Exchanged(vs, ws, d, e) ==
  /\ With(ws) = With(vs) /\ ws[d] = vs[e] /\ ws[e] = vs[d]
  /\ \A g \in Objects \ {d, e} : ws[g] = vs[g]

LEMMA SwappedSound ==
  ASSUME NEW ar, NEW vs, VectorsSound(ar, vs), NEW d \in With(vs), NEW e \in With(vs), NEW ws,
         ws = [vs EXCEPT ![d] = vs[e], ![e] = vs[d]]
  PROVE  VectorsSound(ar, ws) /\ Exchanged(vs, ws, d, e)
  <1>1. /\ ws \in [Objects -> Vectors!Headers \cup {NoObject}]
        /\ ws[d] = vs[e] /\ ws[e] = vs[d] /\ \A g \in Objects \ {d, e} : ws[g] = vs[g]
        /\ With(ws) = With(vs)
    BY DEF VectorsSound, With
  <1>2. \A g \in With(ws) : Holds(ar, ws[g])
    BY <1>1, WithType
  <1>3. \A f, g \in With(ws) : ws[f].elements = ws[g].elements => f = g
    BY <1>1 DEF VectorsSound, With
  <1>4. ASSUME NEW a \in DOMAIN ar PROVE \E g \in With(ws) : ws[g].elements = a
    <2>1. PICK g \in With(vs) : vs[g].elements = a
      BY DEF VectorsSound
    <2>2. CASE g = d
      BY <2>1, <2>2, <1>1
    <2>3. CASE g = e
      BY <2>1, <2>3, <1>1
    <2>4. CASE g # d /\ g # e
      <3>1. ws[g] = vs[g]
        BY <2>4, <1>1 DEF With
      <3> QED BY <3>1, <2>1, <1>1
    <2> QED BY <2>2, <2>3, <2>4
  <1> QED BY <1>1, <1>2, <1>3, <1>4 DEF VectorsSound, Exchanged

(* There is always room for one more array. *)
LEMMA ArrayRoom ==
  ASSUME NEW ar, NEW vs, VectorsSound(ar, vs)
  PROVE  Vectors!Fresh(ar) \in ArrayAddresses /\ Vectors!Fresh(ar) \notin DOMAIN ar
  <1>1. \E a \in ArrayAddresses : a \notin DOMAIN ar
    <2> SUFFICES ASSUME \A a \in ArrayAddresses : a \in DOMAIN ar PROVE FALSE
      OBVIOUS
    <2> DEFINE f == [d \in Objects |-> vs[d].elements]
               A == {f[d] : d \in Objects}
    <2>1. ArrayAddresses \subseteq A
      BY DEF VectorsSound, With
    <2> HIDE DEF A, f
    <2>2. /\ IsFiniteSet(A) /\ Cardinality(A) \in Nat /\ Cardinality(Objects) \in Nat
          /\ Cardinality(A) <= Cardinality(Objects)
      BY ImageSize, VectorRoom DEF A
    <2>3. IsFiniteSet(ArrayAddresses) /\ Cardinality(ArrayAddresses) <= Cardinality(A)
      BY <2>1, <2>2, FS_Subset
    <2>4. Cardinality(ArrayAddresses) \in Nat
      BY <2>3, FS_CardinalityType
    <2> QED BY <2>2, <2>3, <2>4, VectorRoom
  <1> QED BY <1>1 DEF Vectors!Fresh

-----------------------------------------------------------------------------
(* The arrays br are ar with one more, that of the header h. *)
Adds(ar, br, h, cells) ==
  /\ h \in Vectors!Headers
  /\ h.elements \notin DOMAIN ar
  /\ DOMAIN br = DOMAIN ar \cup {h.elements}
  /\ br[h.elements] = cells
  /\ \A a \in DOMAIN ar : br[a] = ar[a]

LEMMA NewAdds ==
  ASSUME NEW ar, NEW vs, VectorsSound(ar, vs), NEW cells \in Seq(Vectors!Cells)
  PROVE  LET m == Vectors!New(ar, cells) IN
           /\ Adds(ar, m.array, Vectors!Header(m), cells)
           /\ Vectors!Header(m).size = Len(cells) /\ Vectors!Header(m).capacity = Len(cells)
           /\ m.elements = Vectors!Header(m).elements
  <1>1. Len(cells) \in Nat
    OBVIOUS
  <1> QED BY <1>1, ArrayRoom DEF Vectors!New, Vectors!Header, Adds, Vectors!Headers

(* d, which may have had an array that is freed, gets the new one. *)
LEMMA AddsReplaces ==
  ASSUME NEW ar, NEW vs, VectorsSound(ar, vs), NEW br, NEW cr, NEW ws, NEW d \in Objects, NEW h,
         NEW cells \in Seq(Vectors!Cells), Adds(ar, br, h, cells),
         h.capacity = Len(cells), h.size <= h.capacity,
         \A i \in 1..h.size : cells[i] \in Values,
         ws = [vs EXCEPT ![d] = h],
         DOMAIN cr = DOMAIN br \ (IF d \in With(vs) THEN {vs[d].elements} ELSE {}),
         \A a \in DOMAIN cr : cr[a] = br[a]
  PROVE  Replaced(ar, vs, cr, ws, d, h)
  <1>1. \A e \in With(vs) : vs[e].elements \in DOMAIN ar /\ vs[e].elements # h.elements
    BY WithType DEF Adds
  <1>2. DOMAIN cr = {h.elements} \cup {vs[e].elements : e \in With(vs) \ {d}}
    <2>1. DOMAIN ar = ArraysIn(vs)
      BY ArraysOf
    <2>2. \A e \in With(vs) \ {d} : d \in With(vs) => vs[e].elements # vs[d].elements
      BY DEF VectorsSound
    <2>3. CASE d \in With(vs)
      <3>1. DOMAIN cr = (DOMAIN ar \cup {h.elements}) \ {vs[d].elements}
        BY <2>3 DEF Adds
      <3> QED BY <1>1, <2>1, <2>2, <2>3, <3>1 DEF ArraysIn
    <2>4. CASE d \notin With(vs)
      <3>1. DOMAIN cr = DOMAIN ar \cup {h.elements}
        BY <2>4 DEF Adds
      <3> QED BY <1>1, <2>1, <2>4, <3>1 DEF ArraysIn
    <2> QED BY <2>3, <2>4
  <1>3. Holds(cr, h)
    <2>1. h.elements \in DOMAIN cr
      BY <1>2
    <2>2. cr[h.elements] = cells
      BY <2>1 DEF Adds
    <2> QED BY <2>1, <2>2 DEF Holds, Adds
  <1>4. \A e \in With(vs) \ {d} : cr[vs[e].elements] = ar[vs[e].elements]
    BY <1>1, <1>2 DEF Adds
  <1> QED BY <1>1, <1>2, <1>3, <1>4 DEF Replaced

(* The array of d changes in place. *)
LEMMA ChangedReplaces ==
  ASSUME NEW ar, NEW vs, VectorsSound(ar, vs), NEW br, NEW ws, NEW d \in With(vs), NEW h,
         ws = [vs EXCEPT ![d] = h], h.elements = vs[d].elements, Holds(br, h),
         DOMAIN br = DOMAIN ar, \A a \in DOMAIN ar \ {h.elements} : br[a] = ar[a]
  PROVE  Replaced(ar, vs, br, ws, d, h)
  <1>1. \A e \in With(vs) \ {d} : vs[e].elements # h.elements /\ vs[e].elements \in DOMAIN ar
    BY WithType DEF VectorsSound
  <1>2. DOMAIN ar = ArraysIn(vs)
    BY ArraysOf
  <1> QED BY <1>1, <1>2 DEF Replaced, ArraysIn

-----------------------------------------------------------------------------
(* What a step does to the vectors.                                        *)
Reads(ar, h) == SubSeq(ar[h.elements], 1, h.size)

(* d gets another array. *)
Reallocated(d, s, c) ==
  \E h : /\ Replaced(array, vector, array', vector', d, h)
         /\ h.elements \notin DOMAIN array
         /\ Reads(array', h) = s /\ h.capacity = c
         /\ cellIt' = Kept(vector', cellIt)

(* d keeps its array and its capacity. *)
Changed(d, s) ==
  \E h : /\ d \in With(vector)
         /\ Replaced(array, vector, array', vector', d, h)
         /\ h.elements = vector[d].elements
         /\ Reads(array', h) = s /\ h.capacity = vector[d].capacity
         /\ cellIt' = Kept(vector', cellIt)

(* d gets an empty array, and then the two are exchanged. *)
Moved(d, e) ==
  \E us, h : /\ Replaced(array, vector, array', us, d, h)
             /\ h.elements \notin DOMAIN array /\ h.size = 0 /\ h.capacity = 0
             /\ e \in With(vector) /\ d # e
             /\ vector' = [us EXCEPT ![d] = us[e], ![e] = us[d]]
             /\ cellIt' = Kept(vector', cellIt)

LEMMA ReadsType ==
  ASSUME NEW ar, NEW h, Holds(ar, h)
  PROVE  /\ Reads(ar, h) \in Seq(Values) /\ Len(Reads(ar, h)) = h.size
         /\ \A i \in 1..h.size : Reads(ar, h)[i] = ar[h.elements][i]
  <1> DEFINE c == ar[h.elements]
  <1>1. c \in Seq(Vectors!Cells) /\ h.size \in Nat /\ h.size <= Len(c)
    BY DEF Holds, Vectors!Headers
  <1>2. \A i \in 1..h.size : c[i] \in Values
    BY DEF Holds
  <1> HIDE DEF c
  <1>3. Len(SubSeq(c, 1, h.size)) = h.size /\ \A i \in 1..h.size : SubSeq(c, 1, h.size)[i] = c[i]
    BY <1>1
  <1>4. SubSeq(c, 1, h.size) \in Seq(Values)
    BY <1>1, <1>2
  <1> QED BY <1>3, <1>4 DEF Reads, c

LEMMA ReadsAll ==
  ASSUME NEW ar, NEW h, NEW s \in Seq(Vectors!Cells), ar[h.elements] = s, h.size = Len(s)
  PROVE  Reads(ar, h) = s
  BY DEF Reads

LEMMA ElementsRead ==
  ASSUME VectorInv, NEW d \in With(vector)
  PROVE  /\ Vectors!Elements(d) = Reads(array, vector[d])
         /\ Vectors!Elements(d) \in Seq(Values) /\ Len(Vectors!Elements(d)) = vector[d].size
         /\ vector[d].size \in Nat /\ vector[d].capacity \in Nat
         /\ vector[d].size <= vector[d].capacity
         /\ \A i \in 1..vector[d].size : Vectors!Elements(d)[i] = array[vector[d].elements][i]
  <1>1. Holds(array, vector[d]) /\ vector[d].size \in Nat /\ vector[d].capacity \in Nat
    BY WithType DEF VectorInv
  <1>2. Vectors!Elements(d) = Reads(array, vector[d])
    BY DEF Vectors!Elements, Reads
  <1>3. vector[d].size <= vector[d].capacity
    BY <1>1 DEF Holds
  <1> QED BY <1>1, <1>2, <1>3, ReadsType

LEMMA IteratorIsKept ==
  Vectors!IteratorKept => cellIt' = Kept(vector', cellIt)
  BY DEF Vectors!IteratorKept, Kept, With, Vectors!Constructed

LEMMA IteratorStays ==
  ASSUME VectorInv, vector' = vector, cellIt' = cellIt
  PROVE  cellIt' = Kept(vector', cellIt)
  <1>1. CASE cellIt = Nil
    BY <1>1 DEF Kept
  <1>2. CASE cellIt # Nil
    <2>1. PICK d \in With(vector), n \in Nat : At(vector, cellIt, d, n)
      BY <1>2 DEF VectorInv, IteratorGood
    <2>2. vector[d].elements = cellIt[1] /\ cellIt[2] <= vector[d].size
      BY <2>1, WithType DEF At, VectorInv
    <2> QED BY <1>2, <2>2 DEF Kept
  <1> QED BY <1>1, <1>2

LEMMA SeqCells ==
  ASSUME NEW s \in Seq(Values)
  PROVE  s \in Seq(Vectors!Cells)
  BY DEF Vectors!Cells

LEMMA NewReallocates ==
  ASSUME VectorInv, NEW d \in Objects, NEW s \in Seq(Values), NEW m, m = Vectors!New(array, s),
         vector' = [vector EXCEPT ![d] = Vectors!Header(m)],
         DOMAIN array' = DOMAIN m.array \ (IF d \in With(vector) THEN {vector[d].elements} ELSE {}),
         \A a \in DOMAIN array' : array'[a] = m.array[a],
         Vectors!IteratorKept
  PROVE  Reallocated(d, s, Len(s))
  <1> DEFINE h == Vectors!Header(m)
  <1>0. s \in Seq(Vectors!Cells) /\ Len(s) \in Nat
    BY SeqCells
  <1>1. Adds(array, m.array, h, s) /\ h.size = Len(s) /\ h.capacity = Len(s)
    BY <1>0, NewAdds DEF VectorInv
  <1> HIDE DEF h
  <1>2. Replaced(array, vector, array', vector', d, h)
    <2>1. vector' = [vector EXCEPT ![d] = h]
      BY DEF h
    <2>2. \A i \in 1..h.size : s[i] \in Values
      BY <1>1
    <2>3. h.capacity = Len(s) /\ h.size <= h.capacity
      BY <1>0, <1>1
    <2>4. VectorsSound(array, vector)
      BY DEF VectorInv
    <2> QED BY <2>1, <2>2, <2>3, <2>4, <1>0, <1>1, AddsReplaces
  <1>3. h.elements \notin DOMAIN array
    BY <1>1 DEF Adds
  <1>4. Reads(array', h) = s
    <2>1. h.elements \in DOMAIN array'
      BY <1>2 DEF Replaced
    <2>2. array'[h.elements] = s
      BY <2>1, <1>1 DEF Adds
    <2> QED BY <2>2, <1>0, <1>1, ReadsAll
  <1>5. cellIt' = Kept(vector', cellIt)
    BY IteratorIsKept
  <1> QED BY <1>1, <1>2, <1>3, <1>4, <1>5 DEF Reallocated

LEMMA VectorConstructStep ==
  ASSUME VectorInv, NEW d \in Objects, Vectors!Construct(d)
  PROVE  d \notin With(vector) /\ \E s \in Seq(Values) : Reallocated(d, s, Len(s))
  <1>1. d \notin With(vector)
    BY DEF Vectors!Construct, Vectors!Constructed, With
  <1>2. ASSUME NEW s \in Seq(Values), Vectors!Becomes(d, Vectors!New(array, s))
        PROVE  Reallocated(d, s, Len(s))
    <2> DEFINE m == Vectors!New(array, s)
    <2>1. /\ array' = m.array /\ vector' = [vector EXCEPT ![d] = Vectors!Header(m)]
          /\ Vectors!IteratorKept
      BY <1>2 DEF Vectors!Becomes
    <2> HIDE DEF m
    <2>2. m = Vectors!New(array, s)
      BY DEF m
    <2>3. DOMAIN array' = DOMAIN m.array \ (IF d \in With(vector) THEN {vector[d].elements} ELSE {})
      BY <2>1, <1>1
    <2>4. \A a \in DOMAIN array' : array'[a] = m.array[a]
      BY <2>1
    <2> QED BY <2>1, <2>2, <2>3, <2>4, NewReallocates
  <1>3. \A n \in 0..MaxSize : [i \in 1..n |-> 0] \in Seq(Values)
    BY VectorBounds DEF Vectors!BoundsAssumption
  <1>4. \A n \in 0..MaxSize : \A s \in [1..n -> Values] : s \in Seq(Values)
    BY VectorBounds DEF Vectors!BoundsAssumption
  <1>5. \A e \in Vectors!Constructed : Vectors!Elements(e) \in Seq(Values)
    BY ElementsRead DEF Vectors!Constructed, With
  <1>6. \E s \in Seq(Values) : Vectors!Becomes(d, Vectors!New(array, s))
    <2>1. CASE \E n \in 0..MaxSize : Vectors!Becomes(d, Vectors!New(array, [i \in 1..n |-> 0]))
      BY <2>1, <1>3, Zenon
    <2>2. CASE \E n \in 0..MaxSize : \E s \in [1..n -> Values] : Vectors!Becomes(d, Vectors!New(array, s))
      BY <2>2, <1>4, Zenon
    <2>3. CASE \E e \in Vectors!Constructed : Vectors!Becomes(d, Vectors!New(array, Vectors!Elements(e)))
      BY <2>3, <1>5, Zenon
    <2>4. QED
      BY <2>1, <2>2, <2>3, Zenon DEF Vectors!Construct
  <1> QED BY <1>1, <1>2, <1>6

LEMMA VectorCopyAssignStep ==
  ASSUME VectorInv, NEW d \in Objects, NEW e \in Objects, Vectors!CopyAssign(d, e)
  PROVE  /\ d \in With(vector) /\ e \in With(vector)
         /\ Reallocated(d, Vectors!Elements(e), Len(Vectors!Elements(e)))
  <1>1. d \in With(vector) /\ e \in With(vector)
    BY DEF Vectors!CopyAssign, Vectors!Constructed, With
  <1> DEFINE s == Vectors!Elements(e)
             m == Vectors!New(array, s)
  <1>2. s \in Seq(Values)
    BY <1>1, ElementsRead
  <1>3. /\ array' = Vectors!Freed(m.array, vector[d].elements)
        /\ vector' = [vector EXCEPT ![d] = Vectors!Header(m)]
        /\ Vectors!IteratorKept
    BY DEF Vectors!CopyAssign, Vectors!Becomes, Vectors!Header, Vectors!New
  <1> HIDE DEF s, m
  <1>4. m = Vectors!New(array, s)
    BY DEF m
  <1>5. DOMAIN array' = DOMAIN m.array \ (IF d \in With(vector) THEN {vector[d].elements} ELSE {})
    BY <1>1, <1>3 DEF Vectors!Freed, Vectors!Restrict
  <1>6. \A a \in DOMAIN array' : array'[a] = m.array[a]
    BY <1>3 DEF Vectors!Freed, Vectors!Restrict
  <1>7. Reallocated(d, s, Len(s))
    BY <1>2, <1>3, <1>4, <1>5, <1>6, NewReallocates
  <1> QED BY <1>1, <1>7 DEF s

(* A step that writes only to the array that d has. *)
LEMMA ChangesInPlace ==
  ASSUME VectorInv, NEW d \in With(vector), NEW h \in Vectors!Headers, NEW s \in Seq(Values),
         h.elements = vector[d].elements, h.capacity = vector[d].capacity,
         h.size = Len(s), h.size <= h.capacity,
         vector' = [vector EXCEPT ![d] = h],
         DOMAIN array' = DOMAIN array, \A a \in DOMAIN array \ {h.elements} : array'[a] = array[a],
         array'[h.elements] \in Seq(Vectors!Cells), Len(array'[h.elements]) = h.capacity,
         \A i \in 1..Len(s) : array'[h.elements][i] = s[i],
         cellIt' = Kept(vector', cellIt)
  PROVE  Changed(d, s)
  <1>1. VectorsSound(array, vector)
    BY DEF VectorInv
  <1>2. h.elements \in DOMAIN array'
    BY <1>1, WithType
  <1>3. Holds(array', h)
    <2>1. \A i \in 1..h.size : array'[h.elements][i] \in Values
      OBVIOUS
    <2> QED BY <1>2, <2>1 DEF Holds
  <1>4. Replaced(array, vector, array', vector', d, h)
    BY <1>1, <1>3, ChangedReplaces
  <1>5. Reads(array', h) = s
    <2>1. /\ Reads(array', h) \in Seq(Values) /\ Len(Reads(array', h)) = Len(s)
          /\ \A i \in 1..Len(s) : Reads(array', h)[i] = s[i]
      BY <1>3, ReadsType
    <2> HIDE DEF Reads
    <2> QED BY <2>1
  <1> QED BY <1>4, <1>5 DEF Changed

(* The header of a vector in memory that only has another size. *)
LEMMA SizeStep ==
  ASSUME VectorInv, NEW d \in With(vector), NEW n \in 0..vector[d].size,
         Vectors!Becomes(d, [Vectors!Memory(d) EXCEPT !.size = n])
  PROVE  Changed(d, SubSeq(Vectors!Elements(d), 1, n))
  <1> DEFINE h == [elements |-> vector[d].elements, size |-> n, capacity |-> vector[d].capacity]
             s == SubSeq(Vectors!Elements(d), 1, n)
             c == array[vector[d].elements]
  <1>1. /\ vector[d] \in Vectors!Headers /\ vector[d].size \in Nat
        /\ Holds(array, vector[d]) /\ VectorsSound(array, vector)
    BY WithType DEF VectorInv
  <1>2. array' = array /\ vector' = [vector EXCEPT ![d] = h] /\ Vectors!IteratorKept
    BY DEF Vectors!Becomes, Vectors!Memory, Vectors!Header
  <1>3. h \in Vectors!Headers
    BY <1>1 DEF Vectors!Headers
  <1>4. /\ Vectors!Elements(d) \in Seq(Values) /\ Len(Vectors!Elements(d)) = vector[d].size
        /\ \A i \in 1..vector[d].size : Vectors!Elements(d)[i] = c[i]
        /\ vector[d].size <= vector[d].capacity /\ vector[d].capacity \in Nat
    BY ElementsRead
  <1>5. s \in Seq(Values) /\ Len(s) = n /\ \A i \in 1..n : s[i] = c[i]
    BY <1>1, <1>4
  <1>6. c \in Seq(Vectors!Cells) /\ Len(c) = vector[d].capacity
    BY <1>1 DEF Holds
  <1>7. h.elements = vector[d].elements /\ h.capacity = vector[d].capacity /\ h.size = n
    OBVIOUS
  <1>8. n <= vector[d].capacity
    BY <1>4
  <1>9. cellIt' = Kept(vector', cellIt)
    BY <1>2, IteratorIsKept
  <1> HIDE DEF h, s
  <1>10. Changed(d, s)
    BY <1>2, <1>3, <1>5, <1>6, <1>7, <1>8, <1>9, ChangesInPlace
  <1> QED BY <1>10 DEF s

LEMMA VectorPopBackStep ==
  ASSUME VectorInv, NEW d \in Objects, Vectors!PopBack(d)
  PROVE  /\ d \in With(vector)
         /\ \E n \in 0..vector[d].size : /\ n = IF vector[d].size > 0 THEN vector[d].size - 1 ELSE 0
                                         /\ Changed(d, SubSeq(Vectors!Elements(d), 1, n))
  <1> DEFINE n == IF vector[d].size > 0 THEN vector[d].size - 1 ELSE 0
  <1>1. d \in With(vector)
    BY DEF Vectors!PopBack, Vectors!Constructed, With
  <1>2. vector[d].size \in Nat
    BY <1>1, WithType DEF VectorInv
  <1>3. n \in 0..vector[d].size
    BY <1>2
  <1>4. [Vectors!Memory(d) EXCEPT !.size = IF @ > 0 THEN @ - 1 ELSE 0]
          = [Vectors!Memory(d) EXCEPT !.size = n]
    BY DEF Vectors!Memory
  <1>5. Vectors!Becomes(d, [Vectors!Memory(d) EXCEPT !.size = IF @ > 0 THEN @ - 1 ELSE 0])
    BY DEF Vectors!PopBack
  <1> HIDE DEF n
  <1>6. Vectors!Becomes(d, [Vectors!Memory(d) EXCEPT !.size = n])
    BY <1>4, <1>5
  <1>7. Changed(d, SubSeq(Vectors!Elements(d), 1, n))
    BY <1>1, <1>3, <1>6, SizeStep
  <1> QED BY <1>1, <1>3, <1>7 DEF n

LEMMA VectorClearStep ==
  ASSUME VectorInv, NEW d \in Objects, Vectors!Clear(d)
  PROVE  d \in With(vector) /\ Changed(d, SubSeq(Vectors!Elements(d), 1, 0))
  <1>1. d \in With(vector) /\ Vectors!Becomes(d, [Vectors!Memory(d) EXCEPT !.size = 0])
    BY DEF Vectors!Clear, Vectors!Constructed, With
  <1>2. 0 \in 0..vector[d].size
    BY <1>1, WithType DEF VectorInv
  <1> QED BY <1>1, <1>2, SizeStep

(* operator[] *)
LEMMA VectorModifyStep ==
  ASSUME VectorInv, NEW d \in Objects, NEW i \in 1..MaxSize, NEW v \in Values, Vectors!Modify(d, i, v)
  PROVE  /\ d \in With(vector) /\ i \in 1..vector[d].size
         /\ Changed(d, [Vectors!Elements(d) EXCEPT ![i] = v])
  <1> DEFINE h == vector[d]
             s == [Vectors!Elements(d) EXCEPT ![i] = v]
             c == array[h.elements]
  <1>1. /\ d \in With(vector) /\ i <= vector[d].size
        /\ array' = [array EXCEPT ![h.elements] = [c EXCEPT ![i] = v]]
        /\ vector' = vector /\ cellIt' = cellIt
    BY DEF Vectors!Modify, Vectors!Constructed, With
  <1>2. /\ vector[d] \in Vectors!Headers /\ vector[d].size \in Nat /\ vector[d].elements \in DOMAIN array
        /\ Holds(array, vector[d]) /\ VectorsSound(array, vector)
    BY <1>1, WithType DEF VectorInv
  <1>3. i \in 1..vector[d].size
    BY <1>1, <1>2, VectorBounds DEF Vectors!BoundsAssumption
  <1>4. /\ Vectors!Elements(d) \in Seq(Values) /\ Len(Vectors!Elements(d)) = vector[d].size
        /\ \A j \in 1..vector[d].size : Vectors!Elements(d)[j] = c[j]
        /\ vector[d].size <= vector[d].capacity /\ vector[d].capacity \in Nat
    BY <1>1, ElementsRead
  <1>5. c \in Seq(Vectors!Cells) /\ Len(c) = h.capacity
    BY <1>2 DEF Holds
  <1>6. v \in Vectors!Cells
    BY DEF Vectors!Cells
  <1>7. [c EXCEPT ![i] = v] \in Seq(Vectors!Cells) /\ Len([c EXCEPT ![i] = v]) = h.capacity
    BY <1>3, <1>4, <1>5, <1>6
  <1>8. array'[h.elements] = [c EXCEPT ![i] = v] /\ DOMAIN array' = DOMAIN array
        /\ \A a \in DOMAIN array \ {h.elements} : array'[a] = array[a]
    BY <1>1, <1>2
  <1>9. s \in Seq(Values) /\ Len(s) = h.size
    BY <1>3, <1>4
  <1>10. \A j \in 1..Len(s) : array'[h.elements][j] = s[j]
    BY <1>4, <1>5, <1>8, <1>9
  <1>11. vector' = [vector EXCEPT ![d] = h]
    BY <1>1, <1>2 DEF VectorsSound
  <1>12. cellIt' = Kept(vector', cellIt)
    BY <1>1, IteratorStays
  <1> HIDE DEF s, h, c
  <1>13. h.elements = vector[d].elements /\ h.capacity = vector[d].capacity /\ h.size <= h.capacity
         /\ h \in Vectors!Headers
    BY <1>2, <1>4 DEF h
  <1>14. array'[h.elements] \in Seq(Vectors!Cells) /\ Len(array'[h.elements]) = h.capacity
    BY <1>7, <1>8
  <1>15. Changed(d, s)
    BY <1>1, <1>8, <1>9, <1>10, <1>11, <1>12, <1>13, <1>14, ChangesInPlace
  <1> QED BY <1>1, <1>3, <1>15 DEF s

(* Reserve of d, with another array: m is the vector in memory. *)
Grown(d, n, m, b, cells) ==
  /\ cells \in Seq(Vectors!Cells) /\ Len(cells) = n
  /\ \A i \in 1..vector[d].size : cells[i] = Vectors!Elements(d)[i]
  /\ Adds(array, b, [elements |-> m.elements, size |-> vector[d].size, capacity |-> n], cells)
  /\ m = [array |-> Vectors!Freed(b, vector[d].elements), elements |-> m.elements,
          size |-> vector[d].size, capacity |-> n]

LEMMA ReservedAdds ==
  ASSUME VectorInv, NEW d \in With(vector), NEW n \in Nat, n > vector[d].capacity,
         NEW m, m = Vectors!Reserved(Vectors!Memory(d), n)
  PROVE  \E b, cells : Grown(d, n, m, b, cells)
  <1> DEFINE cells == [i \in 1..n |-> IF i <= vector[d].size THEN array[vector[d].elements][i] ELSE Junk]
             t == Vectors!New(array, cells)
             h == [elements |-> m.elements, size |-> vector[d].size, capacity |-> n]
  <1>1. VectorsSound(array, vector)
    BY DEF VectorInv
  <1>2. /\ vector[d].size \in Nat /\ vector[d].capacity \in Nat /\ vector[d].size <= vector[d].capacity
        /\ \A i \in 1..vector[d].size : Vectors!Elements(d)[i] = array[vector[d].elements][i]
        /\ \A i \in 1..vector[d].size : Vectors!Elements(d)[i] \in Values
    BY ElementsRead
  <1>3. cells \in Seq(Vectors!Cells) /\ Len(cells) = n
    <2>1. \A i \in 1..n : cells[i] \in Vectors!Cells
      BY <1>2 DEF Vectors!Cells
    <2> QED BY <2>1
  <1>4. \A i \in 1..vector[d].size : cells[i] = Vectors!Elements(d)[i]
    BY <1>2
  <1>5. m = [array |-> Vectors!Freed(t.array, vector[d].elements), elements |-> t.elements,
             size |-> vector[d].size, capacity |-> n]
    <2> DEFINE r == Vectors!Memory(d)
    <2>1. r = [array |-> array, elements |-> vector[d].elements,
               size |-> vector[d].size, capacity |-> vector[d].capacity]
      BY DEF Vectors!Memory
    <2>2. ~(n <= r.capacity) /\ r.array = array /\ r.elements = vector[d].elements
      BY <1>2, <2>1
    <2>3. cells = [i \in 1..n |-> IF i <= r.size THEN r.array[r.elements][i] ELSE Junk]
      BY <2>1
    <2> HIDE DEF r, cells
    <2>4. m = [r EXCEPT !.array = Vectors!Freed(t.array, r.elements),
                        !.elements = t.elements, !.capacity = n]
      BY <2>2, <2>3 DEF Vectors!Reserved, r
    <2> HIDE DEF t
    <2> QED BY <2>1, <2>4
  <1> HIDE DEF cells, t
  <1>6. Adds(array, t.array, Vectors!Header(t), cells) /\ t.elements = Vectors!Header(t).elements
    BY <1>1, <1>3, NewAdds DEF t
  <1>7. m.elements = t.elements /\ h.elements = t.elements
    BY <1>5
  <1>8. h \in Vectors!Headers
    BY <1>2, <1>6, <1>7 DEF Adds, Vectors!Headers
  <1>9. Adds(array, t.array, h, cells)
    BY <1>6, <1>7, <1>8 DEF Adds
  <1>10. Grown(d, n, m, t.array, cells)
    BY <1>3, <1>4, <1>5, <1>7, <1>9 DEF Grown
  <1> QED BY <1>10

LEMMA VectorReserveStep ==
  ASSUME VectorInv, NEW d \in Objects, NEW n \in Nat, Vectors!Reserve(d, n)
  PROVE  /\ d \in With(vector)
         /\ IF n <= vector[d].capacity THEN Changed(d, SubSeq(Vectors!Elements(d), 1, vector[d].size))
            ELSE Reallocated(d, Vectors!Elements(d), n)
  <1>1. d \in With(vector) /\ Vectors!Becomes(d, Vectors!Reserved(Vectors!Memory(d), n))
    BY DEF Vectors!Reserve, Vectors!Constructed, With
  <1>2. /\ vector[d].size \in Nat /\ vector[d].capacity \in Nat /\ vector[d].size <= vector[d].capacity
        /\ Vectors!Elements(d) \in Seq(Values) /\ Len(Vectors!Elements(d)) = vector[d].size
        /\ \A i \in 1..vector[d].size : Vectors!Elements(d)[i] \in Values
    BY <1>1, ElementsRead
  <1>3. CASE n <= vector[d].capacity
    <2>1. Vectors!Reserved(Vectors!Memory(d), n) = [Vectors!Memory(d) EXCEPT !.size = vector[d].size]
      BY <1>3 DEF Vectors!Reserved, Vectors!Memory
    <2>2. vector[d].size \in 0..vector[d].size
      BY <1>2
    <2> QED BY <1>1, <1>3, <2>1, <2>2, SizeStep
  <1>4. CASE ~(n <= vector[d].capacity)
    <2> DEFINE m == Vectors!Reserved(Vectors!Memory(d), n)
               h == [elements |-> m.elements, size |-> vector[d].size, capacity |-> n]
    <2>1. n > vector[d].capacity
      BY <1>2, <1>4
    <2>2. Vectors!Becomes(d, m)
      BY <1>1
    <2> HIDE DEF m
    <2>c. PICK b, cells : Grown(d, n, m, b, cells)
      BY <1>1, <2>1, ReservedAdds DEF m
    <2>3. /\ cells \in Seq(Vectors!Cells) /\ Len(cells) = n
          /\ \A i \in 1..vector[d].size : cells[i] = Vectors!Elements(d)[i]
          /\ Adds(array, b, h, cells)
          /\ m = [array |-> Vectors!Freed(b, vector[d].elements), elements |-> m.elements,
                  size |-> vector[d].size, capacity |-> n]
      BY <2>c DEF Grown
    <2>a. m.array = Vectors!Freed(b, vector[d].elements) /\ m.size = vector[d].size /\ m.capacity = n
      BY <2>3
    <2>b. Vectors!Header(m) = h
      BY <2>a DEF Vectors!Header
    <2>4. vector' = [vector EXCEPT ![d] = h] /\ Vectors!IteratorKept
      BY <2>2, <2>b DEF Vectors!Becomes
    <2>5. array' = Vectors!Freed(b, vector[d].elements)
      BY <2>2, <2>a DEF Vectors!Becomes
    <2>6. DOMAIN array' = DOMAIN b \ (IF d \in With(vector) THEN {vector[d].elements} ELSE {})
      BY <1>1, <2>5 DEF Vectors!Freed, Vectors!Restrict
    <2>7. \A a \in DOMAIN array' : array'[a] = b[a]
      BY <2>5 DEF Vectors!Freed, Vectors!Restrict
    <2>8. h.elements = m.elements /\ h.size = vector[d].size /\ h.capacity = n
      OBVIOUS
    <2> HIDE DEF h
    <2>9. Replaced(array, vector, array', vector', d, h)
      <3>1. VectorsSound(array, vector)
        BY DEF VectorInv
      <3>2. \A i \in 1..h.size : cells[i] \in Values
        BY <1>2, <2>3, <2>8
      <3>3. h.capacity = Len(cells) /\ h.size <= h.capacity /\ cells \in Seq(Vectors!Cells)
        BY <1>2, <2>1, <2>3, <2>8
      <3>4. Adds(array, b, h, cells)
        BY <2>3
      <3> QED BY <2>4, <2>6, <2>7, <3>1, <3>2, <3>3, <3>4, AddsReplaces
    <2>10. h.elements \notin DOMAIN array
      BY <2>3 DEF Adds
    <2>11. Reads(array', h) = Vectors!Elements(d)
      <3>1. h.elements \in DOMAIN array' /\ Holds(array', h)
        BY <2>9 DEF Replaced
      <3>2. array'[h.elements] = cells
        BY <2>3, <2>7, <3>1 DEF Adds
      <3>3. /\ Reads(array', h) \in Seq(Values) /\ Len(Reads(array', h)) = vector[d].size
            /\ \A i \in 1..vector[d].size : Reads(array', h)[i] = cells[i]
        BY <2>8, <3>1, <3>2, ReadsType
      <3>4. \A i \in 1..vector[d].size : Reads(array', h)[i] = Vectors!Elements(d)[i]
        BY <2>3, <3>3
      <3> QED BY <1>2, <3>3, <3>4
    <2>12. cellIt' = Kept(vector', cellIt)
      BY <2>4, IteratorIsKept
    <2>13. Reallocated(d, Vectors!Elements(d), n)
      BY <2>8, <2>9, <2>10, <2>11, <2>12 DEF Reallocated
    <2> QED BY <1>1, <1>4, <2>13
  <1> QED BY <1>1, <1>3, <1>4

(* PushBack, where there is room *)
LEMMA PushInPlaceStep ==
  ASSUME VectorInv, NEW d \in With(vector), NEW v \in Values, vector[d].size < vector[d].capacity,
         Vectors!Becomes(d, Vectors!PushedBack(Vectors!Memory(d), v))
  PROVE  Changed(d, Append(Vectors!Elements(d), v))
  <1> DEFINE n == vector[d].size + 1
             c == array[vector[d].elements]
             h == [elements |-> vector[d].elements, size |-> n, capacity |-> vector[d].capacity]
             s == Append(Vectors!Elements(d), v)
             m == Vectors!PushedBack(Vectors!Memory(d), v)
  <1>1. /\ vector[d] \in Vectors!Headers /\ vector[d].elements \in DOMAIN array
        /\ Holds(array, vector[d]) /\ VectorsSound(array, vector)
    BY WithType DEF VectorInv
  <1>2. /\ Vectors!Elements(d) \in Seq(Values) /\ Len(Vectors!Elements(d)) = vector[d].size
        /\ \A i \in 1..vector[d].size : Vectors!Elements(d)[i] = c[i]
        /\ vector[d].size \in Nat /\ vector[d].capacity \in Nat
    BY ElementsRead
  <1>3. c \in Seq(Vectors!Cells) /\ Len(c) = vector[d].capacity
    BY <1>1 DEF Holds
  <1>4. m = [array |-> [array EXCEPT ![vector[d].elements] = [c EXCEPT ![n] = v]],
             elements |-> vector[d].elements, size |-> n, capacity |-> vector[d].capacity]
    <2> DEFINE r == Vectors!Memory(d)
    <2>1. r = [array |-> array, elements |-> vector[d].elements, size |-> vector[d].size,
               capacity |-> vector[d].capacity]
      BY DEF Vectors!Memory
    <2>2. r.size < r.capacity
      BY <2>1
    <2> HIDE DEF r
    <2>3. m = [r EXCEPT !.array[r.elements][r.size + 1] = v, !.size = @ + 1]
      BY <2>2 DEF Vectors!PushedBack, r
    <2> QED BY <2>1, <2>3
  <1>5. m.array = [array EXCEPT ![vector[d].elements] = [c EXCEPT ![n] = v]] /\ Vectors!Header(m) = h
    BY <1>4 DEF Vectors!Header
  <1> HIDE DEF m
  <1>6. array' = m.array /\ vector' = [vector EXCEPT ![d] = h] /\ Vectors!IteratorKept
    BY <1>5 DEF Vectors!Becomes, m
  <1>7. n \in 1..vector[d].capacity
    BY <1>2
  <1>8. /\ array'[vector[d].elements] = [c EXCEPT ![n] = v] /\ DOMAIN array' = DOMAIN array
        /\ \A a \in DOMAIN array \ {vector[d].elements} : array'[a] = array[a]
    BY <1>1, <1>5, <1>6
  <1>9. v \in Vectors!Cells
    BY DEF Vectors!Cells
  <1> HIDE DEF c
  <1>10. [c EXCEPT ![n] = v] \in Seq(Vectors!Cells) /\ Len([c EXCEPT ![n] = v]) = vector[d].capacity
    BY <1>3, <1>7, <1>9
  <1>11. s \in Seq(Values) /\ Len(s) = n
    BY <1>2
  <1>12. \A i \in 1..n : [c EXCEPT ![n] = v][i] = s[i]
    BY <1>2, <1>3, <1>7
  <1>13. array'[vector[d].elements] \in Seq(Vectors!Cells) /\ Len(array'[vector[d].elements]) = vector[d].capacity
    BY <1>8, <1>10
  <1>14. \A i \in 1..Len(s) : array'[vector[d].elements][i] = s[i]
    BY <1>8, <1>11, <1>12
  <1>15. h \in Vectors!Headers
    BY <1>1, <1>2 DEF Vectors!Headers
  <1>16. h.elements = vector[d].elements /\ h.capacity = vector[d].capacity /\ h.size = n
    OBVIOUS
  <1>17. cellIt' = Kept(vector', cellIt)
    BY <1>6, IteratorIsKept
  <1>18. h.size = Len(s) /\ h.size <= h.capacity
    BY <1>7, <1>11
  <1> HIDE DEF h, s, n
  <1>19. /\ DOMAIN array' = DOMAIN array /\ \A a \in DOMAIN array \ {h.elements} : array'[a] = array[a]
         /\ array'[h.elements] \in Seq(Vectors!Cells) /\ Len(array'[h.elements]) = h.capacity
         /\ \A i \in 1..Len(s) : array'[h.elements][i] = s[i]
    BY <1>8, <1>13, <1>14, <1>16
  <1>20. vector' = [vector EXCEPT ![d] = h] /\ s \in Seq(Values)
    BY <1>6, <1>11
  <1>21. Changed(d, s)
    BY <1>15, <1>16, <1>17, <1>18, <1>19, <1>20, ChangesInPlace
  <1> QED BY <1>21 DEF s

LEMMA CellWritten ==
  ASSUME NEW S, NEW c \in Seq(S), NEW k \in 1..Len(c), NEW v \in S, NEW t, t = [c EXCEPT ![k] = v]
  PROVE  t \in Seq(S) /\ Len(t) = Len(c)
  OBVIOUS

(* PushBack, where there is none *)
LEMMA PushGrownStep ==
  ASSUME VectorInv, NEW d \in With(vector), NEW v \in Values,
         ~(vector[d].size < vector[d].capacity),
         Vectors!Becomes(d, Vectors!PushedBack(Vectors!Memory(d), v)),
         NEW n, n = IF vector[d].capacity = 0 THEN 1 ELSE 2 * vector[d].capacity
  PROVE  Reallocated(d, Append(Vectors!Elements(d), v), n)
  <1> DEFINE k == vector[d].size + 1
             r == Vectors!Reserved(Vectors!Memory(d), n)
             m == Vectors!PushedBack(Vectors!Memory(d), v)
             h == [elements |-> r.elements, size |-> k, capacity |-> n]
             s == Append(Vectors!Elements(d), v)
  <1>1. /\ Vectors!Elements(d) \in Seq(Values) /\ Len(Vectors!Elements(d)) = vector[d].size
        /\ \A i \in 1..vector[d].size : Vectors!Elements(d)[i] \in Values
        /\ vector[d].size \in Nat /\ vector[d].capacity \in Nat
        /\ vector[d].size <= vector[d].capacity
    BY ElementsRead
  <1>2. n \in Nat /\ n > vector[d].capacity /\ k \in 1..n
    BY <1>1
  <1>3. m = [r EXCEPT !.array[r.elements][r.size + 1] = v, !.size = @ + 1]
    BY DEF Vectors!PushedBack, Vectors!Memory
  <1>4. array' = m.array /\ vector' = [vector EXCEPT ![d] = Vectors!Header(m)] /\ Vectors!IteratorKept
    BY DEF Vectors!Becomes
  <1>r. r = Vectors!Reserved(Vectors!Memory(d), n)
    OBVIOUS
  <1> HIDE DEF m, r
  <1>g. PICK b, cells : Grown(d, n, r, b, cells)
    BY <1>2, <1>r, ReservedAdds
  <1>5. /\ cells \in Seq(Vectors!Cells) /\ Len(cells) = n
        /\ \A i \in 1..vector[d].size : cells[i] = Vectors!Elements(d)[i]
        /\ Adds(array, b, [elements |-> r.elements, size |-> vector[d].size, capacity |-> n], cells)
        /\ r = [array |-> Vectors!Freed(b, vector[d].elements), elements |-> r.elements,
                size |-> vector[d].size, capacity |-> n]
    BY <1>g DEF Grown
  <1> DEFINE f == Vectors!Freed(b, vector[d].elements)
             new == [cells EXCEPT ![k] = v]
             b2 == [b EXCEPT ![r.elements] = new]
  <1>6. r.array = f /\ r.size = vector[d].size /\ r.capacity = n
    BY <1>5
  <1>7. m.array = [f EXCEPT ![r.elements][k] = v] /\ m.size = k /\ m.elements = r.elements /\ m.capacity = n
    <2> DEFINE e == r.elements
    <2>1. r = [array |-> f, elements |-> e, size |-> vector[d].size, capacity |-> n]
      BY <1>5
    <2> HIDE DEF e, f
    <2>2. m = [array |-> [f EXCEPT ![e][k] = v], elements |-> e, size |-> k, capacity |-> n]
      BY <1>3, <2>1
    <2> QED BY <2>2 DEF e
  <1>8. Vectors!Header(m) = h
    BY <1>7 DEF Vectors!Header
  <1>9. /\ r.elements \notin DOMAIN array /\ DOMAIN b = DOMAIN array \cup {r.elements}
        /\ b[r.elements] = cells /\ \A a \in DOMAIN array : b[a] = array[a]
        /\ r.elements \in ArrayAddresses
    BY <1>5 DEF Adds, Vectors!Headers
  <1>10. h \in Vectors!Headers
    BY <1>2, <1>9 DEF Vectors!Headers
  <1>11. h.elements = r.elements /\ h.size = k /\ h.capacity = n
    OBVIOUS
  <1>12. Adds(array, b2, h, new)
    BY <1>9, <1>10 DEF Adds
  <1>13. vector[d].elements \in DOMAIN array /\ vector[d].elements # r.elements
    BY <1>9, WithType DEF VectorInv
  <1>14. DOMAIN f = DOMAIN b \ {vector[d].elements} /\ \A a \in DOMAIN f : f[a] = b[a]
    BY DEF Vectors!Freed, Vectors!Restrict
  <1> HIDE DEF f
  <1>15. r.elements \in DOMAIN f /\ f[r.elements] = cells
    BY <1>9, <1>13, <1>14
  <1>16. array' = [f EXCEPT ![r.elements] = new]
    BY <1>4, <1>7, <1>15
  <1>17. DOMAIN array' = DOMAIN b2 \ (IF d \in With(vector) THEN {vector[d].elements} ELSE {})
    BY <1>14, <1>16
  <1>18. \A a \in DOMAIN array' : array'[a] = b2[a]
    BY <1>14, <1>15, <1>16
  <1>19. v \in Vectors!Cells
    BY DEF Vectors!Cells
  <1>20. new \in Seq(Vectors!Cells) /\ Len(new) = n
    <2>1. cells \in Seq(Vectors!Cells) /\ Len(cells) = n
      BY <1>5
    <2>2. k \in 1..Len(cells)
      BY <2>1, <1>2
    <2>3. new = [cells EXCEPT ![k] = v]
      OBVIOUS
    <2> HIDE DEF new, k
    <2>4. new \in Seq(Vectors!Cells) /\ Len(new) = Len(cells)
      BY <2>1, <2>2, <2>3, <1>19, CellWritten
    <2> QED BY <2>1, <2>4
  <1>21. s \in Seq(Values) /\ Len(s) = k
    BY <1>1
  <1>22. \A i \in 1..k : new[i] = s[i]
    BY <1>1, <1>2, <1>5
  <1>23. vector' = [vector EXCEPT ![d] = h]
    BY <1>4, <1>8
  <1>24. k <= n
    BY <1>2
  <1> HIDE DEF h, new, b2, k, s
  <1>25. Replaced(array, vector, array', vector', d, h)
    <2>1. \A i \in 1..h.size : new[i] \in Values
      BY <1>11, <1>21, <1>22
    <2>2. VectorsSound(array, vector)
      BY DEF VectorInv
    <2>3. h.capacity = Len(new) /\ h.size <= h.capacity
      BY <1>11, <1>20, <1>24
    <2>4. d \in Objects
      BY DEF With
    <2> QED BY <2>1, <2>2, <2>3, <2>4, <1>12, <1>17, <1>18, <1>20, <1>23, AddsReplaces
  <1>26. Reads(array', h) = s
    <2>1. h.elements \in DOMAIN array' /\ Holds(array', h)
      BY <1>25 DEF Replaced
    <2>2. array'[h.elements] = new
      BY <1>12, <1>18, <2>1 DEF Adds
    <2>3. /\ Reads(array', h) \in Seq(Values) /\ Len(Reads(array', h)) = k
          /\ \A i \in 1..k : Reads(array', h)[i] = new[i]
      BY <1>11, <2>1, <2>2, ReadsType
    <2>4. \A i \in 1..k : Reads(array', h)[i] = s[i]
      BY <1>22, <2>3
    <2> QED BY <1>21, <2>3, <2>4
  <1>27. h.elements \notin DOMAIN array
    BY <1>9, <1>11
  <1>28. cellIt' = Kept(vector', cellIt)
    BY <1>4, IteratorIsKept
  <1>29. Reallocated(d, s, n)
    BY <1>11, <1>25, <1>26, <1>27, <1>28 DEF Reallocated
  <1> QED BY <1>29 DEF s

LEMMA VectorPushBackStep ==
  ASSUME VectorInv, NEW d \in Objects, NEW v \in Values, Vectors!PushBack(d, v)
  PROVE  /\ d \in With(vector)
         /\ IF vector[d].size < vector[d].capacity THEN Changed(d, Append(Vectors!Elements(d), v))
            ELSE Reallocated(d, Append(Vectors!Elements(d), v),
                             IF vector[d].capacity = 0 THEN 1 ELSE 2 * vector[d].capacity)
  <1>1. d \in With(vector) /\ Vectors!Becomes(d, Vectors!PushedBack(Vectors!Memory(d), v))
    BY DEF Vectors!PushBack, Vectors!Constructed, With
  <1> QED BY <1>1, PushInPlaceStep, PushGrownStep

LEMMA VectorDestroyStep ==
  ASSUME VectorInv, NEW d \in Objects, Vectors!Destroy(d)
  PROVE  /\ d \in With(vector)
         /\ vector' = [vector EXCEPT ![d] = NoObject]
         /\ DOMAIN array' = DOMAIN array \ {vector[d].elements}
         /\ \A a \in DOMAIN array' : array'[a] = array[a]
         /\ cellIt' = Kept(vector', cellIt)
  <1>1. d \in With(vector) /\ Vectors!IteratorKept /\ vector' = [vector EXCEPT ![d] = NoObject]
    BY DEF Vectors!Destroy, Vectors!Constructed, With
  <1>2. array' = Vectors!Freed(array, vector[d].elements)
    BY DEF Vectors!Destroy
  <1>3. DOMAIN array' = DOMAIN array \ {vector[d].elements} /\ \A a \in DOMAIN array' : array'[a] = array[a]
    BY <1>2 DEF Vectors!Freed, Vectors!Restrict
  <1> QED BY <1>1, <1>3, IteratorIsKept

LEMMA EmptyNew ==
  ASSUME VectorInv, NEW m, m = Vectors!New(array, <<>>)
  PROVE  /\ Adds(array, m.array, Vectors!Header(m), <<>>)
         /\ Vectors!Header(m).size = 0 /\ Vectors!Header(m).capacity = 0
         /\ <<>> \in Seq(Vectors!Cells) /\ Len(<<>>) = 0
  <1>1. <<>> \in Seq(Vectors!Cells) /\ Len(<<>>) = 0
    OBVIOUS
  <1> QED BY <1>1, NewAdds DEF VectorInv

(* d gets what e has, e the empty vector m, and what d had is freed. *)
MovesInto(d, e, m) ==
  /\ vector' = [vector EXCEPT ![d] = vector[e], ![e] = Vectors!Header(m)]
  /\ DOMAIN array' = DOMAIN m.array \ (IF d \in With(vector) THEN {vector[d].elements} ELSE {})
  /\ \A a \in DOMAIN array' : array'[a] = m.array[a]
  /\ Vectors!IteratorKept

LEMMA MovedInto ==
  ASSUME VectorInv, NEW d \in Objects, NEW e \in With(vector), d # e,
         NEW m, m = Vectors!New(array, <<>>), MovesInto(d, e, m)
  PROVE  Moved(d, e)
  <1> DEFINE h == Vectors!Header(m)
             us == [vector EXCEPT ![d] = h]
  <1>1. Adds(array, m.array, h, <<>>) /\ h.size = 0 /\ h.capacity = 0 /\ <<>> \in Seq(Vectors!Cells)
        /\ Len(<<>>) = 0
    BY EmptyNew
  <1>2. us = [vector EXCEPT ![d] = h] /\ vector' = [vector EXCEPT ![d] = vector[e], ![e] = h]
    BY DEF MovesInto
  <1> HIDE DEF h, us
  <1>3. VectorsSound(array, vector)
    BY DEF VectorInv
  <1>4. Replaced(array, vector, array', us, d, h)
    <2>1. \A i \in 1..h.size : <<>>[i] \in Values
      BY <1>1
    <2>2. h.capacity = Len(<<>>) /\ h.size <= h.capacity
      BY <1>1
    <2> QED BY <1>1, <1>2, <1>3, <2>1, <2>2, AddsReplaces DEF MovesInto
  <1>5. vector' = [us EXCEPT ![d] = us[e], ![e] = us[d]]
    <2>1. e \in Objects /\ vector \in [Objects -> Vectors!Headers \cup {NoObject}]
      BY <1>3 DEF VectorsSound, With
    <2>2. us[d] = h /\ us[e] = vector[e]
      BY <1>2, <2>1
    <2> QED BY <1>2, <2>1, <2>2
  <1>6. h.elements \notin DOMAIN array
    BY <1>1 DEF Adds
  <1>7. cellIt' = Kept(vector', cellIt)
    BY IteratorIsKept DEF MovesInto
  <1> QED BY <1>1, <1>4, <1>5, <1>6, <1>7 DEF Moved

LEMMA VectorMoveConstructStep ==
  ASSUME VectorInv, NEW d \in Objects, NEW e \in Objects, Vectors!MoveConstruct(d, e)
  PROVE  d \notin With(vector) /\ e \in With(vector) /\ Moved(d, e)
  <1> DEFINE m == Vectors!New(array, <<>>)
  <1>1. /\ d \notin With(vector) /\ e \in With(vector) /\ Vectors!IteratorKept
        /\ array' = m.array
        /\ vector' = [vector EXCEPT ![d] = vector[e], ![e] = Vectors!Header(m)]
    BY DEF Vectors!MoveConstruct, Vectors!Constructed, With
  <1>2. m = Vectors!New(array, <<>>)
    OBVIOUS
  <1> HIDE DEF m
  <1>3. /\ DOMAIN array' = DOMAIN m.array \ (IF d \in With(vector) THEN {vector[d].elements} ELSE {})
        /\ \A a \in DOMAIN array' : array'[a] = m.array[a]
        /\ d # e
    BY <1>1
  <1>4. MovesInto(d, e, m)
    BY <1>1, <1>3 DEF MovesInto
  <1>5. Moved(d, e)
    BY <1>1, <1>2, <1>3, <1>4, MovedInto
  <1> QED BY <1>1, <1>5

LEMMA VectorMoveAssignStep ==
  ASSUME VectorInv, NEW d \in Objects, NEW e \in Objects, Vectors!MoveAssign(d, e)
  PROVE  /\ d \in With(vector) /\ e \in With(vector)
         /\ IF d = e THEN Changed(d, Vectors!Elements(d)) ELSE Moved(d, e)
  <1> DEFINE m == Vectors!New(array, <<>>)
             moved == [vector EXCEPT ![e] = Vectors!Header(m)]
  <1>1. /\ d \in With(vector) /\ e \in With(vector) /\ Vectors!IteratorKept
        /\ array' = Vectors!Freed(m.array, moved[d].elements)
        /\ vector' = [moved EXCEPT ![d] = vector[e]]
    BY DEF Vectors!MoveAssign, Vectors!Constructed, With
  <1>2. m = Vectors!New(array, <<>>)
    OBVIOUS
  <1>3. /\ DOMAIN array' = DOMAIN m.array \ {moved[d].elements}
        /\ \A a \in DOMAIN array' : array'[a] = m.array[a]
    BY <1>1 DEF Vectors!Freed, Vectors!Restrict
  <1>4. vector \in [Objects -> Vectors!Headers \cup {NoObject}] /\ VectorsSound(array, vector)
    BY DEF VectorInv, VectorsSound
  <1>5. moved = [vector EXCEPT ![e] = Vectors!Header(m)]
    OBVIOUS
  <1>6. /\ Adds(array, m.array, Vectors!Header(m), <<>>)
        /\ Vectors!Header(m).size = 0 /\ Vectors!Header(m).capacity = 0
    BY EmptyNew
  <1> HIDE DEF m, moved
  <1>7. CASE d # e
    <2>1. moved[d] = vector[d]
      BY <1>4, <1>5, <1>7
    <2>2. vector' = [vector EXCEPT ![d] = vector[e], ![e] = Vectors!Header(m)]
      BY <1>1, <1>4, <1>5, <1>7
    <2>3. DOMAIN array' = DOMAIN m.array \ (IF d \in With(vector) THEN {vector[d].elements} ELSE {})
      BY <1>1, <1>3, <2>1
    <2>4. \A a \in DOMAIN array' : array'[a] = m.array[a]
      BY <1>3
    <2>5. e \in With(vector) /\ Vectors!IteratorKept
      BY <1>1
    <2>6. MovesInto(d, e, m)
      BY <2>2, <2>3, <2>4, <2>5 DEF MovesInto
    <2>7. Moved(d, e)
      BY <1>2, <1>7, <2>5, <2>6, MovedInto
    <2> QED BY <1>1, <1>7, <2>7
  <1>8. CASE d = e
    <2>1. moved[d] = Vectors!Header(m)
      BY <1>4, <1>5, <1>8
    <2>2. vector' = vector
      BY <1>1, <1>4, <1>5, <1>8
    <2>3. DOMAIN array' = DOMAIN array
      BY <1>3, <1>6, <2>1 DEF Adds
    <2>4. \A a \in DOMAIN array : array'[a] = array[a]
      BY <1>3, <1>6, <2>3 DEF Adds
    <2> DEFINE h == vector[d]
    <2>5. /\ h \in Vectors!Headers /\ h.elements \in DOMAIN array /\ Holds(array, h)
      BY <1>1, <1>4, WithType
    <2>6. /\ Vectors!Elements(d) \in Seq(Values) /\ h.size = Len(Vectors!Elements(d))
          /\ \A i \in 1..h.size : array[h.elements][i] = Vectors!Elements(d)[i]
      BY <1>1, ElementsRead
    <2>7. vector' = [vector EXCEPT ![d] = h]
      BY <2>2, <1>4
    <2>8. cellIt' = Kept(vector', cellIt)
      BY <1>1, IteratorIsKept
    <2> HIDE DEF h
    <2>9. /\ h.elements = vector[d].elements /\ h.capacity = vector[d].capacity
          /\ h.size <= h.capacity
      BY <2>5 DEF h, Holds
    <2>10. /\ array'[h.elements] \in Seq(Vectors!Cells) /\ Len(array'[h.elements]) = h.capacity
           /\ \A i \in 1..Len(Vectors!Elements(d)) : array'[h.elements][i] = Vectors!Elements(d)[i]
           /\ \A a \in DOMAIN array \ {h.elements} : array'[a] = array[a]
      BY <2>4, <2>5, <2>6 DEF Holds
    <2>11. Changed(d, Vectors!Elements(d))
      BY <1>1, <2>3, <2>5, <2>6, <2>7, <2>8, <2>9, <2>10, ChangesInPlace
    <2> QED BY <1>1, <1>8, <2>11
  <1> QED BY <1>7, <1>8

-----------------------------------------------------------------------------
(* Each of these keeps the invariant.                                      *)
LEMMA ReplacedInv ==
  ASSUME VectorInv, NEW d \in Objects, NEW h, Replaced(array, vector, array', vector', d, h),
         cellIt' = Kept(vector', cellIt)
  PROVE  VectorInv'
  <1>1. VectorsSound(array', vector')
    BY ReplacedSound DEF VectorInv
  <1>2. IteratorGood(vector', cellIt')
    BY <1>1, KeptGood DEF VectorInv
  <1> QED BY <1>1, <1>2 DEF VectorInv

LEMMA MovedInv ==
  ASSUME VectorInv, NEW d \in Objects, NEW e \in Objects, Moved(d, e)
  PROVE  VectorInv'
  <1>1. PICK us, h :
          /\ Replaced(array, vector, array', us, d, h)
          /\ e \in With(vector) /\ d # e
          /\ vector' = [us EXCEPT ![d] = us[e], ![e] = us[d]]
          /\ cellIt' = Kept(vector', cellIt)
    BY DEF Moved
  <1>2. VectorsSound(array', us)
    BY <1>1, ReplacedSound DEF VectorInv
  <1>3. Sets(vector, us, d, h)
    BY <1>1, ReplacedPointwise DEF VectorInv
  <1>4. d \in With(us) /\ e \in With(us)
    BY <1>1, <1>3 DEF Sets
  <1>5. VectorsSound(array', vector')
    BY <1>1, <1>2, <1>4, SwappedSound
  <1>6. IteratorGood(vector', cellIt')
    BY <1>1, <1>5, KeptGood DEF VectorInv
  <1> QED BY <1>5, <1>6 DEF VectorInv

LEMMA VectorSwapStep ==
  ASSUME VectorInv, NEW d \in Objects, NEW e \in Objects, Vectors!Swap(d, e)
  PROVE  /\ d \in With(vector) /\ e \in With(vector) /\ array' = array /\ cellIt' = cellIt
         /\ vector' = [vector EXCEPT ![d] = vector[e], ![e] = vector[d]]
  BY DEF Vectors!Swap, Vectors!Constructed, With

LEMMA VectorInit == Vectors!Init => VectorInv
  <1> SUFFICES ASSUME Vectors!Init PROVE VectorInv
    OBVIOUS
  <1>1. array = <<>> /\ DOMAIN array = {} /\ vector = [d \in Objects |-> NoObject] /\ cellIt = Nil
    BY DEF Vectors!Init
  <1>2. With(vector) = {}
    BY <1>1 DEF With
  <1> QED BY <1>1, <1>2 DEF VectorInv, VectorsSound, IteratorGood

LEMMA VectorNext ==
  ASSUME VectorInv, [Vectors!Next]_vectorVars
  PROVE  VectorInv'
  <1>r. ASSUME NEW d \in Objects, NEW s, NEW c, Reallocated(d, s, c) PROVE VectorInv'
    BY <1>r, ReplacedInv DEF Reallocated
  <1>c. ASSUME NEW d \in Objects, NEW s, Changed(d, s) PROVE VectorInv'
    BY <1>c, ReplacedInv DEF Changed
  <1>1. ASSUME NEW d \in Objects, Vectors!Construct(d) PROVE VectorInv'
    BY <1>1, <1>r, VectorConstructStep
  <1>2. ASSUME NEW d \in Objects, Vectors!Destroy(d) PROVE VectorInv'
    <2>1. /\ d \in With(vector)
          /\ vector' = [vector EXCEPT ![d] = NoObject]
          /\ DOMAIN array' = DOMAIN array \ {vector[d].elements}
          /\ \A a \in DOMAIN array' : array'[a] = array[a]
          /\ cellIt' = Kept(vector', cellIt)
      BY <1>2, VectorDestroyStep
    <2>2. VectorsSound(array', vector')
      BY <2>1, DroppedSound DEF VectorInv
    <2>3. IteratorGood(vector', cellIt')
      BY <2>1, <2>2, KeptGood DEF VectorInv
    <2> QED BY <2>2, <2>3 DEF VectorInv
  <1>3. ASSUME NEW d \in Objects, Vectors!PopBack(d) PROVE VectorInv'
    BY <1>3, <1>c, VectorPopBackStep
  <1>4. ASSUME NEW d \in Objects, Vectors!Clear(d) PROVE VectorInv'
    BY <1>4, <1>c, VectorClearStep
  <1>5. ASSUME NEW d \in Objects, NEW e \in Objects, Vectors!MoveConstruct(d, e) PROVE VectorInv'
    BY <1>5, MovedInv, VectorMoveConstructStep
  <1>6. ASSUME NEW d \in Objects, NEW e \in Objects, Vectors!CopyAssign(d, e) PROVE VectorInv'
    BY <1>6, <1>r, VectorCopyAssignStep
  <1>7. ASSUME NEW d \in Objects, NEW e \in Objects, Vectors!MoveAssign(d, e) PROVE VectorInv'
    BY <1>7, <1>c, MovedInv, VectorMoveAssignStep
  <1>8. ASSUME NEW d \in Objects, NEW e \in Objects, Vectors!Swap(d, e) PROVE VectorInv'
    <2>1. /\ d \in With(vector) /\ e \in With(vector) /\ array' = array /\ cellIt' = cellIt
          /\ vector' = [vector EXCEPT ![d] = vector[e], ![e] = vector[d]]
      BY <1>8, VectorSwapStep
    <2>a. VectorsSound(array, vector') /\ Exchanged(vector, vector', d, e)
      BY <2>1, SwappedSound DEF VectorInv
    <2>2. /\ VectorsSound(array, vector') /\ With(vector') = With(vector)
          /\ vector'[d] = vector[e] /\ vector'[e] = vector[d]
          /\ \A g \in Objects \ {d, e} : vector'[g] = vector[g]
      BY <2>a DEF Exchanged
    <2>3. CASE cellIt = Nil
      BY <2>1, <2>2, <2>3 DEF VectorInv, IteratorGood
    <2>4. CASE cellIt # Nil
      <3>1. PICK g \in With(vector), n \in Nat : At(vector, cellIt, g, n)
        BY <2>4 DEF VectorInv, IteratorGood
      <3>2. \E f \in With(vector') : vector'[f] = vector[g]
        BY <2>1, <2>2 DEF With
      <3>3. \E f \in With(vector') : At(vector', cellIt', f, n)
        BY <2>1, <3>1, <3>2 DEF At
      <3> QED BY <2>1, <2>2, <3>3 DEF VectorInv, IteratorGood
    <2> QED BY <2>3, <2>4
  <1>9. ASSUME NEW d \in Objects, NEW n \in 0..MaxCapacity, Vectors!Reserve(d, n) PROVE VectorInv'
    <2>1. n \in Nat
      BY VectorBounds DEF Vectors!BoundsAssumption
    <2> QED BY <1>9, <2>1, <1>c, <1>r, VectorReserveStep
  <1>10. ASSUME NEW d \in Objects, NEW v \in Values, Vectors!PushBack(d, v) PROVE VectorInv'
    BY <1>10, <1>c, <1>r, VectorPushBackStep
  <1>11. ASSUME NEW d \in Objects, NEW v \in Values, NEW i \in 1..MaxSize, Vectors!Modify(d, i, v)
         PROVE  VectorInv'
    BY <1>11, <1>c, VectorModifyStep
  <1>12. CASE Vectors!MoveIterator
    <2>0. PICK d \in With(vector) : \E n \in 0..vector[d].size : cellIt' = <<vector[d].elements, n>>
      BY <1>12 DEF Vectors!MoveIterator, Vectors!Constructed, With
    <2>1. PICK n \in 0..vector[d].size : cellIt' = <<vector[d].elements, n>>
      BY <2>0
    <2>2. n \in Nat
      BY WithType DEF VectorInv
    <2>3. At(vector, cellIt', d, n)
      BY <2>1 DEF At
    <2> QED BY <1>12, <2>2, <2>3 DEF VectorInv, IteratorGood, Vectors!MoveIterator
  <1>13. CASE Vectors!Forget
    BY <1>13 DEF Vectors!Forget, VectorInv, IteratorGood
  <1>14. CASE UNCHANGED vectorVars
    BY <1>14 DEF vectorVars, VectorInv
  <1>15. CASE Vectors!Next
    <2>1. CASE Vectors!MoveIterator \/ Vectors!Forget
      BY <2>1, <1>12, <1>13
    <2>2. CASE ~(Vectors!MoveIterator \/ Vectors!Forget)
      BY <2>2, <1>15, <1>1, <1>2, <1>3, <1>4, <1>5, <1>6, <1>7, <1>8, <1>9, <1>10, <1>11, Zenon
         DEF Vectors!Next
    <2> QED BY <2>1, <2>2
  <1> QED BY <1>14, <1>15

LEMMA VectorInvImplies ==
  ASSUME VectorInv
  PROVE  ArraysOwned
  <1>1. Vectors!Constructed = With(vector)
    BY DEF Vectors!Constructed, With
  <1>2. VectorsSound(array, vector)
    BY DEF VectorInv
  <1>3. Vectors!TypeOK
    <2>1. \A d \in With(vector) : /\ vector[d].elements \in DOMAIN array
                                  /\ vector[d].size \in 0..vector[d].capacity
      BY <1>2, WithType DEF Holds
    <2>2. cellIt # Nil => cellIt[1] \in DOMAIN array
      BY <2>1 DEF VectorInv, IteratorGood, At
    <2> QED BY <1>1, <1>2, <2>1, <2>2 DEF Vectors!TypeOK, VectorsSound
  <1>4. ASSUME NEW a \in DOMAIN array
        PROVE  \E d \in With(vector) : {e \in With(vector) : vector[e].elements = a} = {d}
    BY <1>2 DEF VectorsSound
  <1>5. ASSUME NEW d \in With(vector)
        PROVE  /\ Len(array[vector[d].elements]) = vector[d].capacity
               /\ Vectors!Elements(d) \in Seq(Values)
    BY <1>2, WithType, ElementsRead DEF Holds
  <1> QED BY <1>1, <1>3, <1>4, <1>5 DEF ArraysOwned, Vectors!ArraysOwned

(* No array of a Vector leaks, is shared, deleted twice or read before it  *)
(* is written, for any number of vectors and any values and sizes.         *)
THEOREM ArraysAlwaysOwned == Vectors!Spec => []ArraysOwned
  <1>1. VectorInv /\ [Vectors!Next]_vectorVars => VectorInv'
    BY VectorNext
  <1>2. VectorInv => ArraysOwned
    BY VectorInvImplies
  <1> QED BY <1>1, <1>2, VectorInit, PTL DEF Vectors!Spec, Vectors!vars, vectorVars

-----------------------------------------------------------------------------
(* The refinement: what AbstractVector sees of arrays and headers.         *)
ItemsOf(ar, vs) == [d \in Objects |-> IF d \in With(vs) THEN Reads(ar, vs[d]) ELSE NoObject]

CapacitiesOf(vs) == [d \in Objects |-> IF d \in With(vs) THEN vs[d].capacity ELSE NoObject]

PositionOf(vs, i) ==
  IF i = Nil THEN Nil ELSE <<CHOOSE d \in With(vs) : vs[d].elements = i[1], i[2] + 1>>

LEMMA SeenNow ==
  /\ Vectors!Stored = ItemsOf(array, vector)
  /\ Vectors!Capacities = CapacitiesOf(vector)
  /\ Vectors!Position = PositionOf(vector, cellIt)
  <1>1. Vectors!Constructed = With(vector)
    BY DEF Vectors!Constructed, With
  <1> QED BY <1>1 DEF Vectors!Stored, Vectors!Capacities, Vectors!Position, ItemsOf, CapacitiesOf,
                      PositionOf, Vectors!Elements, Reads

LEMMA SeenNext ==
  /\ Vectors!Stored' = ItemsOf(array', vector')
  /\ Vectors!Capacities' = CapacitiesOf(vector')
  /\ Vectors!Position' = PositionOf(vector', cellIt')
  <1>1. Vectors!Constructed' = With(vector')
    BY DEF Vectors!Constructed, With
  <1> QED BY <1>1 DEF Vectors!Stored, Vectors!Capacities, Vectors!Position, ItemsOf, CapacitiesOf,
                      PositionOf, Vectors!Elements, Reads

LEMMA IteratorAt ==
  ASSUME NEW ar, NEW vs, VectorsSound(ar, vs), NEW d \in With(vs), NEW n \in Nat,
         NEW i, i = <<vs[d].elements, n>>
  PROVE  i # Nil /\ PositionOf(vs, i) = <<d, n + 1>> /\ PositionOf(vs, i) # Nil
  <1>1. vs[d].elements \in ArrayAddresses /\ d \in Objects
    BY WithType
  <1>2. i # Nil /\ <<d, n + 1>> # Nil
    BY <1>1, VectorNames DEF Vectors!NamesAssumption
  <1>3. i[1] = vs[d].elements /\ i[2] = n
    OBVIOUS
  <1>4. (CHOOSE e \in With(vs) : vs[e].elements = i[1]) = d
    BY <1>3 DEF VectorsSound
  <1> QED BY <1>2, <1>3, <1>4 DEF PositionOf

ReplacesItems(ar, vs, br, ws, d, h) ==
  /\ ItemsOf(br, ws) = [ItemsOf(ar, vs) EXCEPT ![d] = Reads(br, h)]
  /\ CapacitiesOf(ws) = [CapacitiesOf(vs) EXCEPT ![d] = h.capacity]

LEMMA ReplacedItems ==
  ASSUME NEW ar, NEW vs, VectorsSound(ar, vs), NEW br, NEW ws, NEW d \in Objects, NEW h,
         Replaced(ar, vs, br, ws, d, h)
  PROVE  ReplacesItems(ar, vs, br, ws, d, h)
  <1>1. Sets(vs, ws, d, h)
    BY ReplacedPointwise
  <1>2. \A e \in Objects \ {d} : ws[e] = vs[e] /\ (e \in With(ws) <=> e \in With(vs))
    BY <1>1 DEF Sets
  <1>3. d \in With(ws) /\ ws[d] = h
    BY <1>1 DEF Sets
  <1>4. \A e \in With(vs) \ {d} : Reads(br, ws[e]) = Reads(ar, vs[e])
    BY <1>2 DEF Replaced, Reads, With
  <1> HIDE DEF Reads
  <1>5. ItemsOf(br, ws) = [ItemsOf(ar, vs) EXCEPT ![d] = Reads(br, h)]
    BY <1>2, <1>3, <1>4 DEF ItemsOf
  <1>6. CapacitiesOf(ws) = [CapacitiesOf(vs) EXCEPT ![d] = h.capacity]
    BY <1>2, <1>3 DEF CapacitiesOf
  <1> QED BY <1>5, <1>6 DEF ReplacesItems

(* The iterator after d has another array. *)
LEMMA ReallocatedPosition ==
  ASSUME NEW ar, NEW vs, VectorsSound(ar, vs), NEW br, NEW ws, NEW d \in Objects, NEW h,
         Replaced(ar, vs, br, ws, d, h), h.elements \notin DOMAIN ar,
         NEW i, IteratorGood(vs, i)
  PROVE  PositionOf(ws, Kept(ws, i)) =
           IF PositionOf(vs, i) # Nil /\ PositionOf(vs, i)[1] = d THEN Nil ELSE PositionOf(vs, i)
  <1>1. Sets(vs, ws, d, h) /\ VectorsSound(br, ws)
    BY ReplacedPointwise, ReplacedSound
  <1>2. CASE i = Nil
    BY <1>2 DEF PositionOf, Kept
  <1>3. CASE i # Nil
    <2>1. PICK e \in With(vs), n \in Nat : At(vs, i, e, n)
      BY <1>3 DEF IteratorGood
    <2>2. i = <<vs[e].elements, n>> /\ i[1] = vs[e].elements /\ i[2] = n /\ n <= vs[e].size
      BY <2>1, WithType DEF At
    <2>3. PositionOf(vs, i) = <<e, n + 1>> /\ PositionOf(vs, i) # Nil
      BY <2>2, IteratorAt
    <2>4. CASE e = d
      <3>1. ASSUME NEW g \in With(ws), ws[g].elements = i[1] PROVE FALSE
        <4>1. vs[e].elements \in DOMAIN ar
          BY WithType
        <4>2. CASE g = d
          BY <4>1, <4>2, <3>1, <2>2, <1>1 DEF Sets
        <4>3. CASE g # d
          <5>1. g \in With(vs) /\ ws[g] = vs[g]
            BY <4>3, <1>1 DEF Sets, With
          <5> QED BY <5>1, <4>3, <3>1, <2>2, <2>4 DEF VectorsSound
        <4> QED BY <4>2, <4>3
      <3>2. Kept(ws, i) = Nil
        BY <3>1 DEF Kept
      <3> QED BY <3>2, <2>3, <2>4 DEF PositionOf
    <2>5. CASE e # d
      <3>1. e \in With(ws) /\ ws[e] = vs[e]
        BY <2>5, <1>1 DEF Sets, With
      <3>2. Kept(ws, i) = i
        BY <1>3, <2>2, <3>1 DEF Kept
      <3>3. PositionOf(ws, i) = <<e, n + 1>>
        BY <1>1, <2>2, <3>1, IteratorAt
      <3> QED BY <2>3, <2>5, <3>2, <3>3
    <2> QED BY <2>4, <2>5
  <1> QED BY <1>2, <1>3

(* The iterator after d has another size. *)
LEMMA ChangedPosition ==
  ASSUME NEW ar, NEW vs, VectorsSound(ar, vs), NEW br, NEW ws, NEW d \in With(vs), NEW h,
         Replaced(ar, vs, br, ws, d, h), h.elements = vs[d].elements,
         NEW i, IteratorGood(vs, i)
  PROVE  PositionOf(ws, Kept(ws, i)) =
           IF PositionOf(vs, i) # Nil /\ PositionOf(vs, i)[1] = d /\ PositionOf(vs, i)[2] > h.size + 1
           THEN Nil ELSE PositionOf(vs, i)
  <1>0. d \in Objects
    BY DEF With
  <1>1. Sets(vs, ws, d, h) /\ VectorsSound(br, ws)
    BY <1>0, ReplacedPointwise, ReplacedSound
  <1>2. CASE i = Nil
    BY <1>2 DEF PositionOf, Kept
  <1>3. CASE i # Nil
    <2>1. PICK e \in With(vs), n \in Nat : At(vs, i, e, n)
      BY <1>3 DEF IteratorGood
    <2>2. i = <<vs[e].elements, n>> /\ i[1] = vs[e].elements /\ i[2] = n /\ n <= vs[e].size
      BY <2>1, WithType DEF At
    <2>3. PositionOf(vs, i) = <<e, n + 1>> /\ PositionOf(vs, i) # Nil
      BY <2>2, IteratorAt
    <2>4. e \in With(ws) /\ ws[e].elements = i[1] /\ h.size \in Nat
      BY <1>1, <2>2 DEF Sets, With, Vectors!Headers
    <2>5. \A g \in With(ws) : ws[g].elements = i[1] => g = e
      BY <1>1, <2>4 DEF VectorsSound
    <2>6. CASE e = d /\ n > h.size
      <3>1. ws[e] = h
        BY <2>6, <1>1 DEF Sets
      <3>2. Kept(ws, i) = Nil
        BY <3>1, <2>2, <2>4, <2>5, <2>6 DEF Kept
      <3> QED BY <3>2, <2>3, <2>4, <2>6 DEF PositionOf
    <2>7. CASE ~(e = d /\ n > h.size)
      <3>1. n <= ws[e].size
        BY <2>2, <2>4, <2>7, <1>1 DEF Sets, With
      <3>2. Kept(ws, i) = i
        BY <1>3, <2>2, <2>4, <3>1 DEF Kept
      <3>3. PositionOf(ws, i) = <<e, n + 1>>
        BY <1>1, <2>2, <2>4, IteratorAt
      <3>4. ~(e = d /\ n + 1 > h.size + 1)
        BY <2>4, <2>7
      <3> QED BY <2>3, <3>2, <3>3, <3>4
    <2> QED BY <2>6, <2>7
  <1> QED BY <1>2, <1>3

(* The iterator after d and e have been exchanged. *)
LEMMA SwappedPosition ==
  ASSUME NEW ar, NEW vs, VectorsSound(ar, vs), NEW d \in With(vs), NEW e \in With(vs), NEW ws,
         VectorsSound(ar, ws), Exchanged(vs, ws, d, e), NEW i, IteratorGood(vs, i)
  PROVE  /\ Kept(ws, i) = i
         /\ PositionOf(ws, i) = IF PositionOf(vs, i) = Nil THEN Nil
                                ELSE IF PositionOf(vs, i)[1] = d THEN <<e, PositionOf(vs, i)[2]>>
                                ELSE IF PositionOf(vs, i)[1] = e THEN <<d, PositionOf(vs, i)[2]>>
                                ELSE PositionOf(vs, i)
  <1>2. CASE i = Nil
    BY <1>2 DEF PositionOf, Kept
  <1>3. CASE i # Nil
    <2>1. PICK g \in With(vs), n \in Nat : At(vs, i, g, n)
      BY <1>3 DEF IteratorGood
    <2>2. i = <<vs[g].elements, n>> /\ i[1] = vs[g].elements /\ i[2] = n /\ n <= vs[g].size
      BY <2>1, WithType DEF At
    <2>3. PositionOf(vs, i) = <<g, n + 1>> /\ PositionOf(vs, i) # Nil
      BY <2>2, IteratorAt
    <2> DEFINE f == IF g = d THEN e ELSE IF g = e THEN d ELSE g
    <2>4. f \in With(ws) /\ ws[f] = vs[g]
      BY DEF Exchanged, With
    <2> HIDE DEF f
    <2>5. Kept(ws, i) = i
      BY <1>3, <2>2, <2>4 DEF Kept
    <2>a. i = <<ws[f].elements, n>>
      BY <2>2, <2>4
    <2>6. PositionOf(ws, i) = <<f, n + 1>>
      BY <2>a, <2>4, IteratorAt
    <2> QED BY <2>3, <2>5, <2>6 DEF f
  <1> QED BY <1>2, <1>3

LEMMA ReallocatedMaps ==
  ASSUME VectorInv, NEW d \in Objects, NEW s, NEW c, Reallocated(d, s, c)
  PROVE  Vectors!Abstract!Reallocates(d, s, c)
  <1>1. PICK h : /\ Replaced(array, vector, array', vector', d, h)
                 /\ h.elements \notin DOMAIN array
                 /\ Reads(array', h) = s /\ h.capacity = c
                 /\ cellIt' = Kept(vector', cellIt)
    BY DEF Reallocated
  <1>2. VectorsSound(array, vector) /\ IteratorGood(vector, cellIt)
    BY DEF VectorInv
  <1>a. /\ ItemsOf(array', vector') = [ItemsOf(array, vector) EXCEPT ![d] = Reads(array', h)]
        /\ CapacitiesOf(vector') = [CapacitiesOf(vector) EXCEPT ![d] = h.capacity]
    <2>1. ReplacesItems(array, vector, array', vector', d, h)
      BY <1>1, <1>2, ReplacedItems
    <2> QED BY <2>1 DEF ReplacesItems
  <1>3. /\ ItemsOf(array', vector') = [ItemsOf(array, vector) EXCEPT ![d] = s]
        /\ CapacitiesOf(vector') = [CapacitiesOf(vector) EXCEPT ![d] = c]
    BY <1>1, <1>a
  <1>4. PositionOf(vector', cellIt') =
          IF PositionOf(vector, cellIt) # Nil /\ PositionOf(vector, cellIt)[1] = d
          THEN Nil ELSE PositionOf(vector, cellIt)
    BY <1>1, <1>2, ReallocatedPosition
  <1> QED BY <1>3, <1>4, SeenNow, SeenNext
          DEF Vectors!Abstract!Reallocates, Vectors!Abstract!At

(* d keeps its array: its elements are now s. *)
Edits(d, s) ==
  /\ Vectors!Stored' = [Vectors!Stored EXCEPT ![d] = s]
  /\ Vectors!Capacities' = Vectors!Capacities
  /\ Vectors!Position' =
       IF /\ Vectors!Position # Nil /\ Vectors!Position[1] = d
          /\ Vectors!Position[2] > Len(s) + 1 THEN Nil ELSE Vectors!Position

LEMMA ChangedMaps ==
  ASSUME VectorInv, NEW d \in Objects, NEW s, Changed(d, s)
  PROVE  Edits(d, s)
  <1>1. PICK h : /\ d \in With(vector)
                 /\ Replaced(array, vector, array', vector', d, h)
                 /\ h.elements = vector[d].elements
                 /\ Reads(array', h) = s /\ h.capacity = vector[d].capacity
                 /\ cellIt' = Kept(vector', cellIt)
    BY DEF Changed
  <1>2. VectorsSound(array, vector) /\ IteratorGood(vector, cellIt)
    BY DEF VectorInv
  <1>a. /\ ItemsOf(array', vector') = [ItemsOf(array, vector) EXCEPT ![d] = Reads(array', h)]
        /\ CapacitiesOf(vector') = [CapacitiesOf(vector) EXCEPT ![d] = h.capacity]
    <2>1. d \in Objects
      BY <1>1 DEF With
    <2>2. ReplacesItems(array, vector, array', vector', d, h)
      BY <1>1, <1>2, <2>1, ReplacedItems
    <2> QED BY <2>2 DEF ReplacesItems
  <1>3. /\ ItemsOf(array', vector') = [ItemsOf(array, vector) EXCEPT ![d] = s]
        /\ CapacitiesOf(vector') = [CapacitiesOf(vector) EXCEPT ![d] = vector[d].capacity]
    BY <1>1, <1>a
  <1>4. CapacitiesOf(vector') = CapacitiesOf(vector)
    BY <1>1, <1>3 DEF CapacitiesOf
  <1>5. Len(s) = h.size
    <2>1. Holds(array', h)
      BY <1>1 DEF Replaced
    <2> QED BY <1>1, <2>1, ReadsType
  <1>6. PositionOf(vector', cellIt') =
          IF /\ PositionOf(vector, cellIt) # Nil /\ PositionOf(vector, cellIt)[1] = d
             /\ PositionOf(vector, cellIt)[2] > h.size + 1
          THEN Nil ELSE PositionOf(vector, cellIt)
    BY <1>1, <1>2, ChangedPosition
  <1> QED BY <1>3, <1>4, <1>5, <1>6, SeenNow, SeenNext DEF Edits

(* What can be read of a vector and of the iterator. *)
LEMMA SeenOf ==
  ASSUME VectorInv, NEW d \in With(vector)
  PROVE  /\ d \in Objects /\ Vectors!Stored[d] = Vectors!Elements(d)
         /\ Vectors!Capacities[d] = vector[d].capacity
         /\ d \in Vectors!Abstract!Live
         /\ Vectors!Stored = [Vectors!Stored EXCEPT ![d] = Vectors!Elements(d)]
  <1>1. d \in Objects
    BY DEF With
  <1>2. Vectors!Stored[d] = Vectors!Elements(d) /\ Vectors!Capacities[d] = vector[d].capacity
    BY <1>1, SeenNow, ElementsRead DEF ItemsOf, CapacitiesOf
  <1>3. Vectors!Elements(d) # NoObject
    BY ElementsRead, VectorNames DEF Vectors!NamesAssumption
  <1>4. Vectors!Stored = [Vectors!Stored EXCEPT ![d] = Vectors!Elements(d)]
    BY <1>1, <1>2, SeenNow DEF ItemsOf
  <1> QED BY <1>1, <1>2, <1>3, <1>4 DEF Vectors!Abstract!Live

LEMMA NotSeen ==
  ASSUME NEW d \in Objects, d \notin With(vector)
  PROVE  d \notin Vectors!Abstract!Live /\ Vectors!Stored[d] = NoObject
  BY SeenNow DEF Vectors!Abstract!Live, ItemsOf

LEMMA PositionSeen ==
  ASSUME VectorInv
  PROVE  \/ Vectors!Position = Nil
         \/ \E d \in With(vector), n \in Nat :
              /\ n \in 0..vector[d].size /\ cellIt = <<vector[d].elements, n>>
              /\ Vectors!Position = <<d, n + 1>> /\ Vectors!Position # Nil
  <1>1. CASE cellIt = Nil
    BY <1>1, SeenNow DEF PositionOf
  <1>2. CASE cellIt # Nil
    <2>1. PICK d \in With(vector), n \in Nat : At(vector, cellIt, d, n)
      BY <1>2 DEF VectorInv, IteratorGood
    <2>2. n \in 0..vector[d].size /\ cellIt = <<vector[d].elements, n>>
      BY <2>1 DEF At
    <2>3. PositionOf(vector, cellIt) = <<d, n + 1>> /\ PositionOf(vector, cellIt) # Nil
      BY <2>2, IteratorAt DEF VectorInv
    <2> QED BY <2>2, <2>3, SeenNow
  <1> QED BY <1>1, <1>2

ExchangesItems(ar, vs, ws, d, e) ==
  /\ ItemsOf(ar, ws) = [ItemsOf(ar, vs) EXCEPT ![d] = ItemsOf(ar, vs)[e], ![e] = ItemsOf(ar, vs)[d]]
  /\ CapacitiesOf(ws) = [CapacitiesOf(vs) EXCEPT ![d] = CapacitiesOf(vs)[e], ![e] = CapacitiesOf(vs)[d]]

LEMMA SwappedItems ==
  ASSUME NEW ar, NEW vs, NEW ws, NEW d \in With(vs), NEW e \in With(vs), Exchanged(vs, ws, d, e)
  PROVE  ExchangesItems(ar, vs, ws, d, e)
  <1>1. d \in Objects /\ e \in Objects /\ With(ws) = With(vs) /\ ws[d] = vs[e] /\ ws[e] = vs[d]
        /\ \A g \in Objects \ {d, e} : ws[g] = vs[g]
    BY DEF Exchanged, With
  <1> HIDE DEF Reads, With
  <1>2. ItemsOf(ar, ws)
          = [ItemsOf(ar, vs) EXCEPT ![d] = ItemsOf(ar, vs)[e], ![e] = ItemsOf(ar, vs)[d]]
    BY <1>1 DEF ItemsOf
  <1>3. CapacitiesOf(ws)
          = [CapacitiesOf(vs) EXCEPT ![d] = CapacitiesOf(vs)[e], ![e] = CapacitiesOf(vs)[d]]
    BY <1>1 DEF CapacitiesOf
  <1> QED BY <1>2, <1>3 DEF ExchangesItems

LEMMA KeptSwapped ==
  ASSUME NEW vs, NEW ws, NEW d \in With(vs), NEW e \in With(vs), Exchanged(vs, ws, d, e), NEW i
  PROVE  Kept(ws, i) = Kept(vs, i)
  <1>1. d \in Objects /\ e \in Objects /\ With(ws) = With(vs) /\ ws[d] = vs[e] /\ ws[e] = vs[d]
        /\ \A g \in Objects \ {d, e} : ws[g] = vs[g]
    BY DEF Exchanged, With
  <1>2. \A g \in With(vs) : \E f \in With(ws) : ws[f] = vs[g]
    BY <1>1 DEF With
  <1>3. \A f \in With(ws) : \E g \in With(vs) : ws[f] = vs[g]
    BY <1>1 DEF With
  <1>4. (\E g \in With(vs) : vs[g].elements = i[1] /\ i[2] <= vs[g].size)
          <=> (\E g \in With(ws) : ws[g].elements = i[1] /\ i[2] <= ws[g].size)
    BY <1>2, <1>3
  <1> QED BY <1>4 DEF Kept

LEMMA SwapMaps ==
  ASSUME VectorInv, NEW d \in Objects, NEW e \in Objects, Vectors!Swap(d, e)
  PROVE  d \in With(vector) /\ e \in With(vector) /\ Vectors!Abstract!Swap(d, e)
  <1>1. /\ d \in With(vector) /\ e \in With(vector) /\ array' = array /\ cellIt' = cellIt
        /\ vector' = [vector EXCEPT ![d] = vector[e], ![e] = vector[d]]
    BY VectorSwapStep
  <1>2. VectorsSound(array, vector) /\ IteratorGood(vector, cellIt)
    BY DEF VectorInv
  <1>3. VectorsSound(array, vector') /\ Exchanged(vector, vector', d, e)
    BY <1>1, <1>2, SwappedSound
  <1>4. ExchangesItems(array, vector, vector', d, e)
    BY <1>1, <1>3, SwappedItems
  <1>5. PositionOf(vector', cellIt) = IF PositionOf(vector, cellIt) = Nil THEN Nil
                           ELSE IF PositionOf(vector, cellIt)[1] = d THEN <<e, PositionOf(vector, cellIt)[2]>>
                           ELSE IF PositionOf(vector, cellIt)[1] = e THEN <<d, PositionOf(vector, cellIt)[2]>>
                           ELSE PositionOf(vector, cellIt)
    BY <1>1, <1>2, <1>3, SwappedPosition
  <1>6. /\ Vectors!Stored' = ItemsOf(array, vector')
        /\ Vectors!Capacities' = CapacitiesOf(vector')
        /\ Vectors!Position' = PositionOf(vector', cellIt)
    BY <1>1, SeenNext
  <1>7. Vectors!Abstract!Swap(d, e)
    BY <1>4, <1>5, <1>6, SeenNow DEF Vectors!Abstract!Swap, Vectors!Abstract!At, ExchangesItems
  <1> QED BY <1>1, <1>7

LEMMA MovedMaps ==
  ASSUME VectorInv, NEW d \in Objects, NEW e \in Objects, Moved(d, e)
  PROVE  e \in With(vector) /\ Vectors!Abstract!Takes(d, e)
  <1>1. PICK us, h :
          /\ Replaced(array, vector, array', us, d, h)
          /\ h.elements \notin DOMAIN array /\ h.size = 0 /\ h.capacity = 0
          /\ e \in With(vector) /\ d # e
          /\ vector' = [us EXCEPT ![d] = us[e], ![e] = us[d]]
          /\ cellIt' = Kept(vector', cellIt)
    BY DEF Moved
  <1>2. VectorsSound(array, vector) /\ IteratorGood(vector, cellIt)
    BY DEF VectorInv
  <1>3. VectorsSound(array', us) /\ Sets(vector, us, d, h)
    BY <1>1, <1>2, ReplacedSound, ReplacedPointwise
  <1>4. d \in With(us) /\ e \in With(us)
    BY <1>1, <1>3 DEF Sets
  <1>5. VectorsSound(array', vector') /\ Exchanged(us, vector', d, e)
    BY <1>1, <1>3, <1>4, SwappedSound
  <1> DEFINE j == Kept(us, cellIt)
             I == ItemsOf(array, vector)
             J == ItemsOf(array', us)
             C == CapacitiesOf(vector)
             D == CapacitiesOf(us)
             P == PositionOf(vector, cellIt)
             Q == PositionOf(us, j)
  <1>6. cellIt' = j
    BY <1>1, <1>4, <1>5, KeptSwapped
  <1>7. IteratorGood(us, j)
    BY <1>2, <1>3, KeptGood
  <1>8. Reads(array', h) = <<>>
    <2>1. Holds(array', h)
      BY <1>1 DEF Replaced
    <2>2. Reads(array', h) \in Seq(Values) /\ Len(Reads(array', h)) = 0
      BY <1>1, <2>1, ReadsType
    <2> HIDE DEF Reads
    <2> QED BY <2>2
  <1>9. J = [I EXCEPT ![d] = <<>>] /\ D = [C EXCEPT ![d] = 0]
    <2>1. ReplacesItems(array, vector, array', us, d, h)
      BY <1>1, <1>2, ReplacedItems
    <2> QED BY <1>1, <1>8, <2>1 DEF ReplacesItems
  <1>10. /\ ItemsOf(array', vector') = [J EXCEPT ![d] = J[e], ![e] = J[d]]
         /\ CapacitiesOf(vector') = [D EXCEPT ![d] = D[e], ![e] = D[d]]
    <2>1. ExchangesItems(array', us, vector', d, e)
      BY <1>4, <1>5, SwappedItems
    <2> QED BY <2>1 DEF ExchangesItems
  <1>11. Q = IF P # Nil /\ P[1] = d THEN Nil ELSE P
    BY <1>1, <1>2, ReallocatedPosition
  <1>12. PositionOf(vector', j) = IF Q = Nil THEN Nil
                                  ELSE IF Q[1] = d THEN <<e, Q[2]>>
                                  ELSE IF Q[1] = e THEN <<d, Q[2]>>
                                  ELSE Q
    BY <1>3, <1>4, <1>5, <1>7, SwappedPosition
  <1>13. /\ Vectors!Stored = I /\ Vectors!Capacities = C /\ Vectors!Position = P
         /\ Vectors!Stored' = ItemsOf(array', vector')
         /\ Vectors!Capacities' = CapacitiesOf(vector')
         /\ Vectors!Position' = PositionOf(vector', j)
    BY <1>6, SeenNow, SeenNext
  <1>14. DOMAIN I = Objects /\ DOMAIN C = Objects
    BY DEF ItemsOf, CapacitiesOf
  <1> HIDE DEF j, I, J, C, D, P, Q
  <1>15. Vectors!Stored' = [Vectors!Stored EXCEPT ![d] = Vectors!Stored[e], ![e] = <<>>]
    BY <1>1, <1>9, <1>10, <1>13, <1>14
  <1>16. Vectors!Capacities' = [Vectors!Capacities EXCEPT ![d] = Vectors!Capacities[e], ![e] = 0]
    BY <1>1, <1>9, <1>10, <1>13, <1>14
  <1>17. Vectors!Position' = IF P # Nil /\ P[1] = d THEN Nil
                             ELSE IF P # Nil /\ P[1] = e THEN <<d, P[2]>> ELSE P
    BY <1>11, <1>12, <1>13
  <1> QED BY <1>1, <1>13, <1>15, <1>16, <1>17 DEF Vectors!Abstract!Takes, Vectors!Abstract!At

LEMMA DestroyMaps ==
  ASSUME VectorInv, NEW d \in Objects, Vectors!Destroy(d)
  PROVE  d \in With(vector) /\ Vectors!Abstract!Reallocates(d, NoObject, NoObject)
  <1>1. /\ d \in With(vector)
        /\ vector' = [vector EXCEPT ![d] = NoObject]
        /\ DOMAIN array' = DOMAIN array \ {vector[d].elements}
        /\ \A a \in DOMAIN array' : array'[a] = array[a]
        /\ cellIt' = Kept(vector', cellIt)
    BY VectorDestroyStep
  <1>2. VectorsSound(array, vector) /\ IteratorGood(vector, cellIt)
    BY DEF VectorInv
  <1>3. VectorsSound(array', vector') /\ With(vector') = With(vector) \ {d}
    <2>1. VectorsSound(array', vector')
      BY <1>1, <1>2, DroppedSound
    <2>2. With(vector') = With(vector) \ {d}
      BY <1>1, <1>2 DEF VectorsSound, With
    <2> QED BY <2>1, <2>2
  <1>4. \A e \in With(vector) \ {d} : /\ vector'[e] = vector[e] /\ vector[e].elements # vector[d].elements
                                      /\ e \in Objects /\ vector[e].elements \in DOMAIN array
    BY <1>1, <1>2, WithType DEF VectorsSound
  <1>5. \A e \in With(vector) \ {d} : Reads(array', vector'[e]) = Reads(array, vector[e])
    BY <1>1, <1>4 DEF Reads
  <1> HIDE DEF Reads, With
  <1>6. ItemsOf(array', vector') = [ItemsOf(array, vector) EXCEPT ![d] = NoObject]
    BY <1>3, <1>5 DEF ItemsOf
  <1>7. CapacitiesOf(vector') = [CapacitiesOf(vector) EXCEPT ![d] = NoObject]
    BY <1>3, <1>4 DEF CapacitiesOf
  <1> DEFINE P == PositionOf(vector, cellIt)
  <1>8. PositionOf(vector', cellIt') = IF P # Nil /\ P[1] = d THEN Nil ELSE P
    <2>1. CASE cellIt = Nil
      BY <1>1, <2>1 DEF PositionOf, Kept
    <2>2. CASE cellIt # Nil
      <3>1. PICK g \in With(vector), n \in Nat : At(vector, cellIt, g, n)
        BY <1>2, <2>2 DEF IteratorGood
      <3>2. /\ cellIt = <<vector[g].elements, n>> /\ cellIt[1] = vector[g].elements /\ cellIt[2] = n
            /\ n <= vector[g].size
        BY <1>2, <3>1, WithType DEF At
      <3>3. P = <<g, n + 1>> /\ P # Nil
        BY <1>2, <3>2, IteratorAt
      <3> HIDE DEF P
      <3>4. CASE g = d
        <4>1. Kept(vector', cellIt) = Nil
          BY <1>3, <1>4, <3>2, <3>4 DEF Kept
        <4> QED BY <1>1, <3>3, <3>4, <4>1 DEF PositionOf
      <3>5. CASE g # d
        <4>1. g \in With(vector') /\ vector'[g] = vector[g]
          BY <1>3, <1>4, <3>5
        <4>2. Kept(vector', cellIt) = cellIt
          BY <2>2, <3>2, <4>1 DEF Kept
        <4>3. PositionOf(vector', cellIt) = <<g, n + 1>>
          BY <1>3, <3>2, <4>1, IteratorAt
        <4> QED BY <1>1, <3>3, <3>5, <4>2, <4>3
      <3> QED BY <3>4, <3>5
    <2> QED BY <2>1, <2>2
  <1> HIDE DEF P
  <1>9. Vectors!Position = P
    BY SeenNow DEF P
  <1>10. Vectors!Abstract!Reallocates(d, NoObject, NoObject)
    BY <1>6, <1>7, <1>8, <1>9, SeenNow, SeenNext DEF Vectors!Abstract!Reallocates, Vectors!Abstract!At
  <1> QED BY <1>1, <1>10

(* Next of AbstractVector, for one object. *)
VectorStepOf(d) ==
  \/ Vectors!Abstract!Construct(d) \/ Vectors!Abstract!Assign(d) \/ Vectors!Abstract!Destroy(d)
  \/ Vectors!Abstract!PushBack(d) \/ Vectors!Abstract!Reserve(d) \/ Vectors!Abstract!Shorten(d)
  \/ Vectors!Abstract!Modify(d) \/ Vectors!Abstract!Move(d)

VectorStutters ==
  /\ Vectors!Stored' = Vectors!Stored
  /\ Vectors!Capacities' = Vectors!Capacities
  /\ Vectors!Position' = Vectors!Position

(* The iterator is never past the end. *)
LEMMA PositionWithin ==
  ASSUME VectorInv, NEW d \in With(vector), Vectors!Position # Nil, Vectors!Position[1] = d
  PROVE  Vectors!Position[2] \in Nat /\ Vectors!Position[2] <= vector[d].size + 1
  <1>1. PICK e \in With(vector), n \in Nat :
          n \in 0..vector[e].size /\ Vectors!Position = <<e, n + 1>>
    BY PositionSeen
  <1>2. vector[d].size \in Nat /\ e = d
    BY <1>1, ElementsRead
  <1> QED BY <1>1, <1>2

(* A vector that keeps at least as many elements keeps the iterator. *)
LEMMA EditsInPlace ==
  ASSUME VectorInv, NEW d \in With(vector), NEW s \in Seq(Values), Len(s) >= vector[d].size, Edits(d, s)
  PROVE  /\ Vectors!Stored' = [Vectors!Stored EXCEPT ![d] = s]
         /\ Vectors!Capacities' = Vectors!Capacities
         /\ Vectors!Position' = Vectors!Position
  <1>1. vector[d].size \in Nat /\ Len(s) \in Nat
    BY ElementsRead
  <1>2. ~(/\ Vectors!Position # Nil /\ Vectors!Position[1] = d
          /\ Vectors!Position[2] > Len(s) + 1)
    BY <1>1, PositionWithin
  <1> QED BY <1>2 DEF Edits

LEMMA EditsNothing ==
  ASSUME VectorInv, NEW d \in With(vector), Edits(d, Vectors!Elements(d))
  PROVE  VectorStutters
  <1>1. /\ Vectors!Stored' = [Vectors!Stored EXCEPT ![d] = Vectors!Elements(d)]
        /\ Vectors!Capacities' = Vectors!Capacities
        /\ Vectors!Position' = Vectors!Position
    BY ElementsRead, EditsInPlace
  <1> QED BY <1>1, SeenOf DEF VectorStutters

LEMMA ConstructMaps ==
  ASSUME VectorInv, NEW d \in Objects, Vectors!Construct(d)
  PROVE  VectorStepOf(d)
  <1>1. d \notin With(vector)
    BY VectorConstructStep
  <1>2. PICK s \in Seq(Values) : Reallocated(d, s, Len(s))
    BY VectorConstructStep
  <1>3. Vectors!Abstract!Reallocates(d, s, Len(s))
    BY <1>2, ReallocatedMaps
  <1>4. Vectors!Stored'[d] = s
    BY <1>3, SeenNow DEF Vectors!Abstract!Reallocates, ItemsOf
  <1>5. Vectors!Abstract!Construct(d)
    BY <1>1, <1>3, <1>4, NotSeen DEF Vectors!Abstract!Construct
  <1> QED BY <1>5 DEF VectorStepOf

LEMMA MoveConstructMaps ==
  ASSUME VectorInv, NEW d \in Objects, NEW e \in Objects, Vectors!MoveConstruct(d, e)
  PROVE  VectorStepOf(d)
  <1>1. d \notin With(vector) /\ e \in With(vector) /\ Vectors!Abstract!Takes(d, e)
    BY VectorMoveConstructStep, MovedMaps
  <1>2. d \notin Vectors!Abstract!Live /\ e \in Vectors!Abstract!Live
    BY <1>1, NotSeen, SeenOf
  <1>3. Vectors!Abstract!Construct(d)
    BY <1>1, <1>2 DEF Vectors!Abstract!Construct
  <1> QED BY <1>3 DEF VectorStepOf

LEMMA MoveAssignMaps ==
  ASSUME VectorInv, NEW d \in Objects, NEW e \in Objects, Vectors!MoveAssign(d, e)
  PROVE  VectorStepOf(d) \/ VectorStutters
  <1>1. d \in With(vector) /\ e \in With(vector)
    BY VectorMoveAssignStep
  <1>2. d \in Vectors!Abstract!Live /\ e \in Vectors!Abstract!Live
    BY <1>1, SeenOf
  <1>3. CASE d = e
    <2>1. Changed(d, Vectors!Elements(d))
      BY <1>3, VectorMoveAssignStep
    <2> QED BY <1>1, <2>1, ChangedMaps, EditsNothing
  <1>4. CASE d # e
    <2>1. Moved(d, e)
      BY <1>4, VectorMoveAssignStep
    <2>2. Vectors!Abstract!Takes(d, e)
      BY <2>1, MovedMaps
    <2>3. Vectors!Abstract!Assign(d)
      BY <1>2, <1>4, <2>2 DEF Vectors!Abstract!Assign
    <2> QED BY <2>3 DEF VectorStepOf
  <1> QED BY <1>3, <1>4

LEMMA AssignMaps ==
  ASSUME VectorInv, NEW d \in Objects, NEW e \in Objects, Vectors!CopyAssign(d, e) \/ Vectors!Swap(d, e)
  PROVE  VectorStepOf(d)
  <1>1. CASE Vectors!CopyAssign(d, e)
    <2>1. /\ d \in With(vector) /\ e \in With(vector)
          /\ Reallocated(d, Vectors!Elements(e), Len(Vectors!Elements(e)))
      BY <1>1, VectorCopyAssignStep
    <2>2. /\ d \in Vectors!Abstract!Live /\ e \in Vectors!Abstract!Live
          /\ Vectors!Stored[e] = Vectors!Elements(e)
      BY <2>1, SeenOf
    <2>3. Vectors!Abstract!Reallocates(d, Vectors!Stored[e], Len(Vectors!Stored[e]))
      BY <2>1, <2>2, ReallocatedMaps
    <2>4. Vectors!Abstract!Assign(d)
      BY <2>2, <2>3 DEF Vectors!Abstract!Assign
    <2> QED BY <2>4 DEF VectorStepOf
  <1>2. CASE Vectors!Swap(d, e)
    <2>1. d \in With(vector) /\ e \in With(vector) /\ Vectors!Abstract!Swap(d, e)
      BY <1>2, SwapMaps
    <2>2. d \in Vectors!Abstract!Live /\ e \in Vectors!Abstract!Live
      BY <2>1, SeenOf
    <2>3. Vectors!Abstract!Assign(d)
      BY <2>1, <2>2 DEF Vectors!Abstract!Assign
    <2> QED BY <2>3 DEF VectorStepOf
  <1> QED BY <1>1, <1>2

LEMMA ReserveMaps ==
  ASSUME VectorInv, NEW d \in Objects, NEW n \in Nat, Vectors!Reserve(d, n)
  PROVE  VectorStepOf(d) \/ VectorStutters
  <1>1. d \in With(vector)
    BY VectorReserveStep
  <1>2. /\ Vectors!Elements(d) \in Seq(Values) /\ Len(Vectors!Elements(d)) = vector[d].size
        /\ vector[d].size \in Nat /\ vector[d].capacity \in Nat
    BY <1>1, ElementsRead
  <1>3. CASE n <= vector[d].capacity
    <2>1. Changed(d, SubSeq(Vectors!Elements(d), 1, vector[d].size))
      BY <1>3, VectorReserveStep
    <2>2. SubSeq(Vectors!Elements(d), 1, vector[d].size) = Vectors!Elements(d)
      BY <1>2
    <2> QED BY <1>1, <2>1, <2>2, ChangedMaps, EditsNothing
  <1>4. CASE ~(n <= vector[d].capacity)
    <2>1. Reallocated(d, Vectors!Elements(d), n)
      BY <1>4, VectorReserveStep
    <2>2. /\ d \in Vectors!Abstract!Live /\ Vectors!Stored[d] = Vectors!Elements(d)
          /\ Vectors!Capacities[d] = vector[d].capacity
      BY <1>1, SeenOf
    <2>3. Vectors!Abstract!Reallocates(d, Vectors!Stored[d], n)
      BY <2>1, <2>2, ReallocatedMaps
    <2>4. Vectors!Capacities'[d] = n
      BY <2>3, SeenNow DEF Vectors!Abstract!Reallocates, CapacitiesOf
    <2>5. Vectors!Abstract!Reserve(d)
      BY <1>2, <1>4, <2>2, <2>3, <2>4 DEF Vectors!Abstract!Reserve
    <2> QED BY <2>5 DEF VectorStepOf
  <1> QED BY <1>3, <1>4

LEMMA PushBackMaps ==
  ASSUME VectorInv, NEW d \in Objects, NEW v \in Values, Vectors!PushBack(d, v)
  PROVE  VectorStepOf(d)
  <1>1. d \in With(vector)
    BY VectorPushBackStep
  <1>2. /\ Vectors!Elements(d) \in Seq(Values) /\ Len(Vectors!Elements(d)) = vector[d].size
        /\ vector[d].size \in Nat /\ vector[d].capacity \in Nat
    BY <1>1, ElementsRead
  <1>3. /\ d \in Vectors!Abstract!Live /\ Vectors!Stored[d] = Vectors!Elements(d)
        /\ Vectors!Capacities[d] = vector[d].capacity
    BY <1>1, SeenOf
  <1>4. CASE vector[d].size < vector[d].capacity
    <2>1. Edits(d, Append(Vectors!Elements(d), v))
      BY <1>4, VectorPushBackStep, ChangedMaps
    <2>2. Append(Vectors!Elements(d), v) \in Seq(Values)
          /\ Len(Append(Vectors!Elements(d), v)) >= vector[d].size
      BY <1>2
    <2>3. /\ Vectors!Stored' = [Vectors!Stored EXCEPT ![d] = Append(Vectors!Elements(d), v)]
          /\ Vectors!Capacities' = Vectors!Capacities
          /\ Vectors!Position' = Vectors!Position
      BY <1>1, <2>1, <2>2, EditsInPlace
    <2>4. Vectors!Abstract!PushBack(d)
      BY <1>2, <1>3, <1>4, <2>3 DEF Vectors!Abstract!PushBack
    <2> QED BY <2>4 DEF VectorStepOf
  <1>5. CASE ~(vector[d].size < vector[d].capacity)
    <2>1. Vectors!Abstract!Reallocates(d, Append(Vectors!Elements(d), v),
                                       IF vector[d].capacity = 0 THEN 1 ELSE 2 * vector[d].capacity)
      BY <1>5, VectorPushBackStep, ReallocatedMaps
    <2>2. Vectors!Abstract!PushBack(d)
      BY <1>2, <1>3, <1>5, <2>1 DEF Vectors!Abstract!PushBack
    <2> QED BY <2>2 DEF VectorStepOf
  <1> QED BY <1>4, <1>5

(* PopBack and Clear *)
LEMMA ShortenMaps ==
  ASSUME VectorInv, NEW d \in Objects, Vectors!PopBack(d) \/ Vectors!Clear(d)
  PROVE  VectorStepOf(d)
  <1>1. /\ d \in With(vector)
        /\ \E n \in {vector[d].size - 1, 0} : n \in 0..vector[d].size
                                              /\ Changed(d, SubSeq(Vectors!Elements(d), 1, n))
    <2>1. CASE Vectors!PopBack(d)
      <3>1. PICK n \in 0..vector[d].size : /\ n = IF vector[d].size > 0 THEN vector[d].size - 1 ELSE 0
                                           /\ Changed(d, SubSeq(Vectors!Elements(d), 1, n))
        BY <2>1, VectorPopBackStep
      <3> QED BY <2>1, <3>1, VectorPopBackStep
    <2>2. CASE Vectors!Clear(d)
      <3>1. d \in With(vector) /\ Changed(d, SubSeq(Vectors!Elements(d), 1, 0))
        BY <2>2, VectorClearStep
      <3> QED BY <3>1, ElementsRead
    <2> QED BY <2>1, <2>2
  <1>2. PICK n \in {vector[d].size - 1, 0} : n \in 0..vector[d].size
                                             /\ Changed(d, SubSeq(Vectors!Elements(d), 1, n))
    BY <1>1
  <1>3. /\ Vectors!Elements(d) \in Seq(Values) /\ Len(Vectors!Elements(d)) = vector[d].size
        /\ vector[d].size \in Nat
    BY <1>1, ElementsRead
  <1> DEFINE s == SubSeq(Vectors!Elements(d), 1, n)
  <1>4. Len(s) = n
    BY <1>2, <1>3
  <1>5. Edits(d, s)
    BY <1>2, ChangedMaps
  <1>6. d \in Vectors!Abstract!Live /\ Vectors!Stored[d] = Vectors!Elements(d)
    BY <1>1, SeenOf
  <1>7. n \in {Len(Vectors!Stored[d]) - 1, 0}
    BY <1>2, <1>3, <1>6
  <1>8. s = SubSeq(Vectors!Stored[d], 1, n)
    BY <1>6
  <1> HIDE DEF s
  <1>9. /\ Vectors!Stored' = [Vectors!Stored EXCEPT ![d] = SubSeq(Vectors!Stored[d], 1, n)]
        /\ Vectors!Capacities' = Vectors!Capacities
        /\ Vectors!Position' = IF /\ Vectors!Position # Nil /\ Vectors!Position[1] = d
                                  /\ Vectors!Position[2] > n + 1 THEN Nil ELSE Vectors!Position
    BY <1>4, <1>5, <1>8 DEF Edits
  <1>10. Vectors!Abstract!Shorten(d)
    BY <1>6, <1>7, <1>9 DEF Vectors!Abstract!Shorten, Vectors!Abstract!At
  <1> QED BY <1>10 DEF VectorStepOf

LEMMA ModifyMaps ==
  ASSUME VectorInv, NEW d \in Objects, NEW i \in 1..MaxSize, NEW v \in Values, Vectors!Modify(d, i, v)
  PROVE  VectorStepOf(d)
  <1>1. d \in With(vector) /\ i \in 1..vector[d].size
    BY VectorModifyStep
  <1>2. Edits(d, [Vectors!Elements(d) EXCEPT ![i] = v])
    BY VectorModifyStep, ChangedMaps
  <1>3. /\ Vectors!Elements(d) \in Seq(Values) /\ Len(Vectors!Elements(d)) = vector[d].size
        /\ vector[d].size \in Nat
    BY <1>1, ElementsRead
  <1>4. /\ [Vectors!Elements(d) EXCEPT ![i] = v] \in Seq(Values)
        /\ Len([Vectors!Elements(d) EXCEPT ![i] = v]) = vector[d].size
    BY <1>1, <1>3
  <1>5. /\ Vectors!Stored' = [Vectors!Stored EXCEPT ![d] = [Vectors!Elements(d) EXCEPT ![i] = v]]
        /\ Vectors!Capacities' = Vectors!Capacities
        /\ Vectors!Position' = Vectors!Position
    BY <1>1, <1>2, <1>3, <1>4, EditsInPlace
  <1>6. d \in Vectors!Abstract!Live /\ Vectors!Stored[d] = Vectors!Elements(d)
    BY <1>1, SeenOf
  <1>7. i \in DOMAIN Vectors!Stored[d]
    BY <1>1, <1>3, <1>6
  <1>8. Vectors!Abstract!Modify(d)
    BY <1>5, <1>6, <1>7 DEF Vectors!Abstract!Modify
  <1> QED BY <1>8 DEF VectorStepOf

LEMMA MoveIteratorMaps ==
  ASSUME VectorInv, Vectors!MoveIterator
  PROVE  \E d \in Objects : VectorStepOf(d)
  <1>1. array' = array /\ vector' = vector
    BY DEF Vectors!MoveIterator
  <1>2. PICK d \in With(vector) : /\ cellIt # Nil => cellIt[1] = vector[d].elements
                                  /\ \E n \in 0..vector[d].size : cellIt' = <<vector[d].elements, n>>
    BY DEF Vectors!MoveIterator, Vectors!Constructed, With
  <1>3. PICK n \in 0..vector[d].size : cellIt' = <<vector[d].elements, n>>
    BY <1>2
  <1>4. VectorsSound(array, vector) /\ vector[d].size \in Nat /\ n \in Nat /\ d \in Objects
    BY <1>2, SeenOf, ElementsRead DEF VectorInv
  <1>5. Vectors!Stored' = Vectors!Stored /\ Vectors!Capacities' = Vectors!Capacities
    BY <1>1, SeenNow, SeenNext
  <1>6. Vectors!Position' = <<d, n + 1>>
    <2>1. PositionOf(vector, cellIt') = <<d, n + 1>>
      BY <1>2, <1>3, <1>4, IteratorAt
    <2> QED BY <1>1, <2>1, SeenNext
  <1>7. Vectors!Position = Nil \/ (Vectors!Position # Nil /\ Vectors!Position[1] = d)
    <2>1. CASE cellIt = Nil
      BY <2>1, SeenNow DEF PositionOf
    <2>2. CASE cellIt # Nil
      <3>1. PICK e \in With(vector), m \in Nat : At(vector, cellIt, e, m)
        BY <2>2 DEF VectorInv, IteratorGood
      <3>2. cellIt = <<vector[e].elements, m>> /\ cellIt[1] = vector[e].elements
        BY <3>1 DEF At
      <3>3. e = d
        BY <1>2, <1>4, <2>2, <3>2 DEF VectorsSound
      <3>4. PositionOf(vector, cellIt) = <<d, m + 1>> /\ PositionOf(vector, cellIt) # Nil
        BY <1>4, <3>2, <3>3, IteratorAt
      <3> QED BY <3>4, SeenNow
    <2> QED BY <2>1, <2>2
  <1>8. /\ d \in Vectors!Abstract!Live /\ Vectors!Stored[d] = Vectors!Elements(d)
        /\ Len(Vectors!Elements(d)) = vector[d].size
    BY <1>2, SeenOf, ElementsRead
  <1>9. n + 1 \in 1..Len(Vectors!Stored[d]) + 1
    BY <1>4, <1>8
  <1>10. Vectors!Abstract!Move(d)
    BY <1>5, <1>6, <1>7, <1>8, <1>9 DEF Vectors!Abstract!Move, Vectors!Abstract!At
  <1> QED BY <1>4, <1>10 DEF VectorStepOf

LEMMA ForgetMaps ==
  ASSUME VectorInv, Vectors!Forget
  PROVE  (\E d \in Objects : VectorStepOf(d)) \/ VectorStutters
  <1>1. array' = array /\ vector' = vector /\ cellIt' = Nil
    BY DEF Vectors!Forget
  <1>2. Vectors!Stored' = Vectors!Stored /\ Vectors!Capacities' = Vectors!Capacities
    BY <1>1, SeenNow, SeenNext
  <1>3. Vectors!Position' = Nil
    BY <1>1, SeenNext DEF PositionOf
  <1>4. CASE With(vector) = {}
    BY <1>2, <1>3, <1>4, PositionSeen DEF VectorStutters
  <1>5. CASE With(vector) # {}
    <2>1. PICK d \in With(vector) : TRUE
      BY <1>5
    <2>2. d \in Vectors!Abstract!Live /\ d \in Objects
      BY <2>1, SeenOf
    <2>3. Vectors!Abstract!Move(d)
      BY <1>2, <1>3, <2>2 DEF Vectors!Abstract!Move
    <2> QED BY <2>2, <2>3 DEF VectorStepOf
  <1> QED BY <1>4, <1>5

LEMMA VectorStepMaps ==
  ASSUME VectorInv, Vectors!Next
  PROVE  (\E d \in Objects : VectorStepOf(d)) \/ VectorStutters
  <1>1. ASSUME NEW d \in Objects, Vectors!Destroy(d) PROVE VectorStepOf(d)
    <2>1. d \in With(vector) /\ Vectors!Abstract!Reallocates(d, NoObject, NoObject)
      BY <1>1, DestroyMaps
    <2>2. Vectors!Abstract!Destroy(d)
      BY <2>1, SeenOf DEF Vectors!Abstract!Destroy
    <2> QED BY <2>2 DEF VectorStepOf
  <1>2. ASSUME NEW d \in Objects, NEW n \in 0..MaxCapacity, Vectors!Reserve(d, n)
        PROVE  VectorStepOf(d) \/ VectorStutters
    <2>1. n \in Nat
      BY VectorBounds DEF Vectors!BoundsAssumption
    <2> QED BY <1>2, <2>1, ReserveMaps
  <1>3. CASE Vectors!MoveIterator \/ Vectors!Forget
    BY <1>3, MoveIteratorMaps, ForgetMaps
  <1>4. CASE ~(Vectors!MoveIterator \/ Vectors!Forget)
    <2>1. PICK d \in Objects :
            \/ Vectors!Construct(d) \/ Vectors!Destroy(d) \/ Vectors!PopBack(d) \/ Vectors!Clear(d)
            \/ \E e \in Objects : \/ Vectors!MoveConstruct(d, e) \/ Vectors!CopyAssign(d, e)
                                  \/ Vectors!MoveAssign(d, e) \/ Vectors!Swap(d, e)
            \/ \E n \in 0..MaxCapacity : Vectors!Reserve(d, n)
            \/ \E v \in Values : \/ Vectors!PushBack(d, v)
                                 \/ \E i \in 1..MaxSize : Vectors!Modify(d, i, v)
      BY <1>4 DEF Vectors!Next
    <2>2. CASE Vectors!Construct(d) \/ Vectors!Destroy(d) \/ Vectors!PopBack(d) \/ Vectors!Clear(d)
      BY <2>2, <1>1, ConstructMaps, ShortenMaps
    <2>3. CASE \E e \in Objects : \/ Vectors!MoveConstruct(d, e) \/ Vectors!CopyAssign(d, e)
                                  \/ Vectors!MoveAssign(d, e) \/ Vectors!Swap(d, e)
      BY <2>3, MoveConstructMaps, AssignMaps, MoveAssignMaps
    <2>4. CASE \E n \in 0..MaxCapacity : Vectors!Reserve(d, n)
      BY <2>4, <1>2
    <2>5. CASE \E v \in Values : \/ Vectors!PushBack(d, v)
                                 \/ \E i \in 1..MaxSize : Vectors!Modify(d, i, v)
      BY <2>5, PushBackMaps, ModifyMaps
    <2> QED BY <2>1, <2>2, <2>3, <2>4, <2>5
  <1> QED BY <1>3, <1>4

LEMMA VectorInitMaps == Vectors!Init => Vectors!Abstract!Init
  <1> SUFFICES ASSUME Vectors!Init PROVE Vectors!Abstract!Init
    OBVIOUS
  <1>1. vector = [d \in Objects |-> NoObject] /\ cellIt = Nil
    BY DEF Vectors!Init
  <1>2. With(vector) = {}
    BY <1>1 DEF With
  <1>3. /\ Vectors!Stored = [d \in Objects |-> NoObject]
        /\ Vectors!Capacities = [d \in Objects |-> NoObject]
        /\ Vectors!Position = Nil
    BY <1>1, <1>2, SeenNow DEF ItemsOf, CapacitiesOf, PositionOf
  <1> QED BY <1>3 DEF Vectors!Abstract!Init

(* Every operation of a Vector is one on a sequence, for any number of     *)
(* vectors, values and sizes: an iterator is lost exactly when its vector  *)
(* has to reallocate, is assigned to or gets shorter, and moves along when *)
(* two vectors are exchanged or one is moved.                              *)
THEOREM VectorRefinement == Vectors!Spec => ImplementsVector
  <1>1. VectorInv /\ [Vectors!Next]_vectorVars => VectorInv'
    BY VectorNext
  <1>2. VectorInv /\ [Vectors!Next]_vectorVars
          => [Vectors!Abstract!Next]_(Vectors!Abstract!vars)
    <2> SUFFICES ASSUME VectorInv, [Vectors!Next]_vectorVars
                 PROVE  [Vectors!Abstract!Next]_(Vectors!Abstract!vars)
      OBVIOUS
    <2>1. CASE UNCHANGED vectorVars
      <3>1. array' = array /\ vector' = vector /\ cellIt' = cellIt
        BY <2>1 DEF vectorVars
      <3>2. VectorStutters
        BY <3>1, SeenNow, SeenNext DEF VectorStutters
      <3> QED BY <3>2 DEF VectorStutters, Vectors!Abstract!vars
    <2>2. CASE Vectors!Next
      <3>1. CASE \E d \in Objects : VectorStepOf(d)
        BY <3>1 DEF VectorStepOf, Vectors!Abstract!Next
      <3>2. CASE VectorStutters
        BY <3>2 DEF VectorStutters, Vectors!Abstract!vars
      <3> QED BY <2>2, <3>1, <3>2, VectorStepMaps
    <2> QED BY <2>1, <2>2
  <1> QED BY <1>1, <1>2, VectorInit, VectorInitMaps, PTL
          DEF Vectors!Spec, Vectors!vars, vectorVars, ImplementsVector, Vectors!ImplementsVector,
              Vectors!Abstract!Spec

-----------------------------------------------------------------------------
(* Any: the variables and a temporary, each with the chain of the holders  *)
(* in it, outermost first.                                                 *)
Temp == CHOOSE t : t \notin Objects

Owners == Objects \cup {Temp}

Link(s, i) == IF i \in 1..Len(s) THEN s[i] ELSE Nil

(* s is the chain that starts at a. *)
Linked(h, a, s) ==
  /\ a = Link(s, 1)
  /\ \A i \in 1..Len(s) : h[s[i]].x = Link(s, i + 1)

Words == Leaves \cup {X}

(* Owner d points to r[d] and has the chain C[d]. *)
Forest(h, r, C) ==
  /\ DOMAIN h \subseteq HolderAddresses
  /\ \A a \in DOMAIN h : h[a].value \in Words
  /\ C \in [Owners -> Seq(DOMAIN h)]
  /\ \A d \in Owners : Len(C[d]) <= MaxNesting /\ Linked(h, r[d], C[d])
  /\ \A d, e \in Owners : \A i \in 1..Len(C[d]), j \in 1..Len(C[e]) :
       C[d][i] = C[e][j] => d = e /\ i = j
  /\ \A a \in DOMAIN h : \E d \in Owners : \E i \in 1..Len(C[d]) : C[d][i] = a

WordOf(h, s) == [i \in 1..Len(s) |-> h[s[i]].value]

LEMMA TempFresh == Temp \notin Objects /\ Temp \in Owners /\ Objects \subseteq Owners
  <1>1. \E t : t \notin Objects
    BY NoSetContainsEverything
  <1> QED BY <1>1 DEF Temp, Owners

LEMMA NestingBound == MaxNesting \in Nat \ {0}
  BY AnyBounds DEF Anys!BoundsAssumption

LEMMA NilNoHolder == Nil \notin HolderAddresses /\ NoObject \notin HolderAddresses \cup {Nil}
  BY AnyNames DEF Anys!NamesAssumption

LEMMA ForestType ==
  ASSUME NEW h, NEW r, NEW C, Forest(h, r, C), NEW d \in Owners
  PROVE  /\ C[d] \in Seq(DOMAIN h) /\ Len(C[d]) \in Nat /\ Len(C[d]) <= MaxNesting
         /\ DOMAIN C[d] = 1..Len(C[d])
         /\ \A i \in 1..Len(C[d]) : /\ C[d][i] \in DOMAIN h /\ C[d][i] \in HolderAddresses
                                    /\ C[d][i] # Nil
                                    /\ h[C[d][i]].value \in Words
                                    /\ h[C[d][i]].x = Link(C[d], i + 1)
         /\ r[d] = Link(C[d], 1)
         /\ \A i : Link(C[d], i) \in DOMAIN h \cup {Nil}
  <1>1. C[d] \in Seq(DOMAIN h)
    BY DEF Forest
  <1>2. Len(C[d]) \in Nat /\ DOMAIN C[d] = 1..Len(C[d])
    BY <1>1
  <1>3. \A i \in 1..Len(C[d]) : C[d][i] \in DOMAIN h
    BY <1>1
  <1>4. \A i \in 1..Len(C[d]) : /\ C[d][i] \in HolderAddresses /\ C[d][i] # Nil
                                /\ h[C[d][i]].value \in Words
    <2>1. DOMAIN h \subseteq HolderAddresses /\ \A a \in DOMAIN h : h[a].value \in Words
      BY DEF Forest
    <2> QED BY <2>1, <1>3, NilNoHolder
  <1>5. Linked(h, r[d], C[d]) /\ Len(C[d]) <= MaxNesting
    BY DEF Forest
  <1> QED BY <1>1, <1>2, <1>3, <1>4, <1>5 DEF Linked, Link

LEMMA WordType ==
  ASSUME NEW h, NEW r, NEW C, Forest(h, r, C), NEW d \in Owners
  PROVE  /\ WordOf(h, C[d]) \in Seq(Words) /\ Len(WordOf(h, C[d])) = Len(C[d])
         /\ DOMAIN WordOf(h, C[d]) = 1..Len(C[d])
  <1>1. Len(C[d]) \in Nat /\ \A i \in 1..Len(C[d]) : h[C[d][i]].value \in Words
    BY ForestType
  <1>2. WordOf(h, C[d]) \in [1..Len(C[d]) -> Words]
    BY <1>1 DEF WordOf
  <1>3. WordOf(h, C[d]) \in Seq(Words)
    BY <1>1, <1>2
  <1> QED BY <1>1, <1>2, <1>3

LEMMA ForestApart ==
  ASSUME NEW h, NEW r, NEW C, Forest(h, r, C), NEW d \in Owners, NEW e \in Owners,
         NEW i \in 1..Len(C[d]), NEW j \in 1..Len(C[e]), C[d][i] = C[e][j]
  PROVE  d = e /\ i = j
  <1>1. \A o, p \in Owners : \A a \in 1..Len(C[o]), b \in 1..Len(C[p]) :
          C[o][a] = C[p][b] => o = p /\ a = b
    BY DEF Forest
  <1> QED BY <1>1

LEMMA FunctionIsSeq ==
  ASSUME NEW S, NEW n \in Nat, NEW f \in [1..n -> S]
  PROVE  f \in Seq(S) /\ Len(f) = n
  OBVIOUS

(* What one owner has, the other gets. *)
Traded(r, q, d, e) ==
  /\ q[d] = r[e] /\ q[e] = r[d]
  /\ \A o \in Owners \ {d, e} : q[o] = r[o]

LEMMA TradeKeeps ==
  ASSUME NEW h, NEW r, NEW C, Forest(h, r, C), NEW d \in Owners, NEW e \in Owners,
         NEW q, Traded(r, q, d, e)
  PROVE  \E E : Forest(h, q, E) /\ Traded(C, E, d, e)
  <1> DEFINE E == [C EXCEPT ![d] = C[e], ![e] = C[d]]
             f(o) == IF o = d THEN e ELSE IF o = e THEN d ELSE o
  <1>1. C \in [Owners -> Seq(DOMAIN h)]
    BY DEF Forest
  <1>2. E \in [Owners -> Seq(DOMAIN h)] /\ Traded(C, E, d, e)
    BY <1>1 DEF Traded
  <1>3. \A o \in Owners : f(o) \in Owners /\ E[o] = C[f(o)] /\ q[o] = r[f(o)]
    BY <1>1 DEF Traded
  <1>4. \A o, p \in Owners : f(o) = f(p) => o = p
    OBVIOUS
  <1>5. \A o \in Owners : f(f(o)) = o
    OBVIOUS
  <1> HIDE DEF E, f
  <1>6. \A o \in Owners : Len(E[o]) <= MaxNesting /\ Linked(h, q[o], E[o])
    <2> TAKE o \in Owners
    <2>1. Len(C[f(o)]) <= MaxNesting /\ Linked(h, r[f(o)], C[f(o)])
      BY <1>3 DEF Forest
    <2> QED BY <2>1, <1>3
  <1>7. ASSUME NEW o \in Owners, NEW p \in Owners,
               NEW i \in 1..Len(E[o]), NEW j \in 1..Len(E[p]), E[o][i] = E[p][j]
        PROVE  o = p /\ i = j
    <2>1. f(o) = f(p) /\ i = j
      <3>1. E[o] = C[f(o)] /\ E[p] = C[f(p)] /\ f(o) \in Owners /\ f(p) \in Owners
        BY <1>3
      <3>2. i \in 1..Len(C[f(o)]) /\ j \in 1..Len(C[f(p)]) /\ C[f(o)][i] = C[f(p)][j]
        BY <1>7, <3>1
      <3> QED BY <3>1, <3>2, ForestApart
    <2> QED BY <2>1, <1>4
  <1>8. ASSUME NEW a \in DOMAIN h
        PROVE  \E o \in Owners : \E i \in 1..Len(E[o]) : E[o][i] = a
    <2>1. PICK o \in Owners : \E i \in 1..Len(C[o]) : C[o][i] = a
      BY DEF Forest
    <2>2. f(o) \in Owners /\ E[f(o)] = C[o]
      BY <1>3, <1>5
    <2> QED BY <2>1, <2>2
  <1>9. Forest(h, q, E)
    BY <1>2, <1>6, <1>7, <1>8 DEF Forest
  <1> QED BY <1>2, <1>9

(* d is deleted. *)
Emptied(r, q, d, none) == q[d] = none /\ \A o \in Owners \ {d} : q[o] = r[o]

LEMMA DropKeeps ==
  ASSUME NEW h, NEW r, NEW C, Forest(h, r, C), NEW d \in Owners,
         NEW q, Emptied(r, q, d, Nil),
         NEW g, DOMAIN g = DOMAIN h \ {C[d][i] : i \in 1..Len(C[d])},
         \A a \in DOMAIN g : g[a] = h[a]
  PROVE  \E E : /\ Forest(g, q, E) /\ Emptied(C, E, d, <<>>)
                /\ \A o \in Owners : WordOf(g, E[o]) = WordOf(h, E[o])
  <1> DEFINE E == [o \in Owners |-> IF o = d THEN <<>> ELSE C[o]]
  <1>1. E[d] = <<>> /\ Len(E[d]) = 0 /\ \A o \in Owners \ {d} : E[o] = C[o]
    OBVIOUS
  <1>2. Emptied(C, E, d, <<>>)
    BY <1>1 DEF Emptied
  <1>3. ASSUME NEW o \in Owners, o # d
        PROVE  \A i \in 1..Len(C[o]) : C[o][i] \in DOMAIN g
    <2> TAKE i \in 1..Len(C[o])
    <2>1. C[o][i] \in DOMAIN h
      BY ForestType
    <2>2. \A j \in 1..Len(C[d]) : C[o][i] # C[d][j]
      BY <1>3 DEF Forest
    <2> QED BY <2>1, <2>2
  <1>4. ASSUME NEW o \in Owners PROVE E[o] \in Seq(DOMAIN g)
    <2>1. CASE o # d
      <3>1. Len(C[o]) \in Nat /\ C[o] \in Seq(DOMAIN h) /\ C[o] = [i \in 1..Len(C[o]) |-> C[o][i]]
        BY ForestType
      <3>2. C[o] \in [1..Len(C[o]) -> DOMAIN g]
        BY <3>1, <2>1, <1>3
      <3>3. C[o] \in Seq(DOMAIN g)
        BY <3>1, <3>2, FunctionIsSeq
      <3> QED BY <3>3, <2>1, <1>1
    <2> QED BY <2>1, <1>1
  <1>5. E \in [Owners -> Seq(DOMAIN g)]
    BY <1>4
  <1> HIDE DEF E
  <1>6. ASSUME NEW o \in Owners PROVE Len(E[o]) <= MaxNesting /\ Linked(g, q[o], E[o])
    <2>1. CASE o = d
      BY <2>1, <1>1, NestingBound DEF Linked, Link, Emptied
    <2>2. CASE o # d
      <3>1. Len(C[o]) <= MaxNesting /\ Linked(h, r[o], C[o])
        BY DEF Forest
      <3>2. \A i \in 1..Len(C[o]) : g[C[o][i]] = h[C[o][i]]
        BY <2>2, <1>3
      <3>3. Linked(g, r[o], C[o])
        BY <3>1, <3>2 DEF Linked
      <3> QED BY <3>1, <3>3, <2>2, <1>1 DEF Emptied
    <2> QED BY <2>1, <2>2
  <1>7. ASSUME NEW o \in Owners, NEW p \in Owners,
               NEW i \in 1..Len(E[o]), NEW j \in 1..Len(E[p]), E[o][i] = E[p][j]
        PROVE  o = p /\ i = j
    <2>1. o # d /\ p # d
      BY <1>1
    <2>2. E[o] = C[o] /\ E[p] = C[p]
      BY <2>1, <1>1
    <2> QED BY <2>2, <1>7 DEF Forest
  <1>8. ASSUME NEW a \in DOMAIN g
        PROVE  \E o \in Owners : \E i \in 1..Len(E[o]) : E[o][i] = a
    <2>1. PICK o \in Owners : \E i \in 1..Len(C[o]) : C[o][i] = a
      BY DEF Forest
    <2>2. o # d
      BY <2>1
    <2> QED BY <2>1, <2>2, <1>1
  <1>9. Forest(g, q, E)
    <2>1. DOMAIN g \subseteq HolderAddresses /\ \A a \in DOMAIN g : g[a].value \in Words
      BY DEF Forest
    <2> QED BY <2>1, <1>5, <1>6, <1>7, <1>8 DEF Forest
  <1>10. ASSUME NEW o \in Owners PROVE WordOf(g, E[o]) = WordOf(h, E[o])
    <2>1. \A i \in 1..Len(E[o]) : g[E[o][i]] = h[E[o][i]]
      BY <1>9, ForestType
    <2> QED BY <2>1 DEF WordOf
  <1> QED BY <1>2, <1>9, <1>10

LEMMA AnyLeastNumber ==
  ASSUME NEW T, T \subseteq Nat, T # {}
  PROVE  \E n \in T : \A m \in T : n <= m
  <1> DEFINE less == {p \in Nat \X Nat : p[1] < p[2]}
  <1>1. IsWellFoundedOn(less, Nat)
    BY NatLessThanWellFounded, Zenon DEF OpToRel, less
  <1>2. PICK x \in T : \A y \in T : ~(<<y, x>> \in less)
    BY <1>1, WFMin, Zenon
  <1>3. ASSUME NEW y \in T PROVE x <= y
    <2>1. x \in Nat /\ y \in Nat /\ ~(<<y, x>> \in less)
      BY <1>2
    <2> QED BY <2>1
  <1> QED BY <1>3

LEMMA AnySetInduction ==
  ASSUME NEW T, 0 \in T, \A n \in Nat : n \in T => n + 1 \in T
  PROVE  Nat \subseteq T
  <1>1. SUFFICES ASSUME Nat \ T # {} PROVE FALSE
    OBVIOUS
  <1>2. PICK n \in Nat \ T : \A m \in Nat \ T : n <= m
    BY <1>1, AnyLeastNumber
  <1>3. n - 1 \in Nat /\ n - 1 + 1 = n
    BY <1>2
  <1> QED BY <1>2, <1>3

Injective(f, n) == \A i, j \in 1..n : f[i] = f[j] => i = j

(* n different elements of a set that has so many. *)
LEMMA DistinctNames ==
  ASSUME NEW S, NEW n \in Nat, IsFiniteSet(S) => Cardinality(S) >= n
  PROVE  \E f \in [1..n -> S] : Injective(f, n)
  <1> DEFINE Room(m) == IsFiniteSet(S) => Cardinality(S) >= m
             Found(m) == \E f \in [1..m -> S] : Injective(f, m)
             T == {m \in Nat : Room(m) => Found(m)}
  <1>1. 0 \in T
    <2>1. <<>> \in [1..0 -> S] /\ Injective(<<>>, 0)
      BY DEF Injective
    <2> QED BY <2>1
  <1>2. ASSUME NEW m \in Nat, m \in T PROVE m + 1 \in T
    <2>1. SUFFICES ASSUME Room(m + 1) PROVE Found(m + 1)
      OBVIOUS
    <2>2. Room(m)
      <3>1. IsFiniteSet(S) => Cardinality(S) \in Nat
        BY FS_CardinalityType
      <3> QED BY <2>1, <3>1
    <2>3. PICK f \in [1..m -> S] : Injective(f, m)
      BY <1>2, <2>2
    <2> DEFINE I == {f[i] : i \in 1..m}
    <2>4. IsFiniteSet(1..m) /\ Cardinality(1..m) = m
      BY FS_Interval
    <2>5. IsFiniteSet(I) /\ Cardinality(I) <= m /\ Cardinality(I) \in Nat
      BY <2>4, ImageSize
    <2>6. PICK x \in S : x \notin I
      <3>1. SUFFICES ASSUME S \subseteq I PROVE FALSE
        OBVIOUS
      <3>2. S = I
        BY <3>1, <2>3
      <3> HIDE DEF I
      <3> QED BY <3>2, <2>1, <2>5
    <2> DEFINE g == [i \in 1..(m + 1) |-> IF i = m + 1 THEN x ELSE f[i]]
    <2>7. g \in [1..(m + 1) -> S]
      BY <2>3, <2>6
    <2>8. Injective(g, m + 1)
      BY <2>3, <2>6 DEF Injective
    <2> HIDE DEF g
    <2> QED BY <2>7, <2>8
  <1> HIDE DEF T
  <1>3. \A m \in Nat : m \in T => m + 1 \in T
    BY <1>2
  <1>4. n \in T
    BY <1>1, <1>3, AnySetInduction
  <1> QED BY <1>4 DEF T

LEMMA IntervalSize ==
  ASSUME NEW n \in Nat
  PROVE  IsFiniteSet(1..n) /\ Cardinality(1..n) = n
  BY FS_Interval

LEMMA UnionSize ==
  ASSUME NEW S, IsFiniteSet(S), NEW T, IsFiniteSet(T)
  PROVE  /\ IsFiniteSet(S \cup T) /\ Cardinality(S \cup T) \in Nat
         /\ Cardinality(S) \in Nat /\ Cardinality(T) \in Nat
         /\ Cardinality(S \cup T) <= Cardinality(S) + Cardinality(T)
  <1>1. /\ IsFiniteSet(S \cup T)
        /\ Cardinality(S \cup T) = Cardinality(S) + Cardinality(T) - Cardinality(S \cap T)
    BY FS_Union
  <1>2. Cardinality(S \cap T) \in Nat
    BY FS_Intersection, FS_CardinalityType
  <1>3. Cardinality(S) \in Nat /\ Cardinality(T) \in Nat /\ Cardinality(S \cup T) \in Nat
    BY <1>1, FS_CardinalityType
  <1> QED BY <1>1, <1>2, <1>3

LEMMA HolderRoom ==
  ASSUME NEW h, NEW r, NEW C, Forest(h, r, C),
         NEW n \in Nat, n + Len(C[Temp]) <= MaxNesting
  PROVE  \E new \in [1..n -> HolderAddresses \ DOMAIN h] : Injective(new, n)
  <1> DEFINE S == HolderAddresses \ DOMAIN h
             P == Objects \X (1..MaxNesting)
             f == [p \in P |-> C[p[1]][p[2]]]
             A == {f[p] : p \in P}
             B == {C[Temp][i] : i \in 1..Len(C[Temp])}
             c == Cardinality(Objects) * MaxNesting
             l == Len(C[Temp])
  <1>1. MaxNesting \in Nat /\ l \in Nat
    BY NestingBound, TempFresh, ForestType
  <1>2. IsFiniteSet(P) /\ Cardinality(P) = c /\ c \in Nat
    <2>1. IsFiniteSet(1..MaxNesting) /\ Cardinality(1..MaxNesting) = MaxNesting
      BY <1>1, IntervalSize
    <2>2. IsFiniteSet(P) /\ Cardinality(P) = c
      BY AnyRoom, <2>1, FS_Product
    <2> QED BY <2>2, FS_CardinalityType
  <1>3. IsFiniteSet(HolderAddresses) => Cardinality(HolderAddresses) >= c + MaxNesting
    <2>1. Cardinality(Objects) \in Nat
      BY AnyRoom, FS_CardinalityType
    <2>2. (Cardinality(Objects) + 1) * MaxNesting = c + MaxNesting
      BY <1>1, <2>1
    <2> QED BY <2>2, AnyRoom
  <1>4. IsFiniteSet(A) /\ Cardinality(A) \in Nat /\ Cardinality(A) <= c
    <2> HIDE DEF P, f, c
    <2> QED BY <1>2, ImageSize
  <1>5. IsFiniteSet(B) /\ Cardinality(B) \in Nat /\ Cardinality(B) <= l
    <2>1. IsFiniteSet(1..l) /\ Cardinality(1..l) = l
      BY <1>1, IntervalSize
    <2> QED BY <2>1, ImageSize
  <1>6. DOMAIN h \subseteq A \cup B
    <2>1. SUFFICES ASSUME NEW a \in DOMAIN h, a \notin B PROVE a \in A
      OBVIOUS
    <2>2. PICK d \in Owners : \E i \in 1..Len(C[d]) : C[d][i] = a
      BY DEF Forest
    <2>3. PICK i \in 1..Len(C[d]) : C[d][i] = a
      BY <2>2
    <2>4. d \in Objects
      BY <2>1, <2>3 DEF Owners
    <2>5. i \in 1..MaxNesting
      BY <1>1, ForestType
    <2>6. <<d, i>> \in P /\ f[<<d, i>>] = a
      BY <2>3, <2>4, <2>5
    <2> HIDE DEF P, f
    <2> QED BY <2>6
  <1>7. S \cup DOMAIN h = HolderAddresses
    BY DEF Forest
  <1> HIDE DEF S, P, f, A, B, c, l
  <1>8. /\ IsFiniteSet(DOMAIN h) /\ Cardinality(DOMAIN h) \in Nat
        /\ Cardinality(DOMAIN h) <= c + l
    <2>1. /\ IsFiniteSet(A \cup B) /\ Cardinality(A \cup B) \in Nat
          /\ Cardinality(A \cup B) <= Cardinality(A) + Cardinality(B)
      BY <1>4, <1>5, UnionSize
    <2>2. IsFiniteSet(DOMAIN h) /\ Cardinality(DOMAIN h) <= Cardinality(A \cup B)
      BY <1>6, <2>1, FS_Subset
    <2>3. Cardinality(DOMAIN h) \in Nat
      BY <2>2, FS_CardinalityType
    <2> QED BY <1>1, <1>2, <1>4, <1>5, <2>1, <2>2, <2>3
  <1>9. ASSUME IsFiniteSet(S) PROVE Cardinality(S) >= n
    <2>1. /\ IsFiniteSet(HolderAddresses) /\ Cardinality(HolderAddresses) \in Nat
          /\ Cardinality(S) \in Nat
          /\ Cardinality(HolderAddresses) <= Cardinality(S) + Cardinality(DOMAIN h)
      BY <1>7, <1>8, <1>9, UnionSize
    <2>2. n + l <= MaxNesting
      BY DEF l
    <2> QED BY <1>1, <1>2, <1>3, <1>8, <2>1, <2>2
  <1>10. \E new \in [1..n -> S] : Injective(new, n)
    BY <1>9, DistinctNames
  <1> QED BY <1>10 DEF S

ChainAt(h, a) ==
  LET Below == [b \in DOMAIN h \cup {Nil} |-> IF b = Nil THEN Nil ELSE h[b].x]
      at[n \in 1..MaxNesting] == IF n = 1 THEN a ELSE Below[at[n - 1]]
  IN  at

DepthOf(at) == CHOOSE k \in 0..MaxNesting : \A n \in 1..MaxNesting : at[n] # Nil <=> n <= k

LEMMA ChainAtIs ==
  ASSUME NEW h, NEW a, NEW s \in Seq(DOMAIN h), Nil \notin DOMAIN h, Linked(h, a, s),
         NEW n \in 1..MaxNesting
  PROVE  ChainAt(h, a)[n] = Link(s, n)
  <1> DEFINE M == MaxNesting
             Below == [b \in DOMAIN h \cup {Nil} |-> IF b = Nil THEN Nil ELSE h[b].x]
             Is(f) == f = [k \in 1..M |-> IF k = 1 THEN a ELSE Below[f[k - 1]]]
             w == [k \in 1..M |-> Link(s, k)]
             v == ChainAt(h, a)
  <1>1. M \in Nat /\ M # 0
    BY NestingBound
  <1>2. Len(s) \in Nat /\ \A i \in 1..Len(s) : s[i] \in DOMAIN h
    OBVIOUS
  <1>3. a = Link(s, 1)
    BY DEF Linked
  <1>4. ASSUME NEW k \in Nat, k # 0 PROVE Below[Link(s, k)] = Link(s, k + 1)
    <2>1. CASE k \in 1..Len(s)
      <3>1. Link(s, k) = s[k] /\ s[k] \in DOMAIN h /\ s[k] # Nil
        BY <2>1, <1>2 DEF Link
      <3>2. h[s[k]].x = Link(s, k + 1)
        BY <2>1 DEF Linked
      <3> QED BY <3>1, <3>2
    <2>2. CASE k \notin 1..Len(s)
      <3>1. Link(s, k) = Nil /\ Link(s, k + 1) = Nil
        BY <2>2, <1>2, <1>4 DEF Link
      <3> QED BY <3>1
    <2> QED BY <2>1, <2>2
  <1> HIDE DEF Below
  <1>5. Is(w)
    <2>1. ASSUME NEW k \in 1..M PROVE w[k] = IF k = 1 THEN a ELSE Below[w[k - 1]]
      <3>1. CASE k = 1
        BY <1>1, <1>3, <3>1
      <3>2. CASE k # 1
        <4>1. k - 1 \in 1..M /\ k - 1 + 1 = k /\ k - 1 \in Nat /\ k - 1 # 0
          BY <1>1, <3>2
        <4>2. w[k - 1] = Link(s, k - 1) /\ w[k] = Link(s, k)
          BY <4>1
        <4>3. Below[Link(s, k - 1)] = Link(s, k)
          BY <4>1, <1>4
        <4> HIDE DEF w
        <4> QED BY <3>2, <4>2, <4>3
      <3> QED BY <3>1, <3>2
    <2>2. w = [k \in 1..M |-> w[k]]
      OBVIOUS
    <2> HIDE DEF w
    <2>3. [k \in 1..M |-> w[k]] = [k \in 1..M |-> IF k = 1 THEN a ELSE Below[w[k - 1]]]
      BY <2>1
    <2> QED BY <2>2, <2>3
  <1>6. Is(v)
    <2>1. \E f : Is(f)
      <3> HIDE DEF Is, w
      <3> QED BY <1>5
    <2>2. v = CHOOSE f : Is(f)
      BY DEF ChainAt, Below
    <2> HIDE DEF Is, v
    <2> QED BY <2>1, <2>2
  <1> HIDE DEF v
  <1> DEFINE T == {k \in Nat : k + 1 \in 1..M => v[k + 1] = Link(s, k + 1)}
  <1>7. 0 \in T
    <2>1. v[1] = a
      BY <1>1, <1>6
    <2> QED BY <2>1, <1>3
  <1>8. ASSUME NEW k \in Nat, k \in T PROVE k + 1 \in T
    <2>1. SUFFICES ASSUME k + 1 + 1 \in 1..M PROVE v[k + 1 + 1] = Link(s, k + 1 + 1)
      OBVIOUS
    <2>2. k + 1 \in 1..M /\ k + 1 + 1 # 1 /\ k + 1 + 1 - 1 = k + 1 /\ k + 1 \in Nat /\ k + 1 # 0
      BY <1>1, <2>1
    <2>3. v[k + 1 + 1] = Below[v[k + 1]]
      BY <1>6, <2>1, <2>2
    <2>4. v[k + 1] = Link(s, k + 1)
      BY <1>8, <2>2
    <2>5. Below[Link(s, k + 1)] = Link(s, k + 1 + 1)
      BY <1>4, <2>2
    <2> QED BY <2>3, <2>4, <2>5
  <1> HIDE DEF T
  <1>9. \A k \in Nat : k \in T => k + 1 \in T
    BY <1>8
  <1>10. n - 1 \in Nat /\ n - 1 + 1 = n /\ n \in 1..M
    BY <1>1
  <1>11. n - 1 \in T
    BY <1>7, <1>9, <1>10, AnySetInduction
  <1>12. v[n] = Link(s, n)
    BY <1>10, <1>11 DEF T
  <1> QED BY <1>12 DEF v

LEMMA ChainIs ==
  ASSUME NEW h, NEW a, NEW s \in Seq(DOMAIN h), Nil \notin DOMAIN h, Linked(h, a, s),
         Len(s) <= MaxNesting
  PROVE  Anys!Chain(h, a) = s
  <1> DEFINE at == ChainAt(h, a)
             k == DepthOf(at)
  <1>1. MaxNesting \in Nat /\ MaxNesting # 0
    BY NestingBound
  <1>2. Len(s) \in Nat /\ (\A i \in 1..Len(s) : s[i] \in DOMAIN h) /\ s = [i \in 1..Len(s) |-> s[i]]
    OBVIOUS
  <1>3. \A n \in 1..MaxNesting : at[n] = Link(s, n)
    BY ChainAtIs
  <1>4. Anys!Chain(h, a) = [n \in 1..k |-> at[n]]
    BY DEF Anys!Chain, ChainAt, DepthOf
  <1> HIDE DEF at
  <1>5. \A n \in 1..MaxNesting : at[n] # Nil <=> n <= Len(s)
    BY <1>2, <1>3 DEF Link
  <1>6. Len(s) \in 0..MaxNesting
    BY <1>1, <1>2
  <1>7. k \in 0..MaxNesting /\ \A n \in 1..MaxNesting : at[n] # Nil <=> n <= k
    BY <1>5, <1>6 DEF DepthOf
  <1> HIDE DEF k
  <1>8. k = Len(s)
    <2>1. SUFFICES ASSUME k # Len(s) PROVE FALSE
      OBVIOUS
    <2>2. CASE k < Len(s)
      <3>1. Len(s) \in 1..MaxNesting /\ ~(Len(s) <= k)
        BY <2>2, <1>6, <1>7
      <3> QED BY <3>1, <1>5, <1>7
    <2>3. CASE k > Len(s)
      <3>1. k \in 1..MaxNesting /\ ~(k <= Len(s))
        BY <2>3, <1>6, <1>7
      <3> QED BY <3>1, <1>5, <1>7
    <2> QED BY <2>1, <2>2, <2>3, <1>6, <1>7
  <1>9. \A n \in 1..Len(s) : at[n] = s[n]
    BY <1>1, <1>2, <1>3, <1>6 DEF Link
  <1>10. [n \in 1..k |-> at[n]] = [n \in 1..Len(s) |-> s[n]]
    BY <1>8, <1>9
  <1> QED BY <1>2, <1>4, <1>10

LEMMA ForestChain ==
  ASSUME NEW h, NEW r, NEW C, Forest(h, r, C), NEW d \in Owners
  PROVE  Anys!Chain(h, r[d]) = C[d]
  <1>1. C[d] \in Seq(DOMAIN h) /\ Len(C[d]) <= MaxNesting /\ Linked(h, r[d], C[d])
    BY DEF Forest
  <1>2. Nil \notin DOMAIN h
    BY NilNoHolder DEF Forest
  <1> QED BY <1>1, <1>2, ChainIs

(* The chain from the i-th holder of d on. *)
After(s, i) == [j \in 1..(Len(s) - i) |-> s[i + j]]

LEMMA ForestPart ==
  ASSUME NEW h, NEW r, NEW C, Forest(h, r, C), NEW d \in Owners, NEW i \in 1..Len(C[d])
  PROVE  /\ Anys!Chain(h, h[C[d][i]].x) = After(C[d], i)
         /\ Len(C[d]) - i \in Nat
  <1> DEFINE s == C[d]
             n == Len(s) - i
             u == After(s, i)
  <1>1. /\ Len(s) \in Nat /\ Len(s) <= MaxNesting /\ i \in Nat /\ i <= Len(s) /\ i # 0
        /\ \A j \in 1..Len(s) : s[j] \in DOMAIN h /\ h[s[j]].x = Link(s, j + 1)
        /\ h[s[i]].x = Link(s, i + 1)
    BY ForestType
  <1>2. n \in Nat /\ n <= MaxNesting
    BY <1>1, NestingBound
  <1>3. \A j \in 1..n : i + j \in 1..Len(s) /\ i + j \in Nat
    BY <1>1
  <1> HIDE DEF s
  <1>4. u \in [1..n -> DOMAIN h]
    BY <1>1, <1>3 DEF After
  <1>5. u \in Seq(DOMAIN h) /\ Len(u) = n
    BY <1>2, <1>4
  <1>6. \A j \in 1..n : u[j] = s[i + j]
    BY DEF After
  <1> HIDE DEF u
  <1>7. \A j \in Nat \ {0} : Link(u, j) = Link(s, i + j)
    BY <1>1, <1>5, <1>6 DEF Link
  <1>8. Linked(h, h[s[i]].x, u)
    <2>1. h[s[i]].x = Link(u, 1)
      BY <1>1, <1>7
    <2>2. ASSUME NEW j \in 1..Len(u) PROVE h[u[j]].x = Link(u, j + 1)
      <3>1. j \in 1..n /\ j \in Nat /\ j + 1 \in Nat \ {0} /\ i + j + 1 = i + (j + 1)
        BY <1>1, <1>2, <1>5
      <3>2. h[s[i + j]].x = Link(s, i + j + 1)
        BY <1>1, <1>3, <3>1
      <3> QED BY <1>6, <1>7, <3>1, <3>2
    <2> QED BY <2>1, <2>2 DEF Linked
  <1>9. Nil \notin DOMAIN h
    BY NilNoHolder DEF Forest
  <1>10. Anys!Chain(h, h[s[i]].x) = u
    BY <1>2, <1>5, <1>8, <1>9, ChainIs
  <1> QED BY <1>2, <1>10 DEF s, u

LEMMA SameSeq ==
  ASSUME NEW S, NEW n, NEW s \in Seq(S), NEW t \in Seq(S), Len(s) = n, Len(t) = n,
         \A i \in 1..n : s[i] = t[i]
  PROVE  s = t
  <1>1. s = [i \in 1..n |-> s[i]] /\ t = [i \in 1..n |-> t[i]]
    OBVIOUS
  <1> QED BY <1>1

(* Something is wrapped around what d has. *)
Wrapped(h, r, C, g, q, d, k, new) ==
  /\ DOMAIN g = DOMAIN h \cup {new[i] : i \in 1..Len(k)}
  /\ \A a \in DOMAIN h : g[a] = h[a]
  /\ \A i \in 1..Len(k) : /\ g[new[i]].value = k[i]
                          /\ g[new[i]].x = IF i = Len(k) THEN r[d] ELSE new[i + 1]
  /\ q[d] = IF Len(k) = 0 THEN r[d] ELSE new[1]
  /\ \A o \in Owners \ {d} : q[o] = r[o]

(* d holds k and what it held, the others what they held. *)
Prefixed(h, C, g, E, d, k) ==
  /\ WordOf(g, E[d]) = k \o WordOf(h, C[d])
  /\ \A o \in Owners \ {d} : WordOf(g, E[o]) = WordOf(h, C[o])

LEMMA WrapKeeps ==
  ASSUME NEW h, NEW r, NEW C, Forest(h, r, C), NEW d \in Owners,
         NEW k \in Seq(Words), Len(k) + Len(C[d]) <= MaxNesting,
         NEW new \in [1..Len(k) -> HolderAddresses \ DOMAIN h], Injective(new, Len(k)),
         NEW g, NEW q, Wrapped(h, r, C, g, q, d, k, new)
  PROVE  \E E : Forest(g, q, E) /\ Prefixed(h, C, g, E, d, k)
  <1> DEFINE m == Len(k)
             n == Len(C[d])
             u == [i \in 1..(m + n) |-> IF i <= m THEN new[i] ELSE C[d][i - m]]
             E == [o \in Owners |-> IF o = d THEN u ELSE C[o]]
  <1>1. /\ m \in Nat /\ n \in Nat /\ m + n \in Nat /\ m + n <= MaxNesting
        /\ \A i \in 1..n : C[d][i] \in DOMAIN h /\ h[C[d][i]].x = Link(C[d], i + 1)
    BY ForestType
  <1>2. /\ \A i \in 1..m : new[i] \in DOMAIN g /\ new[i] \in HolderAddresses /\ new[i] \notin DOMAIN h
        /\ DOMAIN h \subseteq DOMAIN g
    BY DEF Wrapped
  <1>3. u \in Seq(DOMAIN g) /\ Len(u) = m + n
    <2>1. ASSUME NEW i \in 1..(m + n) PROVE u[i] \in DOMAIN g
      <3>1. CASE i <= m
        BY <3>1, <1>1, <1>2
      <3>2. CASE ~(i <= m)
        <4>1. i - m \in 1..n
          BY <3>2, <1>1
        <4> QED BY <4>1, <3>2, <1>1, <1>2
      <3> QED BY <3>1, <3>2
    <2>2. u \in [1..(m + n) -> DOMAIN g]
      BY <2>1
    <2> HIDE DEF u, m, n
    <2> QED BY <1>1, <2>2, FunctionIsSeq
  <1>4. \A i \in 1..m : i \in 1..(m + n) /\ u[i] = new[i]
    BY <1>1
  <1>5. \A i \in 1..n : m + i \in 1..(m + n) /\ u[m + i] = C[d][i]
    BY <1>1
  <1>6. ASSUME NEW i \in 1..(m + n) PROVE i \in 1..m \/ \E j \in 1..n : i = m + j
    <2>1. CASE ~(i <= m)
      <3>1. i - m \in 1..n /\ i = m + (i - m)
        BY <2>1, <1>1
      <3> QED BY <3>1
    <2> QED BY <2>1, <1>1
  <1> HIDE DEF u
  <1>7. E[d] = u /\ \A o \in Owners \ {d} : E[o] = C[o]
    OBVIOUS
  <1>8. E \in [Owners -> Seq(DOMAIN g)]
    <2>1. \A o \in Owners \ {d} : C[o] \in Seq(DOMAIN g)
      <3> TAKE o \in Owners \ {d}
      <3>1. C[o] \in Seq(DOMAIN h)
        BY ForestType
      <3> QED BY <3>1, <1>2
    <2> QED BY <2>1, <1>3
  <1> HIDE DEF E
  <1>9. \A i \in Nat \ {0} : Link(u, m + i) = Link(C[d], i)
    <2> TAKE i \in Nat \ {0}
    <2>1. CASE i \in 1..n
      BY <2>1, <1>1, <1>3, <1>5 DEF Link
    <2>2. CASE i \notin 1..n
      <3>1. m + i \notin 1..(m + n)
        BY <2>2, <1>1
      <3> QED BY <2>2, <3>1, <1>3 DEF Link
    <2> QED BY <2>1, <2>2
  <1>10. Link(C[d], 1) = r[d]
    BY ForestType
  <1>11. Linked(g, q[d], u)
    <2>1. q[d] = Link(u, 1)
      <3>1. CASE m = 0
        <4>1. Link(u, 0 + 1) = Link(C[d], 1)
          BY <3>1, <1>9
        <4> QED BY <3>1, <4>1, <1>10 DEF Wrapped
      <3>2. CASE m # 0
        <4>1. 1 \in 1..m /\ q[d] = new[1]
          BY <3>2, <1>1 DEF Wrapped
        <4> QED BY <4>1, <1>3, <1>4 DEF Link
      <3> QED BY <3>1, <3>2
    <2>2. ASSUME NEW i \in 1..m PROVE g[u[i]].x = Link(u, i + 1)
      <3>1. u[i] = new[i] /\ g[new[i]].x = IF i = m THEN r[d] ELSE new[i + 1]
        BY <1>4 DEF Wrapped
      <3>2. CASE i = m
        BY <3>1, <3>2, <1>9, <1>10
      <3>3. CASE i # m
        <4>1. i + 1 \in 1..m
          BY <3>3, <1>1
        <4> QED BY <4>1, <3>1, <3>3, <1>3, <1>4 DEF Link
      <3> QED BY <3>2, <3>3
    <2>3. ASSUME NEW i \in 1..n PROVE g[u[m + i]].x = Link(u, m + i + 1)
      <3>1. u[m + i] = C[d][i] /\ g[C[d][i]].x = Link(C[d], i + 1)
        <4>1. C[d][i] \in DOMAIN h /\ h[C[d][i]].x = Link(C[d], i + 1)
          BY <1>1
        <4>2. g[C[d][i]] = h[C[d][i]]
          BY <4>1 DEF Wrapped
        <4> QED BY <4>1, <4>2, <1>5
      <3>2. i + 1 \in Nat \ {0} /\ m + (i + 1) = m + i + 1
        BY <1>1
      <3> QED BY <3>1, <3>2, <1>9
    <2>4. ASSUME NEW i \in 1..Len(u) PROVE g[u[i]].x = Link(u, i + 1)
      <3>1. i \in 1..(m + n)
        BY <1>3
      <3>2. CASE i \in 1..m
        BY <3>2, <2>2
      <3>3. CASE \E j \in 1..n : i = m + j
        BY <3>3, <2>3
      <3> QED BY <3>1, <3>2, <3>3, <1>6
    <2> QED BY <2>1, <2>4 DEF Linked
  <1>12. ASSUME NEW o \in Owners PROVE Len(E[o]) <= MaxNesting /\ Linked(g, q[o], E[o])
    <2>1. CASE o = d
      BY <2>1, <1>1, <1>3, <1>7, <1>11
    <2>2. CASE o # d
      <3>1. Len(C[o]) <= MaxNesting /\ Linked(h, r[o], C[o]) /\ \A i \in 1..Len(C[o]) : C[o][i] \in DOMAIN h
        BY ForestType DEF Forest
      <3>2. q[o] = r[o] /\ \A a \in DOMAIN h : g[a] = h[a]
        BY <2>2 DEF Wrapped
      <3>3. Linked(g, q[o], C[o])
        BY <3>1, <3>2 DEF Linked
      <3> QED BY <2>2, <3>1, <3>3, <1>7
    <2> QED BY <2>1, <2>2
  <1>13. ASSUME NEW o \in Owners, NEW i \in 1..Len(E[o])
         PROVE  \/ o = d /\ i \in 1..m /\ E[o][i] = new[i] /\ E[o][i] \notin DOMAIN h
                \/ o = d /\ \E j \in 1..n : i = m + j /\ E[o][i] = C[d][j] /\ E[o][i] \in DOMAIN h
                \/ o # d /\ i \in 1..Len(C[o]) /\ E[o][i] = C[o][i] /\ E[o][i] \in DOMAIN h
    <2>1. CASE o = d
      <3>1. i \in 1..(m + n) /\ E[o] = u
        BY <2>1, <1>3, <1>7
      <3>2. CASE i \in 1..m
        BY <2>1, <3>1, <3>2, <1>2, <1>4
      <3>3. CASE \E j \in 1..n : i = m + j
        <4>1. PICK j \in 1..n : i = m + j
          BY <3>3
        <4>2. E[o][i] = C[d][j] /\ C[d][j] \in DOMAIN h
          BY <4>1, <3>1, <1>1, <1>5
        <4> QED BY <2>1, <4>1, <4>2
      <3> QED BY <3>1, <3>2, <3>3, <1>6
    <2>2. CASE o # d
      BY <2>2, <1>7, ForestType
    <2> QED BY <2>1, <2>2
  <1>14. ASSUME NEW o \in Owners, NEW p \in Owners,
                NEW i \in 1..Len(E[o]), NEW j \in 1..Len(E[p]), E[o][i] = E[p][j]
         PROVE  o = p /\ i = j
    <2>1. CASE E[o][i] \notin DOMAIN h
      <3>1. o = d /\ i \in 1..m /\ E[o][i] = new[i]
        BY <1>13, <2>1
      <3>2. p = d /\ j \in 1..m /\ E[p][j] = new[j]
        BY <1>13, <1>14, <2>1
      <3> QED BY <1>14, <3>1, <3>2 DEF Injective
    <2>2. CASE E[o][i] \in DOMAIN h
      <3>1. PICK a \in 1..Len(C[o]) : C[o][a] = E[o][i] /\ i = IF o = d THEN m + a ELSE a
        BY <1>13, <2>2
      <3> HIDE DEF m, n
      <3>4. E[p][j] \in DOMAIN h
        BY <1>14, <2>2
      <3>2. PICK b \in 1..Len(C[p]) : C[p][b] = E[p][j] /\ j = IF p = d THEN m + b ELSE b
        BY <1>13, <3>4 DEF n
      <3>3. o = p /\ a = b
        BY <1>14, <3>1, <3>2, ForestApart
      <3> QED BY <3>1, <3>2, <3>3
    <2> QED BY <2>1, <2>2
  <1>15. ASSUME NEW a \in DOMAIN g
         PROVE  \E o \in Owners : \E i \in 1..Len(E[o]) : E[o][i] = a
    <2>1. CASE a \in DOMAIN h
      <3>1. PICK o \in Owners : \E i \in 1..Len(C[o]) : C[o][i] = a
        BY <2>1 DEF Forest
      <3>2. PICK i \in 1..Len(C[o]) : C[o][i] = a
        BY <3>1
      <3>3. CASE o = d
        <4>1. m + i \in 1..Len(E[d]) /\ E[d][m + i] = a
          BY <3>2, <3>3, <1>3, <1>5, <1>7
        <4> QED BY <4>1
      <3>4. CASE o # d
        BY <3>2, <3>4, <1>7
      <3> QED BY <3>3, <3>4
    <2>2. CASE a \notin DOMAIN h
      <3>1. PICK i \in 1..m : a = new[i]
        BY <2>2 DEF Wrapped
      <3>2. i \in 1..Len(E[d]) /\ E[d][i] = a
        BY <3>1, <1>3, <1>4, <1>7
      <3> QED BY <3>2
    <2> QED BY <2>1, <2>2
  <1>16. DOMAIN g \subseteq HolderAddresses /\ \A a \in DOMAIN g : g[a].value \in Words
    <2>1. ASSUME NEW a \in DOMAIN g PROVE a \in HolderAddresses /\ g[a].value \in Words
      <3>1. CASE a \in DOMAIN h
        <4>1. a \in HolderAddresses /\ h[a].value \in Words
          BY <3>1 DEF Forest
        <4> QED BY <4>1, <3>1 DEF Wrapped
      <3>2. CASE a \notin DOMAIN h
        <4>1. PICK i \in 1..m : a = new[i]
          BY <3>2 DEF Wrapped
        <4>2. k[i] \in Words
          OBVIOUS
        <4>3. g[a].value = k[i]
          BY <4>1 DEF Wrapped
        <4> QED BY <4>1, <4>2, <4>3, <1>2
      <3> QED BY <3>1, <3>2
    <2> QED BY <2>1
  <1>17. Forest(g, q, E)
    BY <1>8, <1>12, <1>14, <1>15, <1>16 DEF Forest
  <1>18. ASSUME NEW o \in Owners \ {d} PROVE WordOf(g, E[o]) = WordOf(h, C[o])
    <2>1. \A i \in 1..Len(C[o]) : C[o][i] \in DOMAIN h
      BY ForestType
    <2>2. \A i \in 1..Len(C[o]) : g[C[o][i]] = h[C[o][i]]
      BY <2>1 DEF Wrapped
    <2> QED BY <2>2, <1>7 DEF WordOf
  <1>19. WordOf(g, u) = k \o WordOf(h, C[d])
    <2> DEFINE w == WordOf(h, C[d])
    <2>1. w \in Seq(Words) /\ Len(w) = n
      BY WordType
    <2>2. \A i \in 1..n : w[i] = h[C[d][i]].value
      BY DEF WordOf
    <2> HIDE DEF w
    <2>3. k \o w \in Seq(Words) /\ Len(k \o w) = m + n
      BY <2>1
    <2>4. WordOf(g, u) \in Seq(Words) /\ Len(WordOf(g, u)) = m + n
      BY <1>3, <1>7, <1>17, WordType
    <2>5. ASSUME NEW i \in 1..(m + n) PROVE WordOf(g, u)[i] = (k \o w)[i]
      <3>1. WordOf(g, u)[i] = g[u[i]].value
        BY <1>3 DEF WordOf
      <3>2. CASE i \in 1..m
        <4>1. (k \o w)[i] = k[i]
          BY <3>2, <2>1, <1>1
        <4>2. g[u[i]].value = k[i]
          BY <3>2, <1>4 DEF Wrapped
        <4> QED BY <3>1, <4>1, <4>2
      <3>3. CASE \E j \in 1..n : i = m + j
        <4>1. PICK j \in 1..n : i = m + j
          BY <3>3
        <4>2. (k \o w)[i] = w[j]
          BY <4>1, <2>1, <1>1
        <4>3. u[i] = C[d][j] /\ C[d][j] \in DOMAIN h
          BY <4>1, <1>1, <1>5
        <4>4. g[u[i]] = h[C[d][j]]
          BY <4>3 DEF Wrapped
        <4> QED BY <3>1, <4>2, <4>4, <2>2
      <3> QED BY <3>2, <3>3, <1>6
    <2>6. WordOf(g, u) = k \o w
      <3> HIDE DEF m, n
      <3> QED BY <2>3, <2>4, <2>5, SameSeq
    <2> QED BY <2>6 DEF w
  <1>20. Prefixed(h, C, g, E, d, k)
    BY <1>7, <1>18, <1>19 DEF Prefixed
  <1> QED BY <1>17, <1>20

AnyPointers == [Objects -> HolderAddresses \cup {Nil, NoObject}]

(* What the owners point to, the temporary to a. *)
Roots(p, a) ==
  [o \in Owners |-> IF o = Temp THEN a ELSE IF p[o] = NoObject THEN Nil ELSE p[o]]

(* The holders h are those of the variables p and of a temporary that has  *)
(* a, and K[o] is what owner o holds.                                      *)
Keeps(h, p, a, K) ==
  /\ p \in AnyPointers
  /\ K \in [Owners -> Seq(Words)]
  /\ \E C : Forest(h, Roots(p, a), C) /\ \A o \in Owners : K[o] = WordOf(h, C[o])

AnyInv == \E K : Keeps(inner, ptr, Nil, K)

LEMMA RootsType ==
  ASSUME NEW p, NEW a
  PROVE  /\ Roots(p, a)[Temp] = a
         /\ \A o \in Objects : Roots(p, a)[o] = IF p[o] = NoObject THEN Nil ELSE p[o]
  BY TempFresh DEF Roots

LEMMA KeepsType ==
  ASSUME NEW h, NEW p, NEW a, NEW K, Keeps(h, p, a, K)
  PROVE  /\ p \in AnyPointers /\ K \in [Owners -> Seq(Words)]
         /\ a \in HolderAddresses \cup {Nil} /\ a # NoObject
         /\ a = Nil => K[Temp] = <<>>
         /\ \A o \in Objects : p[o] \in {Nil, NoObject} => K[o] = <<>>
         /\ \A o \in Owners : Len(K[o]) \in Nat /\ Len(K[o]) <= MaxNesting
  <1>1. PICK C : Forest(h, Roots(p, a), C) /\ \A o \in Owners : K[o] = WordOf(h, C[o])
    BY DEF Keeps
  <1>2. p \in AnyPointers /\ K \in [Owners -> Seq(Words)]
    BY DEF Keeps
  <1>3. ASSUME NEW o \in Owners
        PROVE  /\ Len(K[o]) = Len(C[o]) /\ Len(C[o]) \in Nat /\ Len(C[o]) <= MaxNesting
               /\ K[o] \in Seq(Words)
               /\ Roots(p, a)[o] = Link(C[o], 1) /\ Link(C[o], 1) \in DOMAIN h \cup {Nil}
               /\ \A i \in 1..Len(C[o]) : C[o][i] # Nil
    <2>1. Len(K[o]) = Len(C[o]) /\ K[o] \in Seq(Words)
      BY <1>1, WordType
    <2>2. /\ Len(C[o]) \in Nat /\ Len(C[o]) <= MaxNesting
          /\ Roots(p, a)[o] = Link(C[o], 1) /\ Link(C[o], 1) \in DOMAIN h \cup {Nil}
      <3> DEFINE r == Roots(p, a)
      <3>1. Forest(h, r, C)
        BY <1>1
      <3> HIDE DEF r
      <3>2. /\ Len(C[o]) \in Nat /\ Len(C[o]) <= MaxNesting /\ r[o] = Link(C[o], 1)
            /\ Link(C[o], 1) \in DOMAIN h \cup {Nil}
        BY <3>1, ForestType
      <3> QED BY <3>2 DEF r
    <2>3. \A i \in 1..Len(C[o]) : C[o][i] # Nil
      BY <1>1, ForestType
    <2> QED BY <2>1, <2>2, <2>3
  <1>4. ASSUME NEW o \in Owners, Roots(p, a)[o] = Nil PROVE K[o] = <<>>
    <2>1. 1 \notin 1..Len(C[o])
      BY <1>3, <1>4 DEF Link
    <2>2. Len(K[o]) = 0
      BY <1>3, <2>1
    <2> QED BY <1>3, <2>2
  <1>5. a \in HolderAddresses \cup {Nil}
    <2>1. DOMAIN h \subseteq HolderAddresses
      BY <1>1 DEF Forest
    <2> QED BY <2>1, <1>3, TempFresh, RootsType
  <1>6. a # NoObject
    BY <1>5, NilNoHolder
  <1>7. a = Nil => K[Temp] = <<>>
    BY <1>4, TempFresh, RootsType
  <1>8. \A o \in Objects : p[o] \in {Nil, NoObject} => K[o] = <<>>
    BY <1>4, TempFresh, RootsType
  <1>9. \A o \in Owners : Len(K[o]) \in Nat /\ Len(K[o]) <= MaxNesting
    BY <1>3
  <1> QED BY <1>2, <1>5, <1>6, <1>7, <1>8, <1>9

LEMMA TradeLeaves ==
  ASSUME NEW h, NEW p, NEW a, NEW K, Keeps(h, p, a, K), NEW d \in Owners, NEW e \in Owners,
         NEW q \in AnyPointers, NEW b, Traded(Roots(p, a), Roots(q, b), d, e),
         NEW L \in [Owners -> Seq(Words)], Traded(K, L, d, e)
  PROVE  Keeps(h, q, b, L)
  <1>1. PICK C : Forest(h, Roots(p, a), C) /\ \A o \in Owners : K[o] = WordOf(h, C[o])
    BY DEF Keeps
  <1>2. PICK E : Forest(h, Roots(q, b), E) /\ Traded(C, E, d, e)
    BY <1>1, TradeKeeps
  <1>3. \A o \in Owners : L[o] = WordOf(h, E[o])
    BY <1>1, <1>2 DEF Traded
  <1> QED BY <1>2, <1>3 DEF Keeps

LEMMA DropLeaves ==
  ASSUME NEW h, NEW p, NEW a, NEW K, Keeps(h, p, a, K), NEW d \in Owners,
         NEW q \in AnyPointers, NEW b, Emptied(Roots(p, a), Roots(q, b), d, Nil),
         NEW L \in [Owners -> Seq(Words)], Emptied(K, L, d, <<>>)
  PROVE  Keeps(Anys!Freed(h, Roots(p, a)[d]), q, b, L)
  <1> DEFINE g == Anys!Freed(h, Roots(p, a)[d])
  <1>1. PICK C : Forest(h, Roots(p, a), C) /\ \A o \in Owners : K[o] = WordOf(h, C[o])
    BY DEF Keeps
  <1>2. Anys!Chain(h, Roots(p, a)[d]) = C[d]
    BY <1>1, ForestChain
  <1>3. DOMAIN C[d] = 1..Len(C[d])
    BY <1>1, ForestType
  <1>4. g = [x \in DOMAIN h \ {C[d][i] : i \in 1..Len(C[d])} |-> h[x]]
    BY <1>2, <1>3 DEF Anys!Freed, Anys!Restrict, Anys!Range
  <1> HIDE DEF g
  <1>5. /\ DOMAIN g = DOMAIN h \ {C[d][i] : i \in 1..Len(C[d])}
        /\ \A x \in DOMAIN g : g[x] = h[x]
    BY <1>4
  <1>6. PICK E : /\ Forest(g, Roots(q, b), E) /\ Emptied(C, E, d, <<>>)
                 /\ \A o \in Owners : WordOf(g, E[o]) = WordOf(h, E[o])
    BY <1>1, <1>5, DropKeeps
  <1>7. ASSUME NEW o \in Owners PROVE L[o] = WordOf(g, E[o])
    <2>1. CASE o = d
      <3>1. E[o] = <<>> /\ L[o] = <<>>
        BY <2>1, <1>6 DEF Emptied
      <3>2. WordOf(g, E[o]) = <<>>
        BY <3>1 DEF WordOf
      <3> QED BY <3>1, <3>2
    <2>2. CASE o # d
      <3>1. E[o] = C[o] /\ L[o] = K[o]
        BY <2>2, <1>6 DEF Emptied
      <3> QED BY <3>1, <1>1, <1>6
    <2> QED BY <2>1, <2>2
  <1>8. Keeps(g, q, b, L)
    BY <1>6, <1>7 DEF Keeps
  <1> QED BY <1>8 DEF g

Landed(K, v) == [K EXCEPT ![v] = K[Temp], ![Temp] = <<>>]

LEMMA LandedType ==
  ASSUME NEW K \in [Owners -> Seq(Words)], NEW v \in Objects
  PROVE  /\ Landed(K, v) \in [Owners -> Seq(Words)]
         /\ Landed(K, v)[v] = K[Temp] /\ Landed(K, v)[Temp] = <<>>
         /\ \A o \in Owners \ {v, Temp} : Landed(K, v)[o] = K[o]
  <1>1. K[Temp] \in Seq(Words) /\ <<>> \in Seq(Words) /\ v # Temp /\ v \in Owners
    BY TempFresh
  <1> QED BY <1>1, TempFresh DEF Landed

(* A new variable takes what the temporary has. *)
LEMMA BecomesLeaves ==
  ASSUME NEW h, NEW p, NEW a, NEW K, Keeps(h, p, a, K), NEW v \in Objects, p[v] = NoObject
  PROVE  Keeps(h, [p EXCEPT ![v] = a], Nil, Landed(K, v))
  <1> DEFINE q == [p EXCEPT ![v] = a]
             L == Landed(K, v)
  <1>1. /\ p \in AnyPointers /\ K \in [Owners -> Seq(Words)] /\ K[v] = <<>>
        /\ a \in HolderAddresses \cup {Nil} /\ a # NoObject
    BY KeepsType
  <1>2. q \in AnyPointers /\ q[v] = a /\ \A o \in Objects \ {v} : q[o] = p[o]
    BY <1>1 DEF AnyPointers
  <1>3. /\ L \in [Owners -> Seq(Words)] /\ L[v] = K[Temp] /\ L[Temp] = <<>>
        /\ \A o \in Owners \ {v, Temp} : L[o] = K[o]
    BY <1>1, LandedType
  <1> HIDE DEF q, L
  <1>4. Traded(K, L, v, Temp)
    BY <1>1, <1>3 DEF Traded
  <1>5. Traded(Roots(p, a), Roots(q, Nil), v, Temp)
    BY <1>1, <1>2, RootsType DEF Traded, Owners
  <1>6. Keeps(h, q, Nil, L)
    BY <1>2, <1>3, <1>4, <1>5, TempFresh, TradeLeaves
  <1> QED BY <1>6 DEF q, L

(* The temporary is exchanged with a variable and destroyed with what that *)
(* had.                                                                    *)
LEMMA SwappedLeaves ==
  ASSUME NEW h, NEW p, NEW a, NEW K, Keeps(h, p, a, K), NEW v \in Objects, p[v] # NoObject
  PROVE  Keeps(Anys!Freed(h, p[v]), [p EXCEPT ![v] = a], Nil, Landed(K, v))
  <1> DEFINE q == [p EXCEPT ![v] = a]
             L == Landed(K, v)
             J == [K EXCEPT ![v] = K[Temp], ![Temp] = K[v]]
  <1>1. /\ p \in AnyPointers /\ K \in [Owners -> Seq(Words)]
        /\ a \in HolderAddresses \cup {Nil} /\ a # NoObject
    BY KeepsType
  <1>2. q \in AnyPointers /\ q[v] = a /\ \A o \in Objects \ {v} : q[o] = p[o]
    BY <1>1 DEF AnyPointers
  <1>3. /\ L \in [Owners -> Seq(Words)] /\ L[v] = K[Temp] /\ L[Temp] = <<>>
        /\ \A o \in Owners \ {v, Temp} : L[o] = K[o]
    BY <1>1, LandedType
  <1>4. /\ J \in [Owners -> Seq(Words)] /\ J[v] = K[Temp] /\ J[Temp] = K[v]
        /\ \A o \in Owners \ {v, Temp} : J[o] = K[o]
    <2>1. v \in Owners /\ Temp \in Owners /\ v # Temp
      BY TempFresh
    <2> QED BY <1>1, <2>1
  <1> HIDE DEF q, L, J
  <1>5. Traded(K, J, v, Temp)
    BY <1>4 DEF Traded
  <1>6. Traded(Roots(p, a), Roots(q, p[v]), v, Temp)
    BY <1>1, <1>2, RootsType DEF Traded, Owners
  <1>7. Keeps(h, q, p[v], J)
    BY <1>2, <1>4, <1>5, <1>6, TempFresh, TradeLeaves
  <1>8. Emptied(J, L, Temp, <<>>)
    BY <1>3, <1>4, TempFresh DEF Emptied, Owners
  <1>9. Emptied(Roots(q, p[v]), Roots(q, Nil), Temp, Nil)
    BY RootsType DEF Emptied, Owners
  <1>10. Roots(q, p[v])[Temp] = p[v]
    BY RootsType
  <1>11. Keeps(Anys!Freed(h, p[v]), q, Nil, L)
    BY <1>2, <1>3, <1>7, <1>8, <1>9, <1>10, TempFresh, DropLeaves
  <1> QED BY <1>11 DEF q, L

(* ~Any *)
LEMMA DestroyLeaves ==
  ASSUME NEW h, NEW p, NEW a, NEW K, Keeps(h, p, a, K), NEW v \in Objects, p[v] # NoObject,
         NEW x \in {Nil, NoObject}
  PROVE  Keeps(Anys!Freed(h, p[v]), [p EXCEPT ![v] = x], a, [K EXCEPT ![v] = <<>>])
  <1> DEFINE q == [p EXCEPT ![v] = x]
             L == [K EXCEPT ![v] = <<>>]
  <1>1. p \in AnyPointers /\ K \in [Owners -> Seq(Words)]
    BY KeepsType
  <1>2. q \in AnyPointers /\ q[v] = x /\ \A o \in Objects \ {v} : q[o] = p[o]
    BY <1>1 DEF AnyPointers
  <1>3. /\ L \in [Owners -> Seq(Words)] /\ L[v] = <<>>
        /\ \A o \in Owners \ {v} : L[o] = K[o]
    <2>1. v \in Owners /\ <<>> \in Seq(Words)
      BY TempFresh
    <2> QED BY <1>1, <2>1
  <1> HIDE DEF q, L
  <1>4. Emptied(K, L, v, <<>>)
    BY <1>3 DEF Emptied
  <1>5. Emptied(Roots(p, a), Roots(q, a), v, Nil)
    BY <1>2, RootsType DEF Emptied, Owners
  <1>6. Roots(p, a)[v] = p[v]
    BY RootsType
  <1>7. Keeps(Anys!Freed(h, p[v]), q, a, L)
    BY <1>2, <1>3, <1>4, <1>5, <1>6, TempFresh, DropLeaves
  <1> QED BY <1>7 DEF q, L

(* Swap *)
LEMMA SwapLeaves ==
  ASSUME NEW h, NEW p, NEW K, Keeps(h, p, Nil, K), NEW v \in Objects, NEW w \in Objects,
         p[v] # NoObject, p[w] # NoObject
  PROVE  Keeps(h, [p EXCEPT ![v] = p[w], ![w] = p[v]], Nil, [K EXCEPT ![v] = K[w], ![w] = K[v]])
  <1> DEFINE q == [p EXCEPT ![v] = p[w], ![w] = p[v]]
             L == [K EXCEPT ![v] = K[w], ![w] = K[v]]
  <1>1. p \in AnyPointers /\ K \in [Owners -> Seq(Words)]
    BY KeepsType
  <1>2. q \in AnyPointers /\ q[v] = p[w] /\ q[w] = p[v] /\ \A o \in Objects \ {v, w} : q[o] = p[o]
    BY <1>1 DEF AnyPointers
  <1>3. /\ L \in [Owners -> Seq(Words)] /\ L[v] = K[w] /\ L[w] = K[v]
        /\ \A o \in Owners \ {v, w} : L[o] = K[o]
    BY <1>1, TempFresh
  <1> HIDE DEF q, L
  <1>4. Traded(K, L, v, w)
    BY <1>3 DEF Traded
  <1>5. Traded(Roots(p, Nil), Roots(q, Nil), v, w)
    BY <1>2, RootsType DEF Traded, Owners
  <1>6. Keeps(h, q, Nil, L)
    BY <1>2, <1>3, <1>4, <1>5, TempFresh, TradeLeaves
  <1> QED BY <1>6 DEF q, L

(* A temporary takes what w has. *)
LEMMA TakenLeaves ==
  ASSUME NEW h, NEW p, NEW K, Keeps(h, p, Nil, K), NEW w \in Objects, p[w] # NoObject
  PROVE  Keeps(h, [p EXCEPT ![w] = Nil], p[w], [K EXCEPT ![w] = <<>>, ![Temp] = K[w]])
  <1> DEFINE q == [p EXCEPT ![w] = Nil]
             L == [K EXCEPT ![w] = <<>>, ![Temp] = K[w]]
  <1>1. p \in AnyPointers /\ K \in [Owners -> Seq(Words)] /\ K[Temp] = <<>>
    BY KeepsType
  <1>2. q \in AnyPointers /\ q[w] = Nil /\ \A o \in Objects \ {w} : q[o] = p[o]
    BY <1>1 DEF AnyPointers
  <1>3. /\ L \in [Owners -> Seq(Words)] /\ L[w] = <<>> /\ L[Temp] = K[w]
        /\ \A o \in Owners \ {w, Temp} : L[o] = K[o]
    <2>1. w \in Owners /\ Temp \in Owners /\ w # Temp /\ <<>> \in Seq(Words)
      BY TempFresh
    <2> QED BY <1>1, <2>1
  <1> HIDE DEF q, L
  <1>4. Traded(K, L, w, Temp)
    BY <1>1, <1>3 DEF Traded
  <1>5. Traded(Roots(p, Nil), Roots(q, p[w]), w, Temp)
    BY <1>1, <1>2, NilNoHolder, RootsType DEF Traded, Owners
  <1>6. Keeps(h, q, p[w], L)
    BY <1>2, <1>3, <1>4, <1>5, TempFresh, TradeLeaves
  <1> QED BY <1>6 DEF q, L

KeepsTemporary(t, K) == Keeps(t.inner, t.ptr, t.held, K)

(* new finds room, and what it returns is put around what t has. *)
LEMMA BoxedLeaves ==
  ASSUME NEW t, NEW K, KeepsTemporary(t, K),
         NEW k \in Seq(Words), Len(k) + Len(K[Temp]) <= MaxNesting
  PROVE  /\ KeepsTemporary(Anys!Boxed(t, k), [K EXCEPT ![Temp] = k \o K[Temp]])
         /\ Anys!Boxed(t, k).ptr = t.ptr
  <1> DEFINE h == t.inner
             p == t.ptr
             a == t.held
             m == Len(k)
             new == Anys!Fresh(h, m)
             next == Append(new, a)
             Holder(i) == [value |-> k[i], x |-> next[i + 1]]
             g == [b \in DOMAIN h \cup Anys!Range(new) |->
                     IF b \in DOMAIN h THEN h[b] ELSE Holder(CHOOSE i \in DOMAIN new : new[i] = b)]
             r == Roots(p, a)
             q == Roots(p, next[1])
             L == [K EXCEPT ![Temp] = k \o K[Temp]]
  <1>1. Anys!Boxed(t, k) = [ptr |-> p, held |-> next[1], inner |-> g]
    BY DEF Anys!Boxed
  <1>2. Keeps(h, p, a, K) /\ m \in Nat
    BY DEF KeepsTemporary
  <1>3. PICK C : Forest(h, r, C) /\ \A o \in Owners : K[o] = WordOf(h, C[o])
    BY <1>2 DEF Keeps
  <1>4. K \in [Owners -> Seq(Words)] /\ p \in AnyPointers
    BY <1>2, KeepsType
  <1>5. Len(C[Temp]) = Len(K[Temp]) /\ Temp \in Owners /\ Len(C[Temp]) \in Nat
    <2>1. Len(WordOf(h, C[Temp])) = Len(C[Temp]) /\ Temp \in Owners /\ Len(C[Temp]) \in Nat
      BY <1>3, TempFresh, WordType, ForestType
    <2> QED BY <2>1, <1>3
  <1> HIDE DEF g, q, r, L, h, p, a, m
  <1>6. new \in [1..m -> HolderAddresses \ DOMAIN h] /\ Injective(new, m)
    <2>1. m + Len(C[Temp]) <= MaxNesting
      BY <1>5 DEF m
    <2>2. \E f \in [1..m -> HolderAddresses \ DOMAIN h] : Injective(f, m)
      BY <1>2, <1>3, <2>1, HolderRoom
    <2>3. new = CHOOSE f \in [1..m -> HolderAddresses \ DOMAIN h] : Injective(f, m)
      BY DEF Anys!Fresh, Injective
    <2> HIDE DEF new
    <2> QED BY <2>2, <2>3
  <1> HIDE DEF new
  <1>7. new \in Seq(HolderAddresses \ DOMAIN h) /\ Len(new) = m /\ DOMAIN new = 1..m
    BY <1>2, <1>6, FunctionIsSeq
  <1>8. next[m + 1] = a /\ \A i \in 1..m : next[i] = new[i]
    BY <1>2, <1>7
  <1>9. Anys!Range(new) = {new[i] : i \in 1..m}
    BY <1>7 DEF Anys!Range
  <1>10. DOMAIN g = DOMAIN h \cup {new[i] : i \in 1..m} /\ \A b \in DOMAIN h : g[b] = h[b]
    BY <1>9 DEF g
  <1> HIDE DEF next
  <1>11. ASSUME NEW i \in 1..m
         PROVE  g[new[i]].value = k[i] /\ g[new[i]].x = next[i + 1]
    <2>1. new[i] \notin DOMAIN h /\ new[i] \in Anys!Range(new)
      BY <1>6, <1>9
    <2>2. (CHOOSE j \in DOMAIN new : new[j] = new[i]) = i
      BY <1>6, <1>7 DEF Injective
    <2>3. g[new[i]] = Holder(i)
      BY <2>1, <2>2 DEF g
    <2> QED BY <2>3
  <1>12. Wrapped(h, r, C, g, q, Temp, k, new)
    <2>1. r[Temp] = a /\ q[Temp] = next[1] /\ \A o \in Owners \ {Temp} : q[o] = r[o]
      BY RootsType DEF r, q, Owners
    <2>2. next[1] = IF m = 0 THEN a ELSE new[1]
      BY <1>2, <1>8
    <2>3. ASSUME NEW i \in 1..m PROVE next[i + 1] = IF i = m THEN a ELSE new[i + 1]
      <3>1. CASE i = m
        BY <3>1, <1>8
      <3>2. CASE i # m
        <4>1. i + 1 \in 1..m
          BY <3>2, <1>2
        <4> QED BY <3>2, <4>1, <1>8
      <3> QED BY <3>1, <3>2
    <2> QED BY <1>10, <1>11, <2>1, <2>2, <2>3 DEF Wrapped, m
  <1>13. PICK E : Forest(g, q, E) /\ Prefixed(h, C, g, E, Temp, k)
    <2>1. m + Len(C[Temp]) <= MaxNesting
      BY <1>5 DEF m
    <2>2. /\ new \in [1..Len(k) -> HolderAddresses \ DOMAIN h] /\ Injective(new, Len(k))
          /\ Len(k) + Len(C[Temp]) <= MaxNesting
      BY <1>6, <2>1 DEF m
    <2> QED BY <1>3, <1>5, <1>12, <2>2, WrapKeeps
  <1>14. /\ L \in [Owners -> Seq(Words)] /\ L[Temp] = k \o K[Temp]
         /\ \A o \in Owners \ {Temp} : L[o] = K[o]
    BY <1>4, <1>5 DEF L
  <1>15. \A o \in Owners : L[o] = WordOf(g, E[o])
    BY <1>3, <1>5, <1>13, <1>14 DEF Prefixed
  <1>16. Keeps(g, p, next[1], L)
    BY <1>4, <1>13, <1>14, <1>15 DEF Keeps, q
  <1> QED BY <1>1, <1>16 DEF KeepsTemporary, L, p

LEMMA HolderChain ==
  ASSUME NEW K, Keeps(inner, ptr, Nil, K), NEW v \in Objects, ptr[v] # NoObject
  PROVE  Anys!Pointer(v) = ptr[v] /\ Anys!ValuesOf(v) = K[v]
  <1>1. PICK C : Forest(inner, Roots(ptr, Nil), C) /\ \A o \in Owners : K[o] = WordOf(inner, C[o])
    BY DEF Keeps
  <1>2. Anys!Pointer(v) = ptr[v] /\ Roots(ptr, Nil)[v] = ptr[v]
    BY RootsType DEF Anys!Pointer
  <1>3. Anys!Chain(inner, Anys!Pointer(v)) = C[v] /\ v \in Owners
    BY <1>1, <1>2, TempFresh, ForestChain
  <1>4. DOMAIN C[v] = 1..Len(C[v])
    BY <1>1, <1>3, ForestType
  <1>5. Anys!ValuesOf(v) = WordOf(inner, C[v])
    BY <1>3, <1>4 DEF Anys!ValuesOf, WordOf
  <1> QED BY <1>1, <1>2, <1>3, <1>5

PartsOf(K) ==
  UNION {{SubSeq(K[v], i, Len(K[v])) : i \in 1..Len(K[v]) + 1} : v \in {w \in Objects : ptr[w] # NoObject}}

LEMMA PartIs ==
  ASSUME NEW K, NEW v \in Objects, ptr[v] # NoObject, NEW i \in 1..Len(K[v]) + 1
  PROVE  SubSeq(K[v], i, Len(K[v])) \in PartsOf(K)
  BY DEF PartsOf

LEMMA WholePart ==
  ASSUME NEW K, Keeps(inner, ptr, Nil, K), NEW v \in Objects, ptr[v] # NoObject
  PROVE  K[v] \in PartsOf(K)
  <1>1. K[v] \in Seq(Words) /\ Len(K[v]) \in Nat
    BY KeepsType, TempFresh
  <1>2. SubSeq(K[v], 1, Len(K[v])) = K[v] /\ 1 \in 1..Len(K[v]) + 1
    BY <1>1
  <1> QED BY <1>2 DEF PartsOf

LEMMA PartValues ==
  ASSUME NEW K, Keeps(inner, ptr, Nil, K), NEW p \in Anys!Places
  PROVE  Anys!ValuesOf(p) \in PartsOf(K)
  <1>1. CASE p \in Objects /\ ptr[p] # NoObject
    BY <1>1, HolderChain, WholePart
  <1>2. CASE ~(p \in Objects /\ ptr[p] # NoObject)
    <2>1. PICK C : Forest(inner, Roots(ptr, Nil), C) /\ \A o \in Owners : K[o] = WordOf(inner, C[o])
      BY DEF Keeps
    <2>2. p \in DOMAIN inner
      BY <1>2 DEF Anys!Places, Anys!Constructed
    <2>3. p \in HolderAddresses /\ p \notin Objects
      <3>1. p \in HolderAddresses
        BY <2>1, <2>2 DEF Forest
      <3> QED BY <3>1, AnyNames DEF Anys!NamesAssumption
    <2>4. PICK d \in Owners : \E i \in 1..Len(C[d]) : C[d][i] = p
      BY <2>1, <2>2 DEF Forest
    <2>5. PICK i \in 1..Len(C[d]) : C[d][i] = p
      BY <2>4
    <2>6. /\ Len(K[d]) = Len(C[d]) /\ K[d] \in Seq(Words) /\ Len(C[d]) \in Nat
          /\ K[d] = WordOf(inner, C[d])
      BY <2>1, WordType, ForestType
    <2>7. d \in Objects /\ ptr[d] # NoObject
      <3>1. K[d] # <<>>
        BY <2>5, <2>6
      <3> QED BY <3>1, KeepsType DEF Owners
    <2>8. Anys!Pointer(p) = inner[p].x
      BY <2>3 DEF Anys!Pointer
    <2>9. Anys!Chain(inner, inner[p].x) = After(C[d], i)
      BY <2>1, <2>5, ForestPart
    <2> DEFINE n == Len(C[d]) - i
               s == SubSeq(K[d], i + 1, Len(K[d]))
    <2>10. n \in Nat /\ i \in Nat /\ \A j \in 1..n : i + j \in 1..Len(C[d]) /\ i + 1 + j - 1 = i + j
      BY <2>6
    <2>11. Anys!ValuesOf(p) = [j \in 1..n |-> inner[C[d][i + j]].value]
      <3>1. Anys!ValuesOf(p) = [j \in DOMAIN After(C[d], i) |-> inner[After(C[d], i)[j]].value]
        BY <2>8, <2>9 DEF Anys!ValuesOf
      <3>2. DOMAIN After(C[d], i) = 1..n /\ \A j \in 1..n : After(C[d], i)[j] = C[d][i + j]
        BY DEF After
      <3> QED BY <3>1, <3>2
    <2>12. s = [j \in 1..n |-> K[d][i + j]]
      BY <2>6, <2>10
    <2>13. \A j \in 1..n : K[d][i + j] = inner[C[d][i + j]].value
      BY <2>6, <2>10 DEF WordOf
    <2>14. Anys!ValuesOf(p) = s
      <3> HIDE DEF n, s
      <3> QED BY <2>11, <2>12, <2>13
    <2>15. i + 1 \in 1..Len(K[d]) + 1
      BY <2>6
    <2> QED BY <2>7, <2>14, <2>15, PartIs
  <1> QED BY <1>1, <1>2

LEMMA PartType ==
  ASSUME NEW K, Keeps(inner, ptr, Nil, K), NEW s \in PartsOf(K)
  PROVE  s \in Seq(Words) /\ Len(s) \in Nat /\ Len(s) <= MaxNesting
  <1>1. PICK v \in Objects : \E i \in 1..Len(K[v]) + 1 : s = SubSeq(K[v], i, Len(K[v]))
    BY DEF PartsOf
  <1>2. PICK i \in 1..Len(K[v]) + 1 : s = SubSeq(K[v], i, Len(K[v]))
    BY <1>1
  <1>3. K[v] \in Seq(Words) /\ Len(K[v]) \in Nat /\ Len(K[v]) <= MaxNesting
    BY KeepsType, TempFresh
  <1>4. s \in Seq(Words) /\ Len(s) = Len(K[v]) - i + 1
    BY <1>2, <1>3
  <1> QED BY <1>3, <1>4, NestingBound

(* A temporary that has s was made, or took s from w or wrapped it. *)
Made(K, t, s) ==
  /\ s \in Seq(Words)
  /\ t.ptr = ptr
  /\ KeepsTemporary(t, [K EXCEPT ![Temp] = s])

Taken(K, t, w, s) ==
  /\ s \in Seq(Words)
  /\ w \in Objects /\ ptr[w] # NoObject
  /\ t.ptr = [ptr EXCEPT ![w] = Nil]
  /\ KeepsTemporary(t, [K EXCEPT ![w] = <<>>, ![Temp] = s])

LEMMA TempSet ==
  ASSUME NEW K \in [Owners -> Seq(Words)], NEW s \in Seq(Words), NEW u \in Seq(Words)
  PROVE  /\ [K EXCEPT ![Temp] = s] \in [Owners -> Seq(Words)]
         /\ [K EXCEPT ![Temp] = s][Temp] = s
         /\ [[K EXCEPT ![Temp] = s] EXCEPT ![Temp] = u] = [K EXCEPT ![Temp] = u]
  BY TempFresh

LEMMA TempSetFrom ==
  ASSUME NEW K \in [Owners -> Seq(Words)], NEW s \in Seq(Words), NEW u \in Seq(Words),
         NEW w \in Objects
  PROVE  /\ [K EXCEPT ![w] = <<>>, ![Temp] = s] \in [Owners -> Seq(Words)]
         /\ [K EXCEPT ![w] = <<>>, ![Temp] = s][Temp] = s
         /\ [[K EXCEPT ![w] = <<>>, ![Temp] = s] EXCEPT ![Temp] = u]
              = [K EXCEPT ![w] = <<>>, ![Temp] = u]
  <1>1. <<>> \in Seq(Words) /\ w \in Owners /\ Temp \in Owners /\ w # Temp
    BY TempFresh
  <1> QED BY <1>1

LEMMA EmptyMade ==
  ASSUME NEW K, Keeps(inner, ptr, Nil, K)
  PROVE  Made(K, Anys!Empty, <<>>)
  <1>1. K \in [Owners -> Seq(Words)] /\ K[Temp] = <<>>
    BY KeepsType
  <1>2. [K EXCEPT ![Temp] = <<>>] = K
    BY <1>1, TempFresh
  <1>3. Anys!Empty.ptr = ptr /\ Anys!Empty.inner = inner /\ Anys!Empty.held = Nil
    BY DEF Anys!Empty
  <1> QED BY <1>2, <1>3 DEF Made, KeepsTemporary

LEMMA MadeBoxed ==
  ASSUME NEW K \in [Owners -> Seq(Words)], NEW t, NEW s, Made(K, t, s),
         NEW k \in Seq(Words), Len(k) + Len(s) <= MaxNesting
  PROVE  Made(K, Anys!Boxed(t, k), k \o s)
  <1> DEFINE J == [K EXCEPT ![Temp] = s]
             u == k \o s
  <1>1. s \in Seq(Words) /\ t.ptr = ptr /\ KeepsTemporary(t, J)
    BY DEF Made
  <1>2. u \in Seq(Words)
    BY <1>1
  <1>3. J[Temp] = s /\ [J EXCEPT ![Temp] = u] = [K EXCEPT ![Temp] = u]
    BY <1>1, <1>2, TempSet
  <1> HIDE DEF J
  <1>4. /\ KeepsTemporary(Anys!Boxed(t, k), [J EXCEPT ![Temp] = k \o J[Temp]])
        /\ Anys!Boxed(t, k).ptr = t.ptr
    BY <1>1, <1>3, BoxedLeaves
  <1>5. KeepsTemporary(Anys!Boxed(t, k), [K EXCEPT ![Temp] = u])
    BY <1>3, <1>4
  <1> QED BY <1>1, <1>2, <1>4, <1>5 DEF Made

LEMMA TakenBoxed ==
  ASSUME NEW K \in [Owners -> Seq(Words)], NEW t, NEW w, NEW s, Taken(K, t, w, s),
         NEW k \in Seq(Words), Len(k) + Len(s) <= MaxNesting
  PROVE  Taken(K, Anys!Boxed(t, k), w, k \o s)
  <1> DEFINE J == [K EXCEPT ![w] = <<>>, ![Temp] = s]
             u == k \o s
  <1>1. /\ s \in Seq(Words) /\ w \in Objects /\ ptr[w] # NoObject
        /\ t.ptr = [ptr EXCEPT ![w] = Nil] /\ KeepsTemporary(t, J)
    BY DEF Taken
  <1>2. u \in Seq(Words)
    BY <1>1
  <1>3. J[Temp] = s /\ [J EXCEPT ![Temp] = u] = [K EXCEPT ![w] = <<>>, ![Temp] = u]
    <2> HIDE DEF u
    <2>1. J[Temp] = s
      BY <1>1, TempFresh
    <2>2. [J EXCEPT ![Temp] = u] = [K EXCEPT ![w] = <<>>, ![Temp] = u]
      BY <1>1, <1>2, TempSetFrom
    <2> QED BY <2>1, <2>2
  <1> HIDE DEF J
  <1>4. /\ KeepsTemporary(Anys!Boxed(t, k), [J EXCEPT ![Temp] = k \o J[Temp]])
        /\ Anys!Boxed(t, k).ptr = t.ptr
    BY <1>1, <1>3, BoxedLeaves
  <1>5. KeepsTemporary(Anys!Boxed(t, k), [K EXCEPT ![w] = <<>>, ![Temp] = u])
    BY <1>3, <1>4
  <1> QED BY <1>1, <1>2, <1>4, <1>5 DEF Taken

LEMMA OneWord ==
  ASSUME NEW x \in Words
  PROVE  <<x>> \in Seq(Words) /\ Len(<<x>>) = 1 /\ <<x>> \o <<>> = <<x>>
  OBVIOUS

LEMMA LeafMade ==
  ASSUME NEW K, Keeps(inner, ptr, Nil, K), NEW l \in Leaves
  PROVE  Made(K, Anys!Boxed(Anys!Empty, <<l>>), <<l>>)
  <1>1. <<l>> \in Seq(Words) /\ Len(<<l>>) = 1 /\ <<l>> \o <<>> = <<l>>
    BY OneWord DEF Words
  <1>2. Len(<<l>>) + Len(<<>>) <= MaxNesting
    BY <1>1, NestingBound
  <1>3. Made(K, Anys!Boxed(Anys!Empty, <<l>>), <<l>> \o <<>>)
    BY <1>1, <1>2, EmptyMade, KeepsType, MadeBoxed
  <1> QED BY <1>1, <1>3

LEMMA CopyMade ==
  ASSUME NEW K, Keeps(inner, ptr, Nil, K), NEW p \in Anys!Places
  PROVE  Made(K, Anys!Copied(p), Anys!ValuesOf(p))
  <1> DEFINE s == Anys!ValuesOf(p)
  <1>1. s \in Seq(Words) /\ Len(s) \in Nat /\ Len(s) <= MaxNesting
    BY PartValues, PartType
  <1> HIDE DEF s
  <1>2. s \o <<>> = s /\ Len(s) + Len(<<>>) <= MaxNesting
    BY <1>1
  <1>3. Made(K, Anys!Boxed(Anys!Empty, s), s \o <<>>)
    BY <1>1, <1>2, EmptyMade, KeepsType, MadeBoxed
  <1>4. Anys!Copied(p) = Anys!Boxed(Anys!Empty, s)
    BY DEF Anys!Copied, s
  <1> QED BY <1>2, <1>3, <1>4 DEF s

LEMMA TakenMade ==
  ASSUME NEW K, Keeps(inner, ptr, Nil, K), NEW w \in Objects, ptr[w] # NoObject
  PROVE  Taken(K, Anys!Taken(w), w, K[w])
  <1>1. K[w] \in Seq(Words)
    BY KeepsType, TempFresh
  <1>2. /\ Anys!Taken(w).ptr = [ptr EXCEPT ![w] = Nil]
        /\ Anys!Taken(w).inner = inner /\ Anys!Taken(w).held = ptr[w]
    BY DEF Anys!Taken
  <1>3. Keeps(inner, [ptr EXCEPT ![w] = Nil], ptr[w], [K EXCEPT ![w] = <<>>, ![Temp] = K[w]])
    BY TakenLeaves
  <1> QED BY <1>1, <1>2, <1>3 DEF Taken, KeepsTemporary

(* What Any(T&&) may be made of, and the other constructors. *)
ValueWords(K) == {<<l>> : l \in Leaves} \cup {<<X>> \o s : s \in PartsOf(K)}

MadeWords(K) == {<<>>} \cup PartsOf(K) \cup ValueWords(K)

LEMMA ValuesBoxedMade ==
  ASSUME NEW K, Keeps(inner, ptr, Nil, K), NEW t \in Anys!ValuesBoxed
  PROVE  \/ \E s \in MadeWords(K) : Made(K, t, s)
         \/ \E w \in Objects : Taken(K, t, w, <<X>> \o K[w])
  <1>0. <<X>> \in Seq(Words) /\ Len(<<X>>) = 1 /\ K \in [Owners -> Seq(Words)]
    BY OneWord, KeepsType DEF Words
  <1>1. ASSUME NEW l \in Leaves, t = Anys!Boxed(Anys!Empty, <<l>>)
        PROVE  \E s \in MadeWords(K) : Made(K, t, s)
    <2>1. Made(K, t, <<l>>)
      BY <1>1, LeafMade
    <2> QED BY <2>1 DEF MadeWords, ValueWords
  <1>2. ASSUME NEW p \in Anys!Places, Anys!Depth(p) < MaxNesting,
               t = Anys!Boxed(Anys!Copied(p), <<X>>)
        PROVE  \E s \in MadeWords(K) : Made(K, t, s)
    <2> DEFINE s == Anys!ValuesOf(p)
    <2>1. Made(K, Anys!Copied(p), s) /\ s \in PartsOf(K) /\ Len(s) \in Nat /\ Len(s) < MaxNesting
      BY <1>2, CopyMade, PartValues, PartType DEF Anys!Depth
    <2> HIDE DEF s
    <2>2. Len(<<X>>) + Len(s) <= MaxNesting
      BY <1>0, <2>1, NestingBound
    <2>3. Made(K, t, <<X>> \o s)
      BY <1>0, <1>2, <2>1, <2>2, MadeBoxed
    <2> QED BY <2>1, <2>3 DEF MadeWords, ValueWords
  <1>3. ASSUME NEW w \in Anys!Constructed, Anys!Depth(w) < MaxNesting,
               t = Anys!Boxed(Anys!Taken(w), <<X>>)
        PROVE  \E v \in Objects : Taken(K, t, v, <<X>> \o K[v])
    <2>1. w \in Objects /\ ptr[w] # NoObject
      BY DEF Anys!Constructed
    <2>2. Anys!ValuesOf(w) = K[w] /\ Len(K[w]) \in Nat
      BY <2>1, HolderChain, KeepsType, TempFresh
    <2>3. Len(<<X>>) + Len(K[w]) <= MaxNesting
      BY <1>0, <1>3, <2>2, NestingBound DEF Anys!Depth
    <2>4. Taken(K, t, w, <<X>> \o K[w])
      BY <1>0, <1>3, <2>1, <2>3, TakenMade, TakenBoxed
    <2> QED BY <2>1, <2>4
  <1> QED BY <1>1, <1>2, <1>3 DEF Anys!ValuesBoxed

(* What the variables hold, as AbstractAny.tla sees it. *)
ContentsOf(h, p) ==
  [v \in Objects |->
     IF p[v] # NoObject
     THEN [n \in DOMAIN Anys!Chain(h, p[v]) |-> h[Anys!Chain(h, p[v])[n]].value]
     ELSE NoObject]

SeenAs(p, K) == [v \in Objects |-> IF p[v] # NoObject THEN K[v] ELSE NoObject]

LEMMA ContentsNow == Anys!Contents = ContentsOf(inner, ptr)
  BY DEF Anys!Contents, Anys!Constructed, Anys!ValuesOf, Anys!Pointer, ContentsOf

LEMMA ContentsNext == Anys!Contents' = ContentsOf(inner', ptr')
  BY DEF Anys!Contents, Anys!Constructed, Anys!ValuesOf, Anys!Pointer, ContentsOf

LEMMA ContentsSeen ==
  ASSUME NEW h, NEW p, NEW a, NEW K, Keeps(h, p, a, K)
  PROVE  ContentsOf(h, p) = SeenAs(p, K)
  <1>1. PICK C : Forest(h, Roots(p, a), C) /\ \A o \in Owners : K[o] = WordOf(h, C[o])
    BY DEF Keeps
  <1>2. ASSUME NEW v \in Objects, p[v] # NoObject
        PROVE  [n \in DOMAIN Anys!Chain(h, p[v]) |-> h[Anys!Chain(h, p[v])[n]].value] = K[v]
    <2>1. Roots(p, a)[v] = p[v] /\ v \in Owners
      BY <1>2, RootsType, TempFresh
    <2>2. Anys!Chain(h, p[v]) = C[v]
      BY <1>1, <2>1, ForestChain
    <2>3. DOMAIN C[v] = 1..Len(C[v])
      BY <1>1, <2>1, ForestType
    <2> QED BY <1>1, <2>1, <2>2, <2>3 DEF WordOf
  <1> QED BY <1>2 DEF ContentsOf, SeenAs

(* What v holds after a step, s; and w, if that was taken from. *)
Arrives(K, v, s) ==
  \E L : /\ Keeps(inner', ptr', Nil, L)
         /\ SeenAs(ptr', L) = [SeenAs(ptr, K) EXCEPT ![v] = s]

ArrivesFrom(K, v, w, s) ==
  \E L : /\ Keeps(inner', ptr', Nil, L)
         /\ SeenAs(ptr', L) = [SeenAs(ptr, K) EXCEPT ![w] = <<>>, ![v] = s]

Lands(v, t) ==
  \/ t.ptr[v] = NoObject /\ Anys!Becomes(v, t)
  \/ t.ptr[v] # NoObject /\ Anys!Swapped(v, t)

LEMMA Landing ==
  ASSUME NEW t, NEW J, KeepsTemporary(t, J), NEW v \in Objects, Lands(v, t)
  PROVE  /\ Keeps(inner', ptr', Nil, Landed(J, v))
         /\ ptr' = [t.ptr EXCEPT ![v] = t.held] /\ t.held # NoObject
         /\ t.ptr \in AnyPointers
  <1>1. Keeps(t.inner, t.ptr, t.held, J)
    BY DEF KeepsTemporary
  <1>2. t.held # NoObject /\ t.ptr \in AnyPointers
    BY <1>1, KeepsType
  <1>3. CASE t.ptr[v] = NoObject /\ Anys!Becomes(v, t)
    BY <1>1, <1>2, <1>3, BecomesLeaves DEF Anys!Becomes
  <1>4. CASE t.ptr[v] # NoObject /\ Anys!Swapped(v, t)
    BY <1>1, <1>2, <1>4, SwappedLeaves DEF Anys!Swapped
  <1> QED BY <1>3, <1>4 DEF Lands

LEMMA MadeLands ==
  ASSUME NEW K, Keeps(inner, ptr, Nil, K), NEW t, NEW s, Made(K, t, s),
         NEW v \in Objects, Lands(v, t)
  PROVE  Arrives(K, v, s)
  <1> DEFINE J == [K EXCEPT ![Temp] = s]
             L == Landed(J, v)
  <1>1. K \in [Owners -> Seq(Words)] /\ s \in Seq(Words) /\ t.ptr = ptr /\ KeepsTemporary(t, J)
    BY KeepsType DEF Made
  <1>2. J \in [Owners -> Seq(Words)] /\ J[Temp] = s /\ \A o \in Objects : J[o] = K[o]
    BY <1>1, TempFresh
  <1> HIDE DEF J
  <1>3. L[v] = s /\ \A o \in Objects \ {v} : L[o] = K[o]
    <2>1. L[v] = J[Temp] /\ \A o \in Owners \ {v, Temp} : L[o] = J[o]
      BY <1>2, LandedType
    <2> HIDE DEF L
    <2> QED BY <2>1, <1>2, TempFresh
  <1> HIDE DEF L
  <1>4. Keeps(inner', ptr', Nil, L) /\ ptr' = [ptr EXCEPT ![v] = t.held] /\ t.held # NoObject
    BY <1>1, Landing DEF L
  <1>5. ptr \in AnyPointers
    BY KeepsType
  <1>6. ptr'[v] # NoObject /\ \A o \in Objects \ {v} : ptr'[o] = ptr[o]
    BY <1>4, <1>5 DEF AnyPointers
  <1>7. SeenAs(ptr', L) = [SeenAs(ptr, K) EXCEPT ![v] = s]
    BY <1>3, <1>6 DEF SeenAs
  <1> QED BY <1>4, <1>7 DEF Arrives

LEMMA TakenLands ==
  ASSUME NEW K, Keeps(inner, ptr, Nil, K), NEW t, NEW w, NEW s, Taken(K, t, w, s),
         NEW v \in Objects, Lands(v, t)
  PROVE  ArrivesFrom(K, v, w, s)
  <1> DEFINE J == [K EXCEPT ![w] = <<>>, ![Temp] = s]
             L == Landed(J, v)
  <1>1. /\ K \in [Owners -> Seq(Words)] /\ s \in Seq(Words) /\ w \in Objects /\ ptr[w] # NoObject
        /\ t.ptr = [ptr EXCEPT ![w] = Nil] /\ KeepsTemporary(t, J)
    BY KeepsType DEF Taken
  <1>2. /\ J \in [Owners -> Seq(Words)] /\ J[Temp] = s
        /\ J[w] = <<>> /\ \A o \in Objects \ {w} : J[o] = K[o]
    <2>1. <<>> \in Seq(Words) /\ w \in Owners /\ Temp \in Owners /\ w # Temp /\ Temp \notin Objects
      BY <1>1, TempFresh
    <2>2. Objects \subseteq Owners
      BY TempFresh
    <2> QED BY <1>1, <2>1, <2>2
  <1> HIDE DEF J
  <1>3. L[v] = s /\ \A o \in Objects \ {v} : L[o] = IF o = w THEN <<>> ELSE K[o]
    <2>1. L[v] = J[Temp] /\ \A o \in Owners \ {v, Temp} : L[o] = J[o]
      BY <1>2, LandedType
    <2> HIDE DEF L
    <2> QED BY <2>1, <1>2, TempFresh
  <1> HIDE DEF L
  <1>4. /\ Keeps(inner', ptr', Nil, L)
        /\ ptr' = [[ptr EXCEPT ![w] = Nil] EXCEPT ![v] = t.held] /\ t.held # NoObject
    BY <1>1, Landing DEF L
  <1>5. ptr \in AnyPointers /\ Nil # NoObject
    BY KeepsType, NilNoHolder
  <1>6. ptr'[v] # NoObject /\ \A o \in Objects \ {v} : ptr'[o] = IF o = w THEN Nil ELSE ptr[o]
    BY <1>1, <1>4, <1>5 DEF AnyPointers
  <1>7. SeenAs(ptr', L) = [SeenAs(ptr, K) EXCEPT ![w] = <<>>, ![v] = s]
    BY <1>1, <1>3, <1>5, <1>6 DEF SeenAs
  <1> QED BY <1>4, <1>7 DEF ArrivesFrom

LEMMA ConstructEffect ==
  ASSUME NEW K, Keeps(inner, ptr, Nil, K), NEW v \in Objects, Anys!Construct(v)
  PROVE  \/ \E s \in MadeWords(K) : Arrives(K, v, s)
         \/ \E w \in Objects : ptr[w] # NoObject /\ ArrivesFrom(K, v, w, K[w])
         \/ \E w \in Objects : ptr[w] # NoObject /\ ArrivesFrom(K, v, w, <<X>> \o K[w])
  <1>1. ptr[v] = NoObject
    BY DEF Anys!Construct, Anys!Constructed
  <1>2. ptr \in AnyPointers
    BY KeepsType
  <1>3. ASSUME NEW t, NEW s, Made(K, t, s), Anys!Becomes(v, t)
        PROVE  Arrives(K, v, s)
    <2>1. Lands(v, t)
      BY <1>1, <1>3 DEF Lands, Made
    <2> QED BY <2>1, <1>3, MadeLands
  <1>4. ASSUME NEW t, NEW w, NEW s, Taken(K, t, w, s), Anys!Becomes(v, t)
        PROVE  w \in Objects /\ ptr[w] # NoObject /\ ArrivesFrom(K, v, w, s)
    <2>1. w \in Objects /\ ptr[w] # NoObject /\ t.ptr[v] = NoObject
      BY <1>1, <1>2, <1>4 DEF Taken, AnyPointers
    <2>2. Lands(v, t)
      BY <1>4, <2>1 DEF Lands
    <2> QED BY <2>1, <2>2, <1>4, TakenLands
  <1>5. PICK t \in {Anys!Empty} \cup Anys!ValuesBoxed \cup {Anys!Copied(p) : p \in Anys!Places}
                     \cup {Anys!Taken(w) : w \in Anys!Constructed} : Anys!Becomes(v, t)
    BY DEF Anys!Construct
  <1>6. CASE t = Anys!Empty
    <2>1. Made(K, t, <<>>)
      BY <1>6, EmptyMade
    <2> QED BY <1>3, <1>5, <2>1 DEF MadeWords
  <1>7. CASE t \in Anys!ValuesBoxed
    <2>1. CASE \E s \in MadeWords(K) : Made(K, t, s)
      BY <2>1, <1>3, <1>5
    <2>2. CASE \E w \in Objects : Taken(K, t, w, <<X>> \o K[w])
      BY <2>2, <1>4, <1>5
    <2> QED BY <2>1, <2>2, <1>7, ValuesBoxedMade
  <1>8. CASE t \in {Anys!Copied(p) : p \in Anys!Places}
    <2>1. PICK p \in Anys!Places : t = Anys!Copied(p)
      BY <1>8
    <2>2. Made(K, t, Anys!ValuesOf(p)) /\ Anys!ValuesOf(p) \in PartsOf(K)
      BY <2>1, CopyMade, PartValues
    <2> QED BY <1>3, <1>5, <2>2 DEF MadeWords
  <1>9. CASE t \in {Anys!Taken(w) : w \in Anys!Constructed}
    <2>1. PICK w \in Anys!Constructed : t = Anys!Taken(w)
      BY <1>9
    <2>2. w \in Objects /\ ptr[w] # NoObject
      BY DEF Anys!Constructed
    <2>3. Taken(K, t, w, K[w])
      BY <2>1, <2>2, TakenMade
    <2> QED BY <1>4, <1>5, <2>2, <2>3
  <1> QED BY <1>5, <1>6, <1>7, <1>8, <1>9

LEMMA AssignEffect ==
  ASSUME NEW K, Keeps(inner, ptr, Nil, K), NEW v \in Objects, ptr[v] # NoObject,
         NEW t, Anys!Swapped(v, t)
  PROVE  /\ \A s : Made(K, t, s) => Arrives(K, v, s)
         /\ \A w, s : Taken(K, t, w, s) =>
              w \in Objects /\ ptr[w] # NoObject /\ ArrivesFrom(K, v, w, s)
  <1>1. ptr \in AnyPointers /\ Nil # NoObject
    BY KeepsType, NilNoHolder
  <1>2. ASSUME NEW s, Made(K, t, s) PROVE Arrives(K, v, s)
    <2>1. Lands(v, t)
      BY <1>2 DEF Lands, Made
    <2> QED BY <2>1, <1>2, MadeLands
  <1>3. ASSUME NEW w, NEW s, Taken(K, t, w, s)
        PROVE  w \in Objects /\ ptr[w] # NoObject /\ ArrivesFrom(K, v, w, s)
    <2>1. w \in Objects /\ ptr[w] # NoObject /\ t.ptr[v] # NoObject
      BY <1>1, <1>3 DEF Taken, AnyPointers
    <2>2. Lands(v, t)
      BY <2>1 DEF Lands
    <2> QED BY <2>1, <2>2, <1>3, TakenLands
  <1> QED BY <1>2, <1>3

LEMMA AssignValueEffect ==
  ASSUME NEW K, Keeps(inner, ptr, Nil, K), NEW v \in Objects, Anys!AssignValue(v)
  PROVE  \/ \E s \in MadeWords(K) : Arrives(K, v, s)
         \/ \E w \in Objects : ptr[w] # NoObject /\ ArrivesFrom(K, v, w, <<X>> \o K[w])
  <1>1. ptr[v] # NoObject
    BY DEF Anys!AssignValue, Anys!Constructed
  <1>2. PICK t \in Anys!ValuesBoxed : Anys!Swapped(v, t)
    BY DEF Anys!AssignValue
  <1>3. CASE \E s \in MadeWords(K) : Made(K, t, s)
    BY <1>1, <1>2, <1>3, AssignEffect
  <1>4. CASE \E w \in Objects : Taken(K, t, w, <<X>> \o K[w])
    BY <1>1, <1>2, <1>4, AssignEffect
  <1> QED BY <1>2, <1>3, <1>4, ValuesBoxedMade

LEMMA CopyAssignEffect ==
  ASSUME NEW K, Keeps(inner, ptr, Nil, K), NEW v \in Objects, NEW p, Anys!CopyAssign(v, p)
  PROVE  \/ UNCHANGED anyVars
         \/ \E s \in MadeWords(K) : Arrives(K, v, s)
  <1>1. ptr[v] # NoObject /\ p \in Anys!Places
    BY DEF Anys!CopyAssign, Anys!Constructed
  <1>2. CASE p = v
    BY <1>2 DEF Anys!CopyAssign, Anys!vars, anyVars
  <1>3. CASE p # v
    <2>1. Anys!Swapped(v, Anys!Copied(p))
      BY <1>3 DEF Anys!CopyAssign
    <2>2. Made(K, Anys!Copied(p), Anys!ValuesOf(p)) /\ Anys!ValuesOf(p) \in PartsOf(K)
      BY <1>1, CopyMade, PartValues
    <2>3. Arrives(K, v, Anys!ValuesOf(p))
      BY <1>1, <2>1, <2>2, AssignEffect
    <2> QED BY <2>2, <2>3 DEF MadeWords
  <1> QED BY <1>2, <1>3

LEMMA MoveAssignEffect ==
  ASSUME NEW K, Keeps(inner, ptr, Nil, K), NEW v \in Objects, NEW w \in Objects,
         Anys!MoveAssign(v, w)
  PROVE  ptr[w] # NoObject /\ ArrivesFrom(K, v, w, K[w])
  <1>1. ptr[v] # NoObject /\ ptr[w] # NoObject /\ Anys!Swapped(v, Anys!Taken(w))
    BY DEF Anys!MoveAssign, Anys!Constructed
  <1>2. Taken(K, Anys!Taken(w), w, K[w])
    BY <1>1, TakenMade
  <1> QED BY <1>1, <1>2, AssignEffect

LEMMA DestroyEffect ==
  ASSUME NEW K, Keeps(inner, ptr, Nil, K), NEW v \in Objects
  PROVE  /\ Anys!Clear(v) => Arrives(K, v, <<>>)
         /\ Anys!Destroy(v) => ptr[v] # NoObject /\ Arrives(K, v, NoObject)
  <1> DEFINE L == [K EXCEPT ![v] = <<>>]
  <1>1. K \in [Owners -> Seq(Words)] /\ ptr \in AnyPointers /\ Nil # NoObject
    BY KeepsType, NilNoHolder
  <1>2. L[v] = <<>> /\ \A o \in Objects \ {v} : L[o] = K[o]
    BY <1>1, TempFresh
  <1>3. ASSUME NEW x \in {Nil, NoObject}, ptr[v] # NoObject, ptr' = [ptr EXCEPT ![v] = x],
               inner' = Anys!Freed(inner, ptr[v])
        PROVE  /\ Keeps(inner', ptr', Nil, L)
               /\ ptr'[v] = x /\ \A o \in Objects \ {v} : ptr'[o] = ptr[o]
    <2>1. Keeps(Anys!Freed(inner, ptr[v]), [ptr EXCEPT ![v] = x], Nil, L)
      BY <1>3, DestroyLeaves
    <2>2. ptr'[v] = x /\ \A o \in Objects \ {v} : ptr'[o] = ptr[o]
      BY <1>1, <1>3 DEF AnyPointers
    <2> QED BY <1>3, <2>1, <2>2
  <1> HIDE DEF L
  <1>4. ASSUME Anys!Clear(v) PROVE Arrives(K, v, <<>>)
    <2>1. /\ Keeps(inner', ptr', Nil, L)
          /\ ptr'[v] = Nil /\ \A o \in Objects \ {v} : ptr'[o] = ptr[o]
      BY <1>3, <1>4 DEF Anys!Clear, Anys!Constructed
    <2>2. SeenAs(ptr', L) = [SeenAs(ptr, K) EXCEPT ![v] = <<>>]
      BY <1>1, <1>2, <2>1 DEF SeenAs
    <2> QED BY <2>1, <2>2 DEF Arrives
  <1>5. ASSUME Anys!Destroy(v) PROVE ptr[v] # NoObject /\ Arrives(K, v, NoObject)
    <2>1. /\ Keeps(inner', ptr', Nil, L) /\ ptr[v] # NoObject
          /\ ptr'[v] = NoObject /\ \A o \in Objects \ {v} : ptr'[o] = ptr[o]
      BY <1>3, <1>5 DEF Anys!Destroy, Anys!Constructed
    <2>2. SeenAs(ptr', L) = [SeenAs(ptr, K) EXCEPT ![v] = NoObject]
      BY <1>2, <2>1 DEF SeenAs
    <2> QED BY <2>1, <2>2 DEF Arrives
  <1> QED BY <1>4, <1>5

Exchanges(K, v, w) ==
  \E L : /\ Keeps(inner', ptr', Nil, L)
         /\ SeenAs(ptr', L) = [SeenAs(ptr, K) EXCEPT ![v] = SeenAs(ptr, K)[w],
                                                     ![w] = SeenAs(ptr, K)[v]]

LEMMA SwapEffect ==
  ASSUME NEW K, Keeps(inner, ptr, Nil, K), NEW v \in Objects, NEW w \in Objects,
         Anys!Swap(v, w)
  PROVE  ptr[v] # NoObject /\ ptr[w] # NoObject /\ Exchanges(K, v, w)
  <1> DEFINE L == [K EXCEPT ![v] = K[w], ![w] = K[v]]
  <1>1. /\ ptr[v] # NoObject /\ ptr[w] # NoObject
        /\ ptr' = [ptr EXCEPT ![v] = ptr[w], ![w] = ptr[v]] /\ inner' = inner
    BY DEF Anys!Swap, Anys!Constructed
  <1>2. K \in [Owners -> Seq(Words)] /\ ptr \in AnyPointers
    BY KeepsType
  <1>3. Keeps(inner', ptr', Nil, L)
    BY <1>1, SwapLeaves
  <1>4. L[v] = K[w] /\ L[w] = K[v] /\ \A o \in Objects \ {v, w} : L[o] = K[o]
    BY <1>2, TempFresh
  <1>5. ptr'[v] = ptr[w] /\ ptr'[w] = ptr[v] /\ \A o \in Objects \ {v, w} : ptr'[o] = ptr[o]
    BY <1>1, <1>2 DEF AnyPointers
  <1> HIDE DEF L
  <1>6. SeenAs(ptr', L) = [SeenAs(ptr, K) EXCEPT ![v] = SeenAs(ptr, K)[w],
                                                 ![w] = SeenAs(ptr, K)[v]]
    BY <1>1, <1>4, <1>5 DEF SeenAs
  <1> QED BY <1>1, <1>3, <1>6 DEF Exchanges

(* What the variable v does in a step. *)
AnyEffect(K, v) ==
  \/ UNCHANGED anyVars
  \/ \E s \in MadeWords(K) : Arrives(K, v, s)
  \/ ptr[v] # NoObject /\ Arrives(K, v, NoObject)
  \/ \E w \in Objects :
       \/ ptr[w] # NoObject /\ ArrivesFrom(K, v, w, K[w])
       \/ ptr[w] # NoObject /\ ArrivesFrom(K, v, w, <<X>> \o K[w])
       \/ ptr[v] # NoObject /\ ptr[w] # NoObject /\ Exchanges(K, v, w)

LEMMA StepEffect ==
  ASSUME NEW K, Keeps(inner, ptr, Nil, K), Anys!Next
  PROVE  \E v \in Objects : AnyEffect(K, v)
  <1>1. PICK v \in Objects :
          \/ Anys!Construct(v) \/ Anys!Destroy(v) \/ Anys!Clear(v) \/ Anys!AssignValue(v)
          \/ \E p \in Anys!Places : Anys!CopyAssign(v, p)
          \/ \E w \in Objects : Anys!MoveAssign(v, w) \/ Anys!Swap(v, w)
    BY DEF Anys!Next
  <1>2. ASSUME Anys!Construct(v) PROVE AnyEffect(K, v)
    BY <1>2, ConstructEffect DEF AnyEffect
  <1>3. ASSUME Anys!Destroy(v) PROVE AnyEffect(K, v)
    BY <1>3, DestroyEffect DEF AnyEffect
  <1>4. ASSUME Anys!Clear(v) PROVE AnyEffect(K, v)
    BY <1>4, DestroyEffect DEF AnyEffect, MadeWords
  <1>5. ASSUME Anys!AssignValue(v) PROVE AnyEffect(K, v)
    BY <1>5, AssignValueEffect DEF AnyEffect
  <1>6. ASSUME NEW p \in Anys!Places, Anys!CopyAssign(v, p) PROVE AnyEffect(K, v)
    BY <1>6, CopyAssignEffect DEF AnyEffect
  <1>7. ASSUME NEW w \in Objects, Anys!MoveAssign(v, w) \/ Anys!Swap(v, w)
        PROVE  AnyEffect(K, v)
    BY <1>7, MoveAssignEffect, SwapEffect DEF AnyEffect
  <1>8. AnyEffect(K, v)
    BY <1>1, <1>2, <1>3, <1>4, <1>5, <1>6, <1>7, Zenon
  <1> QED BY <1>8

LEMMA AnyNext == AnyInv /\ [Anys!Next]_anyVars => AnyInv'
  <1>1. SUFFICES ASSUME AnyInv, [Anys!Next]_anyVars PROVE AnyInv'
    OBVIOUS
  <1>2. PICK K : Keeps(inner, ptr, Nil, K)
    BY <1>1 DEF AnyInv
  <1>3. CASE UNCHANGED anyVars
    <2>1. Keeps(inner', ptr', Nil, K)
      BY <1>2, <1>3 DEF anyVars
    <2> QED BY <2>1 DEF AnyInv
  <1>4. CASE Anys!Next
    <2>1. PICK v \in Objects : AnyEffect(K, v)
      BY <1>2, <1>4, StepEffect
    <2>2. (\E L : Keeps(inner', ptr', Nil, L)) \/ UNCHANGED anyVars
      BY <2>1 DEF AnyEffect, Arrives, ArrivesFrom, Exchanges
    <2> QED BY <1>3, <2>2 DEF AnyInv
  <1> QED BY <1>1, <1>3, <1>4

LEMMA AnyInit == Anys!Init => AnyInv
  <1>1. SUFFICES ASSUME Anys!Init PROVE AnyInv
    OBVIOUS
  <1> DEFINE C == [o \in Owners |-> <<>>]
             r == Roots(ptr, Nil)
  <1>2. ptr = [v \in Objects |-> NoObject] /\ DOMAIN inner = {}
    BY <1>1 DEF Anys!Init
  <1>3. \A o \in Owners : r[o] = Nil
    BY <1>2, RootsType DEF Owners
  <1>4. C \in [Owners -> Seq(DOMAIN inner)] /\ C \in [Owners -> Seq(Words)]
    OBVIOUS
  <1>5. \A o \in Owners : C[o] = <<>> /\ Len(C[o]) = 0
    OBVIOUS
  <1> HIDE DEF C, r
  <1>6. \A o \in Owners : Len(C[o]) <= MaxNesting /\ Linked(inner, r[o], C[o])
    BY <1>3, <1>5, NestingBound DEF Linked, Link
  <1>7. Forest(inner, r, C)
    BY <1>2, <1>4, <1>5, <1>6 DEF Forest
  <1>8. \A o \in Owners : C[o] = WordOf(inner, C[o])
    BY <1>5 DEF WordOf
  <1>9. ptr \in AnyPointers
    BY <1>2 DEF AnyPointers
  <1>10. Keeps(inner, ptr, Nil, C)
    BY <1>4, <1>7, <1>8, <1>9 DEF Keeps, r
  <1> QED BY <1>10 DEF AnyInv

LEMMA AnyInvOwned == AnyInv => HoldersOwned
  <1>1. SUFFICES ASSUME AnyInv PROVE HoldersOwned
    OBVIOUS
  <1>2. PICK K : Keeps(inner, ptr, Nil, K)
    BY <1>1 DEF AnyInv
  <1>3. PICK C : Forest(inner, Roots(ptr, Nil), C) /\ \A o \in Owners : K[o] = WordOf(inner, C[o])
    BY <1>2 DEF Keeps
  <1>4. ASSUME NEW v \in Objects, ptr[v] # NoObject
        PROVE  /\ v \in Owners /\ ptr[v] \in DOMAIN inner \cup {Nil}
               /\ Anys!Range(Anys!Chain(inner, ptr[v])) = {C[v][i] : i \in 1..Len(C[v])}
    <2>1. v \in Owners /\ Roots(ptr, Nil)[v] = ptr[v]
      BY <1>4, TempFresh, RootsType
    <2>2. Anys!Chain(inner, ptr[v]) = C[v]
      BY <1>3, <2>1, ForestChain
    <2>3. DOMAIN C[v] = 1..Len(C[v]) /\ ptr[v] \in DOMAIN inner \cup {Nil}
      BY <1>3, <2>1, ForestType
    <2> QED BY <2>1, <2>2, <2>3 DEF Anys!Range
  <1>5. ASSUME NEW a \in DOMAIN inner
        PROVE  /\ inner[a].value \in Leaves \cup {X} /\ inner[a].x \in DOMAIN inner \cup {Nil}
               /\ \E v \in Anys!Constructed :
                    {w \in Anys!Constructed : a \in Anys!Range(Anys!Chain(inner, ptr[w]))} = {v}
    <2>1. PICK d \in Owners : \E i \in 1..Len(C[d]) : C[d][i] = a
      BY <1>3 DEF Forest
    <2>2. PICK i \in 1..Len(C[d]) : C[d][i] = a
      BY <2>1
    <2>3. /\ Len(K[d]) = Len(C[d]) /\ Len(C[d]) \in Nat
          /\ inner[a].value \in Words /\ inner[a].x \in DOMAIN inner \cup {Nil}
      <3>1. Len(K[d]) = Len(C[d])
        BY <1>3, WordType
      <3>2. Len(C[d]) \in Nat /\ inner[C[d][i]].value \in Words
            /\ inner[C[d][i]].x = Link(C[d], i + 1)
        BY <1>3, ForestType
      <3>3. Link(C[d], i + 1) \in DOMAIN inner \cup {Nil}
        BY <1>3, ForestType
      <3> QED BY <2>2, <3>1, <3>2, <3>3
    <2>4. d \in Objects /\ ptr[d] # NoObject
      <3>1. K[d] # <<>>
        BY <2>2, <2>3
      <3> QED BY <3>1, <1>2, KeepsType DEF Owners
    <2>5. ASSUME NEW w \in Objects, ptr[w] # NoObject,
                 a \in Anys!Range(Anys!Chain(inner, ptr[w]))
          PROVE  w = d
      <3>1. PICK j \in 1..Len(C[w]) : C[w][j] = a
        BY <1>4, <2>5
      <3>2. w \in Owners
        BY TempFresh
      <3> QED BY <1>3, <2>2, <3>1, <3>2, ForestApart
    <2>6. a \in Anys!Range(Anys!Chain(inner, ptr[d]))
      BY <1>4, <2>2, <2>4
    <2>7. d \in Anys!Constructed /\ \A w \in Anys!Constructed : w \in Objects /\ ptr[w] # NoObject
      BY <2>4 DEF Anys!Constructed
    <2>8. {w \in Anys!Constructed : a \in Anys!Range(Anys!Chain(inner, ptr[w]))} = {d}
      BY <2>5, <2>6, <2>7
    <2> QED BY <2>3, <2>7, <2>8 DEF Words
  <1>6. Anys!TypeOK
    <2>1. DOMAIN inner \subseteq HolderAddresses
      BY <1>3 DEF Forest
    <2>2. \A v \in Anys!Constructed : ptr[v] \in DOMAIN inner \cup {Nil}
      BY <1>4 DEF Anys!Constructed
    <2> QED BY <2>1, <2>2, <1>5 DEF Anys!TypeOK
  <1>7. ASSUME NEW v \in Anys!Constructed PROVE Anys!Ends(ptr[v])
    <2>1. v \in Objects /\ ptr[v] # NoObject
      BY DEF Anys!Constructed
    <2>2. v \in Owners /\ Roots(ptr, Nil)[v] = ptr[v]
      BY <2>1, TempFresh, RootsType
    <2>3. Anys!Chain(inner, ptr[v]) = C[v]
      BY <1>3, <2>2, ForestChain
    <2>4. ASSUME C[v] # <<>> PROVE inner[C[v][Len(C[v])]].x = Nil
      <3>1. C[v] \in Seq(DOMAIN inner) /\ Len(C[v]) \in Nat
        BY <1>3, <2>2, ForestType
      <3>2. Len(C[v]) \in 1..Len(C[v])
        BY <2>4, <3>1
      <3>3. inner[C[v][Len(C[v])]].x = Link(C[v], Len(C[v]) + 1)
        BY <1>3, <2>2, <3>2, ForestType
      <3> QED BY <3>1, <3>3 DEF Link
    <2> QED BY <2>3, <2>4 DEF Anys!Ends
  <1> QED BY <1>5, <1>6, <1>7 DEF HoldersOwned, Anys!HoldersOwned

(* No holder leaks, is shared or deleted twice, and none is inside of      *)
(* itself, whatever is wrapped, taken out of a value or assigned to        *)
(* itself, for any number of variables and any nesting (any.h:18-65).      *)
THEOREM HoldersAlwaysOwned == Anys!Spec => []HoldersOwned
  BY AnyInit, AnyNext, AnyInvOwned, PTL DEF Anys!Spec, Anys!vars, anyVars

HeldBy(K) == SeenAs(ptr, K)

LEMMA HeldNow ==
  ASSUME NEW K, Keeps(inner, ptr, Nil, K)
  PROVE  Anys!Contents = HeldBy(K)
  BY ContentsNow, ContentsSeen DEF HeldBy

LEMMA HeldNext ==
  ASSUME NEW L, Keeps(inner', ptr', Nil, L)
  PROVE  Anys!Contents' = SeenAs(ptr', L)
  BY ContentsNext, ContentsSeen

LEMMA AnyHeldType ==
  ASSUME NEW K, Keeps(inner, ptr, Nil, K), NEW v \in Objects
  PROVE  /\ ptr[v] # NoObject => HeldBy(K)[v] = K[v] /\ K[v] # NoObject
         /\ ptr[v] = NoObject => HeldBy(K)[v] = NoObject
  <1>1. K[v] \in Seq(Words)
    BY KeepsType, TempFresh
  <1>2. NoObject \notin Seq(Words)
    BY AnyNames DEF Anys!NamesAssumption, Words
  <1> QED BY <1>1, <1>2 DEF HeldBy, SeenAs

LEMMA HeldLive ==
  ASSUME NEW K, Keeps(inner, ptr, Nil, K)
  PROVE  Anys!Abstract!Live = {v \in Objects : ptr[v] # NoObject}
  <1>1. Anys!Abstract!Live = {v \in Objects : HeldBy(K)[v] # NoObject}
    BY HeldNow DEF Anys!Abstract!Live
  <1> QED BY <1>1, AnyHeldType

LEMMA HeldParts ==
  ASSUME NEW K, Keeps(inner, ptr, Nil, K)
  PROVE  PartsOf(K) \subseteq Anys!Abstract!Parts
  <1> SUFFICES ASSUME NEW s \in PartsOf(K) PROVE s \in Anys!Abstract!Parts
    OBVIOUS
  <1>1. PICK v \in Objects : /\ ptr[v] # NoObject
                             /\ \E i \in 1..Len(K[v]) + 1 : s = SubSeq(K[v], i, Len(K[v]))
    BY DEF PartsOf
  <1>2. Anys!Contents[v] = K[v] /\ v \in Anys!Abstract!Live
    BY <1>1, HeldNow, AnyHeldType, HeldLive
  <1>3. PICK i \in 1..Len(K[v]) + 1 : s = SubSeq(K[v], i, Len(K[v]))
    BY <1>1
  <1> DEFINE P == {SubSeq(K[v], j, Len(K[v])) : j \in 1..Len(K[v]) + 1}
  <1>4. s \in P
    BY <1>3
  <1>5. P = {SubSeq(Anys!Contents[v], j, Len(Anys!Contents[v])) :
               j \in 1..Len(Anys!Contents[v]) + 1}
    BY <1>2
  <1> HIDE DEF P
  <1> QED BY <1>2, <1>4, <1>5 DEF Anys!Abstract!Parts

LEMMA HeldSet ==
  ASSUME NEW K, Keeps(inner, ptr, Nil, K), NEW v, NEW s, Arrives(K, v, s)
  PROVE  Anys!Abstract!Set(v, s)
  <1>1. PICK L : /\ Keeps(inner', ptr', Nil, L)
                 /\ SeenAs(ptr', L) = [HeldBy(K) EXCEPT ![v] = s]
    BY DEF Arrives, HeldBy
  <1>2. Anys!Contents = HeldBy(K) /\ Anys!Contents' = SeenAs(ptr', L)
    BY <1>1, HeldNow, HeldNext
  <1> QED BY <1>1, <1>2 DEF Anys!Abstract!Set

LEMMA HeldTake ==
  ASSUME NEW K, Keeps(inner, ptr, Nil, K), NEW v, NEW w, NEW s, ArrivesFrom(K, v, w, s)
  PROVE  Anys!Abstract!Take(v, w, s)
  <1>1. PICK L : /\ Keeps(inner', ptr', Nil, L)
                 /\ SeenAs(ptr', L) = [HeldBy(K) EXCEPT ![w] = <<>>, ![v] = s]
    BY DEF ArrivesFrom, HeldBy
  <1>2. Anys!Contents = HeldBy(K) /\ Anys!Contents' = SeenAs(ptr', L)
    BY <1>1, HeldNow, HeldNext
  <1> QED BY <1>1, <1>2 DEF Anys!Abstract!Take

LEMMA HeldSwap ==
  ASSUME NEW K, Keeps(inner, ptr, Nil, K), NEW v \in Objects, NEW w \in Objects,
         ptr[v] # NoObject, ptr[w] # NoObject, Exchanges(K, v, w)
  PROVE  Anys!Abstract!Swap(v, w)
  <1>1. PICK L : /\ Keeps(inner', ptr', Nil, L)
                 /\ SeenAs(ptr', L) = [HeldBy(K) EXCEPT ![v] = HeldBy(K)[w], ![w] = HeldBy(K)[v]]
    BY DEF Exchanges, HeldBy
  <1>2. Anys!Contents = HeldBy(K) /\ Anys!Contents' = SeenAs(ptr', L)
    BY <1>1, HeldNow, HeldNext
  <1>3. {v, w} \subseteq Anys!Abstract!Live
    BY HeldLive
  <1> QED BY <1>1, <1>2, <1>3 DEF Anys!Abstract!Swap

AnyStepOf(v) ==
  \/ Anys!Abstract!Construct(v)
  \/ Anys!Abstract!Destroy(v)
  \/ \E w \in Objects : Anys!Abstract!Swap(v, w)
  \/ Anys!Contents' = Anys!Contents

(* A constructor and an assignment leave what a constructor promises. *)
LEMMA AnyConstructMaps ==
  ASSUME NEW K, Keeps(inner, ptr, Nil, K), NEW v
  PROVE  /\ \A s \in MadeWords(K) : Arrives(K, v, s) => Anys!Abstract!Construct(v)
         /\ \A w \in Objects :
              ptr[w] # NoObject /\ (ArrivesFrom(K, v, w, K[w]) \/ ArrivesFrom(K, v, w, <<X>> \o K[w]))
                => Anys!Abstract!Construct(v)
  <1>1. ASSUME NEW s \in MadeWords(K), Arrives(K, v, s) PROVE Anys!Abstract!Construct(v)
    <2>1. Anys!Abstract!Set(v, s)
      BY <1>1, HeldSet
    <2>2. CASE s = <<>>
      BY <2>1, <2>2 DEF Anys!Abstract!Construct
    <2>3. CASE \E l \in Leaves : s = <<l>>
      BY <2>1, <2>3 DEF Anys!Abstract!Construct
    <2>4. CASE s \in PartsOf(K)
      <3>1. s \in Anys!Abstract!Parts
        BY <2>4, HeldParts
      <3> QED BY <2>1, <3>1 DEF Anys!Abstract!Construct
    <2>5. CASE \E u \in PartsOf(K) : s = <<X>> \o u
      <3>1. PICK u \in PartsOf(K) : s = <<X>> \o u
        BY <2>5
      <3>2. u \in Anys!Abstract!Parts /\ Anys!Abstract!Set(v, <<X>> \o u)
        BY <2>1, <3>1, HeldParts
      <3> QED BY <3>2 DEF Anys!Abstract!Construct
    <2> QED BY <2>2, <2>3, <2>4, <2>5 DEF MadeWords, ValueWords
  <1>2. ASSUME NEW w \in Objects, ptr[w] # NoObject,
               ArrivesFrom(K, v, w, K[w]) \/ ArrivesFrom(K, v, w, <<X>> \o K[w])
        PROVE  Anys!Abstract!Construct(v)
    <2>1. w \in Anys!Abstract!Live /\ Anys!Contents[w] = K[w]
      BY <1>2, HeldLive, HeldNow, AnyHeldType
    <2>2. CASE ArrivesFrom(K, v, w, K[w])
      <3>1. Anys!Abstract!Take(v, w, Anys!Contents[w])
        BY <2>1, <2>2, HeldTake
      <3> QED BY <2>1, <3>1 DEF Anys!Abstract!Construct
    <2>3. CASE ArrivesFrom(K, v, w, <<X>> \o K[w])
      <3>1. Anys!Abstract!Take(v, w, <<X>> \o Anys!Contents[w])
        BY <2>1, <2>3, HeldTake
      <3> QED BY <2>1, <3>1 DEF Anys!Abstract!Construct
    <2> QED BY <1>2, <2>2, <2>3
  <1> QED BY <1>1, <1>2

LEMMA AnyEffectMaps ==
  ASSUME NEW K, Keeps(inner, ptr, Nil, K), NEW v \in Objects, AnyEffect(K, v)
  PROVE  AnyStepOf(v)
  <1>1. CASE UNCHANGED anyVars
    <2>1. inner' = inner /\ ptr' = ptr
      BY <1>1 DEF anyVars
    <2>2. Anys!Contents' = Anys!Contents
      BY <2>1, ContentsNow, ContentsNext
    <2> QED BY <2>2 DEF AnyStepOf
  <1>2. CASE \E s \in MadeWords(K) : Arrives(K, v, s)
    BY <1>2, AnyConstructMaps DEF AnyStepOf
  <1>3. CASE ptr[v] # NoObject /\ Arrives(K, v, NoObject)
    <2>1. v \in Anys!Abstract!Live /\ Anys!Abstract!Set(v, NoObject)
      BY <1>3, HeldLive, HeldSet
    <2> QED BY <2>1 DEF AnyStepOf, Anys!Abstract!Destroy
  <1>4. ASSUME NEW w \in Objects, ptr[w] # NoObject,
               ArrivesFrom(K, v, w, K[w]) \/ ArrivesFrom(K, v, w, <<X>> \o K[w])
        PROVE  AnyStepOf(v)
    BY <1>4, AnyConstructMaps DEF AnyStepOf
  <1>5. ASSUME NEW w \in Objects, ptr[v] # NoObject, ptr[w] # NoObject, Exchanges(K, v, w)
        PROVE  AnyStepOf(v)
    BY <1>5, HeldSwap DEF AnyStepOf
  <1> QED BY <1>1, <1>2, <1>3, <1>4, <1>5 DEF AnyEffect

LEMMA AnyInitMaps == Anys!Init => Anys!Abstract!Init
  <1>1. SUFFICES ASSUME Anys!Init PROVE Anys!Abstract!Init
    OBVIOUS
  <1>2. ptr = [v \in Objects |-> NoObject]
    BY <1>1 DEF Anys!Init
  <1>3. Anys!Contents = [v \in Objects |-> NoObject]
    BY <1>2, ContentsNow DEF ContentsOf
  <1> QED BY <1>3 DEF Anys!Abstract!Init

(* Every call does to what the variables hold what AbstractAny.tla says:   *)
(* values of every type and their copies, moves and swaps are by value,    *)
(* for any number of variables and any nesting (any.h:18-141).             *)
THEOREM AnyRefinement == Anys!Spec => ImplementsAny
  <1>1. AnyInv /\ [Anys!Next]_anyVars => [Anys!Abstract!Next]_(Anys!Contents)
    <2> SUFFICES ASSUME AnyInv, [Anys!Next]_anyVars
                 PROVE  [Anys!Abstract!Next]_(Anys!Contents)
      OBVIOUS
    <2>1. PICK K : Keeps(inner, ptr, Nil, K)
      BY DEF AnyInv
    <2>2. CASE UNCHANGED anyVars
      <3>1. inner' = inner /\ ptr' = ptr
        BY <2>2 DEF anyVars
      <3> QED BY <3>1, ContentsNow, ContentsNext
    <2>3. CASE Anys!Next
      <3>1. PICK v \in Objects : AnyEffect(K, v)
        BY <2>1, <2>3, StepEffect
      <3>2. AnyStepOf(v)
        BY <2>1, <3>1, AnyEffectMaps
      <3> QED BY <3>2 DEF AnyStepOf, Anys!Abstract!Next
    <2> QED BY <2>2, <2>3
  <1> QED BY <1>1, AnyInit, AnyNext, AnyInitMaps, PTL
          DEF Anys!Spec, Anys!vars, anyVars, ImplementsAny, Anys!ImplementsAny, Anys!Abstract!Spec
=============================================================================

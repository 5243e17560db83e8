------------------------- MODULE IntrusiveListProofs -------------------------
(***************************************************************************)
(* Proofs about the two lists of list/, for any number of lists and items: *)
(* IntrusiveList.tla (hooks are always consistent, the rings are the lists *)
(* of AbstractLists.tla) and, after it, List.tla (each node belongs to one *)
(* list, the two directions of its ring agree).                            *)
(*                                                                         *)
(* Both arguments are about chains: C[l] is the sequence of the items or   *)
(* nodes of l, and the memory says nothing but C.                          *)
(***************************************************************************)
EXTENDS IntrusiveList, NamedList, SequenceTheorems, FiniteSetTheorems, WellFoundedInduction, TLAPS

(* The i-th hook of the ring of l when its items are s: l itself is before *)
(* the first and after the last.                                           *)
Nth(l, s, i) == IF i \in 1..Len(s) THEN s[i] ELSE l

Ring(N, P, l, s) ==
  \A i \in 0..Len(s) : /\ N[Nth(l, s, i)] = Nth(l, s, i + 1)
                       /\ P[Nth(l, s, i + 1)] = Nth(l, s, i)

In(C, h) == \E l \in Lists : \E i \in 1..Len(C[l]) : C[l][i] = h

(* No item is in two places. *)
Apart(C) ==
  \A k, l \in Lists : \A i \in 1..Len(C[k]), j \in 1..Len(C[l]) :
    C[k][i] = C[l][j] => k = l /\ i = j

(* With the hooks of K constructed, the pointers N and P make the chains C. *)
Rings(N, P, K, C) ==
  /\ K \subseteq Hooks
  /\ N \in [Hooks -> Hooks \cup {Null}]
  /\ P \in [Hooks -> Hooks \cup {Null}]
  /\ C \in [Lists -> Seq(Items)]
  /\ Apart(C)
  /\ \A l \in Lists : \A i \in 1..Len(C[l]) : C[l][i] \in K
  /\ \A l \in Lists : IF l \in K THEN Ring(N, P, l, C[l]) ELSE C[l] = <<>>
  /\ \A h \in Hooks : h \notin Lists \cap K /\ ~In(C, h) => N[h] = Null /\ P[h] = Null

-----------------------------------------------------------------------------
(* Induction over numbers *)

Below == {p \in Nat \X Nat : p[1] < p[2]}

LEMMA BelowWellFounded == IsWellFoundedOn(Below, Nat)
  BY NatLessThanWellFounded, Zenon DEF OpToRel, Below

LEMMA LeastNumber ==
  ASSUME NEW T, T \subseteq Nat, T # {}
  PROVE  \E n \in T : \A m \in T : n <= m
  <1>1. PICK x \in T : \A y \in T : ~(<<y, x>> \in Below)
    BY BelowWellFounded, WFMin, Zenon
  <1>2. ASSUME NEW y \in T PROVE x <= y
    <2>1. x \in Nat /\ y \in Nat /\ ~(<<y, x>> \in Below)
      BY <1>1
    <2> QED BY <2>1 DEF Below
  <1> QED BY <1>2

LEMMA SetInduction ==
  ASSUME NEW T, 0 \in T, \A n \in Nat : n \in T => n + 1 \in T
  PROVE  Nat \subseteq T
  <1>1. SUFFICES ASSUME Nat \ T # {} PROVE FALSE
    OBVIOUS
  <1>2. PICK n \in Nat \ T : \A m \in Nat \ T : n <= m
    BY <1>1, LeastNumber
  <1>3. n - 1 \in Nat /\ n - 1 + 1 = n
    BY <1>2
  <1> QED BY <1>2, <1>3

-----------------------------------------------------------------------------
(* The hooks of the rings *)

LEMMA ChainType ==
  ASSUME NEW C \in [Lists -> Seq(Items)], NEW l \in Lists
  PROVE  /\ Len(C[l]) \in Nat /\ DOMAIN C[l] = 1..Len(C[l])
         /\ \A i \in 1..Len(C[l]) : C[l][i] \in Items
         /\ \A i : Nth(l, C[l], i) \in Hooks
  <1>1. C[l] \in Seq(Items)
    OBVIOUS
  <1>2. Len(C[l]) \in Nat /\ DOMAIN C[l] = 1..Len(C[l])
    BY <1>1, LenProperties
  <1>3. \A i \in 1..Len(C[l]) : C[l][i] \in Items
    BY <1>1, ElementOfSeq
  <1> QED BY <1>2, <1>3 DEF Nth, Hooks

(* No hook is twice in the rings. *)
LEMMA RingsDistinct ==
  ASSUME NamesAssumption, NEW C \in [Lists -> Seq(Items)], Apart(C),
         NEW k \in Lists, NEW l \in Lists,
         NEW i \in 0..Len(C[k]), NEW j \in 0..Len(C[l]),
         Nth(k, C[k], i) = Nth(l, C[l], j)
  PROVE  k = l /\ i = j
  <1>1. /\ Len(C[k]) \in Nat /\ Len(C[l]) \in Nat
        /\ \A n \in 1..Len(C[k]) : C[k][n] \in Items
        /\ \A n \in 1..Len(C[l]) : C[l][n] \in Items
        /\ k \notin Items /\ l \notin Items
    BY ChainType DEF NamesAssumption
  <1>2. CASE i \in 1..Len(C[k]) /\ j \in 1..Len(C[l])
    BY <1>2 DEF Apart, Nth
  <1>3. CASE i \notin 1..Len(C[k]) \/ j \notin 1..Len(C[l])
    <2>1. i \notin 1..Len(C[k]) /\ j \notin 1..Len(C[l])
      BY <1>1, <1>3 DEF Nth
    <2>2. i = 0 /\ j = 0
      BY <1>1, <2>1
    <2> QED BY <2>1, <2>2 DEF Nth
  <1> QED BY <1>2, <1>3

-----------------------------------------------------------------------------
(* What the operations do to the pointers *)

Point(f, g) == [next |-> f, prev |-> g]

UnlinkedNext(N, P, h) ==
  [x \in Hooks |-> IF x = h THEN Null ELSE IF x = P[h] THEN N[h] ELSE N[x]]

UnlinkedPrev(N, P, h) ==
  [x \in Hooks |-> IF x = h THEN Null ELSE IF x = N[h] THEN P[h] ELSE P[x]]

LinkedNext(N, P, h, o) ==
  [x \in Hooks |-> IF x = h THEN o ELSE IF x = P[o] THEN h ELSE N[x]]

LinkedPrev(N, P, h, o) ==
  [x \in Hooks |-> IF x = o THEN h ELSE IF x = h THEN P[o] ELSE P[x]]

LEMMA SetNext ==
  ASSUME NEW N, NEW P, NEW m, m = Point(N, P), NEW h, NEW v,
         NEW q, q = [m EXCEPT !.next[h] = v]
  PROVE  q = Point([N EXCEPT ![h] = v], P)
  BY DEF Point

LEMMA SetPrev ==
  ASSUME NEW N, NEW P, NEW m, m = Point(N, P), NEW h, NEW v,
         NEW q, q = [m EXCEPT !.prev[h] = v]
  PROVE  q = Point(N, [P EXCEPT ![h] = v])
  BY DEF Point

LEMMA SetBoth ==
  ASSUME NEW N, NEW P, NEW m, m = Point(N, P), NEW h, NEW v, NEW i, NEW w,
         NEW q, q = [m EXCEPT !.next[h] = v, !.prev[i] = w]
  PROVE  q = Point([N EXCEPT ![h] = v], [P EXCEPT ![i] = w])
  BY DEF Point

LEMMA PointParts ==
  ASSUME NEW N, NEW P
  PROVE  Point(N, P).next = N /\ Point(N, P).prev = P
  BY DEF Point

(* The memory m has the chains C. *)
Makes(m, K, C) == \E N, P : m = Point(N, P) /\ Rings(N, P, K, C)

LEMMA UnlinkedIs ==
  ASSUME NamesAssumption,
         NEW N \in [Hooks -> Hooks \cup {Null}], NEW P \in [Hooks -> Hooks \cup {Null}],
         NEW h \in Hooks, NEW m, m = Point(N, P)
  PROVE  Unlinked(m, h) = Point(UnlinkedNext(N, P, h), UnlinkedPrev(N, P, h))
  <1> DEFINE N1 == IF P[h] = Null THEN N ELSE [N EXCEPT ![P[h]] = N[h]]
             P1 == IF N[h] = Null THEN P ELSE [P EXCEPT ![N[h]] = P[h]]
             r == IF m.prev[h] = Null THEN m ELSE [m EXCEPT !.next[m.prev[h]] = m.next[h]]
             s == IF r.next[h] = Null THEN r ELSE [r EXCEPT !.prev[r.next[h]] = r.prev[h]]
             q == [s EXCEPT !.next[h] = Null, !.prev[h] = Null]
  <1>0. Unlinked(m, h) = q
    BY DEF Unlinked
  <1>1. m.next = N /\ m.prev = P
    BY PointParts
  <1>2. r = Point(N1, P)
    <2>1. CASE P[h] = Null
      BY <1>1, <2>1
    <2>2. CASE P[h] # Null
      <3>1. r = [m EXCEPT !.next[P[h]] = N[h]]
        BY <1>1, <2>2
      <3>2. N1 = [N EXCEPT ![P[h]] = N[h]]
        BY <2>2
      <3> HIDE DEF r, N1
      <3>3. r = Point([N EXCEPT ![P[h]] = N[h]], P)
        BY <3>1, SetNext DEF Point
      <3> QED BY <3>2, <3>3
    <2> QED BY <2>1, <2>2
  <1>3. N1[h] = N[h]
    OBVIOUS
  <1> HIDE DEF r, N1
  <1>4. r.next[h] = N[h] /\ r.prev[h] = P[h]
    BY <1>2, <1>3, PointParts
  <1>5. s = Point(N1, P1)
    <2>1. CASE N[h] = Null
      BY <1>2, <1>4, <2>1
    <2>2. CASE N[h] # Null
      <3>1. s = [r EXCEPT !.prev[N[h]] = P[h]]
        BY <1>4, <2>2
      <3>2. P1 = [P EXCEPT ![N[h]] = P[h]]
        BY <2>2
      <3> HIDE DEF s, P1
      <3>3. s = Point(N1, [P EXCEPT ![N[h]] = P[h]])
        BY <1>2, <3>1, SetPrev DEF Point
      <3> QED BY <3>2, <3>3
    <2> QED BY <2>1, <2>2
  <1>6. q = [s EXCEPT !.next[h] = Null, !.prev[h] = Null]
    OBVIOUS
  <1> HIDE DEF s, P1, q
  <1>7. q = Point([N1 EXCEPT ![h] = Null], [P1 EXCEPT ![h] = Null])
    BY <1>5, <1>6, SetBoth DEF Point
  <1>8. [N1 EXCEPT ![h] = Null] = UnlinkedNext(N, P, h)
    BY DEF N1, UnlinkedNext, NamesAssumption
  <1>9. [P1 EXCEPT ![h] = Null] = UnlinkedPrev(N, P, h)
    BY DEF P1, UnlinkedPrev, NamesAssumption
  <1> QED BY <1>0, <1>7, <1>8, <1>9

LEMMA LinkedBeforeIs ==
  ASSUME NamesAssumption,
         NEW N \in [Hooks -> Hooks \cup {Null}], NEW P \in [Hooks -> Hooks \cup {Null}],
         NEW h \in Hooks, NEW o \in Hooks, NEW m, m = Point(N, P)
  PROVE  LinkedBefore(m, h, o) = Point(LinkedNext(N, P, h, o), LinkedPrev(N, P, h, o))
  <1> DEFINE N1 == IF P[o] = Null THEN N ELSE [N EXCEPT ![P[o]] = h]
             P1 == [P EXCEPT ![h] = P[o]]
             s == IF m.prev[o] = Null THEN m ELSE [m EXCEPT !.next[m.prev[o]] = h]
             t == [s EXCEPT !.prev[h] = s.prev[o]]
             q == [t EXCEPT !.prev[o] = h, !.next[h] = o]
  <1>0. LinkedBefore(m, h, o) = q
    BY DEF LinkedBefore
  <1>1. m.next = N /\ m.prev = P
    BY PointParts
  <1>2. s = Point(N1, P)
    <2>1. CASE P[o] = Null
      BY <1>1, <2>1
    <2>2. CASE P[o] # Null
      <3>1. s = [m EXCEPT !.next[P[o]] = h]
        BY <1>1, <2>2
      <3>2. N1 = [N EXCEPT ![P[o]] = h]
        BY <2>2
      <3> HIDE DEF s, N1
      <3>3. s = Point([N EXCEPT ![P[o]] = h], P)
        BY <3>1, SetNext DEF Point
      <3> QED BY <3>2, <3>3
    <2> QED BY <2>1, <2>2
  <1> HIDE DEF s, N1
  <1>3. t = Point(N1, P1)
    <2>1. s.prev[o] = P[o]
      BY <1>2, PointParts
    <2>2. t = [s EXCEPT !.prev[h] = P[o]]
      BY <2>1
    <2> HIDE DEF t
    <2>3. t = Point(N1, [P EXCEPT ![h] = P[o]])
      BY <1>2, <2>2, SetPrev DEF Point
    <2> QED BY <2>3
  <1> HIDE DEF t
  <1>4. q = [t EXCEPT !.next[h] = o, !.prev[o] = h]
    BY <1>3 DEF Point
  <1> HIDE DEF P1, q
  <1>5. q = Point([N1 EXCEPT ![h] = o], [P1 EXCEPT ![o] = h])
    BY <1>3, <1>4, SetBoth DEF Point
  <1>6. [N1 EXCEPT ![h] = o] = LinkedNext(N, P, h, o)
    BY DEF N1, LinkedNext, NamesAssumption
  <1>7. [P1 EXCEPT ![o] = h] = LinkedPrev(N, P, h, o)
    BY DEF P1, LinkedPrev, NamesAssumption
  <1> QED BY <1>0, <1>5, <1>6, <1>7

LEMMA AloneIs ==
  ASSUME NEW N, NEW P, NEW l, NEW m, m = Point(N, P)
  PROVE  Alone(m, l) = Point([N EXCEPT ![l] = l], [P EXCEPT ![l] = l])
  <1> DEFINE q == [m EXCEPT !.next[l] = l, !.prev[l] = l]
  <1>1. Alone(m, l) = q
    BY DEF Alone
  <1>2. q = [m EXCEPT !.next[l] = l, !.prev[l] = l]
    OBVIOUS
  <1> HIDE DEF q
  <1> QED BY <1>1, <1>2, SetBoth DEF Point

-----------------------------------------------------------------------------
(* Items that come and go *)

(* s with h after its first k items, and s without its k-th. *)
Inserted(s, k, h) ==
  [i \in 1..(Len(s) + 1) |-> IF i <= k THEN s[i] ELSE IF i = k + 1 THEN h ELSE s[i - 1]]

Removed(s, k) == [i \in 1..(Len(s) - 1) |-> IF i < k THEN s[i] ELSE s[i + 1]]

LEMMA RingsDistinctNext ==
  ASSUME NamesAssumption, NEW C \in [Lists -> Seq(Items)], Apart(C),
         NEW k \in Lists, NEW l \in Lists,
         NEW i \in 0..Len(C[k]), NEW j \in 0..Len(C[l]),
         Nth(k, C[k], i + 1) = Nth(l, C[l], j + 1)
  PROVE  k = l /\ i = j
  <1>1. Len(C[k]) \in Nat /\ Len(C[l]) \in Nat
    BY ChainType
  <1> DEFINE a == IF i = Len(C[k]) THEN 0 ELSE i + 1
             b == IF j = Len(C[l]) THEN 0 ELSE j + 1
  <1>2. /\ a \in 0..Len(C[k]) /\ Nth(k, C[k], a) = Nth(k, C[k], i + 1)
        /\ b \in 0..Len(C[l]) /\ Nth(l, C[l], b) = Nth(l, C[l], j + 1)
    BY <1>1 DEF Nth
  <1>3. k = l /\ a = b
    <2> HIDE DEF a, b
    <2> QED BY <1>2, RingsDistinct
  <1> QED BY <1>1, <1>3

(* The hooks in a ring, and those in none. *)
LEMMA RingsIn ==
  ASSUME NamesAssumption, NEW N, NEW P, NEW K, NEW C, Rings(N, P, K, C),
         NEW l \in Lists, NEW i \in 0..Len(C[l])
  PROVE  /\ l \in K => N[Nth(l, C[l], i)] = Nth(l, C[l], i + 1)
         /\ l \in K => P[Nth(l, C[l], i + 1)] = Nth(l, C[l], i)
         /\ \A h \in Items : ~In(C, h) => Nth(l, C[l], i) # h /\ Nth(l, C[l], i + 1) # h
         /\ \A x \in Lists : x # l => Nth(l, C[l], i) # x /\ Nth(l, C[l], i + 1) # x
  <1>1. C \in [Lists -> Seq(Items)] /\ Len(C[l]) \in Nat
    BY ChainType DEF Rings
  <1>2. \A n \in 1..Len(C[l]) : C[l][n] \in Items
    BY <1>1, ChainType
  <1>3. l \in K => Ring(N, P, l, C[l])
    BY DEF Rings
  <1> QED BY <1>1, <1>2, <1>3 DEF Ring, Nth, In, NamesAssumption

LEMMA InsertedIs ==
  ASSUME NEW s \in Seq(Items), NEW k \in 0..Len(s), NEW h \in Items
  PROVE  /\ Inserted(s, k, h) \in Seq(Items) /\ Len(Inserted(s, k, h)) = Len(s) + 1
         /\ \A i \in 1..k : Inserted(s, k, h)[i] = s[i]
         /\ Inserted(s, k, h)[k + 1] = h
         /\ \A i \in (k + 1)..Len(s) : Inserted(s, k, h)[i + 1] = s[i]
  <1> DEFINE t == Inserted(s, k, h)
  <1>1. Len(s) \in Nat /\ \A i \in 1..Len(s) : s[i] \in Items
    BY LenProperties, ElementOfSeq
  <1>2. \A i \in 1..(Len(s) + 1) :
          (IF i <= k THEN s[i] ELSE IF i = k + 1 THEN h ELSE s[i - 1]) \in Items
    BY <1>1
  <1>3. t \in [1..(Len(s) + 1) -> Items]
    BY <1>2 DEF Inserted
  <1>4. t \in Seq(Items) /\ Len(t) = Len(s) + 1
    BY <1>1, <1>3, SeqDef, LenProperties
  <1>5. /\ \A i \in 1..k : t[i] = s[i]
        /\ t[k + 1] = h
        /\ \A i \in (k + 1)..Len(s) : t[i + 1] = s[i]
    BY <1>1 DEF Inserted
  <1> QED BY <1>4, <1>5

LEMMA InsertedNth ==
  ASSUME NEW s \in Seq(Items), NEW l, NEW k \in 0..Len(s), NEW h \in Items
  PROVE  /\ \A i \in 0..k : Nth(l, Inserted(s, k, h), i) = Nth(l, s, i)
         /\ Nth(l, Inserted(s, k, h), k + 1) = h
         /\ \A i \in (k + 1)..(Len(s) + 1) : Nth(l, Inserted(s, k, h), i + 1) = Nth(l, s, i)
  <1> DEFINE t == Inserted(s, k, h)
  <1>1. Len(s) \in Nat
    BY LenProperties
  <1>2. Len(t) = Len(s) + 1 /\ t[k + 1] = h
    BY InsertedIs, Zenon
  <1>3. \A i \in 1..k : t[i] = s[i]
    BY InsertedIs, Zenon
  <1>4. \A i \in (k + 1)..Len(s) : t[i + 1] = s[i]
    BY InsertedIs, Zenon
  <1> HIDE DEF t
  <1>5. \A i \in 0..k : Nth(l, t, i) = Nth(l, s, i)
    BY <1>1, <1>2, <1>3 DEF Nth
  <1>6. Nth(l, t, k + 1) = h
    BY <1>1, <1>2 DEF Nth
  <1>7. \A i \in (k + 1)..(Len(s) + 1) : Nth(l, t, i + 1) = Nth(l, s, i)
    BY <1>1, <1>2, <1>4 DEF Nth
  <1> QED BY <1>5, <1>6, <1>7 DEF t

LEMMA RemovedIs ==
  ASSUME NEW s \in Seq(Items), NEW k \in 1..Len(s)
  PROVE  /\ Removed(s, k) \in Seq(Items) /\ Len(Removed(s, k)) = Len(s) - 1
         /\ \A i \in 1..(k - 1) : Removed(s, k)[i] = s[i]
         /\ \A i \in k..(Len(s) - 1) : Removed(s, k)[i] = s[i + 1]
  <1> DEFINE t == Removed(s, k)
  <1>1. Len(s) \in Nat /\ \A i \in 1..Len(s) : s[i] \in Items
    BY LenProperties, ElementOfSeq
  <1>2. \A i \in 1..(Len(s) - 1) : (IF i < k THEN s[i] ELSE s[i + 1]) \in Items
    BY <1>1
  <1>3. t \in [1..(Len(s) - 1) -> Items] /\ Len(s) - 1 \in Nat
    BY <1>1, <1>2 DEF Removed
  <1>4. t \in Seq(Items) /\ Len(t) = Len(s) - 1
    BY <1>1, <1>3, SeqDef, LenProperties
  <1>5. /\ \A i \in 1..(k - 1) : t[i] = s[i]
        /\ \A i \in k..(Len(s) - 1) : t[i] = s[i + 1]
    BY <1>1 DEF Removed
  <1> QED BY <1>4, <1>5

LEMMA RemovedNth ==
  ASSUME NEW s \in Seq(Items), NEW l, NEW k \in 1..Len(s)
  PROVE  /\ \A i \in 0..(k - 1) : Nth(l, Removed(s, k), i) = Nth(l, s, i)
         /\ \A i \in k..Len(s) : Nth(l, Removed(s, k), i) = Nth(l, s, i + 1)
  <1>1. Len(s) \in Nat
    BY LenProperties
  <1> DEFINE t == Removed(s, k)
  <1>2. /\ Len(t) = Len(s) - 1
        /\ \A i \in 1..(k - 1) : t[i] = s[i]
        /\ \A i \in k..(Len(s) - 1) : t[i] = s[i + 1]
    BY RemovedIs
  <1> HIDE DEF t
  <1>3. \A i \in 0..(k - 1) : Nth(l, t, i) = Nth(l, s, i)
    BY <1>1, <1>2 DEF Nth
  <1>4. \A i \in k..Len(s) : Nth(l, t, i) = Nth(l, s, i + 1)
    BY <1>1, <1>2 DEF Nth
  <1> QED BY <1>3, <1>4 DEF t

LEMMA InsertKeeps ==
  ASSUME NamesAssumption, NEW N, NEW P, NEW K, NEW C, Rings(N, P, K, C),
         NEW l \in Lists, l \in K, NEW k \in 0..Len(C[l]),
         NEW h \in Items, h \in K, ~In(C, h), NEW o, o = Nth(l, C[l], k + 1),
         NEW D, D = [C EXCEPT ![l] = Inserted(C[l], k, h)]
  PROVE  Rings(LinkedNext(N, P, h, o), LinkedPrev(N, P, h, o), K, D)
  <1> DEFINE s == C[l]
             t == Inserted(s, k, h)
             M == LinkedNext(N, P, h, o)
             Q == LinkedPrev(N, P, h, o)
  <1>1. /\ C \in [Lists -> Seq(Items)] /\ Len(s) \in Nat /\ s \in Seq(Items)
        /\ N \in [Hooks -> Hooks \cup {Null}] /\ P \in [Hooks -> Hooks \cup {Null}]
        /\ K \subseteq Hooks /\ Apart(C)
        /\ \A j \in Lists : \A i : Nth(j, C[j], i) \in Hooks
    <2>1. C \in [Lists -> Seq(Items)]
      BY DEF Rings
    <2> QED BY <2>1, ChainType DEF Rings
  <1>2. /\ t \in Seq(Items) /\ Len(t) = Len(s) + 1
        /\ \A i \in 1..Len(t) : t[i] = IF i <= k THEN s[i] ELSE IF i = k + 1 THEN h ELSE s[i - 1]
        /\ \A i \in 0..(Len(t) + 1) :
             Nth(l, t, i) = IF i <= k THEN Nth(l, s, i) ELSE IF i = k + 1 THEN h ELSE Nth(l, s, i - 1)
    <2> HIDE DEF t
    <2>1. /\ t \in Seq(Items) /\ Len(t) = Len(s) + 1
          /\ \A i \in 1..k : t[i] = s[i]
          /\ t[k + 1] = h
          /\ \A i \in (k + 1)..Len(s) : t[i + 1] = s[i]
      <3> s \in Seq(Items) /\ k \in 0..Len(s) /\ h \in Items
        BY <1>1
      <3> HIDE DEF s
      <3> QED BY InsertedIs, Zenon DEF t
    <2>2. /\ \A i \in 0..k : Nth(l, t, i) = Nth(l, s, i)
          /\ Nth(l, t, k + 1) = h
          /\ \A i \in (k + 1)..(Len(s) + 1) : Nth(l, t, i + 1) = Nth(l, s, i)
      BY <1>1, InsertedNth DEF t
    <2> HIDE DEF t, s
    <2>3. ASSUME NEW i \in 1..Len(t), i > k + 1 PROVE t[i] = s[i - 1]
      <3>1. i - 1 \in (k + 1)..Len(s) /\ i - 1 + 1 = i
        BY <1>1, <2>1, <2>3
      <3> QED BY <2>1, <3>1
    <2>4. ASSUME NEW i \in 0..(Len(t) + 1), i > k + 1 PROVE Nth(l, t, i) = Nth(l, s, i - 1)
      <3>1. i - 1 \in (k + 1)..(Len(s) + 1) /\ i - 1 + 1 = i
        BY <1>1, <2>1, <2>4
      <3> QED BY <2>2, <3>1
    <2> QED BY <1>1, <2>1, <2>2, <2>3, <2>4
  <1>3. D \in [Lists -> Seq(Items)] /\ D[l] = t /\ \A j \in Lists : j # l => D[j] = C[j]
    BY <1>1, <1>2
  <1>4. P[o] = Nth(l, s, k) /\ o \in Hooks /\ o # h /\ Nth(l, s, k) # h
    BY <1>1, RingsIn
  <1>5. /\ \A x \in Hooks : M[x] = IF x = h THEN o ELSE IF x = Nth(l, s, k) THEN h ELSE N[x]
        /\ \A x \in Hooks : Q[x] = IF x = o THEN h ELSE IF x = h THEN Nth(l, s, k) ELSE P[x]
        /\ M \in [Hooks -> Hooks \cup {Null}] /\ Q \in [Hooks -> Hooks \cup {Null}]
    <2>1. h \in Hooks
      BY DEF Hooks
    <2> QED BY <1>1, <1>4, <2>1 DEF LinkedNext, LinkedPrev
  <1> HIDE DEF M, Q, t
  <1>6. Apart(D)
    <2>1. SUFFICES ASSUME NEW a \in Lists, NEW b \in Lists,
                          NEW i \in 1..Len(D[a]), NEW j \in 1..Len(D[b]), D[a][i] = D[b][j]
                   PROVE  a = b /\ i = j
      BY DEF Apart
    <2>2. \A x \in Lists : \A n \in 1..Len(C[x]) : C[x][n] # h
      BY DEF In
    <2>3. Len(C[a]) \in Nat /\ Len(C[b]) \in Nat
      BY <1>1, ChainType
    <2>4. \A x, y \in Lists : \A m \in 1..Len(C[x]), n \in 1..Len(C[y]) :
            C[x][m] = C[y][n] => x = y /\ m = n
      BY <1>1 DEF Apart
    <2>5. CASE a # l /\ b # l
      BY <1>3, <2>1, <2>4, <2>5
    <2>6. CASE a = l /\ b # l
      <3>1. CASE i <= k
        <4>1. i \in 1..Len(s) /\ t[i] = s[i]
          BY <1>1, <1>2, <1>3, <2>6, <3>1
        <4> QED BY <1>3, <2>1, <2>4, <2>6, <4>1
      <3>2. CASE i = k + 1
        BY <1>1, <1>2, <1>3, <2>1, <2>2, <2>6, <3>2
      <3>3. CASE i > k + 1
        <4>1. i - 1 \in 1..Len(s) /\ t[i] = s[i - 1]
          BY <1>1, <1>2, <1>3, <2>6, <3>3
        <4> QED BY <1>3, <2>1, <2>4, <2>6, <4>1
      <3> QED BY <1>1, <1>2, <1>3, <2>6, <3>1, <3>2, <3>3
    <2>7. CASE a # l /\ b = l
      <3>1. CASE j <= k
        <4>1. j \in 1..Len(s) /\ t[j] = s[j]
          BY <1>1, <1>2, <1>3, <2>7, <3>1
        <4> QED BY <1>3, <2>1, <2>4, <2>7, <4>1
      <3>2. CASE j = k + 1
        BY <1>1, <1>2, <1>3, <2>1, <2>2, <2>7, <3>2
      <3>3. CASE j > k + 1
        <4>1. j - 1 \in 1..Len(s) /\ t[j] = s[j - 1]
          BY <1>1, <1>2, <1>3, <2>7, <3>3
        <4> QED BY <1>3, <2>1, <2>4, <2>7, <4>1
      <3> QED BY <1>1, <1>2, <1>3, <2>7, <3>1, <3>2, <3>3
    <2>8. CASE a = l /\ b = l
      <3> DEFINE u(n) == IF n <= k THEN n ELSE n - 1
      <3>1. i \in 1..(Len(s) + 1) /\ j \in 1..(Len(s) + 1) /\ t[i] = t[j]
        BY <1>2, <1>3, <2>1, <2>8
      <3>2. ASSUME NEW n \in 1..(Len(s) + 1), n # k + 1
            PROVE  u(n) \in 1..Len(s) /\ t[n] = s[u(n)]
        BY <1>1, <1>2, <3>2
      <3>3. CASE i # k + 1 /\ j # k + 1
        <4>1. u(i) = u(j)
          <5>1. u(i) \in 1..Len(s) /\ u(j) \in 1..Len(s) /\ s[u(i)] = s[u(j)]
            BY <3>1, <3>2, <3>3
          <5> HIDE DEF u
          <5> QED BY <2>4, <5>1
        <4> QED BY <2>8, <3>1, <3>3, <4>1
      <3>4. CASE i = k + 1 /\ j # k + 1
        <4>1. t[i] = h /\ u(j) \in 1..Len(s) /\ t[j] = s[u(j)]
          BY <1>2, <3>1, <3>2, <3>4
        <4> HIDE DEF u
        <4> QED BY <2>2, <3>1, <4>1
      <3>5. CASE i # k + 1 /\ j = k + 1
        <4>1. t[j] = h /\ u(i) \in 1..Len(s) /\ t[i] = s[u(i)]
          BY <1>2, <3>1, <3>2, <3>5
        <4> HIDE DEF u
        <4> QED BY <2>2, <3>1, <4>1
      <3> QED BY <2>8, <3>3, <3>4, <3>5
    <2> QED BY <2>5, <2>6, <2>7, <2>8
  <1>7. ASSUME NEW j \in Lists, NEW i \in 1..Len(D[j]) PROVE D[j][i] \in K
    <2>1. \A n \in 1..Len(C[j]) : C[j][n] \in K
      BY DEF Rings
    <2>2. CASE j = l
      <3>1. \/ i \in 1..Len(s) /\ t[i] = s[i]
            \/ t[i] = h
            \/ i - 1 \in 1..Len(s) /\ t[i] = s[i - 1]
        BY <1>1, <1>2, <1>3, <1>7, <2>2
      <3> QED BY <1>3, <1>7, <2>1, <2>2, <3>1
    <2> QED BY <1>3, <1>7, <2>1, <2>2
  <1>8. ASSUME NEW j \in Lists, j # l, j \in K PROVE Ring(M, Q, j, C[j])
    <2>1. SUFFICES ASSUME NEW i \in 0..Len(C[j])
                   PROVE  M[Nth(j, C[j], i)] = Nth(j, C[j], i + 1) /\ Q[Nth(j, C[j], i + 1)] = Nth(j, C[j], i)
      BY DEF Ring
    <2>2. /\ Nth(j, C[j], i) # Nth(l, s, k) /\ Nth(j, C[j], i + 1) # o
          /\ Nth(j, C[j], i) # h /\ Nth(j, C[j], i + 1) # h
      BY <1>1, <1>8, RingsDistinct, RingsDistinctNext, RingsIn
    <2>3. N[Nth(j, C[j], i)] = Nth(j, C[j], i + 1) /\ P[Nth(j, C[j], i + 1)] = Nth(j, C[j], i)
      BY <1>8, RingsIn
    <2> QED BY <1>1, <1>5, <2>2, <2>3
  <1>9. Ring(M, Q, l, t)
    <2>1. SUFFICES ASSUME NEW i \in 0..Len(t)
                   PROVE  M[Nth(l, t, i)] = Nth(l, t, i + 1) /\ Q[Nth(l, t, i + 1)] = Nth(l, t, i)
      BY DEF Ring
    <2>2. ASSUME NEW n \in 0..Len(s), n # k
          PROVE  /\ M[Nth(l, s, n)] = Nth(l, s, n + 1)
                 /\ Q[Nth(l, s, n + 1)] = Nth(l, s, n)
      <3>1. /\ Nth(l, s, n) # Nth(l, s, k) /\ Nth(l, s, n + 1) # o
            /\ Nth(l, s, n) # h /\ Nth(l, s, n + 1) # h
        BY <1>1, <2>2, RingsDistinct, RingsDistinctNext, RingsIn
      <3>2. N[Nth(l, s, n)] = Nth(l, s, n + 1) /\ P[Nth(l, s, n + 1)] = Nth(l, s, n)
        BY RingsIn
      <3> QED BY <1>1, <1>5, <3>1, <3>2
    <2>3. i \in 0..(Len(s) + 1) /\ i + 1 \in 0..(Len(t) + 1) /\ i \in 0..(Len(t) + 1)
      BY <1>1, <1>2
    <2>4. CASE i < k
      <3>1. i \in 0..Len(s) /\ i # k /\ Nth(l, t, i) = Nth(l, s, i) /\ Nth(l, t, i + 1) = Nth(l, s, i + 1)
        BY <1>1, <1>2, <2>3, <2>4
      <3> QED BY <2>2, <3>1
    <2>5. CASE i = k
      <3>1. Nth(l, t, i) = Nth(l, s, k) /\ Nth(l, t, i + 1) = h
        BY <1>1, <1>2, <2>3, <2>5
      <3> QED BY <1>1, <1>4, <1>5, <3>1 DEF Hooks
    <2>6. CASE i = k + 1
      <3>1. Nth(l, t, i) = h /\ Nth(l, t, i + 1) = o
        BY <1>1, <1>2, <2>3, <2>6
      <3> QED BY <1>1, <1>4, <1>5, <3>1 DEF Hooks
    <2>7. CASE i > k + 1
      <3>1. i - 1 \in 0..Len(s) /\ i - 1 # k /\ i - 1 + 1 = i
        BY <1>1, <2>3, <2>7
      <3>2. Nth(l, t, i) = Nth(l, s, i - 1) /\ Nth(l, t, i + 1) = Nth(l, s, i)
        BY <1>1, <1>2, <2>3, <2>7
      <3> QED BY <2>2, <3>1, <3>2
    <2> QED BY <1>1, <2>3, <2>4, <2>5, <2>6, <2>7
  <1>10. ASSUME NEW x \in Hooks, x \notin Lists \cap K, ~In(D, x)
         PROVE  M[x] = Null /\ Q[x] = Null
    <2>1. x # h
      <3>1. k + 1 \in 1..Len(D[l]) /\ D[l][k + 1] = h
        BY <1>1, <1>2, <1>3
      <3> QED BY <1>10, <3>1 DEF In
    <2>2. ~In(C, x)
      <3>1. SUFFICES ASSUME NEW a \in Lists, NEW i \in 1..Len(C[a]), C[a][i] = x PROVE FALSE
        BY DEF In
      <3>2. CASE a # l
        BY <1>3, <1>10, <3>1, <3>2 DEF In
      <3>3. CASE a = l
        <4> DEFINE n == IF i <= k THEN i ELSE i + 1
        <4>1. n \in 1..Len(t) /\ t[n] = s[i]
          BY <1>1, <1>2, <3>1, <3>3
        <4> HIDE DEF n
        <4> QED BY <1>3, <1>10, <3>1, <3>3, <4>1 DEF In
      <3> QED BY <3>2, <3>3
    <2>3. x # Nth(l, s, k) /\ x # o
      BY <1>1, <1>10, <2>2 DEF Nth, In
    <2>4. N[x] = Null /\ P[x] = Null
      BY <1>10, <2>2 DEF Rings
    <2> QED BY <1>5, <2>1, <2>3, <2>4
  <1>11. \A j \in Lists : IF j \in K THEN Ring(M, Q, j, D[j]) ELSE D[j] = <<>>
    <2>1. \A j \in Lists : j \notin K => C[j] = <<>>
      BY DEF Rings
    <2> QED BY <1>3, <1>8, <1>9, <2>1
  <1>12. Rings(M, Q, K, D)
    BY <1>1, <1>3, <1>5, <1>6, <1>7, <1>10, <1>11 DEF Rings
  <1> QED BY <1>12 DEF M, Q

LEMMA RemoveKeeps ==
  ASSUME NamesAssumption, NEW N, NEW P, NEW K, NEW C, Rings(N, P, K, C),
         NEW l \in Lists, NEW k \in 1..Len(C[l]), NEW h, h = C[l][k],
         NEW D, D = [C EXCEPT ![l] = Removed(C[l], k)]
  PROVE  Rings(UnlinkedNext(N, P, h), UnlinkedPrev(N, P, h), K, D) /\ ~In(D, h)
  <1> DEFINE s == C[l]
             t == Removed(s, k)
             M == UnlinkedNext(N, P, h)
             Q == UnlinkedPrev(N, P, h)
  <1>1. /\ C \in [Lists -> Seq(Items)] /\ Len(s) \in Nat /\ s \in Seq(Items)
        /\ N \in [Hooks -> Hooks \cup {Null}] /\ P \in [Hooks -> Hooks \cup {Null}]
        /\ K \subseteq Hooks /\ Apart(C)
        /\ \A j \in Lists : \A i : Nth(j, C[j], i) \in Hooks
    <2>1. C \in [Lists -> Seq(Items)]
      BY DEF Rings
    <2> QED BY <2>1, ChainType DEF Rings
  <1>2. /\ t \in Seq(Items) /\ Len(t) = Len(s) - 1
        /\ \A i \in 1..(k - 1) : t[i] = s[i]
        /\ \A i \in k..(Len(s) - 1) : t[i] = s[i + 1]
    BY <1>1, RemovedIs, Zenon DEF t
  <1>3. /\ \A i \in 0..(k - 1) : Nth(l, t, i) = Nth(l, s, i)
        /\ \A i \in k..Len(s) : Nth(l, t, i) = Nth(l, s, i + 1)
    BY <1>1, RemovedNth DEF t
  <1>4. D \in [Lists -> Seq(Items)] /\ D[l] = t /\ \A j \in Lists : j # l => D[j] = C[j]
    BY <1>1, <1>2
  <1>5. /\ l \in K /\ h \in Items /\ h \in Hooks /\ h = Nth(l, s, k) /\ In(C, h)
        /\ k \in 0..Len(s) /\ k - 1 \in 0..Len(s) /\ k - 1 + 1 = k
        /\ N[h] = Nth(l, s, k + 1) /\ P[h] = Nth(l, s, k - 1)
    <2>1. l \in K
      BY <1>1 DEF Rings
    <2>2. h \in Items /\ h = Nth(l, s, k) /\ k \in 0..Len(s) /\ k - 1 \in 0..Len(s) /\ k - 1 + 1 = k
      BY <1>1, ElementOfSeq DEF Nth
    <2>3. N[Nth(l, s, k)] = Nth(l, s, k + 1) /\ P[Nth(l, s, k - 1 + 1)] = Nth(l, s, k - 1)
      BY <2>1, <2>2, RingsIn
    <2> QED BY <2>1, <2>2, <2>3 DEF Hooks, In
  <1>6. /\ \A x \in Hooks : M[x] = IF x = h THEN Null ELSE IF x = Nth(l, s, k - 1) THEN Nth(l, s, k + 1) ELSE N[x]
        /\ \A x \in Hooks : Q[x] = IF x = h THEN Null ELSE IF x = Nth(l, s, k + 1) THEN Nth(l, s, k - 1) ELSE P[x]
        /\ M \in [Hooks -> Hooks \cup {Null}] /\ Q \in [Hooks -> Hooks \cup {Null}]
    BY <1>1, <1>5 DEF UnlinkedNext, UnlinkedPrev
  <1> HIDE DEF M, Q, t
  <1>7. ASSUME NEW i \in 1..Len(t)
        PROVE  \E n \in 1..Len(s) : n # k /\ t[i] = s[n] /\ n = IF i < k THEN i ELSE i + 1
    <2>1. CASE i < k
      <3>1. i \in 1..Len(s) /\ i # k /\ t[i] = s[i]
        BY <1>1, <1>2, <2>1
      <3> QED BY <2>1, <3>1
    <2>2. CASE ~(i < k)
      <3>1. i \in k..(Len(s) - 1) /\ i + 1 \in 1..Len(s) /\ i + 1 # k
        BY <1>1, <1>2, <2>2
      <3>2. t[i] = s[i + 1]
        BY <1>2, <3>1
      <3> QED BY <2>2, <3>1, <3>2
    <2> QED BY <2>1, <2>2
  <1>8. Apart(D)
    <2>1. SUFFICES ASSUME NEW a \in Lists, NEW b \in Lists,
                          NEW i \in 1..Len(D[a]), NEW j \in 1..Len(D[b]), D[a][i] = D[b][j]
                   PROVE  a = b /\ i = j
      BY DEF Apart
    <2>2. \A x, y \in Lists : \A m \in 1..Len(C[x]), n \in 1..Len(C[y]) :
            C[x][m] = C[y][n] => x = y /\ m = n
      BY <1>1 DEF Apart
    <2>3. PICK m \in 1..Len(C[a]) : C[a][m] = D[a][i] /\ m = IF a = l /\ i >= k THEN i + 1 ELSE i
      <3>1. CASE a = l
        BY <1>1, <1>2, <1>4, <1>7, <2>1, <3>1
      <3>2. CASE a # l
        BY <1>4, <2>1, <3>2
      <3> QED BY <3>1, <3>2
    <2>4. PICK n \in 1..Len(C[b]) : C[b][n] = D[b][j] /\ n = IF b = l /\ j >= k THEN j + 1 ELSE j
      <3>1. CASE b = l
        BY <1>1, <1>2, <1>4, <1>7, <2>1, <3>1
      <3>2. CASE b # l
        BY <1>4, <2>1, <3>2
      <3> QED BY <3>1, <3>2
    <2>5. a = b /\ m = n
      BY <2>1, <2>2, <2>3, <2>4
    <2>6. i \in Int /\ j \in Int /\ k \in Int
      OBVIOUS
    <2> QED BY <2>3, <2>4, <2>5, <2>6
  <1>9. ~In(D, h)
    <2>1. SUFFICES ASSUME NEW a \in Lists, NEW i \in 1..Len(D[a]), D[a][i] = h PROVE FALSE
      BY DEF In
    <2>2. \A x \in Lists : \A m \in 1..Len(C[x]) : C[x][m] = s[k] => x = l /\ m = k
      BY <1>1 DEF Apart
    <2>3. CASE a = l
      <3>1. PICK n \in 1..Len(s) : n # k /\ t[i] = s[n]
        BY <1>4, <1>7, <2>1, <2>3
      <3> QED BY <1>4, <2>1, <2>2, <2>3, <3>1
    <2>4. CASE a # l
      BY <1>4, <2>1, <2>2, <2>4
    <2> QED BY <2>3, <2>4
  <1>10. ASSUME NEW j \in Lists, NEW i \in 1..Len(D[j]) PROVE D[j][i] \in K
    <2>1. \A x \in Lists : \A n \in 1..Len(C[x]) : C[x][n] \in K
      BY DEF Rings
    <2>2. CASE j = l
      <3>1. PICK n \in 1..Len(s) : t[i] = s[n]
        BY <1>4, <1>7, <1>10, <2>2
      <3> QED BY <1>4, <2>1, <2>2, <3>1
    <2> QED BY <1>4, <1>10, <2>1, <2>2
  <1>11. ASSUME NEW j \in Lists, NEW n \in 0..Len(C[j]), j \in K, j = l => n # k - 1 /\ n # k
         PROVE  M[Nth(j, C[j], n)] = Nth(j, C[j], n + 1) /\ Q[Nth(j, C[j], n + 1)] = Nth(j, C[j], n)
    <2>1. Nth(j, C[j], n) # Nth(l, s, k - 1) /\ Nth(j, C[j], n) # h
      <3>1. Nth(j, C[j], n) # Nth(l, C[l], k - 1)
        BY <1>1, <1>11, RingsDistinct
      <3>2. Nth(j, C[j], n) # Nth(l, C[l], k)
        <4>1. C \in [Lists -> Seq(Items)] /\ Apart(C) /\ k \in 0..Len(C[l])
          BY <1>1, <1>5
        <4>2. j = l => n # k
          BY <1>11
        <4> QED BY <4>1, <4>2, RingsDistinct
      <3> QED BY <1>5, <3>1, <3>2
    <2>2. Nth(j, C[j], n + 1) # Nth(l, s, k - 1 + 1) /\ Nth(j, C[j], n + 1) # Nth(l, s, k + 1)
      BY <1>1, <1>5, <1>11, RingsDistinctNext
    <2>3. N[Nth(j, C[j], n)] = Nth(j, C[j], n + 1) /\ P[Nth(j, C[j], n + 1)] = Nth(j, C[j], n)
      BY <1>11, RingsIn
    <2> QED BY <1>1, <1>5, <1>6, <2>1, <2>2, <2>3
  <1>12. Ring(M, Q, l, t)
    <2>1. SUFFICES ASSUME NEW i \in 0..Len(t)
                   PROVE  M[Nth(l, t, i)] = Nth(l, t, i + 1) /\ Q[Nth(l, t, i + 1)] = Nth(l, t, i)
      BY DEF Ring
    <2>2. i \in 0..(Len(s) - 1)
      BY <1>1, <1>2
    <2>3. CASE i < k - 1
      <3>1. /\ i \in 0..Len(s) /\ i # k /\ i # k - 1
            /\ i \in 0..(k - 1) /\ i + 1 \in 0..(k - 1)
        BY <1>1, <2>2, <2>3
      <3>2. Nth(l, t, i) = Nth(l, s, i)
        BY <1>3, <3>1, Zenon
      <3>3. Nth(l, t, i + 1) = Nth(l, s, i + 1)
        BY <1>3, <3>1, Zenon
      <3> QED BY <1>5, <1>11, <3>1, <3>2, <3>3
    <2>4. CASE i = k - 1
      <3>1. Nth(l, t, i) = Nth(l, s, k - 1) /\ Nth(l, t, i + 1) = Nth(l, s, k + 1)
        BY <1>1, <1>3, <2>2, <2>4
      <3>2. Nth(l, s, k - 1) # h /\ Nth(l, s, k + 1) # h
        <4>1. /\ C \in [Lists -> Seq(Items)] /\ Apart(C)
              /\ k - 1 \in 0..Len(C[l]) /\ k \in 0..Len(C[l]) /\ k - 1 # k
          BY <1>1, <1>5
        <4>2. \A a, b \in 0..Len(C[l]) : Nth(l, C[l], a) = Nth(l, C[l], b) => a = b
          BY <4>1, RingsDistinct
        <4>3. Nth(l, C[l], k + 1) # Nth(l, C[l], k - 1 + 1)
          BY <4>1, RingsDistinctNext, Zenon
        <4> QED BY <1>5, <4>1, <4>2, <4>3
      <3> QED BY <1>1, <1>6, <3>1, <3>2
    <2>5. CASE i > k - 1
      <3>1. i + 1 \in 0..Len(s) /\ i + 1 # k /\ i + 1 # k - 1
        BY <1>1, <2>2, <2>5
      <3>2. Nth(l, t, i) = Nth(l, s, i + 1) /\ Nth(l, t, i + 1) = Nth(l, s, i + 1 + 1)
        BY <1>1, <1>3, <2>2, <2>5
      <3> QED BY <1>5, <1>11, <3>1, <3>2
    <2> QED BY <2>2, <2>3, <2>4, <2>5
  <1>13. ASSUME NEW x \in Hooks, x \notin Lists \cap K, ~In(D, x)
         PROVE  M[x] = Null /\ Q[x] = Null
    <2>1. CASE x # h
      <3>1. ~In(C, x)
        <4>1. SUFFICES ASSUME NEW a \in Lists, NEW i \in 1..Len(C[a]), C[a][i] = x PROVE FALSE
          BY DEF In
        <4>2. CASE a # l
          BY <1>4, <1>13, <4>1, <4>2 DEF In
        <4>3. CASE a = l
          <5> DEFINE n == IF i < k THEN i ELSE i - 1
          <5>1. n \in 1..Len(t) /\ t[n] = s[i]
            <6>1. i # k
              BY <2>1, <4>1, <4>3
            <6> QED BY <1>1, <1>2, <4>1, <4>3, <6>1
          <5> HIDE DEF n
          <5> QED BY <1>4, <1>13, <4>1, <4>3, <5>1 DEF In
        <4> QED BY <4>2, <4>3
      <3>2. x # Nth(l, s, k - 1) /\ x # Nth(l, s, k + 1)
        BY <1>1, <1>5, <1>13, <3>1 DEF Nth, In
      <3>3. N[x] = Null /\ P[x] = Null
        BY <1>13, <3>1 DEF Rings
      <3> QED BY <1>6, <2>1, <3>2, <3>3
    <2> QED BY <1>6, <2>1
  <1>14. \A j \in Lists : IF j \in K THEN Ring(M, Q, j, D[j]) ELSE D[j] = <<>>
    <2>1. \A j \in Lists : j \notin K => C[j] = <<>>
      BY DEF Rings
    <2>2. \A j \in Lists : j # l /\ j \in K => Ring(M, Q, j, C[j])
      BY <1>11 DEF Ring
    <2> QED BY <1>4, <1>5, <1>12, <2>1, <2>2
  <1>15. Rings(M, Q, K, D)
    BY <1>1, <1>4, <1>6, <1>8, <1>10, <1>13, <1>14 DEF Rings
  <1> QED BY <1>9, <1>15 DEF M, Q

Without(C, l, k) == [C EXCEPT ![l] = Removed(C[l], k)]

LEMMA WithoutKeeps ==
  ASSUME NamesAssumption, NEW N, NEW P, NEW K, NEW C, Rings(N, P, K, C),
         NEW l \in Lists, NEW k \in 1..Len(C[l])
  PROVE  Rings(UnlinkedNext(N, P, C[l][k]), UnlinkedPrev(N, P, C[l][k]), K, Without(C, l, k))
  <1> DEFINE h == C[l][k]
             D == Without(C, l, k)
  <1>1. h = C[l][k] /\ D = [C EXCEPT ![l] = Removed(C[l], k)]
    BY DEF Without
  <1> HIDE DEF h, D
  <1>2. Rings(UnlinkedNext(N, P, h), UnlinkedPrev(N, P, h), K, D)
    BY <1>1, RemoveKeeps
  <1> QED BY <1>2 DEF h, D

(* An item in no list is not changed by Unlink(). *)
LEMMA UnlinkedAlready ==
  ASSUME NamesAssumption, NEW N, NEW P, NEW K, NEW C, Rings(N, P, K, C),
         NEW h \in Items, ~In(C, h)
  PROVE  UnlinkedNext(N, P, h) = N /\ UnlinkedPrev(N, P, h) = P
  <1>1. h \in Hooks /\ h \notin Lists
    BY DEF Hooks, NamesAssumption
  <1>2. N[h] = Null /\ P[h] = Null
    BY <1>1 DEF Rings
  <1>3. N \in [Hooks -> Hooks \cup {Null}] /\ P \in [Hooks -> Hooks \cup {Null}]
    BY DEF Rings
  <1> QED BY <1>1, <1>2, <1>3 DEF UnlinkedNext, UnlinkedPrev, NamesAssumption

-----------------------------------------------------------------------------
(* Lists that come and go *)

LEMMA EmptyRing ==
  ASSUME NEW N, NEW P, NEW K, NEW C, Rings(N, P, K, C), NEW l \in Lists, l \in K, C[l] = <<>>
  PROVE  N[l] = l /\ P[l] = l
  <1>1. Ring(N, P, l, C[l]) /\ Len(C[l]) = 0
    BY DEF Rings
  <1>2. 0 \in 0..Len(C[l]) /\ Nth(l, C[l], 0) = l /\ Nth(l, C[l], 0 + 1) = l
    BY <1>1 DEF Nth
  <1> QED BY <1>1, <1>2 DEF Ring

(* Only hooks of rings point to hooks of rings. *)
LEMMA RingsApart ==
  ASSUME NamesAssumption, NEW N, NEW P, NEW K, NEW C, Rings(N, P, K, C),
         NEW l \in Lists, C[l] = <<>>, NEW M, NEW Q, NEW j \in Lists, j # l, j \in K,
         \A x \in Hooks : x # l => M[x] = N[x] /\ Q[x] = P[x]
  PROVE  Ring(M, Q, j, C[j])
  <1>1. SUFFICES ASSUME NEW i \in 0..Len(C[j])
                 PROVE  M[Nth(j, C[j], i)] = Nth(j, C[j], i + 1) /\ Q[Nth(j, C[j], i + 1)] = Nth(j, C[j], i)
    BY DEF Ring
  <1>2. \A n : Nth(j, C[j], n) \in Hooks
    BY ChainType DEF Rings
  <1>3. Nth(j, C[j], i) # l /\ Nth(j, C[j], i + 1) # l
    BY RingsIn
  <1>4. N[Nth(j, C[j], i)] = Nth(j, C[j], i + 1) /\ P[Nth(j, C[j], i + 1)] = Nth(j, C[j], i)
    BY RingsIn
  <1> QED BY <1>2, <1>3, <1>4

LEMMA ConstructKeeps ==
  ASSUME NamesAssumption, NEW N, NEW P, NEW K, NEW C, Rings(N, P, K, C),
         NEW l \in Lists, C[l] = <<>>
  PROVE  Rings([N EXCEPT ![l] = l], [P EXCEPT ![l] = l], K \cup {l}, C)
  <1> DEFINE M == [N EXCEPT ![l] = l]
             Q == [P EXCEPT ![l] = l]
  <1>1. /\ C \in [Lists -> Seq(Items)] /\ K \subseteq Hooks /\ Apart(C) /\ l \in Hooks
        /\ N \in [Hooks -> Hooks \cup {Null}] /\ P \in [Hooks -> Hooks \cup {Null}]
    BY DEF Rings, Hooks
  <1>2. /\ M \in [Hooks -> Hooks \cup {Null}] /\ Q \in [Hooks -> Hooks \cup {Null}]
        /\ M[l] = l /\ Q[l] = l
        /\ \A x \in Hooks : x # l => M[x] = N[x] /\ Q[x] = P[x]
    BY <1>1
  <1> HIDE DEF M, Q
  <1>3. Ring(M, Q, l, C[l])
    <2>1. Len(C[l]) = 0
      OBVIOUS
    <2> QED BY <1>2, <2>1 DEF Ring, Nth
  <1>4. \A j \in Lists : IF j \in K \cup {l} THEN Ring(M, Q, j, C[j]) ELSE C[j] = <<>>
    <2>1. \A j \in Lists : j \notin K => C[j] = <<>>
      BY DEF Rings
    <2>2. ASSUME NEW j \in Lists, j # l, j \in K PROVE Ring(M, Q, j, C[j])
      <3>1. \A x \in Hooks : x # l => M[x] = N[x] /\ Q[x] = P[x]
        BY <1>2
      <3> QED BY <2>2, <3>1, RingsApart, SMTT(60)
    <2> QED BY <1>3, <2>1, <2>2
  <1>5. \A j \in Lists : \A i \in 1..Len(C[j]) : C[j][i] \in K \cup {l}
    BY DEF Rings
  <1>6. ASSUME NEW x \in Hooks, x \notin Lists \cap (K \cup {l}), ~In(C, x)
        PROVE  M[x] = Null /\ Q[x] = Null
    BY <1>2, <1>6 DEF Rings
  <1>7. Rings(M, Q, K \cup {l}, C)
    BY <1>1, <1>2, <1>4, <1>5, <1>6 DEF Rings
  <1> QED BY <1>7 DEF M, Q

LEMMA DestroyKeeps ==
  ASSUME NamesAssumption, NEW N, NEW P, NEW K, NEW C, Rings(N, P, K, C),
         NEW l \in Lists, l \in K, C[l] = <<>>
  PROVE  Rings(UnlinkedNext(N, P, l), UnlinkedPrev(N, P, l), K \ {l}, C)
  <1> DEFINE M == UnlinkedNext(N, P, l)
             Q == UnlinkedPrev(N, P, l)
  <1>1. /\ C \in [Lists -> Seq(Items)] /\ K \subseteq Hooks /\ Apart(C) /\ l \in Hooks
        /\ N \in [Hooks -> Hooks \cup {Null}] /\ P \in [Hooks -> Hooks \cup {Null}]
        /\ N[l] = l /\ P[l] = l
    <2>1. N[l] = l /\ P[l] = l
      BY EmptyRing
    <2> QED BY <2>1 DEF Rings, Hooks
  <1>2. /\ M \in [Hooks -> Hooks \cup {Null}] /\ Q \in [Hooks -> Hooks \cup {Null}]
        /\ M[l] = Null /\ Q[l] = Null
        /\ \A x \in Hooks : x # l => M[x] = N[x] /\ Q[x] = P[x]
    BY <1>1 DEF UnlinkedNext, UnlinkedPrev
  <1> HIDE DEF M, Q
  <1>4. \A j \in Lists : IF j \in K \ {l} THEN Ring(M, Q, j, C[j]) ELSE C[j] = <<>>
    <2>1. \A j \in Lists : j \notin K => C[j] = <<>>
      BY DEF Rings
    <2>2. \A j \in Lists : j # l /\ j \in K => Ring(M, Q, j, C[j])
      BY <1>2, RingsApart
    <2> QED BY <2>1, <2>2
  <1>5. \A j \in Lists : \A i \in 1..Len(C[j]) : C[j][i] \in K \ {l}
    BY <1>1, ChainType DEF Rings, NamesAssumption
  <1>6. ASSUME NEW x \in Hooks, x \notin Lists \cap (K \ {l}), ~In(C, x)
        PROVE  M[x] = Null /\ Q[x] = Null
    BY <1>2, <1>6 DEF Rings
  <1>7. Rings(M, Q, K \ {l}, C)
    BY <1>1, <1>2, <1>4, <1>5, <1>6 DEF Rings
  <1> QED BY <1>7 DEF M, Q

(* An item may be destroyed when no list has it. *)
LEMMA DestroyItemKeeps ==
  ASSUME NamesAssumption, NEW N, NEW P, NEW K, NEW C, Rings(N, P, K, C),
         NEW h \in Items, ~In(C, h)
  PROVE  Rings(N, P, K \ {h}, C) /\ Rings(N, P, K \cup {h}, C)
  <1>1. h \notin Lists /\ h \in Hooks
    BY DEF NamesAssumption, Hooks
  <1>2. \A j \in Lists : \A i \in 1..Len(C[j]) : C[j][i] # h
    BY DEF In
  <1> QED BY <1>1, <1>2 DEF Rings

-----------------------------------------------------------------------------
(* The ring of one list becomes another's. *)

MovedNext(N, P, l, o) ==
  [UnlinkedNext(LinkedNext(N, P, l, o), LinkedPrev(N, P, l, o), o) EXCEPT ![o] = o]

MovedPrev(N, P, l, o) ==
  [UnlinkedPrev(LinkedNext(N, P, l, o), LinkedPrev(N, P, l, o), o) EXCEPT ![o] = o]

LEMMA PointersType ==
  ASSUME NEW N \in [Hooks -> Hooks \cup {Null}], NEW P \in [Hooks -> Hooks \cup {Null}],
         NEW h \in Hooks, NEW o \in Hooks
  PROVE  /\ LinkedNext(N, P, h, o) \in [Hooks -> Hooks \cup {Null}]
         /\ LinkedPrev(N, P, h, o) \in [Hooks -> Hooks \cup {Null}]
         /\ UnlinkedNext(N, P, h) \in [Hooks -> Hooks \cup {Null}]
         /\ UnlinkedPrev(N, P, h) \in [Hooks -> Hooks \cup {Null}]
  BY DEF LinkedNext, LinkedPrev, UnlinkedNext, UnlinkedPrev

LEMMA MovedIs ==
  ASSUME NamesAssumption,
         NEW N \in [Hooks -> Hooks \cup {Null}], NEW P \in [Hooks -> Hooks \cup {Null}],
         NEW l \in Hooks, NEW o \in Hooks, NEW m, m = Point(N, P)
  PROVE  Moved(m, l, o) = Point(MovedNext(N, P, l, o), MovedPrev(N, P, l, o))
  <1> DEFINE N1 == LinkedNext(N, P, l, o)
             P1 == LinkedPrev(N, P, l, o)
             r == LinkedBefore(m, l, o)
             s == Unlinked(r, o)
  <1>1. r = Point(N1, P1)
    BY LinkedBeforeIs
  <1>2. N1 \in [Hooks -> Hooks \cup {Null}] /\ P1 \in [Hooks -> Hooks \cup {Null}]
    BY PointersType
  <1>3. Moved(m, l, o) = Alone(s, o)
    BY DEF Moved
  <1>4. s = Point(UnlinkedNext(N1, P1, o), UnlinkedPrev(N1, P1, o))
    <2> HIDE DEF r, N1, P1
    <2> QED BY <1>1, <1>2, UnlinkedIs
  <1>5. Alone(s, o) = Point(MovedNext(N, P, l, o), MovedPrev(N, P, l, o))
    <2> DEFINE N2 == UnlinkedNext(N1, P1, o)
               P2 == UnlinkedPrev(N1, P1, o)
    <2>1. MovedNext(N, P, l, o) = [N2 EXCEPT ![o] = o] /\ MovedPrev(N, P, l, o) = [P2 EXCEPT ![o] = o]
      BY DEF MovedNext, MovedPrev
    <2> HIDE DEF s, N2, P2
    <2>2. s = Point(N2, P2)
      BY <1>4 DEF N2, P2
    <2>3. Alone(s, o) = Point([N2 EXCEPT ![o] = o], [P2 EXCEPT ![o] = o])
      BY <2>2, AloneIs
    <2> QED BY <2>1, <2>3
  <1> QED BY <1>3, <1>5

(* The pointers after a move: F is the first and Z the last of the ring. *)
LEMMA MovedPointers ==
  ASSUME NamesAssumption, NEW N, NEW P, NEW K, NEW C, Rings(N, P, K, C),
         NEW l \in Lists, C[l] = <<>>, NEW o \in Lists, o \in K, l # o,
         NEW F, F = Nth(l, C[o], 1), NEW Z, Z = Nth(l, C[o], Len(C[o]))
  PROVE  /\ MovedNext(N, P, l, o) \in [Hooks -> Hooks \cup {Null}]
         /\ MovedPrev(N, P, l, o) \in [Hooks -> Hooks \cup {Null}]
         /\ \A x \in Hooks : MovedNext(N, P, l, o)[x] = IF x = o THEN o ELSE IF x = Z THEN l
                                                        ELSE IF x = l THEN F ELSE N[x]
         /\ \A x \in Hooks : MovedPrev(N, P, l, o)[x] = IF x = o THEN o ELSE IF x = F THEN l
                                                        ELSE IF x = l THEN Z ELSE P[x]
  <1> DEFINE N1 == LinkedNext(N, P, l, o)
             P1 == LinkedPrev(N, P, l, o)
             N2 == UnlinkedNext(N1, P1, o)
             P2 == UnlinkedPrev(N1, P1, o)
  <1>1. /\ N \in [Hooks -> Hooks \cup {Null}] /\ P \in [Hooks -> Hooks \cup {Null}]
        /\ C \in [Lists -> Seq(Items)] /\ l \in Hooks /\ o \in Hooks
    BY DEF Rings, Hooks
  <1>2. /\ N1 \in [Hooks -> Hooks \cup {Null}] /\ P1 \in [Hooks -> Hooks \cup {Null}]
        /\ N2 \in [Hooks -> Hooks \cup {Null}] /\ P2 \in [Hooks -> Hooks \cup {Null}]
    <2>1. N1 \in [Hooks -> Hooks \cup {Null}] /\ P1 \in [Hooks -> Hooks \cup {Null}]
      BY <1>1, PointersType
    <2> HIDE DEF N1, P1
    <2> QED BY <1>1, <2>1, PointersType
  <1>3. Len(C[o]) \in Nat /\ (\A i \in 1..Len(C[o]) : C[o][i] \in Items) /\ l \notin Items /\ o \notin Items
    BY <1>1, ChainType DEF NamesAssumption
  <1>4. N[o] = Nth(o, C[o], 1) /\ P[o] = Nth(o, C[o], Len(C[o]))
    <2>1. /\ N[Nth(o, C[o], 0)] = Nth(o, C[o], 0 + 1)
          /\ P[Nth(o, C[o], Len(C[o]) + 1)] = Nth(o, C[o], Len(C[o]))
      BY <1>3, RingsIn
    <2> QED BY <1>3, <2>1 DEF Nth
  <1>5. /\ IF Len(C[o]) = 0 THEN N[o] = o /\ P[o] = o /\ F = l /\ Z = l
           ELSE N[o] = F /\ P[o] = Z /\ F \in Items /\ Z \in Items
    BY <1>3, <1>4 DEF Nth
  <1>6. /\ \A x \in Hooks : N1[x] = IF x = l THEN o ELSE IF x = P[o] THEN l ELSE N[x]
        /\ \A x \in Hooks : P1[x] = IF x = o THEN l ELSE IF x = l THEN P[o] ELSE P[x]
    BY DEF LinkedNext, LinkedPrev
  <1> HIDE DEF N1, P1
  <1>7. /\ \A x \in Hooks : N2[x] = IF x = o THEN Null ELSE IF x = P1[o] THEN N1[o] ELSE N1[x]
        /\ \A x \in Hooks : P2[x] = IF x = o THEN Null ELSE IF x = N1[o] THEN P1[o] ELSE P1[x]
    BY DEF UnlinkedNext, UnlinkedPrev
  <1> HIDE DEF N2, P2
  <1>8. MovedNext(N, P, l, o) = [N2 EXCEPT ![o] = o] /\ MovedPrev(N, P, l, o) = [P2 EXCEPT ![o] = o]
    BY DEF MovedNext, MovedPrev, N2, P2, N1, P1
  <1>9. P1[o] = l /\ N1[o] = (IF P[o] = o THEN l ELSE N[o])
    BY <1>1, <1>6
  <1>10. ASSUME NEW x \in Hooks
         PROVE  /\ [N2 EXCEPT ![o] = o][x] = IF x = o THEN o ELSE IF x = Z THEN l
                                             ELSE IF x = l THEN F ELSE N[x]
                /\ [P2 EXCEPT ![o] = o][x] = IF x = o THEN o ELSE IF x = F THEN l
                                             ELSE IF x = l THEN Z ELSE P[x]
    <2>1. CASE x = o
      BY <1>1, <1>2, <2>1
    <2>2. CASE x # o
      <3>1. [N2 EXCEPT ![o] = o][x] = N2[x] /\ [P2 EXCEPT ![o] = o][x] = P2[x]
        BY <1>1, <1>2, <2>2
      <3>2. CASE Len(C[o]) = 0
        BY <1>1, <1>5, <1>6, <1>7, <1>9, <2>2, <3>1, <3>2
      <3>3. CASE Len(C[o]) # 0
        BY <1>1, <1>3, <1>5, <1>6, <1>7, <1>9, <2>2, <3>1, <3>3
      <3> QED BY <3>2, <3>3
    <2> QED BY <2>1, <2>2
  <1>11. [N2 EXCEPT ![o] = o] \in [Hooks -> Hooks \cup {Null}] /\ [P2 EXCEPT ![o] = o] \in [Hooks -> Hooks \cup {Null}]
    BY <1>1, <1>2
  <1> QED BY <1>8, <1>10, <1>11

LEMMA MoveKeeps ==
  ASSUME NamesAssumption, NEW N, NEW P, NEW K, NEW C, Rings(N, P, K, C),
         NEW l \in Lists, C[l] = <<>>, NEW o \in Lists, o \in K, l # o,
         NEW D, D = [C EXCEPT ![l] = C[o], ![o] = <<>>]
  PROVE  Rings(MovedNext(N, P, l, o), MovedPrev(N, P, l, o), K \cup {l}, D)
  <1> DEFINE s == C[o]
             F == Nth(l, s, 1)
             Z == Nth(l, s, Len(s))
             M == MovedNext(N, P, l, o)
             Q == MovedPrev(N, P, l, o)
  <1>1. /\ N \in [Hooks -> Hooks \cup {Null}] /\ P \in [Hooks -> Hooks \cup {Null}]
        /\ C \in [Lists -> Seq(Items)] /\ l \in Hooks /\ o \in Hooks /\ s \in Seq(Items)
        /\ K \subseteq Hooks /\ Apart(C) /\ <<>> \in Seq(Items)
    BY DEF Rings, Hooks
  <1>2. Len(s) \in Nat /\ (\A i \in 1..Len(s) : s[i] \in Items) /\ l \notin Items /\ o \notin Items
    BY <1>1, ChainType DEF NamesAssumption
  <1>3. /\ M \in [Hooks -> Hooks \cup {Null}] /\ Q \in [Hooks -> Hooks \cup {Null}]
        /\ \A x \in Hooks : M[x] = IF x = o THEN o ELSE IF x = Z THEN l ELSE IF x = l THEN F ELSE N[x]
        /\ \A x \in Hooks : Q[x] = IF x = o THEN o ELSE IF x = F THEN l ELSE IF x = l THEN Z ELSE P[x]
    BY MovedPointers DEF M, Q, F, Z
  <1>4. /\ D \in [Lists -> Seq(Items)] /\ D[l] = s /\ D[o] = <<>>
        /\ \A j \in Lists : j # l /\ j # o => D[j] = C[j]
    BY <1>1
  <1> HIDE DEF M, Q
  <1>5. Apart(D)
    <2>1. SUFFICES ASSUME NEW a \in Lists, NEW b \in Lists,
                          NEW i \in 1..Len(D[a]), NEW j \in 1..Len(D[b]), D[a][i] = D[b][j]
                   PROVE  a = b /\ i = j
      BY DEF Apart
    <2> DEFINE u(x) == IF x = l THEN o ELSE x
    <2>2. \A x, y \in Lists : \A m \in 1..Len(C[x]), n \in 1..Len(C[y]) :
            C[x][m] = C[y][n] => x = y /\ m = n
      BY <1>1 DEF Apart
    <2>3. a # o /\ b # o
      <3>1. Len(D[o]) = 0 /\ 1..0 = {}
        BY <1>4
      <3>2. Len(D[a]) # 0 /\ Len(D[b]) # 0
        BY <3>1
      <3> QED BY <3>1, <3>2
    <2>4. u(a) \in Lists /\ D[a] = C[u(a)] /\ u(b) \in Lists /\ D[b] = C[u(b)]
      BY <1>4, <2>3
    <2>5. u(a) = u(b) /\ i = j
      <3> HIDE DEF u
      <3> QED BY <2>1, <2>2, <2>4
    <2> QED BY <2>3, <2>5
  <1>6. ASSUME NEW j \in Lists, NEW i \in 1..Len(D[j]) PROVE D[j][i] \in K \cup {l}
    <2>1. \A x \in Lists : \A n \in 1..Len(C[x]) : C[x][n] \in K
      BY DEF Rings
    <2>2. j # o
      <3>1. Len(D[o]) = 0 /\ 1..0 = {}
        BY <1>4
      <3>2. Len(D[j]) # 0
        BY <1>6, <3>1
      <3> QED BY <3>1, <3>2
    <2> QED BY <1>4, <1>6, <2>1, <2>2
  <1>7. ASSUME NEW j \in Lists, j # l, j # o, j \in K PROVE Ring(M, Q, j, C[j])
    <2>1. SUFFICES ASSUME NEW i \in 0..Len(C[j])
                   PROVE  M[Nth(j, C[j], i)] = Nth(j, C[j], i + 1) /\ Q[Nth(j, C[j], i + 1)] = Nth(j, C[j], i)
      BY DEF Ring
    <2>2. N[Nth(j, C[j], i)] = Nth(j, C[j], i + 1) /\ P[Nth(j, C[j], i + 1)] = Nth(j, C[j], i)
      BY <1>7, RingsIn
    <2>3. \A n : Nth(j, C[j], n) \in Hooks
      BY <1>1, ChainType
    <2>4. /\ Nth(j, C[j], i) # l /\ Nth(j, C[j], i) # o
          /\ Nth(j, C[j], i + 1) # l /\ Nth(j, C[j], i + 1) # o
      BY <1>7, RingsIn
    <2>5. Nth(j, C[j], i) # Z
      <3>1. CASE Len(s) = 0
        BY <2>4, <3>1 DEF Nth
      <3>2. CASE Len(s) # 0
        <4>1. Z = Nth(o, C[o], Len(C[o])) /\ Len(C[o]) \in 0..Len(C[o])
          BY <1>2, <3>2 DEF Nth
        <4> QED BY <1>1, <1>7, <4>1, RingsDistinct
      <3> QED BY <3>1, <3>2
    <2>6. Nth(j, C[j], i + 1) # F
      <3>1. CASE Len(s) = 0
        BY <2>4, <3>1 DEF Nth
      <3>2. CASE Len(s) # 0
        <4>1. F = Nth(o, C[o], 0 + 1) /\ 0 \in 0..Len(C[o])
          BY <1>2, <3>2 DEF Nth
        <4> QED BY <1>1, <1>7, <4>1, RingsDistinctNext
      <3> QED BY <3>1, <3>2
    <2> QED BY <1>3, <2>2, <2>3, <2>4, <2>5, <2>6
  <1>8. Ring(M, Q, l, s)
    <2>1. SUFFICES ASSUME NEW i \in 0..Len(s)
                   PROVE  M[Nth(l, s, i)] = Nth(l, s, i + 1) /\ Q[Nth(l, s, i + 1)] = Nth(l, s, i)
      BY DEF Ring
    <2>2. /\ Nth(l, s, i) \in Hooks /\ Nth(l, s, i + 1) \in Hooks
          /\ Nth(l, s, i) # o /\ Nth(l, s, i + 1) # o
      BY <1>1, <1>2 DEF Nth, Hooks
    <2>3. N[Nth(o, C[o], i)] = Nth(o, C[o], i + 1) /\ P[Nth(o, C[o], i + 1)] = Nth(o, C[o], i)
      BY RingsIn
    <2>4. M[Nth(l, s, i)] = Nth(l, s, i + 1)
      <3>1. CASE i = Len(s)
        BY <1>2, <1>3, <2>2, <3>1 DEF Nth
      <3>2. CASE i # Len(s) /\ i = 0
        BY <1>2, <1>3, <2>2, <3>2 DEF Nth
      <3>3. CASE i # Len(s) /\ i # 0
        <4>1. i \in 1..Len(s) /\ i + 1 \in 1..Len(s) /\ Len(s) \in 1..Len(s)
          BY <1>2, <3>3
        <4>2. Nth(l, s, i) = s[i] /\ Nth(o, s, i) = s[i] /\ Nth(l, s, i + 1) = s[i + 1]
              /\ Nth(o, s, i + 1) = s[i + 1] /\ Z = s[Len(s)]
          BY <4>1 DEF Nth
        <4>3. s[i] # s[Len(s)]
          BY <1>1, <3>3, <4>1 DEF Apart
        <4>4. s[i] # l
          BY <1>2, <4>1
        <4> QED BY <1>3, <2>2, <2>3, <4>2, <4>3, <4>4
      <3> QED BY <3>1, <3>2, <3>3
    <2>5. Q[Nth(l, s, i + 1)] = Nth(l, s, i)
      <3>1. CASE i = 0
        <4>1. Nth(l, s, i + 1) = F /\ Nth(l, s, i) = l
          BY <1>2, <3>1 DEF Nth
        <4> QED BY <1>3, <2>2, <4>1
      <3>2. CASE i # 0 /\ i = Len(s)
        <4>1. Nth(l, s, i + 1) = l /\ Nth(l, s, i) = Z /\ F # l
          BY <1>2, <3>2 DEF Nth
        <4> QED BY <1>3, <2>2, <4>1
      <3>3. CASE i # Len(s) /\ i # 0
        <4>1. i \in 1..Len(s) /\ i + 1 \in 1..Len(s) /\ 1 \in 1..Len(s)
          BY <1>2, <3>3
        <4>2. Nth(l, s, i) = s[i] /\ Nth(o, s, i) = s[i] /\ Nth(l, s, i + 1) = s[i + 1]
              /\ Nth(o, s, i + 1) = s[i + 1] /\ F = s[1]
          BY <4>1 DEF Nth
        <4>3. s[i + 1] # s[1]
          BY <1>1, <3>3, <4>1 DEF Apart
        <4>4. s[i + 1] # l
          BY <1>2, <4>1
        <4> QED BY <1>3, <2>2, <2>3, <4>2, <4>3, <4>4
      <3> QED BY <3>1, <3>2, <3>3
    <2> QED BY <2>4, <2>5
  <1>9. Ring(M, Q, o, <<>>)
    BY <1>1, <1>3 DEF Ring, Nth
  <1>10. ASSUME NEW x \in Hooks, x \notin Lists \cap (K \cup {l}), ~In(D, x)
         PROVE  M[x] = Null /\ Q[x] = Null
    <2>1. x # l /\ x # o
      BY <1>10
    <2>2. ~In(C, x)
      <3>1. SUFFICES ASSUME NEW a \in Lists, NEW i \in 1..Len(C[a]), C[a][i] = x PROVE FALSE
        BY DEF In
      <3>2. a # l
        BY <3>1
      <3>3. CASE a # o
        BY <1>4, <1>10, <3>1, <3>2, <3>3 DEF In
      <3>4. CASE a = o
        BY <1>4, <1>10, <3>1, <3>4 DEF In
      <3> QED BY <3>3, <3>4
    <2>3. x # F /\ x # Z
      BY <1>2, <2>1, <2>2 DEF Nth, In
    <2>4. N[x] = Null /\ P[x] = Null
      BY <1>10, <2>2 DEF Rings
    <2> QED BY <1>3, <2>1, <2>3, <2>4
  <1>11. \A j \in Lists : IF j \in K \cup {l} THEN Ring(M, Q, j, D[j]) ELSE D[j] = <<>>
    <2>1. \A j \in Lists : j \notin K => C[j] = <<>>
      BY DEF Rings
    <2> QED BY <1>4, <1>7, <1>8, <1>9, <2>1
  <1>12. K \cup {l} \subseteq Hooks
    BY <1>1
  <1>13. Rings(M, Q, K \cup {l}, D)
    BY <1>3, <1>4, <1>5, <1>6, <1>10, <1>11, <1>12 DEF Rings
  <1> QED BY <1>13 DEF M, Q

(* A list moved to itself when it is empty is as it was. *)
LEMMA MoveToSelf ==
  ASSUME NamesAssumption, NEW N, NEW P, NEW K, NEW C, Rings(N, P, K, C),
         NEW l \in Lists, l \in K, C[l] = <<>>
  PROVE  MovedNext(N, P, l, l) = N /\ MovedPrev(N, P, l, l) = P
  <1>1. /\ N \in [Hooks -> Hooks \cup {Null}] /\ P \in [Hooks -> Hooks \cup {Null}] /\ l \in Hooks
    BY DEF Rings, Hooks
  <1>2. N[l] = l /\ P[l] = l
    BY EmptyRing
  <1> DEFINE N1 == LinkedNext(N, P, l, l)
             P1 == LinkedPrev(N, P, l, l)
  <1>3. N1 = N /\ P1 = P
    BY <1>1, <1>2 DEF LinkedNext, LinkedPrev
  <1>4. [UnlinkedNext(N, P, l) EXCEPT ![l] = l] = N /\ [UnlinkedPrev(N, P, l) EXCEPT ![l] = l] = P
    BY <1>1, <1>2 DEF UnlinkedNext, UnlinkedPrev
  <1> HIDE DEF N1, P1
  <1>5. MovedNext(N, P, l, l) = [UnlinkedNext(N1, P1, l) EXCEPT ![l] = l]
    BY DEF MovedNext, N1, P1
  <1>6. MovedPrev(N, P, l, l) = [UnlinkedPrev(N1, P1, l) EXCEPT ![l] = l]
    BY DEF MovedPrev, N1, P1
  <1> QED BY <1>3, <1>4, <1>5, <1>6

-----------------------------------------------------------------------------
(* A list empties itself. *)

(* The positions of a list are as many items. *)
LEMMA ChainFits ==
  ASSUME NamesAssumption, NEW C \in [Lists -> Seq(Items)], Apart(C), NEW l \in Lists
  PROVE  Cardinality(Items) \in Nat /\ Len(C[l]) <= Cardinality(Items)
  <1>1. Len(C[l]) \in Nat /\ \A i \in 1..Len(C[l]) : C[l][i] \in Items
    BY ChainType
  <1> DEFINE f == [i \in 1..Len(C[l]) |-> C[l][i]]
  <1>2. f \in Injection(1..Len(C[l]), Items)
    <2>1. f \in [1..Len(C[l]) -> Items]
      BY <1>1
    <2>2. \A i, j \in 1..Len(C[l]) : f[i] = f[j] => i = j
      BY DEF Apart
    <2> QED BY <2>1, <2>2 DEF Injection, IsInjective
  <1>3. Cardinality(1..Len(C[l])) = Len(C[l])
    BY <1>1, FS_Interval
  <1>4. Cardinality(Items) \in Nat
    BY FS_CardinalityType DEF NamesAssumption
  <1>5. Cardinality(1..Len(C[l])) <= Cardinality(Items)
    <2> HIDE DEF f
    <2> QED BY <1>2, FS_Injection DEF NamesAssumption
  <1> QED BY <1>3, <1>4, <1>5

LEMMA EmptyOrEnds ==
  ASSUME NamesAssumption, NEW N, NEW P, NEW K, NEW C, Rings(N, P, K, C),
         NEW l \in Lists, l \in K
  PROVE  /\ Len(C[l]) = 0 => N[l] = l
         /\ Len(C[l]) # 0 => /\ N[l] = C[l][1] /\ P[l] = C[l][Len(C[l])]
                             /\ N[l] \in Items /\ P[l] \in Items
                             /\ N[l] # l /\ N[l] # Null /\ P[l] # Null
  <1>1. Len(C[l]) \in Nat /\ (\A i \in 1..Len(C[l]) : C[l][i] \in Items) /\ l \notin Items
    BY ChainType DEF Rings, NamesAssumption
  <1>2. /\ N[Nth(l, C[l], 0)] = Nth(l, C[l], 0 + 1)
        /\ P[Nth(l, C[l], Len(C[l]) + 1)] = Nth(l, C[l], Len(C[l]))
    BY <1>1, RingsIn
  <1> QED BY <1>1, <1>2 DEF Nth, NamesAssumption, Hooks

LEMMA PopsKeep ==
  ASSUME NamesAssumption, NEW N, NEW P, NEW K, NEW C, Rings(N, P, K, C),
         NEW l \in Lists, l \in K, NEW m, m = Point(N, P)
  PROVE  /\ Len(C[l]) = 0 => PoppedBack(m, l) = m /\ PoppedFront(m, l) = m
         /\ Len(C[l]) # 0 =>
              /\ PoppedBack(m, l) = Point(UnlinkedNext(N, P, C[l][Len(C[l])]), UnlinkedPrev(N, P, C[l][Len(C[l])]))
              /\ PoppedFront(m, l) = Point(UnlinkedNext(N, P, C[l][1]), UnlinkedPrev(N, P, C[l][1]))
  <1>1. m.next = N /\ m.prev = P
    BY PointParts
  <1>2. N \in [Hooks -> Hooks \cup {Null}] /\ P \in [Hooks -> Hooks \cup {Null}]
    BY DEF Rings
  <1>3. CASE Len(C[l]) = 0
    <2>1. N[l] = l
      BY <1>3, EmptyOrEnds
    <2> QED BY <1>1, <1>3, <2>1 DEF PoppedBack, PoppedFront, IsEmpty
  <1>4. CASE Len(C[l]) # 0
    <2>1. /\ N[l] = C[l][1] /\ P[l] = C[l][Len(C[l])] /\ N[l] \in Items /\ P[l] \in Items
          /\ N[l] # l /\ N[l] # Null /\ P[l] # Null
      BY <1>4, EmptyOrEnds
    <2>2. PoppedBack(m, l) = Unlinked(m, P[l]) /\ PoppedFront(m, l) = Unlinked(m, N[l])
      BY <1>1, <2>1 DEF PoppedBack, PoppedFront, IsEmpty
    <2>3. N[l] \in Hooks /\ P[l] \in Hooks
      BY <2>1 DEF Hooks
    <2>4. Unlinked(m, P[l]) = Point(UnlinkedNext(N, P, P[l]), UnlinkedPrev(N, P, P[l]))
      BY <1>2, <2>3, UnlinkedIs
    <2>5. Unlinked(m, N[l]) = Point(UnlinkedNext(N, P, N[l]), UnlinkedPrev(N, P, N[l]))
      BY <1>2, <2>3, UnlinkedIs
    <2> QED BY <1>4, <2>1, <2>2, <2>4, <2>5
  <1> QED BY <1>3, <1>4

(* The memories while items are popped from m. *)
Pops(m, l, n) ==
  CHOOSE after : after = [i \in 0..n |-> IF i = 0 THEN m ELSE PoppedBack(after[i - 1], l)]

LEMMA PopsExist ==
  ASSUME NEW m, NEW l, NEW n \in Nat
  PROVE  Pops(m, l, n) = [i \in 0..n |-> IF i = 0 THEN m ELSE PoppedBack(Pops(m, l, n)[i - 1], l)]
  <1> DEFINE Is(f, k) == f = [i \in 0..k |-> IF i = 0 THEN m ELSE PoppedBack(f[i - 1], l)]
             T == {k \in Nat : \E f : Is(f, k)}
  <1>1. 0 \in T
    <2> DEFINE f == [i \in 0..0 |-> m]
    <2>1. f = [i \in 0..0 |-> IF i = 0 THEN m ELSE PoppedBack(f[i - 1], l)]
      <3>1. \A i \in 0..0 : i = 0
        OBVIOUS
      <3> QED BY <3>1
    <2> QED BY <2>1
  <1>2. ASSUME NEW k \in Nat, k \in T PROVE k + 1 \in T
    <2>1. PICK f : Is(f, k)
      BY <1>2
    <2> DEFINE g == [i \in 0..(k + 1) |-> IF i = k + 1 THEN PoppedBack(f[k], l) ELSE f[i]]
    <2>2. ASSUME NEW i \in 0..(k + 1)
          PROVE  g[i] = IF i = 0 THEN m ELSE PoppedBack(g[i - 1], l)
      <3>1. CASE i = 0
        <4>1. g[i] = f[0] /\ 0 \in 0..k
          BY <3>1
        <4>2. f[0] = m
          BY <2>1, <4>1
        <4> QED BY <3>1, <4>1, <4>2
      <3>2. CASE i # 0 /\ i # k + 1
        <4>1. i \in 0..k /\ i - 1 \in 0..(k + 1) /\ i - 1 # k + 1 /\ i # 0
          BY <3>2
        <4>2. g[i] = f[i] /\ g[i - 1] = f[i - 1]
          BY <3>2, <4>1
        <4>3. f[i] = PoppedBack(f[i - 1], l)
          BY <2>1, <4>1
        <4> QED BY <4>1, <4>2, <4>3
      <3>3. CASE i = k + 1
        <4>1. g[i] = PoppedBack(f[k], l) /\ k \in 0..(k + 1) /\ k # k + 1 /\ i - 1 = k /\ i # 0
          BY <3>3
        <4>2. g[i - 1] = f[k]
          BY <4>1
        <4> QED BY <4>1, <4>2
      <3> QED BY <3>1, <3>2, <3>3
    <2>3. Is(g, k + 1)
      <3>1. DOMAIN g = 0..(k + 1) /\ g = [i \in 0..(k + 1) |-> g[i]]
        OBVIOUS
      <3> HIDE DEF g
      <3>2. [i \in 0..(k + 1) |-> g[i]] = [i \in 0..(k + 1) |-> IF i = 0 THEN m ELSE PoppedBack(g[i - 1], l)]
        BY <2>2
      <3> QED BY <3>1, <3>2
    <2> HIDE DEF g, Is
    <2>4. \E x : Is(x, k + 1)
      BY <2>3
    <2> QED BY <2>4
  <1>3. n \in T
    <2> HIDE DEF T
    <2>1. T \subseteq Nat
      BY DEF T
    <2>2. \A k \in Nat : k \in T => k + 1 \in T
      BY <1>2
    <2> QED BY <1>1, <2>2, SetInduction
  <1>4. \E f : f = [i \in 0..n |-> IF i = 0 THEN m ELSE PoppedBack(f[i - 1], l)]
    BY <1>3
  <1> QED BY <1>4 DEF Pops

LEMMA EmptiedIs ==
  ASSUME NEW m, NEW l
  PROVE  Emptied(m, l) = Alone(Pops(m, l, Cardinality(Items))[Cardinality(Items)], l)
  BY DEF Emptied, Pops

LEMMA RemovedEnds ==
  ASSUME NEW s \in Seq(Items), Len(s) # 0
  PROVE  Removed(s, Len(s)) = Front(s) /\ Removed(s, 1) = Tail(s)
  <1>1. Len(s) \in Nat /\ Len(s) > 0 /\ s # <<>>
    BY LenProperties
  <1>2. Front(s) = [i \in 1..(Len(s) - 1) |-> s[i]]
    BY <1>1 DEF Front
  <1>3. \A i \in 1..(Len(s) - 1) : i < Len(s)
    BY <1>1
  <1>4. Removed(s, Len(s)) = Front(s)
    BY <1>2, <1>3 DEF Removed
  <1>5. Removed(s, 1) = Tail(s)
    <2>1. /\ Tail(s) \in Seq(Items) /\ Len(Tail(s)) = Len(s) - 1
          /\ \A i \in 1..Len(Tail(s)) : Tail(s)[i] = s[i + 1]
      BY <1>1, HeadTailProperties
    <2>2. Removed(s, 1) \in Seq(Items) /\ Len(Removed(s, 1)) = Len(s) - 1
      BY <1>1, RemovedIs
    <2>3. \A i \in 1..(Len(s) - 1) : Removed(s, 1)[i] = s[i + 1]
      BY <1>1 DEF Removed
    <2> QED BY <2>1, <2>2, <2>3, SeqEqual
  <1> QED BY <1>4, <1>5

(* After n pops of a list with k items there are k - n, or none. *)
LEMMA PopsAre ==
  ASSUME NamesAssumption, NEW N, NEW P, NEW K, NEW C, Rings(N, P, K, C),
         NEW l \in Lists, l \in K, NEW m, m = Point(N, P), NEW n \in Nat, Len(C[l]) <= n,
         NEW E, E = [C EXCEPT ![l] = <<>>]
  PROVE  Makes(Pops(m, l, n)[n], K, E)
  <1> DEFINE f == Pops(m, l, n)
             Left(D, k) == /\ D \in [Lists -> Seq(Items)]
                           /\ \A j \in Lists : j # l => D[j] = C[j]
                           /\ Len(D[l]) = IF k <= Len(C[l]) THEN Len(C[l]) - k ELSE 0
             Popped(M, Q, D, k) == f[k] = Point(M, Q) /\ Rings(M, Q, K, D) /\ Left(D, k)
             T == {k \in Nat : k <= n => \E M, Q, D : Popped(M, Q, D, k)}
  <1>1. f = [i \in 0..n |-> IF i = 0 THEN m ELSE PoppedBack(f[i - 1], l)]
    BY PopsExist
  <1>2. C \in [Lists -> Seq(Items)] /\ Len(C[l]) \in Nat
    BY ChainType DEF Rings
  <1> HIDE DEF f
  <1>3. 0 \in T
    <2>1. 0 \in 0..n
      OBVIOUS
    <2>2. f[0] = m
      BY <1>1, <2>1
    <2>3. Popped(N, P, C, 0)
      BY <1>2, <2>2
    <2> HIDE DEF Popped
    <2> QED BY <2>3
  <1>4. ASSUME NEW k \in Nat, k \in T PROVE k + 1 \in T
    <2>1. SUFFICES ASSUME k + 1 <= n PROVE \E M, Q, D : Popped(M, Q, D, k + 1)
      BY DEF T
    <2>2. PICK M, Q, D : Popped(M, Q, D, k)
      <3> HIDE DEF Popped
      <3> QED BY <1>4, <2>1
    <2>3. f[k + 1] = PoppedBack(f[k], l)
      <3>1. k + 1 \in 0..n /\ k + 1 # 0 /\ k + 1 - 1 = k
        BY <2>1
      <3> QED BY <1>1, <3>1
    <2>4. D \in [Lists -> Seq(Items)] /\ Len(D[l]) \in Nat
      BY <2>2, LenProperties
    <2>5. CASE Len(D[l]) = 0
      <3>1. f[k + 1] = f[k]
        BY <2>2, <2>3, <2>5, PopsKeep
      <3>2. Left(D, k + 1)
        BY <1>2, <2>2, <2>5
      <3>3. Popped(M, Q, D, k + 1)
        BY <2>2, <3>1, <3>2
      <3> HIDE DEF Popped
      <3> QED BY <3>3
    <2>6. CASE Len(D[l]) # 0
      <3> DEFINE h == D[l][Len(D[l])]
                 s == Removed(D[l], Len(D[l]))
                 G == [D EXCEPT ![l] = s]
      <3>1. f[k + 1] = Point(UnlinkedNext(M, Q, h), UnlinkedPrev(M, Q, h))
        BY <2>2, <2>3, <2>6, PopsKeep
      <3>2. Len(D[l]) \in 1..Len(D[l])
        BY <2>4, <2>6
      <3>3. Rings(UnlinkedNext(M, Q, h), UnlinkedPrev(M, Q, h), K, G)
        BY <2>2, <3>2, RemoveKeeps
      <3>4. s \in Seq(Items) /\ Len(s) = Len(D[l]) - 1
        BY <2>4, <3>2, RemovedIs
      <3> HIDE DEF s
      <3>5. G[l] = s /\ G \in [Lists -> Seq(Items)] /\ \A j \in Lists : j # l => G[j] = D[j]
        BY <2>2, <3>4
      <3>6. Left(G, k + 1)
        <4> HIDE DEF G
        <4> QED BY <1>2, <2>2, <2>4, <2>6, <3>4, <3>5
      <3> HIDE DEF G, h
      <3>7. Popped(UnlinkedNext(M, Q, h), UnlinkedPrev(M, Q, h), G, k + 1)
        BY <3>1, <3>3, <3>6
      <3> HIDE DEF Popped
      <3> QED BY <3>7
    <2> QED BY <2>5, <2>6
  <1>5. n \in T
    <2> HIDE DEF T
    <2>1. \A k \in Nat : k \in T => k + 1 \in T
      BY <1>4
    <2> QED BY <1>3, <2>1, SetInduction
  <1>6. PICK M, Q, D : Popped(M, Q, D, n)
    <2> HIDE DEF Popped
    <2> QED BY <1>5
  <1>7. D = E
    <2>1. D[l] = <<>>
      <3>1. D[l] \in Seq(Items) /\ Len(D[l]) = 0
        BY <1>2, <1>6
      <3> QED BY <3>1, EmptySeq
    <2> QED BY <1>2, <1>6, <2>1
  <1> QED BY <1>6, <1>7 DEF f, Makes

LEMMA EmptiedKeeps ==
  ASSUME NamesAssumption, NEW N, NEW P, NEW K, NEW C, Rings(N, P, K, C),
         NEW l \in Lists, l \in K, NEW m, m = Point(N, P), NEW D, D = [C EXCEPT ![l] = <<>>]
  PROVE  Makes(Emptied(m, l), K, D)
  <1> DEFINE n == Cardinality(Items)
  <1>1. n \in Nat /\ Len(C[l]) <= n /\ C \in [Lists -> Seq(Items)]
    BY ChainFits DEF Rings
  <1> HIDE DEF n
  <1>0. Makes(Pops(m, l, n)[n], K, D)
    BY <1>1, PopsAre
  <1>2. PICK M, Q : Pops(m, l, n)[n] = Point(M, Q) /\ Rings(M, Q, K, D)
    BY <1>0 DEF Makes
  <1>3. D[l] = <<>>
    BY <1>1
  <1>4. Emptied(m, l) = Alone(Pops(m, l, n)[n], l)
    BY EmptiedIs DEF n
  <1>5. Emptied(m, l) = Point([M EXCEPT ![l] = l], [Q EXCEPT ![l] = l])
    <2> DEFINE r == Pops(m, l, n)[n]
    <2> HIDE DEF r
    <2>1. r = Point(M, Q)
      BY <1>2 DEF r
    <2>2. Alone(r, l) = Point([M EXCEPT ![l] = l], [Q EXCEPT ![l] = l])
      BY <2>1, AloneIs
    <2> QED BY <1>4, <2>2 DEF r
  <1>6. Rings([M EXCEPT ![l] = l], [Q EXCEPT ![l] = l], K \cup {l}, D)
    BY <1>2, <1>3, ConstructKeeps
  <1>7. K \cup {l} = K
    OBVIOUS
  <1> QED BY <1>5, <1>6, <1>7 DEF Makes

-----------------------------------------------------------------------------
(* What a walk along a ring finds *)

WalkFrom(N, l) ==
  LET After == [h \in Hooks |-> IF h \in Items THEN N[h] ELSE h]
      at[n \in 0..Cardinality(Items)] == IF n = 0 THEN N[l] ELSE After[at[n - 1]]
  IN  at

SizeFrom(N, l) == Cardinality({n \in DOMAIN WalkFrom(N, l) : WalkFrom(N, l)[n] \in Items})

ContentsFrom(N, l) == [i \in 1..SizeFrom(N, l) |-> WalkFrom(N, l)[i - 1]]

LEMMA WalkIs ==
  ASSUME NamesAssumption, NEW N, NEW P, NEW K, NEW C, Rings(N, P, K, C),
         NEW l \in Lists, l \in K
  PROVE  /\ DOMAIN WalkFrom(N, l) = 0..Cardinality(Items)
         /\ \A n \in 0..Cardinality(Items) : WalkFrom(N, l)[n] = Nth(l, C[l], n + 1)
  <1> DEFINE c == Cardinality(Items)
             After == [h \in Hooks |-> IF h \in Items THEN N[h] ELSE h]
             Is(f) == f = [n \in 0..c |-> IF n = 0 THEN N[l] ELSE After[f[n - 1]]]
             w == [n \in 0..c |-> Nth(l, C[l], n + 1)]
             v == WalkFrom(N, l)
  <1>1. /\ c \in Nat /\ Len(C[l]) \in Nat /\ C \in [Lists -> Seq(Items)]
        /\ (\A i \in 1..Len(C[l]) : C[l][i] \in Items) /\ l \notin Items
        /\ \A i : Nth(l, C[l], i) \in Hooks
    <2>1. C \in [Lists -> Seq(Items)] /\ Apart(C)
      BY DEF Rings
    <2> QED BY <2>1, ChainFits, ChainType DEF NamesAssumption
  <1> HIDE DEF c
  <1>2. N[l] = Nth(l, C[l], 1)
    <2>1. N[Nth(l, C[l], 0)] = Nth(l, C[l], 0 + 1) /\ Nth(l, C[l], 0) = l
      BY <1>1, RingsIn DEF Nth
    <2> QED BY <2>1
  <1>3. ASSUME NEW n \in Nat, n # 0
        PROVE  After[Nth(l, C[l], n)] = Nth(l, C[l], n + 1)
    <2>1. CASE n \in 1..Len(C[l])
      <3>1. Nth(l, C[l], n) \in Items /\ Nth(l, C[l], n) \in Hooks
        BY <1>1, <2>1 DEF Nth
      <3>2. n \in 0..Len(C[l])
        BY <1>1, <2>1
      <3>3. N[Nth(l, C[l], n)] = Nth(l, C[l], n + 1)
        BY <3>2, RingsIn
      <3> QED BY <3>1, <3>3
    <2>2. CASE n \notin 1..Len(C[l])
      <3>1. Nth(l, C[l], n) = l /\ Nth(l, C[l], n + 1) = l
        BY <1>1, <1>3, <2>2 DEF Nth
      <3> QED BY <1>1, <3>1
    <2> QED BY <2>1, <2>2
  <1> HIDE DEF After
  <1>4. Is(w)
    <2>1. ASSUME NEW n \in 0..c PROVE w[n] = IF n = 0 THEN N[l] ELSE After[w[n - 1]]
      <3>1. CASE n = 0
        BY <1>1, <1>2, <3>1
      <3>2. CASE n # 0
        <4>1. n - 1 \in 0..c /\ n - 1 + 1 = n /\ n \in Nat
          BY <1>1, <3>2
        <4>2. w[n - 1] = Nth(l, C[l], n) /\ w[n] = Nth(l, C[l], n + 1)
          BY <4>1
        <4> HIDE DEF w
        <4> QED BY <1>3, <3>2, <4>1, <4>2
      <3> QED BY <3>1, <3>2
    <2>2. w = [n \in 0..c |-> w[n]]
      OBVIOUS
    <2> HIDE DEF w
    <2>3. [n \in 0..c |-> w[n]] = [n \in 0..c |-> IF n = 0 THEN N[l] ELSE After[w[n - 1]]]
      BY <2>1
    <2> QED BY <2>2, <2>3
  <1>5. Is(v)
    <2>1. \E f : Is(f)
      <3> HIDE DEF Is, w
      <3> QED BY <1>4
    <2>2. v = CHOOSE f : Is(f)
      BY DEF WalkFrom, After, c
    <2> HIDE DEF Is, v
    <2> QED BY <2>1, <2>2
  <1> HIDE DEF v
  <1>6. DOMAIN v = 0..c
    BY <1>5
  <1>7. ASSUME NEW n \in 0..c PROVE v[n] = Nth(l, C[l], n + 1)
    <2> DEFINE T == {k \in Nat : k \in 0..c => v[k] = Nth(l, C[l], k + 1)}
    <2>1. 0 \in T
      BY <1>1, <1>2, <1>5
    <2>2. ASSUME NEW k \in Nat, k \in T PROVE k + 1 \in T
      <3>1. CASE k + 1 \in 0..c
        <4>1. k \in 0..c /\ k + 1 # 0 /\ k + 1 - 1 = k
          BY <1>1, <3>1
        <4>2. v[k + 1] = After[v[k]]
          BY <1>5, <3>1, <4>1
        <4>3. v[k] = Nth(l, C[l], k + 1)
          BY <2>2, <4>1
        <4>4. After[Nth(l, C[l], k + 1)] = Nth(l, C[l], k + 1 + 1)
          BY <1>3, <4>1
        <4> QED BY <4>2, <4>3, <4>4
      <3>2. CASE k + 1 \notin 0..c
        BY <3>2
      <3> QED BY <3>1, <3>2
    <2>3. n \in Nat
      BY <1>1
    <2> HIDE DEF T
    <2>4. \A k \in Nat : k \in T => k + 1 \in T
      BY <2>2
    <2>5. n \in T
      BY <2>1, <2>3, <2>4, SetInduction
    <2> QED BY <2>5 DEF T
  <1> QED BY <1>6, <1>7 DEF v, c

LEMMA ContentsAre ==
  ASSUME NamesAssumption, NEW N, NEW P, NEW K, NEW C, Rings(N, P, K, C),
         NEW l \in Lists, l \in K
  PROVE  ContentsFrom(N, l) = C[l]
  <1> DEFINE c == Cardinality(Items)
             w == WalkFrom(N, l)
  <1>1. /\ c \in Nat /\ Len(C[l]) \in Nat /\ Len(C[l]) <= c /\ C \in [Lists -> Seq(Items)]
        /\ (\A i \in 1..Len(C[l]) : C[l][i] \in Items) /\ l \notin Items
    <2>1. C \in [Lists -> Seq(Items)] /\ Apart(C)
      BY DEF Rings
    <2> QED BY <2>1, ChainFits, ChainType DEF NamesAssumption
  <1>2. DOMAIN w = 0..c /\ \A n \in 0..c : w[n] = Nth(l, C[l], n + 1)
    BY WalkIs
  <1> HIDE DEF c, w
  <1>3. {n \in DOMAIN w : w[n] \in Items} = 0..(Len(C[l]) - 1)
    <2>1. \A n \in 0..c : w[n] \in Items <=> n + 1 <= Len(C[l])
      BY <1>1, <1>2 DEF Nth
    <2> QED BY <1>1, <1>2, <2>1
  <1>4. SizeFrom(N, l) = Len(C[l])
    <2> DEFINE z == Len(C[l]) - 1
    <2>1. z \in Int /\ (IF 0 > z THEN 0 ELSE z - 0 + 1) = Len(C[l])
      BY <1>1
    <2> HIDE DEF z
    <2>2. Cardinality(0..z) = Len(C[l])
      BY <2>1, FS_Interval
    <2> QED BY <1>3, <2>2 DEF SizeFrom, w, z
  <1>5. ASSUME NEW i \in 1..Len(C[l]) PROVE w[i - 1] = C[l][i]
    <2>1. i - 1 \in 0..c /\ i - 1 + 1 = i
      BY <1>1
    <2> QED BY <1>2, <2>1 DEF Nth
  <1>6. C[l] = [i \in 1..Len(C[l]) |-> C[l][i]]
    BY <1>1, SeqDef
  <1> QED BY <1>4, <1>5, <1>6 DEF ContentsFrom, w

-----------------------------------------------------------------------------
(* The steps, as changes of the chains *)

Chains(C) == Rings(next, prev, constructed, C)

LEMMA MemoryIs == Memory = Point(next, prev)
  BY DEF Memory, Point

LEMMA BecomesIs ==
  ASSUME NEW m, NEW M, NEW Q, m = Point(M, Q), Becomes(m)
  PROVE  next' = M /\ prev' = Q
  BY PointParts DEF Becomes

(* The hooks that are linked are those of the rings. *)
LEMMA LinkedIs ==
  ASSUME NamesAssumption, NEW N, NEW P, NEW K, NEW C, Rings(N, P, K, C), NEW x \in Hooks
  PROVE  /\ N[x] # Null <=> In(C, x) \/ x \in Lists \cap K
         /\ P[x] # Null <=> In(C, x) \/ x \in Lists \cap K
         /\ In(C, x) => x \in K /\ N[x] \in K /\ P[x] \in K
         /\ x \in Lists \cap K => N[x] \in K /\ P[x] \in K
  <1>1. /\ C \in [Lists -> Seq(Items)] /\ Null \notin Hooks /\ K \subseteq Hooks
        /\ \A l \in Lists : \A i : Nth(l, C[l], i) \in Hooks
        /\ \A l \in Lists : Len(C[l]) \in Nat
    BY ChainType DEF Rings, NamesAssumption
  <1>2. \A l \in Lists : \A i \in 1..Len(C[l]) : C[l][i] \in K /\ l \in K
    <2>1. \A l \in Lists : \A i \in 1..Len(C[l]) : C[l][i] \in K
      BY DEF Rings
    <2>2. ASSUME NEW l \in Lists, l \notin K PROVE Len(C[l]) = 0
      BY <2>2 DEF Rings
    <2>3. 1..0 = {}
      OBVIOUS
    <2> QED BY <2>1, <2>2, <2>3
  <1>3. ASSUME NEW l \in Lists, l \in K, NEW i PROVE Nth(l, C[l], i) \in K
    BY <1>2, <1>3 DEF Nth
  <1>4. CASE In(C, x)
    <2>0. PICK l \in Lists : \E i \in 1..Len(C[l]) : C[l][i] = x
      BY <1>4 DEF In
    <2>1. PICK i \in 1..Len(C[l]) : C[l][i] = x
      BY <2>0
    <2>2. i \in 0..Len(C[l]) /\ i - 1 \in 0..Len(C[l]) /\ i - 1 + 1 = i /\ Nth(l, C[l], i) = x
      BY <1>1, <2>1 DEF Nth
    <2>3. N[Nth(l, C[l], i)] = Nth(l, C[l], i + 1) /\ P[Nth(l, C[l], i - 1 + 1)] = Nth(l, C[l], i - 1)
      BY <1>2, <2>2, RingsIn
    <2>4. l \in K
      BY <1>2
    <2>5. N[x] \in K /\ P[x] \in K /\ x \in K
      BY <1>2, <1>3, <2>1, <2>2, <2>3, <2>4
    <2> QED BY <1>1, <1>4, <2>5
  <1>5. CASE x \in Lists \cap K
    <2>1. 0 \in 0..Len(C[x]) /\ Len(C[x]) \in 0..Len(C[x])
      BY <1>1, <1>5
    <2>2. /\ N[Nth(x, C[x], 0)] = Nth(x, C[x], 0 + 1)
          /\ P[Nth(x, C[x], Len(C[x]) + 1)] = Nth(x, C[x], Len(C[x]))
      BY <1>5, <2>1, RingsIn
    <2>3. Nth(x, C[x], 0) = x /\ Nth(x, C[x], Len(C[x]) + 1) = x
      BY <1>1, <1>5 DEF Nth
    <2>4. N[x] \in K /\ P[x] \in K
      BY <1>3, <1>5, <2>2, <2>3
    <2> QED BY <1>1, <1>5, <2>4
  <1>6. CASE ~In(C, x) /\ x \notin Lists \cap K
    BY <1>6 DEF Rings
  <1> QED BY <1>4, <1>5, <1>6

LEMMA NotLinked ==
  ASSUME NamesAssumption, NEW C, Chains(C), NEW i \in Items
  PROVE  IsLinked(Memory, i) <=> In(C, i)
  <1>1. i \in Hooks /\ i \notin Lists
    BY DEF Hooks, NamesAssumption
  <1>2. IsLinked(Memory, i) <=> next[i] # Null \/ prev[i] # Null
    BY DEF IsLinked, Memory
  <1>3. (next[i] # Null <=> In(C, i)) /\ (prev[i] # Null <=> In(C, i))
    BY <1>1, LinkedIs DEF Chains
  <1> QED BY <1>2, <1>3

(* i leaves the list it is in, if it is in one. *)
Left(C, D, i) ==
  \/ ~In(C, i) /\ D = C
  \/ \E l \in Lists : \E k \in 1..Len(C[l]) : C[l][k] = i /\ D = [C EXCEPT ![l] = Removed(C[l], k)]

LEMMA UnlinkedKeeps ==
  ASSUME NamesAssumption, NEW C, Chains(C), NEW i \in Items, Becomes(Unlinked(Memory, i))
  PROVE  \E D : Rings(next', prev', constructed, D) /\ Left(C, D, i) /\ ~In(D, i)
  <1>1. /\ next \in [Hooks -> Hooks \cup {Null}] /\ prev \in [Hooks -> Hooks \cup {Null}]
        /\ i \in Hooks
    BY DEF Chains, Rings, Hooks
  <1>2. next' = UnlinkedNext(next, prev, i) /\ prev' = UnlinkedPrev(next, prev, i)
    <2> DEFINE m == Memory
    <2>1. m = Point(next, prev)
      BY MemoryIs
    <2> HIDE DEF m
    <2>2. Unlinked(m, i) = Point(UnlinkedNext(next, prev, i), UnlinkedPrev(next, prev, i))
      BY <1>1, <2>1, UnlinkedIs
    <2> QED BY <2>2, BecomesIs DEF m
  <1>3. CASE ~In(C, i)
    <2>1. next' = next /\ prev' = prev
      BY <1>2, <1>3, UnlinkedAlready DEF Chains
    <2> QED BY <1>3, <2>1 DEF Chains, Left
  <1>4. CASE In(C, i)
    <2>0. PICK l \in Lists : \E k \in 1..Len(C[l]) : C[l][k] = i
      BY <1>4 DEF In
    <2>1. PICK k \in 1..Len(C[l]) : C[l][k] = i
      BY <2>0
    <2> DEFINE D == [C EXCEPT ![l] = Removed(C[l], k)]
    <2>2. Left(C, D, i)
      BY <2>1 DEF Left
    <2>3. D = [C EXCEPT ![l] = Removed(C[l], k)]
      OBVIOUS
    <2> HIDE DEF D
    <2>4. Rings(next', prev', constructed, D) /\ ~In(D, i)
      BY <1>2, <2>1, <2>3, RemoveKeeps DEF Chains
    <2> QED BY <2>2, <2>4
  <1> QED BY <1>3, <1>4

LEMMA ConstructItemStep ==
  ASSUME NamesAssumption, NEW C, Chains(C), NEW i \in Items, ConstructItem(i)
  PROVE  Rings(next', prev', constructed', C)
  <1>1. i \in Hooks /\ i \notin constructed
    BY DEF ConstructItem, Hooks
  <1>2. ~In(C, i)
    BY <1>1, LinkedIs DEF Chains
  <1>3. Rings(next, prev, constructed \cup {i}, C)
    BY <1>2, DestroyItemKeeps DEF Chains
  <1> QED BY <1>3 DEF ConstructItem

LEMMA DestroyItemStep ==
  ASSUME NamesAssumption, NEW C, Chains(C), NEW i \in Items, DestroyItem(i)
  PROVE  \E D : Rings(next', prev', constructed', D) /\ Left(C, D, i)
  <1>1. PICK D : Rings(next', prev', constructed, D) /\ Left(C, D, i) /\ ~In(D, i)
    BY UnlinkedKeeps DEF DestroyItem
  <1>2. Rings(next', prev', constructed \ {i}, D)
    BY <1>1, DestroyItemKeeps
  <1> QED BY <1>1, <1>2 DEF DestroyItem

LEMMA UnlinkStep ==
  ASSUME NamesAssumption, NEW C, Chains(C), NEW i \in Items, Unlink(i)
  PROVE  \E D : Rings(next', prev', constructed', D) /\ Left(C, D, i)
  BY UnlinkedKeeps DEF Unlink

LEMMA ConstructStep ==
  ASSUME NamesAssumption, NEW C, Chains(C), NEW l \in Lists, Construct(l)
  PROVE  Rings(next', prev', constructed', C) /\ C[l] = <<>>
  <1>1. C[l] = <<>>
    BY DEF Construct, Chains, Rings
  <1>2. next' = [next EXCEPT ![l] = l] /\ prev' = [prev EXCEPT ![l] = l]
    <2> DEFINE m == Memory
    <2>1. m = Point(next, prev)
      BY MemoryIs
    <2> HIDE DEF m
    <2>2. Alone(m, l) = Point([next EXCEPT ![l] = l], [prev EXCEPT ![l] = l])
      BY <2>1, AloneIs
    <2> QED BY <2>2, BecomesIs DEF m, Construct
  <1>3. Rings([next EXCEPT ![l] = l], [prev EXCEPT ![l] = l], constructed \cup {l}, C)
    BY <1>1, ConstructKeeps DEF Chains
  <1> QED BY <1>1, <1>2, <1>3 DEF Construct

LEMMA MoveConstructStep ==
  ASSUME NamesAssumption, NEW C, Chains(C), NEW l \in Lists, NEW other \in Lists,
         MoveConstruct(l, other), NEW D, D = [C EXCEPT ![l] = C[other], ![other] = <<>>]
  PROVE  Rings(next', prev', constructed', D) /\ C[l] = <<>> /\ l # other
  <1>1. C[l] = <<>> /\ l # other /\ other \in constructed
    BY DEF MoveConstruct, Chains, Rings
  <1>2. /\ next \in [Hooks -> Hooks \cup {Null}] /\ prev \in [Hooks -> Hooks \cup {Null}]
        /\ l \in Hooks /\ other \in Hooks
    BY DEF Chains, Rings, Hooks
  <1>3. next' = MovedNext(next, prev, l, other) /\ prev' = MovedPrev(next, prev, l, other)
    <2> DEFINE m == Memory
    <2>1. m = Point(next, prev)
      BY MemoryIs
    <2> HIDE DEF m
    <2>2. Moved(m, l, other) = Point(MovedNext(next, prev, l, other), MovedPrev(next, prev, l, other))
      BY <1>2, <2>1, MovedIs
    <2> QED BY <2>2, BecomesIs DEF m, MoveConstruct
  <1>4. Rings(MovedNext(next, prev, l, other), MovedPrev(next, prev, l, other), constructed \cup {l}, D)
    BY <1>1, MoveKeeps DEF Chains
  <1> QED BY <1>1, <1>3, <1>4 DEF MoveConstruct

LEMMA DestroyStep ==
  ASSUME NamesAssumption, NEW C, Chains(C), NEW l \in Lists, Destroy(l),
         NEW D, D = [C EXCEPT ![l] = <<>>]
  PROVE  Rings(next', prev', constructed', D)
  <1> DEFINE m == Memory
             e == Emptied(m, l)
  <1>1. m = Point(next, prev) /\ l \in constructed /\ Becomes(Unlinked(e, l)) /\ l \in Hooks
        /\ constructed' = constructed \ {l} /\ C \in [Lists -> Seq(Items)]
    BY MemoryIs DEF Destroy, Hooks, Chains, Rings
  <1> HIDE DEF m
  <1>2. Makes(e, constructed, D)
    BY <1>1, EmptiedKeeps DEF Chains
  <1> HIDE DEF e
  <1>3. PICK M, Q : e = Point(M, Q) /\ Rings(M, Q, constructed, D)
    BY <1>2 DEF Makes
  <1>4. M \in [Hooks -> Hooks \cup {Null}] /\ Q \in [Hooks -> Hooks \cup {Null}] /\ D[l] = <<>>
    BY <1>1, <1>3 DEF Rings
  <1>5. Unlinked(e, l) = Point(UnlinkedNext(M, Q, l), UnlinkedPrev(M, Q, l))
    BY <1>1, <1>3, <1>4, UnlinkedIs
  <1>6. next' = UnlinkedNext(M, Q, l) /\ prev' = UnlinkedPrev(M, Q, l)
    BY <1>1, <1>5, BecomesIs
  <1>7. Rings(UnlinkedNext(M, Q, l), UnlinkedPrev(M, Q, l), constructed \ {l}, D)
    BY <1>1, <1>3, <1>4, DestroyKeeps
  <1> QED BY <1>1, <1>6, <1>7

LEMMA MoveAssignStep ==
  ASSUME NamesAssumption, NEW C, Chains(C), NEW l \in Lists, NEW other \in Lists,
         MoveAssign(l, other),
         NEW D, D = [C EXCEPT ![l] = IF l = other THEN <<>> ELSE C[other], ![other] = <<>>]
  PROVE  Rings(next', prev', constructed', D)
  <1> DEFINE m == Memory
             e == Emptied(m, l)
             E == [C EXCEPT ![l] = <<>>]
  <1>1. /\ m = Point(next, prev) /\ l \in constructed /\ other \in constructed
        /\ Becomes(Moved(e, l, other)) /\ l \in Hooks /\ other \in Hooks
        /\ constructed' = constructed /\ C \in [Lists -> Seq(Items)]
    BY MemoryIs DEF MoveAssign, Hooks, Chains, Rings
  <1>2. E = [C EXCEPT ![l] = <<>>] /\ E[l] = <<>>
    BY <1>1
  <1>3. IF l = other THEN D = E ELSE D = [E EXCEPT ![l] = E[other], ![other] = <<>>]
    BY <1>1
  <1> HIDE DEF m, E
  <1>4. Makes(e, constructed, E)
    BY <1>1, <1>2, EmptiedKeeps DEF Chains
  <1> HIDE DEF e
  <1>5. PICK M, Q : e = Point(M, Q) /\ Rings(M, Q, constructed, E)
    BY <1>4 DEF Makes
  <1>6. M \in [Hooks -> Hooks \cup {Null}] /\ Q \in [Hooks -> Hooks \cup {Null}]
    BY <1>5 DEF Rings
  <1>7. Moved(e, l, other) = Point(MovedNext(M, Q, l, other), MovedPrev(M, Q, l, other))
    <2>1. l \in Hooks /\ other \in Hooks /\ e = Point(M, Q)
      BY <1>1, <1>5
    <2> QED BY <1>6, <2>1, MovedIs
  <1>8. next' = MovedNext(M, Q, l, other) /\ prev' = MovedPrev(M, Q, l, other)
    BY <1>1, <1>7, BecomesIs
  <1>9. CASE l = other
    <2>1. MovedNext(M, Q, l, l) = M /\ MovedPrev(M, Q, l, l) = Q
      <3>1. Rings(M, Q, constructed, E) /\ l \in constructed /\ E[l] = <<>>
        BY <1>1, <1>2, <1>5
      <3> QED BY <3>1, MoveToSelf, SMTT(60)
    <2>2. next' = M /\ prev' = Q
      BY <1>8, <1>9, <2>1
    <2> QED BY <1>1, <1>3, <1>5, <1>9, <2>2
  <1>10. CASE l # other
    <2>1. D = [E EXCEPT ![l] = E[other], ![other] = <<>>]
      BY <1>3, <1>10
    <2>2. Rings(MovedNext(M, Q, l, other), MovedPrev(M, Q, l, other), constructed \cup {l}, D)
      BY <1>1, <1>2, <1>5, <1>10, <2>1, MoveKeeps
    <2>3. constructed \cup {l} = constructed
      BY <1>1
    <2> QED BY <1>1, <1>8, <2>2, <2>3
  <1> QED BY <1>9, <1>10

LEMMA LinkedKeeps ==
  ASSUME NamesAssumption, NEW C, Chains(C), NEW l \in Lists, l \in constructed,
         NEW i \in Items, i \in constructed, ~In(C, i), NEW k \in 0..Len(C[l]),
         NEW o, o = Nth(l, C[l], k + 1), Becomes(LinkedBefore(Memory, i, o)),
         NEW D, D = [C EXCEPT ![l] = Inserted(C[l], k, i)]
  PROVE  Rings(next', prev', constructed, D)
  <1>1. /\ next \in [Hooks -> Hooks \cup {Null}] /\ prev \in [Hooks -> Hooks \cup {Null}]
        /\ i \in Hooks /\ o \in Hooks
    <2>1. C \in [Lists -> Seq(Items)]
      BY DEF Chains, Rings
    <2> QED BY <2>1, ChainType DEF Chains, Rings, Hooks
  <1>2. next' = LinkedNext(next, prev, i, o) /\ prev' = LinkedPrev(next, prev, i, o)
    <2> DEFINE m == Memory
    <2>1. m = Point(next, prev)
      BY MemoryIs
    <2> HIDE DEF m
    <2>2. LinkedBefore(m, i, o) = Point(LinkedNext(next, prev, i, o), LinkedPrev(next, prev, i, o))
      BY <1>1, <2>1, LinkedBeforeIs
    <2> QED BY <2>2, BecomesIs DEF m
  <1>3. Rings(LinkedNext(next, prev, i, o), LinkedPrev(next, prev, i, o), constructed, D)
    BY InsertKeeps DEF Chains
  <1> QED BY <1>2, <1>3

LEMMA InsertedEnds ==
  ASSUME NEW s \in Seq(Items), NEW i \in Items
  PROVE  Inserted(s, Len(s), i) = Append(s, i) /\ Inserted(s, 0, i) = <<i>> \o s
  <1>1. Len(s) \in Nat /\ Len(s) \in 0..Len(s) /\ 0 \in 0..Len(s) /\ <<i>> \in Seq(Items) /\ Len(<<i>>) = 1
    BY LenProperties
  <1>2. Inserted(s, Len(s), i) = Append(s, i)
    <2>1. /\ Append(s, i) \in Seq(Items) /\ Len(Append(s, i)) = Len(s) + 1
          /\ \A j \in 1..Len(s) : Append(s, i)[j] = s[j]
          /\ Append(s, i)[Len(s) + 1] = i
      BY AppendProperties
    <2>2. /\ Inserted(s, Len(s), i) \in Seq(Items) /\ Len(Inserted(s, Len(s), i)) = Len(s) + 1
          /\ \A j \in 1..Len(s) : Inserted(s, Len(s), i)[j] = s[j]
          /\ Inserted(s, Len(s), i)[Len(s) + 1] = i
      <3>1. /\ Inserted(s, Len(s), i) \in Seq(Items) /\ Len(Inserted(s, Len(s), i)) = Len(s) + 1
            /\ \A j \in 1..Len(s) : Inserted(s, Len(s), i)[j] = s[j]
            /\ Inserted(s, Len(s), i)[Len(s) + 1] = i
            /\ \A j \in (Len(s) + 1)..Len(s) : Inserted(s, Len(s), i)[j + 1] = s[j]
        BY <1>1, InsertedIs, Zenon
      <3> QED BY <3>1
    <2>3. \A j \in 1..(Len(s) + 1) : j \in 1..Len(s) \/ j = Len(s) + 1
      BY <1>1
    <2> QED BY <2>1, <2>2, <2>3, SeqEqual
  <1>3. Inserted(s, 0, i) = <<i>> \o s
    <2>1. /\ <<i>> \o s \in Seq(Items) /\ Len(<<i>> \o s) = 1 + Len(s)
          /\ (<<i>> \o s)[1] = i /\ \A j \in 1..Len(s) : (<<i>> \o s)[j + 1] = s[j]
      <3>1. /\ <<i>> \o s \in Seq(Items) /\ Len(<<i>> \o s) = 1 + Len(s)
            /\ \A j \in 1..(1 + Len(s)) : (<<i>> \o s)[j] = IF j <= 1 THEN <<i>>[j] ELSE s[j - 1]
        BY <1>1, ConcatProperties
      <3> QED BY <1>1, <3>1
    <2>2. /\ Inserted(s, 0, i) \in Seq(Items) /\ Len(Inserted(s, 0, i)) = Len(s) + 1
          /\ Inserted(s, 0, i)[0 + 1] = i
          /\ \A j \in (0 + 1)..Len(s) : Inserted(s, 0, i)[j + 1] = s[j]
      BY <1>1, InsertedIs
    <2>3. ASSUME NEW j \in 1..(Len(s) + 1) PROVE Inserted(s, 0, i)[j] = (<<i>> \o s)[j]
      <3>1. CASE j = 1
        BY <2>1, <2>2, <3>1
      <3>2. CASE j # 1
        <4>1. j - 1 \in 1..Len(s) /\ j - 1 + 1 = j
          BY <1>1, <3>2
        <4> QED BY <2>1, <2>2, <4>1
      <3> QED BY <3>1, <3>2
    <2> QED BY <1>1, <2>1, <2>2, <2>3, SeqEqual
  <1> QED BY <1>2, <1>3

LEMMA PushBackStep ==
  ASSUME NamesAssumption, NEW C, Chains(C), NEW l \in Lists, NEW i \in Items, PushBack(l, i),
         NEW D, D = [C EXCEPT ![l] = Append(C[l], i)]
  PROVE  Rings(next', prev', constructed', D) /\ ~In(C, i)
  <1>1. /\ l \in constructed /\ i \in constructed /\ ~In(C, i)
        /\ Becomes(LinkedBefore(Memory, i, l)) /\ constructed' = constructed
    BY NotLinked DEF PushBack
  <1>2. C[l] \in Seq(Items) /\ Len(C[l]) \in Nat /\ C \in [Lists -> Seq(Items)]
    BY LenProperties DEF Chains, Rings
  <1>3. Len(C[l]) \in 0..Len(C[l]) /\ Nth(l, C[l], Len(C[l]) + 1) = l
    BY <1>2 DEF Nth
  <1>4. D = [C EXCEPT ![l] = Inserted(C[l], Len(C[l]), i)]
    BY <1>2, InsertedEnds
  <1>5. Rings(next', prev', constructed, D)
    BY <1>1, <1>3, <1>4, LinkedKeeps
  <1> QED BY <1>1, <1>5

LEMMA PushFrontStep ==
  ASSUME NamesAssumption, NEW C, Chains(C), NEW l \in Lists, NEW i \in Items, PushFront(l, i),
         NEW D, D = [C EXCEPT ![l] = <<i>> \o C[l]]
  PROVE  Rings(next', prev', constructed', D) /\ ~In(C, i)
  <1>1. /\ l \in constructed /\ i \in constructed /\ ~In(C, i)
        /\ Becomes(LinkedBefore(Memory, i, next[l])) /\ constructed' = constructed
    BY NotLinked DEF PushFront
  <1>2. C[l] \in Seq(Items) /\ Len(C[l]) \in Nat /\ C \in [Lists -> Seq(Items)]
    BY LenProperties DEF Chains, Rings
  <1>3. 0 \in 0..Len(C[l]) /\ next[l] = Nth(l, C[l], 0 + 1)
    <2>1. 0 \in 0..Len(C[l]) /\ Nth(l, C[l], 0) = l
      BY <1>2 DEF Nth
    <2>2. next[Nth(l, C[l], 0)] = Nth(l, C[l], 0 + 1)
      BY <1>1, <2>1, RingsIn DEF Chains
    <2> QED BY <2>1, <2>2
  <1>4. D = [C EXCEPT ![l] = Inserted(C[l], 0, i)]
    BY <1>2, InsertedEnds
  <1>5. Rings(next', prev', constructed, D)
    BY <1>1, <1>3, <1>4, LinkedKeeps
  <1> QED BY <1>1, <1>5

LEMMA PopBackStep ==
  ASSUME NamesAssumption, NEW C, Chains(C), NEW l \in Lists, PopBack(l),
         NEW D, D = IF C[l] = <<>> THEN C ELSE [C EXCEPT ![l] = Front(C[l])]
  PROVE  Rings(next', prev', constructed', D)
  <1> DEFINE m == Memory
  <1>1. /\ m = Point(next, prev) /\ l \in constructed /\ constructed' = constructed
        /\ Becomes(PoppedBack(m, l)) /\ Len(C[l]) \in Nat /\ C[l] \in Seq(Items)
    BY MemoryIs, LenProperties DEF PopBack, Chains, Rings
  <1> HIDE DEF m
  <1>2. CASE Len(C[l]) = 0
    <2>1. PoppedBack(m, l) = m /\ C[l] = <<>>
      BY <1>1, <1>2, PopsKeep, EmptySeq DEF Chains
    <2>2. next' = next /\ prev' = prev
      BY <1>1, <2>1, BecomesIs
    <2> QED BY <1>1, <2>1, <2>2 DEF Chains
  <1>3. CASE Len(C[l]) # 0
    <2> DEFINE h == C[l][Len(C[l])]
    <2>1. PoppedBack(m, l) = Point(UnlinkedNext(next, prev, h), UnlinkedPrev(next, prev, h))
      BY <1>1, <1>3, PopsKeep DEF Chains
    <2>2. next' = UnlinkedNext(next, prev, h) /\ prev' = UnlinkedPrev(next, prev, h)
      <3> HIDE DEF h
      <3> QED BY <1>1, <2>1, BecomesIs
    <2>3. Removed(C[l], Len(C[l])) = Front(C[l])
      BY <1>1, <1>3, RemovedEnds
    <2>4. D = Without(C, l, Len(C[l]))
      <3>1. C[l] # <<>>
        BY <1>3
      <3> QED BY <2>3, <3>1 DEF Without
    <2>5. Len(C[l]) \in 1..Len(C[l])
      BY <1>1, <1>3
    <2>6. Rings(next, prev, constructed, C)
      BY DEF Chains
    <2>7. Rings(UnlinkedNext(next, prev, h), UnlinkedPrev(next, prev, h), constructed, Without(C, l, Len(C[l])))
      BY <2>5, <2>6, WithoutKeeps
    <2> QED BY <1>1, <2>2, <2>4, <2>7
  <1> QED BY <1>2, <1>3

LEMMA PopFrontStep ==
  ASSUME NamesAssumption, NEW C, Chains(C), NEW l \in Lists, PopFront(l),
         NEW D, D = IF C[l] = <<>> THEN C ELSE [C EXCEPT ![l] = Tail(C[l])]
  PROVE  Rings(next', prev', constructed', D)
  <1> DEFINE m == Memory
  <1>1. /\ m = Point(next, prev) /\ l \in constructed /\ constructed' = constructed
        /\ Becomes(PoppedFront(m, l)) /\ Len(C[l]) \in Nat /\ C[l] \in Seq(Items)
    BY MemoryIs, LenProperties DEF PopFront, Chains, Rings
  <1> HIDE DEF m
  <1>2. CASE Len(C[l]) = 0
    <2>1. PoppedFront(m, l) = m /\ C[l] = <<>>
      BY <1>1, <1>2, PopsKeep, EmptySeq DEF Chains
    <2>2. next' = next /\ prev' = prev
      BY <1>1, <2>1, BecomesIs
    <2> QED BY <1>1, <2>1, <2>2 DEF Chains
  <1>3. CASE Len(C[l]) # 0
    <2> DEFINE h == C[l][1]
    <2>1. PoppedFront(m, l) = Point(UnlinkedNext(next, prev, h), UnlinkedPrev(next, prev, h))
      BY <1>1, <1>3, PopsKeep DEF Chains
    <2>2. next' = UnlinkedNext(next, prev, h) /\ prev' = UnlinkedPrev(next, prev, h)
      <3> HIDE DEF h
      <3> QED BY <1>1, <2>1, BecomesIs
    <2>3. Removed(C[l], 1) = Tail(C[l])
      BY <1>1, <1>3, RemovedEnds
    <2>4. D = Without(C, l, 1)
      <3>1. C[l] # <<>>
        BY <1>3
      <3> QED BY <2>3, <3>1 DEF Without
    <2>5. 1 \in 1..Len(C[l])
      BY <1>1, <1>3
    <2>6. Rings(next, prev, constructed, C)
      BY DEF Chains
    <2>7. Rings(UnlinkedNext(next, prev, h), UnlinkedPrev(next, prev, h), constructed, Without(C, l, 1))
      BY <2>5, <2>6, WithoutKeeps
    <2> QED BY <1>1, <2>2, <2>4, <2>7
  <1> QED BY <1>2, <1>3

-----------------------------------------------------------------------------
(* The invariant: the hooks are those of some chains, and the iterator is  *)
(* at one of them.                                                         *)

ItKept == it # Null => it \in constructed /\ next[it] # Null

IInv == (\E C : Chains(C)) /\ ItKept

LEMMA NoInit == ASSUME NamesAssumption PROVE Init => IInv
  <1>1. SUFFICES ASSUME Init PROVE IInv
    OBVIOUS
  <1> DEFINE C == [l \in Lists |-> <<>>]
  <1>2. \A l \in Lists : C[l] = <<>> /\ Len(C[l]) = 0
    OBVIOUS
  <1>3. 1..0 = {} /\ <<>> \in Seq(Items)
    BY EmptySeq
  <1>4. C \in [Lists -> Seq(Items)]
    BY <1>3
  <1> HIDE DEF C
  <1>5. Apart(C)
    BY <1>2, <1>3 DEF Apart
  <1>6. Rings(next, prev, constructed, C)
    BY <1>1, <1>2, <1>3, <1>4, <1>5 DEF Rings, Init
  <1>7. ItKept
    BY <1>1 DEF Init, ItKept
  <1> QED BY <1>6, <1>7 DEF IInv, Chains

(* An item is in the chains of D exactly when it was in those of C and not *)
(* gone.                                                                   *)
Lost(C, D, l) == D[l] = <<>> /\ \A j \in Lists : j # l => D[j] = C[j]

LEMMA InWithout ==
  ASSUME NEW C, NEW l \in Lists, NEW D, Lost(C, D, l), Apart(C), NEW x
  PROVE  In(D, x) <=> In(C, x) /\ \A i \in 1..Len(C[l]) : C[l][i] # x
  <1>1. D[l] = <<>> /\ Len(D[l]) = 0 /\ 1..0 = {} /\ \A j \in Lists : j # l => D[j] = C[j]
    BY DEF Lost
  <1>2. ASSUME In(D, x) PROVE In(C, x) /\ \A i \in 1..Len(C[l]) : C[l][i] # x
    <2>1. PICK j \in Lists : \E i \in 1..Len(D[j]) : D[j][i] = x
      BY <1>2 DEF In
    <2>2. j # l
      BY <1>1, <2>1
    <2>3. PICK i \in 1..Len(C[j]) : C[j][i] = x
      BY <1>1, <2>1, <2>2
    <2> QED BY <2>2, <2>3 DEF In, Apart
  <1>3. ASSUME In(C, x), \A i \in 1..Len(C[l]) : C[l][i] # x PROVE In(D, x)
    <2>1. PICK j \in Lists : \E i \in 1..Len(C[j]) : C[j][i] = x
      BY <1>3 DEF In
    <2>2. j # l
      BY <1>3, <2>1
    <2> QED BY <1>1, <2>1, <2>2 DEF In
  <1> QED BY <1>2, <1>3

(* The iterator stays where it is when nothing leaves the lists. *)
LEMMA IteratorStays ==
  ASSUME NamesAssumption, NEW C, Chains(C), ItKept, NEW D,
         Rings(next', prev', constructed', D), constructed \subseteq constructed',
         \A x : In(C, x) => In(D, x), it' = it
  PROVE  ItKept'
  <1>1. SUFFICES ASSUME it # Null PROVE it \in constructed' /\ next'[it] # Null
    BY DEF ItKept
  <1>2. it \in constructed /\ next[it] # Null /\ it \in Hooks
    BY <1>1 DEF ItKept, Chains, Rings
  <1>3. In(C, it) \/ it \in Lists \cap constructed
    BY <1>2, LinkedIs DEF Chains
  <1>4. In(D, it) \/ it \in Lists \cap constructed'
    BY <1>3
  <1> QED BY <1>2, <1>4, LinkedIs

LEMMA IteratorKeptIs == ASSUME IteratorKept PROVE ItKept'
  BY DEF IteratorKept, ItKept

LEMMA InGrows ==
  ASSUME NEW C \in [Lists -> Seq(Items)], NEW l \in Lists, NEW i \in Items, NEW D,
         D[l] = Append(C[l], i) \/ D[l] = <<i>> \o C[l],
         \A j \in Lists : j # l => D[j] = C[j], NEW x, In(C, x)
  PROVE  In(D, x)
  <1>1. C[l] \in Seq(Items) /\ Len(C[l]) \in Nat /\ <<i>> \in Seq(Items) /\ Len(<<i>>) = 1
    BY LenProperties
  <1>3. PICK j \in Lists : \E n \in 1..Len(C[j]) : C[j][n] = x
    BY DEF In
  <1>4. PICK n \in 1..Len(C[j]) : C[j][n] = x
    BY <1>3
  <1>5. CASE j # l
    BY <1>4, <1>5 DEF In
  <1>6. CASE j = l /\ D[l] = Append(C[l], i)
    <2>1. n \in 1..Len(D[l]) /\ D[l][n] = x
      BY <1>1, <1>4, <1>6, AppendProperties
    <2> QED BY <2>1 DEF In
  <1>7. CASE j = l /\ D[l] = <<i>> \o C[l]
    <2>1. /\ Len(D[l]) = 1 + Len(C[l])
          /\ \A m \in 1..(1 + Len(C[l])) : D[l][m] = IF m <= 1 THEN <<i>>[m] ELSE C[l][m - 1]
      BY <1>1, <1>7, ConcatProperties
    <2>2. n + 1 \in 1..Len(D[l]) /\ n + 1 - 1 = n /\ ~(n + 1 <= 1)
      BY <1>1, <1>4, <1>7, <2>1
    <2>3. D[l][n + 1] = x
      BY <1>4, <1>7, <2>1, <2>2
    <2> QED BY <2>2, <2>3 DEF In
  <1> QED BY <1>5, <1>6, <1>7

(* l, empty before, has the items of o. *)
Took(C, D, l, o) ==
  /\ C[l] = <<>> /\ D[l] = C[o] /\ D[o] = <<>>
  /\ \A j \in Lists : j # l /\ j # o => D[j] = C[j]

LEMMA InMoves ==
  ASSUME NEW C, NEW D, NEW l \in Lists, NEW o \in Lists, Took(C, D, l, o), l # o, NEW x
  PROVE  In(C, x) <=> In(D, x)
  <1>1. /\ Len(D[o]) = 0 /\ Len(C[l]) = 0 /\ 1..0 = {} /\ D[l] = C[o]
        /\ \A j \in Lists : j # l /\ j # o => D[j] = C[j]
    BY DEF Took
  <1>2. ASSUME In(C, x) PROVE In(D, x)
    <2>1. PICK j \in Lists : \E i \in 1..Len(C[j]) : C[j][i] = x
      BY <1>2 DEF In
    <2>2. j # l
      BY <1>1, <2>1
    <2> QED BY <1>1, <2>1, <2>2 DEF In
  <1>3. ASSUME In(D, x) PROVE In(C, x)
    <2>1. PICK j \in Lists : \E i \in 1..Len(D[j]) : D[j][i] = x
      BY <1>3 DEF In
    <2>2. j # o
      BY <1>1, <2>1
    <2> QED BY <1>1, <2>1, <2>2 DEF In
  <1> QED BY <1>2, <1>3

(* A linked hook has a place in a ring, after a hook and before one. *)
LEMMA HasPlace ==
  ASSUME NamesAssumption, NEW C, Chains(C), NEW x \in Hooks, In(C, x) \/ x \in Lists \cap constructed
  PROVE  \E l \in Lists \cap constructed :
           /\ \E k \in 0..Len(C[l]) : Nth(l, C[l], k) = x /\ next[x] = Nth(l, C[l], k + 1)
           /\ \E k \in 0..Len(C[l]) : Nth(l, C[l], k + 1) = x /\ prev[x] = Nth(l, C[l], k)
  <1>1. \A l \in Lists : Len(C[l]) \in Nat
    BY ChainType DEF Chains, Rings
  <1>2. ASSUME NEW l \in Lists \cap constructed, NEW k \in 0..Len(C[l]), NEW j \in 0..Len(C[l]),
               Nth(l, C[l], k) = x, Nth(l, C[l], j + 1) = x
        PROVE  /\ Nth(l, C[l], k) = x /\ next[x] = Nth(l, C[l], k + 1)
               /\ Nth(l, C[l], j + 1) = x /\ prev[x] = Nth(l, C[l], j)
    BY <1>2, RingsIn DEF Chains
  <1>3. CASE In(C, x)
    <2>1. PICK l \in Lists : \E i \in 1..Len(C[l]) : C[l][i] = x
      BY <1>3 DEF In
    <2>2. PICK i \in 1..Len(C[l]) : C[l][i] = x
      BY <2>1
    <2>3. l \in constructed
      <3>1. SUFFICES ASSUME l \notin constructed PROVE FALSE
        OBVIOUS
      <3>2. Len(C[l]) = 0 /\ 1..0 = {}
        BY <3>1 DEF Chains, Rings
      <3> QED BY <2>2, <3>2
    <2>4. i \in 0..Len(C[l]) /\ Nth(l, C[l], i) = x
      BY <2>2 DEF Nth
    <2>5. i - 1 \in 0..Len(C[l]) /\ Nth(l, C[l], i - 1 + 1) = x
      BY <1>1, <2>4
    <2> QED BY <1>2, <2>3, <2>4, <2>5
  <1>4. CASE x \in Lists \cap constructed
    <2>1. 0 \in 0..Len(C[x]) /\ Nth(x, C[x], 0) = x
      BY <1>1, <1>4 DEF Nth
    <2>2. Len(C[x]) \in 0..Len(C[x]) /\ Nth(x, C[x], Len(C[x]) + 1) = x
      BY <1>1, <1>4 DEF Nth
    <2> QED BY <1>2, <1>4, <2>1, <2>2
  <1> QED BY <1>3, <1>4

(* The iterator's own steps. *)
LEMMA IteratorMoves ==
  ASSUME NamesAssumption, NEW C, Chains(C), ItKept,
         GetIterator \/ Forget \/ Increment \/ Decrement
  PROVE  ItKept' /\ next' = next /\ prev' = prev /\ constructed' = constructed
  <1>1. next' = next /\ prev' = prev /\ constructed' = constructed
    BY DEF GetIterator, Forget, Increment, Decrement
  <1>2. \A x \in Hooks : In(C, x) \/ x \in Lists \cap constructed =>
          x \in constructed /\ next[x] # Null /\ next[x] \in constructed /\ prev[x] \in constructed
    BY LinkedIs DEF Chains
  <1>3. \A x \in Hooks : next[x] # Null \/ prev[x] # Null => In(C, x) \/ x \in Lists \cap constructed
    BY LinkedIs DEF Chains
  <1>4. ASSUME NEW x \in Hooks, next[x] # Null \/ prev[x] # Null
        PROVE  next[next[x]] # Null /\ next[prev[x]] # Null
               /\ next[x] \in constructed /\ prev[x] \in constructed
    <2>1. PICK l \in Lists \cap constructed :
            /\ \E k \in 0..Len(C[l]) : next[x] = Nth(l, C[l], k + 1)
            /\ \E k \in 0..Len(C[l]) : prev[x] = Nth(l, C[l], k)
      BY <1>3, <1>4, HasPlace
    <2>2. \A i : Nth(l, C[l], i) \in Hooks /\ (In(C, Nth(l, C[l], i)) \/ Nth(l, C[l], i) = l)
      <3>1. \A i : Nth(l, C[l], i) \in Hooks
        BY ChainType DEF Chains, Rings
      <3> QED BY <3>1 DEF Nth, In
    <2>3. /\ next[x] \in Hooks /\ (In(C, next[x]) \/ next[x] \in Lists \cap constructed)
          /\ prev[x] \in Hooks /\ (In(C, prev[x]) \/ prev[x] \in Lists \cap constructed)
      BY <2>1, <2>2
    <2> QED BY <1>2, <2>3
  <1>5. constructed \subseteq Hooks /\ Null \notin Hooks
    BY DEF Chains, Rings, NamesAssumption
  <1>6. CASE GetIterator
    <2>1. CASE \E l \in Lists \cap constructed : it' \in {next[l], l}
      <3>1. PICK l \in Lists \cap constructed : it' \in {next[l], l}
        BY <2>1
      <3>2. l \in Hooks /\ next[l] # Null /\ next[l] \in constructed
        BY <1>2, <1>5, <3>1
      <3>3. next[next[l]] # Null
        BY <1>4, <3>2
      <3> QED BY <1>1, <3>1, <3>2, <3>3 DEF ItKept
    <2>2. CASE \E i \in Items \cap constructed : IsLinked(Memory, i) /\ it' = i
      <3>1. PICK i \in Items \cap constructed : IsLinked(Memory, i) /\ it' = i
        BY <2>2
      <3>2. In(C, i) /\ i \in Hooks
        BY <1>5, <3>1, NotLinked
      <3> QED BY <1>1, <1>2, <3>1, <3>2 DEF ItKept
    <2> QED BY <1>6, <2>1, <2>2 DEF GetIterator
  <1>7. CASE Forget
    BY <1>7 DEF Forget, ItKept
  <1>8. CASE Increment
    <2>1. it \in Hooks /\ next[it] # Null /\ it' = next[it]
      BY <1>5, <1>8 DEF Increment, ItKept, Hooks
    <2> QED BY <1>1, <1>4, <2>1 DEF ItKept
  <1>9. CASE Decrement
    <2>1. it \in Hooks /\ next[it] # Null /\ it' = prev[it]
      BY <1>5, <1>9 DEF Decrement, ItKept
    <2> QED BY <1>1, <1>4, <2>1 DEF ItKept
  <1> QED BY <1>1, <1>6, <1>7, <1>8, <1>9

LEMMA NextKeeps == ASSUME NamesAssumption, IInv, [Next]_vars PROVE IInv'
  <1>1. PICK C : Chains(C)
    BY DEF IInv
  <1>2. C \in [Lists -> Seq(Items)] /\ Apart(C) /\ ItKept
    BY <1>1 DEF Chains, Rings, IInv
  <1>3. ASSUME NEW D, Rings(next', prev', constructed', D), ItKept' PROVE IInv'
    BY <1>3 DEF IInv, Chains
  <1>4. ASSUME NEW l \in Lists, Construct(l) PROVE IInv'
    <2>1. Rings(next', prev', constructed', C)
      BY <1>1, <1>4, ConstructStep
    <2>2. constructed \subseteq constructed' /\ it' = it
      BY <1>4 DEF Construct
    <2>3. ItKept'
      BY <1>1, <1>2, <2>1, <2>2, IteratorStays
    <2> QED BY <1>3, <2>1, <2>3
  <1>5. ASSUME NEW l \in Lists, Destroy(l) PROVE IInv'
    <2> DEFINE D == [C EXCEPT ![l] = <<>>]
    <2>1. Rings(next', prev', constructed', D)
      BY <1>1, <1>5, DestroyStep
    <2> HIDE DEF D
    <2> QED BY <1>3, <1>5, <2>1, IteratorKeptIs DEF Destroy
  <1>6. ASSUME NEW l \in Lists, PopBack(l) PROVE IInv'
    <2> DEFINE D == IF C[l] = <<>> THEN C ELSE [C EXCEPT ![l] = Front(C[l])]
    <2>1. Rings(next', prev', constructed', D)
      BY <1>1, <1>6, PopBackStep
    <2> HIDE DEF D
    <2> QED BY <1>3, <1>6, <2>1, IteratorKeptIs DEF PopBack
  <1>7. ASSUME NEW l \in Lists, PopFront(l) PROVE IInv'
    <2> DEFINE D == IF C[l] = <<>> THEN C ELSE [C EXCEPT ![l] = Tail(C[l])]
    <2>1. Rings(next', prev', constructed', D)
      BY <1>1, <1>7, PopFrontStep
    <2> HIDE DEF D
    <2> QED BY <1>3, <1>7, <2>1, IteratorKeptIs DEF PopFront
  <1>8. ASSUME NEW l \in Lists, NEW o \in Lists, MoveConstruct(l, o) PROVE IInv'
    <2> DEFINE D == [C EXCEPT ![l] = C[o], ![o] = <<>>]
    <2>1. Rings(next', prev', constructed', D) /\ C[l] = <<>> /\ l # o
      BY <1>1, <1>8, MoveConstructStep
    <2>2. Took(C, D, l, o)
      BY <1>2, <2>1 DEF Took
    <2> HIDE DEF D
    <2>3. ASSUME NEW x, In(C, x) PROVE In(D, x)
      BY <2>1, <2>2, <2>3, InMoves
    <2>4. constructed \subseteq constructed' /\ it' = it
      BY <1>8 DEF MoveConstruct
    <2>5. ItKept'
      BY <1>1, <1>2, <2>1, <2>3, <2>4, IteratorStays
    <2> QED BY <1>3, <2>1, <2>5
  <1>9. ASSUME NEW l \in Lists, NEW o \in Lists, MoveAssign(l, o) PROVE IInv'
    <2> DEFINE D == [C EXCEPT ![l] = IF l = o THEN <<>> ELSE C[o], ![o] = <<>>]
    <2>1. Rings(next', prev', constructed', D)
      BY <1>1, <1>9, MoveAssignStep
    <2> HIDE DEF D
    <2> QED BY <1>3, <1>9, <2>1, IteratorKeptIs DEF MoveAssign
  <1>10. ASSUME NEW l \in Lists, NEW i \in Items, PushBack(l, i) PROVE IInv'
    <2> DEFINE D == [C EXCEPT ![l] = Append(C[l], i)]
    <2>1. Rings(next', prev', constructed', D)
      BY <1>1, <1>10, PushBackStep
    <2>2. D[l] = Append(C[l], i) /\ \A j \in Lists : j # l => D[j] = C[j]
      BY <1>2
    <2> HIDE DEF D
    <2>3. ASSUME NEW x, In(C, x) PROVE In(D, x)
      BY <1>2, <2>2, <2>3, InGrows
    <2>4. constructed \subseteq constructed' /\ it' = it
      BY <1>10 DEF PushBack
    <2>5. ItKept'
      BY <1>1, <1>2, <2>1, <2>3, <2>4, IteratorStays
    <2> QED BY <1>3, <2>1, <2>5
  <1>11. ASSUME NEW l \in Lists, NEW i \in Items, PushFront(l, i) PROVE IInv'
    <2> DEFINE D == [C EXCEPT ![l] = <<i>> \o C[l]]
    <2>1. Rings(next', prev', constructed', D)
      BY <1>1, <1>11, PushFrontStep
    <2>2. D[l] = <<i>> \o C[l] /\ \A j \in Lists : j # l => D[j] = C[j]
      BY <1>2
    <2> HIDE DEF D
    <2>3. ASSUME NEW x, In(C, x) PROVE In(D, x)
      BY <1>2, <2>2, <2>3, InGrows
    <2>4. constructed \subseteq constructed' /\ it' = it
      BY <1>11 DEF PushFront
    <2>5. ItKept'
      BY <1>1, <1>2, <2>1, <2>3, <2>4, IteratorStays
    <2> QED BY <1>3, <2>1, <2>5
  <1>12. ASSUME NEW i \in Items, ConstructItem(i) PROVE IInv'
    <2>1. Rings(next', prev', constructed', C)
      BY <1>1, <1>12, ConstructItemStep
    <2>2. constructed \subseteq constructed' /\ it' = it
      BY <1>12 DEF ConstructItem
    <2>3. ItKept'
      BY <1>1, <1>2, <2>1, <2>2, IteratorStays
    <2> QED BY <1>3, <2>1, <2>3
  <1>13. ASSUME NEW i \in Items, DestroyItem(i) PROVE IInv'
    <2>1. PICK D : Rings(next', prev', constructed', D)
      BY <1>1, <1>13, DestroyItemStep
    <2> QED BY <1>3, <1>13, <2>1, IteratorKeptIs DEF DestroyItem
  <1>14. ASSUME NEW i \in Items, Unlink(i) PROVE IInv'
    <2>1. PICK D : Rings(next', prev', constructed', D)
      BY <1>1, <1>14, UnlinkStep
    <2> QED BY <1>3, <1>14, <2>1, IteratorKeptIs DEF Unlink
  <1>15. CASE GetIterator \/ Forget \/ Increment \/ Decrement
    <2>1. ItKept' /\ next' = next /\ prev' = prev /\ constructed' = constructed
      BY <1>1, <1>2, <1>15, IteratorMoves
    <2> QED BY <1>1, <1>3, <2>1 DEF Chains
  <1>16. CASE UNCHANGED vars
    BY <1>16 DEF IInv, ItKept, Chains, vars
  <1> QED BY <1>4, <1>5, <1>6, <1>7, <1>8, <1>9, <1>10, <1>11, <1>12, <1>13, <1>14, <1>15, <1>16 DEF Next

LEMMA Invariance == ASSUME NamesAssumption PROVE Spec => []IInv
  BY NoInit, NextKeeps, PTL DEF Spec

-----------------------------------------------------------------------------
(* What the invariant says of the hooks *)

LEMMA ContentsIs ==
  ASSUME NamesAssumption, NEW C, Chains(C), NEW l \in Lists \cap constructed
  PROVE  Contents(l) = C[l]
  <1>1. Contents(l) = ContentsFrom(next, l)
    BY DEF Contents, Size, Walk, ContentsFrom, SizeFrom, WalkFrom
  <1> QED BY <1>1, ContentsAre DEF Chains

LEMMA ContentsPrime ==
  ASSUME NamesAssumption, NEW D, Rings(next', prev', constructed', D), NEW l \in Lists, l \in constructed'
  PROVE  Contents(l)' = D[l]
  <1>1. Contents(l)' = ContentsFrom(next', l)
    BY DEF Contents, Size, Walk, ContentsFrom, SizeFrom, WalkFrom
  <1> QED BY <1>1, ContentsAre

LEMMA TypeHolds == ASSUME NamesAssumption, IInv PROVE TypeOK
  <1>1. PICK C : Chains(C)
    BY DEF IInv
  <1>2. /\ constructed \subseteq Hooks
        /\ next \in [Hooks -> Hooks \cup {Null}] /\ prev \in [Hooks -> Hooks \cup {Null}]
    BY <1>1 DEF Chains, Rings
  <1>3. \A h \in Hooks : /\ next[h] \in constructed \cup {Null} /\ prev[h] \in constructed \cup {Null}
                         /\ h \in Lists \cap constructed => next[h] # Null /\ prev[h] # Null
    BY <1>1, LinkedIs DEF Chains
  <1>4. it \in constructed \cup {Null}
    BY DEF IInv, ItKept
  <1> QED BY <1>2, <1>3, <1>4 DEF TypeOK

LEMMA Agree == ASSUME NamesAssumption, IInv PROVE LinksAgree
  <1>1. PICK C : Chains(C)
    BY DEF IInv
  <1>2. ASSUME NEW h \in Hooks
        PROVE  (next[h] # Null => prev[next[h]] = h) /\ (prev[h] # Null => next[prev[h]] = h)
    <2>1. CASE In(C, h) \/ h \in Lists \cap constructed
      <3>1. PICK l \in Lists \cap constructed :
              /\ \E k \in 0..Len(C[l]) : Nth(l, C[l], k) = h /\ next[h] = Nth(l, C[l], k + 1)
              /\ \E k \in 0..Len(C[l]) : Nth(l, C[l], k + 1) = h /\ prev[h] = Nth(l, C[l], k)
        BY <1>1, <2>1, HasPlace
      <3>2. Ring(next, prev, l, C[l])
        BY <1>1 DEF Chains, Rings
      <3> QED BY <3>1, <3>2 DEF Ring
    <2>2. CASE ~(In(C, h) \/ h \in Lists \cap constructed)
      BY <1>1, <2>2, LinkedIs DEF Chains
    <2> QED BY <2>1, <2>2
  <1> QED BY <1>2 DEF LinksAgree

LEMMA OneList == ASSUME NamesAssumption, IInv PROVE LinkedInOneList
  <1>1. PICK C : Chains(C)
    BY DEF IInv
  <1>2. ASSUME NEW i \in Items
        PROVE  Cardinality({l \in Lists \cap constructed : Contains(Contents(l), i)})
                 = IF IsLinked(Memory, i) THEN 1 ELSE 0
    <2> DEFINE S == {l \in Lists \cap constructed : Contains(Contents(l), i)}
    <2>1. \A l \in Lists \cap constructed : Contains(Contents(l), i) <=> \E k \in 1..Len(C[l]) : C[l][k] = i
      BY <1>1, ContentsIs DEF Contains
    <2>2. IsLinked(Memory, i) <=> In(C, i)
      BY <1>1, NotLinked
    <2>3. CASE ~In(C, i)
      <3>1. S = {}
        BY <2>1, <2>3 DEF In
      <3> QED BY <2>2, <2>3, <3>1, FS_EmptySet
    <2>4. CASE In(C, i)
      <3>1. PICK l \in Lists : \E k \in 1..Len(C[l]) : C[l][k] = i
        BY <2>4 DEF In
      <3>2. l \in constructed
        <4>1. SUFFICES ASSUME l \notin constructed PROVE FALSE
          OBVIOUS
        <4>2. Len(C[l]) = 0 /\ 1..0 = {}
          BY <1>1, <4>1 DEF Chains, Rings
        <4> QED BY <3>1, <4>2
      <3>3. ASSUME NEW j \in Lists, \E k \in 1..Len(C[j]) : C[j][k] = i PROVE j = l
        BY <1>1, <3>1, <3>3 DEF Chains, Rings, Apart
      <3>4. S = {l}
        BY <2>1, <3>1, <3>2, <3>3
      <3> QED BY <2>2, <2>4, <3>4, FS_Singleton
    <2> QED BY <2>3, <2>4
  <1> QED BY <1>2 DEF LinkedInOneList

(* The hooks of any number of lists and items agree in both directions,    *)
(* none points to a hook destroyed before, and IsLinked() is true of       *)
(* exactly the items that are in one list.                                 *)
THEOREM HooksAgree == ASSUME NamesAssumption PROVE Spec => []HooksConsistent
  <1>1. IInv => HooksConsistent
    BY TypeHolds, Agree, OneList DEF HooksConsistent
  <1> QED BY <1>1, Invariance, PTL

(* PushBack, PushFront, PopBack and PopFront work at the ends they name,   *)
(* for a list of any length.                                               *)
THEOREM EndsKept == ASSUME NamesAssumption PROVE Spec => EndsRespected
  <1> DEFINE A == \A l \in Lists \cap constructed :
       /\ \A i \in Items : PushBack(l, i)  => Contents(l)' = Append(Contents(l), i)
       /\ \A i \in Items : PushFront(l, i) => Contents(l)' = <<i>> \o Contents(l)
       /\ PopBack(l) /\ Contents(l) # <<>>  => Contents(l)' = Front(Contents(l))
       /\ PopFront(l) /\ Contents(l) # <<>> => Contents(l)' = Tail(Contents(l))
  <1>1. IInv => A
    <2>1. SUFFICES ASSUME IInv, NEW l \in Lists \cap constructed
          PROVE  /\ \A i \in Items : PushBack(l, i)  => Contents(l)' = Append(Contents(l), i)
                 /\ \A i \in Items : PushFront(l, i) => Contents(l)' = <<i>> \o Contents(l)
                 /\ PopBack(l) /\ Contents(l) # <<>>  => Contents(l)' = Front(Contents(l))
                 /\ PopFront(l) /\ Contents(l) # <<>> => Contents(l)' = Tail(Contents(l))
      OBVIOUS
    <2>2. PICK C : Chains(C)
      BY <2>1 DEF IInv
    <2>3. Contents(l) = C[l] /\ C \in [Lists -> Seq(Items)]
      BY <2>2, ContentsIs DEF Chains, Rings
    <2>4. ASSUME NEW i \in Items, PushBack(l, i) PROVE Contents(l)' = Append(Contents(l), i)
      <3> DEFINE D == [C EXCEPT ![l] = Append(C[l], i)]
      <3>1. Rings(next', prev', constructed', D) /\ l \in constructed'
        BY <2>2, <2>4, PushBackStep DEF PushBack
      <3>2. D[l] = Append(C[l], i)
        BY <2>3
      <3> HIDE DEF D
      <3> QED BY <2>3, <3>1, <3>2, ContentsPrime
    <2>5. ASSUME NEW i \in Items, PushFront(l, i) PROVE Contents(l)' = <<i>> \o Contents(l)
      <3> DEFINE D == [C EXCEPT ![l] = <<i>> \o C[l]]
      <3>1. Rings(next', prev', constructed', D) /\ l \in constructed'
        BY <2>2, <2>5, PushFrontStep DEF PushFront
      <3>2. D[l] = <<i>> \o C[l]
        BY <2>3
      <3> HIDE DEF D
      <3> QED BY <2>3, <3>1, <3>2, ContentsPrime
    <2>6. ASSUME PopBack(l), Contents(l) # <<>> PROVE Contents(l)' = Front(Contents(l))
      <3> DEFINE D == IF C[l] = <<>> THEN C ELSE [C EXCEPT ![l] = Front(C[l])]
      <3>1. Rings(next', prev', constructed', D) /\ l \in constructed'
        BY <2>2, <2>6, PopBackStep DEF PopBack
      <3>2. D[l] = Front(C[l])
        BY <2>3, <2>6
      <3> HIDE DEF D
      <3> QED BY <2>3, <3>1, <3>2, ContentsPrime
    <2>7. ASSUME PopFront(l), Contents(l) # <<>> PROVE Contents(l)' = Tail(Contents(l))
      <3> DEFINE D == IF C[l] = <<>> THEN C ELSE [C EXCEPT ![l] = Tail(C[l])]
      <3>1. Rings(next', prev', constructed', D) /\ l \in constructed'
        BY <2>2, <2>7, PopFrontStep DEF PopFront
      <3>2. D[l] = Tail(C[l])
        BY <2>3, <2>7
      <3> HIDE DEF D
      <3> QED BY <2>3, <3>1, <3>2, ContentsPrime
    <2> QED BY <2>4, <2>5, <2>6, <2>7
  <1> QED BY <1>1, Invariance, PTL DEF EndsRespected

-----------------------------------------------------------------------------
(* The refinement: the lists of AbstractLists.tla are the chains. *)

Told(K, C) == [l \in Lists |-> IF l \in K THEN C[l] ELSE Null]

LEMMA RemovedIsRemoveAt ==
  ASSUME NEW s \in Seq(Items), NEW k \in 1..Len(s)
  PROVE  Removed(s, k) = RemoveAt(s, k)
  <1> DEFINE a == SubSeq(s, 1, k - 1)
             b == SubSeq(s, k + 1, Len(s))
  <1>1. Len(s) \in Nat /\ \A i \in 1..Len(s) : s[i] \in Items
    BY LenProperties, ElementOfSeq
  <1>2. a \in Seq(Items) /\ Len(a) = k - 1 /\ \A i \in 1..(k - 1) : a[i] = s[i]
    <2>1. 1 \in 1..(Len(s) + 1) /\ k - 1 \in 0..Len(s) /\ 1 <= k - 1 + 1
      BY <1>1
    <2>2. \A i \in 1..(k - 1) : s[1 + i - 1] = s[i]
      BY <1>1
    <2> QED BY <1>1, <2>1, <2>2, SubSeqProperties
  <1>3. b \in Seq(Items) /\ Len(b) = Len(s) - k /\ \A i \in 1..(Len(s) - k) : b[i] = s[k + i]
    <2>1. \A i \in 1..(Len(s) - k) : k + i \in 1..Len(s)
      BY <1>1
    <2>2. b \in Seq(Items) /\ Len(b) = Len(s) - k
      BY <1>1, SubSeqProperties
    <2>3. ASSUME NEW i \in 1..(Len(s) - k) PROVE b[i] = s[k + i]
      BY <1>1
    <2> QED BY <2>2, <2>3
  <1> HIDE DEF a, b
  <1>4. /\ a \o b \in Seq(Items) /\ Len(a \o b) = Len(s) - 1
        /\ \A i \in 1..(Len(s) - 1) : (a \o b)[i] = IF i <= k - 1 THEN a[i] ELSE b[i - (k - 1)]
    BY <1>1, <1>2, <1>3, ConcatProperties
  <1>5. /\ Removed(s, k) \in Seq(Items) /\ Len(Removed(s, k)) = Len(s) - 1
        /\ \A i \in 1..(k - 1) : Removed(s, k)[i] = s[i]
        /\ \A i \in k..(Len(s) - 1) : Removed(s, k)[i] = s[i + 1]
    BY RemovedIs
  <1>6. ASSUME NEW i \in 1..(Len(s) - 1) PROVE Removed(s, k)[i] = (a \o b)[i]
    <2>1. CASE i <= k - 1
      BY <1>1, <1>2, <1>4, <1>5, <2>1
    <2>2. CASE ~(i <= k - 1)
      <3>1. i - (k - 1) \in 1..(Len(s) - k) /\ i \in k..(Len(s) - 1) /\ k + (i - (k - 1)) = i + 1
        BY <1>1, <2>2
      <3> QED BY <1>3, <1>4, <1>5, <2>2, <3>1
    <2> QED BY <2>1, <2>2
  <1>7. Removed(s, k) = a \o b
    BY <1>4, <1>5, <1>6, SeqEqual
  <1> QED BY <1>7 DEF RemoveAt, a, b

LEMMA AllContentsAre ==
  ASSUME NamesAssumption, NEW C, Chains(C)
  PROVE  AllContents = Told(constructed, C)
  BY ContentsIs DEF AllContents, Told

LEMMA AllContentsPrime ==
  ASSUME NamesAssumption, NEW D, Rings(next', prev', constructed', D)
  PROVE  AllContents' = Told(constructed', D)
  <1>1. AllContents' = [l \in Lists |-> IF l \in constructed' THEN Contents(l)' ELSE Null]
    BY DEF AllContents
  <1>2. ASSUME NEW l \in Lists, l \in constructed' PROVE Contents(l)' = D[l]
    BY <1>2, ContentsPrime
  <1> QED BY <1>1, <1>2 DEF Told

LEMMA LiveIs ==
  ASSUME NamesAssumption, NEW C, Chains(C)
  PROVE  Abstract!Live = Lists \cap constructed
  <1>1. \A l \in Lists : C[l] # Null
    BY DEF Chains, Rings, NamesAssumption
  <1>2. Abstract!Live = {l \in Lists : AllContents[l] # Null}
    BY DEF Abstract!Live
  <1> QED BY <1>1, <1>2, AllContentsAre DEF Told

LEMMA LinkedHere ==
  ASSUME NamesAssumption, NEW C, Chains(C)
  PROVE  \A x : x \in Abstract!Linked <=> In(C, x)
  <1>1. ASSUME NEW x
        PROVE  x \in Abstract!Linked <=> \E l \in Lists \cap constructed : x \in ToSet(AllContents[l])
    <2>1. x \in Abstract!Linked <=> \E l \in Abstract!Live : x \in ToSet(AllContents[l])
      BY DEF Abstract!Linked, Abstract!ToSet, ToSet
    <2> QED BY <2>1, LiveIs
  <1>2. ASSUME NEW l \in Lists \cap constructed, NEW x
        PROVE  x \in ToSet(AllContents[l]) <=> \E i \in 1..Len(C[l]) : C[l][i] = x
    <2>1. AllContents[l] = C[l]
      BY AllContentsAre DEF Told
    <2>2. DOMAIN C[l] = 1..Len(C[l])
      BY ChainType DEF Chains, Rings
    <2> QED BY <2>1, <2>2 DEF ToSet
  <1>3. \A l \in Lists : l \notin constructed => Len(C[l]) = 0
    BY DEF Chains, Rings
  <1>4. 1..0 = {}
    OBVIOUS
  <1>5. ASSUME NEW x PROVE x \in Abstract!Linked <=> In(C, x)
    <2>1. In(C, x) <=> \E l \in Lists \cap constructed : \E i \in 1..Len(C[l]) : C[l][i] = x
      BY <1>3, <1>4 DEF In
    <2> QED BY <1>1, <1>2, <2>1
  <1> QED BY <1>5

(* Iterators are kept that are not at a hook gone from the rings. *)
LEMMA Lets ==
  ASSUME NamesAssumption, NEW C, Chains(C), ItKept, IteratorKept,
         NEW D, Rings(next', prev', constructed', D), NEW gone,
         \A x \in Hooks : In(C, x) \/ x \in Lists \cap constructed =>
           (In(D, x) \/ x \in Lists \cap constructed' <=> x \notin gone)
  PROVE  it' = IF it \in gone THEN Null ELSE it
  <1>1. it' = IF it # Null /\ it \in constructed' /\ next'[it] # Null THEN it ELSE Null
    BY DEF IteratorKept
  <1>2. CASE it = Null
    BY <1>1, <1>2
  <1>3. CASE it # Null
    <2>1. it \in Hooks /\ next[it] # Null
      BY <1>3 DEF ItKept, Chains, Rings
    <2>2. In(C, it) \/ it \in Lists \cap constructed
      BY <2>1, LinkedIs DEF Chains
    <2>3. it \in constructed' /\ next'[it] # Null <=> In(D, it) \/ it \in Lists \cap constructed'
      BY <2>1, LinkedIs
    <2> QED BY <1>1, <1>3, <2>1, <2>2, <2>3
  <1> QED BY <1>2, <1>3

LEMMA ConstructRefines ==
  ASSUME NamesAssumption, NEW C, Chains(C), NEW l \in Lists, Construct(l)
  PROVE  Abstract!Construct(l)
  <1>1. Rings(next', prev', constructed', C) /\ C[l] = <<>>
    BY ConstructStep
  <1>2. /\ AllContents = Told(constructed, C) /\ AllContents' = Told(constructed', C)
        /\ Abstract!Live = Lists \cap constructed
    BY <1>1, AllContentsAre, AllContentsPrime, LiveIs
  <1>3. l \notin constructed /\ constructed' = constructed \cup {l} /\ it' = it /\ l \notin Items
    BY DEF Construct, NamesAssumption
  <1>4. Told(constructed', C) = [Told(constructed, C) EXCEPT ![l] = <<>>]
    BY <1>1, <1>3 DEF Told
  <1>5. AllContents' = [AllContents EXCEPT ![l] = <<>>] /\ l \notin Abstract!Live
    BY <1>2, <1>3, <1>4
  <1>6. (Items \cap constructed)' = Items \cap constructed
    BY <1>3
  <1> QED BY <1>3, <1>5, <1>6 DEF Abstract!Construct

LEMMA MoveConstructRefines ==
  ASSUME NamesAssumption, NEW C, Chains(C), NEW l \in Lists, NEW o \in Lists, MoveConstruct(l, o)
  PROVE  Abstract!Construct(l)
  <1> DEFINE D == [C EXCEPT ![l] = C[o], ![o] = <<>>]
  <1>0. Rings(next', prev', constructed', D) /\ l # o
    BY MoveConstructStep
  <1>1. D[l] = C[o] /\ D[o] = <<>> /\ \A j \in Lists : j # l /\ j # o => D[j] = C[j]
    BY <1>0 DEF Chains, Rings
  <1> HIDE DEF D
  <1>2. /\ AllContents = Told(constructed, C) /\ AllContents' = Told(constructed', D)
        /\ Abstract!Live = Lists \cap constructed
    BY <1>0, AllContentsAre, AllContentsPrime, LiveIs
  <1>3. l \notin constructed /\ o \in constructed /\ constructed' = constructed \cup {l} /\ it' = it /\ l \notin Items
    BY DEF MoveConstruct, NamesAssumption
  <1>4. Told(constructed', D) = [Told(constructed, C) EXCEPT ![l] = C[o], ![o] = <<>>]
    BY <1>0, <1>1, <1>3 DEF Told
  <1>5. Told(constructed, C)[o] = C[o]
    BY <1>3 DEF Told
  <1>6. AllContents' = [AllContents EXCEPT ![l] = AllContents[o], ![o] = <<>>]
        /\ l \notin Abstract!Live /\ o \in Abstract!Live
    BY <1>2, <1>3, <1>4, <1>5
  <1>7. (Items \cap constructed)' = Items \cap constructed
    BY <1>3
  <1> QED BY <1>3, <1>6, <1>7 DEF Abstract!Construct

LEMMA DestroyRefines ==
  ASSUME NamesAssumption, NEW C, Chains(C), ItKept, NEW l \in Lists, Destroy(l)
  PROVE  Abstract!Destroy(l)
  <1> DEFINE D == [C EXCEPT ![l] = <<>>]
             gone == ToSet(AllContents[l]) \cup {l}
  <1>0. Rings(next', prev', constructed', D)
    BY DestroyStep
  <1>1. /\ D[l] = <<>> /\ \A j \in Lists : j # l => D[j] = C[j]
        /\ C \in [Lists -> Seq(Items)] /\ Apart(C) /\ Lost(C, D, l)
    BY DEF Chains, Rings, Lost
  <1> HIDE DEF D
  <1>2. /\ AllContents = Told(constructed, C) /\ AllContents' = Told(constructed', D)
        /\ Abstract!Live = Lists \cap constructed
    BY <1>0, AllContentsAre, AllContentsPrime, LiveIs
  <1>3. l \in constructed /\ constructed' = constructed \ {l} /\ IteratorKept /\ l \notin Items
    BY DEF Destroy, NamesAssumption
  <1>4. Told(constructed', D) = [Told(constructed, C) EXCEPT ![l] = Null]
    BY <1>1, <1>3 DEF Told
  <1>5. AllContents' = [AllContents EXCEPT ![l] = Null] /\ l \in Abstract!Live
    BY <1>2, <1>3, <1>4
  <1>6. (Items \cap constructed)' = Items \cap constructed
    BY <1>3
  <1>7. \A x : x \in gone <=> x = l \/ \E i \in 1..Len(C[l]) : C[l][i] = x
    <2>1. AllContents[l] = C[l] /\ DOMAIN C[l] = 1..Len(C[l])
      BY <1>1, <1>2, <1>3, ChainType DEF Told
    <2> QED BY <2>1 DEF ToSet
  <1> HIDE DEF gone
  <1>8. ASSUME NEW x \in Hooks, In(C, x) \/ x \in Lists \cap constructed
        PROVE  In(D, x) \/ x \in Lists \cap constructed' <=> x \notin gone
    <2>1. In(D, x) <=> In(C, x) /\ \A i \in 1..Len(C[l]) : C[l][i] # x
      BY <1>1, InWithout
    <2>2. \A i \in 1..Len(C[l]) : C[l][i] \notin Lists
      BY <1>1, ChainType DEF NamesAssumption
    <2>3. In(C, x) => x \notin Lists
      BY <1>1, ChainType DEF In, NamesAssumption
    <2> QED BY <1>3, <1>7, <1>8, <2>1, <2>2, <2>3
  <1>9. it' = IF it \in gone THEN Null ELSE it
    BY <1>0, <1>3, <1>8, Lets
  <1> QED BY <1>5, <1>6, <1>9 DEF Abstract!Destroy, Abstract!Lets, Abstract!ToSet, gone, ToSet

LEMMA MoveAssignRefines ==
  ASSUME NamesAssumption, NEW C, Chains(C), ItKept, NEW l \in Lists, NEW o \in Lists, MoveAssign(l, o)
  PROVE  Abstract!MoveAssign(l, o)
  <1> DEFINE D == [C EXCEPT ![l] = IF l = o THEN <<>> ELSE C[o], ![o] = <<>>]
             E == [C EXCEPT ![l] = <<>>]
             gone == ToSet(AllContents[l])
  <1>0. Rings(next', prev', constructed', D)
    BY MoveAssignStep
  <1>1. /\ D[l] = (IF l = o THEN <<>> ELSE C[o]) /\ D[o] = <<>>
        /\ \A j \in Lists : j # l /\ j # o => D[j] = C[j]
        /\ C \in [Lists -> Seq(Items)] /\ Apart(C) /\ Lost(C, E, l) /\ E[l] = <<>>
        /\ (\A j \in Lists : j # l => E[j] = C[j]) /\ D \in [Lists -> Seq(Items)]
    BY <1>0 DEF Chains, Rings, Lost
  <1>a. IF l = o THEN D = E ELSE Took(E, D, l, o)
    BY <1>1 DEF Took
  <1> HIDE DEF D, E
  <1>2. /\ AllContents = Told(constructed, C) /\ AllContents' = Told(constructed', D)
        /\ Abstract!Live = Lists \cap constructed
    BY <1>0, AllContentsAre, AllContentsPrime, LiveIs
  <1>3. l \in constructed /\ o \in constructed /\ constructed' = constructed /\ IteratorKept
    BY DEF MoveAssign
  <1>4. Told(constructed, D) = [Told(constructed, C) EXCEPT ![l] = IF l = o THEN <<>> ELSE C[o], ![o] = <<>>]
    BY <1>1, <1>3 DEF Told
  <1>5. Told(constructed, C)[o] = C[o] /\ Told(constructed, C)[l] = C[l]
    BY <1>3 DEF Told
  <1>6. AllContents' = [AllContents EXCEPT ![l] = IF l = o THEN <<>> ELSE AllContents[o], ![o] = <<>>]
        /\ {l, o} \subseteq Abstract!Live
    BY <1>2, <1>3, <1>4, <1>5
  <1>7. \A x : x \in gone <=> \E i \in 1..Len(C[l]) : C[l][i] = x
    <2>1. AllContents[l] = C[l] /\ DOMAIN C[l] = 1..Len(C[l])
      BY <1>1, <1>2, <1>5, ChainType
    <2> QED BY <2>1 DEF ToSet
  <1> HIDE DEF gone
  <1>8. ASSUME NEW x \in Hooks, In(C, x) \/ x \in Lists \cap constructed
        PROVE  In(D, x) \/ x \in Lists \cap constructed' <=> x \notin gone
    <2>1. In(E, x) <=> In(C, x) /\ \A i \in 1..Len(C[l]) : C[l][i] # x
      BY <1>1, InWithout
    <2>2. In(D, x) <=> In(E, x)
      BY <1>a, InMoves
    <2>3. \A i \in 1..Len(C[l]) : C[l][i] \notin Lists
      BY <1>1, ChainType DEF NamesAssumption
    <2> QED BY <1>3, <1>7, <1>8, <2>1, <2>2, <2>3
  <1>9. it' = IF it \in gone THEN Null ELSE it
    BY <1>0, <1>3, <1>8, Lets
  <1> QED BY <1>3, <1>6, <1>9 DEF Abstract!MoveAssign, Abstract!Lets, Abstract!ToSet, gone, ToSet

LEMMA PushRefines ==
  ASSUME NamesAssumption, NEW C, Chains(C), NEW l \in Lists, NEW i \in Items,
         PushBack(l, i) \/ PushFront(l, i)
  PROVE  Abstract!Push(l, i)
  <1> DEFINE s == IF PushBack(l, i) THEN Append(C[l], i) ELSE <<i>> \o C[l]
             D == [C EXCEPT ![l] = s]
  <1>0. Rings(next', prev', constructed', D) /\ ~In(C, i)
    <2>1. CASE PushBack(l, i)
      <3>1. D = [C EXCEPT ![l] = Append(C[l], i)]
        BY <2>1
      <3> QED BY <2>1, <3>1, PushBackStep
    <2>2. CASE ~PushBack(l, i)
      <3>1. D = [C EXCEPT ![l] = <<i>> \o C[l]]
        BY <2>2
      <3> QED BY <2>2, <3>1, PushFrontStep
    <2> QED BY <2>1, <2>2
  <1>1. D[l] = s /\ \A j \in Lists : j # l => D[j] = C[j]
    BY DEF Chains, Rings
  <1> HIDE DEF D
  <1>2. /\ AllContents = Told(constructed, C) /\ AllContents' = Told(constructed', D)
        /\ Abstract!Live = Lists \cap constructed /\ i \notin Abstract!Linked
    BY <1>0, AllContentsAre, AllContentsPrime, LiveIs, LinkedHere
  <1>3. l \in constructed /\ i \in constructed /\ constructed' = constructed /\ it' = it
    BY DEF PushBack, PushFront
  <1>4. Told(constructed, D) = [Told(constructed, C) EXCEPT ![l] = s]
    <2> HIDE DEF s
    <2> QED BY <1>1, <1>3 DEF Told
  <1>5. Told(constructed, C)[l] = C[l] /\ (s = Append(C[l], i) \/ s = <<i>> \o C[l])
    BY <1>3 DEF Told
  <1>6. AllContents' = [AllContents EXCEPT ![l] = s]
        /\ (s = Append(AllContents[l], i) \/ s = <<i>> \o AllContents[l])
    <2> HIDE DEF s
    <2> QED BY <1>2, <1>3, <1>4, <1>5
  <1>7. \/ AllContents' = [AllContents EXCEPT ![l] = Append(AllContents[l], i)]
        \/ AllContents' = [AllContents EXCEPT ![l] = <<i>> \o AllContents[l]]
    <2> HIDE DEF s
    <2> QED BY <1>6
  <1>8. l \in Abstract!Live /\ i \in (Items \cap constructed) \ Abstract!Linked
    BY <1>2, <1>3
  <1>9. (Items \cap constructed)' = Items \cap constructed
    BY <1>3
  <1> QED BY <1>3, <1>7, <1>8, <1>9 DEF Abstract!Push

(* What is gone from a chain is gone from all of them. *)
LEMMA InRemoved ==
  ASSUME NEW C \in [Lists -> Seq(Items)], NEW l \in Lists, NEW k \in 1..Len(C[l]), NEW D,
         D[l] = Removed(C[l], k), \A j \in Lists : j # l => D[j] = C[j], Apart(C), NEW x
  PROVE  In(D, x) <=> In(C, x) /\ x # C[l][k]
  <1> DEFINE n == Len(C[l])
  <1>1. /\ n \in Nat /\ Len(D[l]) = n - 1
        /\ \A i \in 1..(k - 1) : D[l][i] = C[l][i]
        /\ \A i \in k..(n - 1) : D[l][i] = C[l][i + 1]
    BY ChainType, RemovedIs
  <1>2. ASSUME In(D, x) PROVE In(C, x) /\ x # C[l][k]
    <2>1. PICK j \in Lists : \E i \in 1..Len(D[j]) : D[j][i] = x
      BY <1>2 DEF In
    <2>2. CASE j # l
      BY <2>1, <2>2 DEF In, Apart
    <2>3. CASE j = l
      <3>1. PICK i \in 1..(n - 1) : D[l][i] = x
        BY <1>1, <2>1, <2>3
      <3>2. PICK m \in 1..n : C[l][m] = x /\ m # k
        <4>1. CASE i < k
          BY <1>1, <3>1, <4>1
        <4>2. CASE ~(i < k)
          <5>1. i \in k..(n - 1) /\ i + 1 \in 1..n /\ i + 1 # k
            BY <1>1, <4>2
          <5> QED BY <1>1, <3>1, <5>1
        <4> QED BY <4>1, <4>2
      <3>3. x # C[l][k]
        BY <3>2 DEF Apart
      <3>4. In(C, x)
        BY <3>2 DEF In
      <3> QED BY <3>3, <3>4
    <2> QED BY <2>2, <2>3
  <1>3. ASSUME In(C, x), x # C[l][k] PROVE In(D, x)
    <2>1. PICK j \in Lists : \E i \in 1..Len(C[j]) : C[j][i] = x
      BY <1>3 DEF In
    <2>2. CASE j # l
      BY <2>1, <2>2 DEF In
    <2>3. CASE j = l
      <3>1. PICK m \in 1..n : C[l][m] = x /\ m # k
        BY <1>3, <2>1, <2>3
      <3>2. \E i \in 1..(n - 1) : D[l][i] = x
        <4>1. CASE m < k
          <5>1. m \in 1..(k - 1) /\ m \in 1..(n - 1)
            BY <1>1, <4>1
          <5> QED BY <1>1, <3>1, <5>1
        <4>2. CASE ~(m < k)
          <5>1. m - 1 \in k..(n - 1) /\ m - 1 \in 1..(n - 1) /\ m - 1 + 1 = m
            BY <1>1, <3>1, <4>2
          <5> QED BY <1>1, <3>1, <5>1
        <4> QED BY <4>1, <4>2
      <3> QED BY <1>1, <3>2 DEF In
    <2> QED BY <2>2, <2>3
  <1> QED BY <1>2, <1>3

(* One item leaves its list. *)
LEMMA OneLeaves ==
  ASSUME NamesAssumption, NEW C, Chains(C), ItKept, IteratorKept, NEW l \in Lists, NEW k \in 1..Len(C[l]),
         NEW i, C[l][k] = i, NEW D, D = Without(C, l, k), Rings(next', prev', constructed', D),
         Lists \cap constructed' = Lists \cap constructed
  PROVE  /\ l \in Abstract!Live /\ AllContents[l] = C[l]
         /\ AllContents' = [AllContents EXCEPT ![l] = Removed(C[l], k)]
         /\ it' = IF it \in {i} THEN Null ELSE it
  <1>1. /\ C \in [Lists -> Seq(Items)] /\ Apart(C)
        /\ l \notin constructed => C[l] = <<>>
    BY DEF Chains, Rings
  <1>2. D[l] = Removed(C[l], k) /\ \A j \in Lists : j # l => D[j] = C[j]
    BY <1>1 DEF Without
  <1>3. l \in constructed /\ l \in constructed'
    <2>1. l \notin constructed => Len(C[l]) = 0
      BY <1>1
    <2> QED BY <2>1
  <1>4. /\ AllContents = Told(constructed, C) /\ AllContents' = Told(constructed', D)
        /\ Abstract!Live = Lists \cap constructed
    BY AllContentsAre, AllContentsPrime, LiveIs
  <1>5. Told(constructed', D) = [Told(constructed, C) EXCEPT ![l] = Removed(C[l], k)]
    <2>1. \A j \in Lists : j \in constructed' <=> j \in constructed
      OBVIOUS
    <2> QED BY <1>2, <1>3, <2>1 DEF Told
  <1>6. Told(constructed, C)[l] = C[l]
    BY <1>3 DEF Told
  <1> DEFINE gone == {C[l][k]}
  <1>7. ASSUME NEW x \in Hooks, In(C, x) \/ x \in Lists \cap constructed
        PROVE  In(D, x) \/ x \in Lists \cap constructed' <=> x \notin gone
    <2>1. In(D, x) <=> In(C, x) /\ x # C[l][k]
      BY <1>1, <1>2, InRemoved
    <2>2. C[l][k] \notin Lists
      BY <1>1, ChainType DEF NamesAssumption
    <2> QED BY <1>7, <2>1, <2>2
  <1>8. it' = IF it \in gone THEN Null ELSE it
    <2> HIDE DEF gone
    <2> QED BY <1>7, Lets
  <1> QED BY <1>3, <1>4, <1>5, <1>6, <1>8

(* Nothing changes in the lists, and the iterator is where it was. *)
LEMMA NothingLeaves ==
  ASSUME NamesAssumption, NEW C, Chains(C), ItKept, IteratorKept, Rings(next', prev', constructed', C),
         Lists \cap constructed' = Lists \cap constructed
  PROVE  AllContents' = AllContents /\ it' = it
  <1>1. AllContents = Told(constructed, C) /\ AllContents' = Told(constructed', C)
    BY AllContentsAre, AllContentsPrime
  <1>2. Told(constructed', C) = Told(constructed, C)
    <2>1. \A j \in Lists : j \in constructed' <=> j \in constructed
      OBVIOUS
    <2> QED BY <2>1 DEF Told
  <1> DEFINE gone == {}
  <1>3. ASSUME NEW x \in Hooks, In(C, x) \/ x \in Lists \cap constructed
        PROVE  In(C, x) \/ x \in Lists \cap constructed' <=> x \notin gone
    BY <1>3
  <1>4. it' = IF it \in gone THEN Null ELSE it
    <2> HIDE DEF gone
    <2> QED BY <1>3, Lets
  <1> QED BY <1>1, <1>2, <1>4

LEMMA UnlinkRefines ==
  ASSUME NamesAssumption, NEW C, Chains(C), ItKept, NEW i \in Items, Unlink(i) \/ DestroyItem(i)
  PROVE  Abstract!Unlink(i)
  <1>1. PICK D : Rings(next', prev', constructed', D) /\ Left(C, D, i)
    BY UnlinkStep, DestroyItemStep
  <1>2. /\ i \in constructed /\ constructed' \in {constructed, constructed \ {i}} /\ IteratorKept
        /\ i \notin Lists
    BY DEF Unlink, DestroyItem, NamesAssumption
  <1>3. /\ Lists \cap constructed' = Lists \cap constructed
        /\ i \in Items \cap constructed
        /\ (Items \cap constructed)' \in {Items \cap constructed, (Items \cap constructed) \ {i}}
    BY <1>2
  <1>4. CASE ~In(C, i) /\ D = C
    <2>1. AllContents' = AllContents /\ it' = it
      BY <1>1, <1>2, <1>3, <1>4, NothingLeaves
    <2>2. i \notin Abstract!Linked
      BY <1>4, LinkedHere
    <2>3. it # i
      <3>1. SUFFICES ASSUME it = i PROVE FALSE
        OBVIOUS
      <3>2. i # Null /\ i \in Hooks
        BY DEF NamesAssumption, Hooks
      <3>3. next[i] # Null
        BY <3>1, <3>2 DEF ItKept
      <3> QED BY <1>2, <1>4, <3>2, <3>3, LinkedIs DEF Chains
    <2> QED BY <1>3, <2>1, <2>2, <2>3 DEF Abstract!Unlink, Abstract!Lets
  <1>5. CASE \E l \in Lists : \E k \in 1..Len(C[l]) : C[l][k] = i /\ D = [C EXCEPT ![l] = Removed(C[l], k)]
    <2>0. PICK l \in Lists : \E k \in 1..Len(C[l]) : C[l][k] = i /\ D = [C EXCEPT ![l] = Removed(C[l], k)]
      BY <1>5
    <2>1. PICK k \in 1..Len(C[l]) : C[l][k] = i /\ D = [C EXCEPT ![l] = Removed(C[l], k)]
      BY <2>0
    <2>2. D = Without(C, l, k) /\ C[l] \in Seq(Items)
      BY <2>1 DEF Without, Chains, Rings
    <2>3. /\ l \in Abstract!Live /\ AllContents[l] = C[l]
          /\ AllContents' = [AllContents EXCEPT ![l] = Removed(C[l], k)]
          /\ it' = IF it \in {i} THEN Null ELSE it
      <3>1. /\ IteratorKept /\ C[l][k] = i /\ Rings(next', prev', constructed', D)
            /\ Lists \cap constructed' = Lists \cap constructed /\ D = Without(C, l, k)
        BY <1>1, <1>2, <1>3, <2>1, <2>2
      <3> QED BY <3>1, OneLeaves
    <2>4. Removed(C[l], k) = RemoveAt(AllContents[l], k)
      BY <2>2, <2>3, RemovedIsRemoveAt
    <2>5. AllContents' = [AllContents EXCEPT ![l] = RemoveAt(@, k)]
      BY <2>3, <2>4
    <2>6. \E n \in 1..Len(AllContents[l]) :
            AllContents[l][n] = i /\ AllContents' = [AllContents EXCEPT ![l] = RemoveAt(@, n)]
      BY <2>1, <2>3, <2>5
    <2> QED BY <1>3, <2>3, <2>6 DEF Abstract!Unlink, Abstract!Lets, Abstract!RemoveAt, RemoveAt
  <1> QED BY <1>1, <1>4, <1>5 DEF Left

LEMMA PopBackRefines ==
  ASSUME NamesAssumption, NEW C, Chains(C), ItKept, NEW l \in Lists, PopBack(l)
  PROVE  Abstract!PopBack(l) \/ UNCHANGED <<AllContents, Items \cap constructed, it>>
  <1>1. /\ IteratorKept /\ l \in constructed /\ constructed' = constructed /\ C[l] \in Seq(Items)
        /\ C \in [Lists -> Seq(Items)]
    BY DEF PopBack, Chains, Rings
  <1>2. Lists \cap constructed' = Lists \cap constructed /\ (Items \cap constructed)' = Items \cap constructed
    BY <1>1
  <1> DEFINE D == IF C[l] = <<>> THEN C ELSE [C EXCEPT ![l] = Front(C[l])]
  <1>3. Rings(next', prev', constructed', D)
    BY PopBackStep
  <1>4. CASE C[l] = <<>>
    <2>1. Rings(next', prev', constructed', C)
      BY <1>3, <1>4
    <2>2. AllContents' = AllContents /\ it' = it
      BY <1>1, <1>2, <2>1, NothingLeaves
    <2> QED BY <1>2, <2>2
  <1>5. CASE C[l] # <<>>
    <2> DEFINE k == Len(C[l])
               i == Last(C[l])
    <2>1. k \in 1..Len(C[l]) /\ C[l][k] = i
      BY <1>1, <1>5, EmptySeq, LenProperties DEF Last
    <2>2. Removed(C[l], k) = Front(C[l])
      BY <1>1, <2>1, RemovedEnds
    <2>3. D = Without(C, l, k)
      BY <1>5, <2>2 DEF Without
    <2> HIDE DEF D, k, i
    <2>4. /\ l \in Abstract!Live /\ AllContents[l] = C[l]
          /\ AllContents' = [AllContents EXCEPT ![l] = Removed(C[l], k)]
          /\ it' = IF it \in {i} THEN Null ELSE it
      BY <1>1, <1>2, <1>3, <2>1, <2>3, OneLeaves
    <2>5. AllContents' = [AllContents EXCEPT ![l] = Front(@)]
      BY <2>2, <2>4
    <2>6. it' = IF it \in {Last(AllContents[l])} THEN Null ELSE it
      BY <2>4 DEF i
    <2>7. Abstract!PopBack(l)
      BY <1>2, <1>5, <2>4, <2>5, <2>6
      DEF Abstract!PopBack, Abstract!Lets, Abstract!Front, Front, Abstract!Last, Last
    <2> QED BY <2>7
  <1> QED BY <1>4, <1>5

LEMMA PopFrontRefines ==
  ASSUME NamesAssumption, NEW C, Chains(C), ItKept, NEW l \in Lists, PopFront(l)
  PROVE  Abstract!PopFront(l) \/ UNCHANGED <<AllContents, Items \cap constructed, it>>
  <1>1. /\ IteratorKept /\ l \in constructed /\ constructed' = constructed /\ C[l] \in Seq(Items)
        /\ C \in [Lists -> Seq(Items)]
    BY DEF PopFront, Chains, Rings
  <1>2. Lists \cap constructed' = Lists \cap constructed /\ (Items \cap constructed)' = Items \cap constructed
    BY <1>1
  <1> DEFINE D == IF C[l] = <<>> THEN C ELSE [C EXCEPT ![l] = Tail(C[l])]
  <1>3. Rings(next', prev', constructed', D)
    BY PopFrontStep
  <1>4. CASE C[l] = <<>>
    <2>1. Rings(next', prev', constructed', C)
      BY <1>3, <1>4
    <2>2. AllContents' = AllContents /\ it' = it
      BY <1>1, <1>2, <2>1, NothingLeaves
    <2> QED BY <1>2, <2>2
  <1>5. CASE C[l] # <<>>
    <2> DEFINE i == Head(C[l])
    <2>1. 1 \in 1..Len(C[l]) /\ C[l][1] = i
      BY <1>1, <1>5, EmptySeq, LenProperties
    <2>2. Removed(C[l], 1) = Tail(C[l])
      BY <1>1, <2>1, RemovedEnds
    <2>3. D = Without(C, l, 1)
      BY <1>5, <2>2 DEF Without
    <2> HIDE DEF D, i
    <2>4. /\ l \in Abstract!Live /\ AllContents[l] = C[l]
          /\ AllContents' = [AllContents EXCEPT ![l] = Removed(C[l], 1)]
          /\ it' = IF it \in {i} THEN Null ELSE it
      BY <1>1, <1>2, <1>3, <2>1, <2>3, OneLeaves
    <2>5. AllContents' = [AllContents EXCEPT ![l] = Tail(@)]
      BY <2>2, <2>4
    <2>6. it' = IF it \in {Head(AllContents[l])} THEN Null ELSE it
      BY <2>4 DEF i
    <2>7. Abstract!PopFront(l)
      BY <1>2, <1>5, <2>4, <2>5, <2>6 DEF Abstract!PopFront, Abstract!Lets
    <2> QED BY <2>7
  <1> QED BY <1>4, <1>5

LEMMA ConstructItemRefines ==
  ASSUME NamesAssumption, NEW C, Chains(C), NEW i \in Items, ConstructItem(i)
  PROVE  Abstract!ConstructItem(i)
  <1>1. constructed' = constructed \cup {i} /\ it' = it /\ i \notin Lists
    BY DEF ConstructItem, NamesAssumption
  <1>2. Rings(next', prev', constructed', C)
    BY ConstructItemStep
  <1>3. AllContents = Told(constructed, C) /\ AllContents' = Told(constructed', C)
    BY <1>2, AllContentsAre, AllContentsPrime
  <1>4. Told(constructed', C) = Told(constructed, C)
    <2>1. \A j \in Lists : j \in constructed' <=> j \in constructed
      BY <1>1
    <2> QED BY <2>1 DEF Told
  <1>5. (Items \cap constructed)' = (Items \cap constructed) \cup {i}
    BY <1>1
  <1> QED BY <1>1, <1>3, <1>4, <1>5 DEF Abstract!ConstructItem

LEMMA RingIs ==
  ASSUME NamesAssumption, NEW C, Chains(C), NEW l \in Lists \cap constructed
  PROVE  /\ l \in Abstract!Live /\ AllContents[l] = C[l] /\ Len(C[l]) \in Nat
         /\ \A n \in 1..(Len(C[l]) + 1) : Abstract!Ring(l)[n] = Nth(l, C[l], n)
  <1>1. l \in Abstract!Live /\ AllContents[l] = C[l]
    BY LiveIs, AllContentsAre DEF Told
  <1>2. C[l] \in Seq(Hooks) /\ Len(C[l]) \in Nat /\ l \in Hooks
    <2>1. C[l] \in Seq(Items) /\ Items \subseteq Hooks
      BY DEF Chains, Rings, Hooks
    <2>2. Len(C[l]) \in Nat /\ C[l] \in [1..Len(C[l]) -> Items]
      BY <2>1, LenProperties
    <2> QED BY <2>1, <2>2, IsASeq DEF Hooks
  <1>3. Abstract!Ring(l) = Append(C[l], l)
    BY <1>1 DEF Abstract!Ring
  <1>4. ASSUME NEW n \in 1..(Len(C[l]) + 1) PROVE Append(C[l], l)[n] = Nth(l, C[l], n)
    <2>1. /\ \A j \in 1..Len(C[l]) : Append(C[l], l)[j] = C[l][j]
          /\ Append(C[l], l)[Len(C[l]) + 1] = l
      BY <1>2, AppendProperties
    <2>2. CASE n \in 1..Len(C[l])
      BY <2>1, <2>2 DEF Nth
    <2>3. CASE n \notin 1..Len(C[l])
      <3>1. n = Len(C[l]) + 1
        BY <1>2, <2>3
      <3> QED BY <2>1, <2>3, <3>1 DEF Nth
    <2> QED BY <2>2, <2>3
  <1> QED BY <1>1, <1>2, <1>3, <1>4

LEMMA MoveRefines ==
  ASSUME NamesAssumption, NEW C, Chains(C), ItKept, GetIterator \/ Forget \/ Increment \/ Decrement
  PROVE  Abstract!Move
  <1>1. next' = next /\ prev' = prev /\ constructed' = constructed
    BY DEF GetIterator, Forget, Increment, Decrement
  <1>2. AllContents' = AllContents /\ (Items \cap constructed)' = Items \cap constructed
    <2>1. Rings(next', prev', constructed', C)
      BY <1>1 DEF Chains
    <2> QED BY <1>1, <2>1, AllContentsAre, AllContentsPrime
  <1>3. C \in [Lists -> Seq(Items)] /\ constructed \subseteq Hooks /\ Null \notin Hooks
        /\ \A l \in Lists : l \notin Items
    BY DEF Chains, Rings, NamesAssumption
  <1>4. it # Null => it \in Hooks /\ (In(C, it) \/ it \in Lists \cap constructed)
    <2>1. it # Null => it \in Hooks /\ next[it] # Null
      BY <1>3 DEF ItKept
    <2> QED BY <2>1, LinkedIs DEF Chains
  <1>5. \A x : In(C, x) \/ x \in Lists \cap constructed => x \in Abstract!Linked \cup Abstract!Live
    BY LinkedHere, LiveIs
  <1>6. CASE GetIterator
    <2>1. ASSUME NEW l \in Lists \cap constructed, it' \in {next[l], l}
          PROVE  In(C, it') \/ it' \in Lists \cap constructed
      <3>1. CASE it' = l
        BY <3>1
      <3>2. CASE it' = next[l]
        <4>1. PICK m \in Lists \cap constructed : \E k \in 0..Len(C[m]) : next[l] = Nth(m, C[m], k + 1)
          BY HasPlace DEF Hooks
        <4> QED BY <3>2, <4>1 DEF Nth, In
      <3> QED BY <2>1, <3>1, <3>2
    <2>2. ASSUME NEW i \in Items \cap constructed, IsLinked(Memory, i), it' = i
          PROVE  In(C, it')
      BY <2>2, NotLinked
    <2>3. it = Null /\ (In(C, it') \/ it' \in Lists \cap constructed)
      BY <1>6, <2>1, <2>2 DEF GetIterator
    <2> QED BY <1>2, <1>5, <2>3 DEF Abstract!Move
  <1>7. CASE Forget
    BY <1>2, <1>7 DEF Forget, Abstract!Move
  <1>8. CASE Increment
    <2>1. it \in Items /\ it' = next[it] /\ it # Null
      BY <1>3, <1>8 DEF Increment, Hooks
    <2>2. PICK l \in Lists \cap constructed :
            \E k \in 0..Len(C[l]) : Nth(l, C[l], k) = it /\ next[it] = Nth(l, C[l], k + 1)
      BY <1>4, <2>1, HasPlace
    <2>3. PICK k \in 0..Len(C[l]) : Nth(l, C[l], k) = it /\ next[it] = Nth(l, C[l], k + 1)
      BY <2>2
    <2>4. k \in 1..Len(C[l])
      BY <1>3, <2>1, <2>3 DEF Nth
    <2>5. /\ l \in Abstract!Live /\ k \in 1..Len(AllContents[l])
          /\ it = Abstract!Ring(l)[k] /\ it' = Abstract!Ring(l)[k + 1]
      <3>1. k \in 1..(Len(C[l]) + 1) /\ k + 1 \in 1..(Len(C[l]) + 1)
        BY <2>4, RingIs
      <3> QED BY <2>1, <2>3, <2>4, <3>1, RingIs
    <2> QED BY <1>2, <2>5 DEF Abstract!Move
  <1>9. CASE Decrement
    <2>1. it # Null /\ prev[it] \in Items /\ it' = prev[it]
      BY <1>9 DEF Decrement
    <2>2. PICK l \in Lists \cap constructed :
            \E k \in 0..Len(C[l]) : Nth(l, C[l], k + 1) = it /\ prev[it] = Nth(l, C[l], k)
      BY <1>4, <2>1, HasPlace
    <2>3. PICK k \in 0..Len(C[l]) : Nth(l, C[l], k + 1) = it /\ prev[it] = Nth(l, C[l], k)
      BY <2>2
    <2>4. k \in 1..Len(C[l])
      BY <1>3, <2>1, <2>3 DEF Nth
    <2>5. /\ l \in Abstract!Live /\ k \in 1..Len(AllContents[l])
          /\ it = Abstract!Ring(l)[k + 1] /\ it' = Abstract!Ring(l)[k]
      <3>1. k \in 1..(Len(C[l]) + 1) /\ k + 1 \in 1..(Len(C[l]) + 1)
        BY <2>4, RingIs
      <3> QED BY <2>1, <2>3, <2>4, <3>1, RingIs
    <2> QED BY <1>2, <2>5 DEF Abstract!Move
  <1> QED BY <1>6, <1>7, <1>8, <1>9

(* Every step of the hooks is a step of the lists, or changes no list. *)
LEMMA StepRefines ==
  ASSUME NamesAssumption, IInv, [Next]_vars
  PROVE  [Abstract!Next]_<<AllContents, Items \cap constructed, it>>
  <1> DEFINE Same == UNCHANGED <<AllContents, Items \cap constructed, it>>
  <1>1. PICK C : Chains(C)
    BY DEF IInv
  <1>2. ItKept
    BY DEF IInv
  <1>3. ASSUME NEW l \in Lists,
               Abstract!Construct(l) \/ Abstract!Destroy(l) \/ Abstract!PopBack(l) \/ Abstract!PopFront(l)
        PROVE  Abstract!Next
    BY <1>3 DEF Abstract!Next
  <1>4. ASSUME NEW l \in Lists, Construct(l) \/ Destroy(l)
        PROVE  Abstract!Next
    BY <1>1, <1>2, <1>3, <1>4, ConstructRefines, DestroyRefines
  <1>5. ASSUME NEW l \in Lists, PopBack(l) \/ PopFront(l)
        PROVE  Abstract!Next \/ Same
    BY <1>1, <1>2, <1>3, <1>5, PopBackRefines, PopFrontRefines
  <1>6. ASSUME NEW l \in Lists, NEW o \in Lists, MoveConstruct(l, o) \/ MoveAssign(l, o)
        PROVE  Abstract!Next
    <2>1. Abstract!Construct(l) \/ Abstract!MoveAssign(l, o)
      BY <1>1, <1>2, <1>6, MoveConstructRefines, MoveAssignRefines
    <2> QED BY <2>1 DEF Abstract!Next
  <1>7. ASSUME NEW l \in Lists, NEW i \in Items, PushBack(l, i) \/ PushFront(l, i)
        PROVE  Abstract!Next
    <2>1. Abstract!Push(l, i)
      BY <1>1, <1>7, PushRefines
    <2> QED BY <2>1 DEF Abstract!Next
  <1>8. ASSUME NEW i \in Items, ConstructItem(i) \/ DestroyItem(i) \/ Unlink(i)
        PROVE  Abstract!Next
    <2>1. Abstract!ConstructItem(i) \/ Abstract!Unlink(i)
      BY <1>1, <1>2, <1>8, ConstructItemRefines, UnlinkRefines
    <2> QED BY <2>1 DEF Abstract!Next
  <1>9. CASE GetIterator \/ Forget \/ Increment \/ Decrement
    <2>1. Abstract!Move
      BY <1>1, <1>2, <1>9, MoveRefines
    <2> QED BY <2>1 DEF Abstract!Next
  <1>10. CASE UNCHANGED vars
    <2>1. next' = next /\ constructed' = constructed /\ it' = it
      BY <1>10 DEF vars
    <2>2. AllContents' = AllContents
      <3>1. Rings(next', prev', constructed', C)
        BY <1>1, <1>10 DEF Chains, vars
      <3> QED BY <1>1, <2>1, <3>1, AllContentsAre, AllContentsPrime
    <2> QED BY <2>1, <2>2
  <1> QED BY <1>4, <1>5, <1>6, <1>7, <1>8, <1>9, <1>10 DEF Next

LEMMA InitRefines == ASSUME NamesAssumption PROVE Init => Abstract!Init
  BY DEF Init, Abstract!Init, AllContents

(* The hooks implement lists that do not own their items: an item is in at *)
(* most one list, leaves it when either is destroyed, and an iterator      *)
(* stays at its item while whole lists are moved (intrusive_list.h).       *)
THEOREM ListsRefinement == ASSUME NamesAssumption PROVE Spec => ImplementsLists
  <1> QED BY StepRefines, InitRefines, Invariance, PTL DEF Spec, ImplementsLists, Abstract!Spec, Abstract!vars

-----------------------------------------------------------------------------
(* list/list.h.  Sequences with one element more and one less. *)

LEMMA InsertedSeq ==
  ASSUME NEW S, NEW s \in Seq(S), NEW k \in 0..Len(s), NEW h \in S
  PROVE  /\ Inserted(s, k, h) \in Seq(S) /\ Len(Inserted(s, k, h)) = Len(s) + 1
         /\ \A i \in 1..(Len(s) + 1) :
              Inserted(s, k, h)[i] = IF i <= k THEN s[i] ELSE IF i = k + 1 THEN h ELSE s[i - 1]
  <1> DEFINE t == Inserted(s, k, h)
  <1>1. Len(s) \in Nat /\ \A i \in 1..Len(s) : s[i] \in S
    BY LenProperties, ElementOfSeq
  <1>2. \A i \in 1..(Len(s) + 1) :
          (IF i <= k THEN s[i] ELSE IF i = k + 1 THEN h ELSE s[i - 1]) \in S
    BY <1>1
  <1>3. t \in [1..(Len(s) + 1) -> S] /\ Len(s) + 1 \in Nat
    BY <1>1, <1>2 DEF Inserted
  <1>4. t \in Seq(S) /\ Len(t) = Len(s) + 1
    BY <1>1, <1>3, SeqDef, LenProperties
  <1> QED BY <1>4 DEF Inserted

LEMMA InsertedStops ==
  ASSUME NEW S, NEW s \in Seq(S), NEW k \in 0..Len(s), NEW h \in S, NEW r
  PROVE  \A i \in 0..(Len(s) + 2) :
           Nth(r, Inserted(s, k, h), i)
             = IF i <= k THEN Nth(r, s, i) ELSE IF i = k + 1 THEN h ELSE Nth(r, s, i - 1)
  <1> DEFINE t == Inserted(s, k, h)
  <1>1. Len(s) \in Nat /\ Len(t) = Len(s) + 1
    BY InsertedSeq, LenProperties
  <1>2. \A i \in 1..(Len(s) + 1) : t[i] = IF i <= k THEN s[i] ELSE IF i = k + 1 THEN h ELSE s[i - 1]
    BY DEF Inserted
  <1> HIDE DEF t
  <1>3. ASSUME NEW i \in 0..(Len(s) + 2)
        PROVE  Nth(r, t, i) = IF i <= k THEN Nth(r, s, i) ELSE IF i = k + 1 THEN h ELSE Nth(r, s, i - 1)
    BY <1>1, <1>2 DEF Nth
  <1> QED BY <1>3 DEF t

LEMMA RemovedSeq ==
  ASSUME NEW S, NEW s \in Seq(S), NEW k \in 1..Len(s)
  PROVE  /\ Removed(s, k) \in Seq(S) /\ Len(Removed(s, k)) = Len(s) - 1
         /\ \A i \in 1..(Len(s) - 1) : Removed(s, k)[i] = IF i < k THEN s[i] ELSE s[i + 1]
  <1> DEFINE t == Removed(s, k)
  <1>1. Len(s) \in Nat /\ \A i \in 1..Len(s) : s[i] \in S
    BY LenProperties, ElementOfSeq
  <1>2. \A i \in 1..(Len(s) - 1) : (IF i < k THEN s[i] ELSE s[i + 1]) \in S
    BY <1>1
  <1>3. t \in [1..(Len(s) - 1) -> S] /\ Len(s) - 1 \in Nat
    BY <1>1, <1>2 DEF Removed
  <1>4. t \in Seq(S) /\ Len(t) = Len(s) - 1
    BY <1>1, <1>3, SeqDef, LenProperties
  <1> QED BY <1>4 DEF Removed

LEMMA RemovedStops ==
  ASSUME NEW S, NEW s \in Seq(S), NEW k \in 1..Len(s), NEW r
  PROVE  \A i \in 0..Len(s) :
           Nth(r, Removed(s, k), i) = IF i < k THEN Nth(r, s, i) ELSE Nth(r, s, i + 1)
  <1> DEFINE t == Removed(s, k)
  <1>1. Len(s) \in Nat /\ Len(t) = Len(s) - 1
    BY RemovedSeq, LenProperties
  <1>2. \A i \in 1..(Len(s) - 1) : t[i] = IF i < k THEN s[i] ELSE s[i + 1]
    BY RemovedSeq
  <1> HIDE DEF t
  <1>3. ASSUME NEW i \in 0..Len(s)
        PROVE  Nth(r, t, i) = IF i < k THEN Nth(r, s, i) ELSE Nth(r, s, i + 1)
    BY <1>1, <1>2 DEF Nth
  <1> QED BY <1>3 DEF t

-----------------------------------------------------------------------------
(* A heap of nodes is finite, so there is an address that it does not use. *)
Entries == [prev : Nat, next : Nat, value : Values \cup {Nil}]

NodeHeap(m) ==
  /\ IsFiniteSet(DOMAIN m) /\ DOMAIN m \subseteq Nat
  /\ m \in [DOMAIN m -> Entries]

(* The nodes s, in this order, are in the ring of the root r. *)
NodeRing(m, r, s) ==
  /\ r \in DOMAIN m /\ m[r].value = Nil
  /\ s \in Seq(DOMAIN m)
  /\ \A i \in 1..Len(s) : s[i] # r /\ m[s[i]].value \in Values
  /\ \A i, j \in 1..Len(s) : s[i] = s[j] => i = j
  /\ \A i \in 0..Len(s) : /\ m[Nth(r, s, i)].next = Nth(r, s, i + 1)
                          /\ m[Nth(r, s, i + 1)].prev = Nth(r, s, i)

NodesOf(r, s) == {r} \cup {s[i] : i \in 1..Len(s)}

(* The heap m is the heap h and this ring. *)
Joined(m, h, r, s) ==
  /\ NodeHeap(m) /\ NodeHeap(h) /\ NodeRing(m, r, s)
  /\ DOMAIN m = DOMAIN h \cup NodesOf(r, s)
  /\ DOMAIN h \cap NodesOf(r, s) = {}
  /\ \A a \in DOMAIN h : m[a] = h[a]

ValuesIn(m, s) == [i \in 1..Len(s) |-> m[s[i]].value]

LEMMA NilNoNode == Nil \notin Nat /\ Nil \notin Values
  BY ListNames DEF Owning!NamesAssumption

LEMMA HeapHas ==
  ASSUME NEW m, NodeHeap(m), NEW a \in DOMAIN m
  PROVE  /\ a \in Nat /\ m[a].prev \in Nat /\ m[a].next \in Nat
         /\ m[a].value \in Values \cup {Nil} /\ m[a] \in Entries
         /\ m[a] = [prev |-> m[a].prev, next |-> m[a].next, value |-> m[a].value]
  <1>1. m[a] \in Entries /\ a \in Nat
    BY DEF NodeHeap
  <1> QED BY <1>1 DEF Entries

LEMMA NumbersEnd ==
  ASSUME NEW D, IsFiniteSet(D), D \subseteq Nat
  PROVE  \E n \in Nat : \A b \in D : b < n
  <1> DEFINE P == {n \in Nat : \A A \in SUBSET D :
                                 Cardinality(A) = n => \E k \in Nat : \A b \in A : b < k}
  <1>1. 0 \in P
    <2>1. ASSUME NEW A \in SUBSET D, Cardinality(A) = 0
          PROVE  \E k \in Nat : \A b \in A : b < k
      <3>1. A = {}
        BY <2>1, FS_Subset, FS_EmptySet
      <3> QED BY <3>1
    <2> QED BY <2>1
  <1>2. ASSUME NEW n \in Nat, n \in P PROVE n + 1 \in P
    <2>1. ASSUME NEW A \in SUBSET D, Cardinality(A) = n + 1
          PROVE  \E k \in Nat : \A b \in A : b < k
      <3>1. IsFiniteSet(A) /\ A # {}
        <4>1. IsFiniteSet(A)
          BY FS_Subset
        <4>2. A = {} => Cardinality(A) = 0
          BY FS_EmptySet
        <4> QED BY <4>1, <4>2, <2>1
      <3>2. PICK a \in A : TRUE
        BY <3>1
      <3>3. Cardinality(A \ {a}) = n
        <4>1. Cardinality(A \ {a}) = Cardinality(A) - 1
          BY <3>1, <3>2, FS_RemoveElement
        <4> QED BY <4>1, <2>1
      <3>4. A \ {a} \in SUBSET D
        OBVIOUS
      <3>5. PICK k \in Nat : \A b \in A \ {a} : b < k
        BY <1>2, <3>3, <3>4
      <3>6. a \in Nat
        BY <3>2
      <3> DEFINE z == k + a + 1
      <3>7. z \in Nat /\ \A b \in A : b < z
        <4>1. \A b \in A : b \in Nat
          OBVIOUS
        <4> QED BY <3>5, <3>6, <4>1
      <3> QED BY <3>7
    <2> QED BY <2>1
  <1>3. Nat \subseteq P
    <2> HIDE DEF P
    <2> QED BY <1>1, <1>2, SetInduction
  <1>4. Cardinality(D) \in Nat /\ D \in SUBSET D
    BY FS_CardinalityType
  <1> QED BY <1>3, <1>4

LEMMA FreshNode ==
  ASSUME NEW m, NodeHeap(m), NodeHeap(node)
  PROVE  /\ Owning!Fresh(m) \in Nat
         /\ Owning!Fresh(m) \notin DOMAIN m /\ Owning!Fresh(m) \notin DOMAIN node
  <1> DEFINE D == DOMAIN m \cup DOMAIN node
             T == {n \in Nat : \A b \in D : b < n}
             F == {0} \cup {b + 1 : b \in D}
  <1>1. D \subseteq Nat /\ IsFiniteSet(D)
    BY FS_Union DEF NodeHeap
  <1> HIDE DEF D
  <1>2. T # {} /\ T \subseteq Nat
    BY <1>1, NumbersEnd
  <1>3. PICK n \in T : \A k \in T : n <= k
    BY <1>2, LeastNumber
  <1>4. n \in F
    <2>1. CASE n = 0
      BY <2>1
    <2>2. CASE n # 0
      <3>1. n \in Nat /\ n - 1 \in Nat /\ n - 1 \notin T
        BY <1>3, <2>2
      <3>2. PICK b \in D : ~(b < n - 1)
        BY <3>1
      <3>3. b \in Nat /\ b < n
        BY <1>1, <1>3
      <3>4. n = b + 1
        BY <3>1, <3>2, <3>3
      <3> QED BY <3>4
    <2> QED BY <2>1, <2>2
  <1>5. \E a \in F : \A b \in D : b < a
    BY <1>3, <1>4
  <1>6. Owning!Fresh(m) = CHOOSE a \in F : \A b \in D : b < a
    BY DEF Owning!Fresh, D
  <1>7. Owning!Fresh(m) \in F /\ \A b \in D : b < Owning!Fresh(m)
    <2> HIDE DEF F
    <2> QED BY <1>5, <1>6
  <1>8. F \subseteq Nat
    <2>1. \A b \in D : b + 1 \in Nat
      BY <1>1
    <2> QED BY <2>1
  <1>9. Owning!Fresh(m) \notin D
    BY <1>1, <1>7, <1>8
  <1> QED BY <1>7, <1>8, <1>9 DEF D

LEMMA RingNodes ==
  ASSUME NEW m, NEW r, NEW s, NodeRing(m, r, s)
  PROVE  /\ Len(s) \in Nat /\ s \in Seq(DOMAIN m) /\ r \in DOMAIN m
         /\ \A i : Nth(r, s, i) \in DOMAIN m /\ Nth(r, s, i) \in NodesOf(r, s)
         /\ NodesOf(r, s) \subseteq DOMAIN m
         /\ \A a \in NodesOf(r, s) : \E i \in 0..Len(s) : a = Nth(r, s, i)
         /\ \A i, j \in 0..Len(s) : Nth(r, s, i) = Nth(r, s, j) => i = j
         /\ \A i, j \in 1..(Len(s) + 1) : Nth(r, s, i) = Nth(r, s, j) => i = j
         /\ \A i \in 0..Len(s) : /\ m[Nth(r, s, i)].next = Nth(r, s, i + 1)
                                 /\ m[Nth(r, s, i + 1)].prev = Nth(r, s, i)
  <1>1. /\ s \in Seq(DOMAIN m) /\ r \in DOMAIN m
        /\ \A i \in 1..Len(s) : s[i] # r
        /\ \A i, j \in 1..Len(s) : s[i] = s[j] => i = j
        /\ \A i \in 0..Len(s) : /\ m[Nth(r, s, i)].next = Nth(r, s, i + 1)
                                /\ m[Nth(r, s, i + 1)].prev = Nth(r, s, i)
    BY DEF NodeRing
  <1>2. Len(s) \in Nat /\ \A i \in 1..Len(s) : s[i] \in DOMAIN m
    BY <1>1, LenProperties, ElementOfSeq
  <1>3. \A i : Nth(r, s, i) \in DOMAIN m /\ Nth(r, s, i) \in NodesOf(r, s)
    BY <1>1, <1>2 DEF Nth, NodesOf
  <1>4. NodesOf(r, s) \subseteq DOMAIN m
    BY <1>1, <1>2 DEF NodesOf
  <1>5. ASSUME NEW a \in NodesOf(r, s) PROVE \E i \in 0..Len(s) : a = Nth(r, s, i)
    <2>1. CASE a = r
      <3>1. a = Nth(r, s, 0) /\ 0 \in 0..Len(s)
        BY <2>1, <1>2 DEF Nth
      <3> QED BY <3>1
    <2>2. CASE a # r
      <3>1. PICK i \in 1..Len(s) : a = s[i]
        BY <2>2 DEF NodesOf
      <3>2. a = Nth(r, s, i) /\ i \in 0..Len(s)
        BY <3>1, <1>2 DEF Nth
      <3> QED BY <3>2
    <2> QED BY <2>1, <2>2
  <1>6. ASSUME NEW i \in 0..Len(s), NEW j \in 0..Len(s), Nth(r, s, i) = Nth(r, s, j) PROVE i = j
    BY <1>1, <1>2, <1>6 DEF Nth
  <1>7. ASSUME NEW i \in 1..(Len(s) + 1), NEW j \in 1..(Len(s) + 1), Nth(r, s, i) = Nth(r, s, j)
        PROVE  i = j
    BY <1>1, <1>2, <1>7 DEF Nth
  <1> QED BY <1>1, <1>2, <1>3, <1>4, <1>5, <1>6, <1>7

(* A ring says nothing of the other nodes. *)
LEMMA RingElsewhere ==
  ASSUME NEW m, NEW g, NEW r, NEW s, NodeRing(m, r, s),
         \A a \in NodesOf(r, s) : a \in DOMAIN g /\ g[a] = m[a]
  PROVE  NodeRing(g, r, s) /\ ValuesIn(g, s) = ValuesIn(m, s)
  <1>1. /\ Len(s) \in Nat /\ s \in Seq(DOMAIN m) /\ \A i : Nth(r, s, i) \in NodesOf(r, s)
        /\ \A i \in 0..Len(s) : /\ m[Nth(r, s, i)].next = Nth(r, s, i + 1)
                                /\ m[Nth(r, s, i + 1)].prev = Nth(r, s, i)
    BY RingNodes
  <1>2. /\ m[r].value = Nil
        /\ \A i \in 1..Len(s) : s[i] # r /\ m[s[i]].value \in Values
        /\ \A i, j \in 1..Len(s) : s[i] = s[j] => i = j
    BY DEF NodeRing
  <1>3. r \in DOMAIN g /\ g[r] = m[r]
    BY DEF NodesOf
  <1>4. \A i \in 1..Len(s) : s[i] \in DOMAIN g /\ g[s[i]] = m[s[i]]
    BY DEF NodesOf
  <1>5. s \in Seq(DOMAIN g)
    BY <1>1, <1>4, SeqDef
  <1>6. \A i \in 0..Len(s) : /\ g[Nth(r, s, i)].next = Nth(r, s, i + 1)
                             /\ g[Nth(r, s, i + 1)].prev = Nth(r, s, i)
    BY <1>1
  <1>7. ValuesIn(g, s) = ValuesIn(m, s)
    BY <1>4 DEF ValuesIn
  <1> QED BY <1>2, <1>3, <1>4, <1>5, <1>6, <1>7 DEF NodeRing

LEMMA AddedNode ==
  ASSUME NEW m, NodeHeap(m), NEW n \in Nat, NEW e \in Entries
  PROVE  /\ DOMAIN Owning!With(m, n, e) = DOMAIN m \cup {n}
         /\ NodeHeap(Owning!With(m, n, e))
         /\ Owning!With(m, n, e)[n] = e
         /\ \A a \in DOMAIN m : a # n => Owning!With(m, n, e)[a] = m[a]
  <1>1. IsFiniteSet(DOMAIN m \cup {n}) /\ DOMAIN m \cup {n} \subseteq Nat
    BY FS_AddElement DEF NodeHeap
  <1>2. \A a \in DOMAIN m : m[a] \in Entries
    BY DEF NodeHeap
  <1> QED BY <1>1, <1>2 DEF Owning!With, NodeHeap

LEMMA NewJoins ==
  ASSUME NEW h, NodeHeap(h), NodeHeap(node)
  PROVE  LET t == Owning!New(h) IN
           /\ t = [node |-> t.node, root |-> t.root, size |-> 0]
           /\ Joined(t.node, h, t.root, << >>)
           /\ t.root \in Nat /\ t.root \notin DOMAIN h /\ t.root \notin DOMAIN node
  <1> DEFINE r == Owning!Fresh(h)
             e == [prev |-> r, next |-> r, value |-> Nil]
             g == Owning!With(h, r, e)
  <1>1. Owning!New(h) = [node |-> g, root |-> r, size |-> 0]
    BY DEF Owning!New
  <1>2. r \in Nat /\ r \notin DOMAIN h /\ r \notin DOMAIN node
    BY FreshNode
  <1> HIDE DEF r
  <1>3. e \in Entries
    BY <1>2 DEF Entries
  <1> HIDE DEF e
  <1>4. /\ DOMAIN g = DOMAIN h \cup {r} /\ NodeHeap(g) /\ g[r] = e
        /\ \A a \in DOMAIN h : a # r => g[a] = h[a]
    BY <1>2, <1>3, AddedNode
  <1> HIDE DEF g
  <1>5. NodesOf(r, << >>) = {r}
    BY DEF NodesOf
  <1>6. NodeRing(g, r, << >>)
    <2>1. e.prev = r /\ e.next = r /\ e.value = Nil
      BY DEF e
    <2>2. \A i : Nth(r, << >>, i) = r
      BY DEF Nth
    <2> QED BY <1>4, <2>1, <2>2 DEF NodeRing
  <1>7. Joined(g, h, r, << >>)
    BY <1>2, <1>4, <1>5, <1>6 DEF Joined
  <1> QED BY <1>1, <1>2, <1>7

-----------------------------------------------------------------------------
(* One node more, one node less *)
Pointed(m, a, x, b, y) == [m EXCEPT ![a].prev = x, ![b].next = y]

NextPointed(m, b, y, a, x) == [m EXCEPT ![b].next = y, ![a].prev = x]

PointersOf(f, D, m, a, x, b, y) ==
  /\ f \in [D -> Entries]
  /\ \A c \in D : /\ f[c].prev = IF c = a THEN x ELSE m[c].prev
                  /\ f[c].next = IF c = b THEN y ELSE m[c].next
                  /\ f[c].value = m[c].value
                  /\ c # a /\ c # b => f[c] = m[c]

LEMMA PointersSet ==
  ASSUME NEW D, NEW m \in [D -> Entries], NEW a \in D, NEW b \in D, NEW x \in Nat, NEW y \in Nat
  PROVE  /\ NextPointed(m, b, y, a, x) = Pointed(m, a, x, b, y)
         /\ PointersOf(Pointed(m, a, x, b, y), D, m, a, x, b, y)
  <1>1. \A c \in D : m[c] \in Entries
    OBVIOUS
  <1> DEFINE f == [m EXCEPT ![a].prev = x, ![b].next = y]
             g == [m EXCEPT ![b].next = y, ![a].prev = x]
  <1>2. ASSUME NEW c \in D
        PROVE  /\ f[c] = [prev |-> IF c = a THEN x ELSE m[c].prev,
                          next |-> IF c = b THEN y ELSE m[c].next, value |-> m[c].value]
               /\ g[c] = f[c]
               /\ c # a /\ c # b => f[c] = m[c]
    BY <1>1 DEF Entries
  <1>3. DOMAIN f = D /\ DOMAIN g = D
    OBVIOUS
  <1>4. f = [c \in D |-> f[c]] /\ g = [c \in D |-> g[c]]
    BY <1>3
  <1> HIDE DEF f, g
  <1>5. \A c \in D : f[c] \in Entries
    <2> SUFFICES ASSUME NEW c \in D PROVE f[c] \in Entries
      OBVIOUS
    <2> DEFINE p == IF c = a THEN x ELSE m[c].prev
               q == IF c = b THEN y ELSE m[c].next
               v == m[c].value
    <2>1. p \in Nat /\ q \in Nat /\ v \in Values \cup {Nil}
      BY <1>1 DEF Entries
    <2>2. f[c] = [prev |-> p, next |-> q, value |-> v]
      BY <1>2
    <2> HIDE DEF p, q, v
    <2> QED BY <2>1, <2>2 DEF Entries
  <1>6. g = f
    BY <1>2, <1>4
  <1>7. f \in [D -> Entries]
    BY <1>4, <1>5
  <1>8. ASSUME NEW c \in D
        PROVE  /\ f[c].prev = IF c = a THEN x ELSE m[c].prev
               /\ f[c].next = IF c = b THEN y ELSE m[c].next
               /\ f[c].value = m[c].value
               /\ c # a /\ c # b => f[c] = m[c]
    <2> DEFINE p == IF c = a THEN x ELSE m[c].prev
               q == IF c = b THEN y ELSE m[c].next
               v == m[c].value
    <2>1. f[c] = [prev |-> p, next |-> q, value |-> v] /\ (c # a /\ c # b => f[c] = m[c])
      BY <1>2
    <2>2. f[c].prev = p /\ f[c].next = q /\ f[c].value = v
      <3> HIDE DEF p, q, v
      <3> QED BY <2>1
    <2> QED BY <2>1, <2>2
  <1>9. Pointed(m, a, x, b, y) = f /\ NextPointed(m, b, y, a, x) = g
    BY DEF f, g, Pointed, NextPointed
  <1>10. PointersOf(f, D, m, a, x, b, y)
    BY <1>7, <1>8 DEF PointersOf
  <1> QED BY <1>6, <1>9, <1>10

NodeLinked(u, m, h, r, s, i, v, k) ==
  /\ u = [node |-> u.node, root |-> r, size |-> k + 1]
  /\ Joined(u.node, h, r, Inserted(s, i, Owning!Fresh(m)))
  /\ NodesOf(r, Inserted(s, i, Owning!Fresh(m))) = NodesOf(r, s) \cup {Owning!Fresh(m)}
  /\ ValuesIn(u.node, Inserted(s, i, Owning!Fresh(m))) = Inserted(ValuesIn(m, s), i, v)
  /\ Owning!Fresh(m) \in Nat
  /\ Owning!Fresh(m) \notin DOMAIN m /\ Owning!Fresh(m) \notin DOMAIN node

LEMMA LinkJoins ==
  ASSUME NodeHeap(node), NEW m, NEW h, NEW r, NEW s, Joined(m, h, r, s),
         NEW i \in 0..Len(s), NEW v \in Values, NEW k
  PROVE  NodeLinked(Owning!LinkAfter([node |-> m, root |-> r, size |-> k], Nth(r, s, i), v),
                  m, h, r, s, i, v, k)
  <1> DEFINE n == Owning!Fresh(m)
             a == Nth(r, s, i)
             b == Nth(r, s, i + 1)
             e == [prev |-> a, next |-> b, value |-> v]
             l == Owning!With(m, n, e)
             g == [l EXCEPT ![b].prev = n, ![a].next = n]
             t == Inserted(s, i, n)
  <1>1. /\ NodeHeap(m) /\ NodeRing(m, r, s) /\ NodeHeap(h)
        /\ DOMAIN m = DOMAIN h \cup NodesOf(r, s) /\ DOMAIN h \cap NodesOf(r, s) = {}
        /\ \A c \in DOMAIN h : m[c] = h[c]
    BY DEF Joined
  <1>2. n \in Nat /\ n \notin DOMAIN m /\ n \notin DOMAIN node
    BY <1>1, FreshNode
  <1>3. /\ Len(s) \in Nat /\ s \in Seq(DOMAIN m) /\ r \in DOMAIN m
        /\ \A j : Nth(r, s, j) \in DOMAIN m /\ Nth(r, s, j) \in NodesOf(r, s)
        /\ \A j, o \in 0..Len(s) : Nth(r, s, j) = Nth(r, s, o) => j = o
        /\ \A j, o \in 1..(Len(s) + 1) : Nth(r, s, j) = Nth(r, s, o) => j = o
        /\ \A j \in 0..Len(s) : /\ m[Nth(r, s, j)].next = Nth(r, s, j + 1)
                                /\ m[Nth(r, s, j + 1)].prev = Nth(r, s, j)
    BY <1>1, RingNodes, SMTT(20)
  <1>4. Owning!LinkAfter([node |-> m, root |-> r, size |-> k], a, v)
          = [node |-> g, root |-> r, size |-> k + 1]
    <2>1. m[a].next = b
      BY <1>3
    <2> DEFINE q == [node |-> m, root |-> r, size |-> k]
    <2>2. q.node = m /\ q.root = r /\ q.size = k
      OBVIOUS
    <2> HIDE DEF q, a, b, n
    <2> QED BY <2>1, <2>2, Zenon DEF Owning!LinkAfter, n
  <1> HIDE DEF n
  <1>5. /\ a \in DOMAIN m /\ b \in DOMAIN m /\ a \in Nat /\ b \in Nat /\ e \in Entries
        /\ a \in NodesOf(r, s) /\ b \in NodesOf(r, s)
    <2>1. a \in DOMAIN m /\ b \in DOMAIN m /\ a \in NodesOf(r, s) /\ b \in NodesOf(r, s)
      BY <1>3
    <2>2. a \in Nat /\ b \in Nat
      BY <1>1, <2>1, HeapHas
    <2> HIDE DEF a, b
    <2> QED BY <2>1, <2>2 DEF Entries
  <1>6. /\ DOMAIN l = DOMAIN m \cup {n} /\ NodeHeap(l) /\ l[n] = e
        /\ \A c \in DOMAIN m : l[c] = m[c]
    <2>1. \A c \in DOMAIN m : c # n
      BY <1>2
    <2> HIDE DEF e
    <2>2. /\ DOMAIN l = DOMAIN m \cup {n} /\ NodeHeap(l) /\ l[n] = e
          /\ \A c \in DOMAIN m : c # n => l[c] = m[c]
      <3>1. NodeHeap(m) /\ n \in Nat /\ e \in Entries
        BY <1>1, <1>2, <1>5
      <3> QED BY <3>1, AddedNode, ZenonT(30)
    <2> HIDE DEF l
    <2> QED BY <2>1, <2>2
  <1>7. e.prev = a /\ e.next = b /\ e.value = v
    OBVIOUS
  <1> HIDE DEF l, e
  <1>8. /\ DOMAIN g = DOMAIN m \cup {n} /\ NodeHeap(g)
        /\ \A c \in DOMAIN l : /\ g[c].prev = IF c = b THEN n ELSE l[c].prev
                               /\ g[c].next = IF c = a THEN n ELSE l[c].next
                               /\ g[c].value = l[c].value
                               /\ c # b /\ c # a => g[c] = l[c]
    <2>1. l \in [DOMAIN l -> Entries] /\ IsFiniteSet(DOMAIN l) /\ DOMAIN l \subseteq Nat
      BY <1>6 DEF NodeHeap
    <2>2. a \in DOMAIN l /\ b \in DOMAIN l
      BY <1>5, <1>6
    <2> HIDE DEF a, b, g
    <2>3. /\ g \in [DOMAIN l -> Entries]
          /\ \A c \in DOMAIN l : /\ g[c].prev = IF c = b THEN n ELSE l[c].prev
                                 /\ g[c].next = IF c = a THEN n ELSE l[c].next
                                 /\ g[c].value = l[c].value
                                 /\ c # b /\ c # a => g[c] = l[c]
      <3>1. n \in Nat
        BY <1>2
      <3>2. g = Pointed(l, b, n, a, n)
        BY DEF g, Pointed
      <3> DEFINE D == DOMAIN l
      <3>3. l \in [D -> Entries] /\ a \in D /\ b \in D
        BY <2>1, <2>2
      <3> HIDE DEF D
      <3>4. PointersOf(g, D, l, b, n, a, n)
        BY <3>1, <3>2, <3>3, PointersSet, Zenon
      <3> QED BY <3>4 DEF D, PointersOf
    <2>4. DOMAIN g = DOMAIN l
      BY <2>3
    <2> QED BY <2>1, <2>3, <2>4, <1>6 DEF NodeHeap
  <1>9. /\ g[n].prev = a /\ g[n].next = b /\ g[n].value = v
        /\ \A c \in DOMAIN m : /\ g[c].prev = IF c = b THEN n ELSE m[c].prev
                               /\ g[c].next = IF c = a THEN n ELSE m[c].next
                               /\ g[c].value = m[c].value
                               /\ c # b /\ c # a => g[c] = m[c]
    <2>1. n # a /\ n # b
      BY <1>2, <1>5
    <2> HIDE DEF a, b, g
    <2> QED BY <1>6, <1>7, <1>8, <2>1
  <1> HIDE DEF g
  <1>10. /\ s \in Seq(DOMAIN g) /\ n \in DOMAIN g
    <2>1. DOMAIN m \subseteq DOMAIN g
      BY <1>8
    <2> QED BY <1>3, <1>8, <2>1, SeqDef
  <1>11. /\ t \in Seq(DOMAIN g) /\ Len(t) = Len(s) + 1
         /\ \A j \in 1..(Len(s) + 1) :
              t[j] = IF j <= i THEN s[j] ELSE IF j = i + 1 THEN n ELSE s[j - 1]
    BY <1>10, InsertedSeq
  <1>12. \A j \in 0..(Len(s) + 2) :
           Nth(r, t, j) = IF j <= i THEN Nth(r, s, j) ELSE IF j = i + 1 THEN n ELSE Nth(r, s, j - 1)
    BY <1>10, InsertedStops
  <1> HIDE DEF t
  <1>13. \A j \in 1..Len(s) : /\ s[j] \in DOMAIN m /\ s[j] # r /\ m[s[j]].value \in Values /\ s[j] # n
    BY <1>1, <1>2, <1>3, ElementOfSeq DEF NodeRing
  <1>14. \A j \in 1..Len(t) : t[j] # r /\ g[t[j]].value \in Values
    <2> SUFFICES ASSUME NEW j \in 1..Len(t) PROVE t[j] # r /\ g[t[j]].value \in Values
      OBVIOUS
    <2>1. CASE j = i + 1
      <3>1. t[j] = n /\ n # r
        BY <1>2, <1>3, <1>11, <2>1
      <3> QED BY <1>9, <3>1
    <2>2. CASE j # i + 1
      <3> DEFINE o == IF j <= i THEN j ELSE j - 1
      <3>1. o \in 1..Len(s) /\ t[j] = s[o]
        BY <1>3, <1>11, <2>2
      <3> HIDE DEF o
      <3>2. g[s[o]].value = m[s[o]].value
        BY <1>9, <1>13, <3>1
      <3> QED BY <1>13, <3>1, <3>2
    <2> QED BY <2>1, <2>2
  <1>15. ASSUME NEW j \in 1..Len(t), NEW o \in 1..Len(t), t[j] = t[o] PROVE j = o
    <2>1. \A x, y \in 1..Len(s) : s[x] = s[y] => x = y
      BY <1>1 DEF NodeRing
    <2> DEFINE u(x) == IF x <= i THEN x ELSE x - 1
    <2>2. ASSUME NEW x \in 1..Len(t), x # i + 1 PROVE u(x) \in 1..Len(s) /\ t[x] = s[u(x)]
      BY <1>3, <1>11, <2>2
    <2>3. t[i + 1] = n
      BY <1>3, <1>11
    <2>4. CASE j # i + 1 /\ o # i + 1
      <3>1. u(j) = u(o)
        <4>1. u(j) \in 1..Len(s) /\ u(o) \in 1..Len(s) /\ s[u(j)] = s[u(o)]
          BY <1>15, <2>2, <2>4
        <4> HIDE DEF u
        <4> QED BY <2>1, <4>1
      <3> QED BY <1>3, <1>11, <2>4, <3>1
    <2>5. CASE j = i + 1 /\ o # i + 1
      <3>1. t[o] = s[u(o)] /\ u(o) \in 1..Len(s) /\ t[j] = n
        BY <2>2, <2>3, <2>5
      <3> HIDE DEF u
      <3> QED BY <1>13, <1>15, <3>1
    <2>6. CASE j # i + 1 /\ o = i + 1
      <3>1. t[j] = s[u(j)] /\ u(j) \in 1..Len(s) /\ t[o] = n
        BY <2>2, <2>3, <2>6
      <3> HIDE DEF u
      <3> QED BY <1>13, <1>15, <3>1
    <2> QED BY <2>4, <2>5, <2>6
  <1>16. ASSUME NEW j \in 0..Len(t)
         PROVE  g[Nth(r, t, j)].next = Nth(r, t, j + 1) /\ g[Nth(r, t, j + 1)].prev = Nth(r, t, j)
    <2>0. j \in 0..(Len(s) + 2) /\ j + 1 \in 0..(Len(s) + 2)
      BY <1>3, <1>11
    <2>1. ASSUME NEW o \in 0..Len(s), o # i
          PROVE  g[Nth(r, s, o)].next = Nth(r, s, o + 1) /\ g[Nth(r, s, o + 1)].prev = Nth(r, s, o)
      <3>1. Nth(r, s, o) # a
        BY <1>3, <2>1
      <3>2. o + 1 \in 1..(Len(s) + 1) /\ i + 1 \in 1..(Len(s) + 1) /\ o + 1 # i + 1
        BY <1>3, <2>1
      <3>3. Nth(r, s, o + 1) # b
        BY <1>3, <3>2
      <3> QED BY <1>3, <1>9, <3>1, <3>3
    <2>2. CASE j < i
      <3>1. Nth(r, t, j) = Nth(r, s, j) /\ Nth(r, t, j + 1) = Nth(r, s, j + 1) /\ j \in 0..Len(s)
        BY <1>3, <1>12, <2>0, <2>2
      <3> QED BY <2>1, <2>2, <3>1
    <2>3. CASE j = i
      <3>1. Nth(r, t, j) = a /\ Nth(r, t, j + 1) = n
        BY <1>3, <1>12, <2>0, <2>3
      <3> QED BY <1>5, <1>9, <3>1
    <2>4. CASE j = i + 1
      <3>1. Nth(r, t, j) = n /\ Nth(r, t, j + 1) = b
        <4>1. j + 1 - 1 = i + 1
          BY <2>4
        <4> QED BY <1>3, <1>12, <2>0, <2>4, <4>1
      <3> QED BY <1>5, <1>9, <3>1
    <2>5. CASE j > i + 1
      <3>1. j - 1 \in 0..Len(s) /\ j - 1 # i /\ (j - 1) + 1 = j /\ (j + 1) - 1 = j
        BY <1>3, <1>11, <2>5
      <3>2. Nth(r, t, j) = Nth(r, s, j - 1) /\ Nth(r, t, j + 1) = Nth(r, s, j)
        <4>1. ~(j <= i) /\ j # i + 1 /\ ~(j + 1 <= i) /\ j + 1 # i + 1
          BY <2>5, <1>3
        <4> QED BY <1>12, <2>0, <4>1, <3>1
      <3> QED BY <2>1, <3>1, <3>2
    <2> QED BY <1>3, <2>0, <2>2, <2>3, <2>4, <2>5
  <1>17. NodeRing(g, r, t)
    <2>1. r \in DOMAIN g /\ g[r].value = Nil
      BY <1>1, <1>3, <1>8, <1>9 DEF NodeRing
    <2> QED BY <1>11, <1>14, <1>15, <1>16, <2>1 DEF NodeRing
  <1>18. NodesOf(r, t) = NodesOf(r, s) \cup {n}
    <2>1. ASSUME NEW c \in NodesOf(r, t) PROVE c \in NodesOf(r, s) \cup {n}
      <3>1. CASE c = r
        BY <3>1 DEF NodesOf
      <3>2. CASE c # r
        <4>1. PICK j \in 1..Len(t) : c = t[j]
          BY <2>1, <3>2 DEF NodesOf
        <4>2. CASE j = i + 1
          BY <1>3, <1>11, <4>1, <4>2
        <4>3. CASE j # i + 1
          <5> DEFINE o == IF j <= i THEN j ELSE j - 1
          <5>1. o \in 1..Len(s) /\ c = s[o]
            BY <1>3, <1>11, <4>1, <4>3
          <5> HIDE DEF o
          <5> QED BY <5>1 DEF NodesOf
        <4> QED BY <4>2, <4>3
      <3> QED BY <3>1, <3>2
    <2>2. n \in NodesOf(r, t)
      <3>1. i + 1 \in 1..Len(t) /\ t[i + 1] = n
        BY <1>3, <1>11
      <3> QED BY <3>1 DEF NodesOf
    <2>3. ASSUME NEW c \in NodesOf(r, s) PROVE c \in NodesOf(r, t)
      <3>1. CASE c = r
        BY <3>1 DEF NodesOf
      <3>2. CASE c # r
        <4>1. PICK j \in 1..Len(s) : c = s[j]
          BY <2>3, <3>2 DEF NodesOf
        <4> DEFINE o == IF j <= i THEN j ELSE j + 1
        <4>2. o \in 1..Len(t) /\ t[o] = c
          BY <1>3, <1>11, <4>1
        <4> HIDE DEF o
        <4> QED BY <4>2 DEF NodesOf
      <3> QED BY <3>1, <3>2
    <2> QED BY <2>1, <2>2, <2>3
  <1>19. Joined(g, h, r, t)
    <2>1. DOMAIN g = DOMAIN h \cup NodesOf(r, t) /\ DOMAIN h \cap NodesOf(r, t) = {}
      BY <1>1, <1>2, <1>8, <1>18
    <2>2. ASSUME NEW c \in DOMAIN h PROVE g[c] = h[c]
      <3>1. c \in DOMAIN m /\ c # a /\ c # b
        BY <1>1, <1>5
      <3> QED BY <1>1, <1>9, <3>1
    <2> QED BY <1>1, <1>8, <1>17, <2>1, <2>2 DEF Joined
  <1>20. ValuesIn(g, t) = Inserted(ValuesIn(m, s), i, v)
    <2>1. Len(ValuesIn(m, s)) = Len(s)
      BY <1>3 DEF ValuesIn
    <2>2. ASSUME NEW j \in 1..(Len(s) + 1)
          PROVE  g[t[j]].value
                   = IF j <= i THEN m[s[j]].value ELSE IF j = i + 1 THEN v ELSE m[s[j - 1]].value
      <3>1. CASE j <= i
        <4>1. j \in 1..Len(s) /\ t[j] = s[j]
          BY <1>3, <1>11, <3>1
        <4> QED BY <1>9, <1>13, <3>1, <4>1
      <3>2. CASE j = i + 1
        <4>1. t[j] = n /\ ~(j <= i)
          BY <1>3, <1>11, <3>2
        <4> QED BY <1>9, <3>2, <4>1
      <3>3. CASE j > i + 1
        <4>1. j - 1 \in 1..Len(s) /\ t[j] = s[j - 1] /\ ~(j <= i) /\ j # i + 1
          BY <1>3, <1>11, <3>3
        <4> QED BY <1>9, <1>13, <4>1
      <3> QED BY <1>3, <3>1, <3>2, <3>3
    <2>3. \A j \in 1..Len(s) : ValuesIn(m, s)[j] = m[s[j]].value
      BY DEF ValuesIn
    <2>4. ASSUME NEW j \in 1..(Len(s) + 1)
          PROVE  g[t[j]].value
                   = IF j <= i THEN ValuesIn(m, s)[j] ELSE IF j = i + 1 THEN v ELSE ValuesIn(m, s)[j - 1]
      <3>1. CASE j <= i
        BY <1>3, <2>2, <2>3, <3>1
      <3>2. CASE j = i + 1
        BY <1>3, <2>2, <3>2
      <3>3. CASE j > i + 1
        <4>1. j - 1 \in 1..Len(s) /\ ~(j <= i) /\ j # i + 1
          BY <1>3, <3>3
        <4> QED BY <2>2, <2>3, <4>1
      <3> QED BY <1>3, <3>1, <3>2, <3>3
    <2> QED BY <1>11, <2>1, <2>4 DEF ValuesIn, Inserted
  <1> QED BY <1>2, <1>4, <1>18, <1>19, <1>20 DEF n, t, NodeLinked

LEMMA UnlinkJoins ==
  ASSUME NEW m, NEW h, NEW r, NEW s, Joined(m, h, r, s), NEW i \in 1..Len(s), NEW k
  PROVE  LET u == Owning!Unlink([node |-> m, root |-> r, size |-> k], s[i])
         IN  /\ u = [node |-> u.node, root |-> r, size |-> k - 1]
             /\ Joined(u.node, h, r, Removed(s, i))
             /\ NodesOf(r, Removed(s, i)) = NodesOf(r, s) \ {s[i]}
             /\ ValuesIn(u.node, Removed(s, i)) = Removed(ValuesIn(m, s), i)
  <1> DEFINE n == s[i]
             p == Nth(r, s, i - 1)
             q == Nth(r, s, i + 1)
             l == [m EXCEPT ![p].next = q, ![q].prev = p]
             g == Owning!Restrict(l, DOMAIN l \ {n})
             t == Removed(s, i)
  <1>1. /\ NodeHeap(m) /\ NodeRing(m, r, s) /\ NodeHeap(h)
        /\ DOMAIN m = DOMAIN h \cup NodesOf(r, s) /\ DOMAIN h \cap NodesOf(r, s) = {}
        /\ \A c \in DOMAIN h : m[c] = h[c]
    BY DEF Joined
  <1>2. /\ Len(s) \in Nat /\ s \in Seq(DOMAIN m) /\ r \in DOMAIN m
        /\ \A j : Nth(r, s, j) \in DOMAIN m /\ Nth(r, s, j) \in NodesOf(r, s)
        /\ \A j, o \in 0..Len(s) : Nth(r, s, j) = Nth(r, s, o) => j = o
        /\ \A j, o \in 1..(Len(s) + 1) : Nth(r, s, j) = Nth(r, s, o) => j = o
        /\ \A j \in 0..Len(s) : /\ m[Nth(r, s, j)].next = Nth(r, s, j + 1)
                                /\ m[Nth(r, s, j + 1)].prev = Nth(r, s, j)
    BY <1>1, RingNodes, SMTT(20)
  <1>3. n = Nth(r, s, i) /\ i - 1 \in 0..Len(s) /\ i \in 0..Len(s) /\ i + 1 \in 1..(Len(s) + 1)
        /\ i \in 1..(Len(s) + 1) /\ i - 1 # i /\ i + 1 # i /\ (i - 1) + 1 = i
    BY <1>2 DEF Nth
  <1>4. m[n].prev = p /\ m[n].next = q
    BY <1>2, <1>3
  <1>5. n # p /\ n # q
    BY <1>2, <1>3
  <1>6. Owning!Unlink([node |-> m, root |-> r, size |-> k], n)
          = [node |-> g, root |-> r, size |-> k - 1]
    <2> DEFINE w == [node |-> m, root |-> r, size |-> k]
    <2>1. w.node = m /\ w.root = r /\ w.size = k
      OBVIOUS
    <2> HIDE DEF w, p, q, n
    <2>2. Owning!Unlink(w, n)
            = [node |-> Owning!Restrict([w.node EXCEPT ![w.node[n].prev].next = w.node[n].next,
                                                ![w.node[n].next].prev = w.node[n].prev],
                                 DOMAIN [w.node EXCEPT ![w.node[n].prev].next = w.node[n].next,
                                                       ![w.node[n].next].prev = w.node[n].prev] \ {n}),
               root |-> w.root, size |-> w.size - 1]
      BY Zenon DEF Owning!Unlink
    <2>3. w.node[n].prev = p /\ w.node[n].next = q
      BY <1>4, <2>1
    <2>4. Owning!Unlink(w, n) = [node |-> g, root |-> r, size |-> k - 1]
      BY <2>1, <2>2, <2>3, Zenon
    <2> QED BY <2>4 DEF w
  <1>7. /\ p \in DOMAIN m /\ q \in DOMAIN m /\ p \in Nat /\ q \in Nat
        /\ p \in NodesOf(r, s) /\ q \in NodesOf(r, s) /\ n \in DOMAIN m /\ n \in NodesOf(r, s)
    <2>1. /\ p \in DOMAIN m /\ q \in DOMAIN m /\ p \in NodesOf(r, s) /\ q \in NodesOf(r, s)
          /\ n \in DOMAIN m /\ n \in NodesOf(r, s)
      BY <1>2, <1>3
    <2>2. p \in Nat /\ q \in Nat
      BY <1>1, <2>1, HeapHas
    <2> QED BY <2>1, <2>2
  <1> HIDE DEF n, p, q
  <1>8. /\ DOMAIN l = DOMAIN m /\ l \in [DOMAIN m -> Entries]
        /\ \A c \in DOMAIN m : /\ l[c].prev = IF c = q THEN p ELSE m[c].prev
                               /\ l[c].next = IF c = p THEN q ELSE m[c].next
                               /\ l[c].value = m[c].value
                               /\ c # q /\ c # p => l[c] = m[c]
    <2> DEFINE D == DOMAIN m
               z == Pointed(m, q, p, p, q)
    <2>1. m \in [D -> Entries] /\ p \in D /\ q \in D
      BY <1>1, <1>7 DEF NodeHeap
    <2> HIDE DEF D, z, l
    <2>2. NextPointed(m, p, q, q, p) = z /\ PointersOf(z, D, m, q, p, p, q)
      <3>1. p \in Nat /\ q \in Nat
        BY <1>7
      <3> QED BY <2>1, <3>1, PointersSet, Zenon DEF z
    <2>3. l = z
      BY <2>2 DEF l, NextPointed
    <2>4. DOMAIN z = D
      BY <2>2 DEF PointersOf
    <2> QED BY <2>2, <2>3, <2>4 DEF D, PointersOf
  <1> HIDE DEF l
  <1>9. DOMAIN g = DOMAIN m \ {n} /\ \A c \in DOMAIN m \ {n} : g[c] = l[c]
    BY <1>8 DEF Owning!Restrict
  <1>10. NodeHeap(g)
    <2>1. IsFiniteSet(DOMAIN m \ {n}) /\ DOMAIN m \ {n} \subseteq Nat
      BY <1>1, FS_RemoveElement DEF NodeHeap
    <2>2. g \in [DOMAIN m \ {n} -> Entries]
      BY <1>8 DEF Owning!Restrict
    <2> HIDE DEF g
    <2> QED BY <1>9, <2>1, <2>2 DEF NodeHeap
  <1> HIDE DEF g
  <1>11. \A c \in DOMAIN m \ {n} : /\ g[c].prev = IF c = q THEN p ELSE m[c].prev
                                   /\ g[c].next = IF c = p THEN q ELSE m[c].next
                                   /\ g[c].value = m[c].value
                                   /\ c # q /\ c # p => g[c] = m[c]
    BY <1>8, <1>9
  <1>12. \A j \in 1..Len(s) : /\ s[j] = Nth(r, s, j) /\ s[j] \in DOMAIN m
                              /\ s[j] # r /\ m[s[j]].value \in Values
                              /\ j # i => s[j] # n
    BY <1>1, <1>2, <1>3, ElementOfSeq DEF NodeRing, Nth
  <1>13. /\ t \in Seq(DOMAIN m) /\ Len(t) = Len(s) - 1
         /\ \A j \in 1..(Len(s) - 1) : t[j] = IF j < i THEN s[j] ELSE s[j + 1]
    BY <1>2, RemovedSeq
  <1>14. \A j \in 0..Len(s) : Nth(r, t, j) = IF j < i THEN Nth(r, s, j) ELSE Nth(r, s, j + 1)
    BY <1>2, RemovedStops
  <1> HIDE DEF t
  <1> DEFINE o(j) == IF j < i THEN j ELSE j + 1
  <1>15. \A j \in 1..Len(t) : /\ t[j] = s[o(j)] /\ o(j) \in 1..Len(s) /\ o(j) # i
    BY <1>2, <1>13
  <1>16. t \in Seq(DOMAIN g)
    <2>1. \A j \in 1..Len(t) : t[j] \in DOMAIN g
      <3> HIDE DEF o
      <3> QED BY <1>9, <1>12, <1>15
    <2> QED BY <1>13, <2>1, SeqDef
  <1>17. r \in DOMAIN g /\ g[r].value = Nil
    <2>1. r # n
      BY <1>2, <1>12 DEF n
    <2> QED BY <1>1, <1>2, <1>9, <1>11, <2>1 DEF NodeRing
  <1>18. \A j \in 1..Len(t) : t[j] # r /\ g[t[j]].value = m[s[o(j)]].value /\ g[t[j]].value \in Values
    <2> HIDE DEF o
    <2> QED BY <1>11, <1>12, <1>15
  <1>19. ASSUME NEW j \in 1..Len(t), NEW x \in 1..Len(t), t[j] = t[x] PROVE j = x
    <2>1. \A y, z \in 1..Len(s) : s[y] = s[z] => y = z
      BY <1>1 DEF NodeRing
    <2>2. o(j) = o(x)
      <3>1. o(j) \in 1..Len(s) /\ o(x) \in 1..Len(s) /\ s[o(j)] = s[o(x)]
        BY <1>15, <1>19
      <3> HIDE DEF o
      <3> QED BY <2>1, <3>1
    <2> QED BY <1>2, <1>13, <2>2
  <1>20. ASSUME NEW j \in 0..Len(t)
         PROVE  g[Nth(r, t, j)].next = Nth(r, t, j + 1) /\ g[Nth(r, t, j + 1)].prev = Nth(r, t, j)
    <2>0. j \in 0..Len(s) /\ j + 1 \in 0..Len(s)
      BY <1>2, <1>13
    <2>1. ASSUME NEW x \in 0..Len(s), x # i, x + 1 # i
          PROVE  /\ g[Nth(r, s, x)].next = Nth(r, s, x + 1)
                 /\ g[Nth(r, s, x + 1)].prev = Nth(r, s, x)
      <3>1. Nth(r, s, x) # n /\ Nth(r, s, x) # p
        <4>1. x # i - 1
          BY <2>1
        <4> QED BY <1>2, <1>3, <2>1, <4>1 DEF p
      <3>2. x + 1 \in 1..(Len(s) + 1) /\ x + 1 # i /\ x + 1 # i + 1
        BY <1>2, <2>1
      <3>3. Nth(r, s, x + 1) # q /\ Nth(r, s, x + 1) # n
        BY <1>2, <1>3, <3>2 DEF q
      <3> QED BY <1>2, <1>11, <3>1, <3>3
    <2>2. CASE j < i - 1
      <3>1. Nth(r, t, j) = Nth(r, s, j) /\ Nth(r, t, j + 1) = Nth(r, s, j + 1) /\ j # i /\ j + 1 # i
        BY <1>2, <1>14, <2>0, <2>2
      <3> QED BY <2>0, <2>1, <3>1
    <2>3. CASE j = i - 1
      <3>1. Nth(r, t, j) = p /\ Nth(r, t, j + 1) = q
        <4>1. j < i /\ ~(j + 1 < i) /\ j + 1 + 1 = i + 1
          BY <2>3
        <4> QED BY <1>14, <2>0, <2>3, <4>1 DEF p, q
      <3> QED BY <1>5, <1>7, <1>11, <3>1
    <2>4. CASE j > i - 1
      <3>1. ~(j < i) /\ ~(j + 1 < i) /\ j + 1 # i /\ j + 1 + 1 # i
        BY <2>0, <2>4
      <3>2. Nth(r, t, j) = Nth(r, s, j + 1) /\ Nth(r, t, j + 1) = Nth(r, s, j + 1 + 1)
        BY <1>14, <2>0, <3>1
      <3> QED BY <2>0, <2>1, <3>1, <3>2
    <2> QED BY <2>0, <2>2, <2>3, <2>4
  <1>21. NodeRing(g, r, t)
    BY <1>16, <1>17, <1>18, <1>19, <1>20 DEF NodeRing
  <1>22. NodesOf(r, t) = NodesOf(r, s) \ {n}
    <2>1. ASSUME NEW c \in NodesOf(r, t) PROVE c \in NodesOf(r, s) \ {n}
      <3>1. CASE c = r
        BY <1>9, <1>17, <3>1 DEF NodesOf
      <3>2. CASE c # r
        <4>1. PICK j \in 1..Len(t) : c = t[j]
          BY <2>1, <3>2 DEF NodesOf
        <4>2. c = s[o(j)] /\ o(j) \in 1..Len(s) /\ o(j) # i
          BY <1>15, <4>1
        <4> HIDE DEF o
        <4> QED BY <1>12, <4>2 DEF NodesOf
      <3> QED BY <3>1, <3>2
    <2>2. ASSUME NEW c \in NodesOf(r, s), c # n PROVE c \in NodesOf(r, t)
      <3>1. CASE c = r
        BY <3>1 DEF NodesOf
      <3>2. CASE c # r
        <4>1. PICK j \in 1..Len(s) : c = s[j]
          BY <2>2, <3>2 DEF NodesOf
        <4> DEFINE x == IF j < i THEN j ELSE j - 1
        <4>2. j # i
          BY <2>2, <4>1 DEF n
        <4>3. x \in 1..Len(t) /\ t[x] = c
          BY <1>2, <1>13, <4>1, <4>2
        <4> HIDE DEF x
        <4> QED BY <4>3 DEF NodesOf
      <3> QED BY <3>1, <3>2
    <2> QED BY <2>1, <2>2
  <1>23. Joined(g, h, r, t)
    <2>1. DOMAIN g = DOMAIN h \cup NodesOf(r, t) /\ DOMAIN h \cap NodesOf(r, t) = {}
      BY <1>1, <1>7, <1>9, <1>22
    <2>2. ASSUME NEW c \in DOMAIN h PROVE g[c] = h[c]
      <3>1. c \in DOMAIN m /\ c # p /\ c # q /\ c # n
        BY <1>1, <1>7
      <3> QED BY <1>1, <1>11, <3>1
    <2> QED BY <1>1, <1>10, <1>21, <2>1, <2>2 DEF Joined
  <1>24. ValuesIn(g, t) = Removed(ValuesIn(m, s), i)
    <2>1. Len(ValuesIn(m, s)) = Len(s)
      BY <1>2 DEF ValuesIn
    <2>2. \A j \in 1..Len(s) : ValuesIn(m, s)[j] = m[s[j]].value
      BY DEF ValuesIn
    <2>3. \A j \in 1..(Len(s) - 1) :
            g[t[j]].value = IF j < i THEN ValuesIn(m, s)[j] ELSE ValuesIn(m, s)[j + 1]
      <3> SUFFICES ASSUME NEW j \in 1..(Len(s) - 1)
                   PROVE  g[t[j]].value = IF j < i THEN ValuesIn(m, s)[j] ELSE ValuesIn(m, s)[j + 1]
        OBVIOUS
      <3>1. g[t[j]].value = ValuesIn(m, s)[o(j)]
        <4>1. j \in 1..Len(t)
          BY <1>13
        <4>2. o(j) \in 1..Len(s) /\ g[t[j]].value = m[s[o(j)]].value
          BY <1>15, <1>18, <4>1
        <4> HIDE DEF o
        <4> QED BY <2>2, <4>2
      <3> QED BY <3>1
    <2> QED BY <1>13, <2>1, <2>3 DEF ValuesIn, Removed
  <1> QED BY <1>6, <1>22, <1>23, <1>24 DEF n, t

-----------------------------------------------------------------------------
(* The loops of ~List() and of the copy constructor *)
NodePops(q, n) ==
  CHOOSE f : f = [k \in 0..n |-> IF k = 0 THEN q ELSE Owning!PoppedBack(f[k - 1])]

LEMMA NodePopsExist ==
  ASSUME NEW q, NEW n \in Nat
  PROVE  NodePops(q, n)
           = [k \in 0..n |-> IF k = 0 THEN q ELSE Owning!PoppedBack(NodePops(q, n)[k - 1])]
  <1> DEFINE Is(f, z) == f = [k \in 0..z |-> IF k = 0 THEN q ELSE Owning!PoppedBack(f[k - 1])]
             T == {z \in Nat : \E f : Is(f, z)}
  <1>1. 0 \in T
    <2> DEFINE f == [k \in 0..0 |-> q]
    <2>1. Is(f, 0)
      <3>1. \A k \in 0..0 : k = 0
        OBVIOUS
      <3> QED BY <3>1
    <2> QED BY <2>1
  <1>2. ASSUME NEW z \in Nat, z \in T PROVE z + 1 \in T
    <2>1. PICK f : Is(f, z)
      BY <1>2
    <2> DEFINE g == [k \in 0..(z + 1) |-> IF k = z + 1 THEN Owning!PoppedBack(f[z]) ELSE f[k]]
    <2>2. ASSUME NEW k \in 0..(z + 1)
          PROVE  g[k] = IF k = 0 THEN q ELSE Owning!PoppedBack(g[k - 1])
      <3>1. CASE k = 0
        <4>1. g[k] = f[0] /\ 0 \in 0..z
          BY <3>1
        <4>2. f[0] = q
          BY <2>1, <4>1
        <4> QED BY <3>1, <4>1, <4>2
      <3>2. CASE k # 0 /\ k # z + 1
        <4>1. k \in 0..z /\ k - 1 \in 0..(z + 1) /\ k - 1 # z + 1 /\ k # 0
          BY <3>2
        <4>2. g[k] = f[k] /\ g[k - 1] = f[k - 1]
          BY <3>2, <4>1
        <4>3. f[k] = Owning!PoppedBack(f[k - 1])
          BY <2>1, <4>1
        <4> QED BY <4>1, <4>2, <4>3
      <3>3. CASE k = z + 1
        <4>1. /\ g[k] = Owning!PoppedBack(f[z]) /\ z \in 0..(z + 1) /\ z # z + 1
              /\ k - 1 = z /\ k # 0
          BY <3>3
        <4>2. g[k - 1] = f[z]
          BY <4>1
        <4> QED BY <4>1, <4>2
      <3> QED BY <3>1, <3>2, <3>3
    <2>3. g = [k \in 0..(z + 1) |-> g[k]]
      OBVIOUS
    <2> HIDE DEF g
    <2>4. [k \in 0..(z + 1) |-> g[k]]
            = [k \in 0..(z + 1) |-> IF k = 0 THEN q ELSE Owning!PoppedBack(g[k - 1])]
      BY <2>2
    <2>5. Is(g, z + 1)
      BY <2>3, <2>4
    <2> HIDE DEF Is
    <2> QED BY <2>5
  <1>3. n \in T
    <2> HIDE DEF T
    <2> QED BY <1>1, <1>2, SetInduction
  <1>4. \E f : f = [k \in 0..n |-> IF k = 0 THEN q ELSE Owning!PoppedBack(f[k - 1])]
    BY <1>3
  <1> QED BY <1>4 DEF NodePops

LEMMA DestroyedIs ==
  ASSUME NEW m, NEW h, NEW r, NEW s, Joined(m, h, r, s)
  PROVE  Owning!Destroyed([node |-> m, root |-> r, size |-> Len(s)]) = h
  <1> DEFINE q == [node |-> m, root |-> r, size |-> Len(s)]
             f == NodePops(q, Len(s))
             Remains(M, t, k) == /\ f[k] = [node |-> M, root |-> r, size |-> Len(s) - k]
                              /\ Joined(M, h, r, t) /\ Len(t) = Len(s) - k
             T == {k \in Nat : k <= Len(s) => \E M, t : Remains(M, t, k)}
  <1>1. q.node = m /\ q.root = r /\ q.size = Len(s)
    OBVIOUS
  <1>2. Len(s) \in Nat
    BY RingNodes DEF Joined
  <1> HIDE DEF q
  <1>3. f = [k \in 0..Len(s) |-> IF k = 0 THEN q ELSE Owning!PoppedBack(f[k - 1])]
    BY <1>2, NodePopsExist
  <1>4. Owning!Destroyed(q) = Owning!Restrict(f[Len(s)].node, DOMAIN f[Len(s)].node \ {r})
    <2>1. Owning!Destroyed(q) = Owning!Restrict(NodePops(q, q.size)[q.size].node,
                                                DOMAIN NodePops(q, q.size)[q.size].node \ {q.root})
      BY DEF Owning!Destroyed, NodePops
    <2> QED BY <1>1, <2>1
  <1> HIDE DEF f
  <1>5. 0 \in T
    <2>1. 0 \in 0..Len(s)
      BY <1>2
    <2>2. f[0] = q
      BY <1>3, <2>1
    <2>3. Remains(m, s, 0)
      BY <1>2, <2>2 DEF q
    <2> HIDE DEF Remains
    <2> QED BY <2>3
  <1>6. ASSUME NEW k \in Nat, k \in T PROVE k + 1 \in T
    <2>1. SUFFICES ASSUME k + 1 <= Len(s) PROVE \E M, t : Remains(M, t, k + 1)
      BY DEF T
    <2>2. PICK M, t : Remains(M, t, k)
      <3> HIDE DEF Remains
      <3> QED BY <1>2, <1>6, <2>1
    <2>3. f[k + 1] = Owning!PoppedBack(f[k])
      <3>1. k + 1 \in 0..Len(s) /\ k + 1 # 0 /\ k + 1 - 1 = k
        BY <1>2, <2>1
      <3> QED BY <1>3, <3>1
    <2> DEFINE o == Len(t)
               z == [node |-> M, root |-> r, size |-> Len(s) - k]
               u == Owning!Unlink(z, t[o])
    <2>4. Joined(M, h, r, t) /\ o = Len(s) - k /\ o \in 1..Len(t) /\ f[k] = z
      BY <1>2, <2>1, <2>2
    <2>5. z.node = M /\ z.root = r /\ M[r].prev = t[o]
      <3>1. NodeRing(M, r, t)
        BY <2>4 DEF Joined
      <3>2. M[Nth(r, t, o + 1)].prev = Nth(r, t, o)
        BY <2>4, <3>1, RingNodes
      <3>3. Nth(r, t, o + 1) = r /\ Nth(r, t, o) = t[o]
        BY <2>4 DEF Nth
      <3> QED BY <3>2, <3>3
    <2>6. f[k + 1] = u
      <3>1. Owning!PoppedBack(z) = Owning!Unlink(z, z.node[z.root].prev)
        BY DEF Owning!PoppedBack
      <3> HIDE DEF z
      <3> QED BY <2>3, <2>4, <2>5, <3>1
    <2> HIDE DEF u, o
    <2>7. /\ u = [node |-> u.node, root |-> r, size |-> Len(s) - k - 1]
          /\ Joined(u.node, h, r, Removed(t, o))
      <3>1. LET y == Owning!Unlink([node |-> M, root |-> r, size |-> Len(s) - k], t[o])
            IN  /\ y = [node |-> y.node, root |-> r, size |-> Len(s) - k - 1]
                /\ Joined(y.node, h, r, Removed(t, o))
        BY <2>4, UnlinkJoins
      <3> QED BY <3>1 DEF u
    <2>8. Len(Removed(t, o)) = Len(s) - (k + 1) /\ Len(s) - k - 1 = Len(s) - (k + 1)
      <3>1. t \in Seq(DOMAIN M)
        BY <2>4 DEF Joined, NodeRing
      <3>2. Len(Removed(t, o)) = Len(t) - 1
        BY <2>4, <3>1, RemovedSeq
      <3> QED BY <1>2, <2>2, <3>2
    <2>9. Remains(u.node, Removed(t, o), k + 1)
      BY <2>6, <2>7, <2>8
    <2> HIDE DEF Remains
    <2> QED BY <2>9
  <1>7. Len(s) \in T
    <2> HIDE DEF T
    <2> QED BY <1>2, <1>5, <1>6, SetInduction
  <1>8. PICK M, t : Remains(M, t, Len(s))
    <2> HIDE DEF Remains
    <2> QED BY <1>2, <1>7
  <1>9. f[Len(s)].node = M
    BY <1>8
  <1>10. /\ DOMAIN M = DOMAIN h \cup {r} /\ r \notin DOMAIN h
         /\ \A a \in DOMAIN h : M[a] = h[a]
    <2>1. Joined(M, h, r, t) /\ Len(t) = 0
      BY <1>2, <1>8
    <2>2. NodesOf(r, t) = {r}
      BY <2>1 DEF NodesOf
    <2> QED BY <2>1, <2>2 DEF Joined
  <1>11. h = [a \in DOMAIN h |-> h[a]]
    BY DEF Joined, NodeHeap
  <1>12. Owning!Restrict(M, DOMAIN M \ {r}) = h
    <2>1. DOMAIN M \ {r} = DOMAIN h
      BY <1>10
    <2>2. Owning!Restrict(M, DOMAIN h) = [a \in DOMAIN h |-> M[a]]
      BY DEF Owning!Restrict
    <2>3. [a \in DOMAIN h |-> M[a]] = [a \in DOMAIN h |-> h[a]]
      BY <1>10
    <2> QED BY <1>11, <2>1, <2>2, <2>3, Zenon
  <1> QED BY <1>4, <1>9, <1>12 DEF q

NodePushes(q, n) ==
  CHOOSE f : f = [k \in 0..n |-> IF k = 0 THEN Owning!New(node) ELSE Owning!PushedBack(f[k - 1], q[k])]

LEMMA NodePushesExist ==
  ASSUME NEW q, NEW n \in Nat
  PROVE  NodePushes(q, n)
           = [k \in 0..n |-> IF k = 0 THEN Owning!New(node) ELSE Owning!PushedBack(NodePushes(q, n)[k - 1], q[k])]
  <1> DEFINE Is(f, z) == f = [k \in 0..z |-> IF k = 0 THEN Owning!New(node) ELSE Owning!PushedBack(f[k - 1], q[k])]
             T == {z \in Nat : \E f : Is(f, z)}
  <1>1. 0 \in T
    <2> DEFINE f == [k \in 0..0 |-> Owning!New(node)]
    <2>1. Is(f, 0)
      <3>1. \A k \in 0..0 : k = 0
        OBVIOUS
      <3> QED BY <3>1
    <2> QED BY <2>1
  <1>2. ASSUME NEW z \in Nat, z \in T PROVE z + 1 \in T
    <2>1. PICK f : Is(f, z)
      BY <1>2
    <2> DEFINE g == [k \in 0..(z + 1) |-> IF k = z + 1 THEN Owning!PushedBack(f[z], q[z + 1]) ELSE f[k]]
    <2>2. ASSUME NEW k \in 0..(z + 1)
          PROVE  g[k] = IF k = 0 THEN Owning!New(node) ELSE Owning!PushedBack(g[k - 1], q[k])
      <3>1. CASE k = 0
        <4>1. g[k] = f[0] /\ 0 \in 0..z
          BY <3>1
        <4>2. f[0] = Owning!New(node)
          BY <2>1, <4>1
        <4> QED BY <3>1, <4>1, <4>2
      <3>2. CASE k # 0 /\ k # z + 1
        <4>1. k \in 0..z /\ k - 1 \in 0..(z + 1) /\ k - 1 # z + 1 /\ k # 0
          BY <3>2
        <4>2. g[k] = f[k] /\ g[k - 1] = f[k - 1]
          BY <3>2, <4>1
        <4>3. f[k] = Owning!PushedBack(f[k - 1], q[k])
          BY <2>1, <4>1
        <4> QED BY <4>1, <4>2, <4>3
      <3>3. CASE k = z + 1
        <4>1. /\ g[k] = Owning!PushedBack(f[z], q[z + 1]) /\ z \in 0..(z + 1) /\ z # z + 1
              /\ k - 1 = z /\ k # 0
          BY <3>3
        <4>2. g[k - 1] = f[z]
          BY <4>1
        <4> QED BY <4>1, <4>2
      <3> QED BY <3>1, <3>2, <3>3
    <2>3. g = [k \in 0..(z + 1) |-> g[k]]
      OBVIOUS
    <2> HIDE DEF g
    <2>4. [k \in 0..(z + 1) |-> g[k]]
            = [k \in 0..(z + 1) |-> IF k = 0 THEN Owning!New(node) ELSE Owning!PushedBack(g[k - 1], q[k])]
      BY <2>2
    <2>5. Is(g, z + 1)
      BY <2>3, <2>4
    <2> HIDE DEF Is
    <2> QED BY <2>5
  <1>3. n \in T
    <2> HIDE DEF T
    <2> QED BY <1>1, <1>2, SetInduction
  <1>4. \E f : f = [k \in 0..n |-> IF k = 0 THEN Owning!New(node) ELSE Owning!PushedBack(f[k - 1], q[k])]
    BY <1>3
  <1> QED BY <1>4 DEF NodePushes

FilledWith(u, s, q) ==
  /\ u = [node |-> u.node, root |-> u.root, size |-> Len(q)]
  /\ Joined(u.node, node, u.root, s)
  /\ ValuesIn(u.node, s) = q

LEMMA FilledIs ==
  ASSUME NodeHeap(node), NEW q \in Seq(Values)
  PROVE  \E s : FilledWith(Owning!Filled(q), s, q)
  <1> DEFINE f == NodePushes(q, Len(q))
             Filling(M, r, s, k) ==
               /\ f[k] = [node |-> M, root |-> r, size |-> k]
               /\ Joined(M, node, r, s) /\ ValuesIn(M, s) = [j \in 1..k |-> q[j]]
             T == {k \in Nat : k <= Len(q) => \E M, r, s : Filling(M, r, s, k)}
  <1>1. Len(q) \in Nat /\ \A k \in 1..Len(q) : q[k] \in Values
    BY LenProperties, ElementOfSeq
  <1>2. f = [k \in 0..Len(q) |-> IF k = 0 THEN Owning!New(node)
                                 ELSE Owning!PushedBack(f[k - 1], q[k])]
    BY <1>1, NodePushesExist
  <1>3. Owning!Filled(q) = f[Len(q)]
    BY DEF Owning!Filled, NodePushes
  <1> HIDE DEF f
  <1>4. 0 \in T
    <2> DEFINE t == Owning!New(node)
    <2>1. f[0] = t
      <3>1. 0 \in 0..Len(q)
        BY <1>1
      <3> QED BY <1>2, <3>1
    <2>2. t = [node |-> t.node, root |-> t.root, size |-> 0] /\ Joined(t.node, node, t.root, << >>)
      BY NewJoins
    <2>3. ValuesIn(t.node, << >>) = [j \in 1..0 |-> q[j]]
      <3>1. Len(<< >>) = 0
        OBVIOUS
      <3>2. \A j \in 1..0 : FALSE
        OBVIOUS
      <3>3. [j \in 1..0 |-> t.node[<< >>[j]].value] = [j \in 1..0 |-> q[j]]
        BY <3>2
      <3> HIDE DEF t
      <3> QED BY <3>1, <3>3 DEF ValuesIn
    <2> HIDE DEF t
    <2>4. Filling(t.node, t.root, << >>, 0)
      BY <2>1, <2>2, <2>3
    <2> HIDE DEF Filling
    <2> QED BY <2>4
  <1>5. ASSUME NEW k \in Nat, k \in T PROVE k + 1 \in T
    <2>1. SUFFICES ASSUME k + 1 <= Len(q) PROVE \E M, r, s : Filling(M, r, s, k + 1)
      <3> HIDE DEF Filling
      <3> QED BY DEF T
    <2>2. PICK M, r, s : Filling(M, r, s, k)
      <3> HIDE DEF Filling
      <3> QED BY <1>1, <1>5, <2>1
    <2> DEFINE v == q[k + 1]
               z == [node |-> M, root |-> r, size |-> k]
               u == Owning!LinkAfter(z, Nth(r, s, Len(s)), v)
               n == Owning!Fresh(M)
    <2>3. f[k + 1] = Owning!PushedBack(f[k], v)
      <3>1. k + 1 \in 0..Len(q) /\ k + 1 # 0 /\ k + 1 - 1 = k
        BY <1>1, <2>1
      <3> QED BY <1>2, <3>1
    <2>4. Joined(M, node, r, s) /\ f[k] = z /\ v \in Values /\ ValuesIn(M, s) = [j \in 1..k |-> q[j]]
      BY <1>1, <2>1, <2>2
    <2>5. NodeRing(M, r, s) /\ Len(s) \in Nat /\ Len(s) \in 0..Len(s)
      BY <2>4, RingNodes DEF Joined
    <2>6. M[r].prev = Nth(r, s, Len(s))
      <3>1. Nth(r, s, Len(s) + 1) = r
        BY <2>5 DEF Nth
      <3> QED BY <2>5, <3>1, RingNodes
    <2>7. f[k + 1] = u
      <3>1. Owning!PushedBack(z, v) = Owning!LinkAfter(z, z.node[z.root].prev, v)
        BY DEF Owning!PushedBack
      <3>2. z.node = M /\ z.root = r
        OBVIOUS
      <3> HIDE DEF z, v
      <3> QED BY <2>3, <2>4, <2>6, <3>1, <3>2
    <2>8. /\ u = [node |-> u.node, root |-> r, size |-> k + 1]
          /\ Joined(u.node, node, r, Inserted(s, Len(s), n))
          /\ ValuesIn(u.node, Inserted(s, Len(s), n)) = Inserted(ValuesIn(M, s), Len(s), v)
      <3>1. Joined(M, node, r, s) /\ Len(s) \in 0..Len(s) /\ v \in Values
        BY <2>4, <2>5
      <3>2. NodeLinked(u, M, node, r, s, Len(s), v, k)
        <4> HIDE DEF v, Filling
        <4> QED BY <3>1, LinkJoins, Zenon
      <3> QED BY <3>2 DEF NodeLinked
    <2>9. Inserted(ValuesIn(M, s), Len(s), v) = [j \in 1..(k + 1) |-> q[j]]
      <3>1. Len(s) = k
        <4>1. ValuesIn(M, s) = [j \in 1..Len(s) |-> M[s[j]].value]
          BY DEF ValuesIn
        <4>2. DOMAIN ValuesIn(M, s) = 1..Len(s) /\ DOMAIN ValuesIn(M, s) = 1..k
          BY <4>1, <2>4
        <4> QED BY <2>5, <4>2
      <3> DEFINE w == ValuesIn(M, s)
      <3>2. Len(w) = k
        BY <2>4
      <3>3. w = [j \in 1..k |-> q[j]]
        BY <2>4
      <3> HIDE DEF w
      <3>4. Inserted(w, k, v) = [j \in 1..(k + 1) |-> IF j <= k THEN w[j] ELSE IF j = k + 1 THEN v
                                                     ELSE w[j - 1]]
        BY <3>2 DEF Inserted
      <3>5. \A j \in 1..(k + 1) : (IF j <= k THEN w[j] ELSE IF j = k + 1 THEN v ELSE w[j - 1]) = q[j]
        BY <3>3
      <3>6. Inserted(w, k, v) = [j \in 1..(k + 1) |-> q[j]]
        BY <3>4, <3>5
      <3> QED BY <3>1, <3>6 DEF w
    <2> HIDE DEF u, v, n
    <2>10. Filling(u.node, r, Inserted(s, Len(s), n), k + 1)
      BY <2>7, <2>8, <2>9
    <2> HIDE DEF Filling
    <2> QED BY <2>10
  <1>6. Len(q) \in T
    <2> HIDE DEF T
    <2> QED BY <1>1, <1>4, <1>5, SetInduction
  <1>7. PICK M, r, s : Filling(M, r, s, Len(q))
    <2> HIDE DEF Filling
    <2> QED BY <1>1, <1>6
  <1>8. q = [j \in 1..Len(q) |-> q[j]]
    BY SeqDef
  <1> DEFINE u == Owning!Filled(q)
  <1>9. u = [node |-> M, root |-> r, size |-> Len(q)]
    BY <1>3, <1>7
  <1>10. u.node = M /\ u.root = r
    BY <1>9
  <1> HIDE DEF u
  <1>11. FilledWith(u, s, q)
    <2>1. Joined(M, node, r, s) /\ ValuesIn(M, s) = q
      BY <1>7, <1>8
    <2> QED BY <1>9, <1>10, <2>1 DEF FilledWith
  <1> QED BY <1>11 DEF u

-----------------------------------------------------------------------------
(* The walk over a ring *)
NodeWalk(m, r) ==
  LET After == [a \in DOMAIN m |-> IF a = r THEN a ELSE m[a].next]
      at[n \in 1..MaxSize + 1] == IF n = 1 THEN m[r].next ELSE After[at[n - 1]]
  IN  at

NodeLength(m, r) == Cardinality({n \in 1..MaxSize + 1 : NodeWalk(m, r)[n] # r})

NodesFrom(m, r) == [n \in 1..NodeLength(m, r) |-> NodeWalk(m, r)[n]]

ValuesFrom(m, r) == [n \in 1..NodeLength(m, r) |-> m[NodeWalk(m, r)[n]].value]

LEMMA NodeWalkIs ==
  ASSUME NEW m, NEW r, NEW s, NodeRing(m, r, s), Len(s) <= MaxSize
  PROVE  /\ DOMAIN NodeWalk(m, r) = 1..MaxSize + 1
         /\ \A n \in 1..MaxSize + 1 : NodeWalk(m, r)[n] = Nth(r, s, n)
  <1> DEFINE After == [a \in DOMAIN m |-> IF a = r THEN a ELSE m[a].next]
             Is(f) == f = [n \in 1..MaxSize + 1 |-> IF n = 1 THEN m[r].next ELSE After[f[n - 1]]]
             w == [n \in 1..MaxSize + 1 |-> Nth(r, s, n)]
             v == NodeWalk(m, r)
  <1>1. /\ MaxSize \in Nat /\ Len(s) \in Nat /\ \A i : Nth(r, s, i) \in DOMAIN m
        /\ \A i \in 0..Len(s) : m[Nth(r, s, i)].next = Nth(r, s, i + 1)
        /\ \A i \in 1..Len(s) : s[i] # r
    BY ListBounds, RingNodes, ZenonT(30) DEF Owning!BoundsAssumption, NodeRing
  <1>2. m[r].next = Nth(r, s, 1)
    <2>1. m[Nth(r, s, 0)].next = Nth(r, s, 0 + 1) /\ Nth(r, s, 0) = r
      BY <1>1 DEF Nth
    <2> QED BY <2>1
  <1>3. ASSUME NEW n \in Nat, n # 0 PROVE After[Nth(r, s, n)] = Nth(r, s, n + 1)
    <2>1. CASE n \in 1..Len(s)
      <3>1. Nth(r, s, n) # r /\ n \in 0..Len(s)
        BY <1>1, <2>1 DEF Nth
      <3> QED BY <1>1, <3>1
    <2>2. CASE n \notin 1..Len(s)
      <3>1. Nth(r, s, n) = r /\ Nth(r, s, n + 1) = r
        BY <1>1, <1>3, <2>2 DEF Nth
      <3> QED BY <1>1, <3>1
    <2> QED BY <2>1, <2>2
  <1> HIDE DEF After
  <1>4. Is(w)
    <2>1. ASSUME NEW n \in 1..MaxSize + 1
          PROVE  w[n] = IF n = 1 THEN m[r].next ELSE After[w[n - 1]]
      <3>1. CASE n = 1
        BY <1>2, <3>1
      <3>2. CASE n # 1
        <4>1. n - 1 \in 1..MaxSize + 1 /\ n - 1 + 1 = n /\ n - 1 \in Nat /\ n - 1 # 0
          BY <1>1, <3>2
        <4>2. w[n - 1] = Nth(r, s, n - 1) /\ w[n] = Nth(r, s, n)
          BY <4>1
        <4> HIDE DEF w
        <4>3. After[Nth(r, s, n - 1)] = Nth(r, s, n - 1 + 1)
          BY <1>3, <4>1
        <4> QED BY <3>2, <4>1, <4>2, <4>3
      <3> QED BY <3>1, <3>2
    <2>2. w = [n \in 1..MaxSize + 1 |-> w[n]]
      OBVIOUS
    <2> HIDE DEF w
    <2>3. [n \in 1..MaxSize + 1 |-> w[n]]
            = [n \in 1..MaxSize + 1 |-> IF n = 1 THEN m[r].next ELSE After[w[n - 1]]]
      BY <2>1
    <2> QED BY <2>2, <2>3
  <1>5. Is(v)
    <2>1. \E f : Is(f)
      <3> HIDE DEF Is, w
      <3> QED BY <1>4
    <2>2. v = CHOOSE f : Is(f)
      BY DEF NodeWalk, After
    <2> HIDE DEF Is, v
    <2> QED BY <2>1, <2>2
  <1> HIDE DEF v
  <1>6. DOMAIN v = 1..MaxSize + 1
    BY <1>5
  <1>7. ASSUME NEW n \in 1..MaxSize + 1 PROVE v[n] = Nth(r, s, n)
    <2> DEFINE T == {k \in Nat : k + 1 \in 1..MaxSize + 1 => v[k + 1] = Nth(r, s, k + 1)}
    <2>1. 0 \in T
      BY <1>1, <1>2, <1>5
    <2>2. ASSUME NEW k \in Nat, k \in T PROVE k + 1 \in T
      <3>1. CASE k + 1 + 1 \in 1..MaxSize + 1
        <4>1. k + 1 \in 1..MaxSize + 1 /\ k + 1 + 1 # 1 /\ k + 1 + 1 - 1 = k + 1
          BY <1>1, <3>1
        <4>2. v[k + 1 + 1] = After[v[k + 1]]
          BY <1>5, <3>1, <4>1
        <4>3. v[k + 1] = Nth(r, s, k + 1)
          BY <2>2, <4>1
        <4>4. After[Nth(r, s, k + 1)] = Nth(r, s, k + 1 + 1)
          BY <1>3
        <4> QED BY <4>2, <4>3, <4>4
      <3>2. CASE k + 1 + 1 \notin 1..MaxSize + 1
        BY <3>2
      <3> QED BY <3>1, <3>2
    <2>3. n - 1 \in Nat /\ n - 1 + 1 = n
      BY <1>1
    <2> HIDE DEF T
    <2>4. n - 1 \in T
      BY <2>1, <2>2, <2>3, SetInduction
    <2> QED BY <2>3, <2>4 DEF T
  <1> QED BY <1>6, <1>7 DEF v

LEMMA NodesAre ==
  ASSUME NEW m, NEW r, NEW s, NodeRing(m, r, s), Len(s) <= MaxSize
  PROVE  NodeLength(m, r) = Len(s) /\ NodesFrom(m, r) = s /\ ValuesFrom(m, r) = ValuesIn(m, s)
  <1> DEFINE w == NodeWalk(m, r)
  <1>1. /\ MaxSize \in Nat /\ Len(s) \in Nat /\ s \in Seq(DOMAIN m)
        /\ \A i \in 1..Len(s) : s[i] # r
    BY ListBounds, RingNodes DEF Owning!BoundsAssumption, NodeRing
  <1>2. \A n \in 1..MaxSize + 1 : w[n] = Nth(r, s, n)
    BY NodeWalkIs
  <1> HIDE DEF w
  <1>3. {n \in 1..MaxSize + 1 : w[n] # r} = 1..Len(s)
    BY <1>1, <1>2 DEF Nth
  <1>4. NodeLength(m, r) = Len(s)
    <2> DEFINE z == Len(s)
    <2>1. z \in Int /\ (IF 1 > z THEN 0 ELSE z - 1 + 1) = z
      BY <1>1
    <2> HIDE DEF z
    <2>2. Cardinality(1..z) = z
      BY <2>1, FS_Interval
    <2> QED BY <1>3, <2>2 DEF NodeLength, w, z
  <1>5. \A i \in 1..Len(s) : w[i] = s[i]
    BY <1>1, <1>2 DEF Nth
  <1>6. s = [i \in 1..Len(s) |-> s[i]]
    BY <1>1, SeqDef
  <1>7. [i \in 1..Len(s) |-> w[i]] = [i \in 1..Len(s) |-> s[i]]
    BY <1>5
  <1>8. [i \in 1..Len(s) |-> m[w[i]].value] = [i \in 1..Len(s) |-> m[s[i]].value]
    BY <1>5
  <1> QED BY <1>4, <1>6, <1>7, <1>8 DEF NodesFrom, ValuesFrom, ValuesIn, w

LEMMA SameCardinality == \A S : Owning!Cardinality(S) = Cardinality(S)
  BY Zenon DEF Owning!Cardinality, Cardinality

LEMMA WalkedIs ==
  ASSUME NEW l
  PROVE  /\ Owning!Walk(l) = NodeWalk(node, list[l].root)
         /\ Owning!Length(l) = NodeLength(node, list[l].root)
         /\ Owning!Nodes(l) = NodesFrom(node, list[l].root)
         /\ Owning!Contents(l) = ValuesFrom(node, list[l].root)
  <1>1. Owning!Walk(l) = NodeWalk(node, list[l].root)
    BY DEF Owning!Walk, NodeWalk
  <1>2. Owning!Length(l) = NodeLength(node, list[l].root)
    BY <1>1, SameCardinality DEF Owning!Length, NodeLength
  <1> QED BY <1>1, <1>2 DEF Owning!Nodes, Owning!Contents, NodesFrom, ValuesFrom

LEMMA WalkedNext ==
  ASSUME NEW l
  PROVE  /\ Owning!Walk(l)' = NodeWalk(node', list'[l].root)
         /\ Owning!Contents(l)' = ValuesFrom(node', list'[l].root)
  <1>1. Owning!Walk(l)' = NodeWalk(node', list'[l].root)
    BY DEF Owning!Walk, NodeWalk
  <1>2. Owning!Length(l)' = NodeLength(node', list'[l].root)
    BY <1>1, SameCardinality DEF Owning!Length, NodeLength
  <1> QED BY <1>1, <1>2 DEF Owning!Contents, ValuesFrom

-----------------------------------------------------------------------------
(* The rings of the lists K, with the headers q, make up the heap m. *)
RingIn(m, q, C, l) == NodeRing(m, q[l].root, C[l])

ListRing(q, C, l) == NodesOf(q[l].root, C[l])

HeapOf(m, K, q, C) ==
  /\ NodeHeap(m)
  /\ \A l \in K : /\ q[l] = [root |-> q[l].root, size |-> Len(C[l])]
                  /\ RingIn(m, q, C, l) /\ Len(C[l]) <= MaxSize
  /\ DOMAIN m = UNION {ListRing(q, C, l) : l \in K}
  /\ \A j, l \in K : j # l => ListRing(q, C, j) \cap ListRing(q, C, l) = {}

Alike(K, q, C, p, D) == \A k \in K : p[k] = q[k] /\ D[k] = C[k]

Places(p, D, l, r, s) ==
  p[l] = [root |-> r, size |-> Len(s)] /\ D[l] = s /\ Len(s) <= MaxSize

LEMMA HeapSame ==
  ASSUME NEW m, NEW K, NEW q, NEW C, HeapOf(m, K, q, C), NEW p, NEW D,
         Alike(K, q, C, p, D)
  PROVE  HeapOf(m, K, p, D)
  <1>0. \A l \in K : p[l] = q[l] /\ D[l] = C[l]
    BY DEF Alike
  <1>1. \A l \in K : ListRing(p, D, l) = ListRing(q, C, l) /\ (RingIn(m, p, D, l) <=> RingIn(m, q, C, l))
    BY <1>0 DEF ListRing, RingIn
  <1>2. UNION {ListRing(p, D, l) : l \in K} = UNION {ListRing(q, C, l) : l \in K}
    BY <1>1
  <1> QED BY <1>0, <1>1, <1>2 DEF HeapOf

(* The heap without the ring of l *)
ApartFrom(h, m, K, q, C, l) ==
  /\ HeapOf(h, K \ {l}, q, C)
  /\ Joined(m, h, q[l].root, C[l])
  /\ DOMAIN h = DOMAIN m \ ListRing(q, C, l)

LEMMA RingApart ==
  ASSUME NEW m, NEW K, NEW q, NEW C, HeapOf(m, K, q, C), NEW l \in K
  PROVE  \E h : ApartFrom(h, m, K, q, C, l)
  <1> DEFINE A == DOMAIN m \ ListRing(q, C, l)
             h == [a \in A |-> m[a]]
  <1>1. /\ NodeHeap(m)
        /\ DOMAIN m = UNION {ListRing(q, C, k) : k \in K}
        /\ \A j, k \in K : j # k => ListRing(q, C, j) \cap ListRing(q, C, k) = {}
        /\ \A k \in K : /\ q[k] = [root |-> q[k].root, size |-> Len(C[k])]
                        /\ NodeRing(m, q[k].root, C[k]) /\ Len(C[k]) <= MaxSize
    BY DEF HeapOf, RingIn
  <1>2. DOMAIN h = A /\ \A a \in A : h[a] = m[a]
    OBVIOUS
  <1>3. NodeHeap(h)
    <2>1. IsFiniteSet(A) /\ A \subseteq Nat
      BY <1>1, FS_Subset DEF NodeHeap
    <2>2. h \in [A -> Entries]
      BY <1>1 DEF NodeHeap
    <2> HIDE DEF h
    <2> QED BY <1>2, <2>1, <2>2 DEF NodeHeap
  <1> HIDE DEF h
  <1>4. ListRing(q, C, l) \subseteq DOMAIN m
    BY <1>1, RingNodes DEF ListRing
  <1>5. Joined(m, h, q[l].root, C[l])
    <2>1. DOMAIN m = DOMAIN h \cup ListRing(q, C, l) /\ DOMAIN h \cap ListRing(q, C, l) = {}
      BY <1>2, <1>4
    <2> QED BY <1>1, <1>2, <1>3, <2>1 DEF Joined, ListRing
  <1>6. ASSUME NEW k \in K \ {l} PROVE RingIn(h, q, C, k) /\ ListRing(q, C, k) \subseteq A
    <2>1. ListRing(q, C, k) \subseteq A
      BY <1>1
    <2>2. \A a \in NodesOf(q[k].root, C[k]) : a \in DOMAIN h /\ h[a] = m[a]
      BY <1>2, <2>1 DEF ListRing
    <2> QED BY <1>1, <2>1, <2>2, RingElsewhere DEF RingIn
  <1>7. A = UNION {ListRing(q, C, k) : k \in K \ {l}}
    BY <1>1, <1>6
  <1>8. HeapOf(h, K \ {l}, q, C)
    BY <1>1, <1>2, <1>3, <1>6, <1>7 DEF HeapOf
  <1>9. ApartFrom(h, m, K, q, C, l)
    BY <1>2, <1>5, <1>8 DEF ApartFrom
  <1> QED BY <1>9

(* One ring more *)
LEMMA RingAdded ==
  ASSUME NEW h, NEW K, NEW q, NEW C, HeapOf(h, K, q, C), NEW l, l \notin K,
         NEW m, NEW r, NEW s, Joined(m, h, r, s),
         NEW p, NEW D, Alike(K, q, C, p, D), Places(p, D, l, r, s)
  PROVE  HeapOf(m, K \cup {l}, p, D)
  <1>1. /\ NodeHeap(m) /\ NodeRing(m, r, s)
        /\ DOMAIN m = DOMAIN h \cup NodesOf(r, s) /\ DOMAIN h \cap NodesOf(r, s) = {}
        /\ \A a \in DOMAIN h : m[a] = h[a]
    BY DEF Joined
  <1>2. HeapOf(h, K, p, D)
    BY HeapSame
  <1>3. p[l].root = r /\ ListRing(p, D, l) = NodesOf(r, s) /\ RingIn(m, p, D, l)
    BY <1>1 DEF ListRing, RingIn, Places
  <1>4. ASSUME NEW k \in K PROVE RingIn(m, p, D, k) /\ ListRing(p, D, k) \subseteq DOMAIN h
    <2>1. NodeRing(h, p[k].root, D[k]) /\ ListRing(p, D, k) \subseteq DOMAIN h
      BY <1>2 DEF HeapOf, RingIn
    <2>2. \A a \in NodesOf(p[k].root, D[k]) : a \in DOMAIN m /\ m[a] = h[a]
      BY <1>1, <2>1 DEF ListRing
    <2> QED BY <2>1, <2>2, RingElsewhere DEF RingIn
  <1>5. DOMAIN m = UNION {ListRing(p, D, k) : k \in K \cup {l}}
    <2>1. DOMAIN h = UNION {ListRing(p, D, k) : k \in K}
      BY <1>2 DEF HeapOf
    <2>2. \A a : a \in DOMAIN h <=> \E k \in K : a \in ListRing(p, D, k)
      BY <2>1
    <2>3. \A a : a \in DOMAIN m <=> \E k \in K \cup {l} : a \in ListRing(p, D, k)
      BY <1>1, <1>3, <2>2
    <2> QED BY <2>3
  <1>6. \A j, k \in K \cup {l} : j # k => ListRing(p, D, j) \cap ListRing(p, D, k) = {}
    <2>1. \A j, k \in K : j # k => ListRing(p, D, j) \cap ListRing(p, D, k) = {}
      BY <1>2 DEF HeapOf
    <2> QED BY <1>1, <1>3, <1>4, <2>1
  <1>7. \A k \in K \cup {l} : /\ p[k] = [root |-> p[k].root, size |-> Len(D[k])]
                              /\ RingIn(m, p, D, k) /\ Len(D[k]) <= MaxSize
    <2>1. \A k \in K : p[k] = [root |-> p[k].root, size |-> Len(D[k])] /\ Len(D[k]) <= MaxSize
      BY <1>2 DEF HeapOf
    <2> QED BY <1>3, <1>4, <2>1 DEF Places
  <1> QED BY <1>1, <1>5, <1>6, <1>7 DEF HeapOf

(* Two rings come off in the other order too. *)
LEMMA RingsCommute ==
  ASSUME NEW m, NEW h, NEW r, NEW s, Joined(m, h, r, s),
         NEW g, NEW x, NEW t, Joined(g, m, x, t)
  PROVE  \E f : Joined(f, h, x, t) /\ Joined(g, f, r, s)
  <1> DEFINE A == DOMAIN g \ NodesOf(r, s)
             f == [a \in A |-> g[a]]
  <1>1. /\ NodeHeap(m) /\ NodeRing(m, r, s) /\ NodeHeap(h)
        /\ DOMAIN m = DOMAIN h \cup NodesOf(r, s) /\ DOMAIN h \cap NodesOf(r, s) = {}
        /\ \A a \in DOMAIN h : m[a] = h[a]
        /\ NodeHeap(g) /\ NodeRing(g, x, t)
        /\ DOMAIN g = DOMAIN m \cup NodesOf(x, t) /\ DOMAIN m \cap NodesOf(x, t) = {}
        /\ \A a \in DOMAIN m : g[a] = m[a]
    BY DEF Joined
  <1>2. DOMAIN f = A /\ \A a \in A : f[a] = g[a]
    OBVIOUS
  <1>3. NodeHeap(f)
    <2>1. IsFiniteSet(A) /\ A \subseteq Nat
      BY <1>1, FS_Subset DEF NodeHeap
    <2>2. f \in [A -> Entries]
      BY <1>1 DEF NodeHeap
    <2> HIDE DEF f
    <2> QED BY <1>2, <2>1, <2>2 DEF NodeHeap
  <1> HIDE DEF f
  <1>4. DOMAIN f = DOMAIN h \cup NodesOf(x, t) /\ DOMAIN h \cap NodesOf(x, t) = {}
    BY <1>1, <1>2
  <1>5. Joined(f, h, x, t)
    <2>1. \A a \in NodesOf(x, t) : a \in DOMAIN f /\ f[a] = g[a]
      BY <1>2, <1>4
    <2>2. NodeRing(f, x, t)
      BY <1>1, <2>1, RingElsewhere
    <2>3. \A a \in DOMAIN h : f[a] = h[a]
      BY <1>1, <1>2, <1>4
    <2> QED BY <1>1, <1>3, <1>4, <2>2, <2>3 DEF Joined
  <1>6. Joined(g, f, r, s)
    <2>1. \A a \in NodesOf(r, s) : a \in DOMAIN g /\ g[a] = m[a]
      BY <1>1
    <2>2. NodeRing(g, r, s)
      BY <1>1, <2>1, RingElsewhere
    <2>3. DOMAIN g = DOMAIN f \cup NodesOf(r, s) /\ DOMAIN f \cap NodesOf(r, s) = {}
      BY <1>2, <2>1
    <2> QED BY <1>1, <1>2, <1>3, <2>2, <2>3 DEF Joined
  <1> QED BY <1>5, <1>6

-----------------------------------------------------------------------------
(* The nodes of the lists, before and after a step *)
NodesHold(C) ==
  /\ list \in [Objects -> Owning!Headers \cup {NoObject, Unusable}]
  /\ nodeIt \in DOMAIN node \cup {Nil}
  /\ HeapOf(node, Owning!Constructed, list, C)

NodesHoldNext(D) ==
  /\ list' \in [Objects -> Owning!Headers \cup {NoObject, Unusable}]
  /\ nodeIt' \in DOMAIN node' \cup {Nil}
  /\ HeapOf(node', Owning!Constructed', list', D)

NodesInv == \E C : NodesHold(C)

(* A step leaves the lists that are not in L alone. *)
Untouched(C, D, L) ==
  /\ \A k \in Objects \ L : list'[k] = list[k]
  /\ \A k \in Owning!Constructed \ L :
       /\ k \in Owning!Constructed' /\ D[k] = C[k]
       /\ \A a \in ListRing(list, C, k) : a \in DOMAIN node' /\ node'[a] = node[a]

PartOfNode(h) == \A a \in DOMAIN h : a \in DOMAIN node /\ h[a] = node[a]

LEMMA HeaderIs ==
  ASSUME NEW r \in Nat, NEW n \in Nat
  PROVE  /\ [root |-> r, size |-> n] \in Owning!Headers
         /\ [root |-> r, size |-> n] \notin {NoObject, Unusable}
  <1>1. [root |-> r, size |-> n] \in Owning!Headers
    BY DEF Owning!Headers
  <1>2. NoObject \notin Owning!Headers /\ Unusable \notin Owning!Headers
    BY ListNames DEF Owning!NamesAssumption
  <1> QED BY <1>1, <1>2

LEMMA LiveLists ==
  ASSUME list \in [Objects -> Owning!Headers \cup {NoObject, Unusable}],
         NEW l \in Objects, NEW e \in Owning!Headers \cup {NoObject, Unusable},
         list' = [list EXCEPT ![l] = e]
  PROVE  /\ list' \in [Objects -> Owning!Headers \cup {NoObject, Unusable}]
         /\ e \notin {NoObject, Unusable} => Owning!Constructed' = Owning!Constructed \cup {l}
         /\ e \in {NoObject, Unusable} => Owning!Constructed' = Owning!Constructed \ {l}
         /\ list'[l] = e /\ \A k \in Objects : k # l => list'[k] = list[k]
  BY DEF Owning!Constructed

LEMMA RootNumber ==
  ASSUME NEW m, NEW r, NEW s, NodeHeap(m), NodeRing(m, r, s)
  PROVE  r \in Nat /\ Len(s) \in Nat
  BY RingNodes DEF NodeHeap

RingGiven(C, D, l, r, s) ==
  /\ NodesHoldNext(D) /\ Untouched(C, D, {l}) /\ D[l] = s
  /\ Owning!Constructed' = Owning!Constructed \cup {l}
  /\ list'[l] = [root |-> r, size |-> Len(s)]

(* l gets the ring s with the root r, beside what h has of the other lists. *)
LEMMA RingPlaced ==
  ASSUME NEW C, NodesHold(C), NEW l \in Objects,
         NEW h, HeapOf(h, Owning!Constructed \ {l}, list, C),
         PartOfNode(h),
         NEW r, NEW s, Joined(node', h, r, s), Len(s) <= MaxSize,
         list' = [list EXCEPT ![l] = [root |-> r, size |-> Len(s)]],
         nodeIt' \in DOMAIN node' \cup {Nil}
  PROVE  \E D : RingGiven(C, D, l, r, s)
  <1> DEFINE K == Owning!Constructed
             D == [k \in Objects |-> IF k = l THEN s ELSE C[k]]
             e == [root |-> r, size |-> Len(s)]
  <1>1. K \subseteq Objects
    BY DEF Owning!Constructed
  <1>2. r \in Nat /\ Len(s) \in Nat
    BY RootNumber DEF Joined
  <1>3. e \in Owning!Headers /\ e \notin {NoObject, Unusable}
    BY <1>2, HeaderIs
  <1> HIDE DEF e
  <1>4. /\ list' \in [Objects -> Owning!Headers \cup {NoObject, Unusable}]
        /\ Owning!Constructed' = K \cup {l}
        /\ list'[l] = e /\ \A k \in Objects : k # l => list'[k] = list[k]
    <2>1. list' = [list EXCEPT ![l] = e]
      BY DEF e
    <2>2. list \in [Objects -> Owning!Headers \cup {NoObject, Unusable}]
      BY DEF NodesHold
    <2> QED BY <1>3, <2>1, <2>2, LiveLists
  <1> HIDE DEF K
  <1>5. D[l] = s /\ \A k \in K \ {l} : list'[k] = list[k] /\ D[k] = C[k]
    BY <1>1, <1>4
  <1> HIDE DEF D
  <1>6. HeapOf(node', K \cup {l}, list', D)
    <2>1. HeapOf(h, K \ {l}, list, C) /\ l \notin K \ {l} /\ (K \ {l}) \cup {l} = K \cup {l}
      BY DEF K
    <2>2. Places(list', D, l, r, s) /\ Alike(K \ {l}, list, C, list', D)
      BY <1>4, <1>5 DEF e, Places, Alike
    <2>3. HeapOf(node', (K \ {l}) \cup {l}, list', D)
      BY <2>1, <2>2, RingAdded, Zenon
    <2> QED BY <2>1, <2>3
  <1>7. Untouched(C, D, {l})
    <2> SUFFICES ASSUME NEW k \in K \ {l}
                 PROVE  /\ k \in Owning!Constructed' /\ D[k] = C[k]
                        /\ \A a \in ListRing(list, C, k) : a \in DOMAIN node' /\ node'[a] = node[a]
      BY <1>4 DEF Untouched, K
    <2>1. ListRing(list, C, k) \subseteq DOMAIN h
      BY DEF HeapOf, K
    <2>2. \A a \in DOMAIN h : a \in DOMAIN node' /\ node'[a] = h[a]
      BY DEF Joined
    <2> QED BY <1>4, <1>5, <2>1, <2>2 DEF PartOfNode
  <1>8. NodesHoldNext(D)
    BY <1>4, <1>6 DEF NodesHoldNext
  <1> QED BY <1>4, <1>5, <1>7, <1>8 DEF K, e, RingGiven

(* l has no ring any more. *)
LEMMA RingTaken ==
  ASSUME NEW C, NodesHold(C), NEW l \in Objects,
         HeapOf(node', Owning!Constructed \ {l}, list, C),
         PartOfNode(node'),
         NEW e \in {NoObject, Unusable}, list' = [list EXCEPT ![l] = e],
         nodeIt' \in DOMAIN node' \cup {Nil}
  PROVE  /\ NodesHoldNext(C) /\ Untouched(C, C, {l})
         /\ Owning!Constructed' = Owning!Constructed \ {l} /\ list'[l] = e
  <1> DEFINE K == Owning!Constructed
  <1>1. K \subseteq Objects
    BY DEF Owning!Constructed
  <1>2. /\ list' \in [Objects -> Owning!Headers \cup {NoObject, Unusable}]
        /\ Owning!Constructed' = K \ {l}
        /\ list'[l] = e /\ \A k \in Objects : k # l => list'[k] = list[k]
    <2>1. list \in [Objects -> Owning!Headers \cup {NoObject, Unusable}]
      BY DEF NodesHold
    <2>2. e \in Owning!Headers \cup {NoObject, Unusable}
      OBVIOUS
    <2> QED BY <2>1, <2>2, LiveLists
  <1>3. HeapOf(node', K \ {l}, list', C)
    <2>1. Alike(K \ {l}, list, C, list', C)
      BY <1>1, <1>2 DEF Alike
    <2> QED BY <2>1, HeapSame
  <1>4. Untouched(C, C, {l})
    <2> SUFFICES ASSUME NEW k \in K \ {l}
                 PROVE  /\ k \in Owning!Constructed' /\ C[k] = C[k]
                        /\ \A a \in ListRing(list, C, k) : a \in DOMAIN node' /\ node'[a] = node[a]
      BY <1>2 DEF Untouched
    <2>1. ListRing(list, C, k) \subseteq DOMAIN node'
      BY DEF HeapOf
    <2> QED BY <1>1, <1>2, <2>1 DEF PartOfNode
  <1> QED BY <1>2, <1>3, <1>4 DEF NodesHoldNext

RingPassed(C, D, l, other, h) ==
  /\ NodesHoldNext(D) /\ Untouched(C, D, {l, other})
  /\ D[l] = C[other] /\ list'[l] = list[other] /\ D[other] = << >>
  /\ Owning!Constructed' = Owning!Constructed \cup {l}
  /\ \A a \in ListRing(list, C, other) : a \in DOMAIN node' /\ node'[a] = node[a]
  /\ DOMAIN node' \cap DOMAIN node = DOMAIN h

(* The ring of other becomes the ring of l, and other gets one of its own. *)
LEMMA RingMoved ==
  ASSUME NEW C, NodesHold(C), NEW l \in Objects, NEW other \in Owning!Constructed, l # other,
         NEW h, HeapOf(h, Owning!Constructed \ {l}, list, C),
         PartOfNode(h),
         node' = Owning!New(h).node,
         list' = [list EXCEPT ![l] = list[other], ![other] = Owning!Header(Owning!New(h))],
         nodeIt' \in DOMAIN node' \cup {Nil}
  PROVE  \E D : RingPassed(C, D, l, other, h)
  <1> DEFINE K == Owning!Constructed
             D == [k \in Objects |-> IF k = l THEN C[other] ELSE IF k = other THEN << >> ELSE C[k]]
             u == Owning!New(h)
             e == [root |-> u.root, size |-> 0]
             J == (K \ {l}) \ {other}
  <1>1. K \subseteq Objects /\ other \in K /\ other \in K \ {l} /\ other \in Objects
    BY DEF Owning!Constructed
  <1>2. /\ HeapOf(node, K, list, C)
        /\ list \in [Objects -> Owning!Headers \cup {NoObject, Unusable}]
    BY DEF NodesHold
  <1>3. /\ u = [node |-> u.node, root |-> u.root, size |-> 0]
        /\ Joined(u.node, h, u.root, << >>)
        /\ u.root \in Nat /\ u.root \notin DOMAIN h /\ u.root \notin DOMAIN node
    <2>1. NodeHeap(h) /\ NodeHeap(node)
      BY <1>2 DEF HeapOf
    <2> QED BY <2>1, NewJoins
  <1>4. Owning!Header(u) = e
    <2> HIDE DEF u, e
    <2>1. u.size = 0
      BY <1>3
    <2>2. Owning!Header(u) = [root |-> u.root, size |-> u.size]
      BY DEF Owning!Header
    <2> QED BY <2>1, <2>2 DEF e
  <1> HIDE DEF u
  <1>5. e \in Owning!Headers /\ e \notin {NoObject, Unusable}
    BY <1>3, HeaderIs
  <1> HIDE DEF e
  <1>6. list' = [list EXCEPT ![l] = list[other], ![other] = e]
    BY <1>4 DEF u
  <1>7. list[other] \in Owning!Headers /\ list[other] \notin {NoObject, Unusable}
    BY <1>2 DEF Owning!Constructed
  <1>8. /\ list'[l] = list[other] /\ list'[other] = e
        /\ \A k \in Objects : k # l /\ k # other => list'[k] = list[k]
        /\ list' \in [Objects -> Owning!Headers \cup {NoObject, Unusable}]
    BY <1>1, <1>2, <1>5, <1>6, <1>7
  <1>9. Owning!Constructed' = K \cup {l}
    BY <1>1, <1>5, <1>7, <1>8 DEF Owning!Constructed
  <1>10. D[l] = C[other] /\ D[other] = << >> /\ \A k \in J : D[k] = C[k]
    BY <1>1
  <1> HIDE DEF D
  <1>11. \A k \in J : list'[k] = list[k]
    BY <1>1, <1>8
  <1>12. PICK g : HeapOf(g, J, list, C) /\ Joined(h, g, list[other].root, C[other])
    <2>1. HeapOf(h, K \ {l}, list, C) /\ other \in K \ {l}
      BY <1>1
    <2>2. \E g : ApartFrom(g, h, K \ {l}, list, C, other)
      BY <2>1, RingApart
    <2> QED BY <2>2 DEF ApartFrom
  <1>13. HeapOf(h, J \cup {l}, list', D)
    <2>1. list'[l] = [root |-> list[other].root, size |-> Len(C[other])] /\ Len(C[other]) <= MaxSize
      BY <1>1, <1>2, <1>8 DEF HeapOf
    <2>2. l \notin J
      OBVIOUS
    <2>3. Places(list', D, l, list[other].root, C[other]) /\ Alike(J, list, C, list', D)
      BY <1>10, <1>11, <2>1 DEF Places, Alike
    <2> HIDE DEF J
    <2> QED BY <1>12, <2>2, <2>3, RingAdded, Zenon
  <1>14. HeapOf(node', K \cup {l}, list', D)
    <2> DEFINE I == J \cup {l}
    <2>1. other \notin I /\ I \cup {other} = K \cup {l}
      BY <1>1
    <2>2. Len(<< >>) = 0 /\ 0 <= MaxSize
      BY ListBounds DEF Owning!BoundsAssumption
    <2>3. Joined(node', h, u.root, << >>) /\ list'[other] = [root |-> u.root, size |-> 0]
      BY <1>3, <1>8 DEF u, e
    <2>4. HeapOf(h, I, list', D)
      BY <1>13
    <2> HIDE DEF I
    <2>5. HeapOf(node', I \cup {other}, list', D)
      <3> DEFINE s == << >>
      <3>1. Alike(I, list', D, list', D)
        BY DEF Alike
      <3>2. Joined(node', h, u.root, s) /\ Places(list', D, other, u.root, s)
        BY <1>10, <2>2, <2>3 DEF Places
      <3> HIDE DEF s
      <3> QED BY <2>1, <2>4, <3>1, <3>2, RingAdded, Zenon
    <2> QED BY <2>1, <2>5
  <1>15. \A a \in DOMAIN h : a \in DOMAIN node' /\ node'[a] = node[a]
    BY <1>3 DEF Joined, u, PartOfNode
  <1>16. \A k \in K \ {l} : ListRing(list, C, k) \subseteq DOMAIN h
    BY DEF HeapOf
  <1>17. Untouched(C, D, {l, other})
    BY <1>1, <1>8, <1>9, <1>10, <1>15, <1>16 DEF Untouched
  <1>18. DOMAIN node' \cap DOMAIN node = DOMAIN h
    <2>1. NodesOf(u.root, << >>) = {u.root}
      BY DEF NodesOf
    <2>2. DOMAIN node' = DOMAIN h \cup {u.root}
      BY <1>3, <2>1 DEF Joined, u
    <2> QED BY <1>3, <2>2 DEF PartOfNode
  <1>19. \A a \in ListRing(list, C, other) : a \in DOMAIN node' /\ node'[a] = node[a]
    BY <1>1, <1>15, <1>16
  <1>20. NodesHoldNext(D)
    BY <1>8, <1>9, <1>14 DEF NodesHoldNext
  <1> QED BY <1>8, <1>9, <1>10, <1>17, <1>18, <1>19, <1>20 DEF RingPassed

-----------------------------------------------------------------------------
(* What the steps do to the rings *)

LEMMA HeldValues ==
  ASSUME NEW m, NEW K, NEW q, NEW C, HeapOf(m, K, q, C), NEW l \in K
  PROVE  /\ ValuesIn(m, C[l]) \in Seq(Values) /\ Len(ValuesIn(m, C[l])) = Len(C[l])
         /\ Len(C[l]) \in Nat /\ Len(C[l]) <= MaxSize /\ C[l] \in Seq(DOMAIN m)
         /\ \A i \in 1..Len(C[l]) : ValuesIn(m, C[l])[i] = m[C[l][i]].value
  <1>1. NodeRing(m, q[l].root, C[l]) /\ Len(C[l]) <= MaxSize
    BY DEF HeapOf, RingIn
  <1>2. Len(C[l]) \in Nat /\ C[l] \in Seq(DOMAIN m)
    BY <1>1, RingNodes
  <1>3. \A i \in 1..Len(C[l]) : m[C[l][i]].value \in Values
    BY <1>1 DEF NodeRing
  <1>4. ValuesIn(m, C[l]) \in [1..Len(C[l]) -> Values]
    BY <1>3 DEF ValuesIn
  <1>5. ValuesIn(m, C[l]) \in Seq(Values) /\ Len(ValuesIn(m, C[l])) = Len(C[l])
    BY <1>2, <1>4, SeqDef, LenProperties
  <1> QED BY <1>1, <1>2, <1>5 DEF ValuesIn

LEMMA HeldContents ==
  ASSUME NEW C, NodesHold(C), NEW l \in Owning!Constructed
  PROVE  /\ Owning!Contents(l) = ValuesIn(node, C[l]) /\ Owning!Nodes(l) = C[l]
         /\ Owning!Length(l) = Len(C[l]) /\ l \in Objects
         /\ list[l] = [root |-> list[l].root, size |-> Len(C[l])]
         /\ NodeHeap(node) /\ NodeRing(node, list[l].root, C[l])
  <1>1. NodeRing(node, list[l].root, C[l]) /\ Len(C[l]) <= MaxSize
        /\ list[l] = [root |-> list[l].root, size |-> Len(C[l])] /\ NodeHeap(node)
    BY DEF NodesHold, HeapOf, RingIn
  <1> QED BY <1>1, NodesAre, WalkedIs DEF Owning!Constructed

LEMMA EmptyValues == \A m : ValuesIn(m, << >>) = << >>
  <1> SUFFICES ASSUME NEW m PROVE ValuesIn(m, << >>) = << >>
    OBVIOUS
  <1>1. ValuesIn(m, << >>) = [i \in 1..0 |-> m[<< >>[i]].value]
    BY DEF ValuesIn
  <1> DEFINE f == [i \in 1..0 |-> m[<< >>[i]].value]
  <1>2. f \in Seq({}) /\ Len(f) = 0
    <2>1. f \in [1..0 -> {}]
      OBVIOUS
    <2> QED BY <2>1, SeqDef, LenProperties
  <1>3. f = << >>
    <2> HIDE DEF f
    <2> QED BY <1>2, EmptySeq
  <1> QED BY <1>1, <1>3

LEMMA ListBecomes ==
  ASSUME NEW l, NEW u, Owning!Becomes(l, u), NEW r, NEW n, u = [node |-> u.node, root |-> r, size |-> n]
  PROVE  /\ node' = u.node /\ list' = [list EXCEPT ![l] = [root |-> r, size |-> n]]
         /\ nodeIt' \in DOMAIN node' \cup {Nil} /\ Owning!IteratorKept
  <1>1. Owning!Header(u) = [root |-> r, size |-> n]
    BY DEF Owning!Header
  <1> QED BY <1>1 DEF Owning!Becomes, Owning!IteratorKept

LEMMA FilledLength ==
  ASSUME NEW u, NEW s, NEW q, FilledWith(u, s, q)
  PROVE  Len(s) = Len(q) /\ u = [node |-> u.node, root |-> u.root, size |-> Len(s)]
  <1>1. Len(s) \in Nat /\ ValuesIn(u.node, s) = q
        /\ u = [node |-> u.node, root |-> u.root, size |-> Len(q)]
    BY RingNodes DEF FilledWith, Joined
  <1>2. Len(ValuesIn(u.node, s)) = Len(s)
    BY <1>1 DEF ValuesIn
  <1> QED BY <1>1, <1>2

(* l is constructed with new nodes, or has given up those that it had. *)
Renewed(C, D, l, v) ==
  /\ NodesHoldNext(D) /\ Untouched(C, D, {l})
  /\ Owning!Constructed' = Owning!Constructed \cup {l}
  /\ ValuesIn(node', D[l]) = v
  /\ l \in Owning!Constructed => ListRing(list, C, l) \cap DOMAIN node' = {}
  /\ Owning!IteratorKept

GivenUp(C, l, e) ==
  /\ NodesHoldNext(C) /\ Untouched(C, C, {l})
  /\ Owning!Constructed' = Owning!Constructed \ {l} /\ list'[l] = e
  /\ l \in Owning!Constructed
  /\ ListRing(list, C, l) \cap DOMAIN node' = {}
  /\ Owning!IteratorKept

LEMMA ListConstructs ==
  ASSUME NEW C, NodesHold(C), NEW l \in Objects, Owning!Construct(l)
  PROVE  /\ list[l] = NoObject
         /\ \E D : \/ Renewed(C, D, l, << >>)
                   \/ \E other \in Owning!Constructed : Renewed(C, D, l, ValuesIn(node, C[other]))
  <1> DEFINE K == Owning!Constructed
  <1>1. list[l] = NoObject /\ l \notin K /\ K \ {l} = K
    BY DEF Owning!Construct, Owning!Constructed
  <1>2. HeapOf(node, K \ {l}, list, C) /\ NodeHeap(node)
    BY <1>1 DEF NodesHold, HeapOf
  <1>3. ASSUME NEW u, NEW s, NEW v, FilledWith(u, s, v), Len(s) <= MaxSize, Len(v) = Len(s), Owning!Becomes(l, u)
        PROVE  \E D : Renewed(C, D, l, v)
    <2>1. /\ u = [node |-> u.node, root |-> u.root, size |-> Len(s)]
          /\ Joined(u.node, node, u.root, s) /\ ValuesIn(u.node, s) = v
      BY <1>3 DEF FilledWith
    <2>2. /\ node' = u.node /\ list' = [list EXCEPT ![l] = [root |-> u.root, size |-> Len(s)]]
          /\ nodeIt' \in DOMAIN node' \cup {Nil} /\ Owning!IteratorKept
      BY <1>3, <2>1, ListBecomes
    <2>3. PICK D : RingGiven(C, D, l, u.root, s)
      <3>1. Joined(node', node, u.root, s) /\ PartOfNode(node)
        BY <2>1, <2>2 DEF PartOfNode
      <3>2. HeapOf(node, Owning!Constructed \ {l}, list, C)
        BY <1>2
      <3> QED BY <1>3, <2>2, <3>1, <3>2, RingPlaced, Zenon
    <2> QED BY <1>1, <2>1, <2>2, <2>3 DEF Renewed, RingGiven
  <1>4. CASE Owning!Becomes(l, Owning!New(node))
    <2> DEFINE u == Owning!New(node)
    <2>1. u = [node |-> u.node, root |-> u.root, size |-> 0] /\ Joined(u.node, node, u.root, << >>)
      BY <1>2, NewJoins
    <2> HIDE DEF u
    <2>2. Len(<< >>) = 0 /\ 0 <= MaxSize
      BY ListBounds DEF Owning!BoundsAssumption
    <2>3. FilledWith(u, << >>, << >>)
      BY <2>1, <2>2, EmptyValues DEF FilledWith
    <2>4. Owning!Becomes(l, u)
      BY <1>4 DEF u
    <2>5. \E D : Renewed(C, D, l, << >>)
      <3> DEFINE s == << >>
      <3>1. Len(s) <= MaxSize /\ FilledWith(u, s, s)
        BY <2>2, <2>3
      <3> HIDE DEF s
      <3>2. \E D : Renewed(C, D, l, s)
        BY <1>3, <2>4, <3>1
      <3> QED BY <3>2 DEF s
    <2> QED BY <1>1, <2>5
  <1>5. ASSUME NEW other \in K, Owning!Becomes(l, Owning!Copied(other))
        PROVE  \E D : Renewed(C, D, l, ValuesIn(node, C[other]))
    <2> DEFINE v == ValuesIn(node, C[other])
    <2>1. v \in Seq(Values) /\ Len(v) = Len(C[other]) /\ Len(C[other]) <= MaxSize
      BY HeldValues DEF NodesHold
    <2>2. Owning!Copied(other) = Owning!Filled(v)
      BY HeldContents DEF Owning!Copied
    <2> HIDE DEF v
    <2>3. PICK s : FilledWith(Owning!Filled(v), s, v)
      BY <1>2, <2>1, FilledIs
    <2>4. Len(s) = Len(v)
      BY <2>3, FilledLength
    <2>5. \E D : Renewed(C, D, l, v)
      BY <1>3, <1>5, <2>1, <2>2, <2>3, <2>4
    <2> QED BY <2>5 DEF v
  <1>6. \/ Owning!Becomes(l, Owning!New(node))
        \/ \E other \in K : Owning!Becomes(l, Owning!Copied(other))
    BY DEF Owning!Construct
  <1> QED BY <1>1, <1>4, <1>5, <1>6

LEMMA HeldNow ==
  ASSUME NEW C, NodesHold(C), NEW l \in Owning!Constructed
  PROVE  /\ ValuesIn(node, C[l]) \in Seq(Values) /\ Len(ValuesIn(node, C[l])) = Len(C[l])
         /\ Len(ValuesIn(node, C[l])) \in Nat
         /\ Len(C[l]) \in Nat /\ Len(C[l]) <= MaxSize /\ NodeHeap(node)
  <1>1. HeapOf(node, Owning!Constructed, list, C)
    BY DEF NodesHold
  <1>2. NodeHeap(node)
    BY <1>1 DEF HeapOf
  <1> QED BY <1>1, <1>2, HeldValues

(* A ring with what the list's header says, without l *)
TakenFrom(h, C, l) ==
  /\ HeapOf(h, Owning!Constructed \ {l}, list, C) /\ PartOfNode(h)
  /\ Joined(node, h, list[l].root, C[l])
  /\ DOMAIN h = DOMAIN node \ ListRing(list, C, l)

LEMMA OwnRing ==
  ASSUME NEW C, NodesHold(C), NEW l \in Owning!Constructed
  PROVE  \E h : TakenFrom(h, C, l)
  <1>1. HeapOf(node, Owning!Constructed, list, C)
    BY DEF NodesHold
  <1>2. PICK h : ApartFrom(h, node, Owning!Constructed, list, C, l)
    BY <1>1, RingApart
  <1>3. PartOfNode(h)
    BY <1>2 DEF ApartFrom, Joined, PartOfNode
  <1> QED BY <1>2, <1>3 DEF TakenFrom, ApartFrom

LEMMA DestroyedLeaves ==
  ASSUME NEW C, NodesHold(C), NEW l \in Owning!Constructed, NEW h, TakenFrom(h, C, l)
  PROVE  Owning!Destroyed(Owning!Memory(l)) = h
  <1>1. list[l] = [root |-> list[l].root, size |-> Len(C[l])]
    BY HeldContents
  <1>2. Owning!Memory(l) = [node |-> node, root |-> list[l].root, size |-> Len(C[l])]
    BY <1>1 DEF Owning!Memory, Owning!In
  <1>3. Joined(node, h, list[l].root, C[l])
    BY DEF TakenFrom
  <1> QED BY <1>2, <1>3, DestroyedIs, Zenon

LEMMA KeptIterator ==
  ASSUME Owning!IteratorKept PROVE nodeIt' \in DOMAIN node' \cup {Nil}
  BY DEF Owning!IteratorKept

LEMMA ListGivesUp ==
  ASSUME NEW C, NodesHold(C), NEW l \in Owning!Constructed, NEW e \in {NoObject, Unusable},
         node' = Owning!Destroyed(Owning!Memory(l)), list' = [list EXCEPT ![l] = e],
         Owning!IteratorKept
  PROVE  GivenUp(C, l, e)
  <1>1. PICK h : TakenFrom(h, C, l)
    BY OwnRing
  <1>2. node' = h
    BY <1>1, DestroyedLeaves
  <1>3. /\ HeapOf(node', Owning!Constructed \ {l}, list, C) /\ PartOfNode(node')
        /\ ListRing(list, C, l) \cap DOMAIN node' = {} /\ l \in Objects
    BY <1>1, <1>2 DEF TakenFrom, PartOfNode, Owning!Constructed
  <1>4. nodeIt' \in DOMAIN node' \cup {Nil}
    BY KeptIterator
  <1>5. /\ NodesHoldNext(C) /\ Untouched(C, C, {l})
        /\ Owning!Constructed' = Owning!Constructed \ {l} /\ list'[l] = e
    BY <1>3, <1>4, RingTaken, Zenon
  <1> QED BY <1>3, <1>5 DEF GivenUp

LEMMA ListDestroys ==
  ASSUME NEW C, NodesHold(C), NEW l \in Objects, Owning!Destroy(l)
  PROVE  GivenUp(C, l, NoObject)
  <1>1. /\ l \in Owning!Constructed /\ node' = Owning!Destroyed(Owning!Memory(l))
        /\ list' = [list EXCEPT ![l] = NoObject] /\ Owning!IteratorKept
    BY DEF Owning!Destroy
  <1>2. NoObject \in {NoObject, Unusable}
    OBVIOUS
  <1> QED BY <1>1, <1>2, ListGivesUp, Zenon

LEMMA CopyThrowsNothing ==
  ASSUME NEW C, NodesHold(C), NEW other \in Objects, Owning!CopyThrows(other)
  PROVE  UNCHANGED listVars
  <1>1. other \in Owning!Constructed
    BY DEF Owning!CopyThrows
  <1> DEFINE v == ValuesIn(node, C[other])
  <1>2. v \in Seq(Values) /\ Len(v) \in Nat /\ Len(v) = Len(C[other]) /\ NodeHeap(node)
    BY <1>1, HeldNow
  <1>3. Owning!Contents(other) = v /\ list[other].size = Len(v)
    <2>1. list[other] = [root |-> list[other].root, size |-> Len(C[other])] /\ Owning!Contents(other) = v
      BY <1>1, HeldContents
    <2> QED BY <1>2, <2>1
  <1> HIDE DEF v
  <1>4. PICK n \in 0..Len(v) : node' = Owning!Destroyed(Owning!Filled(SubSeq(v, 1, n)))
    BY <1>3 DEF Owning!CopyThrows
  <1> DEFINE q == SubSeq(v, 1, n)
             u == Owning!Filled(q)
  <1>5. q \in Seq(Values)
    BY <1>2, SubSeqProperties
  <1> HIDE DEF q
  <1>6. PICK s : FilledWith(u, s, q)
    BY <1>2, <1>5, FilledIs
  <1> HIDE DEF u
  <1>7. u = [node |-> u.node, root |-> u.root, size |-> Len(s)] /\ Joined(u.node, node, u.root, s)
    BY <1>6, FilledLength DEF FilledWith
  <1>8. Owning!Destroyed(u) = node
    BY <1>7, DestroyedIs, Zenon
  <1> QED BY <1>4, <1>8 DEF q, u, Owning!CopyThrows, listVars

LEMMA ListCopyAssigns ==
  ASSUME NEW C, NodesHold(C), NEW l \in Objects, NEW other \in Objects, Owning!CopyAssign(l, other)
  PROVE  /\ l \in Owning!Constructed /\ other \in Owning!Constructed
         /\ \E D : Renewed(C, D, l, ValuesIn(node, C[other]))
  <1> DEFINE v == ValuesIn(node, C[other])
             u == Owning!Copied(other)
  <1>1. /\ l \in Owning!Constructed /\ other \in Owning!Constructed
        /\ node' = Owning!Destroyed(Owning!In(u.node, l))
        /\ list' = [list EXCEPT ![l] = Owning!Header(u)] /\ Owning!IteratorKept
    BY DEF Owning!CopyAssign
  <1>2. v \in Seq(Values) /\ Len(v) = Len(C[other]) /\ Len(C[other]) <= MaxSize /\ NodeHeap(node)
    BY <1>1, HeldNow
  <1>3. u = Owning!Filled(v)
    BY <1>1, HeldContents DEF Owning!Copied
  <1> HIDE DEF v
  <1>4. PICK s : FilledWith(u, s, v)
    BY <1>2, <1>3, FilledIs
  <1> HIDE DEF u
  <1>5. /\ u = [node |-> u.node, root |-> u.root, size |-> Len(s)] /\ Len(s) = Len(v)
        /\ Joined(u.node, node, u.root, s) /\ ValuesIn(u.node, s) = v
    BY <1>4, FilledLength DEF FilledWith
  <1>6. Owning!Header(u) = [root |-> u.root, size |-> Len(s)]
    BY <1>5 DEF Owning!Header
  <1>7. PICK h : TakenFrom(h, C, l)
    BY <1>1, OwnRing
  <1>8. PICK f : Joined(f, h, u.root, s) /\ Joined(u.node, f, list[l].root, C[l])
    BY <1>5, <1>7, RingsCommute DEF TakenFrom
  <1>9. node' = f
    <2>1. list[l] = [root |-> list[l].root, size |-> Len(C[l])]
      BY <1>1, HeldContents
    <2>2. Owning!In(u.node, l) = [node |-> u.node, root |-> list[l].root, size |-> Len(C[l])]
      BY <2>1 DEF Owning!In
    <2>3. Owning!Destroyed(Owning!In(u.node, l)) = f
      BY <1>8, <2>2, DestroyedIs, Zenon
    <2> QED BY <1>1, <2>3
  <1>10. PICK D : RingGiven(C, D, l, u.root, s)
    <2>1. Joined(node', h, u.root, s) /\ Len(s) <= MaxSize
      BY <1>2, <1>5, <1>8, <1>9
    <2>2. list' = [list EXCEPT ![l] = [root |-> u.root, size |-> Len(s)]]
      BY <1>1, <1>6
    <2>3. nodeIt' \in DOMAIN node' \cup {Nil}
      BY <1>1, KeptIterator
    <2>4. HeapOf(h, Owning!Constructed \ {l}, list, C) /\ PartOfNode(h)
      BY <1>7 DEF TakenFrom
    <2> QED BY <2>1, <2>2, <2>3, <2>4, RingPlaced, Zenon
  <1>11. ValuesIn(node', s) = v
    <2>1. \A i \in 1..Len(s) : node'[s[i]] = u.node[s[i]]
      <3>1. \A i \in 1..Len(s) : s[i] \in DOMAIN f
        <4>1. \A i \in 1..Len(s) : s[i] \in NodesOf(u.root, s)
          BY DEF NodesOf
        <4> QED BY <1>8, <4>1 DEF Joined
      <3> QED BY <1>8, <1>9, <3>1 DEF Joined
    <2> QED BY <1>5, <2>1 DEF ValuesIn
  <1>12. ListRing(list, C, l) \cap DOMAIN node' = {}
    BY <1>8, <1>9 DEF Joined, ListRing
  <1> QED BY <1>1, <1>10, <1>11, <1>12 DEF Renewed, RingGiven, v

(* The ring of other, with its root, becomes that of l. *)
Passed(C, D, l, other) ==
  /\ NodesHoldNext(D) /\ Untouched(C, D, {l, other})
  /\ D[l] = C[other] /\ list'[l] = list[other] /\ D[other] = << >>
  /\ Owning!Constructed' = Owning!Constructed \cup {l}
  /\ \A a \in ListRing(list, C, other) : a \in DOMAIN node' /\ node'[a] = node[a]
  /\ l \in Owning!Constructed => ListRing(list, C, l) \cap DOMAIN node' = {}
  /\ Owning!IteratorKept

LEMMA ListMoveConstructs ==
  ASSUME NEW C, NodesHold(C), NEW l \in Objects, NEW other \in Objects,
         Owning!MoveConstruct(l, other)
  PROVE  /\ list[l] = NoObject /\ other \in Owning!Constructed
         /\ \E D : Passed(C, D, l, other)
  <1>1. /\ list[l] = NoObject /\ other \in Owning!Constructed /\ l \notin Owning!Constructed
        /\ l # other /\ node' = Owning!New(node).node
        /\ list' = [list EXCEPT ![l] = list[other], ![other] = Owning!Header(Owning!New(node))]
        /\ nodeIt' = nodeIt
    BY DEF Owning!MoveConstruct, Owning!Constructed
  <1>2. HeapOf(node, Owning!Constructed \ {l}, list, C) /\ PartOfNode(node)
    <2>1. Owning!Constructed \ {l} = Owning!Constructed
      BY <1>1
    <2> QED BY <2>1 DEF NodesHold, PartOfNode
  <1>3. DOMAIN node \subseteq DOMAIN node'
    <2> DEFINE u == Owning!New(node)
    <2>1. Joined(u.node, node, u.root, << >>)
      BY <1>2, NewJoins DEF HeapOf
    <2> QED BY <1>1, <2>1 DEF Joined
  <1>4. nodeIt' \in DOMAIN node' \cup {Nil} /\ Owning!IteratorKept
    BY <1>1, <1>3 DEF NodesHold, Owning!IteratorKept
  <1>5. PICK D : RingPassed(C, D, l, other, node)
    BY <1>1, <1>2, <1>4, RingMoved, Zenon
  <1> QED BY <1>1, <1>4, <1>5 DEF Passed, RingPassed

LEMMA ListMoveAssigns ==
  ASSUME NEW C, NodesHold(C), NEW l \in Objects, NEW other \in Objects,
         Owning!MoveAssign(l, other)
  PROVE  /\ l \in Owning!Constructed /\ other \in Owning!Constructed
         /\ \/ l # other /\ \E D : Passed(C, D, l, other)
            \/ l = other /\ \E D : Renewed(C, D, l, << >>)
            \/ GivenUp(C, l, Unusable)
  <1>1. l \in Owning!Constructed /\ other \in Owning!Constructed /\ Owning!IteratorKept
    BY DEF Owning!MoveAssign
  <1>2. PICK h : TakenFrom(h, C, l)
    BY <1>1, OwnRing
  <1>3. Owning!Destroyed(Owning!Memory(l)) = h
    BY <1>1, <1>2, DestroyedLeaves
  <1> DEFINE u == Owning!New(h)
  <1>4. \/ /\ node' = u.node
           /\ list' = [list EXCEPT ![l] = list[other], ![other] = Owning!Header(u)]
        \/ /\ node' = Owning!Destroyed(Owning!Memory(l))
           /\ list' = [list EXCEPT ![l] = Unusable]
    BY <1>3 DEF Owning!MoveAssign
  <1>5. /\ HeapOf(h, Owning!Constructed \ {l}, list, C) /\ PartOfNode(h)
        /\ DOMAIN h = DOMAIN node \ ListRing(list, C, l)
    BY <1>2 DEF TakenFrom
  <1>6. nodeIt' \in DOMAIN node' \cup {Nil}
    BY <1>1, KeptIterator
  <1>7. /\ u = [node |-> u.node, root |-> u.root, size |-> 0]
        /\ Joined(u.node, h, u.root, << >>) /\ u.root \notin DOMAIN node
    <2>1. NodeHeap(h) /\ NodeHeap(node)
      BY <1>5 DEF HeapOf, NodesHold
    <2> QED BY <2>1, NewJoins
  <1>8. ListRing(list, C, l) \subseteq DOMAIN node
    BY <1>1 DEF NodesHold, HeapOf
  <1>9. CASE /\ node' = u.node /\ l # other
             /\ list' = [list EXCEPT ![l] = list[other], ![other] = Owning!Header(u)]
    <2>1. PICK D : RingPassed(C, D, l, other, h)
      BY <1>1, <1>5, <1>6, <1>9, RingMoved, Zenon
    <2>2. ListRing(list, C, l) \cap DOMAIN node' = {}
      BY <1>5, <1>8, <2>1 DEF RingPassed
    <2>3. Passed(C, D, l, other)
      BY <1>1, <2>1, <2>2 DEF Passed, RingPassed
    <2> QED BY <1>1, <1>9, <2>3
  <1>10. CASE /\ node' = u.node /\ l = other
              /\ list' = [list EXCEPT ![l] = list[other], ![other] = Owning!Header(u)]
    <2> HIDE DEF u
    <2> DEFINE e == [root |-> u.root, size |-> 0]
    <2>1. Owning!Header(u) = e
      <3>1. u.size = 0
        BY <1>7
      <3> QED BY <3>1 DEF Owning!Header
    <2> HIDE DEF e
    <2>2. list' = [list EXCEPT ![l] = e]
      BY <1>10, <2>1 DEF NodesHold
    <2> DEFINE s == << >>
    <2>3. Len(s) = 0 /\ Len(s) <= MaxSize
      BY ListBounds DEF Owning!BoundsAssumption
    <2>4. list' = [list EXCEPT ![l] = [root |-> u.root, size |-> Len(s)]]
      BY <2>2, <2>3 DEF e
    <2>5. Joined(node', h, u.root, s)
      BY <1>7, <1>10
    <2>6. ValuesIn(node', s) = << >> /\ NodesOf(u.root, s) = {u.root}
      BY EmptyValues DEF NodesOf
    <2> HIDE DEF s
    <2>7. PICK D : RingGiven(C, D, l, u.root, s)
      BY <1>5, <1>6, <2>3, <2>4, <2>5, RingPlaced, Zenon
    <2>8. ListRing(list, C, l) \cap DOMAIN node' = {}
      BY <1>5, <1>7, <1>8, <2>5, <2>6 DEF Joined
    <2>9. Renewed(C, D, l, << >>)
      BY <1>1, <2>6, <2>7, <2>8 DEF Renewed, RingGiven
    <2> QED BY <1>1, <1>10, <2>9
  <1>11. CASE /\ node' = Owning!Destroyed(Owning!Memory(l))
              /\ list' = [list EXCEPT ![l] = Unusable]
    <2>1. Unusable \in {NoObject, Unusable}
      OBVIOUS
    <2>2. GivenUp(C, l, Unusable)
      BY <1>1, <1>11, <2>1, ListGivesUp, Zenon
    <2> QED BY <1>1, <2>2
  <1> QED BY <1>4, <1>9, <1>10, <1>11

(* One value more, one value less *)
Grown(C, D, l, i, v) ==
  /\ NodesHoldNext(D) /\ Untouched(C, D, {l})
  /\ l \in Owning!Constructed /\ Owning!Constructed' = Owning!Constructed
  /\ list'[l].root = list[l].root
  /\ \E n \in Nat : D[l] = Inserted(C[l], i, n)
  /\ ValuesIn(node', D[l]) = Inserted(ValuesIn(node, C[l]), i, v)
  /\ ListRing(list, C, l) \subseteq DOMAIN node'
  /\ Owning!IteratorKept

Shrunk(C, D, l, i) ==
  /\ NodesHoldNext(D) /\ Untouched(C, D, {l})
  /\ l \in Owning!Constructed /\ Owning!Constructed' = Owning!Constructed
  /\ list'[l].root = list[l].root
  /\ D[l] = Removed(C[l], i)
  /\ ValuesIn(node', D[l]) = Removed(ValuesIn(node, C[l]), i)
  /\ ListRing(list, C, l) \ {C[l][i]} \subseteq DOMAIN node' /\ C[l][i] \notin DOMAIN node'
  /\ Owning!IteratorKept

LEMMA ListGrows ==
  ASSUME NEW C, NodesHold(C), NEW l \in Owning!Constructed, list[l].size < MaxSize,
         NEW i \in 0..Len(C[l]), NEW v \in Values,
         Owning!Becomes(l, Owning!LinkAfter(Owning!Memory(l), Nth(list[l].root, C[l], i), v))
  PROVE  \E D : Grown(C, D, l, i, v)
  <1> DEFINE r == list[l].root
             k == Len(C[l])
             u == Owning!LinkAfter([node |-> node, root |-> r, size |-> k], Nth(r, C[l], i), v)
             n == Owning!Fresh(node)
             s == Inserted(C[l], i, n)
  <1>1. /\ list[l] = [root |-> r, size |-> k] /\ k \in Nat /\ NodeHeap(node) /\ l \in Objects
        /\ C[l] \in Seq(DOMAIN node)
    BY HeldContents, HeldNow, RingNodes
  <1>2. Owning!Memory(l) = [node |-> node, root |-> r, size |-> k] /\ k + 1 <= MaxSize
    <2>1. list[l].size = k
      BY <1>1
    <2> QED BY <1>1, <2>1, ListBounds DEF Owning!Memory, Owning!In, Owning!BoundsAssumption
  <1>3. PICK h : TakenFrom(h, C, l)
    BY OwnRing
  <1>4. NodeLinked(u, node, h, r, C[l], i, v, k)
    BY <1>1, <1>3, LinkJoins, Zenon DEF TakenFrom
  <1>5. Owning!Becomes(l, u)
    BY <1>2
  <1> HIDE DEF u, n
  <1>6. /\ u = [node |-> u.node, root |-> r, size |-> k + 1]
        /\ Joined(u.node, h, r, s) /\ n \in Nat
        /\ NodesOf(r, s) = NodesOf(r, C[l]) \cup {n}
        /\ ValuesIn(u.node, s) = Inserted(ValuesIn(node, C[l]), i, v)
    BY <1>4 DEF NodeLinked, n
  <1>7. Len(s) = k + 1
    <2> DEFINE S == DOMAIN node \cup {n}
    <2>1. C[l] \in Seq(S)
      BY <1>1, SeqDef
    <2>2. n \in S /\ i \in 0..Len(C[l])
      OBVIOUS
    <2> HIDE DEF S
    <2> QED BY <2>1, <2>2, InsertedSeq
  <1>8. /\ node' = u.node /\ list' = [list EXCEPT ![l] = [root |-> r, size |-> Len(s)]]
        /\ nodeIt' \in DOMAIN node' \cup {Nil} /\ Owning!IteratorKept
    BY <1>5, <1>6, <1>7, ListBecomes
  <1>9. PICK D : RingGiven(C, D, l, r, s)
    <2>1. Joined(node', h, r, s) /\ Len(s) <= MaxSize
      BY <1>2, <1>6, <1>7, <1>8
    <2>2. HeapOf(h, Owning!Constructed \ {l}, list, C) /\ PartOfNode(h)
      BY <1>3 DEF TakenFrom
    <2> HIDE DEF r, s
    <2> QED BY <1>1, <1>8, <2>1, <2>2, RingPlaced, Zenon
  <1>10. ListRing(list, C, l) \subseteq DOMAIN node'
    BY <1>6, <1>8 DEF Joined, ListRing
  <1>11. Owning!Constructed \cup {l} = Owning!Constructed
    OBVIOUS
  <1>12. D[l] = s /\ list'[l] = [root |-> r, size |-> Len(s)] /\ NodesHoldNext(D) /\ Untouched(C, D, {l})
         /\ Owning!Constructed' = Owning!Constructed
    BY <1>9, <1>11 DEF RingGiven
  <1>13. list'[l].root = list[l].root
    BY <1>12
  <1> QED BY <1>6, <1>8, <1>10, <1>12, <1>13 DEF Grown

LEMMA ListShrinks ==
  ASSUME NEW C, NodesHold(C), NEW l \in Owning!Constructed, NEW i \in 1..Len(C[l]),
         Owning!Becomes(l, Owning!Unlink(Owning!Memory(l), C[l][i]))
  PROVE  \E D : Shrunk(C, D, l, i)
  <1> DEFINE r == list[l].root
             k == Len(C[l])
             u == Owning!Unlink([node |-> node, root |-> r, size |-> k], C[l][i])
             s == Removed(C[l], i)
  <1>1. /\ list[l] = [root |-> r, size |-> k] /\ k \in Nat /\ NodeHeap(node) /\ l \in Objects
        /\ C[l] \in Seq(DOMAIN node) /\ k <= MaxSize /\ NodeRing(node, r, C[l])
    BY HeldContents, HeldNow, RingNodes
  <1>2. Owning!Memory(l) = [node |-> node, root |-> r, size |-> k]
    <2>1. list[l].size = k
      BY <1>1
    <2> QED BY <2>1 DEF Owning!Memory, Owning!In
  <1>3. PICK h : TakenFrom(h, C, l)
    BY OwnRing
  <1>4. /\ u = [node |-> u.node, root |-> r, size |-> k - 1]
        /\ Joined(u.node, h, r, s)
        /\ NodesOf(r, s) = NodesOf(r, C[l]) \ {C[l][i]}
        /\ ValuesIn(u.node, s) = Removed(ValuesIn(node, C[l]), i)
    <2>1. Joined(node, h, r, C[l])
      BY <1>3 DEF TakenFrom
    <2> QED BY <2>1, UnlinkJoins
  <1>5. Owning!Becomes(l, u)
    BY <1>2
  <1> HIDE DEF u
  <1>6. Len(s) = k - 1 /\ Len(s) <= MaxSize
    <2>1. Len(s) = k - 1
      BY <1>1, RemovedSeq
    <2> QED BY <1>1, <2>1, ListBounds DEF Owning!BoundsAssumption
  <1>7. /\ node' = u.node /\ list' = [list EXCEPT ![l] = [root |-> r, size |-> Len(s)]]
        /\ nodeIt' \in DOMAIN node' \cup {Nil} /\ Owning!IteratorKept
    BY <1>4, <1>5, <1>6, ListBecomes
  <1>8. PICK D : RingGiven(C, D, l, r, s)
    <2>1. Joined(node', h, r, s)
      BY <1>4, <1>7
    <2>2. HeapOf(h, Owning!Constructed \ {l}, list, C) /\ PartOfNode(h)
      BY <1>3 DEF TakenFrom
    <2> HIDE DEF r, s
    <2> QED BY <1>1, <1>6, <1>7, <2>1, <2>2, RingPlaced, Zenon
  <1>9. ListRing(list, C, l) \ {C[l][i]} \subseteq DOMAIN node' /\ C[l][i] \notin DOMAIN node'
    <2>1. DOMAIN node' = DOMAIN h \cup (ListRing(list, C, l) \ {C[l][i]})
      BY <1>4, <1>7 DEF Joined, ListRing
    <2>2. C[l][i] \in ListRing(list, C, l)
      BY DEF ListRing, NodesOf
    <2>3. DOMAIN h = DOMAIN node \ ListRing(list, C, l)
      BY <1>3 DEF TakenFrom
    <2> QED BY <2>1, <2>2, <2>3
  <1>10. Owning!Constructed \cup {l} = Owning!Constructed
    OBVIOUS
  <1>11. D[l] = s /\ list'[l] = [root |-> r, size |-> Len(s)] /\ NodesHoldNext(D) /\ Untouched(C, D, {l})
         /\ Owning!Constructed' = Owning!Constructed
    BY <1>8, <1>10 DEF RingGiven
  <1>12. list'[l].root = list[l].root
    BY <1>11
  <1> QED BY <1>4, <1>7, <1>9, <1>11, <1>12 DEF Shrunk

LEMMA ListEnds ==
  ASSUME NEW C, NodesHold(C), NEW l \in Owning!Constructed
  PROVE  /\ Owning!Memory(l).node = node /\ Owning!Memory(l).root = list[l].root
         /\ list[l].size = Len(C[l]) /\ Len(C[l]) \in Nat
         /\ node[list[l].root].prev = Nth(list[l].root, C[l], Len(C[l]))
         /\ node[list[l].root].next = Nth(list[l].root, C[l], 1)
         /\ Nth(list[l].root, C[l], 0) = list[l].root
         /\ Nth(list[l].root, C[l], Len(C[l]) + 1) = list[l].root
         /\ \A i \in 1..Len(C[l]) : Nth(list[l].root, C[l], i) = C[l][i]
  <1> DEFINE r == list[l].root
             s == C[l]
  <1>1. Owning!Memory(l).node = node /\ Owning!Memory(l).root = r
    BY DEF Owning!Memory, Owning!In
  <1>2. NodeRing(node, r, s) /\ list[l] = [root |-> r, size |-> Len(s)]
    BY HeldContents
  <1>3. Len(s) \in Nat /\ \A i \in 0..Len(s) : /\ node[Nth(r, s, i)].next = Nth(r, s, i + 1)
                                               /\ node[Nth(r, s, i + 1)].prev = Nth(r, s, i)
    BY <1>2, RingNodes
  <1>4. list[l].size = Len(s)
    BY <1>2
  <1> HIDE DEF r, s
  <1>5. /\ Nth(r, s, 0) = r /\ Nth(r, s, Len(s) + 1) = r
        /\ \A i \in 1..Len(s) : Nth(r, s, i) = s[i]
    BY <1>3 DEF Nth
  <1>6. node[r].prev = Nth(r, s, Len(s))
    <2>1. Len(s) \in 0..Len(s)
      BY <1>3
    <2> QED BY <1>3, <1>5, <2>1
  <1>7. node[r].next = Nth(r, s, 1)
    <2>1. 0 \in 0..Len(s) /\ 0 + 1 = 1
      BY <1>3
    <2> QED BY <1>3, <1>5, <2>1
  <1> QED BY <1>1, <1>3, <1>4, <1>5, <1>6, <1>7 DEF r, s

LEMMA ListPushesBack ==
  ASSUME NEW C, NodesHold(C), NEW l \in Objects, NEW v \in Values, Owning!PushBack(l, v)
  PROVE  l \in Owning!Constructed /\ \E D : Grown(C, D, l, Len(C[l]), v)
  <1>1. /\ l \in Owning!Constructed /\ list[l].size < MaxSize
        /\ Owning!Becomes(l, Owning!PushedBack(Owning!Memory(l), v))
    BY DEF Owning!PushBack
  <1>2. Owning!PushedBack(Owning!Memory(l), v)
          = Owning!LinkAfter(Owning!Memory(l), Nth(list[l].root, C[l], Len(C[l])), v)
    BY <1>1, ListEnds DEF Owning!PushedBack
  <1>3. Len(C[l]) \in 0..Len(C[l])
    BY <1>1, ListEnds
  <1>4. Owning!Becomes(l, Owning!LinkAfter(Owning!Memory(l), Nth(list[l].root, C[l], Len(C[l])), v))
    BY <1>1, <1>2, Zenon
  <1> QED BY <1>1, <1>3, <1>4, ListGrows, Zenon

LEMMA ListPushesFront ==
  ASSUME NEW C, NodesHold(C), NEW l \in Objects, NEW v \in Values, Owning!PushFront(l, v)
  PROVE  l \in Owning!Constructed /\ \E D : Grown(C, D, l, 0, v)
  <1>1. /\ l \in Owning!Constructed /\ list[l].size < MaxSize
        /\ Owning!Becomes(l, Owning!PushedFront(Owning!Memory(l), v))
    BY DEF Owning!PushFront
  <1>2. Owning!PushedFront(Owning!Memory(l), v)
          = Owning!LinkAfter(Owning!Memory(l), Nth(list[l].root, C[l], 0), v)
    BY <1>1, ListEnds DEF Owning!PushedFront
  <1>3. 0 \in 0..Len(C[l])
    BY <1>1, ListEnds
  <1>4. Owning!Becomes(l, Owning!LinkAfter(Owning!Memory(l), Nth(list[l].root, C[l], 0), v))
    BY <1>1, <1>2, Zenon
  <1> QED BY <1>1, <1>3, <1>4, ListGrows, Zenon

LEMMA ListPopsBack ==
  ASSUME NEW C, NodesHold(C), NEW l \in Objects, Owning!PopBack(l)
  PROVE  l \in Owning!Constructed /\ \E i \in 1..Len(C[l]) : \E D : Shrunk(C, D, l, i)
  <1>1. /\ l \in Owning!Constructed /\ list[l].size > 0
        /\ Owning!Becomes(l, Owning!PoppedBack(Owning!Memory(l)))
    BY DEF Owning!PopBack
  <1>2. Len(C[l]) \in 1..Len(C[l])
    BY <1>1, ListEnds
  <1>3. Owning!PoppedBack(Owning!Memory(l)) = Owning!Unlink(Owning!Memory(l), C[l][Len(C[l])])
    BY <1>1, <1>2, ListEnds DEF Owning!PoppedBack
  <1>4. Owning!Becomes(l, Owning!Unlink(Owning!Memory(l), C[l][Len(C[l])]))
    BY <1>1, <1>3, Zenon
  <1> QED BY <1>1, <1>2, <1>4, ListShrinks, Zenon

LEMMA ListPopsFront ==
  ASSUME NEW C, NodesHold(C), NEW l \in Objects, Owning!PopFront(l)
  PROVE  l \in Owning!Constructed /\ \E i \in 1..Len(C[l]) : \E D : Shrunk(C, D, l, i)
  <1>1. /\ l \in Owning!Constructed /\ list[l].size > 0
        /\ Owning!Becomes(l, Owning!PoppedFront(Owning!Memory(l)))
    BY DEF Owning!PopFront
  <1>2. 1 \in 1..Len(C[l])
    BY <1>1, ListEnds
  <1>3. Owning!PoppedFront(Owning!Memory(l)) = Owning!Unlink(Owning!Memory(l), C[l][1])
    BY <1>1, <1>2, ListEnds DEF Owning!PoppedFront
  <1>4. Owning!Becomes(l, Owning!Unlink(Owning!Memory(l), C[l][1]))
    BY <1>1, <1>3, Zenon
  <1> QED BY <1>1, <1>2, <1>4, ListShrinks, Zenon

LEMMA ListErases ==
  ASSUME NEW C, NodesHold(C), NEW l \in Objects, Owning!Erase(l)
  PROVE  l \in Owning!Constructed /\ \E i \in 1..Len(C[l]) : \E D : Shrunk(C, D, l, i)
  <1>1. /\ l \in Owning!Constructed /\ nodeIt \in Owning!Range(Owning!Nodes(l))
        /\ Owning!Becomes(l, Owning!Unlink(Owning!Memory(l), nodeIt))
    BY DEF Owning!Erase
  <1>2. Owning!Nodes(l) = C[l] /\ C[l] \in Seq(DOMAIN node)
    BY <1>1, HeldContents, RingNodes
  <1>3. PICK i \in 1..Len(C[l]) : nodeIt = C[l][i]
    <2>1. DOMAIN C[l] = 1..Len(C[l])
      BY <1>2
    <2>2. nodeIt \in Owning!Range(C[l])
      BY <1>1, <1>2
    <2> QED BY <2>1, <2>2 DEF Owning!Range
  <1>4. Owning!Becomes(l, Owning!Unlink(Owning!Memory(l), C[l][i]))
    BY <1>1, <1>3, Zenon
  <1> QED BY <1>1, <1>3, <1>4, ListShrinks, Zenon

(* Where the iterator is *)
AtPlace(C, l, i) ==
  l \in Owning!Constructed /\ i \in 1..(Len(C[l]) + 1) /\ nodeIt = Nth(list[l].root, C[l], i)

LEMMA SomePlace ==
  ASSUME NEW C, NodesHold(C), nodeIt # Nil
  PROVE  nodeIt \in DOMAIN node /\ \E l \in Owning!Constructed : \E i : AtPlace(C, l, i)
  <1>1. nodeIt \in DOMAIN node
    BY DEF NodesHold
  <1>2. PICK l \in Owning!Constructed : nodeIt \in NodesOf(list[l].root, C[l])
    BY <1>1 DEF NodesHold, HeapOf, ListRing
  <1>3. NodeRing(node, list[l].root, C[l])
    BY HeldContents
  <1>4. PICK i \in 0..Len(C[l]) : nodeIt = Nth(list[l].root, C[l], i)
    BY <1>2, <1>3, RingNodes
  <1>5. CASE i = 0
    <2>1. nodeIt = Nth(list[l].root, C[l], Len(C[l]) + 1) /\ Len(C[l]) \in Nat
      BY <1>4, <1>5, ListEnds
    <2>2. Len(C[l]) + 1 \in 1..(Len(C[l]) + 1)
      BY <2>1
    <2> QED BY <1>1, <2>1, <2>2 DEF AtPlace
  <1>6. CASE i # 0
    <2>1. i \in 1..(Len(C[l]) + 1)
      BY <1>4, <1>6, ListEnds
    <2> QED BY <1>1, <1>4, <2>1 DEF AtPlace
  <1> QED BY <1>5, <1>6

(* The place has a value when it is not the end. *)
LEMMA ValuedPlace ==
  ASSUME NEW C, NodesHold(C), NEW l \in Owning!Constructed, NEW i \in 0..(Len(C[l]) + 1),
         node[Nth(list[l].root, C[l], i)].value # Nil
  PROVE  i \in 1..Len(C[l])
  <1>1. node[list[l].root].value = Nil
    BY HeldContents DEF NodeRing
  <1>2. Nth(list[l].root, C[l], i) # list[l].root
    BY <1>1
  <1>3. Len(C[l]) \in Nat
    BY ListEnds
  <1> QED BY <1>2, <1>3 DEF Nth

(* A new value in a node *)
Changed(C, l, i, v) ==
  /\ NodesHoldNext(C) /\ Untouched(C, C, {l})
  /\ AtPlace(C, l, i) /\ i \in 1..Len(C[l])
  /\ Owning!Constructed' = Owning!Constructed /\ list' = list /\ nodeIt' = nodeIt
  /\ ValuesIn(node', C[l]) = [ValuesIn(node, C[l]) EXCEPT ![i] = v]

LEMMA ListModifies ==
  ASSUME NEW C, NodesHold(C), NEW v \in Values, Owning!Modify(v)
  PROVE  \E l \in Owning!Constructed : \E i : Changed(C, l, i, v)
  <1>1. /\ nodeIt # Nil /\ node[nodeIt].value # Nil
        /\ node' = [node EXCEPT ![nodeIt].value = v] /\ list' = list /\ nodeIt' = nodeIt
    BY DEF Owning!Modify
  <1>2. PICK l \in Owning!Constructed : \E i : AtPlace(C, l, i)
    BY <1>1, SomePlace
  <1>3. PICK i : AtPlace(C, l, i)
    BY <1>2
  <1>4. i \in 1..Len(C[l]) /\ nodeIt = Nth(list[l].root, C[l], i) /\ Len(C[l]) \in Nat
    <2>1. nodeIt = Nth(list[l].root, C[l], i) /\ i \in 0..(Len(C[l]) + 1)
      BY <1>3, ListEnds DEF AtPlace
    <2> QED BY <1>1, <2>1, ValuedPlace, ListEnds
  <1>5. /\ HeapOf(node, Owning!Constructed, list, C) /\ NodeHeap(node) /\ nodeIt \in DOMAIN node
    BY <1>1, SomePlace DEF NodesHold, HeapOf
  <1> DEFINE n == nodeIt
             e == [prev |-> node[n].prev, next |-> node[n].next, value |-> v]
  <1>6. node[n] = [prev |-> node[n].prev, next |-> node[n].next, value |-> node[n].value]
        /\ node[n].prev \in Nat /\ node[n].next \in Nat
    BY <1>5, HeapHas
  <1>7. /\ DOMAIN node' = DOMAIN node /\ node'[n] = e
        /\ \A a \in DOMAIN node : a # n => node'[a] = node[a]
    <2> DEFINE d == node[n]
    <2>1. [d EXCEPT !.value = v] = e
      <3>1. d = [prev |-> d.prev, next |-> d.next, value |-> d.value]
        BY <1>6
      <3> QED BY <3>1
    <2>2. node' = [node EXCEPT ![n] = [d EXCEPT !.value = v]]
      BY <1>1, Zenon
    <2> HIDE DEF d, e
    <2> QED BY <1>5, <2>1, <2>2
  <1>8. e \in Entries /\ e.prev = node[n].prev /\ e.next = node[n].next /\ e.value = v
    BY <1>6 DEF Entries
  <1> HIDE DEF e
  <1>9. \A a \in DOMAIN node : /\ node'[a].prev = node[a].prev /\ node'[a].next = node[a].next
                               /\ node'[a].value = IF a = n THEN v ELSE node[a].value
                               /\ node'[a] \in Entries
    BY <1>5, <1>7, <1>8 DEF NodeHeap
  <1>10. NodeHeap(node')
    <2>1. node' = [node EXCEPT ![n] = [node[n] EXCEPT !.value = v]]
      BY <1>1, Zenon
    <2>2. node' = [a \in DOMAIN node |-> node'[a]]
      <3> DEFINE d == [node[n] EXCEPT !.value = v]
      <3> HIDE DEF d
      <3>1. node' = [node EXCEPT ![n] = d]
        BY <2>1 DEF d
      <3>2. node = [a \in DOMAIN node |-> node[a]]
        BY <1>5 DEF NodeHeap
      <3> QED BY <3>1, <3>2
    <2>3. node' \in [DOMAIN node -> Entries]
      BY <1>9, <2>2
    <2> QED BY <1>5, <1>7, <2>3 DEF NodeHeap
  <1>11. ASSUME NEW k \in Owning!Constructed PROVE RingIn(node', list', C, k)
    <2> DEFINE r == list[k].root
               s == C[k]
    <2>1. NodeRing(node, r, s)
      BY <1>5 DEF HeapOf, RingIn
    <2>2. /\ Len(s) \in Nat /\ s \in Seq(DOMAIN node) /\ r \in DOMAIN node
          /\ \A j : Nth(r, s, j) \in DOMAIN node
      BY <2>1, RingNodes
    <2>3. \A j \in 1..Len(s) : s[j] \in DOMAIN node
      BY <2>2, ElementOfSeq
    <2>4. r # n
      BY <1>1, <2>1 DEF NodeRing
    <2> HIDE DEF r, s, n
    <2>5. NodeRing(node', r, s)
      BY <1>7, <1>9, <2>1, <2>2, <2>3, <2>4 DEF NodeRing
    <2> QED BY <1>1, <2>5 DEF RingIn, r, s
  <1>12. Owning!Constructed' = Owning!Constructed
    BY <1>1 DEF Owning!Constructed
  <1>13. HeapOf(node', Owning!Constructed, list', C)
    BY <1>1, <1>5, <1>7, <1>10, <1>11 DEF HeapOf
  <1>14. NodesHoldNext(C)
    BY <1>1, <1>7, <1>12, <1>13 DEF NodesHoldNext, NodesHold
  <1>15. n = C[l][i] /\ \A j \in 1..Len(C[l]) : C[l][j] = n => j = i
    <2>1. NodeRing(node, list[l].root, C[l])
      BY HeldContents
    <2>2. n = C[l][i]
      <3>1. Nth(list[l].root, C[l], i) = C[l][i]
        BY <1>4 DEF Nth
      <3> QED BY <1>4, <3>1
    <2> QED BY <1>4, <2>1, <2>2 DEF NodeRing
  <1>16. ValuesIn(node', C[l]) = [ValuesIn(node, C[l]) EXCEPT ![i] = v]
    <2>1. \A j \in 1..Len(C[l]) : C[l][j] \in DOMAIN node
      BY <1>4, HeldContents, RingNodes, ElementOfSeq
    <2>2. \A j \in 1..Len(C[l]) : node'[C[l][j]].value = IF j = i THEN v ELSE node[C[l][j]].value
      BY <1>9, <1>15, <2>1
    <2> QED BY <2>2 DEF ValuesIn
  <1>17. Untouched(C, C, {l})
    <2> SUFFICES ASSUME NEW k \in Owning!Constructed \ {l}
                 PROVE  /\ k \in Owning!Constructed' /\ C[k] = C[k]
                        /\ \A a \in ListRing(list, C, k) : a \in DOMAIN node' /\ node'[a] = node[a]
      BY <1>1 DEF Untouched
    <2>1. ListRing(list, C, k) \cap ListRing(list, C, l) = {} /\ ListRing(list, C, k) \subseteq DOMAIN node
      BY <1>5 DEF HeapOf
    <2>2. n \in ListRing(list, C, l)
      BY <1>4, <1>15 DEF ListRing, NodesOf
    <2> QED BY <1>1, <1>7, <1>12, <2>1, <2>2
  <1> QED BY <1>1, <1>3, <1>4, <1>12, <1>14, <1>16, <1>17 DEF Changed

-----------------------------------------------------------------------------
(* All the steps *)
Gets(C, l) ==
  /\ list[l] = NoObject \/ l \in Owning!Constructed
  /\ \/ \E D : Renewed(C, D, l, << >>)
     \/ \E other \in Owning!Constructed : \E D : Renewed(C, D, l, ValuesIn(node, C[other]))
     \/ \E other \in Owning!Constructed : other # l /\ \E D : Passed(C, D, l, other)

Changes(C, l) ==
  /\ l \in Owning!Constructed
  /\ \/ \E v \in Values : \E D : Grown(C, D, l, 0, v) \/ Grown(C, D, l, Len(C[l]), v)
     \/ \E i \in 1..Len(C[l]) : \E D : Shrunk(C, D, l, i)
     \/ \E v \in Values : \E i : Changed(C, l, i, v)

NodeItMoves ==
  Owning!GetIterator \/ Owning!Increment \/ Owning!Decrement \/ Owning!Forget

ListEffect(C, l) ==
  Gets(C, l) \/ GivenUp(C, l, NoObject) \/ GivenUp(C, l, Unusable) \/ Changes(C, l)

LEMMA ListStep ==
  ASSUME NEW C, NodesHold(C), [Owning!Next]_listVars
  PROVE  UNCHANGED listVars \/ NodeItMoves \/ \E l \in Objects : ListEffect(C, l)
  <1>1. ASSUME NEW l \in Objects, Owning!Construct(l) PROVE Gets(C, l)
    BY <1>1, ListConstructs DEF Gets
  <1>2. ASSUME NEW l \in Objects, Owning!Destroy(l) PROVE GivenUp(C, l, NoObject)
    BY <1>2, ListDestroys
  <1>3. ASSUME NEW l \in Objects, Owning!PopBack(l) \/ Owning!PopFront(l) \/ Owning!Erase(l)
        PROVE  Changes(C, l)
    BY <1>3, ListPopsBack, ListPopsFront, ListErases DEF Changes
  <1>4. ASSUME NEW l \in Objects, Owning!CopyThrows(l) PROVE UNCHANGED listVars
    BY <1>4, CopyThrowsNothing
  <1>5. ASSUME NEW l \in Objects, NEW other \in Objects, Owning!MoveConstruct(l, other)
        PROVE  Gets(C, l)
    <2>1. /\ list[l] = NoObject /\ other \in Owning!Constructed
          /\ \E D : Passed(C, D, l, other)
      BY <1>5, ListMoveConstructs
    <2>2. other # l
      BY <2>1 DEF Owning!Constructed
    <2> QED BY <2>1, <2>2 DEF Gets
  <1>6. ASSUME NEW l \in Objects, NEW other \in Objects, Owning!CopyAssign(l, other)
        PROVE  Gets(C, l)
    BY <1>6, ListCopyAssigns DEF Gets
  <1>7. ASSUME NEW l \in Objects, NEW other \in Objects, Owning!MoveAssign(l, other)
        PROVE  Gets(C, l) \/ GivenUp(C, l, Unusable)
    BY <1>7, ListMoveAssigns DEF Gets
  <1>8. ASSUME NEW l \in Objects, NEW v \in Values, Owning!PushBack(l, v) \/ Owning!PushFront(l, v)
        PROVE  Changes(C, l)
    BY <1>8, ListPushesBack, ListPushesFront DEF Changes
  <1>9. ASSUME NEW v \in Values, Owning!Modify(v) PROVE \E l \in Objects : Changes(C, l)
    <2>1. PICK l \in Owning!Constructed : \E i : Changed(C, l, i, v)
      BY <1>9, ListModifies
    <2> QED BY <2>1 DEF Changes, Owning!Constructed
  <1>10. CASE UNCHANGED listVars
    BY <1>10
  <1>11. CASE Owning!Next
    <2>1. CASE \E l \in Objects :
                 \/ Owning!Construct(l) \/ Owning!Destroy(l) \/ Owning!PopBack(l)
                 \/ Owning!PopFront(l) \/ Owning!Erase(l) \/ Owning!CopyThrows(l)
      BY <2>1, <1>1, <1>2, <1>3, <1>4, Zenon DEF ListEffect
    <2>2. CASE \E l, other \in Objects :
                 \/ Owning!MoveConstruct(l, other) \/ Owning!CopyAssign(l, other)
                 \/ Owning!MoveAssign(l, other)
      BY <2>2, <1>5, <1>6, <1>7, Zenon DEF ListEffect
    <2>3. CASE \E l \in Objects : \E v \in Values : Owning!PushBack(l, v) \/ Owning!PushFront(l, v)
      BY <2>3, <1>8, Zenon DEF ListEffect
    <2>4. CASE \E v \in Values : Owning!Modify(v)
      BY <2>4, <1>9, Zenon DEF ListEffect
    <2>5. CASE NodeItMoves
      BY <2>5
    <2> QED BY <1>11, <2>1, <2>2, <2>3, <2>4, <2>5, Zenon DEF Owning!Next, NodeItMoves
  <1> QED BY <1>10, <1>11

(* From each node of a ring there and back again *)
LEMMA RingNeighbours ==
  ASSUME NEW m, NEW r, NEW s, NodeRing(m, r, s), NEW a \in NodesOf(r, s)
  PROVE  /\ m[a].next \in DOMAIN m /\ m[a].prev \in DOMAIN m
         /\ m[m[a].next].prev = a
  <1>1. /\ Len(s) \in Nat /\ \A i : Nth(r, s, i) \in DOMAIN m
        /\ \A i \in 0..Len(s) : /\ m[Nth(r, s, i)].next = Nth(r, s, i + 1)
                                /\ m[Nth(r, s, i + 1)].prev = Nth(r, s, i)
    BY RingNodes
  <1>2. PICK i \in 0..Len(s) : a = Nth(r, s, i)
    BY RingNodes
  <1>3. m[a].next = Nth(r, s, i + 1) /\ m[Nth(r, s, i + 1)].prev = a
    BY <1>1, <1>2
  <1>4. \E j \in 0..Len(s) : a = Nth(r, s, j + 1)
    <2>1. CASE i = 0
      <3>1. a = Nth(r, s, Len(s) + 1) /\ Len(s) \in 0..Len(s)
        BY <1>1, <1>2, <2>1 DEF Nth
      <3> QED BY <3>1
    <2>2. CASE i # 0
      <3>1. i - 1 \in 0..Len(s) /\ i - 1 + 1 = i
        BY <1>1, <2>2
      <3> QED BY <1>2, <3>1
    <2> QED BY <2>1, <2>2
  <1>5. m[a].prev \in DOMAIN m
    BY <1>1, <1>4
  <1> QED BY <1>1, <1>3, <1>5

LEMMA MovedIterator ==
  ASSUME NEW C, NodesHold(C), NodeItMoves
  PROVE  node' = node /\ list' = list /\ nodeIt' \in DOMAIN node \cup {Nil}
  <1>1. NodeHeap(node) /\ \A l \in Owning!Constructed : list[l].root \in DOMAIN node
    <2>1. ASSUME NEW l \in Owning!Constructed PROVE list[l].root \in DOMAIN node
      BY HeldContents, RingNodes
    <2> QED BY <2>1 DEF NodesHold, HeapOf
  <1>2. \A a \in DOMAIN node : node[a].next \in DOMAIN node /\ node[a].prev \in DOMAIN node
    <2> SUFFICES ASSUME NEW a \in DOMAIN node
                 PROVE  node[a].next \in DOMAIN node /\ node[a].prev \in DOMAIN node
      OBVIOUS
    <2>1. PICK l \in Owning!Constructed : a \in NodesOf(list[l].root, C[l])
      BY DEF NodesHold, HeapOf, ListRing
    <2> QED BY <2>1, HeldContents, RingNeighbours
  <1>3. nodeIt \in DOMAIN node \cup {Nil}
    BY DEF NodesHold
  <1>4. CASE Owning!GetIterator
    BY <1>1, <1>2, <1>4 DEF Owning!GetIterator
  <1>5. CASE Owning!Increment \/ Owning!Decrement
    BY <1>2, <1>3, <1>5 DEF Owning!Increment, Owning!Decrement
  <1>6. CASE Owning!Forget
    BY <1>6 DEF Owning!Forget
  <1> QED BY <1>4, <1>5, <1>6 DEF NodeItMoves

LEMMA HoldStays ==
  ASSUME NEW C, NodesHold(C), node' = node, list' = list, nodeIt' \in DOMAIN node \cup {Nil}
  PROVE  NodesHoldNext(C)
  <1>1. Owning!Constructed' = Owning!Constructed
    BY DEF Owning!Constructed
  <1> QED BY <1>1 DEF NodesHold, NodesHoldNext

LEMMA HoldNext == \A D : NodesHoldNext(D) => NodesInv'
  BY DEF NodesHoldNext, NodesInv, NodesHold

LEMMA NodesNext == NodesInv /\ [Owning!Next]_listVars => NodesInv'
  <1>1. SUFFICES ASSUME NodesInv, [Owning!Next]_listVars PROVE NodesInv'
    OBVIOUS
  <1>2. PICK C : NodesHold(C)
    BY <1>1 DEF NodesInv
  <1>3. CASE UNCHANGED listVars
    <2>1. node' = node /\ list' = list /\ nodeIt' \in DOMAIN node \cup {Nil}
      BY <1>2, <1>3 DEF listVars, NodesHold
    <2> QED BY <1>2, <2>1, HoldStays, HoldNext
  <1>4. CASE NodeItMoves
    BY <1>2, <1>4, MovedIterator, HoldStays, HoldNext
  <1>5. ASSUME NEW l \in Objects, ListEffect(C, l) PROVE NodesInv'
    <2>1. \E D : NodesHoldNext(D)
      BY <1>5 DEF ListEffect, Gets, Changes, Renewed, Passed, GivenUp, Grown, Shrunk, Changed
    <2> QED BY <2>1, HoldNext
  <1> QED BY <1>1, <1>2, <1>3, <1>4, <1>5, ListStep

LEMMA NodesInit == Owning!Init => NodesInv
  <1>1. SUFFICES ASSUME Owning!Init PROVE NodesInv
    OBVIOUS
  <1>2. node = << >> /\ list = [l \in Objects |-> NoObject] /\ nodeIt = Nil
    BY <1>1 DEF Owning!Init
  <1>3. DOMAIN node = {} /\ Owning!Constructed = {}
    BY <1>2 DEF Owning!Constructed
  <1>4. NodeHeap(node)
    <2>1. node \in [DOMAIN node -> Entries]
      BY <1>2, <1>3
    <2> QED BY <1>3, <2>1, FS_EmptySet DEF NodeHeap
  <1>5. HeapOf(node, Owning!Constructed, list, << >>)
    BY <1>3, <1>4 DEF HeapOf
  <1>6. NodesHold(<< >>)
    BY <1>2, <1>5 DEF NodesHold
  <1> QED BY <1>6 DEF NodesInv

LEMMA NodesInvOwned == NodesInv => NodesOwned
  <1>1. SUFFICES ASSUME NodesInv PROVE NodesOwned
    OBVIOUS
  <1>2. PICK C : NodesHold(C)
    BY <1>1 DEF NodesInv
  <1>3. /\ NodeHeap(node) /\ nodeIt \in DOMAIN node \cup {Nil}
        /\ DOMAIN node = UNION {ListRing(list, C, l) : l \in Owning!Constructed}
        /\ \A j, l \in Owning!Constructed : j # l => ListRing(list, C, j) \cap ListRing(list, C, l) = {}
    BY <1>2 DEF NodesHold, HeapOf
  <1>4. ASSUME NEW l \in Owning!Constructed
        PROVE  /\ NodeRing(node, list[l].root, C[l]) /\ list[l].root \in DOMAIN node
               /\ Owning!Length(l) = Len(C[l]) /\ list[l].size = Len(C[l]) /\ Len(C[l]) \in Nat
               /\ Owning!Range(Owning!Nodes(l)) = {C[l][i] : i \in 1..Len(C[l])}
    <2>1. NodeRing(node, list[l].root, C[l]) /\ Owning!Nodes(l) = C[l] /\ Owning!Length(l) = Len(C[l])
      BY <1>2, HeldContents
    <2>2. Len(C[l]) \in Nat /\ C[l] \in Seq(DOMAIN node) /\ list[l].root \in DOMAIN node
      BY <2>1, RingNodes
    <2>3. DOMAIN C[l] = 1..Len(C[l])
      BY <2>2
    <2>4. list[l].size = Len(C[l])
      BY <1>2, ListEnds
    <2> QED BY <2>1, <2>2, <2>3, <2>4 DEF Owning!Range
  <1>5. ASSUME NEW a \in DOMAIN node
        PROVE  /\ a \in Nat /\ node[a].value \in Values \cup {Nil}
               /\ node[a].next \in DOMAIN node /\ node[a].prev \in DOMAIN node
               /\ node[node[a].next].prev = a
               /\ \E l \in Owning!Constructed :
                    {k \in Owning!Constructed :
                       a = list[k].root \/ a \in Owning!Range(Owning!Nodes(k))} = {l}
    <2>1. PICK l \in Owning!Constructed : a \in ListRing(list, C, l)
      BY <1>3
    <2>2. \A k \in Owning!Constructed :
            (a = list[k].root \/ a \in Owning!Range(Owning!Nodes(k))) <=> a \in ListRing(list, C, k)
      BY <1>4 DEF ListRing, NodesOf
    <2>3. \A k \in Owning!Constructed : a \in ListRing(list, C, k) <=> k = l
      BY <1>3, <2>1
    <2>4. {k \in Owning!Constructed :
             a = list[k].root \/ a \in Owning!Range(Owning!Nodes(k))} = {l}
      BY <2>2, <2>3
    <2>5. /\ node[a].next \in DOMAIN node /\ node[a].prev \in DOMAIN node
          /\ node[node[a].next].prev = a
      BY <1>4, <2>1, RingNeighbours DEF ListRing
    <2>6. a \in Nat /\ node[a].value \in Values \cup {Nil}
      BY <1>3 DEF NodeHeap, Entries
    <2> QED BY <2>4, <2>5, <2>6
  <1>6. Owning!TypeOK
    BY <1>3, <1>4, <1>5 DEF Owning!TypeOK
  <1> QED BY <1>4, <1>5, <1>6 DEF NodesOwned, Owning!NodesOwned

(* Every root and every node of a List belongs to one list, next and prev  *)
(* agree and size_ is right, through copies, moves, moves to itself, pops, *)
(* erasures and calls that throw, for lists of any length (list.h:113-250).*)
THEOREM NodesAlwaysOwned == Owning!Spec => []NodesOwned
  BY NodesInit, NodesNext, NodesInvOwned, PTL DEF Owning!Spec, Owning!vars, listVars

-----------------------------------------------------------------------------
(* The lists as sequences, with the iterator at an index *)
ItemsFor(m, K, q, C) == [l \in Objects |-> IF l \in K THEN ValuesIn(m, C[l]) ELSE q[l]]

LEMMA ListedNow ==
  ASSUME NEW C, NodesHold(C)
  PROVE  Owning!AllContents = ItemsFor(node, Owning!Constructed, list, C)
  BY HeldContents DEF Owning!AllContents, ItemsFor

LEMMA ListedNext ==
  ASSUME NEW D, NodesHoldNext(D)
  PROVE  Owning!AllContents' = ItemsFor(node', Owning!Constructed', list', D)
  <1>1. ASSUME NEW l \in Owning!Constructed' PROVE Owning!Contents(l)' = ValuesIn(node', D[l])
    <2>1. NodeRing(node', list'[l].root, D[l]) /\ Len(D[l]) <= MaxSize
      BY DEF NodesHoldNext, HeapOf, RingIn
    <2>2. ValuesFrom(node', list'[l].root) = ValuesIn(node', D[l])
      BY <2>1, NodesAre
    <2> QED BY <2>2, WalkedNext
  <1>2. Owning!AllContents'
          = [l \in Objects |-> IF l \in Owning!Constructed' THEN Owning!Contents(l)' ELSE list'[l]]
    BY DEF Owning!AllContents
  <1> QED BY <1>1, <1>2 DEF ItemsFor

PlaceFor(K, q, C, x, l, i) ==
  l \in K /\ i \in 1..(Len(C[l]) + 1) /\ x = Nth(q[l].root, C[l], i)

PositionIn(m, K, q, x) ==
  IF x = Nil THEN Nil
  ELSE LET Steps(l) == {n \in 1..MaxSize + 1 : NodeWalk(m, q[l].root)[n] = x}
           l == CHOOSE l \in K : Steps(l) # {}
       IN  <<l, Owning!Min(Steps(l))>>

LEMMA PositionSeen ==
  /\ Owning!Position = PositionIn(node, Owning!Constructed, list, nodeIt)
  /\ Owning!Position' = PositionIn(node', Owning!Constructed', list', nodeIt')
  <1>1. \A l : Owning!Walk(l) = NodeWalk(node, list[l].root)
    BY WalkedIs
  <1>2. \A l : Owning!Walk(l)' = NodeWalk(node', list'[l].root)
    BY WalkedNext
  <1>3. Owning!Position = PositionIn(node, Owning!Constructed, list, nodeIt)
    BY DEF Owning!Position, PositionIn, Owning!Walk, NodeWalk
  <1>4. Owning!Position' = PositionIn(node', Owning!Constructed', list', nodeIt')
    BY DEF Owning!Position, PositionIn, Owning!Walk, NodeWalk
  <1> QED BY <1>3, <1>4

LEMMA OwningLeast ==
  ASSUME NEW S, NEW x \in S, x \in Int, \A y \in S : y \in Int /\ x <= y
  PROVE  Owning!Min(S) = x
  <1> DEFINE Least(y) == y \in S /\ \A z \in S : y <= z
  <1>1. Least(x)
    OBVIOUS
  <1>2. \A y : Least(y) => y = x
    OBVIOUS
  <1>3. Owning!Min(S) = CHOOSE y \in S : \A z \in S : y <= z
    BY DEF Owning!Min
  <1> QED BY <1>1, <1>2, <1>3

LEMMA PlacedAt ==
  ASSUME NEW m, NEW K, NEW q, NEW C, HeapOf(m, K, q, C), NEW x, NEW l, NEW i,
         PlaceFor(K, q, C, x, l, i)
  PROVE  PositionIn(m, K, q, x) = <<l, i>> /\ x \in ListRing(q, C, l) /\ i \in Nat
  <1> DEFINE Steps(k) == {n \in 1..MaxSize + 1 : NodeWalk(m, q[k].root)[n] = x}
             r == q[l].root
             s == C[l]
  <1>1. /\ l \in K /\ i \in 1..(Len(s) + 1) /\ x = Nth(r, s, i) /\ MaxSize \in Nat /\ Nil \notin Nat
    BY ListBounds, ListNames DEF PlaceFor, Owning!BoundsAssumption, Owning!NamesAssumption
  <1>2. ASSUME NEW k \in K
        PROVE  /\ NodeRing(m, q[k].root, C[k]) /\ Len(C[k]) <= MaxSize
               /\ \A n \in 1..MaxSize + 1 : NodeWalk(m, q[k].root)[n] = Nth(q[k].root, C[k], n)
               /\ \A n : Nth(q[k].root, C[k], n) \in ListRing(q, C, k)
    <2>1. NodeRing(m, q[k].root, C[k]) /\ Len(C[k]) <= MaxSize
      BY DEF HeapOf, RingIn
    <2> QED BY <2>1, NodeWalkIs, RingNodes DEF ListRing
  <1>3. /\ Len(s) \in Nat /\ Len(s) <= MaxSize /\ \A j \in 1..Len(s) : s[j] # r
        /\ \A j, k \in 1..Len(s) : s[j] = s[k] => j = k
    BY <1>1, <1>2, RingNodes DEF NodeRing
  <1>4. x \in ListRing(q, C, l) /\ x \in DOMAIN m /\ x # Nil
    <2>1. x \in ListRing(q, C, l) /\ ListRing(q, C, l) \subseteq DOMAIN m
      BY <1>1, <1>2, ZenonT(30) DEF HeapOf
    <2>2. DOMAIN m \subseteq Nat
      BY DEF HeapOf, NodeHeap
    <2> QED BY <1>1, <2>1, <2>2
  <1>5. i \in 1..MaxSize + 1 /\ i \in Steps(l) /\ i \in Nat
    <2>1. i \in 1..MaxSize + 1 /\ i \in Nat
      BY <1>1, <1>3
    <2> QED BY <1>1, <1>2, <2>1
  <1>6. ASSUME NEW k \in K, Steps(k) # {} PROVE k = l
    <2>1. PICK n \in 1..MaxSize + 1 : Nth(q[k].root, C[k], n) = x
      BY <1>2, <1>6
    <2>2. x \in ListRing(q, C, k)
      BY <1>2, <2>1
    <2> QED BY <1>1, <1>4, <2>2 DEF HeapOf
  <1>7. ASSUME NEW n \in Steps(l) PROVE n \in Int /\ i <= n
    <2>1. n \in 1..MaxSize + 1 /\ Nth(r, s, n) = x
      BY <1>1, <1>2
    <2> HIDE DEF r, s
    <2> QED BY <1>1, <1>3, <2>1 DEF Nth
  <1>8. Owning!Min(Steps(l)) = i
    <2> HIDE DEF Steps
    <2> QED BY <1>5, <1>7, OwningLeast
  <1>9. (CHOOSE k \in K : Steps(k) # {}) = l
    <2>1. Steps(l) # {}
      BY <1>5
    <2> HIDE DEF Steps
    <2> QED BY <1>1, <1>6, <2>1
  <1> HIDE DEF r, s
  <1>10. PositionIn(m, K, q, x) = <<(CHOOSE k \in K : Steps(k) # {}), Owning!Min(Steps(CHOOSE k \in K : Steps(k) # {}))>>
    BY <1>4, Zenon DEF PositionIn
  <1> HIDE DEF Steps
  <1> QED BY <1>4, <1>5, <1>8, <1>9, <1>10

(* The sequences of the abstract lists *)
LEMMA InsertAtIs ==
  ASSUME NEW s, NEW n, NEW v
  PROVE  Owning!Abstract!InsertAt(s, n, v) = (SubSeq(s, 1, n - 1) \o <<v>>) \o SubSeq(s, n, Len(s))
  BY Zenon DEF Owning!Abstract!InsertAt

LEMMA InsertedIsInsertAt ==
  ASSUME NEW S, NEW s \in Seq(S), NEW k \in 0..Len(s), NEW v \in S
  PROVE  Owning!Abstract!InsertAt(s, k + 1, v) = Inserted(s, k, v)
  <1> DEFINE a == SubSeq(s, 1, k)
             b == SubSeq(s, k + 1, Len(s))
             c == a \o <<v>>
  <1>1. Len(s) \in Nat /\ \A i \in 1..Len(s) : s[i] \in S
    BY LenProperties, ElementOfSeq
  <1>2. a \in Seq(S) /\ Len(a) = k /\ \A i \in 1..k : a[i] = s[i]
    BY <1>1, SubSeqProperties
  <1>3. b \in Seq(S) /\ Len(b) = Len(s) - k /\ \A i \in 1..(Len(s) - k) : b[i] = s[k + i]
    <2>1. \A i \in 1..(Len(s) - k) : k + 1 + i - 1 = k + i
      BY <1>1
    <2>2. b \in Seq(S) /\ Len(b) = Len(s) - k
      BY <1>1, SubSeqProperties
    <2>3. ASSUME NEW i \in 1..(Len(s) - k) PROVE b[i] = s[k + i]
      BY <1>1
    <2> QED BY <2>2, <2>3
  <1> HIDE DEF a, b
  <1>4. c \in Seq(S) /\ Len(c) = k + 1 /\ \A i \in 1..(k + 1) : c[i] = IF i <= k THEN a[i] ELSE v
    <2>1. <<v>> \in Seq(S) /\ Len(<<v>>) = 1 /\ <<v>>[1] = v
      OBVIOUS
    <2>2. c \in Seq(S) /\ Len(c) = k + 1
      BY <1>1, <1>2, <2>1, ConcatProperties
    <2>3. ASSUME NEW i \in 1..(k + 1) PROVE c[i] = IF i <= k THEN a[i] ELSE v
      <3>1. c[i] = IF i <= k THEN a[i] ELSE <<v>>[i - k]
        BY <1>1, <1>2, <2>1, ConcatProperties
      <3>2. ~(i <= k) => i - k = 1
        BY <1>1
      <3> QED BY <2>1, <3>1, <3>2
    <2> QED BY <2>2, <2>3
  <1> HIDE DEF c
  <1>5. /\ c \o b \in Seq(S) /\ Len(c \o b) = Len(s) + 1
        /\ \A i \in 1..(Len(s) + 1) : (c \o b)[i] = IF i <= k + 1 THEN c[i] ELSE b[i - (k + 1)]
    <2>1. /\ c \o b \in Seq(S) /\ Len(c \o b) = Len(c) + Len(b)
          /\ \A i \in 1..(Len(c) + Len(b)) :
               (c \o b)[i] = IF i <= Len(c) THEN c[i] ELSE b[i - Len(c)]
      BY <1>3, <1>4, ConcatProperties, Zenon
    <2>2. Len(c) + Len(b) = Len(s) + 1 /\ Len(c) = k + 1
      BY <1>1, <1>3, <1>4
    <2> QED BY <2>1, <2>2
  <1>6. /\ Inserted(s, k, v) \in Seq(S) /\ Len(Inserted(s, k, v)) = Len(s) + 1
        /\ \A i \in 1..(Len(s) + 1) :
             Inserted(s, k, v)[i] = IF i <= k THEN s[i] ELSE IF i = k + 1 THEN v ELSE s[i - 1]
    <2>1. Inserted(s, k, v) \in Seq(S) /\ Len(Inserted(s, k, v)) = Len(s) + 1
      BY InsertedSeq
    <2> QED BY <2>1 DEF Inserted
  <1> DEFINE t == Inserted(s, k, v)
             u == c \o b
  <1> HIDE DEF t, u
  <1>7. ASSUME NEW i \in 1..(Len(s) + 1) PROVE t[i] = u[i]
    <2>1. /\ t[i] = IF i <= k THEN s[i] ELSE IF i = k + 1 THEN v ELSE s[i - 1]
          /\ u[i] = IF i <= k + 1 THEN c[i] ELSE b[i - (k + 1)]
      BY <1>5, <1>6, <1>7 DEF t, u
    <2>2. CASE i <= k + 1
      <3>1. c[i] = IF i <= k THEN a[i] ELSE v
        BY <1>4, <2>2
      <3>2. i <= k => a[i] = s[i]
        BY <1>1, <1>2
      <3>3. i <= k \/ i = k + 1
        BY <1>1, <2>2
      <3> QED BY <1>1, <2>1, <2>2, <3>1, <3>2, <3>3
    <2>3. CASE ~(i <= k + 1)
      <3>1. /\ i - (k + 1) \in 1..(Len(s) - k) /\ k + (i - (k + 1)) = i - 1
            /\ ~(i <= k) /\ i # k + 1
        BY <1>1, <2>3
      <3>2. b[i - (k + 1)] = s[i - 1]
        BY <1>3, <3>1
      <3> QED BY <2>1, <2>3, <3>1, <3>2
    <2> QED BY <2>2, <2>3
  <1>8. t = u
    <2>1. t \in Seq(S) /\ u \in Seq(S) /\ Len(t) = Len(u) /\ \A i \in 1..Len(t) : t[i] = u[i]
      BY <1>5, <1>6, <1>7 DEF t, u
    <2> QED BY <2>1, SeqEqual
  <1>9. ASSUME NEW n, n = k + 1
        PROVE  Owning!Abstract!InsertAt(s, n, v) = u
    <2>1. n - 1 = k
      BY <1>1, <1>9
    <2>2. Owning!Abstract!InsertAt(s, n, v) = (SubSeq(s, 1, n - 1) \o <<v>>) \o SubSeq(s, n, Len(s))
      BY InsertAtIs
    <2>3. SubSeq(s, 1, n - 1) = a /\ SubSeq(s, n, Len(s)) = b
      BY <1>9, <2>1, Zenon DEF a, b
    <2> QED BY <2>2, <2>3, Zenon DEF u, c
  <1> QED BY <1>8, <1>9 DEF t

LEMMA RemovedIsListRemoveAt ==
  ASSUME NEW S, NEW s \in Seq(S), NEW k \in 1..Len(s)
  PROVE  Owning!Abstract!RemoveAt(s, k) = Removed(s, k)
  <1> DEFINE a == SubSeq(s, 1, k - 1)
             b == SubSeq(s, k + 1, Len(s))
  <1>1. Len(s) \in Nat /\ \A i \in 1..Len(s) : s[i] \in S
    BY LenProperties, ElementOfSeq
  <1>2. a \in Seq(S) /\ Len(a) = k - 1 /\ \A i \in 1..(k - 1) : a[i] = s[i]
    <2>1. 1 \in 1..(Len(s) + 1) /\ k - 1 \in 0..Len(s) /\ 1 <= k - 1 + 1
      BY <1>1
    <2>2. \A i \in 1..(k - 1) : s[1 + i - 1] = s[i]
      BY <1>1
    <2> QED BY <1>1, <2>1, <2>2, SubSeqProperties
  <1>3. b \in Seq(S) /\ Len(b) = Len(s) - k /\ \A i \in 1..(Len(s) - k) : b[i] = s[k + i]
    <2>1. \A i \in 1..(Len(s) - k) : k + i \in 1..Len(s)
      BY <1>1
    <2>2. b \in Seq(S) /\ Len(b) = Len(s) - k
      BY <1>1, SubSeqProperties
    <2>3. ASSUME NEW i \in 1..(Len(s) - k) PROVE b[i] = s[k + i]
      BY <1>1
    <2> QED BY <2>2, <2>3
  <1> HIDE DEF a, b
  <1>4. /\ a \o b \in Seq(S) /\ Len(a \o b) = Len(s) - 1
        /\ \A i \in 1..(Len(s) - 1) : (a \o b)[i] = IF i <= k - 1 THEN a[i] ELSE b[i - (k - 1)]
    BY <1>1, <1>2, <1>3, ConcatProperties
  <1>5. ASSUME NEW i \in 1..(Len(s) - 1) PROVE Removed(s, k)[i] = (a \o b)[i]
    <2>0. Removed(s, k)[i] = IF i < k THEN s[i] ELSE s[i + 1]
      BY RemovedSeq, Zenon
    <2>1. CASE i <= k - 1
      <3>1. i < k /\ i \in 1..(k - 1)
        BY <1>1, <2>1
      <3>2. Removed(s, k)[i] = s[i] /\ a[i] = s[i]
        BY <1>2, <2>0, <3>1
      <3>3. (a \o b)[i] = a[i]
        BY <1>4, <2>1
      <3> QED BY <3>2, <3>3
    <2>2. CASE ~(i <= k - 1)
      <3>1. i - (k - 1) \in 1..(Len(s) - k) /\ k + (i - (k - 1)) = i + 1 /\ ~(i < k)
        BY <1>1, <2>2
      <3>2. Removed(s, k)[i] = s[i + 1] /\ b[i - (k - 1)] = s[i + 1]
        BY <1>3, <2>0, <3>1
      <3>3. (a \o b)[i] = b[i - (k - 1)]
        BY <1>4, <2>2
      <3> QED BY <3>2, <3>3
    <2> QED BY <2>1, <2>2
  <1>6. Removed(s, k) \in Seq(S) /\ Len(Removed(s, k)) = Len(s) - 1
    BY RemovedSeq
  <1>7. Removed(s, k) = a \o b
    BY <1>4, <1>5, <1>6, SeqEqual
  <1> QED BY <1>7 DEF Owning!Abstract!RemoveAt, a, b

-----------------------------------------------------------------------------
(* The iterator before and after a step *)
PlaceNext(D, l, i) == PlaceFor(Owning!Constructed', list', D, nodeIt', l, i)

LEMMA PositionNow ==
  ASSUME NEW C, NodesHold(C)
  PROVE  /\ nodeIt = Nil => Owning!Position = Nil
         /\ nodeIt # Nil => \E l \in Owning!Constructed : \E i : AtPlace(C, l, i)
         /\ \A l, i : AtPlace(C, l, i) =>
              /\ Owning!Position = <<l, i>> /\ nodeIt \in ListRing(list, C, l) /\ nodeIt # Nil
              /\ Owning!Position # Nil /\ i \in Nat /\ l \in Owning!Constructed
  <1>1. nodeIt = Nil => Owning!Position = Nil
    BY PositionSeen DEF PositionIn
  <1>2. nodeIt # Nil => \E l \in Owning!Constructed : \E i : AtPlace(C, l, i)
    BY SomePlace
  <1>3. ASSUME NEW l, NEW i, AtPlace(C, l, i)
        PROVE  /\ Owning!Position = <<l, i>> /\ nodeIt \in ListRing(list, C, l) /\ nodeIt # Nil
               /\ Owning!Position # Nil /\ i \in Nat /\ l \in Owning!Constructed
    <2>1. HeapOf(node, Owning!Constructed, list, C)
      BY DEF NodesHold
    <2>2. PlaceFor(Owning!Constructed, list, C, nodeIt, l, i)
      BY <1>3 DEF AtPlace, PlaceFor
    <2>3. /\ PositionIn(node, Owning!Constructed, list, nodeIt) = <<l, i>>
          /\ nodeIt \in ListRing(list, C, l) /\ i \in Nat
      BY <2>1, <2>2, PlacedAt
    <2>4. Owning!Position = <<l, i>> /\ l \in Owning!Constructed /\ l \in Objects
      BY <1>3, <2>3, PositionSeen DEF AtPlace, Owning!Constructed
    <2>5. Nil \notin Objects \X Nat /\ Nil \notin Nat
      BY ListNames DEF Owning!NamesAssumption
    <2>6. nodeIt \in Nat
      <3>1. DOMAIN node \subseteq Nat
        BY <2>1 DEF HeapOf, NodeHeap
      <3>2. ListRing(list, C, l) \subseteq DOMAIN node
        BY <2>1, <2>4 DEF HeapOf
      <3> QED BY <2>3, <3>1, <3>2
    <2>7. <<l, i>> \in Objects \X Nat
      BY <2>3, <2>4
    <2>8. nodeIt # Nil /\ Owning!Position # Nil
      BY <2>4, <2>5, <2>6, <2>7
    <2> QED BY <2>3, <2>4, <2>8
  <1> QED BY <1>1, <1>2, <1>3

LEMMA PositionNext ==
  ASSUME NEW D, NodesHoldNext(D)
  PROVE  /\ nodeIt' = Nil => Owning!Position' = Nil
         /\ \A l, i : PlaceNext(D, l, i) => Owning!Position' = <<l, i>>
  <1>1. nodeIt' = Nil => Owning!Position' = Nil
    BY PositionSeen DEF PositionIn
  <1>2. ASSUME NEW l, NEW i, PlaceNext(D, l, i) PROVE Owning!Position' = <<l, i>>
    <2>1. HeapOf(node', Owning!Constructed', list', D)
      BY DEF NodesHoldNext
    <2>2. PlaceFor(Owning!Constructed', list', D, nodeIt', l, i)
      BY <1>2 DEF PlaceNext
    <2>3. PositionIn(node', Owning!Constructed', list', nodeIt') = <<l, i>>
      BY <2>1, <2>2, PlacedAt
    <2> QED BY <2>3, PositionSeen
  <1> QED BY <1>1, <1>2

(* An iterator to a list that is left alone *)
LEMMA StaysInPlace ==
  ASSUME NEW C, NodesHold(C), NEW D, NodesHoldNext(D), NEW L, Untouched(C, D, L),
         Owning!IteratorKept, NEW k, NEW i, AtPlace(C, k, i), k \notin L
  PROVE  Owning!Position' = Owning!Position
  <1>1. k \in Owning!Constructed \ L /\ k \in Objects \ L
    BY DEF AtPlace, Owning!Constructed
  <1>2. nodeIt \in ListRing(list, C, k) /\ Owning!Position = <<k, i>>
    BY PositionNow
  <1>3. /\ k \in Owning!Constructed' /\ D[k] = C[k] /\ list'[k] = list[k]
        /\ nodeIt \in DOMAIN node'
    BY <1>1, <1>2 DEF Untouched
  <1>4. nodeIt' = nodeIt
    BY <1>3 DEF Owning!IteratorKept
  <1>5. PlaceNext(D, k, i)
    BY <1>3, <1>4 DEF AtPlace, PlaceNext, PlaceFor
  <1> QED BY <1>2, <1>5, PositionNext

LEMMA NoIterator ==
  ASSUME NEW C, NodesHold(C), NEW D, NodesHoldNext(D), Owning!IteratorKept,
         nodeIt = Nil \/ nodeIt \notin DOMAIN node'
  PROVE  Owning!Position' = Nil /\ nodeIt' = Nil
  <1>1. Nil \notin DOMAIN node'
    BY ListNames DEF NodesHoldNext, HeapOf, NodeHeap, Owning!NamesAssumption
  <1>2. nodeIt' = Nil
    BY <1>1 DEF Owning!IteratorKept
  <1> QED BY <1>2, PositionNext

-----------------------------------------------------------------------------
(* What the steps do to the sequences *)
LEMMA ItemsKept ==
  ASSUME NEW C, NodesHold(C), NEW D, NodesHoldNext(D), NEW L, Untouched(C, D, L),
         NEW k \in Objects \ L
  PROVE  Owning!AllContents'[k] = Owning!AllContents[k]
  <1>1. Owning!AllContents = ItemsFor(node, Owning!Constructed, list, C)
    BY ListedNow
  <1>2. Owning!AllContents' = ItemsFor(node', Owning!Constructed', list', D)
    BY ListedNext
  <1>3. list'[k] = list[k]
    BY DEF Untouched
  <1>4. k \in Owning!Constructed' <=> k \in Owning!Constructed
    BY <1>3 DEF Owning!Constructed
  <1>5. CASE k \notin Owning!Constructed
    BY <1>1, <1>2, <1>3, <1>4, <1>5 DEF ItemsFor
  <1>6. CASE k \in Owning!Constructed
    <2>1. D[k] = C[k] /\ \A a \in ListRing(list, C, k) : node'[a] = node[a]
      BY <1>6 DEF Untouched
    <2>2. \A i \in 1..Len(C[k]) : C[k][i] \in ListRing(list, C, k)
      BY DEF ListRing, NodesOf
    <2>3. ValuesIn(node', D[k]) = ValuesIn(node, C[k])
      BY <2>1, <2>2 DEF ValuesIn
    <2> QED BY <1>1, <1>2, <1>4, <1>6, <2>3 DEF ItemsFor
  <1> QED BY <1>5, <1>6

LEMMA ItemsBecome ==
  ASSUME NEW C, NodesHold(C), NEW D, NodesHoldNext(D), NEW l, Untouched(C, D, {l}),
         NEW s, Owning!AllContents'[l] = s
  PROVE  Owning!AllContents' = [Owning!AllContents EXCEPT ![l] = s]
  <1>1. \A k \in Objects : k # l => Owning!AllContents'[k] = Owning!AllContents[k]
    BY ItemsKept
  <1>2. Owning!AllContents' = [k \in Objects |-> Owning!AllContents'[k]]
    BY ListedNext DEF ItemsFor
  <1>3. Owning!AllContents = [k \in Objects |-> Owning!AllContents[k]]
    BY ListedNow DEF ItemsFor
  <1> HIDE DEF Owning!AllContents
  <1> QED BY <1>1, <1>2, <1>3

LEMMA ItemsNow ==
  ASSUME NEW C, NodesHold(C), NEW l \in Owning!Constructed
  PROVE  /\ Owning!AllContents[l] = ValuesIn(node, C[l]) /\ l \in Objects
         /\ ValuesIn(node, C[l]) \in Seq(Values) /\ Len(ValuesIn(node, C[l])) = Len(C[l])
         /\ Owning!AllContents[l] \notin {NoObject, Unusable}
  <1>1. Owning!AllContents = ItemsFor(node, Owning!Constructed, list, C)
    BY ListedNow
  <1>2. l \in Objects
    BY DEF Owning!Constructed
  <1>3. HeapOf(node, Owning!Constructed, list, C)
    BY DEF NodesHold
  <1>4. ValuesIn(node, C[l]) \in Seq(Values) /\ Len(ValuesIn(node, C[l])) = Len(C[l])
    BY <1>3, HeldValues
  <1>5. Owning!AllContents[l] = ValuesIn(node, C[l])
    BY <1>1, <1>2 DEF ItemsFor
  <1>6. NoObject \notin Seq(Values) /\ Unusable \notin Seq(Values)
    BY ListNames DEF Owning!NamesAssumption
  <1> QED BY <1>2, <1>4, <1>5, <1>6

LEMMA IsLiveList ==
  ASSUME NEW C, NodesHold(C), NEW l \in Owning!Constructed
  PROVE  l \in Owning!Abstract!Live
  <1>1. l \in Objects /\ Owning!AllContents[l] \notin {NoObject, Unusable}
    BY ItemsNow
  <1> QED BY <1>1, Zenon DEF Owning!Abstract!Live

LEMMA ItemsGone ==
  ASSUME NEW C, NodesHold(C), NEW l \in Objects, list[l] = NoObject
  PROVE  Owning!AllContents[l] = NoObject
  <1>1. Owning!AllContents = ItemsFor(node, Owning!Constructed, list, C)
    BY ListedNow
  <1>2. l \notin Owning!Constructed
    BY DEF Owning!Constructed
  <1> QED BY <1>1, <1>2 DEF ItemsFor

(* l lets go of all its nodes, and with them of the iterator. *)
LEMMA GivesPosition ==
  ASSUME NEW C, NodesHold(C), NEW D, NodesHoldNext(D), NEW l, Untouched(C, D, {l}),
         Owning!IteratorKept,
         l \in Owning!Constructed => ListRing(list, C, l) \cap DOMAIN node' = {}
  PROVE  Owning!Position' = IF Owning!Position # Nil /\ Owning!Position[1] = l THEN Nil ELSE Owning!Position
  <1>1. CASE nodeIt = Nil
    BY <1>1, NoIterator, PositionNow
  <1>2. CASE nodeIt # Nil
    <2>1. PICK k \in Owning!Constructed : \E i : AtPlace(C, k, i)
      BY <1>2, PositionNow
    <2>2. PICK i : AtPlace(C, k, i)
      BY <2>1
    <2>3. Owning!Position = <<k, i>> /\ nodeIt \in ListRing(list, C, k) /\ Owning!Position # Nil
      BY <2>2, PositionNow
    <2>4. Owning!Position[1] = k
      BY <2>3
    <2>5. CASE k = l
      <3>1. nodeIt \notin DOMAIN node'
        BY <2>3, <2>5
      <3>2. Owning!Position' = Nil
        BY <3>1, NoIterator
      <3> QED BY <2>3, <2>4, <2>5, <3>2
    <2>6. CASE k # l
      <3>1. Owning!Position' = Owning!Position
        BY <2>2, <2>6, StaysInPlace
      <3> QED BY <2>4, <2>6, <3>1
    <2> QED BY <2>5, <2>6
  <1> QED BY <1>1, <1>2

LEMMA GivesRefines ==
  ASSUME NEW C, NodesHold(C), NEW D, NodesHoldNext(D), NEW l, Untouched(C, D, {l}),
         Owning!IteratorKept,
         l \in Owning!Constructed => ListRing(list, C, l) \cap DOMAIN node' = {},
         NEW s, Owning!AllContents'[l] = s
  PROVE  Owning!Abstract!Gives(l, s)
  <1>1. Owning!AllContents' = [Owning!AllContents EXCEPT ![l] = s]
    BY ItemsBecome
  <1>2. Owning!Position' = IF Owning!Position # Nil /\ Owning!Position[1] = l THEN Nil ELSE Owning!Position
    BY GivesPosition
  <1> QED BY <1>1, <1>2, Zenon DEF Owning!Abstract!Gives, Owning!Abstract!At

(* Construction, copies, moves to itself and destruction *)
LEMMA RenewedRefines ==
  ASSUME NEW C, NodesHold(C), NEW l \in Objects, NEW s, NEW D, Renewed(C, D, l, s)
  PROVE  Owning!Abstract!Gives(l, s)
  <1>1. /\ NodesHoldNext(D) /\ Untouched(C, D, {l}) /\ Owning!IteratorKept
        /\ l \in Owning!Constructed => ListRing(list, C, l) \cap DOMAIN node' = {}
        /\ l \in Owning!Constructed' /\ ValuesIn(node', D[l]) = s
    BY DEF Renewed
  <1>2. Owning!AllContents'[l] = s
    BY <1>1, ListedNext DEF ItemsFor
  <1> QED BY <1>1, <1>2, GivesRefines

LEMMA GivenUpRefines ==
  ASSUME NEW C, NodesHold(C), NEW l \in Objects, NEW e \in {NoObject, Unusable}, GivenUp(C, l, e)
  PROVE  Owning!Abstract!Gives(l, e) /\ l \in Owning!Abstract!Live
  <1>1. /\ NodesHoldNext(C) /\ Untouched(C, C, {l}) /\ Owning!IteratorKept
        /\ ListRing(list, C, l) \cap DOMAIN node' = {}
        /\ l \notin Owning!Constructed' /\ list'[l] = e /\ l \in Owning!Constructed
    BY DEF GivenUp
  <1>2. Owning!AllContents'[l] = e
    BY <1>1, ListedNext DEF ItemsFor
  <1>3. Owning!Abstract!Gives(l, e)
    BY <1>1, <1>2, GivesRefines
  <1> QED BY <1>1, <1>3, IsLiveList

(* The iterator goes along with the ring. *)
LEMMA TakesPosition ==
  ASSUME NEW C, NodesHold(C), NEW l \in Objects, NEW other \in Owning!Constructed, other # l,
         NEW D, Passed(C, D, l, other)
  PROVE  Owning!Position' =
           IF Owning!Position # Nil /\ Owning!Position[1] = l THEN Nil
           ELSE IF Owning!Position # Nil /\ Owning!Position[1] = other THEN <<l, Owning!Position[2]>>
           ELSE Owning!Position
  <1>1. /\ NodesHoldNext(D) /\ Untouched(C, D, {l, other}) /\ Owning!IteratorKept
        /\ D[l] = C[other] /\ list'[l] = list[other] /\ l \in Owning!Constructed'
        /\ \A a \in ListRing(list, C, other) : a \in DOMAIN node'
        /\ l \in Owning!Constructed => ListRing(list, C, l) \cap DOMAIN node' = {}
    BY DEF Passed
  <1>2. CASE nodeIt = Nil
    BY <1>1, <1>2, NoIterator, PositionNow
  <1>3. CASE nodeIt # Nil
    <2>1. PICK k \in Owning!Constructed : \E i : AtPlace(C, k, i)
      BY <1>3, PositionNow
    <2>2. PICK i : AtPlace(C, k, i)
      BY <2>1
    <2>3. Owning!Position = <<k, i>> /\ nodeIt \in ListRing(list, C, k) /\ Owning!Position # Nil
      BY <2>2, PositionNow
    <2>4. Owning!Position[1] = k /\ Owning!Position[2] = i
      BY <2>3
    <2>5. CASE k = l
      <3>1. nodeIt \notin DOMAIN node'
        BY <1>1, <2>3, <2>5
      <3>2. Owning!Position' = Nil
        BY <1>1, <3>1, NoIterator
      <3> QED BY <2>3, <2>4, <2>5, <3>2
    <2>6. CASE k = other
      <3>1. nodeIt' = nodeIt
        BY <1>1, <2>3, <2>6 DEF Owning!IteratorKept
      <3>2. PlaceNext(D, l, i)
        BY <1>1, <2>2, <2>6, <3>1 DEF AtPlace, PlaceNext, PlaceFor
      <3>3. Owning!Position' = <<l, i>>
        BY <1>1, <3>2, PositionNext
      <3> QED BY <2>3, <2>4, <2>6, <3>3
    <2>7. CASE k # l /\ k # other
      <3>1. Owning!Position' = Owning!Position
        BY <1>1, <2>2, <2>7, StaysInPlace
      <3> QED BY <2>4, <2>7, <3>1
    <2> QED BY <2>5, <2>6, <2>7
  <1> QED BY <1>2, <1>3

LEMMA PassedRefines ==
  ASSUME NEW C, NodesHold(C), NEW l \in Objects, NEW other \in Owning!Constructed, other # l,
         NEW D, Passed(C, D, l, other)
  PROVE  Owning!Abstract!Takes(l, other)
  <1> DEFINE q == Owning!AllContents
             p == Owning!AllContents'
  <1>1. /\ NodesHoldNext(D) /\ Untouched(C, D, {l, other})
        /\ D[l] = C[other] /\ D[other] = << >>
        /\ l \in Owning!Constructed' /\ other \in Owning!Constructed' /\ other \in Objects
        /\ \A a \in ListRing(list, C, other) : node'[a] = node[a]
    BY DEF Passed, Owning!Constructed
  <1>2. p = ItemsFor(node', Owning!Constructed', list', D)
    BY <1>1, ListedNext
  <1>3. q = ItemsFor(node, Owning!Constructed, list, C)
    BY ListedNow
  <1>4. p[other] = << >>
    BY <1>1, <1>2, EmptyValues DEF ItemsFor
  <1>5. p[l] = q[other]
    <2>1. \A i \in 1..Len(C[other]) : C[other][i] \in ListRing(list, C, other)
      BY DEF ListRing, NodesOf
    <2>2. ValuesIn(node', D[l]) = ValuesIn(node, C[other])
      BY <1>1, <2>1 DEF ValuesIn
    <2> QED BY <1>1, <1>2, <1>3, <2>2 DEF ItemsFor
  <1>6. \A k \in Objects : k # l /\ k # other => p[k] = q[k]
    BY <1>1, ItemsKept
  <1>7. p = [k \in Objects |-> p[k]] /\ q = [k \in Objects |-> q[k]]
    BY <1>2, <1>3 DEF ItemsFor
  <1> HIDE DEF p, q
  <1>8. p = [q EXCEPT ![l] = q[other], ![other] = << >>]
    BY <1>1, <1>4, <1>5, <1>6, <1>7
  <1> QED BY <1>8, TakesPosition, Zenon DEF Owning!Abstract!Takes, Owning!Abstract!At, p, q

LEMMA GetsRefines ==
  ASSUME NEW C, NodesHold(C), NEW l \in Objects, Gets(C, l)
  PROVE  Owning!Abstract!Construct(l) \/ Owning!Abstract!Assign(l)
  <1>1. \A k \in Owning!Constructed : k \in Owning!Abstract!Live
    BY IsLiveList
  <1>2. l \in Owning!Abstract!Live \/ Owning!AllContents[l] = NoObject
    <2>1. CASE l \in Owning!Constructed
      BY <1>1, <2>1
    <2>2. CASE list[l] = NoObject
      BY <2>2, ItemsGone
    <2> QED BY <2>1, <2>2 DEF Gets
  <1>3. ASSUME NEW D, Renewed(C, D, l, << >>)
        PROVE  Owning!Abstract!Construct(l) \/ Owning!Abstract!Assign(l)
    <2>1. Owning!Abstract!Gives(l, << >>)
      BY <1>3, RenewedRefines
    <2>2. CASE Owning!AllContents[l] = NoObject
      BY <2>1, <2>2, Zenon DEF Owning!Abstract!Construct
    <2>3. CASE l \in Owning!Abstract!Live
      <3>1. Owning!Abstract!Takes(l, l)
        <4>1. /\ Owning!AllContents' = [Owning!AllContents EXCEPT ![l] = << >>]
              /\ Owning!Position' = IF Owning!Abstract!At(l) THEN Nil ELSE Owning!Position
          BY <2>1, Zenon DEF Owning!Abstract!Gives
        <4>2. [Owning!AllContents EXCEPT ![l] = << >>]
                = [Owning!AllContents EXCEPT ![l] = Owning!AllContents[l], ![l] = << >>]
          BY Zenon
        <4> QED BY <4>1, <4>2, Zenon DEF Owning!Abstract!Takes
      <3> QED BY <2>3, <3>1, Zenon DEF Owning!Abstract!Assign
    <2> QED BY <1>2, <2>2, <2>3
  <1>4. ASSUME NEW other \in Owning!Constructed, NEW D, Renewed(C, D, l, ValuesIn(node, C[other]))
        PROVE  Owning!Abstract!Construct(l) \/ Owning!Abstract!Assign(l)
    <2>1. Owning!Abstract!Gives(l, Owning!AllContents[other]) /\ other \in Owning!Abstract!Live
      <3>1. Owning!AllContents[other] = ValuesIn(node, C[other])
        BY ItemsNow
      <3>2. Owning!Abstract!Gives(l, ValuesIn(node, C[other]))
        BY <1>4, RenewedRefines
      <3> QED BY <1>1, <3>1, <3>2, Zenon
    <2> QED BY <1>2, <2>1, Zenon DEF Owning!Abstract!Construct, Owning!Abstract!Assign
  <1>5. ASSUME NEW other \in Owning!Constructed, other # l, NEW D, Passed(C, D, l, other)
        PROVE  Owning!Abstract!Construct(l) \/ Owning!Abstract!Assign(l)
    <2>1. Owning!Abstract!Takes(l, other) /\ other \in Owning!Abstract!Live
      BY <1>1, <1>5, PassedRefines
    <2> QED BY <1>2, <2>1, Zenon DEF Owning!Abstract!Construct, Owning!Abstract!Assign
  <1> QED BY <1>3, <1>4, <1>5 DEF Gets

(* A value more, and one less *)
Longer(t, s, k, h, r) ==
  /\ Len(t) = Len(s) + 1
  /\ \A i \in 0..(Len(s) + 2) :
       Nth(r, t, i) = IF i <= k THEN Nth(r, s, i) ELSE IF i = k + 1 THEN h ELSE Nth(r, s, i - 1)

LEMMA InsertedLonger ==
  ASSUME NEW s \in Seq(Nat), NEW k \in 0..Len(s), NEW h \in Nat, NEW r
  PROVE  Longer(Inserted(s, k, h), s, k, h, r)
  <1>1. Len(Inserted(s, k, h)) = Len(s) + 1
    BY InsertedSeq
  <1>2. \A i \in 0..(Len(s) + 2) :
          Nth(r, Inserted(s, k, h), i)
            = IF i <= k THEN Nth(r, s, i) ELSE IF i = k + 1 THEN h ELSE Nth(r, s, i - 1)
    BY InsertedStops
  <1> QED BY <1>1, <1>2, Zenon DEF Longer

Shorter(t, s, k, r) ==
  /\ Len(t) = Len(s) - 1
  /\ \A i \in 0..Len(s) : Nth(r, t, i) = IF i < k THEN Nth(r, s, i) ELSE Nth(r, s, i + 1)

LEMMA RemovedShorter ==
  ASSUME NEW s \in Seq(Nat), NEW k \in 1..Len(s), NEW r
  PROVE  Shorter(Removed(s, k), s, k, r)
  <1>1. Len(Removed(s, k)) = Len(s) - 1
    BY RemovedSeq
  <1>2. \A i \in 0..Len(s) :
          Nth(r, Removed(s, k), i) = IF i < k THEN Nth(r, s, i) ELSE Nth(r, s, i + 1)
    BY RemovedStops
  <1> QED BY <1>1, <1>2, Zenon DEF Shorter

LEMMA GrownPosition ==
  ASSUME NEW C, NodesHold(C), NEW l \in Owning!Constructed, NEW i \in 0..Len(C[l]), NEW v \in Values,
         NEW D, Grown(C, D, l, i, v)
  PROVE  Owning!Position' =
           IF Owning!Position # Nil /\ Owning!Position[1] = l /\ Owning!Position[2] >= i + 1
           THEN <<l, Owning!Position[2] + 1>> ELSE Owning!Position
  <1>1. /\ NodesHoldNext(D) /\ Untouched(C, D, {l}) /\ l \in Owning!Constructed'
        /\ list'[l].root = list[l].root /\ ListRing(list, C, l) \subseteq DOMAIN node'
        /\ Owning!IteratorKept
    BY DEF Grown
  <1>2. PICK n \in Nat : D[l] = Inserted(C[l], i, n)
    BY DEF Grown
  <1>3. CASE nodeIt = Nil
    BY <1>1, <1>3, NoIterator, PositionNow
  <1>4. CASE nodeIt # Nil
    <2>1. PICK k \in Owning!Constructed : \E j : AtPlace(C, k, j)
      BY <1>4, PositionNow
    <2>2. PICK j : AtPlace(C, k, j)
      BY <2>1
    <2>3. /\ Owning!Position = <<k, j>> /\ nodeIt \in ListRing(list, C, k)
          /\ Owning!Position # Nil /\ j \in Nat
      BY <2>2, PositionNow
    <2>4. Owning!Position[1] = k /\ Owning!Position[2] = j
      BY <2>3
    <2>5. CASE k # l
      <3>1. Owning!Position' = Owning!Position
        BY <1>1, <2>2, <2>5, StaysInPlace
      <3> QED BY <2>4, <2>5, <3>1
    <2>6. CASE k = l
      <3> DEFINE r == list[l].root
                 s == C[l]
                 t == Inserted(s, i, n)
      <3>1. nodeIt' = nodeIt
        BY <1>1, <2>3, <2>6 DEF Owning!IteratorKept
      <3>2. /\ s \in Seq(Nat) /\ Len(s) \in Nat /\ j \in 1..(Len(s) + 1)
            /\ nodeIt = Nth(r, s, j)
        <4>1. NodeRing(node, r, s)
          BY HeldContents
        <4>2. s \in Seq(DOMAIN node) /\ DOMAIN node \subseteq Nat
          BY <4>1, RingNodes DEF NodesHold, HeapOf, NodeHeap
        <4>3. s \in Seq(Nat)
          BY <4>2
        <4> QED BY <2>2, <2>6, <4>3, LenProperties DEF AtPlace
      <3> HIDE DEF r, s
      <3>3. Longer(Inserted(s, i, n), s, i, n, r)
        <4>1. i \in 0..Len(s) /\ n \in Nat
          BY <1>2 DEF s
        <4>2. s \in Seq(Nat)
          BY <3>2
        <4> QED BY <4>1, <4>2, InsertedLonger
      <3>4. Longer(t, s, i, n, r)
        BY <3>3
      <3> HIDE DEF t
      <3>5. /\ Len(t) = Len(s) + 1
            /\ \A h \in 0..(Len(s) + 2) :
                 Nth(r, t, h) = IF h <= i THEN Nth(r, s, h) ELSE IF h = i + 1 THEN n ELSE Nth(r, s, h - 1)
        BY <3>4 DEF Longer
      <3> DEFINE h == IF j >= i + 1 THEN j + 1 ELSE j
      <3>6. h \in 1..(Len(t) + 1) /\ Nth(r, t, h) = nodeIt
        <4>1. i \in 0..Len(s)
          BY DEF s
        <4>2. CASE j >= i + 1
          <5>1. h = j + 1 /\ h \in 0..(Len(s) + 2) /\ ~(h <= i) /\ h # i + 1 /\ h - 1 = j
            BY <3>2, <4>1, <4>2
          <5> HIDE DEF h
          <5> QED BY <3>2, <3>5, <5>1
        <4>3. CASE ~(j >= i + 1)
          <5>1. h = j /\ h \in 0..(Len(s) + 2) /\ h <= i
            BY <3>2, <4>1, <4>3
          <5> HIDE DEF h
          <5> QED BY <3>2, <3>5, <5>1
        <4> QED BY <4>2, <4>3
      <3>7. PlaceNext(D, l, h)
        <4>1. D[l] = t /\ list'[l].root = r
          BY <1>1, <1>2 DEF r, s, t
        <4> HIDE DEF h
        <4> QED BY <1>1, <3>1, <3>6, <4>1 DEF PlaceNext, PlaceFor
      <3>8. Owning!Position' = <<l, h>>
        <4> HIDE DEF h
        <4> QED BY <1>1, <3>7, PositionNext
      <3> QED BY <2>3, <2>4, <2>6, <3>8
    <2> QED BY <2>5, <2>6
  <1> QED BY <1>3, <1>4

LEMMA GrownRefines ==
  ASSUME NEW C, NodesHold(C), NEW l \in Owning!Constructed, NEW i \in {0, Len(C[l])}, NEW v \in Values,
         NEW D, Grown(C, D, l, i, v)
  PROVE  Owning!Abstract!Insert(l)
  <1> DEFINE q == Owning!AllContents
             n == i + 1
  <1>1. /\ q[l] = ValuesIn(node, C[l]) /\ q[l] \in Seq(Values) /\ Len(q[l]) = Len(C[l])
    BY ItemsNow
  <1>2. Len(C[l]) \in Nat /\ i \in 0..Len(C[l])
    BY ListEnds
  <1>3. Owning!AllContents' = [q EXCEPT ![l] = Inserted(q[l], i, v)]
    <2>1. /\ NodesHoldNext(D) /\ Untouched(C, D, {l}) /\ l \in Owning!Constructed' /\ l \in Objects
          /\ ValuesIn(node', D[l]) = Inserted(q[l], i, v)
      BY <1>1 DEF Grown, Owning!Constructed
    <2>2. Owning!AllContents'[l] = Inserted(q[l], i, v)
      BY <2>1, ListedNext DEF ItemsFor
    <2> QED BY <2>1, <2>2, ItemsBecome
  <1>4. Inserted(q[l], i, v) = Owning!Abstract!InsertAt(q[l], n, v)
    <2> HIDE DEF q
    <2> QED BY <1>1, <1>2, InsertedIsInsertAt
  <1>5. Owning!Position' = IF Owning!Abstract!At(l) /\ Owning!Position[2] >= n
                           THEN <<l, Owning!Position[2] + 1>> ELSE Owning!Position
    BY <1>2, GrownPosition, Zenon DEF Owning!Abstract!At
  <1>6. n \in {1, Len(q[l]) + 1}
    <2> HIDE DEF q
    <2> QED BY <1>1, <1>2
  <1>7. l \in Owning!Abstract!Live
    BY IsLiveList
  <1> HIDE DEF n
  <1>8. Owning!AllContents' = [q EXCEPT ![l] = Owning!Abstract!InsertAt(q[l], n, v)]
    BY <1>3, <1>4
  <1> QED BY <1>5, <1>6, <1>7, <1>8, Zenon DEF Owning!Abstract!Insert, q

LEMMA ShrunkPosition ==
  ASSUME NEW C, NodesHold(C), NEW l \in Owning!Constructed, NEW i \in 1..Len(C[l]),
         NEW D, Shrunk(C, D, l, i)
  PROVE  Owning!Position' =
           IF ~(Owning!Position # Nil /\ Owning!Position[1] = l) \/ Owning!Position[2] < i
           THEN Owning!Position
           ELSE IF Owning!Position[2] = i THEN Nil ELSE <<l, Owning!Position[2] - 1>>
  <1>1. /\ NodesHoldNext(D) /\ Untouched(C, D, {l}) /\ l \in Owning!Constructed'
        /\ list'[l].root = list[l].root /\ D[l] = Removed(C[l], i)
        /\ ListRing(list, C, l) \ {C[l][i]} \subseteq DOMAIN node' /\ C[l][i] \notin DOMAIN node'
        /\ Owning!IteratorKept
    BY DEF Shrunk
  <1>2. CASE nodeIt = Nil
    BY <1>1, <1>2, NoIterator, PositionNow
  <1>3. CASE nodeIt # Nil
    <2>1. PICK k \in Owning!Constructed : \E j : AtPlace(C, k, j)
      BY <1>3, PositionNow
    <2>2. PICK j : AtPlace(C, k, j)
      BY <2>1
    <2>3. /\ Owning!Position = <<k, j>> /\ nodeIt \in ListRing(list, C, k)
          /\ Owning!Position # Nil /\ j \in Nat
      BY <2>2, PositionNow
    <2>4. Owning!Position[1] = k /\ Owning!Position[2] = j
      BY <2>3
    <2>5. CASE k # l
      <3>1. Owning!Position' = Owning!Position
        BY <1>1, <2>2, <2>5, StaysInPlace
      <3> QED BY <2>4, <2>5, <3>1
    <2>6. CASE k = l
      <3> DEFINE r == list[l].root
                 s == C[l]
                 t == Removed(s, i)
      <3>1. /\ s \in Seq(Nat) /\ Len(s) \in Nat /\ j \in 1..(Len(s) + 1)
            /\ nodeIt = Nth(r, s, j) /\ NodeRing(node, r, s)
        <4>1. NodeRing(node, r, s)
          BY HeldContents
        <4>2. s \in Seq(DOMAIN node) /\ DOMAIN node \subseteq Nat
          BY <4>1, RingNodes DEF NodesHold, HeapOf, NodeHeap
        <4>3. s \in Seq(Nat)
          BY <4>2
        <4> QED BY <2>2, <2>6, <4>1, <4>3, LenProperties DEF AtPlace
      <3>2. i \in 1..Len(s) /\ C[l][i] = s[i] /\ D[l] = t /\ list'[l].root = r
        BY <1>1
      <3>3. nodeIt \in ListRing(list, C, l)
        BY <2>3, <2>6
      <3> HIDE DEF r, s
      <3>4. Len(t) = Len(s) - 1 /\ \A h \in 0..Len(s) :
              Nth(r, t, h) = IF h < i THEN Nth(r, s, h) ELSE Nth(r, s, h + 1)
        <4>1. Shorter(Removed(s, i), s, i, r)
          BY <3>1, <3>2, RemovedShorter
        <4>2. Shorter(t, s, i, r)
          BY <4>1
        <4> HIDE DEF t
        <4> QED BY <4>2 DEF Shorter
      <3> HIDE DEF t
      <3>5. CASE j = i
        <4>1. nodeIt = s[i]
          BY <3>1, <3>2, <3>5 DEF Nth
        <4>2. nodeIt \notin DOMAIN node'
          BY <1>1, <3>2, <4>1
        <4>3. Owning!Position' = Nil
          BY <1>1, <4>2, NoIterator
        <4>4. ~(j < i)
          BY <3>2, <3>5
        <4> QED BY <2>3, <2>4, <2>6, <3>5, <4>3, <4>4
      <3>6. CASE j # i
        <4> DEFINE h == IF j < i THEN j ELSE j - 1
        <4>1. nodeIt # s[i]
          <5>1. CASE j \in 1..Len(s)
            <6>1. nodeIt = s[j]
              BY <3>1, <5>1 DEF Nth
            <6> QED BY <3>1, <3>2, <3>6, <5>1, <6>1 DEF NodeRing
          <5>2. CASE j \notin 1..Len(s)
            <6>1. nodeIt = r
              BY <3>1, <5>2 DEF Nth
            <6> QED BY <3>1, <3>2, <6>1 DEF NodeRing
          <5> QED BY <5>1, <5>2
        <4>2. nodeIt' = nodeIt
          BY <1>1, <3>2, <3>3, <4>1 DEF Owning!IteratorKept
        <4>3. h \in 1..(Len(t) + 1) /\ Nth(r, t, h) = nodeIt
          <5>1. CASE j < i
            <6>1. h = j /\ h \in 1..Len(s) /\ h \in 0..Len(s) /\ h < i
              BY <3>1, <3>2, <5>1
            <6> HIDE DEF h
            <6> QED BY <3>1, <3>4, <6>1
          <5>2. CASE ~(j < i)
            <6>1. h = j - 1 /\ h \in 1..Len(s) /\ h \in 0..Len(s) /\ ~(h < i) /\ h + 1 = j
              BY <3>1, <3>2, <3>6, <5>2
            <6> HIDE DEF h
            <6> QED BY <3>1, <3>4, <6>1
          <5> QED BY <5>1, <5>2
        <4> HIDE DEF h
        <4>4. PlaceNext(D, l, h)
          BY <1>1, <3>2, <4>2, <4>3 DEF PlaceNext, PlaceFor
        <4>5. Owning!Position' = <<l, h>>
          BY <1>1, <4>4, PositionNext
        <4> QED BY <2>3, <2>4, <2>6, <3>6, <4>5 DEF h
      <3> QED BY <3>5, <3>6
    <2> QED BY <2>5, <2>6
  <1> QED BY <1>2, <1>3

LEMMA ShrunkRefines ==
  ASSUME NEW C, NodesHold(C), NEW l \in Owning!Constructed, NEW i \in 1..Len(C[l]),
         NEW D, Shrunk(C, D, l, i)
  PROVE  Owning!Abstract!Delete(l)
  <1> DEFINE q == Owning!AllContents
  <1>1. /\ q[l] = ValuesIn(node, C[l]) /\ q[l] \in Seq(Values) /\ Len(q[l]) = Len(C[l])
    BY ItemsNow
  <1>2. Owning!AllContents' = [q EXCEPT ![l] = Removed(q[l], i)]
    <2>1. /\ NodesHoldNext(D) /\ Untouched(C, D, {l}) /\ l \in Owning!Constructed' /\ l \in Objects
          /\ ValuesIn(node', D[l]) = Removed(q[l], i)
      BY <1>1 DEF Shrunk, Owning!Constructed
    <2>2. Owning!AllContents'[l] = Removed(q[l], i)
      BY <2>1, ListedNext DEF ItemsFor
    <2> QED BY <2>1, <2>2, ItemsBecome
  <1>3. Removed(q[l], i) = Owning!Abstract!RemoveAt(q[l], i) /\ i \in DOMAIN q[l]
    <2> HIDE DEF q
    <2> QED BY <1>1, RemovedIsListRemoveAt
  <1>4. Owning!Position' = IF ~Owning!Abstract!At(l) \/ Owning!Position[2] < i THEN Owning!Position
                           ELSE IF Owning!Position[2] = i THEN Nil ELSE <<l, Owning!Position[2] - 1>>
    BY ShrunkPosition, Zenon DEF Owning!Abstract!At
  <1>5. l \in Owning!Abstract!Live
    BY IsLiveList
  <1>6. Owning!AllContents' = [q EXCEPT ![l] = Owning!Abstract!RemoveAt(q[l], i)]
    BY <1>2, <1>3
  <1> QED BY <1>3, <1>4, <1>5, <1>6, Zenon DEF Owning!Abstract!Delete, q

LEMMA ChangedRefines ==
  ASSUME NEW C, NodesHold(C), NEW l \in Owning!Constructed, NEW i, NEW v \in Values,
         Changed(C, l, i, v)
  PROVE  Owning!Abstract!Modify(l)
  <1> DEFINE q == Owning!AllContents
  <1>1. /\ NodesHoldNext(C) /\ Untouched(C, C, {l}) /\ AtPlace(C, l, i) /\ i \in 1..Len(C[l])
        /\ l \in Owning!Constructed' /\ list' = list /\ nodeIt' = nodeIt /\ l \in Objects
        /\ ValuesIn(node', C[l]) = [ValuesIn(node, C[l]) EXCEPT ![i] = v]
    BY DEF Changed, Owning!Constructed
  <1>2. /\ q[l] = ValuesIn(node, C[l]) /\ q[l] \in Seq(Values) /\ Len(q[l]) = Len(C[l])
    BY ItemsNow
  <1>3. Owning!Position = <<l, i>> /\ Owning!Position # Nil
    BY <1>1, PositionNow
  <1>4. Owning!Position[1] = l /\ Owning!Position[2] = i
    BY <1>3
  <1>5. Owning!Position' = Owning!Position
    <2>1. PlaceNext(C, l, i)
      BY <1>1 DEF PlaceNext, PlaceFor, AtPlace
    <2> QED BY <1>1, <1>3, <2>1, PositionNext
  <1>6. Owning!AllContents' = [q EXCEPT ![l] = [q[l] EXCEPT ![i] = v]]
    <2> DEFINE s == [q[l] EXCEPT ![i] = v]
    <2>1. Owning!AllContents'[l] = s
      BY <1>1, <1>2, ListedNext DEF ItemsFor
    <2> HIDE DEF s
    <2>2. Owning!AllContents' = [q EXCEPT ![l] = s]
      BY <1>1, <2>1, ItemsBecome
    <2> QED BY <2>2 DEF s
  <1>7. i \in DOMAIN q[l]
    <2> HIDE DEF q
    <2> QED BY <1>1, <1>2
  <1>8. Owning!AllContents' = [q EXCEPT ![l][Owning!Position[2]] = v]
    BY <1>4, <1>6, Zenon
  <1>9. Owning!Abstract!At(l) /\ Owning!Position[2] \in DOMAIN q[l]
    BY <1>3, <1>4, <1>7, Zenon DEF Owning!Abstract!At
  <1> QED BY <1>5, <1>8, <1>9, Zenon DEF Owning!Abstract!Modify, q

-----------------------------------------------------------------------------
(* The iterator's own steps *)
LEMMA ItemsStay ==
  ASSUME NEW C, NodesHold(C), node' = node, list' = list, nodeIt' \in DOMAIN node \cup {Nil}
  PROVE  Owning!AllContents' = Owning!AllContents
  <1>1. NodesHoldNext(C)
    BY HoldStays
  <1>2. Owning!Constructed' = Owning!Constructed
    BY DEF Owning!Constructed
  <1>3. Owning!AllContents = ItemsFor(node, Owning!Constructed, list, C)
    BY ListedNow
  <1>4. Owning!AllContents' = ItemsFor(node', Owning!Constructed', list', C)
    BY <1>1, ListedNext
  <1> QED BY <1>2, <1>3, <1>4, Zenon

LEMMA MovesAhead ==
  ASSUME NEW C, NodesHold(C), NodesHoldNext(C), list' = list,
         NEW l, NEW i, AtPlace(C, l, i),
         \/ i \in 1..Len(C[l]) /\ nodeIt' = Nth(list[l].root, C[l], i + 1)
         \/ i - 1 \in 1..Len(C[l]) /\ nodeIt' = Nth(list[l].root, C[l], i - 1)
  PROVE  /\ Owning!Abstract!At(l)
         /\ Owning!Position' \in {<<l, Owning!Position[2] - 1>>, <<l, Owning!Position[2] + 1>>}
         /\ Owning!Position'[2] \in 1..(Len(Owning!AllContents[l]) + 1)
  <1>1. /\ Owning!Position = <<l, i>> /\ Owning!Position # Nil /\ i \in Nat
        /\ l \in Owning!Constructed
    BY PositionNow
  <1>2. Owning!Position[1] = l /\ Owning!Position[2] = i
    BY <1>1
  <1>3. Owning!Constructed' = Owning!Constructed
    BY DEF Owning!Constructed
  <1>4. Len(C[l]) \in Nat /\ Len(Owning!AllContents[l]) = Len(C[l])
    <2>1. Owning!AllContents[l] = ValuesIn(node, C[l]) /\ Len(ValuesIn(node, C[l])) = Len(C[l])
      BY <1>1, ItemsNow
    <2> QED BY <1>1, <2>1, ListEnds
  <1>5. \E j \in {i - 1, i + 1} : j \in 1..(Len(C[l]) + 1) /\ nodeIt' = Nth(list[l].root, C[l], j)
    BY <1>1, <1>4
  <1>6. PICK j \in {i - 1, i + 1} : j \in 1..(Len(C[l]) + 1) /\ nodeIt' = Nth(list[l].root, C[l], j)
    BY <1>5
  <1>7. PlaceNext(C, l, j)
    BY <1>1, <1>3, <1>6 DEF PlaceNext, PlaceFor
  <1>8. Owning!Position' = <<l, j>>
    BY <1>7, PositionNext
  <1>9. Owning!Position'[2] = j
    BY <1>8
  <1>10. Owning!Abstract!At(l)
    BY <1>1, <1>2, Zenon DEF Owning!Abstract!At
  <1>11. j \in 1..(Len(Owning!AllContents[l]) + 1)
    BY <1>4, <1>6
  <1>12. Owning!Position' \in {<<l, Owning!Position[2] - 1>>, <<l, Owning!Position[2] + 1>>}
    BY <1>2, <1>6, <1>8
  <1> QED BY <1>9, <1>10, <1>11, <1>12

LEMMA NodeItRefines ==
  ASSUME NEW C, NodesHold(C), NodeItMoves
  PROVE  \/ \E l \in Objects : Owning!Abstract!Move(l)
         \/ Owning!AllContents' = Owning!AllContents /\ Owning!Position' = Owning!Position
  <1>1. node' = node /\ list' = list /\ nodeIt' \in DOMAIN node \cup {Nil}
    BY MovedIterator
  <1>2. NodesHoldNext(C) /\ Owning!AllContents' = Owning!AllContents
    BY <1>1, HoldStays, ItemsStay
  <1>3. \A l \in Owning!Constructed : l \in Objects /\ l \in Owning!Abstract!Live
    BY IsLiveList DEF Owning!Constructed
  <1>4. Owning!Constructed' = Owning!Constructed
    BY <1>1 DEF Owning!Constructed
  <1>5. CASE Owning!GetIterator
    <2>1. PICK l \in Owning!Constructed : nodeIt' \in {node[list[l].root].next, list[l].root}
      BY <1>5 DEF Owning!GetIterator
    <2>2. nodeIt = Nil /\ Owning!Position = Nil
      BY <1>5, PositionNow DEF Owning!GetIterator
    <2> DEFINE n == Len(C[l])
               r == list[l].root
    <2>3. n \in Nat /\ node[r].next = Nth(r, C[l], 1) /\ Nth(r, C[l], n + 1) = r
      BY ListEnds
    <2>4. Len(Owning!AllContents[l]) = n
      BY ItemsNow
    <2> HIDE DEF n
    <2>5. \E j \in {1, n + 1} : nodeIt' = Nth(r, C[l], j)
      BY <2>1, <2>3
    <2>6. PICK j \in {1, n + 1} : nodeIt' = Nth(r, C[l], j)
      BY <2>5
    <2>7. j \in 1..(n + 1)
      BY <2>3
    <2>8. PlaceNext(C, l, j)
      BY <1>1, <1>4, <2>6, <2>7 DEF PlaceNext, PlaceFor, n
    <2>9. Owning!Position' = <<l, j>>
      BY <1>2, <2>8, PositionNext
    <2>10. Owning!Position' \in {<<l, 1>>, <<l, Len(Owning!AllContents[l]) + 1>>}
      BY <2>4, <2>9
    <2>11. Owning!Abstract!Move(l)
      BY <1>2, <1>3, <2>2, <2>10, Zenon DEF Owning!Abstract!Move
    <2> QED BY <1>3, <2>11
  <1>6. CASE Owning!Increment \/ Owning!Decrement
    <2>1. nodeIt # Nil
      BY <1>6 DEF Owning!Increment, Owning!Decrement
    <2>2. PICK l \in Owning!Constructed : \E i : AtPlace(C, l, i)
      BY <2>1, PositionNow
    <2>3. PICK i : AtPlace(C, l, i)
      BY <2>2
    <2> DEFINE r == list[l].root
               s == C[l]
    <2>4. /\ Len(s) \in Nat /\ i \in 1..(Len(s) + 1) /\ nodeIt = Nth(r, s, i) /\ NodeRing(node, r, s)
      BY <2>3, ListEnds, HeldContents DEF AtPlace
    <2> HIDE DEF r, s
    <2>5. \A k \in 0..Len(s) : /\ node[Nth(r, s, k)].next = Nth(r, s, k + 1)
                               /\ node[Nth(r, s, k + 1)].prev = Nth(r, s, k)
      BY <2>4, RingNodes
    <2>6. \/ i \in 1..Len(s) /\ nodeIt' = Nth(r, s, i + 1)
          \/ i - 1 \in 1..Len(s) /\ nodeIt' = Nth(r, s, i - 1)
      <3>1. CASE Owning!Increment
        <4>1. node[nodeIt].value # Nil /\ nodeIt' = node[nodeIt].next
          BY <3>1 DEF Owning!Increment
        <4>2. i \in 0..(Len(s) + 1)
          BY <2>4
        <4>3. i \in 1..Len(s)
          BY <2>4, <4>1, <4>2, ValuedPlace DEF r, s
        <4>4. i \in 0..Len(s)
          BY <2>4, <4>3
        <4> QED BY <2>4, <2>5, <4>1, <4>3, <4>4
      <3>2. CASE Owning!Decrement
        <4>1. node[node[nodeIt].prev].value # Nil /\ nodeIt' = node[nodeIt].prev
          BY <3>2 DEF Owning!Decrement
        <4>2. i - 1 \in 0..Len(s) /\ i - 1 + 1 = i /\ i - 1 \in 0..(Len(s) + 1)
          BY <2>4
        <4>3. node[nodeIt].prev = Nth(r, s, i - 1)
          BY <2>4, <2>5, <4>2
        <4>4. i - 1 \in 1..Len(s)
          BY <4>1, <4>2, <4>3, ValuedPlace DEF r, s
        <4> QED BY <4>1, <4>3, <4>4
      <3> QED BY <1>6, <3>1, <3>2
    <2>7. /\ Owning!Abstract!At(l)
          /\ Owning!Position' \in {<<l, Owning!Position[2] - 1>>, <<l, Owning!Position[2] + 1>>}
          /\ Owning!Position'[2] \in 1..(Len(Owning!AllContents[l]) + 1)
      BY <1>1, <1>2, <2>3, <2>6, MovesAhead DEF r, s
    <2>8. Owning!Abstract!Move(l)
      BY <1>2, <2>7, Zenon DEF Owning!Abstract!Move
    <2> QED BY <1>3, <2>8
  <1>7. CASE Owning!Forget
    <2>1. Owning!Position' = Nil
      BY <1>2, <1>7, PositionNext DEF Owning!Forget
    <2>2. CASE nodeIt = Nil
      BY <1>2, <2>1, <2>2, PositionNow
    <2>3. CASE nodeIt # Nil
      <3>1. PICK l \in Owning!Constructed : \E i : AtPlace(C, l, i)
        BY <2>3, PositionNow
      <3>2. Owning!Abstract!Move(l)
        BY <1>2, <2>1, Zenon DEF Owning!Abstract!Move
      <3> QED BY <1>3, <3>1, <3>2
    <2> QED BY <2>2, <2>3
  <1> QED BY <1>5, <1>6, <1>7 DEF NodeItMoves

-----------------------------------------------------------------------------
(* Every step *)
LEMMA EffectRefines ==
  ASSUME NEW C, NodesHold(C), NEW l \in Objects, ListEffect(C, l)
  PROVE  Owning!Abstract!Next
  <1>1. CASE Gets(C, l)
    <2>1. Owning!Abstract!Construct(l) \/ Owning!Abstract!Assign(l)
      BY <1>1, GetsRefines
    <2> QED BY <2>1, Zenon DEF Owning!Abstract!Next
  <1>2. CASE GivenUp(C, l, NoObject)
    <2>1. Owning!Abstract!Gives(l, NoObject) /\ l \in Owning!Abstract!Live
      BY <1>2, GivenUpRefines
    <2> QED BY <2>1, Zenon DEF Owning!Abstract!Destroy, Owning!Abstract!Next
  <1>3. CASE GivenUp(C, l, Unusable)
    <2>1. Owning!Abstract!Gives(l, Unusable) /\ l \in Owning!Abstract!Live
      BY <1>3, GivenUpRefines
    <2> QED BY <2>1, Zenon DEF Owning!Abstract!Lose, Owning!Abstract!Next
  <1>4. CASE Changes(C, l)
    <2>1. l \in Owning!Constructed
      BY <1>4 DEF Changes
    <2>2. ASSUME NEW v \in Values, NEW D, Grown(C, D, l, 0, v) \/ Grown(C, D, l, Len(C[l]), v)
          PROVE  Owning!Abstract!Insert(l)
      BY <2>1, <2>2, GrownRefines
    <2>3. ASSUME NEW i \in 1..Len(C[l]), NEW D, Shrunk(C, D, l, i) PROVE Owning!Abstract!Delete(l)
      BY <2>1, <2>3, ShrunkRefines
    <2>4. ASSUME NEW v \in Values, NEW i, Changed(C, l, i, v) PROVE Owning!Abstract!Modify(l)
      BY <2>1, <2>4, ChangedRefines
    <2>5. Owning!Abstract!Insert(l) \/ Owning!Abstract!Delete(l) \/ Owning!Abstract!Modify(l)
      BY <1>4, <2>2, <2>3, <2>4, Zenon DEF Changes
    <2> QED BY <2>5, Zenon DEF Owning!Abstract!Next
  <1> QED BY <1>1, <1>2, <1>3, <1>4 DEF ListEffect

LEMMA ListStepRefines ==
  ASSUME NodesInv, [Owning!Next]_listVars
  PROVE  [Owning!Abstract!Next]_(Owning!Abstract!vars)
  <1>1. PICK C : NodesHold(C)
    BY DEF NodesInv
  <1>2. \/ Owning!Abstract!Next
        \/ Owning!AllContents' = Owning!AllContents /\ Owning!Position' = Owning!Position
    <2>1. CASE UNCHANGED listVars
      <3>1. node' = node /\ list' = list /\ nodeIt' = nodeIt /\ nodeIt' \in DOMAIN node \cup {Nil}
        BY <1>1, <2>1 DEF listVars, NodesHold
      <3>2. Owning!AllContents' = Owning!AllContents
        BY <1>1, <3>1, ItemsStay
      <3>3. Owning!Constructed' = Owning!Constructed
        BY <3>1 DEF Owning!Constructed
      <3>4. Owning!Position' = Owning!Position
        BY <3>1, <3>3, PositionSeen, Zenon
      <3> QED BY <3>2, <3>4
    <2>2. CASE NodeItMoves
      <3>1. CASE \E l \in Objects : Owning!Abstract!Move(l)
        BY <3>1, Zenon DEF Owning!Abstract!Next
      <3> QED BY <1>1, <2>2, <3>1, NodeItRefines
    <2>3. CASE \E l \in Objects : ListEffect(C, l)
      BY <1>1, <2>3, EffectRefines
    <2> QED BY <1>1, <2>1, <2>2, <2>3, ListStep
  <1> QED BY <1>2, Zenon DEF Owning!Abstract!vars

LEMMA ListInitRefines ==
  ASSUME Owning!Init
  PROVE  Owning!Abstract!Init
  <1>1. list = [l \in Objects |-> NoObject] /\ nodeIt = Nil
    BY DEF Owning!Init
  <1>2. Owning!Position = Nil
    BY <1>1, PositionSeen DEF PositionIn
  <1>3. \A l \in Objects : l \notin Owning!Constructed
    BY <1>1 DEF Owning!Constructed
  <1>4. Owning!AllContents = [l \in Objects |-> NoObject]
    BY <1>1, <1>3 DEF Owning!AllContents
  <1> QED BY <1>2, <1>4, Zenon DEF Owning!Abstract!Init

(* A List is a sequence of values and its iterator stays at its value or   *)
(* at the end: copies are deep, a move takes the sequence and the iterator *)
(* along and leaves an empty list, pushes, pops and erasures change one    *)
(* place (list.h:113-250), for lists of any length.                        *)
THEOREM ListRefinement == Owning!Spec => ImplementsList
  <1>1. Owning!Init => Owning!Abstract!Init
    BY ListInitRefines
  <1>2. NodesInv /\ [Owning!Next]_listVars => [Owning!Abstract!Next]_(Owning!Abstract!vars)
    BY ListStepRefines
  <1> QED BY <1>1, <1>2, NodesInit, NodesNext, PTL
          DEF Owning!Spec, Owning!vars, listVars, ImplementsList, Owning!ImplementsList,
              Owning!Abstract!Spec
=============================================================================

---------------------------- MODULE StorageProofs ----------------------------
(***************************************************************************)
(* Proofs about the objects that keep values in storage of their own: the  *)
(* buffer of an Optional and the blocks of a Deque.                        *)
(*                                                                         *)
(* Optional.tla, for any number of Optionals, any data and any depth:      *)
(* has_value_ tells where a T lives, and the Optionals hold by value as    *)
(* AbstractOptional.tla says.                                              *)
(*                                                                         *)
(* Deque.tla, for any number of Deques, any ints and any size of a block:  *)
(* every block has one owner, elements stay where they are, and the Deques *)
(* are the sequences of AbstractDeque.tla.                                 *)
(***************************************************************************)
EXTENDS Optional, NamedDeque, SequenceTheorems, FiniteSetTheorems, NaturalsInduction, TLAPS

(* An Optional with what is inside of it, when no exception has hit it. *)
Sound(s) ==
  /\ s \in Seq(Cells)
  /\ Len(s) \in 1..MaxDepth
  /\ \A i \in 1..Len(s) : /\ s[i].has <=> s[i].buf # Raw
                          /\ i < Len(s) => s[i].has

(* What the variables may have, those in l being lost. *)
Fits(m, l) ==
  /\ m \in [Variables -> Seq(Cells) \cup {Gone}]
  /\ \A v \in Variables :
       IF v \in l THEN m[v] = <<Cell(Raw)>> ELSE m[v] # Gone => Sound(m[v])

IInv == Fits(opt, lost) /\ lost \subseteq Variables

(* What a step may do: v gets s, the others are as in m; v is lost, too.   *)
Gets(v, m, s) == opt' = [m EXCEPT ![v] = s] /\ UNCHANGED lost

Loses(v, m) ==
  /\ At(<<v, 1>>).has
  /\ opt' = [m EXCEPT ![v] = <<Cell(Raw)>>] /\ lost' = lost \cup {v}

-----------------------------------------------------------------------------
(* Sequences *)

LEMMA FixedCells ==
  ASSUME NamesAssumption
  PROVE  /\ Cell(Raw) \in Cells /\ <<Cell(Raw)>> \in Seq(Cells)
         /\ Empty \in Cells /\ Sound(<<Empty>>)
  BY DEF NamesAssumption, Cell, Empty, Cells, Sound

LEMMA CellsSound ==
  ASSUME NamesAssumption, NEW d \in Data \cup {Moved}
  PROVE  Cell(d) \in Cells /\ Sound(<<Cell(d)>>)
  BY DEF NamesAssumption, Cell, Empty, Cells, Sound

LEMMA FirstCell ==
  ASSUME NamesAssumption, NEW s, Sound(s)
  PROVE  s[1] \in Cells /\ s[1].has \in BOOLEAN /\ (s[1].has <=> s[1].buf # Raw)
  <1>1. s \in Seq(Cells) /\ Len(s) \in Nat /\ 1 \in 1..Len(s)
    BY DEF Sound, NamesAssumption
  <1>2. s[1] \in Cells
    BY <1>1, ElementOfSeq
  <1> QED BY <1>1, <1>2 DEF Cells, Sound

LEMMA InsideSound ==
  ASSUME NamesAssumption, NEW s, Sound(s), NEW i \in 1..Len(s)
  PROVE  /\ Sound(SubSeq(s, i, Len(s)))
         /\ Len(SubSeq(s, i, Len(s))) = Len(s) - i + 1
         /\ \A j \in 1..(Len(s) - i + 1) : SubSeq(s, i, Len(s))[j] = s[i + j - 1]
  <1> DEFINE t == SubSeq(s, i, Len(s))
  <1>1. /\ t \in Seq(Cells) /\ Len(t) = Len(s) - i + 1
        /\ \A j \in 1..(Len(s) - i + 1) : t[j] = s[i + j - 1]
    BY SubSeqProperties, ElementOfSeq DEF Sound
  <1> HIDE DEF t
  <1>2. Len(t) \in 1..MaxDepth
    BY <1>1 DEF Sound, NamesAssumption
  <1>3. ASSUME NEW j \in 1..Len(t)
        PROVE  (t[j].has <=> t[j].buf # Raw) /\ (j < Len(t) => t[j].has)
    <2>1. Len(s) \in Nat
      BY DEF Sound
    <2>2. j \in 1..(Len(s) - i + 1) /\ Len(t) = Len(s) - i + 1
      BY <1>1
    <2>3. t[j] = s[i + j - 1]
      BY <1>1, <2>2, Zenon
    <2>4. i + j - 1 \in 1..Len(s) /\ (j < Len(t) => i + j - 1 < Len(s))
      BY <2>1, <2>2
    <2> QED BY <2>3, <2>4 DEF Sound
  <1> QED BY <1>1, <1>2, <1>3 DEF Sound, t

(* The part of s before i, with d at i and nothing or one cell inside. *)
LEMMA WrittenSound ==
  ASSUME NamesAssumption, NEW s, Sound(s), NEW i \in 1..Len(s),
         NEW d \in Data \cup {Moved}, NEW t,
         t = <<>> \/ (Len(t) = 1 /\ Sound(t)), i + Len(t) <= MaxDepth
  PROVE  Sound(SubSeq(s, 1, i - 1) \o <<Cell(d)>> \o t)
  <1> DEFINE a == SubSeq(s, 1, i - 1)
             b == a \o <<Cell(d)>>
             c == b \o t
  <1>1. /\ a \in Seq(Cells) /\ Len(a) = i - 1
        /\ \A j \in 1..(i - 1) : a[j] = s[j]
    <2>1. \A j \in 1..(i - 1) : s[j] \in Cells
      BY ElementOfSeq DEF Sound
    <2>2. i - 1 \in Int /\ 1 \in Int /\ (IF 1 <= i - 1 THEN (i - 1) - 1 + 1 ELSE 0) = i - 1
      BY DEF Sound
    <2>3. \A j \in 1..((i - 1) - 1 + 1) : 1 + j - 1 = j /\ j \in 1..(i - 1)
      BY DEF Sound
    <2> QED BY <2>1, <2>2, <2>3, SubSeqProperties
  <1>2. <<Cell(d)>> \in Seq(Cells) /\ Len(<<Cell(d)>>) = 1 /\ <<Cell(d)>>[1] = Cell(d)
    BY CellsSound DEF Sound
  <1>3. t \in Seq(Cells) /\ Len(t) \in {0, 1}
    BY EmptySeq DEF Sound
  <1> HIDE DEF a
  <1>4. /\ b \in Seq(Cells) /\ Len(b) = i
        /\ \A j \in 1..i : b[j] = IF j < i THEN s[j] ELSE Cell(d)
    <2>1. /\ b \in Seq(Cells) /\ Len(b) = Len(a) + Len(<<Cell(d)>>)
          /\ \A j \in 1..(Len(a) + Len(<<Cell(d)>>)) :
               b[j] = IF j <= Len(a) THEN a[j] ELSE <<Cell(d)>>[j - Len(a)]
      BY <1>1, <1>2, ConcatProperties
    <2>2. i - 1 + 1 = i /\ i \in Int
      BY DEF Sound
    <2>3. ASSUME NEW j \in 1..i PROVE b[j] = IF j < i THEN s[j] ELSE Cell(d)
      <3>1. CASE j < i
        BY <1>1, <1>2, <2>1, <2>2, <3>1
      <3>2. CASE j = i
        <4>1. j - Len(a) = 1 /\ ~(j <= Len(a))
          BY <1>1, <2>2, <3>2
        <4> QED BY <1>1, <1>2, <2>1, <2>2, <3>2, <4>1
      <3>3. j < i \/ j = i
        BY <2>2
      <3> QED BY <3>1, <3>2, <3>3
    <2> QED BY <1>1, <1>2, <2>1, <2>2, <2>3
  <1> HIDE DEF b
  <1>5. /\ c \in Seq(Cells) /\ Len(c) = i + Len(t)
        /\ \A j \in 1..(i + Len(t)) : c[j] = IF j <= i THEN b[j] ELSE t[j - i]
    BY <1>3, <1>4, ConcatProperties
  <1> HIDE DEF c
  <1>6. ASSUME NEW j \in 1..Len(c)
        PROVE  (c[j].has <=> c[j].buf # Raw) /\ (j < Len(c) => c[j].has)
    <2>1. CASE j < i
      <3>1. c[j] = s[j] /\ j \in 1..Len(s) /\ j < Len(s)
        BY <1>3, <1>4, <1>5, <2>1 DEF Sound
      <3> QED BY <3>1 DEF Sound
    <2>2. CASE j = i
      <3>1. c[j] = Cell(d)
        BY <1>3, <1>4, <1>5, <2>2 DEF Sound
      <3> QED BY <3>1 DEF Cell, NamesAssumption
    <2>3. CASE j > i
      <3>1. Len(t) = 1 /\ j = i + 1 /\ j = Len(c)
        <4>1. i \in Nat /\ Len(c) = i + Len(t) /\ Len(t) \in {0, 1}
          BY <1>3, <1>5 DEF Sound
        <4>2. CASE Len(t) = 0
          BY <2>3, <4>1, <4>2
        <4>3. CASE Len(t) = 1
          BY <2>3, <4>1, <4>3
        <4> QED BY <4>1, <4>2, <4>3
      <3>2. j \in 1..(i + Len(t)) /\ ~(j <= i) /\ j - i = 1
        BY <1>5, <2>3, <3>1 DEF Sound
      <3>3. c[j] = t[1]
        BY <1>5, <3>2
      <3> QED BY <3>1, <3>3 DEF Sound
    <2> QED BY <2>1, <2>2, <2>3 DEF Sound
  <1>7. Len(c) \in 1..MaxDepth
    BY <1>3, <1>5 DEF Sound, NamesAssumption
  <1> QED BY <1>5, <1>6, <1>7 DEF Sound, a, b, c
-----------------------------------------------------------------------------
(* The steps *)

LEMMA UsableSound ==
  ASSUME NamesAssumption, IInv, NEW v \in Usable
  PROVE  v \in Variables \ lost /\ Sound(opt[v]) /\ opt[v] # Gone
  BY DEF Usable, IInv, Fits

LEMMA SetHas ==
  ASSUME NEW c \in Cells, NEW f \in BOOLEAN, NEW d, d = [c EXCEPT !.has = f]
  PROVE  d = [has |-> f, buf |-> c.buf]
  BY DEF Cells

LEMMA SetBuf ==
  ASSUME NEW c \in Cells, NEW b, NEW d, d = [c EXCEPT !.buf = b]
  PROVE  d = [has |-> c.has, buf |-> b]
  BY DEF Cells

(* Where there is an Optional, and what is inside of it. *)
LEMMA PlaceSound ==
  ASSUME NamesAssumption, IInv, NEW p \in Places
  PROVE  /\ p[1] \in Usable /\ p[2] \in 1..Len(opt[p[1]]) /\ p = <<p[1], p[2]>>
         /\ Sound(Inside(p)) /\ Inside(p)[1] = At(p) /\ At(p) \in Cells
         /\ At(p).has <=> At(p).buf # Raw
  <1>1. PICK v \in Usable : p \in {v} \X DOMAIN opt[v]
    BY DEF Places
  <1>2. Sound(opt[v])
    BY UsableSound
  <1>3. p[1] = v /\ p[2] \in 1..Len(opt[v]) /\ p = <<p[1], p[2]>>
    BY <1>1, <1>2, LenProperties DEF Sound
  <1>4. p[2] \in Int /\ Len(opt[v]) \in Int /\ 1 \in 1..(Len(opt[v]) - p[2] + 1) /\ p[2] + 1 - 1 = p[2]
    BY <1>2, <1>3 DEF Sound
  <1>5. Sound(Inside(p)) /\ Inside(p)[1] = At(p)
    BY <1>2, <1>3, <1>4, InsideSound DEF Inside, At
  <1>6. At(p) \in Cells
    BY <1>2, <1>3, ElementOfSeq DEF At, Sound
  <1>7. At(p).has <=> At(p).buf # Raw
    BY <1>2, <1>3 DEF At, Sound
  <1> QED BY <1>1, <1>3, <1>5, <1>6, <1>7

(* An Optional without a value has nothing inside. *)
LEMMA WithoutValue ==
  ASSUME NamesAssumption, NEW s, Sound(s), ~s[1].has
  PROVE  s = <<Empty>>
  <1>1. Len(s) = 1 /\ s[1] \in Cells
    <2>1. s \in Seq(Cells) /\ Len(s) \in Nat /\ 1 \in 1..Len(s) /\ ~(1 < Len(s))
      BY DEF Sound, NamesAssumption
    <2>2. Len(s) = 1
      <3>1. \A n \in Nat : 1 \in 1..n /\ ~(1 < n) => n = 1
        OBVIOUS
      <3> QED BY <2>1, <3>1
    <2>3. s[1] \in Cells
      BY <2>1, ElementOfSeq
    <2> QED BY <2>2, <2>3
  <1>2. s[1] = Empty
    BY <1>1 DEF Sound, Cells, Empty
  <1> QED BY <1>1, <1>2, CellsSound, SeqEqual DEF Sound

(* new (buf_) T and the flag that follows it *)
LEMMA Rebuilt ==
  ASSUME NamesAssumption, NEW s, Sound(s), s[1].has, NEW h \in BOOLEAN
  PROVE  [<<[has |-> h, buf |-> s[1].buf]>> \o Tail(s) EXCEPT ![1].has = TRUE] = s
  <1> DEFINE e == [has |-> h, buf |-> s[1].buf]
             b == <<e>> \o Tail(s)
             r == [b EXCEPT ![1] = [b[1] EXCEPT !.has = TRUE]]
  <1>1. s # <<>> /\ s \in Seq(Cells) /\ Len(s) \in Nat /\ s[1] \in Cells
    <2>1. s \in Seq(Cells) /\ Len(s) \in Nat /\ 1 \in 1..Len(s)
      BY DEF Sound, NamesAssumption
    <2> QED BY <2>1, ElementOfSeq, EmptySeq
  <1>2. /\ Tail(s) \in Seq(Cells) /\ Len(Tail(s)) = Len(s) - 1
        /\ \A i \in 1..Len(Tail(s)) : Tail(s)[i] = s[i + 1]
    BY <1>1, HeadTailProperties
  <1>3. e \in Cells /\ <<e>> \in Seq(Cells) /\ Len(<<e>>) = 1 /\ <<e>>[1] = e
    BY <1>1 DEF Cells
  <1> HIDE DEF e
  <1>4. /\ b \in Seq(Cells) /\ Len(b) = 1 + Len(Tail(s))
        /\ \A i \in 1..(1 + Len(Tail(s))) : b[i] = IF i <= 1 THEN <<e>>[i] ELSE Tail(s)[i - 1]
    BY <1>2, <1>3, ConcatProperties
  <1> HIDE DEF b
  <1>5. Len(b) = Len(s) /\ 1 \in 1..Len(b) /\ b[1] = e
    BY <1>1, <1>2, <1>3, <1>4 DEF Sound
  <1>6. [b[1] EXCEPT !.has = TRUE] = s[1] /\ s[1] \in Cells
    <2>1. [e EXCEPT !.has = TRUE] = [has |-> TRUE, buf |-> s[1].buf]
      <3>1. e.buf = s[1].buf
        BY DEF e
      <3> QED BY <1>3, <3>1, SetHas
    <2>2. [has |-> TRUE, buf |-> s[1].buf] = s[1]
      BY <1>1 DEF Cells
    <2> QED BY <1>1, <1>5, <2>1, <2>2
  <1>7. /\ r \in Seq(Cells) /\ Len(r) = Len(s)
        /\ \A i \in 1..Len(s) : r[i] = IF i = 1 THEN s[1] ELSE b[i]
    <2>1. r = [b EXCEPT ![1] = s[1]]
      BY <1>6
    <2> HIDE DEF r
    <2>2. /\ [b EXCEPT ![1] = s[1]] \in Seq(Cells)
          /\ Len([b EXCEPT ![1] = s[1]]) = Len(b)
          /\ \A i \in 1..Len(b) : [b EXCEPT ![1] = s[1]][i] = IF i = 1 THEN s[1] ELSE b[i]
      BY <1>4, <1>5, <1>6, ExceptSeq
    <2> QED BY <1>5, <2>1, <2>2
  <1> HIDE DEF r
  <1>8. ASSUME NEW i \in 1..Len(s) PROVE r[i] = s[i]
    <2>1. CASE i = 1
      BY <2>1, <1>7
    <2>2. CASE i # 1
      <3>1. i - 1 \in 1..Len(Tail(s)) /\ i - 1 + 1 = i /\ i \in 1..(1 + Len(Tail(s))) /\ ~(i <= 1)
        BY <1>1, <1>2, <2>2
      <3> QED BY <3>1, <1>2, <1>4, <1>7, <2>2
    <2> QED BY <2>1, <2>2
  <1>9. r = s
    BY <1>1, <1>7, <1>8, SeqEqual
  <1> QED BY <1>9 DEF r, b, e

LEMMA BuiltAndFlagged ==
  ASSUME NamesAssumption, NEW m, m \in [Variables -> Seq(Cells) \cup {Gone}],
         NEW v \in Variables, m[v][1].has \in BOOLEAN, NEW s, Sound(s), s[1].has
  PROVE  Flagged(Built(m, v, s), v, TRUE) = [m EXCEPT ![v] = s]
  <1> DEFINE b == <<[has |-> m[v][1].has, buf |-> s[1].buf]>> \o Tail(s)
  <1>1. Built(m, v, s) = [m EXCEPT ![v] = b]
    BY DEF Built
  <1>2. [b EXCEPT ![1].has = TRUE] = s
    BY Rebuilt
  <1> HIDE DEF b
  <1>3. Flagged([m EXCEPT ![v] = b], v, TRUE) = [m EXCEPT ![v] = [b EXCEPT ![1].has = TRUE]]
    BY DEF Flagged
  <1> QED BY <1>1, <1>2, <1>3

(* ~T() and the flag *)
LEMMA KilledAndFlagged ==
  ASSUME NEW m, m \in [Variables -> Seq(Cells) \cup {Gone}],
         NEW v \in Variables, m[v][1].has \in BOOLEAN
  PROVE  Flagged(Killed(m, v), v, FALSE) = [m EXCEPT ![v] = <<Empty>>]
  <1> DEFINE b == <<[has |-> m[v][1].has, buf |-> Raw]>>
  <1>1. Killed(m, v) = [m EXCEPT ![v] = b]
    BY DEF Killed
  <1>2. [b EXCEPT ![1].has = FALSE] = <<Empty>>
    <2> DEFINE e == [has |-> m[v][1].has, buf |-> Raw]
    <2>1. [e EXCEPT !.has = FALSE] = Empty
      <3>1. e \in Cells /\ e.buf = Raw
        BY DEF Cells
      <3> HIDE DEF e
      <3> QED BY <3>1, SetHas DEF Empty
    <2> HIDE DEF e
    <2>2. [<<e>> EXCEPT ![1] = Empty] = <<Empty>>
      OBVIOUS
    <2>3. [<<e>> EXCEPT ![1] = [<<e>>[1] EXCEPT !.has = FALSE]] = <<Empty>>
      BY <2>1, <2>2
    <2> QED BY <2>3 DEF e
  <1> HIDE DEF b
  <1>3. Flagged([m EXCEPT ![v] = b], v, FALSE) = [m EXCEPT ![v] = [b EXCEPT ![1].has = FALSE]]
    BY DEF Flagged
  <1> QED BY <1>1, <1>2, <1>3

(* MovedFrom(p) leaves a moved T in a place that had one. *)
LEMMA MovedFromSound ==
  ASSUME NamesAssumption, IInv, NEW p \in Places
  PROVE  /\ Fits(MovedFrom(p), lost)
         /\ MovedFrom(p) =
              IF At(p).has
              THEN [opt EXCEPT ![p[1]] = SubSeq(opt[p[1]], 1, p[2] - 1) \o <<Cell(Moved)>>]
              ELSE opt
         /\ \A v \in Usable : /\ MovedFrom(p)[v] \in Seq(Cells)
                              /\ p # <<v, 1>> => MovedFrom(p)[v][1].has = At(<<v, 1>>).has
  <1> DEFINE w == p[1]
             a == SubSeq(opt[w], 1, p[2] - 1)
             s == a \o <<Cell(Moved)>>
  <1>1. /\ w \in Usable /\ Sound(opt[w]) /\ p[2] \in 1..Len(opt[w]) /\ p[2] \in Int /\ p[2] <= MaxDepth
        /\ w \in Variables \ lost /\ p = <<w, p[2]>> /\ Len(opt[w]) \in Nat
    <2>1. w \in Usable /\ p[2] \in 1..Len(opt[w]) /\ p = <<w, p[2]>>
      BY PlaceSound
    <2>2. w \in Variables \ lost /\ Sound(opt[w])
      BY <2>1, UsableSound
    <2>3. Len(opt[w]) \in Nat /\ Len(opt[w]) <= MaxDepth
      BY <2>2 DEF Sound, NamesAssumption
    <2> QED BY <2>1, <2>2, <2>3 DEF NamesAssumption
  <1>2. CASE At(p).has
    <2>0. a \in Seq(Cells) /\ (p[2] > 1 => Len(a) = p[2] - 1 /\ a[1] = opt[w][1])
      <3>1. \A j \in 1..(p[2] - 1) : opt[w][j] \in Cells
        BY <1>1, ElementOfSeq DEF Sound
      <3>2. p[2] - 1 \in Int
        BY <1>1
      <3>3. /\ a \in Seq(Cells) /\ Len(a) = IF 1 <= p[2] - 1 THEN p[2] - 1 - 1 + 1 ELSE 0
            /\ \A j \in 1..(p[2] - 1 - 1 + 1) : a[j] = opt[w][1 + j - 1]
        BY <3>1, <3>2, SubSeqProperties
      <3> HIDE DEF a
      <3>4. ASSUME p[2] > 1 PROVE Len(a) = p[2] - 1 /\ a[1] = opt[w][1]
        <4>1. 1 <= p[2] - 1 /\ 1 \in 1..(p[2] - 1 - 1 + 1) /\ 1 + 1 - 1 = 1 /\ p[2] - 1 - 1 + 1 = p[2] - 1
          BY <1>1, <3>4
        <4>2. a[1] = opt[w][1 + 1 - 1]
          BY <3>3, <4>1
        <4> QED BY <3>3, <4>1, <4>2
      <3> QED BY <3>3, <3>4
    <2> HIDE DEF a
    <2>1. Sound(s)
      <3>1. s \o <<>> = s
        <4>1. Cell(Moved) \in Cells /\ <<Cell(Moved)>> \in Seq(Cells)
          BY CellsSound DEF Sound
        <4>2. s \in Seq(Cells)
          BY <2>0, <4>1, ConcatProperties
        <4> QED BY <4>2, ConcatEmptySeq
      <3>2. p[2] + Len(<<>>) <= MaxDepth
        BY <1>1, EmptySeq
      <3>3. Sound(SubSeq(opt[w], 1, p[2] - 1) \o <<Cell(Moved)>> \o <<>>)
        BY <1>1, <3>2, WrittenSound
      <3> QED BY <3>1, <3>3 DEF a
    <2>2. [At(p) EXCEPT !.buf = Moved] = Cell(Moved)
      <3>1. At(p) \in Cells /\ At(p).has = TRUE
        BY <1>2, PlaceSound DEF Cells
      <3>2. [At(p) EXCEPT !.buf = Moved] = [has |-> At(p).has, buf |-> Moved]
        BY <3>1, SetBuf
      <3> QED BY <3>1, <3>2 DEF Cell, NamesAssumption
    <2>3. Append(a, [At(p) EXCEPT !.buf = Moved]) = s
      <3> HIDE DEF s
      <3>1. Append(a, Cell(Moved)) = s
        BY <2>0 DEF s
      <3> QED BY <2>2, <3>1, Zenon
    <2>4. MovedFrom(p) = [opt EXCEPT ![w] = s]
      BY <1>2, <2>3 DEF MovedFrom, a
    <2>5. s \in Seq(Cells)
      BY <2>1 DEF Sound
    <2>6. ASSUME NEW v \in Usable, p # <<v, 1>>, v = w PROVE s[1].has = At(<<v, 1>>).has
      <3>1. p[2] > 1
        BY <1>1, <2>6
      <3>2. s[1] = a[1]
        BY <2>0, <3>1, <1>1, ConcatProperties, CellsSound DEF Sound
      <3> QED BY <2>0, <2>6, <3>1, <3>2 DEF At
    <2>7. /\ opt \in [Variables -> Seq(Cells) \cup {Gone}]
          /\ [opt EXCEPT ![w] = s] \in [Variables -> Seq(Cells) \cup {Gone}]
          /\ \A v \in Variables : [opt EXCEPT ![w] = s][v] = IF v = w THEN s ELSE opt[v]
      BY <2>5, <1>1 DEF IInv, Fits
    <2> HIDE DEF s
    <2>8. Fits([opt EXCEPT ![w] = s], lost)
      BY <2>1, <2>7, <1>1 DEF IInv, Fits
    <2>9. ASSUME NEW v \in Usable
          PROVE  /\ MovedFrom(p)[v] \in Seq(Cells)
                 /\ p # <<v, 1>> => MovedFrom(p)[v][1].has = At(<<v, 1>>).has
      <3>1. CASE v = w
        BY <3>1, <2>4, <2>5, <2>6, <2>7, <1>1
      <3>2. CASE v # w
        BY <3>2, <2>4, <2>7, UsableSound DEF Sound, At
      <3> QED BY <3>1, <3>2
    <2> QED BY <1>2, <2>4, <2>8, <2>9 DEF s, a
  <1>3. CASE ~At(p).has
    <2>1. MovedFrom(p) = opt
      BY <1>3 DEF MovedFrom
    <2>2. \A v \in Usable : opt[v] \in Seq(Cells)
      BY UsableSound DEF Sound
    <2> QED BY <1>3, <2>1, <2>2 DEF IInv, At
  <1> QED BY <1>2, <1>3

(* A value built where a cell was, its object destroyed before or not there. *)
Put(m, v, s) == [m EXCEPT ![v] = s]

LEMMA ReplacedIs ==
  ASSUME NamesAssumption, NEW m, m \in [Variables -> Seq(Cells) \cup {Gone}],
         NEW v \in Variables, NEW c \in Cells, NEW s, Sound(s), s[1].has
  PROVE  Flagged(Built(Put(m, v, <<c>>), v, s), v, TRUE) = Put(m, v, s)
  <1> DEFINE k == Put(m, v, <<c>>)
  <1>1. k \in [Variables -> Seq(Cells) \cup {Gone}] /\ k[v][1].has \in BOOLEAN
    <2>1. <<c>> \in Seq(Cells) /\ <<c>>[1] = c /\ c.has \in BOOLEAN
      BY DEF Cells
    <2>2. k[v] = <<c>>
      BY DEF Put
    <2> QED BY <2>1, <2>2 DEF Put
  <1>2. [k EXCEPT ![v] = s] = Put(m, v, s)
    BY DEF Put
  <1> HIDE DEF k
  <1>3. Flagged(Built(k, v, s), v, TRUE) = [k EXCEPT ![v] = s]
    BY <1>1, BuiltAndFlagged
  <1> QED BY <1>2, <1>3 DEF k

(* The assignments, *)
LEMMA AssignShape ==
  ASSUME NamesAssumption, IInv, NEW v \in Usable, NEW m, Fits(m, lost), m[v] # Gone,
         m[v][1].has = At(<<v, 1>>).has,
         NEW s, Sound(s), Assign(v, m, s)
  PROVE  UNCHANGED vars \/ Gets(v, m, s) \/ (s[1].has /\ Loses(v, m))
  <1>1. /\ v \in Variables \ lost /\ m \in [Variables -> Seq(Cells) \cup {Gone}]
        /\ Sound(m[v])
    BY UsableSound DEF Fits
  <1>2. m[v][1] \in Cells /\ m[v][1].has \in BOOLEAN
    BY <1>1, FirstCell
  <1>3. CASE ~s[1].has
    <2>1. Flagged(Killed(m, v), v, FALSE) = [m EXCEPT ![v] = s]
      BY <1>1, <1>2, <1>3, KilledAndFlagged, WithoutValue
    <2> QED BY <1>3, <2>1 DEF Assign, Returns, Gets
  <1>4. CASE s[1].has
    <2> DEFINE x == [has |-> m[v][1].has, buf |-> Raw]
    <2>1. Killed(m, v) = Put(m, v, <<x>>)
      BY DEF Killed, Put
    <2>2. x \in Cells
      BY <1>2 DEF Cells
    <2>3. m[v][1].has => x = Cell(Raw)
      BY <1>2 DEF Cell
    <2> HIDE DEF x
    <2>4. Flagged(Built(Put(m, v, <<x>>), v, s), v, TRUE) = Put(m, v, s)
      BY <1>1, <1>4, <2>2, ReplacedIs
    <2>5. Flagged(Built(Killed(m, v), v, s), v, TRUE) = [m EXCEPT ![v] = s]
      BY <2>1, <2>4 DEF Put
    <2> QED BY <1>4, <2>1, <2>3, <2>5 DEF Put, Assign, Returns, Throws, Gets, Loses
  <1> QED BY <1>3, <1>4

(* the constructors *)
LEMMA ConstructShape ==
  ASSUME NamesAssumption, IInv, NEW v \in Variables, NEW m, Fits(m, lost),
         NEW s, Sound(s), Construct(v, m, s)
  PROVE  UNCHANGED vars \/ Gets(v, m, s)
  <1>1. m \in [Variables -> Seq(Cells) \cup {Gone}] /\ Empty \in Cells
    BY DEF Fits, Empty, Cells
  <1>2. CASE s[1].has
    <2>1. Flagged(Built(Put(m, v, <<Empty>>), v, s), v, TRUE) = Put(m, v, s)
      BY <1>1, <1>2, ReplacedIs
    <2> QED BY <1>2, <2>1 DEF Put, Construct, Returns, Throws, Gets
  <1>3. CASE ~s[1].has
    <2>1. s = <<Empty>>
      BY <1>3, WithoutValue
    <2> QED BY <1>3, <2>1 DEF Construct, Returns, Gets
  <1> QED BY <1>2, <1>3

-----------------------------------------------------------------------------
(* Every step either changes nothing, gives an Optional a value, loses or  *)
(* destroys one, or is an access to a value.                               *)
Shape ==
  \/ UNCHANGED vars
  \/ \E v \in Variables \ lost :
       \/ \E c \in {Empty} \cup {Cell(d) : d \in Data} : Gets(v, opt, <<c>>)
       \/ \E p \in Places : Gets(v, opt, Inside(p)) \/ Gets(v, MovedFrom(p), Inside(p))
  \/ \E v \in Usable :
       \/ Loses(v, opt)
       \/ \E p \in Places : At(p).has /\ Loses(v, MovedFrom(p))
       \/ opt' = [opt EXCEPT ![v] = Gone] /\ UNCHANGED lost
  \/ \E p \in Places : Access(p)

LEMMA StepShape ==
  ASSUME NamesAssumption, IInv, [Next]_vars
  PROVE  Shape
  <1>0. Fits(opt, lost) /\ \A v \in Variables : opt[v] = Gone => v \notin lost
    <2>1. <<Cell(Raw)>> \in Seq(Cells) /\ Gone \notin Seq(Cells)
      BY FixedCells DEF NamesAssumption
    <2> QED BY <2>1 DEF IInv, Fits
  <1>1. CASE UNCHANGED vars
    BY <1>1 DEF Shape
  <1>2. ASSUME NEW v \in Variables, ConstructValue(v) PROVE Shape
    <2>1. PICK c \in {Empty} \cup {Cell(d) : d \in Data} : Construct(v, opt, <<c>>)
      BY <1>2 DEF ConstructValue
    <2>2. Sound(<<c>>)
      BY CellsSound, FixedCells
    <2>3. UNCHANGED vars \/ Gets(v, opt, <<c>>)
      BY <1>0, <2>1, <2>2, ConstructShape
    <2> QED BY <1>0, <1>2, <2>1, <2>3 DEF Shape, ConstructValue
  <1>3. ASSUME NEW v \in Variables, NEW p \in Places, CopyConstruct(v, p) PROVE Shape
    <2>1. UNCHANGED vars \/ Gets(v, opt, Inside(p))
      BY <1>0, <1>3, PlaceSound, ConstructShape DEF CopyConstruct
    <2> QED BY <1>0, <1>3, <2>1 DEF Shape, CopyConstruct
  <1>4. ASSUME NEW v \in Variables, NEW p \in Places, MoveConstruct(v, p) PROVE Shape
    <2>1. UNCHANGED vars \/ Gets(v, MovedFrom(p), Inside(p))
      BY <1>0, <1>4, PlaceSound, MovedFromSound, ConstructShape DEF MoveConstruct
    <2> QED BY <1>0, <1>4, <2>1 DEF Shape, MoveConstruct
  <1>5. ASSUME NEW v \in Variables, Destroy(v) PROVE Shape
    BY <1>5 DEF Shape, Destroy, Returns
  <1>6. ASSUME NEW v \in Usable, NEW s, Sound(s), Assign(v, opt, s)
        PROVE  UNCHANGED vars \/ Gets(v, opt, s) \/ Loses(v, opt)
    BY <1>0, <1>6, UsableSound, AssignShape DEF At
  <1>7. ASSUME NEW v \in Variables, NEW p \in Places, CopyAssign(v, p) PROVE Shape
    <2>1. CASE p = <<v, 1>>
      BY <1>1, <1>7, <2>1 DEF CopyAssign
    <2>2. CASE p # <<v, 1>>
      <3>1. v \in Usable /\ Assign(v, opt, Inside(p))
        BY <1>7, <2>2 DEF CopyAssign
      <3>2. UNCHANGED vars \/ Gets(v, opt, Inside(p)) \/ Loses(v, opt)
        BY <1>6, <3>1, PlaceSound
      <3> QED BY <3>1, <3>2, UsableSound DEF Shape
    <2> QED BY <2>1, <2>2
  <1>8. ASSUME NEW v \in Variables, NEW p \in Places, MoveAssign(v, p) PROVE Shape
    <2>1. CASE p = <<v, 1>>
      BY <1>1, <1>8, <2>1 DEF MoveAssign
    <2>2. CASE p # <<v, 1>>
      <3>1. v \in Usable /\ Assign(v, MovedFrom(p), Inside(p))
        BY <1>8, <2>2 DEF MoveAssign
      <3>2. MovedFrom(p)[v] # Gone /\ MovedFrom(p)[v][1].has = At(<<v, 1>>).has
        BY <2>2, <3>1, MovedFromSound DEF NamesAssumption
      <3>3. UNCHANGED vars \/ Gets(v, MovedFrom(p), Inside(p)) \/ (At(p).has /\ Loses(v, MovedFrom(p)))
        BY <3>1, <3>2, MovedFromSound, PlaceSound, AssignShape
      <3> QED BY <3>1, <3>3, UsableSound DEF Shape
    <2> QED BY <2>1, <2>2
  <1>9. ASSUME NEW v \in Variables, NEW d \in Data, AssignValue(v, d) PROVE Shape
    <2>1. v \in Usable /\ Assign(v, opt, <<Cell(d)>>)
      BY <1>9 DEF AssignValue
    <2>2. UNCHANGED vars \/ Gets(v, opt, <<Cell(d)>>) \/ Loses(v, opt)
      BY <1>6, <2>1, CellsSound
    <2> QED BY <2>1, <2>2, UsableSound DEF Shape
  <1>10. ASSUME NEW v \in Variables, Reset(v) PROVE Shape
    <2>1. v \in Usable /\ Sound(opt[v])
      BY <1>10, UsableSound DEF Reset
    <2>2. opt[v][1].has \in BOOLEAN
      BY <2>1, FirstCell
    <2>3. Flagged(Killed(opt, v), v, FALSE) = [opt EXCEPT ![v] = <<Empty>>]
      BY <1>0, <2>2, KilledAndFlagged DEF Fits
    <2>4. UNCHANGED vars \/ Gets(v, opt, <<Empty>>)
      BY <1>10, <2>3 DEF Reset, Returns, Gets
    <2> QED BY <2>1, <2>4, UsableSound DEF Shape
  <1>11. ASSUME NEW p \in Places, Access(p) PROVE Shape
    BY <1>11 DEF Shape
  <1> QED BY <1>1, <1>2, <1>3, <1>4, <1>5, <1>7, <1>8, <1>9, <1>10, <1>11 DEF Next

-----------------------------------------------------------------------------
(* The invariant *)

LEMMA GetsSound ==
  ASSUME NamesAssumption, IInv, NEW v \in Variables \ lost, NEW m, Fits(m, lost),
         NEW s, Sound(s), Gets(v, m, s)
  PROVE  IInv'
  <1>1. m \in [Variables -> Seq(Cells) \cup {Gone}] /\ s \in Seq(Cells)
    BY DEF Fits, Sound
  <1>2. /\ [m EXCEPT ![v] = s] \in [Variables -> Seq(Cells) \cup {Gone}]
        /\ \A u \in Variables : [m EXCEPT ![v] = s][u] = IF u = v THEN s ELSE m[u]
    BY <1>1
  <1>3. Fits([m EXCEPT ![v] = s], lost)
    BY <1>2 DEF Fits
  <1> QED BY <1>3 DEF Gets, IInv

LEMMA LosesSound ==
  ASSUME NamesAssumption, IInv, NEW v \in Usable, NEW m, Fits(m, lost), Loses(v, m)
  PROVE  IInv'
  <1>1. m \in [Variables -> Seq(Cells) \cup {Gone}] /\ <<Cell(Raw)>> \in Seq(Cells)
    BY FixedCells DEF Fits
  <1>2. /\ [m EXCEPT ![v] = <<Cell(Raw)>>] \in [Variables -> Seq(Cells) \cup {Gone}]
        /\ \A u \in Variables :
             [m EXCEPT ![v] = <<Cell(Raw)>>][u] = IF u = v THEN <<Cell(Raw)>> ELSE m[u]
    BY <1>1
  <1>3. Fits([m EXCEPT ![v] = <<Cell(Raw)>>], lost \cup {v})
    BY <1>2 DEF Fits
  <1> QED BY <1>3, UsableSound DEF Loses, IInv

LEMMA DestroySound ==
  ASSUME NamesAssumption, IInv, NEW v \in Usable,
         opt' = [opt EXCEPT ![v] = Gone], UNCHANGED lost
  PROVE  IInv'
  BY UsableSound DEF IInv, Fits

LEMMA AccessSound ==
  ASSUME NamesAssumption, IInv, NEW p \in Places, Access(p)
  PROVE  IInv'
  <1> DEFINE w == p[1]
  <1>1. w \in Usable /\ w \in Variables \ lost /\ Sound(opt[w]) /\ p[2] \in 1..Len(opt[w])
    BY PlaceSound, UsableSound
  <1>2. CASE Returns(MovedFrom(p))
    BY <1>2, MovedFromSound DEF Returns, IInv
  <1>3. ASSUME NEW d \in Data, NEW inside \in {<<>>, <<Empty>>} \cup {<<Cell(e)>> : e \in Data},
               p[2] + Len(inside) <= MaxDepth,
               Returns([opt EXCEPT ![w] = SubSeq(@, 1, p[2] - 1) \o <<Cell(d)>> \o inside])
        PROVE  IInv'
    <2> DEFINE s == SubSeq(opt[w], 1, p[2] - 1) \o <<Cell(d)>> \o inside
    <2>1. inside = <<>> \/ (Len(inside) = 1 /\ Sound(inside))
      BY CellsSound, FixedCells
    <2>2. Sound(s)
      BY <1>1, <1>3, <2>1, WrittenSound
    <2>3. Gets(w, opt, s)
      BY <1>3 DEF Returns, Gets
    <2> HIDE DEF s
    <2> QED BY <1>1, <2>2, <2>3, GetsSound DEF IInv
  <1> QED BY <1>2, <1>3 DEF Access

LEMMA Invariance == ASSUME NamesAssumption PROVE Spec => []IInv
  <1>1. Init => IInv
    BY DEF Init, IInv, Fits
  <1>2. IInv /\ [Next]_vars => IInv'
    <2> SUFFICES ASSUME IInv, [Next]_vars PROVE IInv'
      OBVIOUS
    <2>1. Shape
      BY StepShape
    <2>2. Fits(opt, lost)
      BY DEF IInv
    <2>3. CASE UNCHANGED vars
      BY <2>3 DEF vars, IInv
    <2>4. ASSUME NEW v \in Variables \ lost,
                 NEW c \in {Empty} \cup {Cell(d) : d \in Data}, Gets(v, opt, <<c>>)
          PROVE  IInv'
      BY <2>2, <2>4, CellsSound, FixedCells, GetsSound
    <2>5. ASSUME NEW v \in Variables \ lost, NEW p \in Places,
                 Gets(v, opt, Inside(p)) \/ Gets(v, MovedFrom(p), Inside(p))
          PROVE  IInv'
      BY <2>2, <2>5, PlaceSound, MovedFromSound, GetsSound
    <2>6. ASSUME NEW v \in Usable, Loses(v, opt) PROVE IInv'
      BY <2>2, <2>6, LosesSound
    <2>7. ASSUME NEW v \in Usable, NEW p \in Places, Loses(v, MovedFrom(p)) PROVE IInv'
      BY <2>7, MovedFromSound, LosesSound
    <2>8. ASSUME NEW v \in Usable, opt' = [opt EXCEPT ![v] = Gone], UNCHANGED lost PROVE IInv'
      BY <2>8, DestroySound
    <2>9. ASSUME NEW p \in Places, Access(p) PROVE IInv'
      BY <2>9, AccessSound
    <2> QED BY <2>1, <2>3, <2>4, <2>5, <2>6, <2>7, <2>8, <2>9 DEF Shape
  <1> QED BY <1>1, <1>2, PTL DEF Spec

(* Whatever throws and wherever the source of an assignment lies,          *)
(* has_value_ is true exactly where a T lives (optional.h).                *)
THEOREM FlagsTold == ASSUME NamesAssumption PROVE Spec => []FlagTellsLife
  <1>1. IInv => FlagTellsLife
    <2> SUFFICES ASSUME IInv PROVE FlagTellsLife
      OBVIOUS
    <2>1. \A v \in lost : v \in Variables /\ opt[v] = <<Cell(Raw)>> /\ opt[v] # Gone
      <3>1. <<Cell(Raw)>> \in Seq(Cells) /\ Gone \notin Seq(Cells)
        BY FixedCells DEF NamesAssumption
      <3> QED BY <3>1 DEF IInv, Fits
    <2>2. ASSUME NEW v \in Variables, opt[v] # Gone
          PROVE  /\ Len(opt[v]) \in 1..MaxDepth
                 /\ \A i \in DOMAIN opt[v] : opt[v][i] \in Cells
      <3>1. CASE v \in lost
        <4>1. opt[v] \in Seq(Cells) /\ opt[v] = <<Cell(Raw)>>
          BY <2>1, <3>1, FixedCells
        <4>2. Len(opt[v]) = 1
          BY <4>1
        <4>3. 1 \in 1..MaxDepth
          BY DEF NamesAssumption
        <4> QED BY <4>1, <4>2, <4>3, LenProperties, ElementOfSeq
      <3>2. CASE v \notin lost
        <4>1. Sound(opt[v])
          BY <2>2, <3>2 DEF IInv, Fits
        <4> QED BY <4>1, LenProperties, ElementOfSeq DEF Sound
      <3> QED BY <3>1, <3>2
    <2>3. ASSUME NEW p \in Places
          PROVE  (At(p).has <=> At(p).buf # Raw) /\ (Len(Inside(p)) > 1 => At(p).has)
      <3>1. Sound(Inside(p)) /\ Inside(p)[1] = At(p)
        BY PlaceSound
      <3>2. Len(Inside(p)) > 1 => Inside(p)[1].has
        BY <3>1 DEF Sound, NamesAssumption
      <3> QED BY <3>1, <3>2, PlaceSound
    <2> QED BY <2>1, <2>2, <2>3 DEF FlagTellsLife, TypeOK
  <1> QED BY <1>1, Invariance, PTL

-----------------------------------------------------------------------------
(* The refinement.  Inner(s) are the values in an Optional, and Seen(m,  *)
(* l) what AbstractOptional.tla sees of variables m with those in l lost.  *)
Inner(s) == [i \in DOMAIN s |-> s[i].buf]

Seen(m, l) ==
  [v \in Variables |-> CASE v \in l -> Lost
                         [] m[v] = Gone -> Gone
                         [] OTHER -> Inner(m[v])]

Contents == Seen(opt, lost)

Bufs == Data \cup {Moved, Raw}

LEMMA InnerType ==
  ASSUME NEW s \in Seq(Cells)
  PROVE  /\ Inner(s) \in Seq(Bufs) /\ Len(Inner(s)) = Len(s)
         /\ \A i \in 1..Len(s) : Inner(s)[i] = s[i].buf
  <1>1. Len(s) \in Nat /\ DOMAIN s = 1..Len(s) /\ \A i \in 1..Len(s) : s[i] \in Cells
    BY LenProperties, ElementOfSeq
  <1>2. \A i \in 1..Len(s) : s[i].buf \in Bufs
    BY <1>1 DEF Cells, Bufs
  <1>3. Inner(s) = [i \in 1..Len(s) |-> s[i].buf]
    BY <1>1 DEF Inner
  <1>4. Inner(s) \in Seq(Bufs)
    BY <1>1, <1>2, <1>3
  <1>5. Len(Inner(s)) = Len(s)
    BY <1>1, <1>3
  <1> QED BY <1>3, <1>4, <1>5

LEMMA InnerOfSub ==
  ASSUME NEW s \in Seq(Cells), NEW i \in 1..Len(s), NEW j \in 0..Len(s)
  PROVE  SubSeq(s, i, j) \in Seq(Cells) /\ Inner(SubSeq(s, i, j)) = SubSeq(Inner(s), i, j)
  <1> DEFINE t == SubSeq(s, i, j)
             u == SubSeq(Inner(s), i, j)
             n == IF i <= j THEN j - i + 1 ELSE 0
  <1>1. /\ i \in Int /\ j \in Int /\ Len(s) \in Nat /\ n \in Nat
        /\ \A k \in i..j : k \in 1..Len(s)
        /\ \A k \in 1..n : k \in 1..(j - i + 1) /\ i + k - 1 \in 1..Len(s)
    BY LenProperties
  <1>2. t \in Seq(Cells) /\ Len(t) = n /\ \A k \in 1..(j - i + 1) : t[k] = s[i + k - 1]
    BY <1>1, ElementOfSeq, SubSeqProperties
  <1>3. \A k \in i..j : Inner(s)[k] \in Bufs
    BY <1>1, InnerType, ElementOfSeq
  <1>4. u \in Seq(Bufs) /\ Len(u) = n /\ \A k \in 1..(j - i + 1) : u[k] = Inner(s)[i + k - 1]
    BY <1>1, <1>3, SubSeqProperties
  <1> HIDE DEF t, u, n
  <1>5. Inner(t) \in Seq(Bufs) /\ Len(Inner(t)) = n /\ \A k \in 1..n : Inner(t)[k] = t[k].buf
    BY <1>2, InnerType
  <1>6. \A k \in 1..n : Inner(t)[k] = u[k]
    BY <1>1, <1>2, <1>4, <1>5, InnerType
  <1>7. Inner(t) = u
    BY <1>4, <1>5, <1>6, SeqEqual
  <1> QED BY <1>2, <1>7 DEF t, u

LEMMA InnerOfConcat ==
  ASSUME NEW s \in Seq(Cells), NEW t \in Seq(Cells)
  PROVE  s \o t \in Seq(Cells) /\ Inner(s \o t) = Inner(s) \o Inner(t)
  <1> DEFINE a == s \o t
             b == Inner(s) \o Inner(t)
             n == Len(s) + Len(t)
  <1>1. /\ Len(s) \in Nat /\ Len(t) \in Nat /\ n \in Nat
        /\ \A i \in 1..n : i <= Len(s) => i \in 1..Len(s)
        /\ \A i \in 1..n : ~(i <= Len(s)) => i - Len(s) \in 1..Len(t)
    BY LenProperties
  <1>2. /\ a \in Seq(Cells) /\ Len(a) = n
        /\ \A i \in 1..n : a[i] = IF i <= Len(s) THEN s[i] ELSE t[i - Len(s)]
    BY ConcatProperties
  <1>3. /\ b \in Seq(Bufs) /\ Len(b) = n
        /\ \A i \in 1..n :
             b[i] = IF i <= Len(s) THEN Inner(s)[i] ELSE Inner(t)[i - Len(s)]
    <2>1. /\ Inner(s) \in Seq(Bufs) /\ Len(Inner(s)) = Len(s)
          /\ Inner(t) \in Seq(Bufs) /\ Len(Inner(t)) = Len(t)
      BY InnerType
    <2>2. /\ b \in Seq(Bufs) /\ Len(b) = Len(Inner(s)) + Len(Inner(t))
          /\ \A i \in 1..(Len(Inner(s)) + Len(Inner(t))) :
               b[i] = IF i <= Len(Inner(s)) THEN Inner(s)[i]
                      ELSE Inner(t)[i - Len(Inner(s))]
      BY <2>1, ConcatProperties
    <2> HIDE DEF b
    <2> QED BY <2>1, <2>2
  <1> HIDE DEF a, b, n
  <1>4. Inner(a) \in Seq(Bufs) /\ Len(Inner(a)) = n /\ \A i \in 1..n : Inner(a)[i] = a[i].buf
    BY <1>2, InnerType
  <1>5. ASSUME NEW i \in 1..n PROVE Inner(a)[i] = b[i]
    <2>1. CASE i <= Len(s)
      BY <1>1, <1>2, <1>3, <1>4, <2>1, InnerType
    <2>2. CASE ~(i <= Len(s))
      BY <1>1, <1>2, <1>3, <1>4, <2>2, InnerType
    <2> QED BY <2>1, <2>2
  <1>6. Inner(a) = b
    BY <1>3, <1>4, <1>5, SeqEqual
  <1> QED BY <1>2, <1>6 DEF a, b

LEMMA InnerOfOne ==
  ASSUME NEW c \in Cells
  PROVE  <<c>> \in Seq(Cells) /\ Inner(<<c>>) = <<c.buf>>
  <1>1. <<c>> \in Seq(Cells) /\ Len(<<c>>) = 1 /\ <<c>>[1] = c
    OBVIOUS
  <1>2. /\ Inner(<<c>>) \in Seq(Bufs) /\ Len(Inner(<<c>>)) = Len(<<c>>)
        /\ \A i \in 1..Len(<<c>>) : Inner(<<c>>)[i] = <<c>>[i].buf
    BY <1>1, InnerType
  <1>3. Inner(<<c>>)[1] = c.buf /\ Len(Inner(<<c>>)) = 1
    BY <1>1, <1>2
  <1> QED BY <1>1, <1>2, <1>3

-----------------------------------------------------------------------------
(* What is seen of the results of a step. *)

LEMMA SeenType ==
  ASSUME NamesAssumption, NEW m, NEW l, Fits(m, l), NEW v \in Variables
  PROVE  /\ v \in l => Seen(m, l)[v] = Lost
         /\ v \notin l /\ m[v] = Gone => Seen(m, l)[v] = Gone
         /\ v \notin l /\ m[v] # Gone => /\ Seen(m, l)[v] = Inner(m[v])
                                         /\ Seen(m, l)[v] \notin {Gone, Lost}
  <1>1. ASSUME v \notin l, m[v] # Gone PROVE Inner(m[v]) \notin {Gone, Lost}
    <2>1. Inner(m[v]) \in Seq(Bufs)
      BY <1>1, InnerType DEF Fits, Sound
    <2> QED BY <2>1 DEF NamesAssumption, Bufs
  <1>2. v \in l => m[v] # Gone
    BY FixedCells DEF Fits, NamesAssumption
  <1>3. Seen(m, l)[v] = CASE v \in l -> Lost [] m[v] = Gone -> Gone [] OTHER -> Inner(m[v])
    BY DEF Seen
  <1> QED BY <1>1, <1>2, <1>3

LEMMA SeenGets ==
  ASSUME NamesAssumption, NEW m, NEW l, Fits(m, l), NEW v \in Variables \ l, NEW s, Sound(s)
  PROVE  Seen([m EXCEPT ![v] = s], l) = [Seen(m, l) EXCEPT ![v] = Inner(s)]
  <1>1. s # Gone
    BY DEF Sound, NamesAssumption
  <1>2. \A u \in Variables : [m EXCEPT ![v] = s][u] = IF u = v THEN s ELSE m[u]
    BY DEF Fits
  <1>3. ASSUME NEW u \in Variables
        PROVE  Seen([m EXCEPT ![v] = s], l)[u] = [Seen(m, l) EXCEPT ![v] = Inner(s)][u]
    <2>1. CASE u = v
      <3>1. Seen([m EXCEPT ![v] = s], l)[v] =
              CASE v \in l -> Lost [] s = Gone -> Gone [] OTHER -> Inner(s)
        BY <1>2 DEF Seen
      <3>2. [Seen(m, l) EXCEPT ![v] = Inner(s)][v] = Inner(s)
        BY DEF Seen
      <3> QED BY <1>1, <2>1, <3>1, <3>2
    <2>2. CASE u # v
      BY <1>2, <2>2 DEF Seen
    <2> QED BY <2>1, <2>2
  <1> QED BY <1>3 DEF Seen

LEMMA SeenLoses ==
  ASSUME NEW m, NEW l, Fits(m, l), NEW v \in Variables, NEW s, s # Gone
  PROVE  Seen([m EXCEPT ![v] = s], l \cup {v}) = [Seen(m, l) EXCEPT ![v] = Lost]
  <1>1. \A u \in Variables : [m EXCEPT ![v] = s][u] = IF u = v THEN s ELSE m[u]
    BY DEF Fits
  <1>2. ASSUME NEW u \in Variables
        PROVE  Seen([m EXCEPT ![v] = s], l \cup {v})[u] = [Seen(m, l) EXCEPT ![v] = Lost][u]
    <2>1. CASE u = v
      <3>1. Seen([m EXCEPT ![v] = s], l \cup {v})[v] =
              CASE v \in l \cup {v} -> Lost [] s = Gone -> Gone [] OTHER -> Inner(s)
        BY <1>1 DEF Seen
      <3>2. [Seen(m, l) EXCEPT ![v] = Lost][v] = Lost
        BY DEF Seen
      <3> QED BY <2>1, <3>1, <3>2
    <2>2. CASE u # v
      BY <1>1, <2>2 DEF Seen
    <2> QED BY <2>1, <2>2
  <1> QED BY <1>2 DEF Seen

LEMMA SeenGone ==
  ASSUME NEW m, NEW l, Fits(m, l), NEW v \in Variables \ l
  PROVE  Seen([m EXCEPT ![v] = Gone], l) = [Seen(m, l) EXCEPT ![v] = Gone]
  <1>1. \A u \in Variables : [m EXCEPT ![v] = Gone][u] = IF u = v THEN Gone ELSE m[u]
    BY DEF Fits
  <1>2. ASSUME NEW u \in Variables
        PROVE  Seen([m EXCEPT ![v] = Gone], l)[u] = [Seen(m, l) EXCEPT ![v] = Gone][u]
    <2>1. CASE u = v
      <3>1. Seen([m EXCEPT ![v] = Gone], l)[v] =
              CASE v \in l -> Lost [] Gone = Gone -> Gone [] OTHER -> Inner(Gone)
        BY <1>1 DEF Seen
      <3>2. [Seen(m, l) EXCEPT ![v] = Gone][v] = Gone
        BY DEF Seen
      <3> QED BY <2>1, <3>1, <3>2
    <2>2. CASE u # v
      BY <1>1, <2>2 DEF Seen
    <2> QED BY <2>1, <2>2
  <1> QED BY <1>2 DEF Seen

LEMMA ContentsType ==
  ASSUME NamesAssumption, IInv
  PROVE  /\ Abstract!Live = Usable
         /\ \A v \in Variables : v \notin lost => Contents[v] # Lost
         /\ \A v \in Usable : Contents[v] = Inner(opt[v])
  <1>1. \A v \in Variables :
          /\ v \in lost => Contents[v] = Lost
          /\ v \notin lost /\ opt[v] = Gone => Contents[v] = Gone
          /\ v \notin lost /\ opt[v] # Gone => /\ Contents[v] = Inner(opt[v])
                                               /\ Contents[v] \notin {Gone, Lost}
    BY SeenType DEF IInv, Contents
  <1>2. Abstract!Live = {v \in Variables : Contents[v] \notin {Gone, Lost}}
    BY DEF Abstract!Live, Contents, Seen, Inner
  <1>3. Abstract!Live = Usable
    BY <1>1, <1>2 DEF Usable
  <1>4. \A v \in Usable : v \in Variables /\ v \notin lost /\ opt[v] # Gone
    BY DEF Usable
  <1>5. \A v \in Variables : v \notin lost => Contents[v] # Lost
    BY <1>1 DEF NamesAssumption
  <1>6. \A v \in Usable : Contents[v] = Inner(opt[v])
    BY <1>1, <1>4
  <1> QED BY <1>3, <1>5, <1>6

(* A place, seen. *)
LEMMA PlaceSeen ==
  ASSUME NamesAssumption, IInv, NEW p \in Places
  PROVE  /\ p[1] \in Abstract!Live /\ p[1] \in Variables \ lost
         /\ p[2] \in DOMAIN Contents[p[1]]
         /\ Contents[p[1]][p[2]] = At(p).buf
         /\ Inner(Inside(p)) = SubSeq(Contents[p[1]], p[2], Len(Contents[p[1]]))
         /\ Inner(SubSeq(opt[p[1]], 1, p[2] - 1)) = SubSeq(Contents[p[1]], 1, p[2] - 1)
         /\ SubSeq(opt[p[1]], 1, p[2] - 1) \in Seq(Cells)
  <1> DEFINE w == p[1]
  <1>1. w \in Usable /\ p[2] \in 1..Len(opt[w])
    BY PlaceSound
  <1>2. w \in Variables \ lost /\ opt[w] \in Seq(Cells) /\ Contents[w] = Inner(opt[w])
    BY <1>1, UsableSound, ContentsType DEF Sound
  <1>3. /\ Contents[w] \in Seq(Bufs) /\ Len(Contents[w]) = Len(opt[w])
        /\ Contents[w][p[2]] = At(p).buf
    BY <1>1, <1>2, InnerType DEF At
  <1>4. Len(opt[w]) \in 0..Len(opt[w]) /\ p[2] - 1 \in 0..Len(opt[w]) /\ 1 \in 1..Len(opt[w])
    BY <1>1, <1>2, LenProperties
  <1>5. Inner(Inside(p)) = SubSeq(Contents[w], p[2], Len(Contents[w]))
    BY <1>1, <1>2, <1>3, <1>4, InnerOfSub DEF Inside
  <1>6. /\ Inner(SubSeq(opt[w], 1, p[2] - 1)) = SubSeq(Contents[w], 1, p[2] - 1)
        /\ SubSeq(opt[w], 1, p[2] - 1) \in Seq(Cells)
    BY <1>1, <1>2, <1>4, InnerOfSub
  <1>7. p[2] \in DOMAIN Contents[w]
    BY <1>1, <1>3, LenProperties
  <1> QED BY <1>1, <1>2, <1>3, <1>5, <1>6, <1>7, ContentsType

(* What is at p and above it after a move of the object at p. *)
LeftAt(p) ==
  IF Contents[p[1]][p[2]] = Raw THEN Contents[p[1]]
  ELSE Append(SubSeq(Contents[p[1]], 1, p[2] - 1), Moved)

LEMMA MovedFromSeen ==
  ASSUME NamesAssumption, IInv, NEW p \in Places
  PROVE  Seen(MovedFrom(p), lost) = [Contents EXCEPT ![p[1]] = LeftAt(p)]
  <1> DEFINE w == p[1]
             a == SubSeq(opt[w], 1, p[2] - 1)
  <1>1. /\ w \in Variables \ lost /\ a \in Seq(Cells)
        /\ Contents[w][p[2]] = At(p).buf
        /\ Inner(a) = SubSeq(Contents[w], 1, p[2] - 1)
        /\ At(p).has <=> At(p).buf # Raw
    BY PlaceSeen, PlaceSound
  <1>2. CASE ~At(p).has
    <2>1. LeftAt(p) = Contents[w]
      BY <1>1, <1>2 DEF LeftAt
    <2>2. Contents = [Contents EXCEPT ![w] = Contents[w]]
      BY DEF Contents, Seen
    <2> QED BY <1>2, <2>1, <2>2, MovedFromSound DEF Contents
  <1>3. CASE At(p).has
    <2>1. Cell(Moved) \in Cells /\ Cell(Moved).buf = Moved
      BY CellsSound DEF Cell
    <2> HIDE DEF a
    <2>2. /\ Inner(a \o <<Cell(Moved)>>) = Inner(a) \o <<Moved>>
          /\ a \o <<Cell(Moved)>> \in Seq(Cells)
      <3> DEFINE one == <<Cell(Moved)>>
      <3>1. one \in Seq(Cells) /\ Inner(one) = <<Moved>>
        BY <2>1, InnerOfOne
      <3> HIDE DEF one
      <3>2. /\ Inner(a \o one) = Inner(a) \o Inner(one)
            /\ a \o one \in Seq(Cells)
        BY <1>1, <3>1, InnerOfConcat
      <3>3. /\ Inner(a \o one) = Inner(a) \o <<Moved>>
            /\ a \o one \in Seq(Cells)
        BY <3>1, <3>2
      <3> QED BY <3>3 DEF one
    <2>3. Append(Inner(a), Moved) = Inner(a) \o <<Moved>>
      <3>1. Inner(a) \in Seq(Bufs) /\ Moved \in Bufs
        BY <1>1, InnerType DEF Bufs
      <3> QED BY <3>1, AppendIsConcat
    <2>4. LeftAt(p) = Inner(a \o <<Cell(Moved)>>)
      BY <1>1, <1>3, <2>2, <2>3 DEF LeftAt
    <2>5. MovedFrom(p) = [opt EXCEPT ![w] = a \o <<Cell(Moved)>>] /\ Fits(MovedFrom(p), lost)
      BY <1>3, MovedFromSound DEF a
    <2>6. a \o <<Cell(Moved)>> # Gone
      BY <2>2 DEF NamesAssumption
    <2>7. Sound(a \o <<Cell(Moved)>>)
      <3>1. MovedFrom(p)[w] = a \o <<Cell(Moved)>>
        BY <2>5, <1>1 DEF IInv, Fits
      <3> QED BY <1>1, <2>5, <2>6, <3>1 DEF Fits
    <2>8. Seen([opt EXCEPT ![w] = a \o <<Cell(Moved)>>], lost) =
            [Contents EXCEPT ![w] = Inner(a \o <<Cell(Moved)>>)]
      <3>1. Fits(opt, lost)
        BY DEF IInv
      <3>2. Seen([opt EXCEPT ![w] = a \o <<Cell(Moved)>>], lost) =
              [Seen(opt, lost) EXCEPT ![w] = Inner(a \o <<Cell(Moved)>>)]
        <4> DEFINE t == a \o <<Cell(Moved)>>
        <4>1. Sound(t) /\ w \in Variables \ lost
          BY <2>7, <1>1
        <4> HIDE DEF t, w
        <4>2. Seen([opt EXCEPT ![w] = t], lost) = [Seen(opt, lost) EXCEPT ![w] = Inner(t)]
          BY <3>1, <4>1, SeenGets
        <4> QED BY <4>2 DEF t, w
      <3> QED BY <3>2 DEF Contents
    <2> QED BY <2>4, <2>5, <2>8
  <1> QED BY <1>2, <1>3

-----------------------------------------------------------------------------
(* The steps of AbstractOptional.tla *)
LEMMA AbstractBecome ==
  ASSUME NamesAssumption, IInv, NEW v \in Variables \ lost,
         \/ Contents' = [Contents EXCEPT ![v] = <<Raw>>]
         \/ \E d \in Data : Contents' = [Contents EXCEPT ![v] = <<d>>]
         \/ \E p \in Places :
              \/ Contents' = [Contents EXCEPT ![v] = Inner(Inside(p))]
              \/ Contents' = [[Contents EXCEPT ![p[1]] = LeftAt(p)] EXCEPT ![v] = Inner(Inside(p))]
  PROVE  Abstract!Next
  <1>1. Abstract!Become(v)
    <2>1. ASSUME NEW p \in Places,
                 Contents' = [Contents EXCEPT ![v] = Inner(Inside(p))]
          PROVE  Abstract!Become(v)
      <3> DEFINE w == p[1]
                 i == p[2]
                 s == SubSeq(Contents[w], i, Len(Contents[w]))
      <3>1. Contents' = [Contents EXCEPT ![v] = s]
        BY <2>1, PlaceSeen
      <3>2. Abstract!Set(v, s)
        BY <3>1 DEF Abstract!Set, Contents, Seen, Inner
      <3>3. w \in Abstract!Live /\ i \in DOMAIN Contents[w]
        BY PlaceSeen
      <3> HIDE DEF w, i
      <3> QED BY <3>2, <3>3 DEF Abstract!Become, Contents, Seen, Inner
    <2>2. ASSUME NEW p \in Places,
                 Contents' = [[Contents EXCEPT ![p[1]] = LeftAt(p)] EXCEPT ![v] = Inner(Inside(p))]
          PROVE  Abstract!Become(v)
      <3> DEFINE w == p[1]
                 i == p[2]
                 s == SubSeq(Contents[w], i, Len(Contents[w]))
      <3>1. Contents' = [[Contents EXCEPT ![p[1]] = LeftAt(p)] EXCEPT ![v] = s]
        BY <2>2, PlaceSeen
      <3>2. Abstract!Take(v, w, i, s)
        BY <3>1 DEF Abstract!Take, Contents, Seen, Inner, LeftAt
      <3>3. w \in Abstract!Live /\ i \in DOMAIN Contents[w]
        BY PlaceSeen
      <3> HIDE DEF w, i
      <3> QED BY <3>2, <3>3 DEF Abstract!Become, Contents, Seen, Inner
    <2>3. CASE Contents' = [Contents EXCEPT ![v] = <<Raw>>]
      BY <2>3 DEF Abstract!Become, Abstract!Set, Contents, Seen, Inner
    <2>4. ASSUME NEW d \in Data, Contents' = [Contents EXCEPT ![v] = <<d>>]
          PROVE  Abstract!Become(v)
      <3>1. Abstract!Set(v, <<d>>)
        BY <2>4 DEF Abstract!Set, Contents, Seen, Inner
      <3> QED BY <3>1 DEF Abstract!Become
    <2> QED BY <2>1, <2>2, <2>3, <2>4
  <1>2. Contents[v] # Lost
    BY ContentsType
  <1> QED BY <1>1, <1>2 DEF Abstract!Next, Contents, Seen, Inner

LEMMA GetsRefines ==
  ASSUME NamesAssumption, IInv, NEW v \in Variables \ lost,
         NEW m, Fits(m, lost), NEW s, Sound(s), Gets(v, m, s)
  PROVE  Contents' = [Seen(m, lost) EXCEPT ![v] = Inner(s)]
  <1>1. Seen([m EXCEPT ![v] = s], lost) = [Seen(m, lost) EXCEPT ![v] = Inner(s)]
    BY SeenGets
  <1>2. Contents' = Seen([m EXCEPT ![v] = s], lost)
    BY DEF Contents, Gets, Seen
  <1> QED BY <1>1, <1>2

LEMMA LosesRefines ==
  ASSUME NamesAssumption, IInv, NEW v \in Usable, NEW m, Fits(m, lost), Loses(v, m)
  PROVE  /\ Contents' = [Seen(m, lost) EXCEPT ![v] = Lost]
         /\ v \in Abstract!Live /\ Contents[v][1] # Raw
  <1> DEFINE s == <<Cell(Raw)>>
  <1>1. s # Gone /\ v \in Variables /\ Sound(opt[v]) /\ v \in Usable
    BY FixedCells, UsableSound DEF NamesAssumption
  <1> HIDE DEF s
  <1>2. Seen([m EXCEPT ![v] = s], lost \cup {v}) = [Seen(m, lost) EXCEPT ![v] = Lost]
    BY <1>1, SeenLoses
  <1>3. Contents' = Seen([m EXCEPT ![v] = s], lost \cup {v})
    BY DEF Contents, Loses, Seen, s
  <1>4. Contents[v][1] # Raw
    <2>1. opt[v][1].has /\ opt[v][1].buf # Raw
      BY <1>1, FirstCell DEF Loses, At
    <2>2. opt[v] \in Seq(Cells) /\ 1 \in 1..Len(opt[v])
      BY <1>1 DEF Sound, NamesAssumption
    <2>3. Contents[v][1] = opt[v][1].buf
      BY <2>2, ContentsType, InnerType
    <2> QED BY <2>1, <2>3
  <1> QED BY <1>1, <1>2, <1>3, <1>4, ContentsType

LEMMA AccessRefines ==
  ASSUME NamesAssumption, IInv, NEW p \in Places, Access(p)
  PROVE  Abstract!Next
  <1> DEFINE w == p[1]
             i == p[2]
             a == SubSeq(opt[w], 1, i - 1)
             b == SubSeq(Contents[w], 1, i - 1)
  <1>1. /\ w \in Abstract!Live /\ w \in Variables \ lost /\ i \in DOMAIN Contents[w]
        /\ Inner(a) = b /\ a \in Seq(Cells)
        /\ Contents[w][i] = At(p).buf /\ At(p).buf # Raw
    BY PlaceSeen, PlaceSound DEF Access
  <1>2. CASE Returns(MovedFrom(p))
    <2>1. Contents' = [Contents EXCEPT ![w] = LeftAt(p)]
      <3>1. Contents' = Seen(MovedFrom(p), lost)
        BY <1>2 DEF Returns, Contents, Seen
      <3> QED BY <3>1, MovedFromSeen
    <2>2. LeftAt(p) = Append(b, Moved)
      BY <1>1 DEF LeftAt
    <2> HIDE DEF b
    <2>3. Contents' = [[Contents EXCEPT ![w] = LeftAt(p)] EXCEPT ![w] = Append(b, Moved)]
      BY <2>1, <2>2 DEF Contents, Seen
    <2>4. Abstract!Take(w, w, i, Append(b, Moved))
      BY <2>3 DEF Abstract!Take, Contents, Seen, Inner, LeftAt
    <2>5. Abstract!Write(w)
      <3> HIDE DEF w, i
      <3> QED BY <1>1, <2>4 DEF Abstract!Write, Contents, Seen, Inner, b
    <2> QED BY <1>1, <2>5 DEF Abstract!Next
  <1>3. ASSUME NEW d \in Data, NEW inside \in {<<>>, <<Empty>>} \cup {<<Cell(e)>> : e \in Data},
               i + Len(inside) <= MaxDepth,
               Returns([opt EXCEPT ![w] = SubSeq(@, 1, i - 1) \o <<Cell(d)>> \o inside])
        PROVE  Abstract!Next
    <2> DEFINE s == a \o <<Cell(d)>> \o inside
    <2>1. inside \in Seq(Cells) /\ (inside = <<>> \/ (Len(inside) = 1 /\ Sound(inside)))
      <3>1. CASE inside = <<>>
        BY <3>1, EmptySeq
      <3>2. CASE inside # <<>>
        <4>1. Len(inside) = 1 /\ Sound(inside)
          BY <3>2, CellsSound, FixedCells
        <4> QED BY <4>1 DEF Sound
      <3> QED BY <3>1, <3>2
    <2>2. Inner(inside) \in {<<>>, <<Raw>>} \cup {<<e>> : e \in Data}
      <3>1. CASE inside = <<>>
        <4>1. Inner(inside) \in Seq(Bufs) /\ Len(Inner(inside)) = 0
          BY <2>1, <3>1, InnerType, EmptySeq
        <4> QED BY <4>1, EmptySeq
      <3>2. CASE inside = <<Empty>>
        BY <3>2, FixedCells, InnerOfOne DEF Empty
      <3>3. CASE inside \in {<<Cell(e)>> : e \in Data}
        BY <3>3, CellsSound, InnerOfOne DEF Cell
      <3> QED BY <3>1, <3>2, <3>3
    <2>3. Sound(s)
      <3>1. Sound(opt[w]) /\ i \in 1..Len(opt[w])
        BY PlaceSound, UsableSound
      <3> QED BY <1>3, <2>1, <3>1, WrittenSound
    <2>4. Cell(d) \in Cells /\ Cell(d).buf = d
      BY CellsSound DEF Cell
    <2>5. Inner(s) = b \o <<d>> \o Inner(inside)
      <3> HIDE DEF a, b
      <3>1. a \o <<Cell(d)>> \in Seq(Cells) /\ Inner(a \o <<Cell(d)>>) = b \o <<d>>
        BY <1>1, <2>4, InnerOfOne, InnerOfConcat
      <3> QED BY <2>1, <3>1, InnerOfConcat
    <2>6. Gets(w, opt, s) /\ Fits(opt, lost)
      BY <1>3 DEF Returns, Gets, IInv
    <2>7. Contents' = [Contents EXCEPT ![w] = b \o <<d>> \o Inner(inside)]
      <3> HIDE DEF s, b
      <3> QED BY <1>1, <2>3, <2>5, <2>6, GetsRefines DEF Contents
    <2>8. Abstract!Write(w)
      <3> DEFINE in == Inner(inside)
      <3>1. /\ Contents' = [Contents EXCEPT ![w] = b \o <<d>> \o in]
            /\ in \in {<<>>, <<Raw>>} \cup {<<e>> : e \in Data}
        BY <2>2, <2>7
      <3> HIDE DEF w, i, in
      <3>2. /\ w \in Abstract!Live
            /\ \E j \in DOMAIN Contents[w] :
                 /\ Contents[w][j] # Raw
                 /\ \E e \in Data, x \in {<<>>, <<Raw>>} \cup {<<f>> : f \in Data} :
                      Contents' = [Contents EXCEPT ![w] =
                                     SubSeq(Contents[w], 1, j - 1) \o <<e>> \o x]
        <4>1. Contents[w][i] # Raw /\ i \in DOMAIN Contents[w] /\ w \in Abstract!Live
          BY <1>1
        <4> HIDE DEF Contents
        <4> QED BY <3>1, <4>1 DEF b
      <3> QED BY <3>2 DEF Abstract!Write, Abstract!Set, Contents, Seen, Inner
    <2> QED BY <1>1, <2>8 DEF Abstract!Next
  <1> QED BY <1>2, <1>3 DEF Access

LEMMA StepRefines ==
  ASSUME NamesAssumption, IInv, [Next]_vars
  PROVE  [Abstract!Next]_Contents
  <1>1. Shape /\ Fits(opt, lost)
    BY StepShape DEF IInv
  <1>2. CASE UNCHANGED vars
    BY <1>2 DEF vars, Contents, Seen, Inner
  <1>3. ASSUME NEW v \in Variables \ lost,
               NEW c \in {Empty} \cup {Cell(d) : d \in Data}, Gets(v, opt, <<c>>)
        PROVE  Abstract!Next
    <2>1. Sound(<<c>>) /\ Inner(<<c>>) = <<c.buf>> /\ (c.buf = Raw \/ c.buf \in Data)
      <3>1. c \in Cells /\ Sound(<<c>>)
        BY CellsSound, FixedCells
      <3>2. c.buf = Raw \/ c.buf \in Data
        BY DEF Cell, Empty
      <3> QED BY <3>1, <3>2, InnerOfOne
    <2>2. Contents' = [Contents EXCEPT ![v] = <<c.buf>>]
      BY <1>1, <1>3, <2>1, GetsRefines DEF Contents
    <2> QED BY <2>1, <2>2, AbstractBecome
  <1>4. ASSUME NEW v \in Variables \ lost, NEW p \in Places, Gets(v, opt, Inside(p))
        PROVE  Abstract!Next
    <2>1. Contents' = [Contents EXCEPT ![v] = Inner(Inside(p))]
      BY <1>1, <1>4, PlaceSound, GetsRefines DEF Contents
    <2> QED BY <2>1, AbstractBecome
  <1>5. ASSUME NEW v \in Variables \ lost, NEW p \in Places, Gets(v, MovedFrom(p), Inside(p))
        PROVE  Abstract!Next
    <2>1. Contents' = [Seen(MovedFrom(p), lost) EXCEPT ![v] = Inner(Inside(p))]
      BY <1>5, MovedFromSound, PlaceSound, GetsRefines
    <2>2. Contents' = [[Contents EXCEPT ![p[1]] = LeftAt(p)] EXCEPT ![v] = Inner(Inside(p))]
      BY <2>1, MovedFromSeen
    <2> QED BY <2>2, AbstractBecome
  <1>6. ASSUME NEW v \in Usable, Loses(v, opt)
        PROVE  Abstract!Next
    <2>1. Contents' = [Contents EXCEPT ![v] = Lost] /\ v \in Abstract!Live /\ Contents[v][1] # Raw
      BY <1>1, <1>6, LosesRefines DEF Contents
    <2>2. Abstract!Lose(v)
      BY <2>1 DEF Abstract!Lose, Abstract!Set, Contents, Seen, Inner
    <2> QED BY <2>2, UsableSound DEF Abstract!Next
  <1>7. ASSUME NEW v \in Usable, NEW p \in Places, At(p).has, Loses(v, MovedFrom(p))
        PROVE  Abstract!Next
    <2> DEFINE w == p[1]
               i == p[2]
    <2>1. /\ Contents' = [Seen(MovedFrom(p), lost) EXCEPT ![v] = Lost]
          /\ v \in Abstract!Live /\ Contents[v][1] # Raw
      BY <1>7, MovedFromSound, LosesRefines
    <2>2. Contents' = [[Contents EXCEPT ![w] = LeftAt(p)] EXCEPT ![v] = Lost]
      BY <2>1, MovedFromSeen
    <2>3. Abstract!Take(v, w, i, Lost)
      BY <2>2 DEF Abstract!Take, Contents, Seen, Inner, LeftAt
    <2>4. w \in Abstract!Live /\ i \in DOMAIN Contents[w] /\ Contents[w][i] # Raw
      BY <1>7, PlaceSeen, PlaceSound
    <2> HIDE DEF w, i
    <2>5. Abstract!Lose(v)
      BY <2>1, <2>3, <2>4 DEF Abstract!Lose, Contents, Seen, Inner
    <2> QED BY <2>5, UsableSound DEF Abstract!Next
  <1>8. ASSUME NEW v \in Usable, opt' = [opt EXCEPT ![v] = Gone], UNCHANGED lost
        PROVE  Abstract!Next
    <2>1. Seen([opt EXCEPT ![v] = Gone], lost) = [Seen(opt, lost) EXCEPT ![v] = Gone]
      BY <1>1, UsableSound, SeenGone
    <2>2. Contents' = Seen([opt EXCEPT ![v] = Gone], lost)
      BY <1>8 DEF Contents, Seen
    <2>3. Contents' = [Contents EXCEPT ![v] = Gone]
      BY <2>1, <2>2 DEF Contents
    <2>4. Abstract!Set(v, Gone)
      BY <2>3 DEF Abstract!Set, Contents, Seen, Inner
    <2> QED BY <2>4, UsableSound, ContentsType DEF Abstract!Next
  <1>9. ASSUME NEW p \in Places, Access(p)
        PROVE  Abstract!Next
    BY <1>9, AccessRefines
  <1> QED BY <1>1, <1>2, <1>3, <1>4, <1>5, <1>6, <1>7, <1>8, <1>9 DEF Shape

LEMMA InitRefines == ASSUME NamesAssumption PROVE Init => Abstract!Init
  BY DEF Init, Abstract!Init

(* Optionals hold their values by value, also when the source of an        *)
(* assignment is inside of what it replaces; a move leaves HasValue() of   *)
(* its source alone (optional.h).                                          *)
THEOREM OptionalRefinement == ASSUME NamesAssumption PROVE Spec => ImplementsOptional
  <1>1. IInv /\ [Next]_vars =>
          [Abstract!Next]_[v \in Variables |->
                             CASE v \in lost -> Lost
                               [] opt[v] = Gone -> Gone
                               [] OTHER -> [i \in DOMAIN opt[v] |-> opt[v][i].buf]]
    BY StepRefines DEF Contents, Seen, Inner
  <1> QED BY <1>1, InitRefines, Invariance, PTL DEF Spec, ImplementsOptional, Abstract!Spec

-----------------------------------------------------------------------------
(* Deque.tla.  Two facts about numbers the inductions below rest on: a set *)
(* of numbers has a least one, and one closed under n + 1 has them all.    *)
LEMMA AnyLeastNumber ==
  ASSUME NEW T, T \subseteq Nat, T # {}
  PROVE  \E n \in T : \A m \in T : n <= m
  <1> DEFINE less == {p \in Nat \X Nat : p[1] < p[2]}
  <1>1. IsWellFoundedOn(less, Nat)
    BY NatLessThanWellFounded, Zenon DEF OpToRel, less
  <1>2. PICK x \in T : \A y \in T : ~(<<y, x>> \in less)
    BY <1>1, WFMin, Zenon
  <1>3. ASSUME NEW y \in T PROVE x <= y
    <2>1. x \in Nat /\ y \in Nat /\ ~(<<y, x>> \in less)
      BY <1>2
    <2> QED BY <2>1
  <1> QED BY <1>3

LEMMA AnySetInduction ==
  ASSUME NEW T, 0 \in T, \A n \in Nat : n \in T => n + 1 \in T
  PROVE  Nat \subseteq T
  <1>1. SUFFICES ASSUME Nat \ T # {} PROVE FALSE
    OBVIOUS
  <1>2. PICK n \in Nat \ T : \A m \in Nat \ T : n <= m
    BY <1>1, AnyLeastNumber
  <1>3. n - 1 \in Nat /\ n - 1 + 1 = n
    BY <1>2
  <1> QED BY <1>2, <1>3

-----------------------------------------------------------------------------
(* Cells are numbered through the blocks: cell j of block i has the number *)
(* i * BlockSize + j.                                                      *)
LEMMA BlockSizeType == BlockSize \in Nat /\ BlockSize >= 1 /\ Deques!Indices = 0..(BlockSize - 1)
  BY DequeBounds DEF Deques!BoundsAssumption, Deques!Indices

LEMMA CellType ==
  ASSUME NEW j \in Deques!Indices
  PROVE  j \in Int /\ 0 <= j /\ j < BlockSize
  BY BlockSizeType

LEMMA TimesGrows ==
  ASSUME NEW b \in Nat, NEW n \in Int, NEW m \in Int, n < m
  PROVE  n * b + b <= m * b
  <1>1. (m - n - 1) * b >= 0
    OBVIOUS
  <1>2. m * b - n * b - b = (m - n - 1) * b
    OBVIOUS
  <1> QED BY <1>1, <1>2

LEMMA TimesNext ==
  ASSUME NEW n \in Int
  PROVE  (n + 1) * BlockSize = n * BlockSize + BlockSize
  BY BlockSizeType

LEMMA TimesMinus ==
  ASSUME NEW n \in Int, NEW m \in Int
  PROVE  (n - m) * BlockSize = n * BlockSize - m * BlockSize
  BY BlockSizeType

(* The cell of a number. *)
LEMMA CellExists ==
  ASSUME NEW p \in Nat
  PROVE  /\ p \div BlockSize \in Nat /\ p % BlockSize \in Deques!Indices
         /\ (p \div BlockSize) * BlockSize + (p % BlockSize) = p
  BY BlockSizeType

LEMMA CellUnique ==
  ASSUME NEW n \in Int, NEW i \in Deques!Indices, NEW m \in Int, NEW j \in Deques!Indices,
         n * BlockSize + i = m * BlockSize + j
  PROVE  n = m /\ i = j
  <1>1. CASE n < m
    <2>1. n * BlockSize + BlockSize <= m * BlockSize
      BY <1>1, TimesGrows, BlockSizeType
    <2> QED BY <2>1, BlockSizeType
  <1>2. CASE m < n
    <2>1. m * BlockSize + BlockSize <= n * BlockSize
      BY <1>2, TimesGrows, BlockSizeType
    <2> QED BY <2>1, BlockSizeType
  <1> QED BY <1>1, <1>2, BlockSizeType

LEMMA CellWithin ==
  ASSUME NEW n \in Int, NEW i \in Deques!Indices, NEW m \in Int, n * BlockSize + i < m * BlockSize
  PROVE  n < m
  <1>1. CASE m = n
    BY <1>1, BlockSizeType
  <1>2. CASE m < n
    <2>1. m * BlockSize + BlockSize <= n * BlockSize
      BY <1>2, TimesGrows, BlockSizeType
    <2> QED BY <2>1, BlockSizeType
  <1> QED BY <1>1, <1>2, BlockSizeType

LEMMA CellOf ==
  ASSUME NEW p \in Nat, NEW n \in Int, NEW i \in Deques!Indices, n * BlockSize + i = p
  PROVE  p \div BlockSize = n /\ p % BlockSize = i
  BY CellExists, CellUnique

-----------------------------------------------------------------------------
IntCells == Values \cup {Junk}

BlockArrays == UNION {[0..(n - 1) -> Nat \cup {Nil}] : n \in Nat}

Members ==
  [blocks : BlockArrays, num_blocks : Nat, head : Int, tail : Int, headInd : Int,
   tailInd : Int, size : Nat]

(* The blocks between the ends are there, at most one beyond each end is,  *)
(* and no two pointers are the same.                                       *)
Pointers(q) ==
  /\ DOMAIN q.blocks = 0..(q.num_blocks - 1)
  /\ \A i \in (q.head + 1)..(q.tail - 1) : q.blocks[i] # Nil
  /\ \A i \in DOMAIN q.blocks : q.blocks[i] # Nil => i \in q.head..q.tail
  /\ \A i, j \in DOMAIN q.blocks : q.blocks[i] = q.blocks[j] /\ q.blocks[i] # Nil => i = j

Ends(q) ==
  /\ q.num_blocks >= 2
  /\ -1 <= q.head /\ q.head < q.tail /\ q.tail <= q.num_blocks
  /\ -1 <= q.headInd /\ q.headInd < BlockSize /\ 0 <= q.tailInd /\ q.tailInd <= BlockSize

Sized(q) == q.size = (q.tail - q.head - 2) * BlockSize + q.tailInd - q.headInd - 1

GoodDeque(q) == q \in Members /\ Pointers(q) /\ Ends(q) /\ Sized(q)

LEMMA MembersType ==
  ASSUME NEW q, GoodDeque(q)
  PROVE  /\ q.num_blocks \in Nat /\ q.head \in Int /\ q.tail \in Int
         /\ q.headInd \in Int /\ q.tailInd \in Int /\ q.size \in Nat
         /\ q.blocks \in [0..(q.num_blocks - 1) -> Nat \cup {Nil}]
  BY DEF GoodDeque, Members, Pointers, BlockArrays

(* An end inside of a block has that block. *)
LEMMA EndsInside ==
  ASSUME NEW q, GoodDeque(q)
  PROVE  /\ q.tailInd < BlockSize => q.head + 1 <= q.tail - 1
         /\ q.headInd > -1 => q.head + 1 <= q.tail - 1
         /\ q.size > 0 => q.head + 1 <= q.tail - 1
         /\ q.size > 0 /\ q.tailInd = 0 => q.head + 1 <= q.tail - 2
         /\ q.size > 0 /\ q.headInd = BlockSize - 1 => q.head + 2 <= q.tail - 1
  <1> DEFINE n == q.tail - q.head - 2
  <1>0. q.size \in Nat /\ q.head \in Int /\ q.tail \in Int /\ q.headInd \in Int /\ q.tailInd \in Int
    BY MembersType
  <1>5. /\ q.head < q.tail /\ -1 <= q.headInd /\ q.headInd < BlockSize
        /\ 0 <= q.tailInd /\ q.tailInd <= BlockSize /\ BlockSize \in Nat /\ BlockSize >= 1
    BY BlockSizeType DEF GoodDeque, Ends
  <1>1. n \in Int /\ n >= -1 /\ q.size = n * BlockSize + q.tailInd - q.headInd - 1
    BY <1>0, <1>5 DEF GoodDeque, Sized
  <1>2. n = -1 => n * BlockSize = -BlockSize
    BY <1>5
  <1>3. n = 0 => n * BlockSize = 0
    BY <1>5
  <1> HIDE DEF n
  <1>4. /\ q.tailInd < BlockSize => n >= 0
        /\ q.headInd > -1 => n >= 0
        /\ q.size > 0 => n >= 0
        /\ q.size > 0 /\ q.tailInd = 0 => n >= 1
        /\ q.size > 0 /\ q.headInd = BlockSize - 1 => n >= 1
    BY <1>0, <1>1, <1>2, <1>3, <1>5
  <1> QED BY <1>0, <1>4 DEF n

(* Cell j of block i is the one with index k. *)
Numbered(q, k, i, j) == (i - q.head - 1) * BlockSize + j = q.headInd + 1 + k

LEMMA NilNoBlock == Nil \notin Nat
  BY DequeNames DEF Deques!NamesAssumption

LEMMA IndexIs ==
  ASSUME NEW j \in Int, 0 <= j, j < BlockSize
  PROVE  j \in Deques!Indices
  BY BlockSizeType

(* operator[] finds the cell with the number of an index. *)
LEMMA PlaceIs ==
  ASSUME NEW q, q.head \in Int, q.headInd \in -1..(BlockSize - 1),
         NEW k \in Nat, NEW i \in Int, NEW j \in Deques!Indices, Numbered(q, k, i, j)
  PROVE  Deques!Place(q, k) = <<q.blocks[i], j>>
  <1> DEFINE n == i - q.head - 1
             rest == k - (BlockSize - q.headInd - 1)
  <1>0. /\ q.headInd \in Int /\ -1 <= q.headInd /\ q.headInd < BlockSize
        /\ BlockSize \in Nat /\ BlockSize >= 1
    BY BlockSizeType
  <1>1. n \in Int /\ rest \in Int /\ i = n + q.head + 1
    BY <1>0
  <1>4. n * BlockSize + j = q.headInd + 1 + k
    BY DEF Numbered
  <1>5. j \in Int /\ 0 <= j /\ j < BlockSize
    BY CellType
  <1> HIDE DEF n
  <1>2. CASE BlockSize - q.headInd - 1 > k
    <2>1. n * BlockSize + j = 0 * BlockSize + (q.headInd + 1 + k)
      BY <1>0, <1>4
    <2>2. q.headInd + 1 + k \in Deques!Indices
      BY <1>0, <1>2, IndexIs
    <2>3. n = 0 /\ j = q.headInd + 1 + k
      BY <1>1, <2>1, <2>2, CellUnique
    <2>4. i = q.head + 1 /\ j = q.headInd + k + 1
      BY <1>0, <1>1, <1>5, <2>3
    <2> QED BY <1>2, <2>4 DEF Deques!Place
  <1>3. CASE ~(BlockSize - q.headInd - 1 > k)
    <2>0. (n - 1) * BlockSize = n * BlockSize - BlockSize
      BY <1>0, <1>1
    <2>1. rest \in Nat /\ (n - 1) * BlockSize + j = rest
      BY <1>0, <1>1, <1>3, <1>4, <1>5, <2>0
    <2>2. rest \div BlockSize = n - 1 /\ rest % BlockSize = j
      BY <1>1, <2>1, CellOf
    <2>3. q.head + 2 + rest \div BlockSize = i
      BY <1>1, <2>2
    <2> QED BY <1>3, <2>2, <2>3 DEF Deques!Place
  <1> QED BY <1>2, <1>3

LEMMA PlaceExists ==
  ASSUME NEW q, GoodDeque(q), NEW k \in Nat, k < q.size
  PROVE  \E i \in Int, j \in Int :
           /\ i \in (q.head + 1)..(q.tail - 1) /\ j \in Deques!Indices
           /\ Numbered(q, k, i, j) /\ i \in DOMAIN q.blocks
           /\ Deques!Place(q, k) = <<q.blocks[i], j>> /\ q.blocks[i] \in Nat
  <1> DEFINE p == q.headInd + 1 + k
             n == p \div BlockSize
             j == p % BlockSize
             i == q.head + 1 + n
  <1>1. /\ q.head \in Int /\ q.headInd \in -1..(BlockSize - 1) /\ q.tail \in Int
        /\ q.tailInd <= BlockSize /\ q.tailInd \in Int /\ q.num_blocks \in Nat
        /\ q.size = (q.tail - q.head - 2) * BlockSize + q.tailInd - q.headInd - 1
    <2>1. /\ q.head \in Int /\ q.headInd \in Int /\ q.tail \in Int
          /\ q.tailInd \in Int /\ q.num_blocks \in Nat
      BY MembersType
    <2> QED BY <2>1, BlockSizeType DEF GoodDeque, Ends, Sized
  <1>0. BlockSize \in Nat /\ BlockSize >= 1 /\ q.headInd \in Int /\ q.headInd < BlockSize
        /\ -1 <= q.headInd
    BY <1>1, BlockSizeType
  <1>2. p \in Nat
    BY <1>0
  <1>3. n \in Nat /\ j \in Deques!Indices /\ n * BlockSize + j = p
    BY <1>2, CellExists
  <1>4. p < (q.tail - q.head - 1) * BlockSize
    <2>1. (q.tail - q.head - 1) * BlockSize = (q.tail - q.head - 2) * BlockSize + BlockSize
      BY <1>0, <1>1
    <2>2. (q.tail - q.head - 2) * BlockSize \in Int
      BY <1>0, <1>1
    <2> QED BY <1>0, <1>1, <2>1, <2>2
  <1> HIDE DEF n, j
  <1>5. n < q.tail - q.head - 1
    BY <1>1, <1>3, <1>4, CellWithin
  <1>6. i \in (q.head + 1)..(q.tail - 1) /\ (i - q.head - 1) * BlockSize + j = p
    BY <1>1, <1>3, <1>5
  <1>7. i \in DOMAIN q.blocks /\ q.blocks[i] \in Nat
    <2>1. i \in 0..(q.num_blocks - 1) /\ q.blocks[i] # Nil
      <3>1. -1 <= q.head /\ q.tail <= q.num_blocks
        BY DEF GoodDeque, Ends
      <3>2. i \in 0..(q.num_blocks - 1)
        <4>1. i \in Int /\ q.head + 1 <= i /\ i <= q.tail - 1
          BY <1>1, <1>6
        <4> QED BY <4>1, <3>1, <1>1
      <3> QED BY <3>2, <1>6, Zenon DEF GoodDeque, Pointers
    <2> QED BY <2>1, MembersType
  <1>9. Numbered(q, k, i, j)
    BY <1>6 DEF Numbered
  <1>8. Deques!Place(q, k) = <<q.blocks[i], j>>
    BY <1>1, <1>3, <1>6, <1>9, PlaceIs
  <1>10. i \in Int /\ j \in Int
    BY <1>1, <1>3, CellType
  <1> QED BY <1>3, <1>6, <1>7, <1>8, <1>9, <1>10

LEMMA PlaceUnique ==
  ASSUME NEW q, GoodDeque(q), NEW k \in Nat, k < q.size, NEW l \in Nat, l < q.size,
         Deques!Place(q, k) = Deques!Place(q, l)
  PROVE  k = l
  <1>1. PICK i \in Int, j \in Int :
           /\ Numbered(q, k, i, j) /\ i \in DOMAIN q.blocks
           /\ Deques!Place(q, k) = <<q.blocks[i], j>> /\ q.blocks[i] \in Nat
    BY PlaceExists
  <1>2. PICK i2 \in Int, j2 \in Int :
           /\ Numbered(q, l, i2, j2) /\ i2 \in DOMAIN q.blocks
           /\ Deques!Place(q, l) = <<q.blocks[i2], j2>> /\ q.blocks[i2] \in Nat
    BY PlaceExists
  <1>3. q.blocks[i] = q.blocks[i2] /\ j = j2 /\ q.blocks[i] # Nil
    <2>1. <<q.blocks[i], j>> = <<q.blocks[i2], j2>>
      BY <1>1, <1>2, Zenon
    <2> QED BY <2>1, <1>1, NilNoBlock
  <1>4. i = i2
    BY <1>1, <1>2, <1>3 DEF GoodDeque, Pointers
  <1>5. q.headInd \in Int
    BY MembersType
  <1> QED BY <1>1, <1>2, <1>3, <1>4, <1>5 DEF Numbered

-----------------------------------------------------------------------------
BlocksOf(q) == {q.blocks[i] : i \in DOMAIN q.blocks} \ {Nil}

GoodHeap(h) ==
  /\ DOMAIN h \subseteq Nat
  /\ h \in [DOMAIN h -> [Deques!Indices -> IntCells]]
  /\ \E n \in Nat : \A b \in DOMAIN h : b < n

(* What operator[] reads from index to index. *)
ReadAs(h, q, s) ==
  /\ s \in Seq(Values) /\ Len(s) = q.size
  /\ \A k \in 0..(q.size - 1) : h[Deques!Place(q, k)[1]][Deques!Place(q, k)[2]] = s[k + 1]

(* The heap has the blocks of R, which are as in g, and those of m.q. *)
Parts(g, R, m) ==
  /\ DOMAIN m.heap = R \cup BlocksOf(m.q)
  /\ R \cap BlocksOf(m.q) = {}
  /\ \A b \in R : m.heap[b] = g[b]

Stores(g, R, m, s) ==
  /\ GoodHeap(m.heap) /\ GoodDeque(m.q)
  /\ Parts(g, R, m)
  /\ ReadAs(m.heap, m.q, s)

(* The elements 0..n - 1 of q are those of r from index o on. *)
SamePlaces(q, r, n, o) == \A k \in 0..(n - 1) : Deques!Place(r, k + o) = Deques!Place(q, k)

(* All members but blocks_. *)
SameMembers(q, r) ==
  /\ r.num_blocks = q.num_blocks /\ r.head = q.head /\ r.tail = q.tail
  /\ r.headInd = q.headInd /\ r.tailInd = q.tailInd /\ r.size = q.size

LEMMA FreshIs ==
  ASSUME NEW h, GoodHeap(h)
  PROVE  Deques!Fresh(h) \in Nat /\ \A b \in DOMAIN h : b < Deques!Fresh(h)
  <1> DEFINE T == {n \in Nat : \A b \in DOMAIN h : b < n}
             F == {0} \cup {b + 1 : b \in DOMAIN h}
  <1>1. T # {} /\ T \subseteq Nat /\ DOMAIN h \subseteq Nat
    BY DEF GoodHeap
  <1>2. PICK n \in T : \A m \in T : n <= m
    BY <1>1, AnyLeastNumber
  <1>3. n \in F
    <2>1. CASE n = 0
      BY <2>1
    <2>2. CASE n # 0
      <3>1. n \in Nat /\ n - 1 \in Nat /\ n - 1 \notin T
        BY <1>2, <2>2
      <3>2. PICK b \in DOMAIN h : ~(b < n - 1)
        BY <3>1
      <3>3. b \in Nat /\ b < n
        BY <1>1, <1>2
      <3>4. n = b + 1
        BY <3>1, <3>2, <3>3
      <3> QED BY <3>4
    <2> QED BY <2>1, <2>2
  <1>4. \E a \in F : \A b \in DOMAIN h : b < a
    BY <1>2, <1>3
  <1>5. Deques!Fresh(h) \in F /\ \A b \in DOMAIN h : b < Deques!Fresh(h)
    BY <1>4, Zenon DEF Deques!Fresh
  <1>6. F \subseteq Nat
    BY <1>1
  <1> QED BY <1>5, <1>6

LEMMA BlocksAre ==
  ASSUME NEW q, GoodDeque(q)
  PROVE  /\ BlocksOf(q) \subseteq Nat
         /\ \A i \in DOMAIN q.blocks : q.blocks[i] # Nil => q.blocks[i] \in BlocksOf(q)
  BY MembersType DEF BlocksOf

(* Where the elements are is said by the two members of the front and the  *)
(* pointers between the ends.                                              *)
LEMMA PlacesStay ==
  ASSUME NEW q, GoodDeque(q), NEW r, r.head \in Int, r.headInd \in -1..(BlockSize - 1),
         NEW o \in Int, NEW n \in Int, n <= q.size,
         NEW w \in Nat,
         (r.head - q.head - o) * BlockSize + r.headInd = q.headInd - w,
         \A i \in (q.head + 1)..(q.tail - 1) : r.blocks[i + o] = q.blocks[i]
  PROVE  SamePlaces(q, r, n, w)
  <1> SUFFICES ASSUME NEW k \in 0..(n - 1)
               PROVE  Deques!Place(r, k + w) = Deques!Place(q, k)
    BY DEF SamePlaces
  <1>1. k \in Nat /\ k < q.size /\ k + w \in Nat /\ q.size \in Nat
    BY MembersType
  <1>2. PICK i \in Int, j \in Int :
           /\ i \in (q.head + 1)..(q.tail - 1) /\ j \in Deques!Indices
           /\ Numbered(q, k, i, j) /\ i \in DOMAIN q.blocks
           /\ Deques!Place(q, k) = <<q.blocks[i], j>> /\ q.blocks[i] \in Nat
    BY <1>1, PlaceExists
  <1>3. Numbered(r, k + w, i + o, j)
    <2>1. q.head \in Int /\ q.headInd \in Int /\ r.headInd \in Int /\ BlockSize \in Int
      BY MembersType, BlockSizeType
    <2>2. (i + o - r.head - 1) * BlockSize
             = (i - q.head - 1) * BlockSize - (r.head - q.head - o) * BlockSize
      BY <2>1
    <2>3. (i - q.head - 1) * BlockSize + j = q.headInd + 1 + k
      BY <1>2 DEF Numbered
    <2>4. (i - q.head - 1) * BlockSize \in Int /\ (r.head - q.head - o) * BlockSize \in Int
      BY <2>1
    <2>5. (i + o - r.head - 1) * BlockSize + j = r.headInd + 1 + (k + w)
      BY <2>1, <2>2, <2>3, <2>4
    <2> QED BY <2>5 DEF Numbered
  <1>4. Deques!Place(r, k + w) = <<r.blocks[i + o], j>>
    BY <1>1, <1>2, <1>3, PlaceIs
  <1>5. r.blocks[i + o] = q.blocks[i]
    BY <1>2
  <1> QED BY <1>2, <1>4, <1>5

(* The same ends and the same pointers between them. *)
LEMMA PlacesSame ==
  ASSUME NEW q, GoodDeque(q), NEW r, r.head = q.head, r.headInd = q.headInd,
         NEW n \in Int, n <= q.size,
         \A i \in (q.head + 1)..(q.tail - 1) : r.blocks[i] = q.blocks[i]
  PROVE  SamePlaces(q, r, n, 0)
  <1>1. q.head \in Int /\ q.headInd \in -1..(BlockSize - 1)
    BY MembersType, BlockSizeType DEF GoodDeque, Ends
  <1>2. (r.head - q.head - 0) * BlockSize + r.headInd = q.headInd - 0
    BY <1>1, BlockSizeType
  <1>3. \A i \in (q.head + 1)..(q.tail - 1) : r.blocks[i + 0] = q.blocks[i]
    BY <1>1, MembersType
  <1> QED BY <1>1, <1>2, <1>3, PlacesStay

(* Elements that stay and blocks that stay are read as before. *)
LEMMA ReadsStay ==
  ASSUME NEW q, GoodDeque(q), NEW r, r.size = q.size, SamePlaces(q, r, q.size, 0),
         NEW h, NEW g, NEW s, ReadAs(h, q, s), \A b \in BlocksOf(q) : g[b] = h[b]
  PROVE  ReadAs(g, r, s)
  <1> SUFFICES ASSUME NEW k \in 0..(q.size - 1)
               PROVE  g[Deques!Place(r, k)[1]][Deques!Place(r, k)[2]] = s[k + 1]
    BY DEF ReadAs
  <1>1. k \in Nat /\ k < q.size /\ k + 0 = k
    BY MembersType
  <1>2. Deques!Place(r, k) = Deques!Place(q, k)
    BY <1>1 DEF SamePlaces
  <1>3. PICK i \in Int, j \in Int :
           /\ i \in DOMAIN q.blocks
           /\ Deques!Place(q, k) = <<q.blocks[i], j>> /\ q.blocks[i] \in Nat
    BY <1>1, PlaceExists
  <1>4. g[q.blocks[i]] = h[q.blocks[i]]
    BY <1>3, BlocksAre, NilNoBlock
  <1>5. h[Deques!Place(q, k)[1]][Deques!Place(q, k)[2]] = s[k + 1]
    BY DEF ReadAs
  <1> QED BY <1>2, <1>3, <1>4, <1>5

-----------------------------------------------------------------------------
LEMMA SameMembersType ==
  ASSUME NEW q, GoodDeque(q), NEW f \in [0..(q.num_blocks - 1) -> Nat \cup {Nil}]
  PROVE  /\ [q EXCEPT !.blocks = f] \in Members
         /\ [q EXCEPT !.blocks = f].blocks = f
         /\ SameMembers(q, [q EXCEPT !.blocks = f])
  <1>1. q \in Members /\ f \in BlockArrays
    BY MembersType DEF GoodDeque, BlockArrays
  <1> QED BY <1>1 DEF Members, SameMembers

Points(q, i, a, r) == r = [q EXCEPT !.blocks = [@ EXCEPT ![i] = a]]

(* A block is put where there is none, between the ends or next to them.   *)
LEMMA BlockPut ==
  ASSUME NEW q, GoodDeque(q), NEW i \in DOMAIN q.blocks, i \in q.head..q.tail,
         q.blocks[i] = Nil, NEW a \in Nat, a \notin BlocksOf(q),
         NEW r, Points(q, i, a, r)
  PROVE  /\ GoodDeque(r) /\ SameMembers(q, r) /\ r.blocks = [q.blocks EXCEPT ![i] = a]
         /\ BlocksOf(r) = BlocksOf(q) \cup {a}
         /\ SamePlaces(q, r, q.size, 0)
  <1> DEFINE f == [q.blocks EXCEPT ![i] = a]
  <1>1. q.blocks \in [0..(q.num_blocks - 1) -> Nat \cup {Nil}] /\ q.size \in Nat
    BY MembersType
  <1>2. f \in [0..(q.num_blocks - 1) -> Nat \cup {Nil}]
    BY <1>1
  <1>3. r.blocks = f /\ SameMembers(q, r) /\ r \in Members
    BY <1>2, SameMembersType DEF Points
  <1>4. /\ DOMAIN f = DOMAIN q.blocks /\ f[i] = a
        /\ \A j \in DOMAIN q.blocks : j # i => f[j] = q.blocks[j]
    BY <1>1
  <1>5. a # Nil
    BY NilNoBlock
  <1> HIDE DEF f
  <1>6. Pointers(r)
    <2>1. \A j \in DOMAIN q.blocks : q.blocks[j] # a
      BY <1>5 DEF BlocksOf
    <2>2. \A j \in DOMAIN f : f[j] # Nil => j \in r.head..r.tail
      BY <1>3, <1>4 DEF GoodDeque, Pointers, SameMembers
    <2>3. \A j \in (r.head + 1)..(r.tail - 1) : f[j] # Nil
      <3>1. \A j \in (q.head + 1)..(q.tail - 1) : j \in DOMAIN q.blocks /\ q.blocks[j] # Nil
        <4>1. /\ \A j \in (q.head + 1)..(q.tail - 1) : q.blocks[j] # Nil
              /\ DOMAIN q.blocks = 0..(q.num_blocks - 1)
              /\ -1 <= q.head /\ q.tail <= q.num_blocks
          BY DEF GoodDeque, Pointers, Ends
        <4>2. q.head \in Int /\ q.tail \in Int /\ q.num_blocks \in Int
          BY MembersType
        <4> QED BY <4>1, <4>2
      <3> QED BY <3>1, <1>3, <1>4, <1>5 DEF SameMembers
    <2>4. \A j, k \in DOMAIN f : f[j] = f[k] /\ f[j] # Nil => j = k
      BY <2>1, <1>4 DEF GoodDeque, Pointers
    <2>5. DOMAIN f = 0..(r.num_blocks - 1)
      BY <1>3, <1>4 DEF GoodDeque, Pointers, SameMembers
    <2>6. r.blocks = f
      BY <1>3
    <2>7. /\ \A j \in (r.head + 1)..(r.tail - 1) : r.blocks[j] # Nil
          /\ \A j \in DOMAIN r.blocks : r.blocks[j] # Nil => j \in r.head..r.tail
      BY <2>2, <2>3, <2>6, Zenon
    <2>8. \A j, k \in DOMAIN r.blocks : r.blocks[j] = r.blocks[k] /\ r.blocks[j] # Nil => j = k
      BY <2>4, <2>6, Zenon
    <2>9. DOMAIN r.blocks = 0..(r.num_blocks - 1)
      BY <2>5, <2>6, Zenon
    <2> QED BY <2>7, <2>8, <2>9 DEF Pointers
  <1>7. GoodDeque(r)
    BY <1>3, <1>6 DEF GoodDeque, Ends, Sized, SameMembers
  <1>8. BlocksOf(r) = BlocksOf(q) \cup {a}
    BY <1>3, <1>4, <1>5 DEF BlocksOf
  <1>9. SamePlaces(q, r, q.size, 0)
    <2>1. \A j \in (q.head + 1)..(q.tail - 1) : r.blocks[j] = q.blocks[j]
      <3>1. \A j \in (q.head + 1)..(q.tail - 1) : q.blocks[j] # Nil
        BY DEF GoodDeque, Pointers
      <3>2. ASSUME NEW j \in (q.head + 1)..(q.tail - 1) PROVE r.blocks[j] = q.blocks[j]
        BY <3>1, <1>1, <1>3 DEF f
      <3> QED BY <3>2
    <2>2. r.head = q.head /\ r.headInd = q.headInd
      BY <1>3 DEF SameMembers
    <2>3. q.size \in Int /\ q.size <= q.size
      BY <1>1
    <2> QED BY <2>1, <2>2, <2>3, PlacesSame, Zenon
  <1> QED BY <1>3, <1>7, <1>8, <1>9 DEF f

(* More blocks on the heap. *)
LEMMA HeapGrows ==
  ASSUME NEW h, GoodHeap(h), NEW g, g \in [DOMAIN g -> [Deques!Indices -> IntCells]],
         DOMAIN g \subseteq Nat, NEW n \in Nat,
         \A b \in DOMAIN g : b \in DOMAIN h \/ b < n
  PROVE  GoodHeap(g)
  <1>1. PICK l \in Nat : \A b \in DOMAIN h : b < l
    BY DEF GoodHeap
  <1>2. \A b \in DOMAIN g : b < l + n
    BY <1>1
  <1> QED BY <1>1, <1>2 DEF GoodHeap

LEMMA AllocStores ==
  ASSUME NEW g, NEW R, NEW m, NEW s, Stores(g, R, m, s),
         NEW i \in DOMAIN m.q.blocks, i \in m.q.head..m.q.tail,
         NEW r, r = Deques!AllocateIfNull(m, i)
  PROVE  /\ Stores(g, R, r, s) /\ SameMembers(m.q, r.q) /\ r.q.blocks[i] # Nil
         /\ DOMAIN r.q.blocks = DOMAIN m.q.blocks
         /\ SamePlaces(m.q, r.q, m.q.size, 0)
  <1> DEFINE a == Deques!Fresh(m.heap)
             h == [b \in DOMAIN m.heap \cup {a} |-> IF b = a THEN Deques!EmptyBlock ELSE m.heap[b]]
  <1>1. GoodHeap(m.heap) /\ GoodDeque(m.q) /\ Parts(g, R, m) /\ ReadAs(m.heap, m.q, s)
    BY DEF Stores
  <1>2. CASE m.q.blocks[i] # Nil
    <2>1. r = m
      BY <1>2 DEF Deques!AllocateIfNull
    <2>2. SamePlaces(m.q, m.q, m.q.size, 0)
      BY <1>1, MembersType, PlacesSame
    <2> QED BY <1>2, <2>1, <2>2 DEF SameMembers
  <1>3. CASE m.q.blocks[i] = Nil
    <2>1. r = [heap |-> h, q |-> [m.q EXCEPT !.blocks = [@ EXCEPT ![i] = a]]]
      BY <1>3, Zenon DEF Deques!AllocateIfNull
    <2>2. a \in Nat /\ a \notin DOMAIN m.heap
      BY <1>1, FreshIs
    <2>3. BlocksOf(m.q) \subseteq DOMAIN m.heap /\ R \subseteq DOMAIN m.heap
      BY <1>1 DEF Parts
    <2>4. r.q = [m.q EXCEPT !.blocks = [@ EXCEPT ![i] = a]] /\ r.heap = h
      BY <2>1
    <2>5. /\ GoodDeque(r.q) /\ SameMembers(m.q, r.q) /\ r.q.blocks = [m.q.blocks EXCEPT ![i] = a]
          /\ BlocksOf(r.q) = BlocksOf(m.q) \cup {a}
          /\ SamePlaces(m.q, r.q, m.q.size, 0)
      <3>1. a \notin BlocksOf(m.q)
        BY <2>2, <2>3
      <3> HIDE DEF a
      <3>2. i \in DOMAIN m.q.blocks /\ i \in m.q.head..m.q.tail /\ m.q.blocks[i] = Nil /\ a \in Nat
        BY <1>3, <2>2
      <3>3. Points(m.q, i, a, r.q) /\ GoodDeque(m.q)
        BY <1>1, <2>4 DEF Points
      <3> QED BY <3>1, <3>2, <3>3, BlockPut
    <2>6. GoodHeap(r.heap)
      <3>1. Deques!EmptyBlock \in [Deques!Indices -> IntCells]
        BY DEF Deques!EmptyBlock, IntCells
      <3>2. m.heap \in [DOMAIN m.heap -> [Deques!Indices -> IntCells]] /\ DOMAIN m.heap \subseteq Nat
        BY <1>1 DEF GoodHeap
      <3>3. h \in [DOMAIN h -> [Deques!Indices -> IntCells]] /\ DOMAIN h \subseteq Nat
        BY <3>1, <3>2, <2>2
      <3>4. \A b \in DOMAIN h : b \in DOMAIN m.heap \/ b < a + 1
        BY <2>2
      <3>5. a + 1 \in Nat
        BY <2>2
      <3> HIDE DEF h, a
      <3> QED BY <1>1, <2>4, <3>3, <3>4, <3>5, HeapGrows, Zenon
    <2>7. \A b \in DOMAIN m.heap : r.heap[b] = m.heap[b]
      BY <2>2, <2>4
    <2>8. Parts(g, R, r)
      BY <1>1, <2>2, <2>3, <2>4, <2>5, <2>7 DEF Parts
    <2>9. ReadAs(r.heap, r.q, s)
      <3>1. r.q.size = m.q.size
        BY <2>5 DEF SameMembers
      <3> QED BY <1>1, <2>3, <2>5, <2>7, <3>1, ReadsStay
    <2>10. r.q.blocks[i] # Nil
      BY <1>1, <2>2, <2>5, NilNoBlock, MembersType
    <2>11. DOMAIN r.q.blocks = DOMAIN m.q.blocks
      BY <2>5
    <2> QED BY <2>5, <2>6, <2>8, <2>9, <2>10, <2>11 DEF Stores
  <1> QED BY <1>2, <1>3

-----------------------------------------------------------------------------
(* The ends move along with the pointers. *)
Shifted(q, r, o) ==
  /\ r.head = q.head + o /\ r.tail = q.tail + o
  /\ r.headInd = q.headInd /\ r.tailInd = q.tailInd /\ r.size = q.size

LEMMA SizedShifted ==
  ASSUME NEW q, GoodDeque(q), NEW r, NEW o \in Int, Shifted(q, r, o)
  PROVE  Sized(r)
  <1>1. q.head \in Int /\ q.tail \in Int
    BY MembersType
  <1>2. r.tail - r.head - 2 = q.tail - q.head - 2
    BY <1>1 DEF Shifted
  <1> QED BY <1>2 DEF Shifted, Sized, GoodDeque

LEMMA WidenedGood ==
  ASSUME NEW q, GoodDeque(q), NEW n \in Nat, n > q.num_blocks,
         NEW o \in Nat, o + q.num_blocks <= n,
         NEW r \in Members, r.num_blocks = n, Shifted(q, r, o),
         r.blocks = Deques!Widened(q.blocks, n, o)
  PROVE  GoodDeque(r) /\ BlocksOf(r) = BlocksOf(q) /\ SamePlaces(q, r, q.size, 0)
  <1>1. /\ q.num_blocks \in Nat /\ q.head \in Int /\ q.tail \in Int /\ q.size \in Nat
        /\ q.headInd \in Int /\ q.tailInd \in Int
    BY MembersType
  <1>0. DOMAIN q.blocks = 0..(q.num_blocks - 1)
    BY MembersType
  <1>2. /\ q.num_blocks >= 2 /\ -1 <= q.head /\ q.head < q.tail /\ q.tail <= q.num_blocks
        /\ -1 <= q.headInd /\ q.headInd < BlockSize /\ 0 <= q.tailInd /\ q.tailInd <= BlockSize
    BY DEF GoodDeque, Ends
  <1>3. /\ r.head = q.head + o /\ r.tail = q.tail + o
        /\ r.headInd = q.headInd /\ r.tailInd = q.tailInd /\ r.size = q.size
    BY DEF Shifted
  <1>4. Ends(r)
    <2>1. r.num_blocks >= 2 /\ -1 <= r.head /\ r.head < r.tail /\ r.tail <= r.num_blocks
      BY <1>1, <1>2, <1>3
    <2> QED BY <1>2, <1>3, <2>1, Zenon DEF Ends
  <1>5. /\ DOMAIN r.blocks = 0..(n - 1)
        /\ \A i \in 0..(n - 1) :
             r.blocks[i] = IF i - o \in DOMAIN q.blocks THEN q.blocks[i - o] ELSE Nil
    BY DEF Deques!Widened
  <1>6. \A i \in 0..(q.num_blocks - 1) : i + o \in 0..(n - 1) /\ r.blocks[i + o] = q.blocks[i]
    <2>1. ASSUME NEW i \in 0..(q.num_blocks - 1)
          PROVE  i + o \in 0..(n - 1) /\ (i + o) - o = i
      BY <1>1
    <2> QED BY <2>1, <1>0, <1>5
  <1>7. \A i \in DOMAIN r.blocks : r.blocks[i] # Nil =>
          i - o \in DOMAIN q.blocks /\ r.blocks[i] = q.blocks[i - o]
    BY <1>5
  <1>8. \A i \in (q.head + 1)..(q.tail - 1) : i \in 0..(q.num_blocks - 1)
    BY <1>1, <1>2
  <1>9. Pointers(r)
    <2>1. \A i \in (r.head + 1)..(r.tail - 1) : r.blocks[i] # Nil
      <3>1. ASSUME NEW i \in (r.head + 1)..(r.tail - 1) PROVE r.blocks[i] # Nil
        <4>0. i \in Int /\ r.head + 1 <= i /\ i <= r.tail - 1
          BY <1>1, <1>3
        <4>1. i - o \in (q.head + 1)..(q.tail - 1) /\ (i - o) + o = i
          BY <4>0, <1>1, <1>3
        <4>2. q.blocks[i - o] # Nil
          BY <4>1 DEF GoodDeque, Pointers
        <4>3. r.blocks[(i - o) + o] = q.blocks[i - o]
          BY <4>1, <1>6, <1>8
        <4> QED BY <4>1, <4>2, <4>3
      <3> QED BY <3>1
    <2>2. \A i \in DOMAIN r.blocks : r.blocks[i] # Nil => i \in r.head..r.tail
      <3>1. ASSUME NEW i \in DOMAIN r.blocks, r.blocks[i] # Nil PROVE i \in r.head..r.tail
        <4>1. i - o \in DOMAIN q.blocks /\ q.blocks[i - o] # Nil /\ i \in Int
          BY <3>1, <1>5, <1>7
        <4>2. i - o \in q.head..q.tail
          BY <4>1 DEF GoodDeque, Pointers
        <4> QED BY <4>1, <4>2, <1>1, <1>3
      <3> QED BY <3>1
    <2>3. \A i, j \in DOMAIN r.blocks : r.blocks[i] = r.blocks[j] /\ r.blocks[i] # Nil => i = j
      <3>1. ASSUME NEW i \in DOMAIN r.blocks, NEW j \in DOMAIN r.blocks,
                   r.blocks[i] = r.blocks[j], r.blocks[i] # Nil
            PROVE  i = j
        <4>1. /\ i - o \in DOMAIN q.blocks /\ r.blocks[i] = q.blocks[i - o]
              /\ j - o \in DOMAIN q.blocks /\ r.blocks[j] = q.blocks[j - o]
          BY <3>1, <1>7
        <4>2. i - o = j - o
          BY <3>1, <4>1 DEF GoodDeque, Pointers
        <4> QED BY <4>2, <1>5
      <3> QED BY <3>1
    <2> QED BY <2>1, <2>2, <2>3, <1>5 DEF Pointers
  <1>10. GoodDeque(r)
    BY <1>4, <1>9, SizedShifted DEF GoodDeque
  <1>11. BlocksOf(r) = BlocksOf(q)
    BY <1>0, <1>5, <1>6, <1>7 DEF BlocksOf
  <1>12. SamePlaces(q, r, q.size, 0)
    <2>1. \A i \in (q.head + 1)..(q.tail - 1) : r.blocks[i + o] = q.blocks[i]
      BY <1>6, <1>8
    <2>2. r.head - q.head - o = 0
      BY <1>1, <1>3
    <2>3. (r.head - q.head - o) * BlockSize + r.headInd = q.headInd - 0
      BY <1>1, <1>3, <2>2, BlockSizeType
    <2>4. r.head \in Int /\ o \in Int /\ q.size \in Int /\ q.size <= q.size /\ 0 \in Nat
      BY <1>1, <1>3
    <2>5. r.headInd \in -1..(BlockSize - 1)
      BY <1>1, <1>2, <1>3, BlockSizeType
    <2> QED BY <2>1, <2>3, <2>4, <2>5, PlacesStay
  <1> QED BY <1>10, <1>11, <1>12

LEMMA ReallocStores ==
  ASSUME NEW g, NEW R, NEW m, NEW s, Stores(g, R, m, s), NEW n \in Nat,
         NEW r, r = Deques!Reallocate(m, n)
  PROVE  /\ Stores(g, R, r, s)
         /\ \E o \in Nat : Shifted(m.q, r.q, o)
         /\ n >= 2 * m.q.num_blocks => 0 <= r.q.head /\ r.q.tail < r.q.num_blocks
         /\ SamePlaces(m.q, r.q, m.q.size, 0)
  <1> DEFINE o == (n - m.q.num_blocks) \div 2
             f == Deques!Widened(m.q.blocks, n, o)
  <1>1. GoodHeap(m.heap) /\ GoodDeque(m.q) /\ Parts(g, R, m) /\ ReadAs(m.heap, m.q, s)
    BY DEF Stores
  <1>2. /\ m.q.num_blocks \in Nat /\ m.q.head \in Int /\ m.q.tail \in Int /\ m.q.size \in Nat
        /\ m.q.num_blocks >= 2 /\ -1 <= m.q.head /\ m.q.tail <= m.q.num_blocks
        /\ m.q.headInd \in Int /\ m.q.tailInd \in Int
    BY <1>1, MembersType DEF GoodDeque, Ends
  <1>3. CASE n <= m.q.num_blocks
    <2>1. r = m
      BY <1>3, Zenon DEF Deques!Reallocate
    <2>2. SamePlaces(m.q, m.q, m.q.size, 0)
      BY <1>1, <1>2, PlacesSame
    <2>3. Shifted(m.q, m.q, 0) /\ 0 \in Nat
      BY <1>2 DEF Shifted
    <2>4. ~(n >= 2 * m.q.num_blocks)
      BY <1>2, <1>3
    <2> QED BY <2>1, <2>2, <2>3, <2>4
  <1>4. CASE n > m.q.num_blocks
    <2>1. r = [heap |-> m.heap,
               q    |-> [m.q EXCEPT !.blocks = f, !.num_blocks = n,
                                    !.head = @ + o, !.tail = @ + o]]
      <3>1. ~(n <= m.q.num_blocks)
        BY <1>2, <1>4
      <3> QED BY <3>1, Zenon DEF Deques!Reallocate
    <2>2. /\ o \in Nat /\ o + m.q.num_blocks <= n
          /\ n >= 2 * m.q.num_blocks => o >= 1 /\ o + m.q.num_blocks < n
      BY <1>2, <1>4
    <2>3. f \in BlockArrays
      <3>1. \A i \in DOMAIN m.q.blocks : m.q.blocks[i] \in Nat \cup {Nil}
        BY <1>1, MembersType
      <3>2. f \in [0..(n - 1) -> Nat \cup {Nil}]
        BY <3>1 DEF Deques!Widened
      <3> QED BY <3>2 DEF BlockArrays
    <2> HIDE DEF o, f
    <2>4. m.q \in Members
      BY <1>1 DEF GoodDeque
    <2>11. m.q.head + o \in Int /\ m.q.tail + o \in Int
      BY <1>2, <2>2
    <2>12. /\ r.heap = m.heap
           /\ r.q = [m.q EXCEPT !.blocks = f, !.num_blocks = n,
                                !.head = m.q.head + o, !.tail = m.q.tail + o]
      BY <2>1
    <2>13. r.q \in Members /\ r.q.blocks = f /\ r.q.num_blocks = n
      BY <2>3, <2>4, <2>11, <2>12 DEF Members
    <2>14. Shifted(m.q, r.q, o)
      BY <2>4, <2>12 DEF Members, Shifted
    <2>5. /\ r.heap = m.heap /\ r.q \in Members
          /\ r.q.blocks = f /\ r.q.num_blocks = n /\ Shifted(m.q, r.q, o)
      BY <2>12, <2>13, <2>14
    <2>6. r.q.blocks = Deques!Widened(m.q.blocks, n, o)
      BY <2>5 DEF f
    <2>7. GoodDeque(r.q) /\ BlocksOf(r.q) = BlocksOf(m.q) /\ SamePlaces(m.q, r.q, m.q.size, 0)
      BY <1>1, <1>4, <2>2, <2>5, <2>6, WidenedGood
    <2>8. Parts(g, R, r) /\ GoodHeap(r.heap)
      BY <1>1, <2>5, <2>7 DEF Parts
    <2>9. ReadAs(r.heap, r.q, s)
      <3>1. r.q.size = m.q.size
        BY <2>5 DEF Shifted
      <3> QED BY <1>1, <2>5, <2>7, <3>1, ReadsStay
    <2>10. n >= 2 * m.q.num_blocks => 0 <= r.q.head /\ r.q.tail < r.q.num_blocks
      BY <1>2, <2>2, <2>5 DEF Shifted
    <2> QED BY <2>2, <2>5, <2>7, <2>8, <2>9, <2>10 DEF Stores
  <1> QED BY <1>2, <1>3, <1>4

-----------------------------------------------------------------------------
LEMMA SamePlacesTrans ==
  ASSUME NEW q, NEW r, NEW p, NEW n \in Int, SamePlaces(q, r, n, 0), SamePlaces(r, p, n, 0)
  PROVE  SamePlaces(q, p, n, 0)
  BY DEF SamePlaces

(* Other ends for the same blocks. *)
NewEnds(q, r) ==
  /\ r \in Members /\ r.blocks = q.blocks /\ r.num_blocks = q.num_blocks
  /\ Ends(r) /\ Sized(r)
  /\ \A i \in (r.head + 1)..(r.tail - 1) : q.blocks[i] # Nil
  /\ \A i \in DOMAIN q.blocks : q.blocks[i] # Nil => i \in r.head..r.tail

LEMMA NewEndsGood ==
  ASSUME NEW q, GoodDeque(q), NEW r, NewEnds(q, r)
  PROVE  GoodDeque(r) /\ BlocksOf(r) = BlocksOf(q)
  <1>1. Pointers(r)
    BY Zenon DEF NewEnds, GoodDeque, Pointers
  <1> QED BY <1>1 DEF NewEnds, GoodDeque, BlocksOf

LEMMA NewEndsStores ==
  ASSUME NEW g, NEW R, NEW m, NEW s, Stores(g, R, m, s), NEW r, r.heap = m.heap,
         NewEnds(m.q, r.q), r.q.size = m.q.size, SamePlaces(m.q, r.q, m.q.size, 0)
  PROVE  Stores(g, R, r, s)
  <1>1. GoodHeap(m.heap) /\ GoodDeque(m.q) /\ Parts(g, R, m) /\ ReadAs(m.heap, m.q, s)
    BY DEF Stores
  <1>2. GoodDeque(r.q) /\ BlocksOf(r.q) = BlocksOf(m.q)
    BY <1>1, NewEndsGood
  <1>3. Parts(g, R, r)
    BY <1>1, <1>2 DEF Parts
  <1>4. ReadAs(r.heap, r.q, s)
    BY <1>1, ReadsStay
  <1> QED BY <1>1, <1>2, <1>3, <1>4 DEF Stores

TailIs(q, r, t, j, n) == r = [q EXCEPT !.tail = t, !.tailInd = j, !.size = n]

LEMMA TailSet ==
  ASSUME NEW q \in Members, NEW t \in Int, NEW j \in Int, NEW n \in Nat,
         NEW r, TailIs(q, r, t, j, n)
  PROVE  /\ r \in Members /\ r.blocks = q.blocks /\ r.num_blocks = q.num_blocks
         /\ r.head = q.head /\ r.headInd = q.headInd
         /\ r.tail = t /\ r.tailInd = j /\ r.size = n
  <1>1. r \in Members
    BY DEF TailIs, Members
  <1>2. r.tail = t /\ r.tailInd = j /\ r.size = n
    BY DEF TailIs, Members
  <1>3. /\ r.blocks = q.blocks /\ r.num_blocks = q.num_blocks
        /\ r.head = q.head /\ r.headInd = q.headInd
    BY DEF TailIs, Members
  <1> QED BY <1>1, <1>2, <1>3

HeadIs(q, r, t, j, n) == r = [q EXCEPT !.head = t, !.headInd = j, !.size = n]

LEMMA HeadSet ==
  ASSUME NEW q \in Members, NEW t \in Int, NEW j \in Int, NEW n \in Nat,
         NEW r, HeadIs(q, r, t, j, n)
  PROVE  /\ r \in Members /\ r.blocks = q.blocks /\ r.num_blocks = q.num_blocks
         /\ r.tail = q.tail /\ r.tailInd = q.tailInd
         /\ r.head = t /\ r.headInd = j /\ r.size = n
  <1>1. r \in Members
    BY DEF HeadIs, Members
  <1>2. r.head = t /\ r.headInd = j /\ r.size = n
    BY DEF HeadIs, Members
  <1>3. /\ r.blocks = q.blocks /\ r.num_blocks = q.num_blocks
        /\ r.tail = q.tail /\ r.tailInd = q.tailInd
    BY DEF HeadIs, Members
  <1> QED BY <1>1, <1>2, <1>3

(* The block at tail becomes the last one. *)
OpensBack(m, r) == r = [heap |-> m.heap, q |-> [m.q EXCEPT !.tail = @ + 1, !.tailInd = 0]]

LEMMA BackOpened ==
  ASSUME NEW g, NEW R, NEW m, NEW s, Stores(g, R, m, s), m.q.tailInd = BlockSize,
         m.q.tail < m.q.num_blocks, m.q.blocks[m.q.tail] # Nil,
         NEW r, OpensBack(m, r)
  PROVE  Stores(g, R, r, s) /\ r.q.tailInd = 0 /\ SamePlaces(m.q, r.q, m.q.size, 0)
  <1>1. GoodDeque(m.q)
    BY DEF Stores
  <1>2. /\ m.q.head \in Int /\ m.q.tail \in Int /\ m.q.num_blocks \in Nat
        /\ m.q.headInd \in Int /\ m.q.size \in Nat
    BY <1>1, MembersType
  <1>3. /\ r.heap = m.heap /\ r.q \in Members /\ r.q.blocks = m.q.blocks
        /\ r.q.num_blocks = m.q.num_blocks
        /\ r.q.head = m.q.head /\ r.q.headInd = m.q.headInd
        /\ r.q.tail = m.q.tail + 1 /\ r.q.tailInd = 0 /\ r.q.size = m.q.size
    <2> DEFINE t == m.q.tail + 1
    <2>1. m.q \in Members /\ t \in Int
      BY <1>1, <1>2 DEF GoodDeque
    <2>2. r.heap = m.heap /\ r.q = [m.q EXCEPT !.tail = t, !.tailInd = 0]
      BY DEF OpensBack
    <2> HIDE DEF t
    <2>3. TailIs(m.q, r.q, t, 0, m.q.size)
      BY <2>1, <2>2 DEF TailIs, Members
    <2>4. /\ r.q \in Members /\ r.q.blocks = m.q.blocks
          /\ r.q.num_blocks = m.q.num_blocks
          /\ r.q.head = m.q.head /\ r.q.headInd = m.q.headInd
          /\ r.q.tail = t /\ r.q.tailInd = 0 /\ r.q.size = m.q.size
      <3>1. 0 \in Int /\ m.q.size \in Nat
        BY <1>2
      <3> QED BY <2>1, <2>3, <3>1, TailSet
    <2> QED BY <2>2, <2>4 DEF t
  <1>4. NewEnds(m.q, r.q)
    <2>1. Ends(r.q)
      <3>1. /\ m.q.num_blocks >= 2 /\ -1 <= m.q.head /\ m.q.head < m.q.tail
            /\ -1 <= m.q.headInd /\ m.q.headInd < BlockSize
        BY <1>1 DEF GoodDeque, Ends
      <3>2. /\ r.q.num_blocks = m.q.num_blocks /\ r.q.head = m.q.head
            /\ r.q.headInd = m.q.headInd /\ r.q.tailInd = 0
        BY <1>3
      <3>3. r.q.tail = m.q.tail + 1
        BY <1>3
      <3>4. r.q.head < r.q.tail /\ r.q.tail <= r.q.num_blocks
        BY <3>1, <3>2, <3>3, <1>2
      <3>5. 0 <= BlockSize
        BY BlockSizeType
      <3>6. 0 <= r.q.tailInd /\ r.q.tailInd <= BlockSize
        BY <3>2, <3>5
      <3> QED BY <3>1, <3>2, <3>4, <3>6 DEF Ends
    <2>2. Sized(r.q)
      <3>1. (m.q.tail + 1 - m.q.head - 2) * BlockSize
              = (m.q.tail - m.q.head - 2) * BlockSize + BlockSize
        <4>1. m.q.tail + 1 - m.q.head - 2 = (m.q.tail - m.q.head - 2) + 1
          BY <1>2
        <4>2. m.q.tail - m.q.head - 2 \in Int
          BY <1>2
        <4> QED BY <4>1, <4>2, TimesNext
      <3>2. (m.q.tail - m.q.head - 2) * BlockSize \in Int /\ BlockSize \in Int
        BY <1>2, BlockSizeType
      <3>3. m.q.size = (m.q.tail - m.q.head - 2) * BlockSize + BlockSize - m.q.headInd - 1
        BY <1>1 DEF GoodDeque, Sized
      <3> QED BY <3>1, <3>2, <3>3, <1>2, <1>3 DEF Sized
    <2>3. \A i \in (r.q.head + 1)..(r.q.tail - 1) : m.q.blocks[i] # Nil
      <3>1. ASSUME NEW i \in (r.q.head + 1)..(r.q.tail - 1) PROVE m.q.blocks[i] # Nil
        <4>1. i = m.q.tail \/ i \in (m.q.head + 1)..(m.q.tail - 1)
          BY <1>2, <1>3
        <4> QED BY <4>1, <1>1 DEF GoodDeque, Pointers
      <3> QED BY <3>1
    <2>4. \A i \in DOMAIN m.q.blocks : m.q.blocks[i] # Nil => i \in r.q.head..r.q.tail
      <3>1. \A i \in DOMAIN m.q.blocks : m.q.blocks[i] # Nil => i \in m.q.head..m.q.tail
        BY <1>1 DEF GoodDeque, Pointers
      <3>2. \A i \in m.q.head..m.q.tail : i \in r.q.head..r.q.tail
        BY <1>2, <1>3
      <3> QED BY <3>1, <3>2
    <2> QED BY <2>1, <2>2, <2>3, <2>4, <1>3 DEF NewEnds
  <1>5. SamePlaces(m.q, r.q, m.q.size, 0)
    BY <1>1, <1>2, <1>3, PlacesSame
  <1>6. Stores(g, R, r, s)
    BY <1>3, <1>4, <1>5, NewEndsStores
  <1> QED BY <1>3, <1>5, <1>6

LEMMA BackReadyStores ==
  ASSUME NEW g, NEW R, NEW m, NEW s, Stores(g, R, m, s), m.q.tailInd >= BlockSize,
         NEW r, r = Deques!BackReady(m)
  PROVE  Stores(g, R, r, s) /\ r.q.tailInd = 0 /\ SamePlaces(m.q, r.q, m.q.size, 0)
  <1> DEFINE roomy == IF m.q.tail >= m.q.num_blocks
                      THEN Deques!Reallocate(m, Deques!ReallocationCoef * m.q.num_blocks) ELSE m
             new == Deques!AllocateIfNull(roomy, roomy.q.tail)
  <1>1. GoodDeque(m.q) /\ m.q.num_blocks \in Nat /\ m.q.size \in Nat /\ m.q.tail \in Int
        /\ m.q.tailInd = BlockSize
    <2>1. GoodDeque(m.q)
      BY DEF Stores
    <2>2. m.q.tailInd \in Int /\ m.q.tailInd <= BlockSize
      BY <2>1, MembersType DEF GoodDeque, Ends
    <2> QED BY <2>1, <2>2, MembersType, BlockSizeType
  <1>2. /\ Stores(g, R, roomy, s) /\ \E o \in Nat : Shifted(m.q, roomy.q, o)
        /\ roomy.q.tail < roomy.q.num_blocks
        /\ SamePlaces(m.q, roomy.q, m.q.size, 0)
    <2>1. CASE m.q.tail >= m.q.num_blocks
      <3>1. roomy = Deques!Reallocate(m, 2 * m.q.num_blocks)
        BY <2>1 DEF Deques!ReallocationCoef
      <3>2. 2 * m.q.num_blocks \in Nat /\ 2 * m.q.num_blocks >= 2 * m.q.num_blocks
        BY <1>1
      <3> HIDE DEF roomy
      <3> QED BY <3>1, <3>2, ReallocStores
    <2>2. CASE ~(m.q.tail >= m.q.num_blocks)
      <3>1. roomy = m
        BY <2>2
      <3>2. SamePlaces(m.q, m.q, m.q.size, 0)
        BY <1>1, PlacesSame
      <3>3. Shifted(m.q, m.q, 0) /\ 0 \in Nat
        <4>1. m.q.head \in Int /\ m.q.tail \in Int
          BY <1>1, MembersType
        <4> QED BY <4>1 DEF Shifted
      <3>4. m.q.tail < m.q.num_blocks
        BY <1>1, <2>2
      <3> QED BY <3>1, <3>2, <3>3, <3>4
    <2> QED BY <2>1, <2>2
  <1> HIDE DEF roomy
  <1>3. GoodDeque(roomy.q) /\ roomy.q.size = m.q.size /\ roomy.q.tailInd = BlockSize
    BY <1>1, <1>2 DEF Stores, Shifted
  <1>4. roomy.q.tail \in DOMAIN roomy.q.blocks /\ roomy.q.tail \in roomy.q.head..roomy.q.tail
    <2>1. -1 <= roomy.q.head /\ roomy.q.head < roomy.q.tail
      BY <1>3 DEF GoodDeque, Ends
    <2>2. /\ roomy.q.head \in Int /\ roomy.q.tail \in Int /\ roomy.q.num_blocks \in Nat
          /\ DOMAIN roomy.q.blocks = 0..(roomy.q.num_blocks - 1)
      BY <1>3, MembersType
    <2> QED BY <2>1, <2>2, <1>2
  <1>5. /\ Stores(g, R, new, s) /\ SameMembers(roomy.q, new.q) /\ new.q.blocks[roomy.q.tail] # Nil
        /\ SamePlaces(roomy.q, new.q, roomy.q.size, 0)
    BY <1>2, <1>4, AllocStores
  <1>6. OpensBack(new, r)
    BY Zenon DEF Deques!BackReady, OpensBack, new, roomy
  <1> HIDE DEF new
  <1>7. /\ new.q.size = m.q.size /\ new.q.tailInd = BlockSize
        /\ new.q.tail < new.q.num_blocks /\ new.q.blocks[new.q.tail] # Nil
    BY <1>2, <1>3, <1>5 DEF SameMembers
  <1>8. Stores(g, R, r, s) /\ r.q.tailInd = 0 /\ SamePlaces(new.q, r.q, m.q.size, 0)
    BY <1>5, <1>6, <1>7, BackOpened
  <1>9. SamePlaces(m.q, r.q, m.q.size, 0)
    <2>1. SamePlaces(roomy.q, new.q, m.q.size, 0)
      BY <1>3, <1>5
    <2>2. m.q.size \in Int
      BY <1>1
    <2> QED BY <2>1, <2>2, <1>2, <1>8, SamePlacesTrans
  <1> QED BY <1>8, <1>9

-----------------------------------------------------------------------------
Written(h, a, j, v) == [h EXCEPT ![a] = [@ EXCEPT ![j] = v]]

LEMMA WrittenHeap ==
  ASSUME NEW h, GoodHeap(h), NEW a \in DOMAIN h, NEW j \in Deques!Indices, NEW v \in IntCells,
         NEW w, w = Written(h, a, j, v)
  PROVE  /\ GoodHeap(w) /\ DOMAIN w = DOMAIN h
         /\ \A b \in DOMAIN h : b # a => w[b] = h[b]
         /\ \A b \in DOMAIN h, k \in Deques!Indices :
              w[b][k] = IF b = a /\ k = j THEN v ELSE h[b][k]
  <1>1. h \in [DOMAIN h -> [Deques!Indices -> IntCells]]
    BY DEF GoodHeap
  <1>2. DOMAIN w = DOMAIN h /\ \A b \in DOMAIN h : w[b] = IF b = a THEN [h[a] EXCEPT ![j] = v] ELSE h[b]
    BY DEF Written
  <1>3. h[a] \in [Deques!Indices -> IntCells]
    BY <1>1
  <1>4. [h[a] EXCEPT ![j] = v] \in [Deques!Indices -> IntCells]
    BY <1>3
  <1>5. w \in [DOMAIN w -> [Deques!Indices -> IntCells]]
    <2>1. \A b \in DOMAIN w : w[b] \in [Deques!Indices -> IntCells]
      BY <1>1, <1>2, <1>4
    <2>2. w = [b \in DOMAIN w |-> w[b]]
      BY DEF Written
    <2> QED BY <2>1, <2>2
  <1>6. GoodHeap(w)
    BY <1>2, <1>5 DEF GoodHeap
  <1>7. \A b \in DOMAIN h, k \in Deques!Indices :
          w[b][k] = IF b = a /\ k = j THEN v ELSE h[b][k]
    BY <1>2, <1>3
  <1> QED BY <1>2, <1>6, <1>7

(* s is what operator[] will read once cell j of block a has v. *)
WillRead(h, a, j, v, r, s) ==
  /\ s \in Seq(Values) /\ Len(s) = r.size
  /\ \A k \in 0..(r.size - 1) :
       IF Deques!Place(r, k) = <<a, j>> THEN s[k + 1] = v
       ELSE h[Deques!Place(r, k)[1]][Deques!Place(r, k)[2]] = s[k + 1]

LEMMA ReadsWritten ==
  ASSUME NEW h, GoodHeap(h), NEW a \in DOMAIN h, NEW j \in Deques!Indices, NEW v \in IntCells,
         NEW w, w = Written(h, a, j, v),
         NEW r, GoodDeque(r), BlocksOf(r) \subseteq DOMAIN h,
         NEW s, WillRead(h, a, j, v, r, s)
  PROVE  ReadAs(w, r, s)
  <1> SUFFICES ASSUME NEW k \in 0..(r.size - 1)
               PROVE  w[Deques!Place(r, k)[1]][Deques!Place(r, k)[2]] = s[k + 1]
    BY DEF ReadAs, WillRead
  <1>1. k \in Nat /\ k < r.size
    BY MembersType
  <1>7. IF Deques!Place(r, k) = <<a, j>> THEN s[k + 1] = v
        ELSE h[Deques!Place(r, k)[1]][Deques!Place(r, k)[2]] = s[k + 1]
    BY DEF WillRead
  <1>2. PICK i \in Int, l \in Int :
          /\ l \in Deques!Indices /\ i \in DOMAIN r.blocks
          /\ Deques!Place(r, k) = <<r.blocks[i], l>> /\ r.blocks[i] \in Nat
    BY <1>1, PlaceExists
  <1>3. r.blocks[i] \in DOMAIN h
    BY <1>2, NilNoBlock, BlocksAre
  <1>4. w[r.blocks[i]][l] = IF r.blocks[i] = a /\ l = j THEN v ELSE h[r.blocks[i]][l]
    BY <1>2, <1>3, WrittenHeap
  <1>5. Deques!Place(r, k) = <<a, j>> <=> r.blocks[i] = a /\ l = j
    BY <1>2
  <1>6. Deques!Place(r, k)[1] = r.blocks[i] /\ Deques!Place(r, k)[2] = l
    BY <1>2
  <1> QED BY <1>4, <1>5, <1>6, <1>7

(* The last cell gets an element. *)
AddsBack(m, v, r) ==
  r = [heap |-> Written(m.heap, m.q.blocks[m.q.tail - 1], m.q.tailInd, v),
       q    |-> [m.q EXCEPT !.tailInd = @ + 1, !.size = @ + 1]]

LEMMA BackAdded ==
  ASSUME NEW g, NEW R, NEW m, NEW s, Stores(g, R, m, s), m.q.tailInd < BlockSize,
         NEW v \in Values, NEW r, AddsBack(m, v, r)
  PROVE  /\ Stores(g, R, r, Append(s, v)) /\ SamePlaces(m.q, r.q, m.q.size, 0)
         /\ r.q.size = m.q.size + 1
  <1> DEFINE j == m.q.tailInd
             a == m.q.blocks[m.q.tail - 1]
  <1>1. GoodHeap(m.heap) /\ GoodDeque(m.q) /\ Parts(g, R, m) /\ ReadAs(m.heap, m.q, s)
    BY DEF Stores
  <1>2. /\ m.q.head \in Int /\ m.q.tail \in Int /\ m.q.num_blocks \in Nat /\ m.q.tailInd \in Int
        /\ m.q.headInd \in Int /\ m.q.size \in Nat
    BY <1>1, MembersType
  <1>3. /\ r.q \in Members /\ r.q.blocks = m.q.blocks
        /\ r.q.num_blocks = m.q.num_blocks
        /\ r.q.head = m.q.head /\ r.q.headInd = m.q.headInd
        /\ r.q.tail = m.q.tail /\ r.q.tailInd = m.q.tailInd + 1 /\ r.q.size = m.q.size + 1
    <2> DEFINE j1 == m.q.tailInd + 1
               n1 == m.q.size + 1
    <2>1. m.q \in Members /\ m.q.tail \in Int /\ j1 \in Int /\ n1 \in Nat
      BY <1>1, <1>2 DEF GoodDeque
    <2>4. r.q = [m.q EXCEPT !.tailInd = j1, !.size = n1]
      BY DEF AddsBack
    <2> HIDE DEF j1, n1
    <2>2. TailIs(m.q, r.q, m.q.tail, j1, n1)
      BY <2>1, <2>4 DEF TailIs, Members
    <2>3. /\ r.q \in Members /\ r.q.blocks = m.q.blocks
          /\ r.q.num_blocks = m.q.num_blocks
          /\ r.q.head = m.q.head /\ r.q.headInd = m.q.headInd
          /\ r.q.tail = m.q.tail /\ r.q.tailInd = j1 /\ r.q.size = n1
      BY <2>1, <2>2, TailSet
    <2> QED BY <2>3 DEF j1, n1
  <1>4. NewEnds(m.q, r.q)
    <2>1. Ends(r.q)
      <3>1. Ends(m.q)
        BY <1>1 DEF GoodDeque
      <3> QED BY <3>1, <1>2, <1>3, BlockSizeType DEF Ends
    <2>2. Sized(r.q)
      <3>1. (m.q.tail - m.q.head - 2) * BlockSize \in Int
        BY <1>2, BlockSizeType
      <3>2. m.q.size = (m.q.tail - m.q.head - 2) * BlockSize + m.q.tailInd - m.q.headInd - 1
        BY <1>1 DEF GoodDeque, Sized
      <3> QED BY <3>1, <3>2, <1>2, <1>3 DEF Sized
    <2> QED BY <2>1, <2>2, <1>1, <1>3 DEF NewEnds, GoodDeque, Pointers
  <1>5. GoodDeque(r.q) /\ BlocksOf(r.q) = BlocksOf(m.q)
    BY <1>1, <1>4, NewEndsGood
  <1>6. SamePlaces(m.q, r.q, m.q.size, 0)
    BY <1>1, <1>2, <1>3, PlacesSame
  <1>7. j \in Deques!Indices
    <2>1. 0 <= m.q.tailInd
      BY <1>1 DEF GoodDeque, Ends
    <2> QED BY <2>1, <1>2, IndexIs
  <1>8. a \in BlocksOf(m.q)
    <2>1. m.q.head + 1 <= m.q.tail - 1 /\ -1 <= m.q.head /\ m.q.tail <= m.q.num_blocks
      BY <1>1, EndsInside DEF GoodDeque, Ends
    <2>2. m.q.tail - 1 \in (m.q.head + 1)..(m.q.tail - 1) /\ m.q.tail - 1 \in 0..(m.q.num_blocks - 1)
      BY <2>1, <1>2
    <2>3. a # Nil
      BY <2>2, <1>1 DEF GoodDeque, Pointers
    <2>4. m.q.tail - 1 \in DOMAIN m.q.blocks
      BY <2>2, <1>1, MembersType
    <2> QED BY <2>3, <2>4, <1>1, BlocksAre
  <1>9. Deques!Place(r.q, m.q.size) = <<a, j>>
    <2>1. Numbered(r.q, m.q.size, m.q.tail - 1, j)
      <3>1. m.q.size = (m.q.tail - m.q.head - 2) * BlockSize + m.q.tailInd - m.q.headInd - 1
        BY <1>1 DEF GoodDeque, Sized
      <3>2. (m.q.tail - 1) - r.q.head - 1 = m.q.tail - m.q.head - 2
        BY <1>2, <1>3
      <3>3. (m.q.tail - m.q.head - 2) * BlockSize \in Int
        BY <1>2, BlockSizeType
      <3>4. (m.q.tail - m.q.head - 2) * BlockSize + j = r.q.headInd + 1 + m.q.size
        BY <3>1, <3>3, <1>2, <1>3
      <3> QED BY <3>2, <3>4 DEF Numbered
    <2>2. r.q.head \in Int /\ r.q.headInd \in -1..(BlockSize - 1)
      BY <1>2, <1>3, <1>5, BlockSizeType DEF GoodDeque, Ends
    <2>3. m.q.tail - 1 \in Int
      BY <1>2
    <2> QED BY <2>1, <2>2, <2>3, <1>2, <1>3, <1>7, PlaceIs
  <1>10. s \in Seq(Values) /\ Len(s) = m.q.size
    BY <1>1 DEF ReadAs
  <1>11. Append(s, v) \in Seq(Values) /\ Len(Append(s, v)) = r.q.size
         /\ Append(s, v)[m.q.size + 1] = v
         /\ \A k \in 1..m.q.size : Append(s, v)[k] = s[k]
    BY <1>2, <1>3, <1>10
  <1> HIDE DEF a, j
  <1>18. ASSUME NEW k \in 0..(r.q.size - 1)
         PROVE  IF Deques!Place(r.q, k) = <<a, j>> THEN Append(s, v)[k + 1] = v
                ELSE m.heap[Deques!Place(r.q, k)[1]][Deques!Place(r.q, k)[2]] = Append(s, v)[k + 1]
    <2>1. CASE k = m.q.size
      BY <2>1, <1>9, <1>11
    <2>2. CASE k # m.q.size
      <3>1. k \in 0..(m.q.size - 1) /\ k \in Nat /\ k < r.q.size /\ m.q.size \in Nat
            /\ m.q.size < r.q.size /\ k + 1 \in 1..m.q.size /\ k + 0 = k
        BY <2>2, <1>2, <1>3
      <3>2. Deques!Place(r.q, k) # <<a, j>>
        BY <2>2, <3>1, <1>5, <1>9, PlaceUnique
      <3>3. Deques!Place(r.q, k) = Deques!Place(m.q, k)
        BY <3>1, <1>6 DEF SamePlaces
      <3>4. m.heap[Deques!Place(m.q, k)[1]][Deques!Place(m.q, k)[2]] = s[k + 1]
        BY <3>1, <1>1 DEF ReadAs
      <3>5. Append(s, v)[k + 1] = s[k + 1]
        BY <3>1, <1>11
      <3> QED BY <3>2, <3>3, <3>4, <3>5
    <2> QED BY <2>1, <2>2
  <1>13. BlocksOf(m.q) \subseteq DOMAIN m.heap /\ R \cap BlocksOf(m.q) = {} /\ R \subseteq DOMAIN m.heap
    BY <1>1 DEF Parts
  <1>14. v \in IntCells /\ r.heap = Written(m.heap, a, j, v) /\ a \in DOMAIN m.heap
    BY <1>8, <1>13 DEF IntCells, AddsBack, a, j
  <1>12. WillRead(m.heap, a, j, v, r.q, Append(s, v))
    BY <1>11, <1>18 DEF WillRead
  <1>15. ReadAs(r.heap, r.q, Append(s, v))
    BY <1>1, <1>5, <1>7, <1>12, <1>13, <1>14, ReadsWritten
  <1>16. /\ GoodHeap(r.heap) /\ DOMAIN r.heap = DOMAIN m.heap
         /\ \A b \in DOMAIN m.heap : b # a => r.heap[b] = m.heap[b]
    BY <1>1, <1>7, <1>14, WrittenHeap
  <1>17. Parts(g, R, r)
    BY <1>1, <1>5, <1>8, <1>13, <1>16 DEF Parts
  <1> QED BY <1>3, <1>5, <1>6, <1>15, <1>16, <1>17 DEF Stores

LEMMA PushedBackStores ==
  ASSUME NEW g, NEW R, NEW m, NEW s, Stores(g, R, m, s), NEW v \in Values,
         NEW r, r = Deques!PushedBack(m, v)
  PROVE  /\ Stores(g, R, r, Append(s, v)) /\ SamePlaces(m.q, r.q, m.q.size, 0)
         /\ r.q.size = m.q.size + 1
  <1> DEFINE ready == IF m.q.tailInd >= BlockSize THEN Deques!BackReady(m) ELSE m
  <1>1. /\ GoodDeque(m.q) /\ m.q.size \in Nat /\ m.q.tailInd \in Int /\ BlockSize \in Int
        /\ BlockSize >= 1
    BY MembersType, BlockSizeType DEF Stores
  <1>2. /\ Stores(g, R, ready, s) /\ ready.q.tailInd < BlockSize
        /\ SamePlaces(m.q, ready.q, m.q.size, 0) 
    <2>1. CASE m.q.tailInd >= BlockSize
      <3>1. ready = Deques!BackReady(m)
        BY <2>1
      <3> HIDE DEF ready
      <3>2. Stores(g, R, ready, s) /\ ready.q.tailInd = 0 /\ SamePlaces(m.q, ready.q, m.q.size, 0)
        BY <2>1, <3>1, BackReadyStores
      <3> QED BY <3>2, <1>1
    <2>2. CASE ~(m.q.tailInd >= BlockSize)
      <3>1. ready = m
        BY <2>2
      <3>2. SamePlaces(m.q, m.q, m.q.size, 0)
        BY <1>1, PlacesSame
      <3> QED BY <1>1, <2>2, <3>1, <3>2
    <2> QED BY <2>1, <2>2
  <1>3. ready.q.size = m.q.size
    BY <1>2 DEF Stores, ReadAs
  <1>4. AddsBack(ready, v, r)
    BY DEF Deques!PushedBack, Deques!Write, AddsBack, Written
  <1> HIDE DEF ready
  <1>5. /\ Stores(g, R, r, Append(s, v)) /\ SamePlaces(ready.q, r.q, ready.q.size, 0)
        /\ r.q.size = ready.q.size + 1
    BY <1>2, <1>4, BackAdded
  <1>6. SamePlaces(m.q, r.q, m.q.size, 0)
    <2>1. m.q.size \in Int
      BY <1>1
    <2> QED BY <2>1, <1>2, <1>3, <1>5, SamePlacesTrans
  <1> QED BY <1>3, <1>5, <1>6

-----------------------------------------------------------------------------
(* The block at head becomes the first one. *)
OpensFront(m, r) ==
  r = [heap |-> m.heap, q |-> [m.q EXCEPT !.head = @ - 1, !.headInd = BlockSize - 1]]

LEMMA FrontOpened ==
  ASSUME NEW g, NEW R, NEW m, NEW s, Stores(g, R, m, s), m.q.headInd = -1,
         0 <= m.q.head, m.q.blocks[m.q.head] # Nil,
         NEW r, OpensFront(m, r)
  PROVE  /\ Stores(g, R, r, s) /\ r.q.headInd = BlockSize - 1
         /\ SamePlaces(m.q, r.q, m.q.size, 0)
  <1>1. GoodDeque(m.q)
    BY DEF Stores
  <1>2. /\ m.q.head \in Int /\ m.q.tail \in Int /\ m.q.num_blocks \in Nat
        /\ m.q.tailInd \in Int /\ m.q.size \in Nat
    BY <1>1, MembersType
  <1>20. BlockSize \in Nat /\ BlockSize >= 1
    BY BlockSizeType
  <1>3. /\ r.heap = m.heap /\ r.q \in Members /\ r.q.blocks = m.q.blocks
        /\ r.q.num_blocks = m.q.num_blocks
        /\ r.q.tail = m.q.tail /\ r.q.tailInd = m.q.tailInd
        /\ r.q.head = m.q.head - 1 /\ r.q.headInd = BlockSize - 1 /\ r.q.size = m.q.size
    <2> DEFINE t == m.q.head - 1
               j == BlockSize - 1
    <2>1. m.q \in Members /\ t \in Int /\ j \in Int
      BY <1>1, <1>2, <1>20 DEF GoodDeque
    <2>2. r.heap = m.heap /\ r.q = [m.q EXCEPT !.head = t, !.headInd = j]
      BY DEF OpensFront
    <2> HIDE DEF t, j
    <2>3. HeadIs(m.q, r.q, t, j, m.q.size)
      BY <2>1, <2>2 DEF HeadIs, Members
    <2>4. /\ r.q \in Members /\ r.q.blocks = m.q.blocks
          /\ r.q.num_blocks = m.q.num_blocks
          /\ r.q.tail = m.q.tail /\ r.q.tailInd = m.q.tailInd
          /\ r.q.head = t /\ r.q.headInd = j /\ r.q.size = m.q.size
      <3>1. m.q.size \in Nat
        BY <1>2
      <3> QED BY <2>1, <2>3, <3>1, HeadSet
    <2> QED BY <2>2, <2>4 DEF t, j
  <1>4. NewEnds(m.q, r.q)
    <2>1. Ends(r.q)
      <3>1. Ends(m.q)
        BY <1>1 DEF GoodDeque
      <3> QED BY <3>1, <1>2, <1>3, <1>20 DEF Ends
    <2>2. Sized(r.q)
      <3>1. (m.q.tail - (m.q.head - 1) - 2) * BlockSize
              = (m.q.tail - m.q.head - 2) * BlockSize + BlockSize
        <4>1. m.q.tail - (m.q.head - 1) - 2 = (m.q.tail - m.q.head - 2) + 1
          BY <1>2
        <4>2. m.q.tail - m.q.head - 2 \in Int
          BY <1>2
        <4> QED BY <4>1, <4>2, TimesNext
      <3>2. (m.q.tail - m.q.head - 2) * BlockSize \in Int
        BY <1>2, <1>20
      <3>3. m.q.size = (m.q.tail - m.q.head - 2) * BlockSize + m.q.tailInd - (-1) - 1
        BY <1>1 DEF GoodDeque, Sized
      <3> QED BY <3>1, <3>2, <3>3, <1>2, <1>3, <1>20 DEF Sized
    <2>3. \A i \in (r.q.head + 1)..(r.q.tail - 1) : m.q.blocks[i] # Nil
      <3>1. ASSUME NEW i \in (r.q.head + 1)..(r.q.tail - 1) PROVE m.q.blocks[i] # Nil
        <4>1. i = m.q.head \/ i \in (m.q.head + 1)..(m.q.tail - 1)
          BY <1>2, <1>3
        <4> QED BY <4>1, <1>1 DEF GoodDeque, Pointers
      <3> QED BY <3>1
    <2>4. \A i \in DOMAIN m.q.blocks : m.q.blocks[i] # Nil => i \in r.q.head..r.q.tail
      <3>1. \A i \in DOMAIN m.q.blocks : m.q.blocks[i] # Nil => i \in m.q.head..m.q.tail
        BY <1>1 DEF GoodDeque, Pointers
      <3>2. \A i \in m.q.head..m.q.tail : i \in r.q.head..r.q.tail
        BY <1>2, <1>3
      <3> QED BY <3>1, <3>2
    <2> QED BY <2>1, <2>2, <2>3, <2>4, <1>3 DEF NewEnds
  <1>5. SamePlaces(m.q, r.q, m.q.size, 0)
    <2>1. \A i \in (m.q.head + 1)..(m.q.tail - 1) : r.q.blocks[i + 0] = m.q.blocks[i]
      BY <1>2, <1>3
    <2>2. (-1) * BlockSize = -BlockSize
      BY <1>20
    <2>3. r.q.head - m.q.head - 0 = -1
      BY <1>2, <1>3
    <2>4. (r.q.head - m.q.head - 0) * BlockSize + r.q.headInd = m.q.headInd - 0
      BY <2>2, <2>3, <1>3, <1>20
    <2>5. r.q.head \in Int /\ r.q.headInd \in -1..(BlockSize - 1) /\ m.q.size <= m.q.size
          /\ 0 \in Nat /\ 0 \in Int /\ m.q.size \in Int
      BY <1>2, <1>3, <1>20
    <2> QED BY <1>1, <2>1, <2>4, <2>5, PlacesStay
  <1>6. Stores(g, R, r, s)
    BY <1>3, <1>4, <1>5, NewEndsStores
  <1> QED BY <1>3, <1>5, <1>6

LEMMA FrontReadyStores ==
  ASSUME NEW g, NEW R, NEW m, NEW s, Stores(g, R, m, s), m.q.headInd <= -1,
         NEW r, r = Deques!FrontReady(m)
  PROVE  /\ Stores(g, R, r, s) /\ r.q.headInd = BlockSize - 1
         /\ SamePlaces(m.q, r.q, m.q.size, 0)
  <1> DEFINE roomy == IF m.q.head < 0
                      THEN Deques!Reallocate(m, Deques!ReallocationCoef * m.q.num_blocks) ELSE m
             new == Deques!AllocateIfNull(roomy, roomy.q.head)
  <1>1. GoodDeque(m.q) /\ m.q.num_blocks \in Nat /\ m.q.size \in Nat /\ m.q.head \in Int
        /\ m.q.headInd = -1
    <2>1. GoodDeque(m.q)
      BY DEF Stores
    <2>2. m.q.headInd \in Int /\ -1 <= m.q.headInd
      BY <2>1, MembersType DEF GoodDeque, Ends
    <2> QED BY <2>1, <2>2, MembersType
  <1>2. /\ Stores(g, R, roomy, s) /\ \E o \in Nat : Shifted(m.q, roomy.q, o)
        /\ 0 <= roomy.q.head
        /\ SamePlaces(m.q, roomy.q, m.q.size, 0)
    <2>1. CASE m.q.head < 0
      <3>1. roomy = Deques!Reallocate(m, 2 * m.q.num_blocks)
        BY <2>1 DEF Deques!ReallocationCoef
      <3>2. 2 * m.q.num_blocks \in Nat /\ 2 * m.q.num_blocks >= 2 * m.q.num_blocks
        BY <1>1
      <3> HIDE DEF roomy
      <3> QED BY <3>1, <3>2, ReallocStores
    <2>2. CASE ~(m.q.head < 0)
      <3>1. roomy = m
        BY <2>2
      <3>2. SamePlaces(m.q, m.q, m.q.size, 0)
        BY <1>1, PlacesSame
      <3>3. Shifted(m.q, m.q, 0) /\ 0 \in Nat
        <4>1. m.q.head \in Int /\ m.q.tail \in Int
          BY <1>1, MembersType
        <4> QED BY <4>1 DEF Shifted
      <3>4. 0 <= m.q.head
        BY <1>1, <2>2
      <3> QED BY <3>1, <3>2, <3>3, <3>4
    <2> QED BY <2>1, <2>2
  <1> HIDE DEF roomy
  <1>3. GoodDeque(roomy.q) /\ roomy.q.size = m.q.size /\ roomy.q.headInd = -1
    BY <1>1, <1>2 DEF Stores, Shifted
  <1>4. roomy.q.head \in DOMAIN roomy.q.blocks /\ roomy.q.head \in roomy.q.head..roomy.q.tail
    <2>1. roomy.q.head < roomy.q.tail /\ roomy.q.tail <= roomy.q.num_blocks
      BY <1>3 DEF GoodDeque, Ends
    <2>2. roomy.q.head \in Int /\ roomy.q.tail \in Int /\ roomy.q.num_blocks \in Nat
      BY <1>3, MembersType
    <2>3. roomy.q.head \in 0..(roomy.q.num_blocks - 1) /\ roomy.q.head \in roomy.q.head..roomy.q.tail
      BY <2>1, <2>2, <1>2
    <2> QED BY <2>3, <1>3, MembersType
  <1>5. /\ Stores(g, R, new, s) /\ SameMembers(roomy.q, new.q) /\ new.q.blocks[roomy.q.head] # Nil
        /\ SamePlaces(roomy.q, new.q, roomy.q.size, 0)
    BY <1>2, <1>4, AllocStores
  <1>6. OpensFront(new, r)
    BY Zenon DEF Deques!FrontReady, OpensFront, new, roomy
  <1> HIDE DEF new
  <1>7. /\ new.q.size = m.q.size /\ new.q.headInd = -1
        /\ 0 <= new.q.head /\ new.q.blocks[new.q.head] # Nil
    BY <1>2, <1>3, <1>5 DEF SameMembers
  <1>8. /\ Stores(g, R, r, s) /\ r.q.headInd = BlockSize - 1
        /\ SamePlaces(new.q, r.q, m.q.size, 0)
    BY <1>5, <1>6, <1>7, FrontOpened
  <1>9. SamePlaces(m.q, r.q, m.q.size, 0)
    <2>1. SamePlaces(roomy.q, new.q, m.q.size, 0)
      BY <1>3, <1>5
    <2>2. m.q.size \in Int
      BY <1>1
    <2> QED BY <2>1, <2>2, <1>2, <1>8, SamePlacesTrans
  <1> QED BY <1>8, <1>9

(* The first cell gets an element. *)
AddsFront(m, v, r) ==
  r = [heap |-> Written(m.heap, m.q.blocks[m.q.head + 1], m.q.headInd, v),
       q    |-> [m.q EXCEPT !.headInd = @ - 1, !.size = @ + 1]]

LEMMA FrontAdded ==
  ASSUME NEW g, NEW R, NEW m, NEW s, Stores(g, R, m, s), m.q.headInd > -1,
         NEW v \in Values, NEW r, AddsFront(m, v, r)
  PROVE  /\ Stores(g, R, r, <<v>> \o s) /\ SamePlaces(m.q, r.q, m.q.size, 1)
         /\ r.q.size = m.q.size + 1
  <1> DEFINE j == m.q.headInd
             a == m.q.blocks[m.q.head + 1]
  <1>1. GoodHeap(m.heap) /\ GoodDeque(m.q) /\ Parts(g, R, m) /\ ReadAs(m.heap, m.q, s)
    BY DEF Stores
  <1>2. /\ m.q.head \in Int /\ m.q.tail \in Int /\ m.q.num_blocks \in Nat /\ m.q.tailInd \in Int
        /\ m.q.headInd \in Int /\ m.q.size \in Nat
    BY <1>1, MembersType
  <1>20. BlockSize \in Nat /\ BlockSize >= 1
    BY BlockSizeType
  <1>3. /\ r.q \in Members /\ r.q.blocks = m.q.blocks
        /\ r.q.num_blocks = m.q.num_blocks
        /\ r.q.tail = m.q.tail /\ r.q.tailInd = m.q.tailInd
        /\ r.q.head = m.q.head /\ r.q.headInd = m.q.headInd - 1 /\ r.q.size = m.q.size + 1
    <2> DEFINE j1 == m.q.headInd - 1
               n1 == m.q.size + 1
    <2>1. m.q \in Members /\ m.q.head \in Int /\ j1 \in Int /\ n1 \in Nat
      BY <1>1, <1>2 DEF GoodDeque
    <2>4. r.q = [m.q EXCEPT !.headInd = j1, !.size = n1]
      BY DEF AddsFront
    <2> HIDE DEF j1, n1
    <2>2. HeadIs(m.q, r.q, m.q.head, j1, n1)
      BY <2>1, <2>4 DEF HeadIs, Members
    <2>3. /\ r.q \in Members /\ r.q.blocks = m.q.blocks
          /\ r.q.num_blocks = m.q.num_blocks
          /\ r.q.tail = m.q.tail /\ r.q.tailInd = m.q.tailInd
          /\ r.q.head = m.q.head /\ r.q.headInd = j1 /\ r.q.size = n1
      BY <2>1, <2>2, HeadSet
    <2> QED BY <2>3 DEF j1, n1
  <1>4. NewEnds(m.q, r.q)
    <2>1. Ends(r.q)
      <3>1. Ends(m.q)
        BY <1>1 DEF GoodDeque
      <3> QED BY <3>1, <1>2, <1>3, <1>20 DEF Ends
    <2>2. Sized(r.q)
      <3>1. (m.q.tail - m.q.head - 2) * BlockSize \in Int
        BY <1>2, <1>20
      <3>2. m.q.size = (m.q.tail - m.q.head - 2) * BlockSize + m.q.tailInd - m.q.headInd - 1
        BY <1>1 DEF GoodDeque, Sized
      <3> QED BY <3>1, <3>2, <1>2, <1>3 DEF Sized
    <2> QED BY <2>1, <2>2, <1>1, <1>3 DEF NewEnds, GoodDeque, Pointers
  <1>5. GoodDeque(r.q) /\ BlocksOf(r.q) = BlocksOf(m.q)
    BY <1>1, <1>4, NewEndsGood
  <1>21. r.q.head \in Int /\ r.q.headInd \in -1..(BlockSize - 1)
    BY <1>2, <1>3, <1>5, <1>20 DEF GoodDeque, Ends
  <1>6. SamePlaces(m.q, r.q, m.q.size, 1)
    <2>1. \A i \in (m.q.head + 1)..(m.q.tail - 1) : r.q.blocks[i + 0] = m.q.blocks[i]
      BY <1>2, <1>3
    <2>2. 0 * BlockSize = 0
      BY <1>20
    <2>3. r.q.head - m.q.head - 0 = 0
      BY <1>2, <1>3
    <2>4. (r.q.head - m.q.head - 0) * BlockSize + r.q.headInd = m.q.headInd - 1
      BY <2>2, <2>3, <1>2, <1>3
    <2>5. m.q.size <= m.q.size /\ 0 \in Int /\ 1 \in Nat /\ m.q.size \in Int
      BY <1>2
    <2> QED BY <1>1, <1>21, <2>1, <2>4, <2>5, PlacesStay
  <1>7. j \in Deques!Indices
    <2>1. m.q.headInd < BlockSize /\ 0 <= m.q.headInd
      BY <1>1, <1>2 DEF GoodDeque, Ends
    <2> QED BY <2>1, <1>2, IndexIs
  <1>8. a \in BlocksOf(m.q)
    <2>1. m.q.head + 1 <= m.q.tail - 1 /\ -1 <= m.q.head /\ m.q.tail <= m.q.num_blocks
      BY <1>1, EndsInside DEF GoodDeque, Ends
    <2>2. m.q.head + 1 \in (m.q.head + 1)..(m.q.tail - 1) /\ m.q.head + 1 \in 0..(m.q.num_blocks - 1)
      BY <2>1, <1>2
    <2>3. a # Nil
      BY <2>2, <1>1 DEF GoodDeque, Pointers
    <2>4. m.q.head + 1 \in DOMAIN m.q.blocks
      BY <2>2, <1>1, MembersType
    <2> QED BY <2>3, <2>4, <1>1, BlocksAre
  <1>9. Deques!Place(r.q, 0) = <<a, j>>
    <2>1. Numbered(r.q, 0, m.q.head + 1, j)
      <3>1. (m.q.head + 1) - r.q.head - 1 = 0
        BY <1>2, <1>3
      <3>2. 0 * BlockSize + j = r.q.headInd + 1 + 0
        BY <1>2, <1>3, <1>20
      <3> QED BY <3>1, <3>2 DEF Numbered
    <2>3. m.q.head + 1 \in Int /\ 0 \in Nat
      BY <1>2
    <2> QED BY <1>21, <2>1, <2>3, <1>3, <1>7, PlaceIs
  <1>10. s \in Seq(Values) /\ Len(s) = m.q.size
    BY <1>1 DEF ReadAs
  <1> DEFINE z == <<v>> \o s
  <1>11. z \in Seq(Values) /\ Len(z) = r.q.size /\ z[1] = v
         /\ \A k \in 1..m.q.size : z[k + 1] = s[k]
    <2>1. z \in Seq(Values) /\ Len(z) = 1 + Len(s)
      BY <1>10
    <2>2. z[1] = v
      BY <1>10
    <2>3. \A k \in 1..Len(s) : z[k + 1] = s[k]
      BY <1>10
    <2> HIDE DEF z
    <2>4. Len(z) = r.q.size
      BY <1>2, <1>3, <1>10, <2>1
    <2> QED BY <2>1, <2>2, <2>3, <2>4, <1>10
  <1> HIDE DEF a, j, z
  <1>18. ASSUME NEW k \in 0..(r.q.size - 1)
         PROVE  IF Deques!Place(r.q, k) = <<a, j>> THEN z[k + 1] = v
                ELSE m.heap[Deques!Place(r.q, k)[1]][Deques!Place(r.q, k)[2]] = z[k + 1]
    <2>1. CASE k = 0
      BY <2>1, <1>9, <1>11
    <2>2. CASE k # 0
      <3>1. k - 1 \in 0..(m.q.size - 1) /\ k \in Nat /\ k < r.q.size /\ 0 \in Nat
            /\ 0 < r.q.size /\ k \in 1..m.q.size /\ (k - 1) + 1 = k
        BY <2>2, <1>2, <1>3
      <3>2. Deques!Place(r.q, k) # <<a, j>>
        BY <2>2, <3>1, <1>5, <1>9, PlaceUnique
      <3>3. Deques!Place(r.q, k) = Deques!Place(m.q, k - 1)
        <4>1. Deques!Place(r.q, (k - 1) + 1) = Deques!Place(m.q, k - 1)
          BY <3>1, <1>6 DEF SamePlaces
        <4> QED BY <4>1, <3>1
      <3>4. m.heap[Deques!Place(m.q, k - 1)[1]][Deques!Place(m.q, k - 1)[2]] = s[k]
        <4>1. m.heap[Deques!Place(m.q, k - 1)[1]][Deques!Place(m.q, k - 1)[2]] = s[(k - 1) + 1]
          BY <3>1, <1>1 DEF ReadAs
        <4> QED BY <4>1, <3>1
      <3>5. z[k + 1] = s[k]
        BY <3>1, <1>11
      <3> QED BY <3>2, <3>3, <3>4, <3>5
    <2> QED BY <2>1, <2>2
  <1>12. WillRead(m.heap, a, j, v, r.q, z)
    BY <1>11, <1>18 DEF WillRead
  <1>13. BlocksOf(m.q) \subseteq DOMAIN m.heap /\ R \cap BlocksOf(m.q) = {} /\ R \subseteq DOMAIN m.heap
    BY <1>1 DEF Parts
  <1>14. v \in IntCells /\ r.heap = Written(m.heap, a, j, v) /\ a \in DOMAIN m.heap
    BY <1>8, <1>13 DEF IntCells, AddsFront, a, j
  <1>15. ReadAs(r.heap, r.q, z)
    BY <1>1, <1>5, <1>7, <1>12, <1>13, <1>14, ReadsWritten
  <1>16. /\ GoodHeap(r.heap) /\ DOMAIN r.heap = DOMAIN m.heap
         /\ \A b \in DOMAIN m.heap : b # a => r.heap[b] = m.heap[b]
    BY <1>1, <1>7, <1>14, WrittenHeap
  <1>17. Parts(g, R, r)
    BY <1>1, <1>5, <1>8, <1>13, <1>16 DEF Parts
  <1> QED BY <1>3, <1>5, <1>6, <1>15, <1>16, <1>17 DEF Stores, z

LEMMA SamePlacesFrom ==
  ASSUME NEW q, NEW r, NEW p, NEW n \in Int, SamePlaces(q, r, n, 0), SamePlaces(r, p, n, 1)
  PROVE  SamePlaces(q, p, n, 1)
  BY DEF SamePlaces

LEMMA PushedFrontStores ==
  ASSUME NEW g, NEW R, NEW m, NEW s, Stores(g, R, m, s), NEW v \in Values,
         NEW r, r = Deques!PushedFront(m, v)
  PROVE  /\ Stores(g, R, r, <<v>> \o s) /\ SamePlaces(m.q, r.q, m.q.size, 1)
         /\ r.q.size = m.q.size + 1
  <1> DEFINE ready == IF m.q.headInd <= -1 THEN Deques!FrontReady(m) ELSE m
  <1>1. /\ GoodDeque(m.q) /\ m.q.size \in Nat /\ m.q.headInd \in Int /\ BlockSize \in Int
        /\ BlockSize >= 1
    BY MembersType, BlockSizeType DEF Stores
  <1>2. /\ Stores(g, R, ready, s) /\ ready.q.headInd > -1
        /\ SamePlaces(m.q, ready.q, m.q.size, 0)
    <2>1. CASE m.q.headInd <= -1
      <3>1. ready = Deques!FrontReady(m)
        BY <2>1
      <3> HIDE DEF ready
      <3>2. /\ Stores(g, R, ready, s) /\ ready.q.headInd = BlockSize - 1
            /\ SamePlaces(m.q, ready.q, m.q.size, 0)
        BY <2>1, <3>1, FrontReadyStores
      <3> QED BY <3>2, <1>1
    <2>2. CASE ~(m.q.headInd <= -1)
      <3>1. ready = m
        BY <2>2
      <3>2. SamePlaces(m.q, m.q, m.q.size, 0)
        BY <1>1, PlacesSame
      <3> QED BY <1>1, <2>2, <3>1, <3>2
    <2> QED BY <2>1, <2>2
  <1>3. ready.q.size = m.q.size
    BY <1>2 DEF Stores, ReadAs
  <1>4. AddsFront(ready, v, r)
    BY DEF Deques!PushedFront, Deques!Write, AddsFront, Written
  <1> HIDE DEF ready
  <1>5. /\ Stores(g, R, r, <<v>> \o s) /\ SamePlaces(ready.q, r.q, ready.q.size, 1)
        /\ r.q.size = ready.q.size + 1
    BY <1>2, <1>4, FrontAdded
  <1>6. SamePlaces(m.q, r.q, m.q.size, 1)
    <2>1. m.q.size \in Int
      BY <1>1
    <2> QED BY <2>1, <1>2, <1>3, <1>5, SamePlacesFrom
  <1> QED BY <1>3, <1>5, <1>6

-----------------------------------------------------------------------------
(* A spare block is deleted. *)
Drops(q, i, r) == r = [q EXCEPT !.blocks = [@ EXCEPT ![i] = Nil]]

LEMMA BlockDropped ==
  ASSUME NEW q, GoodDeque(q), NEW i \in DOMAIN q.blocks, i \notin (q.head + 1)..(q.tail - 1),
         q.blocks[i] # Nil, NEW r, Drops(q, i, r)
  PROVE  /\ GoodDeque(r) /\ SameMembers(q, r) /\ r.blocks = [q.blocks EXCEPT ![i] = Nil]
         /\ BlocksOf(r) = BlocksOf(q) \ {q.blocks[i]}
         /\ SamePlaces(q, r, q.size, 0)
  <1> DEFINE f == [q.blocks EXCEPT ![i] = Nil]
  <1>1. q.blocks \in [0..(q.num_blocks - 1) -> Nat \cup {Nil}] /\ q.size \in Nat
    BY MembersType
  <1>2. f \in [0..(q.num_blocks - 1) -> Nat \cup {Nil}]
    BY <1>1
  <1>3. r.blocks = f /\ SameMembers(q, r) /\ r \in Members
    BY <1>2, SameMembersType DEF Drops
  <1>4. /\ DOMAIN f = DOMAIN q.blocks /\ f[i] = Nil
        /\ \A j \in DOMAIN q.blocks : j # i => f[j] = q.blocks[j]
    BY <1>1
  <1>5. \A j \in (q.head + 1)..(q.tail - 1) : j \in DOMAIN q.blocks /\ j # i
    <2>1. -1 <= q.head /\ q.tail <= q.num_blocks
      BY DEF GoodDeque, Ends
    <2>2. q.head \in Int /\ q.tail \in Int /\ q.num_blocks \in Int
      BY MembersType
    <2>3. \A j \in (q.head + 1)..(q.tail - 1) : j \in 0..(q.num_blocks - 1)
      BY <2>1, <2>2
    <2> QED BY <2>3, MembersType
  <1> HIDE DEF f
  <1>6. Pointers(r)
    <2>1. \A j \in (r.head + 1)..(r.tail - 1) : r.blocks[j] # Nil
      BY <1>3, <1>4, <1>5 DEF SameMembers, GoodDeque, Pointers
    <2>2. \A j \in DOMAIN r.blocks : r.blocks[j] # Nil => j \in r.head..r.tail
      BY <1>3, <1>4 DEF GoodDeque, Pointers, SameMembers
    <2>3. \A j, k \in DOMAIN r.blocks : r.blocks[j] = r.blocks[k] /\ r.blocks[j] # Nil => j = k
      BY <1>3, <1>4 DEF GoodDeque, Pointers
    <2>4. DOMAIN r.blocks = 0..(r.num_blocks - 1)
      BY <1>3, <1>4 DEF GoodDeque, Pointers, SameMembers
    <2> QED BY <2>1, <2>2, <2>3, <2>4 DEF Pointers
  <1>7. GoodDeque(r)
    BY <1>3, <1>6 DEF GoodDeque, Ends, Sized, SameMembers
  <1>8. BlocksOf(r) = BlocksOf(q) \ {q.blocks[i]}
    <2>1. \A j \in DOMAIN q.blocks : q.blocks[j] = q.blocks[i] => j = i
      BY DEF GoodDeque, Pointers
    <2> QED BY <2>1, <1>3, <1>4 DEF BlocksOf
  <1>9. SamePlaces(q, r, q.size, 0)
    <2>1. \A j \in (q.head + 1)..(q.tail - 1) : r.blocks[j] = q.blocks[j]
      BY <1>3, <1>4, <1>5
    <2>2. r.head = q.head /\ r.headInd = q.headInd
      BY <1>3 DEF SameMembers
    <2>3. q.size \in Int /\ q.size <= q.size
      BY <1>1
    <2> QED BY <2>1, <2>2, <2>3, PlacesSame, Zenon
  <1> QED BY <1>3, <1>7, <1>8, <1>9 DEF f

LEMMA HeapShrinks ==
  ASSUME NEW h, GoodHeap(h), NEW D, D \subseteq DOMAIN h, NEW r, r = Deques!Restrict(h, D)
  PROVE  GoodHeap(r) /\ DOMAIN r = D /\ \A b \in D : r[b] = h[b]
  BY DEF GoodHeap, Deques!Restrict

LEMMA ReleaseStores ==
  ASSUME NEW g, NEW R, NEW m, NEW s, Stores(g, R, m, s),
         NEW i \in Int, i \notin (m.q.head + 1)..(m.q.tail - 1),
         NEW r, r = Deques!Release(m, i)
  PROVE  /\ Stores(g, R, r, s) /\ SameMembers(m.q, r.q)
         /\ i \in DOMAIN r.q.blocks => r.q.blocks[i] = Nil
         /\ SamePlaces(m.q, r.q, m.q.size, 0)
  <1>1. GoodHeap(m.heap) /\ GoodDeque(m.q) /\ Parts(g, R, m) /\ ReadAs(m.heap, m.q, s)
    BY DEF Stores
  <1>2. CASE ~(i \in DOMAIN m.q.blocks /\ m.q.blocks[i] # Nil)
    <2>1. r = m
      BY <1>2 DEF Deques!Release
    <2>2. SamePlaces(m.q, m.q, m.q.size, 0)
      BY <1>1, MembersType, PlacesSame
    <2> QED BY <1>2, <2>1, <2>2 DEF SameMembers
  <1>3. CASE i \in DOMAIN m.q.blocks /\ m.q.blocks[i] # Nil
    <2>1. /\ r.heap = Deques!Restrict(m.heap, DOMAIN m.heap \ {m.q.blocks[i]})
          /\ Drops(m.q, i, r.q)
      BY <1>3 DEF Deques!Release, Drops
    <2>2. /\ GoodDeque(r.q) /\ SameMembers(m.q, r.q) /\ r.q.blocks = [m.q.blocks EXCEPT ![i] = Nil]
          /\ BlocksOf(r.q) = BlocksOf(m.q) \ {m.q.blocks[i]}
          /\ SamePlaces(m.q, r.q, m.q.size, 0)
      BY <1>1, <1>3, <2>1, BlockDropped
    <2>3. /\ GoodHeap(r.heap) /\ DOMAIN r.heap = DOMAIN m.heap \ {m.q.blocks[i]}
          /\ \A b \in DOMAIN r.heap : r.heap[b] = m.heap[b]
      <3> DEFINE D == DOMAIN m.heap \ {m.q.blocks[i]}
      <3>1. D \subseteq DOMAIN m.heap
        OBVIOUS
      <3> HIDE DEF D
      <3>2. GoodHeap(r.heap) /\ DOMAIN r.heap = D /\ \A b \in D : r.heap[b] = m.heap[b]
        BY <1>1, <2>1, <3>1, HeapShrinks DEF D
      <3> QED BY <3>2 DEF D
    <2>4. m.q.blocks[i] \in BlocksOf(m.q)
      BY <1>1, <1>3, BlocksAre
    <2>5. Parts(g, R, r)
      BY <1>1, <2>2, <2>3, <2>4 DEF Parts
    <2>6. ReadAs(r.heap, r.q, s)
      <3>1. r.q.size = m.q.size /\ r.q.size = r.q.size
        BY <2>2 DEF SameMembers
      <3>2. \A b \in BlocksOf(r.q) : r.heap[b] = m.heap[b]
        BY <1>1, <2>2, <2>3 DEF Parts
      <3>3. ReadAs(m.heap, r.q, s)
        <4>1. \A b \in BlocksOf(m.q) : m.heap[b] = m.heap[b]
          OBVIOUS
        <4> QED BY <1>1, <2>2, <3>1, <4>1, ReadsStay
      <3>4. SamePlaces(r.q, r.q, r.q.size, 0)
        BY <2>2, MembersType, PlacesSame
      <3> QED BY <2>2, <3>1, <3>2, <3>3, <3>4, ReadsStay
    <2>7. r.q.blocks[i] = Nil
      BY <1>3, <2>2
    <2> QED BY <2>2, <2>3, <2>5, <2>6, <2>7 DEF Stores
  <1> QED BY <1>2, <1>3

(* The last element is taken out of cell j of block t - 1. *)
TakesBack(m, t, j, r) ==
  r = [heap |-> Written(m.heap, m.q.blocks[t - 1], j, Junk),
       q    |-> [m.q EXCEPT !.tail = t, !.tailInd = j, !.size = @ - 1]]

LEMMA BackTaken ==
  ASSUME NEW g, NEW R, NEW m, NEW s, Stores(g, R, m, s), m.q.size > 0,
         NEW t \in Int, t - 1 \in (m.q.head + 1)..(m.q.tail - 1), NEW j \in Deques!Indices,
         (t - m.q.tail) * BlockSize + j = m.q.tailInd - 1,
         \A i \in DOMAIN m.q.blocks : m.q.blocks[i] # Nil => i <= t,
         NEW r, TakesBack(m, t, j, r)
  PROVE  /\ Stores(g, R, r, SubSeq(s, 1, Len(s) - 1)) /\ SamePlaces(r.q, m.q, r.q.size, 0)
         /\ r.q.size = m.q.size - 1
  <1> DEFINE a == m.q.blocks[t - 1]
             n == m.q.size - 1
  <1>1. GoodHeap(m.heap) /\ GoodDeque(m.q) /\ Parts(g, R, m) /\ ReadAs(m.heap, m.q, s)
    BY DEF Stores
  <1>2. /\ m.q.head \in Int /\ m.q.tail \in Int /\ m.q.num_blocks \in Nat /\ m.q.tailInd \in Int
        /\ m.q.headInd \in Int /\ m.q.size \in Nat
    BY <1>1, MembersType
  <1>21. n \in Nat /\ m.q.size = n + 1
    BY <1>2
  <1>20. BlockSize \in Nat /\ BlockSize >= 1 /\ j \in Int /\ 0 <= j /\ j < BlockSize
    BY BlockSizeType, CellType
  <1>3. /\ r.q \in Members /\ r.q.blocks = m.q.blocks
        /\ r.q.num_blocks = m.q.num_blocks
        /\ r.q.head = m.q.head /\ r.q.headInd = m.q.headInd
        /\ r.q.tail = t /\ r.q.tailInd = j /\ r.q.size = n
    <2>1. m.q \in Members /\ j \in Int /\ n \in Nat
      BY <1>1, <1>20, <1>21 DEF GoodDeque
    <2>4. r.q = [m.q EXCEPT !.tail = t, !.tailInd = j, !.size = n]
      BY DEF TakesBack
    <2> HIDE DEF n
    <2>2. TailIs(m.q, r.q, t, j, n)
      BY <2>4 DEF TailIs
    <2> QED BY <2>1, <2>2, TailSet
  <1>4. /\ m.q.head + 1 <= t - 1 /\ t - 1 <= m.q.tail - 1 /\ -1 <= m.q.head
        /\ m.q.tail <= m.q.num_blocks
    BY <1>1, <1>2 DEF GoodDeque, Ends
  <1>5. m.q.size = (m.q.tail - m.q.head - 2) * BlockSize + m.q.tailInd - m.q.headInd - 1
    BY <1>1 DEF GoodDeque, Sized
  <1>6. n = (t - m.q.head - 2) * BlockSize + j - m.q.headInd - 1
    <2>1. (t - m.q.head - 2) * BlockSize
             = (m.q.tail - m.q.head - 2) * BlockSize + (t - m.q.tail) * BlockSize
      BY <1>2, <1>20
    <2>2. /\ (m.q.tail - m.q.head - 2) * BlockSize \in Int /\ (t - m.q.tail) * BlockSize \in Int
          /\ (t - m.q.head - 2) * BlockSize \in Int
      BY <1>2, <1>20
    <2> QED BY <2>1, <2>2, <1>2, <1>5, <1>20
  <1>7. NewEnds(m.q, r.q)
    <2>1. Ends(r.q)
      <3>1. Ends(m.q)
        BY <1>1 DEF GoodDeque
      <3> QED BY <3>1, <1>2, <1>3, <1>4, <1>20 DEF Ends
    <2>2. Sized(r.q)
      BY <1>3, <1>6 DEF Sized
    <2>3. \A i \in (r.q.head + 1)..(r.q.tail - 1) : m.q.blocks[i] # Nil
      <3>1. \A i \in (r.q.head + 1)..(r.q.tail - 1) : i \in (m.q.head + 1)..(m.q.tail - 1)
        BY <1>2, <1>3, <1>4
      <3> QED BY <3>1, <1>1 DEF GoodDeque, Pointers
    <2>4. \A i \in DOMAIN m.q.blocks : m.q.blocks[i] # Nil => i \in r.q.head..r.q.tail
      <3>1. \A i \in DOMAIN m.q.blocks : m.q.blocks[i] # Nil => i \in m.q.head..m.q.tail
        BY <1>1 DEF GoodDeque, Pointers
      <3>2. \A i \in m.q.head..m.q.tail : i <= t => i \in r.q.head..r.q.tail
        BY <1>2, <1>3
      <3> QED BY <3>1, <3>2
    <2> QED BY <2>1, <2>2, <2>3, <2>4, <1>3 DEF NewEnds
  <1>8. GoodDeque(r.q) /\ BlocksOf(r.q) = BlocksOf(m.q)
    BY <1>1, <1>7, NewEndsGood
  <1>9. a \in BlocksOf(m.q)
    <2>1. t - 1 \in 0..(m.q.num_blocks - 1)
      BY <1>2, <1>4
    <2>2. t - 1 \in DOMAIN m.q.blocks
      BY <2>1, <1>1, MembersType
    <2>3. a # Nil
      BY <1>1 DEF GoodDeque, Pointers
    <2> QED BY <2>2, <2>3, <1>1, BlocksAre
  <1>10. Deques!Place(m.q, n) = <<a, j>>
    <2>1. Numbered(m.q, n, t - 1, j)
      <3>1. (t - 1) - m.q.head - 1 = t - m.q.head - 2
        BY <1>2
      <3>2. (t - m.q.head - 2) * BlockSize \in Int
        BY <1>2, <1>20
      <3>3. (t - m.q.head - 2) * BlockSize + j = m.q.headInd + 1 + n
        BY <3>2, <1>2, <1>6, <1>20, <1>21
      <3> QED BY <3>1, <3>3 DEF Numbered
    <2>2. m.q.headInd \in -1..(BlockSize - 1) /\ t - 1 \in Int
      BY <1>1, <1>2, <1>20 DEF GoodDeque, Ends
    <2> QED BY <2>1, <2>2, <1>2, <1>21, PlaceIs
  <1>11. SamePlaces(r.q, m.q, n, 0)
    <2>1. n \in Int /\ n <= r.q.size
      BY <1>3, <1>21
    <2>2. \A i \in (r.q.head + 1)..(r.q.tail - 1) : m.q.blocks[i] = r.q.blocks[i]
      BY <1>3
    <2> QED BY <2>1, <2>2, <1>3, <1>8, PlacesSame
  <1>12. s \in Seq(Values) /\ Len(s) = m.q.size
    BY <1>1 DEF ReadAs
  <1> DEFINE z == SubSeq(s, 1, Len(s) - 1)
  <1>13. z \in Seq(Values) /\ Len(z) = r.q.size /\ \A k \in 1..n : z[k] = s[k]
    <2>1. Len(s) \in Nat /\ Len(s) - 1 = n
      BY <1>2, <1>12, <1>21
    <2> QED BY <2>1, <1>3, <1>12, <1>21
  <1> HIDE DEF a, n, z
  <1>14. ASSUME NEW k \in 0..(r.q.size - 1)
         PROVE  IF Deques!Place(r.q, k) = <<a, j>> THEN z[k + 1] = Junk
                ELSE m.heap[Deques!Place(r.q, k)[1]][Deques!Place(r.q, k)[2]] = z[k + 1]
    <2>1. /\ k \in 0..(n - 1) /\ k \in 0..(m.q.size - 1) /\ k \in Nat /\ k < m.q.size
          /\ n \in Nat /\ n < m.q.size /\ k # n /\ k + 1 \in 1..n /\ k + 0 = k
      BY <1>2, <1>3, <1>21
    <2>2. Deques!Place(r.q, k) = Deques!Place(m.q, k)
      BY <2>1, <1>11 DEF SamePlaces
    <2>3. Deques!Place(m.q, k) # <<a, j>>
      BY <2>1, <1>1, <1>10, PlaceUnique
    <2>4. m.heap[Deques!Place(m.q, k)[1]][Deques!Place(m.q, k)[2]] = s[k + 1]
      BY <2>1, <1>1 DEF ReadAs
    <2>5. z[k + 1] = s[k + 1]
      BY <2>1, <1>13
    <2> QED BY <2>2, <2>3, <2>4, <2>5
  <1>15. WillRead(m.heap, a, j, Junk, r.q, z)
    BY <1>13, <1>14 DEF WillRead
  <1>16. BlocksOf(m.q) \subseteq DOMAIN m.heap /\ R \cap BlocksOf(m.q) = {} /\ R \subseteq DOMAIN m.heap
    BY <1>1 DEF Parts
  <1>17. Junk \in IntCells /\ r.heap = Written(m.heap, a, j, Junk) /\ a \in DOMAIN m.heap
    BY <1>9, <1>16 DEF IntCells, TakesBack, a
  <1>18. ReadAs(r.heap, r.q, z)
    BY <1>1, <1>8, <1>15, <1>16, <1>17, ReadsWritten
  <1>19. /\ GoodHeap(r.heap) /\ DOMAIN r.heap = DOMAIN m.heap
         /\ \A b \in DOMAIN m.heap : b # a => r.heap[b] = m.heap[b]
    BY <1>1, <1>17, WrittenHeap
  <1>22. Parts(g, R, r)
    BY <1>1, <1>8, <1>9, <1>16, <1>19 DEF Parts
  <1>23. Stores(g, R, r, z)
    BY <1>8, <1>18, <1>19, <1>22 DEF Stores
  <1> QED BY <1>3, <1>11, <1>23 DEF n, z

FirstAt(q, t, j) == (t - q.head) * BlockSize + j = q.headInd + 1

LEMMA SizeWithoutFirst ==
  ASSUME NEW q, GoodDeque(q), NEW t \in Int, NEW j \in Int, FirstAt(q, t, j),
         NEW n \in Int, q.size = n + 1,
         NEW r, r.tail = q.tail, r.tailInd = q.tailInd, r.head = t, r.headInd = j, r.size = n
  PROVE  Sized(r)
  <1> DEFINE x == (q.tail - q.head - 2) * BlockSize
             y == (t - q.head) * BlockSize
             z == (q.tail - t - 2) * BlockSize
  <1>0. q.tail \in Int /\ q.head \in Int /\ q.tailInd \in Int /\ q.headInd \in Int
    BY MembersType
  <1>1. z = x - y /\ x \in Int /\ y \in Int
    <2>1. x \in Int /\ y \in Int
      <3>1. BlockSize \in Int
        BY BlockSizeType
      <3>2. q.tail - q.head - 2 \in Int /\ t - q.head \in Int
        BY <1>0
      <3> QED BY <3>1, <3>2
    <2>2. q.tail - t - 2 = (q.tail - q.head - 2) - (t - q.head)
      BY <1>0
    <2>3. q.tail - q.head - 2 \in Int /\ t - q.head \in Int
      BY <1>0
    <2>4. ((q.tail - q.head - 2) - (t - q.head)) * BlockSize = x - y
      BY <2>3, TimesMinus, Zenon
    <2>5. z = x - y
      BY <2>2, <2>4, Zenon
    <2> QED BY <2>1, <2>5
  <1>2. n + 1 = x + q.tailInd - q.headInd - 1 /\ y + j = q.headInd + 1
    BY DEF GoodDeque, Sized, FirstAt
  <1> HIDE DEF x, y, z
  <1>3. n = z + q.tailInd - j - 1
    BY <1>0, <1>1, <1>2
  <1> QED BY <1>3 DEF z, Sized

(* The first element is taken out of cell j of block t + 1. *)
TakesFront(m, t, j, r) ==
  r = [heap |-> Written(m.heap, m.q.blocks[t + 1], j, Junk),
       q    |-> [m.q EXCEPT !.head = t, !.headInd = j, !.size = @ - 1]]

LEMMA FrontTaken ==
  ASSUME NEW g, NEW R, NEW m, NEW s, Stores(g, R, m, s), m.q.size > 0,
         NEW t \in Int, t + 1 \in (m.q.head + 1)..(m.q.tail - 1), NEW j \in Deques!Indices,
         (t - m.q.head) * BlockSize + j = m.q.headInd + 1,
         \A i \in DOMAIN m.q.blocks : m.q.blocks[i] # Nil => t <= i,
         NEW r, TakesFront(m, t, j, r)
  PROVE  /\ Stores(g, R, r, Tail(s)) /\ SamePlaces(r.q, m.q, r.q.size, 1)
         /\ r.q.size = m.q.size - 1
  <1> DEFINE a == m.q.blocks[t + 1]
             n == m.q.size - 1
  <1>1. GoodHeap(m.heap) /\ GoodDeque(m.q) /\ Parts(g, R, m) /\ ReadAs(m.heap, m.q, s)
    BY DEF Stores
  <1>2. /\ m.q.head \in Int /\ m.q.tail \in Int /\ m.q.num_blocks \in Nat /\ m.q.tailInd \in Int
        /\ m.q.headInd \in Int /\ m.q.size \in Nat
    BY <1>1, MembersType
  <1>21. n \in Nat /\ m.q.size = n + 1
    BY <1>2
  <1>20. BlockSize \in Nat /\ BlockSize >= 1 /\ j \in Int /\ 0 <= j /\ j < BlockSize
    BY BlockSizeType, CellType
  <1>3. /\ r.q \in Members /\ r.q.blocks = m.q.blocks
        /\ r.q.num_blocks = m.q.num_blocks
        /\ r.q.tail = m.q.tail /\ r.q.tailInd = m.q.tailInd
        /\ r.q.head = t /\ r.q.headInd = j /\ r.q.size = n
    <2>1. m.q \in Members /\ j \in Int /\ n \in Nat
      BY <1>1, <1>20, <1>21 DEF GoodDeque
    <2>4. r.q = [m.q EXCEPT !.head = t, !.headInd = j, !.size = n]
      BY DEF TakesFront
    <2> HIDE DEF n
    <2>2. HeadIs(m.q, r.q, t, j, n)
      BY <2>4 DEF HeadIs
    <2> QED BY <2>1, <2>2, HeadSet
  <1>4. /\ m.q.head <= t /\ t + 1 <= m.q.tail - 1 /\ -1 <= m.q.head
        /\ m.q.tail <= m.q.num_blocks
    BY <1>1, <1>2 DEF GoodDeque, Ends
  <1>6. FirstAt(m.q, t, j)
    BY DEF FirstAt
  <1>7. NewEnds(m.q, r.q)
    <2>1. Ends(r.q)
      <3>1. Ends(m.q)
        BY <1>1 DEF GoodDeque
      <3> QED BY <3>1, <1>2, <1>3, <1>4, <1>20 DEF Ends
    <2>2. Sized(r.q)
      BY <1>1, <1>3, <1>6, <1>20, <1>21, SizeWithoutFirst
    <2>3. \A i \in (r.q.head + 1)..(r.q.tail - 1) : m.q.blocks[i] # Nil
      <3>1. \A i \in (r.q.head + 1)..(r.q.tail - 1) : i \in (m.q.head + 1)..(m.q.tail - 1)
        BY <1>2, <1>3, <1>4
      <3> QED BY <3>1, <1>1 DEF GoodDeque, Pointers
    <2>4. \A i \in DOMAIN m.q.blocks : m.q.blocks[i] # Nil => i \in r.q.head..r.q.tail
      <3>1. \A i \in DOMAIN m.q.blocks : m.q.blocks[i] # Nil => i \in m.q.head..m.q.tail
        BY <1>1 DEF GoodDeque, Pointers
      <3>2. \A i \in m.q.head..m.q.tail : t <= i => i \in r.q.head..r.q.tail
        BY <1>2, <1>3
      <3> QED BY <3>1, <3>2
    <2> QED BY <2>1, <2>2, <2>3, <2>4, <1>3 DEF NewEnds
  <1>8. GoodDeque(r.q) /\ BlocksOf(r.q) = BlocksOf(m.q)
    BY <1>1, <1>7, NewEndsGood
  <1>9. a \in BlocksOf(m.q)
    <2>1. t + 1 \in 0..(m.q.num_blocks - 1)
      BY <1>2, <1>4
    <2>2. t + 1 \in DOMAIN m.q.blocks
      BY <2>1, <1>1, MembersType
    <2>3. a # Nil
      BY <1>1 DEF GoodDeque, Pointers
    <2> QED BY <2>2, <2>3, <1>1, BlocksAre
  <1>10. Deques!Place(m.q, 0) = <<a, j>>
    <2>1. Numbered(m.q, 0, t + 1, j)
      <3>1. (t + 1) - m.q.head - 1 = t - m.q.head
        BY <1>2
      <3>2. (t - m.q.head) * BlockSize + j = m.q.headInd + 1 + 0
        BY <1>2
      <3> QED BY <3>1, <3>2 DEF Numbered
    <2>2. m.q.headInd \in -1..(BlockSize - 1) /\ t + 1 \in Int /\ 0 \in Nat
      BY <1>1, <1>2, <1>20 DEF GoodDeque, Ends
    <2> QED BY <2>1, <2>2, <1>2, PlaceIs
  <1>11. SamePlaces(r.q, m.q, n, 1)
    <2>1. n \in Int /\ n <= r.q.size /\ 0 \in Int /\ 1 \in Nat
      BY <1>3, <1>21
    <2>2. \A i \in (r.q.head + 1)..(r.q.tail - 1) : m.q.blocks[i + 0] = r.q.blocks[i]
      <3>1. \A i \in (r.q.head + 1)..(r.q.tail - 1) : i + 0 = i
        BY <1>2, <1>3
      <3> QED BY <3>1, <1>3
    <2>3. (m.q.head - r.q.head - 0) * BlockSize + m.q.headInd = r.q.headInd - 1
      <3>1. (m.q.head - r.q.head - 0) * BlockSize = 0 - (t - m.q.head) * BlockSize
        BY <1>2, <1>3, <1>20
      <3>2. (t - m.q.head) * BlockSize \in Int
        BY <1>2, <1>20
      <3> QED BY <3>1, <3>2, <1>2, <1>3, <1>20
    <2>4. m.q.head \in Int /\ m.q.headInd \in -1..(BlockSize - 1)
      BY <1>1, <1>2, <1>20 DEF GoodDeque, Ends
    <2> QED BY <2>1, <2>2, <2>3, <2>4, <1>8, PlacesStay
  <1>12. s \in Seq(Values) /\ Len(s) = m.q.size
    BY <1>1 DEF ReadAs
  <1> DEFINE z == Tail(s)
  <1>13. z \in Seq(Values) /\ Len(z) = r.q.size /\ \A k \in 1..n : z[k] = s[k + 1]
    <2>1. Len(s) \in Nat /\ Len(s) - 1 = n /\ s # <<>>
      BY <1>2, <1>12, <1>21
    <2>2. z \in Seq(Values) /\ Len(z) = Len(s) - 1 /\ \A k \in 1..(Len(s) - 1) : z[k] = s[k + 1]
      BY <2>1, <1>12
    <2> QED BY <2>1, <2>2, <1>3
  <1> HIDE DEF a, n, z
  <1>14. ASSUME NEW k \in 0..(r.q.size - 1)
         PROVE  IF Deques!Place(r.q, k) = <<a, j>> THEN z[k + 1] = Junk
                ELSE m.heap[Deques!Place(r.q, k)[1]][Deques!Place(r.q, k)[2]] = z[k + 1]
    <2>1. /\ k \in 0..(n - 1) /\ k + 1 \in 0..(m.q.size - 1) /\ k + 1 \in Nat /\ k + 1 < m.q.size
          /\ 0 \in Nat /\ 0 < m.q.size /\ k + 1 # 0 /\ k + 1 \in 1..n
      BY <1>2, <1>3, <1>21
    <2>2. Deques!Place(r.q, k) = Deques!Place(m.q, k + 1)
      BY <2>1, <1>11 DEF SamePlaces
    <2>3. Deques!Place(m.q, k + 1) # <<a, j>>
      BY <2>1, <1>1, <1>10, PlaceUnique
    <2>4. m.heap[Deques!Place(m.q, k + 1)[1]][Deques!Place(m.q, k + 1)[2]] = s[k + 1 + 1]
      BY <2>1, <1>1 DEF ReadAs
    <2>5. z[k + 1] = s[k + 1 + 1]
      BY <2>1, <1>13
    <2> QED BY <2>2, <2>3, <2>4, <2>5
  <1>15. WillRead(m.heap, a, j, Junk, r.q, z)
    BY <1>13, <1>14 DEF WillRead
  <1>16. BlocksOf(m.q) \subseteq DOMAIN m.heap /\ R \cap BlocksOf(m.q) = {} /\ R \subseteq DOMAIN m.heap
    BY <1>1 DEF Parts
  <1>17. Junk \in IntCells /\ r.heap = Written(m.heap, a, j, Junk) /\ a \in DOMAIN m.heap
    BY <1>9, <1>16 DEF IntCells, TakesFront, a
  <1>18. ReadAs(r.heap, r.q, z)
    BY <1>1, <1>8, <1>15, <1>16, <1>17, ReadsWritten
  <1>19. /\ GoodHeap(r.heap) /\ DOMAIN r.heap = DOMAIN m.heap
         /\ \A b \in DOMAIN m.heap : b # a => r.heap[b] = m.heap[b]
    BY <1>1, <1>17, WrittenHeap
  <1>22. Parts(g, R, r)
    BY <1>1, <1>8, <1>9, <1>16, <1>19 DEF Parts
  <1>23. Stores(g, R, r, z)
    BY <1>8, <1>18, <1>19, <1>22 DEF Stores
  <1> QED BY <1>3, <1>11, <1>23 DEF n, z

LEMMA PoppedBackStores ==
  ASSUME NEW g, NEW R, NEW m, NEW s, Stores(g, R, m, s), m.q.size > 0,
         NEW r, r = Deques!PoppedBack(m)
  PROVE  /\ Stores(g, R, r, SubSeq(s, 1, Len(s) - 1)) /\ SamePlaces(r.q, m.q, r.q.size, 0)
         /\ r.q.size = m.q.size - 1
  <1>1. GoodDeque(m.q) /\ m.q \in Members
    BY DEF Stores, GoodDeque
  <1>2. /\ m.q.head \in Int /\ m.q.tail \in Int /\ m.q.tailInd \in Int /\ m.q.size \in Nat
        /\ 0 <= m.q.tailInd /\ m.q.tailInd <= BlockSize
    BY <1>1, MembersType DEF GoodDeque, Ends
  <1>3. BlockSize \in Nat /\ BlockSize >= 1
    BY BlockSizeType
  <1>4. \A i \in DOMAIN m.q.blocks : m.q.blocks[i] # Nil => i \in m.q.head..m.q.tail
    BY <1>1 DEF GoodDeque, Pointers
  <1>5. CASE m.q.tailInd > 0
    <2> DEFINE t == m.q.tail
               j == m.q.tailInd - 1
    <2>1. t \in Int /\ t - 1 \in (m.q.head + 1)..(m.q.tail - 1)
      BY <1>1, <1>2, EndsInside
    <2>2. j \in Deques!Indices
      BY <1>2, <1>3, <1>5, IndexIs
    <2>3. (t - m.q.tail) * BlockSize + j = m.q.tailInd - 1
      <3>1. t - m.q.tail = 0 /\ 0 * BlockSize = 0
        BY <1>2, <1>3
      <3>2. (t - m.q.tail) * BlockSize = 0
        BY <3>1
      <3> QED BY <3>2, <1>2
    <2>4. \A i \in DOMAIN m.q.blocks : m.q.blocks[i] # Nil => i <= t
      BY <1>2, <1>4
    <2>5. TakesBack(m, t, j, r)
      <3>1. r = [heap |-> Written(m.heap, m.q.blocks[m.q.tail - 1], j, Junk),
                 q    |-> [m.q EXCEPT !.tailInd = @ - 1, !.size = @ - 1]]
        BY <1>5 DEF Deques!PoppedBack, Deques!Write, Written
      <3>2. [m.q EXCEPT !.tailInd = @ - 1, !.size = @ - 1]
              = [m.q EXCEPT !.tail = t, !.tailInd = j, !.size = @ - 1]
        BY <1>1 DEF Members
      <3> QED BY <3>1, <3>2, Zenon DEF TakesBack
    <2> HIDE DEF t, j
    <2> QED BY <2>1, <2>2, <2>3, <2>4, <2>5, BackTaken
  <1>6. CASE ~(m.q.tailInd > 0)
    <2> DEFINE t == m.q.tail - 1
               j == BlockSize - 1
               f == Deques!Release(m, m.q.tail)
    <2>0. m.q.tailInd = 0
      BY <1>2, <1>6
    <2>1. t \in Int /\ t - 1 \in (m.q.head + 1)..(m.q.tail - 1)
      BY <1>1, <1>2, <2>0, EndsInside
    <2>2. j \in Deques!Indices
      BY <1>3, IndexIs
    <2>3. (t - m.q.tail) * BlockSize + j = m.q.tailInd - 1
      <3>1. t - m.q.tail = -1 /\ (-1) * BlockSize = -BlockSize
        BY <1>2, <1>3
      <3>2. (t - m.q.tail) * BlockSize = -BlockSize
        BY <3>1
      <3> QED BY <3>2, <2>0, <1>3
    <2>6. /\ Stores(g, R, f, s) /\ SameMembers(m.q, f.q)
          /\ m.q.tail \in DOMAIN f.q.blocks => f.q.blocks[m.q.tail] = Nil
          /\ SamePlaces(m.q, f.q, m.q.size, 0)
      <3>1. m.q.tail \notin (m.q.head + 1)..(m.q.tail - 1)
        BY <1>2
      <3> QED BY <3>1, <1>2, ReleaseStores
    <2>5. TakesBack(f, t, j, r)
      <3>1. r = [heap |-> Written(f.heap, f.q.blocks[m.q.tail - 2], j, Junk),
                 q    |-> [f.q EXCEPT !.tailInd = j, !.tail = @ - 1, !.size = @ - 1]]
        BY <1>6 DEF Deques!PoppedBack, Deques!Write, Written
      <3>2. f.q \in Members /\ f.q.tail = m.q.tail
        BY <2>6 DEF Stores, GoodDeque, SameMembers
      <3> HIDE DEF f
      <3>3. [f.q EXCEPT !.tailInd = j, !.tail = @ - 1, !.size = @ - 1]
              = [f.q EXCEPT !.tail = t, !.tailInd = j, !.size = @ - 1]
        BY <3>2 DEF Members
      <3>4. t - 1 = m.q.tail - 2
        BY <1>2
      <3> QED BY <3>1, <3>3, <3>4, Zenon DEF TakesBack
    <2> HIDE DEF f
    <2>7. f.q.size = m.q.size /\ f.q.tail = m.q.tail /\ f.q.head = m.q.head
          /\ f.q.tailInd = m.q.tailInd
      BY <2>6 DEF SameMembers
    <2>4. \A i \in DOMAIN f.q.blocks : f.q.blocks[i] # Nil => i <= t
      <3>1. \A i \in DOMAIN f.q.blocks : f.q.blocks[i] # Nil => i \in m.q.head..m.q.tail
        BY <2>6, <2>7 DEF Stores, GoodDeque, Pointers
      <3>2. ASSUME NEW i \in DOMAIN f.q.blocks, f.q.blocks[i] # Nil PROVE i <= t
        <4>1. i \in m.q.head..m.q.tail /\ i # m.q.tail
          BY <3>1, <3>2, <2>6
        <4> QED BY <4>1, <1>2
      <3> QED BY <3>2
    <2> HIDE DEF t, j
    <2>8. /\ Stores(g, R, r, SubSeq(s, 1, Len(s) - 1)) /\ SamePlaces(r.q, f.q, r.q.size, 0)
          /\ r.q.size = f.q.size - 1
      BY <2>1, <2>2, <2>3, <2>4, <2>5, <2>6, <2>7, BackTaken
    <2>9. SamePlaces(r.q, m.q, r.q.size, 0)
      <3>1. r.q.size = m.q.size - 1
        BY <2>7, <2>8
      <3>2. ASSUME NEW k \in 0..(r.q.size - 1)
            PROVE  Deques!Place(m.q, k + 0) = Deques!Place(r.q, k)
        <4>1. k + 0 = k /\ k \in 0..(m.q.size - 1)
          BY <3>1, <1>2
        <4>2. Deques!Place(f.q, k + 0) = Deques!Place(r.q, k)
          BY <2>8 DEF SamePlaces
        <4>3. Deques!Place(f.q, k + 0) = Deques!Place(m.q, k)
          BY <4>1, <2>6 DEF SamePlaces
        <4> QED BY <4>1, <4>2, <4>3
      <3> QED BY <3>2 DEF SamePlaces
    <2> QED BY <2>7, <2>8, <2>9
  <1> QED BY <1>5, <1>6

LEMMA PoppedFrontStores ==
  ASSUME NEW g, NEW R, NEW m, NEW s, Stores(g, R, m, s), m.q.size > 0,
         NEW r, r = Deques!PoppedFront(m)
  PROVE  /\ Stores(g, R, r, Tail(s)) /\ SamePlaces(r.q, m.q, r.q.size, 1)
         /\ r.q.size = m.q.size - 1
  <1>1. GoodDeque(m.q) /\ m.q \in Members
    BY DEF Stores, GoodDeque
  <1>2. /\ m.q.head \in Int /\ m.q.tail \in Int /\ m.q.headInd \in Int /\ m.q.size \in Nat
        /\ -1 <= m.q.headInd /\ m.q.headInd < BlockSize
    BY <1>1, MembersType DEF GoodDeque, Ends
  <1>3. BlockSize \in Nat /\ BlockSize >= 1
    BY BlockSizeType
  <1>4. \A i \in DOMAIN m.q.blocks : m.q.blocks[i] # Nil => i \in m.q.head..m.q.tail
    BY <1>1 DEF GoodDeque, Pointers
  <1>5. CASE m.q.headInd < BlockSize - 1
    <2> DEFINE t == m.q.head
               j == m.q.headInd + 1
    <2>1. t \in Int /\ t + 1 \in (m.q.head + 1)..(m.q.tail - 1)
      BY <1>1, <1>2, EndsInside
    <2>2. j \in Deques!Indices
      BY <1>2, <1>3, <1>5, IndexIs
    <2>3. (t - m.q.head) * BlockSize + j = m.q.headInd + 1
      <3>1. t - m.q.head = 0 /\ 0 * BlockSize = 0
        BY <1>2, <1>3
      <3>2. (t - m.q.head) * BlockSize = 0
        BY <3>1
      <3> QED BY <3>2, <1>2
    <2>4. \A i \in DOMAIN m.q.blocks : m.q.blocks[i] # Nil => t <= i
      BY <1>2, <1>4
    <2>5. TakesFront(m, t, j, r)
      <3>1. r = [heap |-> Written(m.heap, m.q.blocks[m.q.head + 1], j, Junk),
                 q    |-> [m.q EXCEPT !.headInd = @ + 1, !.size = @ - 1]]
        BY <1>5 DEF Deques!PoppedFront, Deques!Write, Written
      <3>2. [m.q EXCEPT !.headInd = @ + 1, !.size = @ - 1]
              = [m.q EXCEPT !.head = t, !.headInd = j, !.size = @ - 1]
        BY <1>1 DEF Members
      <3> QED BY <3>1, <3>2, Zenon DEF TakesFront
    <2> HIDE DEF t, j
    <2> QED BY <2>1, <2>2, <2>3, <2>4, <2>5, FrontTaken
  <1>6. CASE ~(m.q.headInd < BlockSize - 1)
    <2> DEFINE t == m.q.head + 1
               j == 0
               f == Deques!Release(m, m.q.head)
    <2>0. m.q.headInd = BlockSize - 1
      BY <1>2, <1>3, <1>6
    <2>1. t \in Int /\ t + 1 \in (m.q.head + 1)..(m.q.tail - 1)
      BY <1>1, <1>2, <2>0, EndsInside
    <2>2. j \in Deques!Indices
      BY <1>3, IndexIs
    <2>3. (t - m.q.head) * BlockSize + j = m.q.headInd + 1
      <3>1. t - m.q.head = 1 /\ 1 * BlockSize = BlockSize
        BY <1>2, <1>3
      <3>2. (t - m.q.head) * BlockSize = BlockSize
        BY <3>1
      <3> QED BY <3>2, <2>0, <1>3
    <2>6. /\ Stores(g, R, f, s) /\ SameMembers(m.q, f.q)
          /\ m.q.head \in DOMAIN f.q.blocks => f.q.blocks[m.q.head] = Nil
          /\ SamePlaces(m.q, f.q, m.q.size, 0)
      <3>1. m.q.head \notin (m.q.head + 1)..(m.q.tail - 1)
        BY <1>2
      <3> QED BY <3>1, <1>2, ReleaseStores
    <2>5. TakesFront(f, t, j, r)
      <3>1. r = [heap |-> Written(f.heap, f.q.blocks[m.q.head + 2], j, Junk),
                 q    |-> [f.q EXCEPT !.headInd = j, !.head = @ + 1, !.size = @ - 1]]
        BY <1>6 DEF Deques!PoppedFront, Deques!Write, Written
      <3>2. f.q \in Members /\ f.q.head = m.q.head
        BY <2>6 DEF Stores, GoodDeque, SameMembers
      <3> HIDE DEF f
      <3>3. [f.q EXCEPT !.headInd = j, !.head = @ + 1, !.size = @ - 1]
              = [f.q EXCEPT !.head = t, !.headInd = j, !.size = @ - 1]
        BY <3>2 DEF Members
      <3>4. t + 1 = m.q.head + 2
        BY <1>2
      <3> QED BY <3>1, <3>3, <3>4, Zenon DEF TakesFront
    <2> HIDE DEF f
    <2>7. f.q.size = m.q.size /\ f.q.tail = m.q.tail /\ f.q.head = m.q.head
          /\ f.q.headInd = m.q.headInd
      BY <2>6 DEF SameMembers
    <2>4. \A i \in DOMAIN f.q.blocks : f.q.blocks[i] # Nil => t <= i
      <3>1. \A i \in DOMAIN f.q.blocks : f.q.blocks[i] # Nil => i \in m.q.head..m.q.tail
        BY <2>6, <2>7 DEF Stores, GoodDeque, Pointers
      <3>2. ASSUME NEW i \in DOMAIN f.q.blocks, f.q.blocks[i] # Nil PROVE t <= i
        <4>1. i \in m.q.head..m.q.tail /\ i # m.q.head
          BY <3>1, <3>2, <2>6
        <4> QED BY <4>1, <1>2
      <3> QED BY <3>2
    <2> HIDE DEF t, j
    <2>8. /\ Stores(g, R, r, Tail(s)) /\ SamePlaces(r.q, f.q, r.q.size, 1)
          /\ r.q.size = f.q.size - 1
      BY <2>1, <2>2, <2>3, <2>4, <2>5, <2>6, <2>7, FrontTaken
    <2>9. SamePlaces(r.q, m.q, r.q.size, 1)
      <3>1. r.q.size = m.q.size - 1
        BY <2>7, <2>8
      <3>2. ASSUME NEW k \in 0..(r.q.size - 1)
            PROVE  Deques!Place(m.q, k + 1) = Deques!Place(r.q, k)
        <4>1. k + 1 + 0 = k + 1 /\ k + 1 \in 0..(m.q.size - 1)
          BY <3>1, <1>2
        <4>2. Deques!Place(f.q, k + 1) = Deques!Place(r.q, k)
          BY <2>8 DEF SamePlaces
        <4>3. Deques!Place(f.q, k + 1 + 0) = Deques!Place(m.q, k + 1)
          BY <4>1, <2>6 DEF SamePlaces
        <4> QED BY <4>1, <4>2, <4>3
      <3> QED BY <3>2 DEF SamePlaces
    <2> QED BY <2>7, <2>8, <2>9
  <1> QED BY <1>5, <1>6

-----------------------------------------------------------------------------
(* The number of blocks a constructor asks for is a number: the recursive  *)
(* definition has a value for every size.                                  *)
NumStep(size, f, k) ==
  IF k = 0 THEN Deques!Initialized.num_blocks
  ELSE IF BlockSize * f[k - 1] < size THEN Deques!ReallocationCoef * f[k - 1] ELSE f[k - 1]

NumIs(size, n, f) == f = [k \in 0..n |-> NumStep(size, f, k)]

LEMMA NumExists ==
  ASSUME NEW size
  PROVE \A n \in Nat : \E f : NumIs(size, n, f)
  <1> DEFINE T == {n \in Nat : \E f : NumIs(size, n, f)}
  <1>1. 0 \in T
    <2>1. NumIs(size, 0, [k \in 0..0 |-> Deques!Initialized.num_blocks])
      BY DEF NumIs, NumStep
    <2> QED BY <2>1
  <1>2. ASSUME NEW n \in Nat, n \in T PROVE n + 1 \in T
    <2>1. PICK f : NumIs(size, n, f)
      BY <1>2
    <2> DEFINE e == [k \in 0..(n + 1) |-> IF k = n + 1 THEN NumStep(size, f, k) ELSE f[k]]
    <2>2. ASSUME NEW k \in 0..(n + 1) PROVE e[k] = NumStep(size, e, k)
      <3>1. CASE k = 0
        <4>1. e[k] = f[0] /\ f[0] = NumStep(size, f, 0)
          BY <3>1, <2>1 DEF NumIs
        <4> QED BY <4>1, <3>1 DEF NumStep
      <3>2. CASE k # 0
        <4>1. k - 1 \in 0..n /\ k - 1 # n + 1 /\ k - 1 \in 0..(n + 1)
          BY <3>2
        <4>2. e[k - 1] = f[k - 1]
          BY <4>1
        <4>3. NumStep(size, e, k) = NumStep(size, f, k)
          BY <4>2, <3>2 DEF NumStep
        <4>4. CASE k = n + 1
          BY <4>3, <4>4
        <4>5. CASE k # n + 1
          <5>1. k \in 0..n
            BY <4>5
          <5>2. e[k] = f[k] /\ f[k] = NumStep(size, f, k)
            BY <5>1, <4>5, <2>1 DEF NumIs
          <5> QED BY <5>2, <4>3
        <4> QED BY <4>4, <4>5
      <3> QED BY <3>1, <3>2
    <2>3. e = [k \in 0..(n + 1) |-> e[k]]
      OBVIOUS
    <2> HIDE DEF e
    <2>4. NumIs(size, n + 1, e)
      BY <2>2, <2>3 DEF NumIs
    <2> QED BY <2>4
  <1>3. Nat \subseteq T
    BY <1>1, <1>2, AnySetInduction
  <1> QED BY <1>3

LEMMA BlocksForType ==
  ASSUME NEW size \in Nat
  PROVE  Deques!BlocksFor(size) \in Nat
  <1> DEFINE f == CHOOSE f : NumIs(size, size, f)
  <1>1. Deques!BlocksFor(size) = f[size]
    BY DEF Deques!BlocksFor, NumIs, NumStep
  <1>2. NumIs(size, size, f)
    BY NumExists
  <1> HIDE DEF f
  <1> DEFINE T == {n \in Nat : n \in 0..size => f[n] \in Nat}
  <1>3. 0 \in T
    BY <1>2 DEF NumIs, NumStep, Deques!Initialized
  <1>4. ASSUME NEW n \in Nat, n \in T PROVE n + 1 \in T
    <2>1. SUFFICES ASSUME n + 1 \in 0..size PROVE f[n + 1] \in Nat
      OBVIOUS
    <2>2. f[n + 1] = NumStep(size, f, n + 1) /\ n + 1 # 0 /\ (n + 1) - 1 = n /\ n \in 0..size
      BY <1>2, <2>1 DEF NumIs
    <2>3. f[n] \in Nat
      BY <2>2, <1>4
    <2> QED BY <2>2, <2>3, BlockSizeType DEF NumStep, Deques!ReallocationCoef
  <1>5. Nat \subseteq T
    BY <1>3, <1>4, AnySetInduction
  <1>6. size \in 0..size
    OBVIOUS
  <1> QED BY <1>1, <1>5, <1>6

-----------------------------------------------------------------------------
LEMMA InitializedIs ==
  /\ GoodDeque(Deques!Initialized) /\ BlocksOf(Deques!Initialized) = {}
  /\ Deques!Initialized.size = 0 /\ Deques!Initialized \in Members
  <1> DEFINE q == Deques!Initialized
  <1>1. /\ q.num_blocks = 2 /\ q.head = 0 /\ q.tail = 1 /\ q.headInd = -1
        /\ q.tailInd = BlockSize /\ q.size = 0 /\ q.blocks = [i \in 0..1 |-> Nil]
    BY DEF Deques!Initialized
  <1>2. BlockSize \in Nat /\ BlockSize >= 1
    BY BlockSizeType
  <1>3. q \in Members
    <2>1. [i \in 0..1 |-> Nil] \in BlockArrays
      <3>1. [i \in 0..1 |-> Nil] \in [0..(2 - 1) -> Nat \cup {Nil}]
        OBVIOUS
      <3> QED BY <3>1 DEF BlockArrays
    <2> QED BY <2>1, <1>2 DEF Deques!Initialized, Members
  <1>4. Pointers(q)
    BY <1>1 DEF Pointers
  <1>5. Ends(q)
    BY <1>1, <1>2 DEF Ends
  <1>6. Sized(q)
    <2>1. (q.tail - q.head - 2) * BlockSize = -BlockSize
      BY <1>1, <1>2
    <2> QED BY <2>1, <1>1, <1>2 DEF Sized
  <1>7. BlocksOf(q) = {}
    BY <1>1 DEF BlocksOf
  <1> QED BY <1>1, <1>3, <1>4, <1>5, <1>6, <1>7 DEF GoodDeque

LEMMA EmptyRead == ASSUME NEW h PROVE ReadAs(h, Deques!Initialized, << >>)
  BY InitializedIs DEF ReadAs

(* An object that was not there before. *)
LEMMA InitStores ==
  ASSUME NEW h, GoodHeap(h), NEW m, m.heap = h, m.q = Deques!Initialized
  PROVE  Stores(h, DOMAIN h, m, << >>)
  BY InitializedIs, EmptyRead DEF Stores, Parts

Frees(m, r) == r.heap = Deques!Freed(m.heap, m.q) /\ r.q = Deques!Initialized

(* g is h without the blocks of B. *)
Without(h, B, g) ==
  GoodHeap(g) /\ DOMAIN g = DOMAIN h \ B /\ \A b \in DOMAIN g : g[b] = h[b]

LEMMA FreedIs ==
  ASSUME NEW h, NEW q, GoodHeap(h), GoodDeque(q), BlocksOf(q) \subseteq DOMAIN h,
         NEW r, r = Deques!Freed(h, q)
  PROVE  Without(h, BlocksOf(q), r)
  <1> DEFINE D == DOMAIN h \ BlocksOf(q)
  <1>1. DOMAIN h \ Deques!Range(q.blocks) = D
    <2>1. Deques!Range(q.blocks) = {q.blocks[i] : i \in DOMAIN q.blocks}
      BY DEF Deques!Range
    <2>2. Nil \notin DOMAIN h
      BY NilNoBlock DEF GoodHeap
    <2> QED BY <2>1, <2>2 DEF BlocksOf
  <1>2. r = Deques!Restrict(h, D) /\ D \subseteq DOMAIN h
    BY <1>1 DEF Deques!Freed
  <1> HIDE DEF D
  <1>3. GoodHeap(r) /\ DOMAIN r = D /\ \A b \in D : r[b] = h[b]
    BY <1>2, HeapShrinks
  <1> QED BY <1>3 DEF D, Without

LEMMA FreedStores ==
  ASSUME NEW g, NEW R, NEW m, NEW s, Stores(g, R, m, s), NEW r, Frees(m, r)
  PROVE  Stores(g, R, r, << >>)
  <1>1. GoodHeap(m.heap) /\ GoodDeque(m.q) /\ Parts(g, R, m)
    BY DEF Stores
  <1>2. /\ GoodHeap(r.heap) /\ DOMAIN r.heap = DOMAIN m.heap \ BlocksOf(m.q)
        /\ \A b \in DOMAIN r.heap : r.heap[b] = m.heap[b]
    <2>1. BlocksOf(m.q) \subseteq DOMAIN m.heap
      BY <1>1 DEF Parts
    <2>2. r.heap = Deques!Freed(m.heap, m.q)
      BY DEF Frees
    <2>3. Without(m.heap, BlocksOf(m.q), r.heap)
      BY <1>1, <2>1, <2>2, FreedIs
    <2> QED BY <2>3 DEF Without
  <1>3. GoodDeque(r.q) /\ BlocksOf(r.q) = {} /\ ReadAs(r.heap, r.q, << >>)
    BY InitializedIs, EmptyRead DEF Frees
  <1>4. Parts(g, R, r)
    BY <1>1, <1>2, <1>3 DEF Parts
  <1> QED BY <1>2, <1>3, <1>4 DEF Stores

(* The blocks of another object are freed. *)
FreesOther(m, q, r) == r.heap = Deques!Freed(m.heap, q) /\ r.q = m.q

LEMMA OtherFreedStores ==
  ASSUME NEW g, NEW R, NEW m, NEW s, Stores(g, R, m, s),
         NEW q, GoodDeque(q), BlocksOf(q) \subseteq R, NEW r, FreesOther(m, q, r)
  PROVE  Stores(g, R \ BlocksOf(q), r, s)
  <1>1. GoodHeap(m.heap) /\ GoodDeque(m.q) /\ Parts(g, R, m) /\ ReadAs(m.heap, m.q, s)
    BY DEF Stores
  <1>2. /\ GoodHeap(r.heap) /\ DOMAIN r.heap = DOMAIN m.heap \ BlocksOf(q)
        /\ \A b \in DOMAIN r.heap : r.heap[b] = m.heap[b]
    <2>1. BlocksOf(q) \subseteq DOMAIN m.heap
      BY <1>1 DEF Parts
    <2>2. r.heap = Deques!Freed(m.heap, q)
      BY DEF FreesOther
    <2>3. Without(m.heap, BlocksOf(q), r.heap)
      BY <1>1, <2>1, <2>2, FreedIs
    <2> QED BY <2>3 DEF Without
  <1>3. r.q = m.q
    BY DEF FreesOther
  <1>4. Parts(g, R \ BlocksOf(q), r)
    BY <1>1, <1>2, <1>3 DEF Parts
  <1>5. ReadAs(r.heap, r.q, s)
    <2>1. SamePlaces(m.q, m.q, m.q.size, 0)
      BY <1>1, MembersType, PlacesSame
    <2>2. \A b \in BlocksOf(m.q) : r.heap[b] = m.heap[b]
      BY <1>1, <1>2 DEF Parts
    <2> QED BY <1>1, <1>3, <2>1, <2>2, ReadsStay
  <1> QED BY <1>1, <1>2, <1>3, <1>4, <1>5 DEF Stores

-----------------------------------------------------------------------------
FillStep(m, list, half, f, k) ==
  IF k = 0 THEN m
  ELSE IF k <= half THEN Deques!PushedFront(f[k - 1], list[half + 1 - k])
  ELSE Deques!PushedBack(f[k - 1], list[k])

FillIs(m, list, half, n, f) == f = [k \in 0..n |-> FillStep(m, list, half, f, k)]

LEMMA FillExists ==
  ASSUME NEW m, NEW list, NEW half
  PROVE  \A n \in Nat : \E f : FillIs(m, list, half, n, f)
  <1> DEFINE T == {n \in Nat : \E f : FillIs(m, list, half, n, f)}
  <1>1. 0 \in T
    <2>1. FillIs(m, list, half, 0, [k \in 0..0 |-> m])
      BY DEF FillIs, FillStep
    <2> QED BY <2>1
  <1>2. ASSUME NEW n \in Nat, n \in T PROVE n + 1 \in T
    <2>1. PICK f : FillIs(m, list, half, n, f)
      BY <1>2
    <2> DEFINE e == [k \in 0..(n + 1) |->
                       IF k = n + 1 THEN FillStep(m, list, half, f, k) ELSE f[k]]
    <2>2. ASSUME NEW k \in 0..(n + 1) PROVE e[k] = FillStep(m, list, half, e, k)
      <3>1. CASE k = 0
        <4>1. e[k] = f[0] /\ f[0] = FillStep(m, list, half, f, 0)
          BY <3>1, <2>1 DEF FillIs
        <4> QED BY <4>1, <3>1 DEF FillStep
      <3>2. CASE k # 0
        <4>1. k - 1 \in 0..n /\ k - 1 # n + 1 /\ k - 1 \in 0..(n + 1)
          BY <3>2
        <4>2. e[k - 1] = f[k - 1]
          BY <4>1
        <4>3. FillStep(m, list, half, e, k) = FillStep(m, list, half, f, k)
          BY <4>2, <3>2 DEF FillStep
        <4>4. CASE k = n + 1
          BY <4>3, <4>4
        <4>5. CASE k # n + 1
          <5>1. k \in 0..n
            BY <4>5
          <5>2. e[k] = f[k] /\ f[k] = FillStep(m, list, half, f, k)
            BY <5>1, <4>5, <2>1 DEF FillIs
          <5> QED BY <5>2, <4>3
        <4> QED BY <4>4, <4>5
      <3> QED BY <3>1, <3>2
    <2>3. e = [k \in 0..(n + 1) |-> e[k]]
      OBVIOUS
    <2> HIDE DEF e
    <2>4. FillIs(m, list, half, n + 1, e)
      BY <2>2, <2>3 DEF FillIs
    <2> QED BY <2>4
  <1>3. Nat \subseteq T
    BY <1>1, <1>2, AnySetInduction
  <1> QED BY <1>3

LEMMA FilledStores ==
  ASSUME NEW g, NEW R, NEW m, Stores(g, R, m, << >>),
         NEW list \in Seq(Values), NEW half \in Nat, half <= Len(list)
  PROVE  \E s \in Seq(Values) : Stores(g, R, Deques!Filled(m, list, half), s)
  <1> DEFINE l == Len(list)
             f == CHOOSE f : FillIs(m, list, half, l, f)
  <1>0. l \in Nat /\ half <= l /\ \A i \in 1..l : list[i] \in Values
    OBVIOUS
  <1>1. Deques!Filled(m, list, half) = f[l]
    BY DEF Deques!Filled, FillIs, FillStep
  <1>2. FillIs(m, list, half, l, f)
    BY <1>0, FillExists
  <1> HIDE DEF f, l
  <1> DEFINE T == {n \in Nat : n \in 0..l => \E s \in Seq(Values) : Stores(g, R, f[n], s)}
  <1>3. 0 \in T
    <2>1. 0 \in 0..l
      BY <1>0
    <2>2. f[0] = m
      BY <2>1, <1>2 DEF FillIs, FillStep
    <2>3. << >> \in Seq(Values)
      OBVIOUS
    <2> QED BY <2>2, <2>3
  <1>4. ASSUME NEW n \in Nat, n \in T PROVE n + 1 \in T
    <2>1. SUFFICES ASSUME n + 1 \in 0..l
                   PROVE  \E s \in Seq(Values) : Stores(g, R, f[n + 1], s)
      OBVIOUS
    <2>2. f[n + 1] = FillStep(m, list, half, f, n + 1)
      BY <1>2, <2>1 DEF FillIs
    <2>3. n + 1 # 0 /\ (n + 1) - 1 = n /\ n \in 0..l /\ n + 1 \in 1..l
      BY <2>1, <1>0
    <2>4. PICK s \in Seq(Values) : Stores(g, R, f[n], s)
      BY <2>3, <1>4
    <2>5. CASE n + 1 <= half
      <3> DEFINE v == list[half + 1 - (n + 1)]
      <3>1. half + 1 - (n + 1) \in 1..l
        BY <2>5, <1>0
      <3>2. v \in Values
        BY <3>1, <1>0
      <3>3. f[n + 1] = Deques!PushedFront(f[n], v)
        BY <2>2, <2>3, <2>5 DEF FillStep
      <3> HIDE DEF v
      <3>4. Stores(g, R, f[n + 1], <<v>> \o s)
        BY <2>4, <3>2, <3>3, PushedFrontStores
      <3>5. <<v>> \o s \in Seq(Values)
        BY <3>2
      <3> QED BY <3>4, <3>5
    <2>6. CASE ~(n + 1 <= half)
      <3> DEFINE v == list[n + 1]
      <3>2. v \in Values
        BY <2>3, <1>0
      <3>3. f[n + 1] = Deques!PushedBack(f[n], v)
        BY <2>2, <2>3, <2>6 DEF FillStep
      <3> HIDE DEF v
      <3>4. Stores(g, R, f[n + 1], Append(s, v))
        BY <2>4, <3>2, <3>3, PushedBackStores
      <3>5. Append(s, v) \in Seq(Values)
        BY <3>2
      <3> QED BY <3>4, <3>5
    <2> QED BY <2>5, <2>6
  <1>5. Nat \subseteq T
    BY <1>3, <1>4, AnySetInduction
  <1>6. l \in 0..l
    BY <1>0
  <1> QED BY <1>0, <1>1, <1>5, <1>6

-----------------------------------------------------------------------------
(* An element is written through the reference to it. *)
Writes(m, k, v, r) ==
  /\ r.heap = Written(m.heap, Deques!Place(m.q, k)[1], Deques!Place(m.q, k)[2], v)
  /\ r.q = m.q

LEMMA WritesStores ==
  ASSUME NEW g, NEW R, NEW m, NEW s, Stores(g, R, m, s), NEW k \in 0..(m.q.size - 1),
         NEW v \in Values, NEW r, Writes(m, k, v, r)
  PROVE  /\ Stores(g, R, r, [s EXCEPT ![k + 1] = v]) /\ k + 1 \in DOMAIN s
  <1>1. GoodHeap(m.heap) /\ GoodDeque(m.q) /\ Parts(g, R, m) /\ ReadAs(m.heap, m.q, s)
    BY DEF Stores
  <1>2. m.q.size \in Nat /\ k \in Nat /\ k < m.q.size
    BY <1>1, MembersType
  <1>3. PICK i \in Int, j \in Int :
           /\ j \in Deques!Indices /\ i \in DOMAIN m.q.blocks
           /\ Deques!Place(m.q, k) = <<m.q.blocks[i], j>> /\ m.q.blocks[i] \in Nat
    BY <1>1, <1>2, PlaceExists
  <1> DEFINE a == m.q.blocks[i]
             z == [s EXCEPT ![k + 1] = v]
  <1>4. a \in BlocksOf(m.q)
    BY <1>1, <1>3, NilNoBlock, BlocksAre
  <1>5. s \in Seq(Values) /\ Len(s) = m.q.size
    BY <1>1 DEF ReadAs
  <1>6. k + 1 \in 1..Len(s) /\ k + 1 \in DOMAIN s
    BY <1>2, <1>5
  <1>7. /\ z \in Seq(Values) /\ Len(z) = m.q.size /\ z[k + 1] = v
        /\ \A x \in 1..m.q.size : x # k + 1 => z[x] = s[x]
    BY <1>5, <1>6
  <1>8. r.heap = Written(m.heap, a, j, v) /\ r.q = m.q
    BY <1>3 DEF Writes
  <1> HIDE DEF a, z
  <1>9. ASSUME NEW x \in 0..(m.q.size - 1)
        PROVE  IF Deques!Place(m.q, x) = <<a, j>> THEN z[x + 1] = v
               ELSE m.heap[Deques!Place(m.q, x)[1]][Deques!Place(m.q, x)[2]] = z[x + 1]
    <2>1. x \in Nat /\ x < m.q.size /\ x + 1 \in 1..m.q.size
      BY <1>2
    <2>2. Deques!Place(m.q, k) = <<a, j>>
      BY <1>3 DEF a
    <2>3. CASE x = k
      BY <2>2, <2>3, <1>7
    <2>4. CASE x # k
      <3>1. Deques!Place(m.q, x) # <<a, j>>
        BY <2>1, <2>2, <2>4, <1>1, <1>2, PlaceUnique
      <3>2. z[x + 1] = s[x + 1]
        BY <2>1, <2>4, <1>2, <1>7
      <3>3. m.heap[Deques!Place(m.q, x)[1]][Deques!Place(m.q, x)[2]] = s[x + 1]
        BY <1>1 DEF ReadAs
      <3> QED BY <3>1, <3>2, <3>3
    <2> QED BY <2>3, <2>4
  <1>10. WillRead(m.heap, a, j, v, r.q, z)
    BY <1>7, <1>8, <1>9 DEF WillRead
  <1>11. BlocksOf(m.q) \subseteq DOMAIN m.heap /\ R \cap BlocksOf(m.q) = {} /\ R \subseteq DOMAIN m.heap
    BY <1>1 DEF Parts
  <1>12. v \in IntCells /\ a \in DOMAIN m.heap
    BY <1>4, <1>11 DEF IntCells
  <1>13. ReadAs(r.heap, r.q, z)
    BY <1>1, <1>3, <1>8, <1>10, <1>11, <1>12, ReadsWritten
  <1>14. /\ GoodHeap(r.heap) /\ DOMAIN r.heap = DOMAIN m.heap
         /\ \A b \in DOMAIN m.heap : b # a => r.heap[b] = m.heap[b]
    BY <1>1, <1>3, <1>8, <1>12, WrittenHeap
  <1>15. Parts(g, R, r)
    BY <1>1, <1>4, <1>8, <1>11, <1>14 DEF Parts
  <1>16. Stores(g, R, r, z)
    BY <1>1, <1>8, <1>13, <1>14, <1>15 DEF Stores
  <1> QED BY <1>6, <1>16 DEF z

-----------------------------------------------------------------------------
CopyBlocks(q, a) == {a + i : i \in {j \in DOMAIN q.blocks : q.blocks[j] # Nil}}

(* r has a fresh block a + i for every block i of q. *)
CopyOf(q, a, r) ==
  r = [q EXCEPT !.blocks = [i \in DOMAIN @ |-> IF q.blocks[i] # Nil THEN a + i ELSE Nil]]

LEMMA SameSums ==
  ASSUME NEW a \in Nat, NEW j \in Int, NEW k \in Int, a + j = a + k
  PROVE  j = k
  OBVIOUS

LEMMA CopyGood ==
  ASSUME NEW q, GoodDeque(q), NEW a \in Nat, NEW r, CopyOf(q, a, r)
  PROVE  /\ GoodDeque(r) /\ SameMembers(q, r) /\ DOMAIN r.blocks = DOMAIN q.blocks
         /\ \A i \in DOMAIN q.blocks : r.blocks[i] = IF q.blocks[i] # Nil THEN a + i ELSE Nil
         /\ BlocksOf(r) = CopyBlocks(q, a)
  <1> DEFINE f == [i \in DOMAIN q.blocks |-> IF q.blocks[i] # Nil THEN a + i ELSE Nil]
  <1>1. q.blocks \in [0..(q.num_blocks - 1) -> Nat \cup {Nil}] /\ q.num_blocks \in Nat
    BY MembersType
  <1>2. f \in [0..(q.num_blocks - 1) -> Nat \cup {Nil}]
    BY <1>1
  <1>3. r = [q EXCEPT !.blocks = f]
    BY DEF CopyOf
  <1>4. /\ DOMAIN f = DOMAIN q.blocks
        /\ \A i \in DOMAIN q.blocks : f[i] = IF q.blocks[i] # Nil THEN a + i ELSE Nil
    OBVIOUS
  <1> HIDE DEF f
  <1>5. r.blocks = f /\ SameMembers(q, r) /\ r \in Members
    BY <1>2, <1>3, SameMembersType
  <1>6. \A i \in DOMAIN q.blocks : i \in Int /\ a + i # Nil
    <2>1. \A i \in DOMAIN q.blocks : i \in Int /\ i >= 0
      BY <1>1
    <2> QED BY <2>1, NilNoBlock
  <1>7. Pointers(r)
    <2>0. \A i \in (q.head + 1)..(q.tail - 1) : i \in DOMAIN q.blocks /\ q.blocks[i] # Nil
      <3>1. -1 <= q.head /\ q.tail <= q.num_blocks
        BY DEF GoodDeque, Ends
      <3>2. q.head \in Int /\ q.tail \in Int /\ q.num_blocks \in Int
        BY MembersType
      <3>3. \A j \in (q.head + 1)..(q.tail - 1) : j \in 0..(q.num_blocks - 1)
        BY <3>1, <3>2
      <3>4. \A i \in (q.head + 1)..(q.tail - 1) : q.blocks[i] # Nil
        BY DEF GoodDeque, Pointers
      <3> QED BY <3>3, <3>4, <1>1
    <2>1. \A j \in (r.head + 1)..(r.tail - 1) : r.blocks[j] # Nil
      BY <2>0, <1>4, <1>5, <1>6 DEF SameMembers
    <2>2. \A j \in DOMAIN r.blocks : r.blocks[j] # Nil => j \in r.head..r.tail
      BY <1>4, <1>5 DEF GoodDeque, Pointers, SameMembers
    <2>3. \A j, k \in DOMAIN r.blocks : r.blocks[j] = r.blocks[k] /\ r.blocks[j] # Nil => j = k
      <3>1. ASSUME NEW j \in DOMAIN r.blocks, NEW k \in DOMAIN r.blocks,
                   r.blocks[j] = r.blocks[k], r.blocks[j] # Nil
            PROVE  j = k
        <4>1. r.blocks[j] = a + j /\ r.blocks[k] = a + k /\ j \in Int /\ k \in Int
          BY <3>1, <1>4, <1>5, <1>6
        <4>2. a + j = a + k /\ j \in Int /\ k \in Int
          BY <4>1, <3>1
        <4> QED BY <4>2, SameSums, Zenon
      <3> QED BY <3>1
    <2>4. DOMAIN r.blocks = 0..(r.num_blocks - 1)
      BY <1>4, <1>5 DEF GoodDeque, Pointers, SameMembers
    <2> QED BY <2>1, <2>2, <2>3, <2>4 DEF Pointers
  <1>8. GoodDeque(r)
    BY <1>5, <1>7 DEF GoodDeque, Ends, Sized, SameMembers
  <1>9. BlocksOf(r) = CopyBlocks(q, a)
    BY <1>4, <1>5, <1>6 DEF BlocksOf, CopyBlocks
  <1> QED BY <1>4, <1>5, <1>8, <1>9

(* The heap with the copies. *)
HeapCopy(h, q, a, g) ==
  g = [b \in DOMAIN h \cup CopyBlocks(q, a) |->
         IF b \in DOMAIN h THEN h[b] ELSE h[q.blocks[b - a]]]

HasCopies(h, q, a, g) ==
  /\ GoodHeap(g) /\ DOMAIN g = DOMAIN h \cup CopyBlocks(q, a)
  /\ DOMAIN h \cap CopyBlocks(q, a) = {}
  /\ \A b \in DOMAIN h : g[b] = h[b]
  /\ \A i \in DOMAIN q.blocks : q.blocks[i] # Nil => g[a + i] = h[q.blocks[i]]

LEMMA CopyHeap ==
  ASSUME NEW h, GoodHeap(h), NEW q, GoodDeque(q), BlocksOf(q) \subseteq DOMAIN h,
         NEW a \in Nat, \A b \in DOMAIN h : b < a,
         NEW g, HeapCopy(h, q, a, g)
  PROVE  HasCopies(h, q, a, g)
  <1>1. DOMAIN h \subseteq Nat /\ \A b \in DOMAIN h : h[b] \in [Deques!Indices -> IntCells]
    BY DEF GoodHeap
  <1>2. q.num_blocks \in Nat /\ \A i \in DOMAIN q.blocks : i \in Nat /\ i < q.num_blocks
    BY MembersType
  <1>3. \A i \in DOMAIN q.blocks : a + i \in Nat /\ a + i \notin DOMAIN h /\ (a + i) - a = i
    <2>1. ASSUME NEW i \in DOMAIN q.blocks PROVE a + i \in Nat /\ a + i \notin DOMAIN h /\ (a + i) - a = i
      <3>1. a + i \in Nat /\ ~(a + i < a) /\ (a + i) - a = i
        BY <1>2
      <3> QED BY <3>1
    <2> QED BY <2>1
  <1>4. \A i \in DOMAIN q.blocks : q.blocks[i] # Nil => q.blocks[i] \in DOMAIN h
    BY BlocksAre
  <1>5. DOMAIN g = DOMAIN h \cup CopyBlocks(q, a) /\ DOMAIN h \cap CopyBlocks(q, a) = {}
    BY <1>3 DEF HeapCopy, CopyBlocks
  <1>6. \A b \in DOMAIN h : g[b] = h[b]
    BY DEF HeapCopy
  <1>7. \A i \in DOMAIN q.blocks : q.blocks[i] # Nil => g[a + i] = h[q.blocks[i]]
    BY <1>3 DEF HeapCopy, CopyBlocks
  <1>8. GoodHeap(g)
    <2>1. g \in [DOMAIN g -> [Deques!Indices -> IntCells]]
      <3>1. ASSUME NEW b \in DOMAIN g PROVE g[b] \in [Deques!Indices -> IntCells]
        <4>1. CASE b \in DOMAIN h
          BY <4>1, <1>1, <1>6
        <4>2. CASE b \notin DOMAIN h
          <5>1. PICK i \in DOMAIN q.blocks : q.blocks[i] # Nil /\ b = a + i
            BY <4>2, <1>5 DEF CopyBlocks
          <5> QED BY <5>1, <1>1, <1>4, <1>7
        <4> QED BY <4>1, <4>2
      <3>2. g = [b \in DOMAIN g |-> g[b]]
        BY DEF HeapCopy
      <3> QED BY <3>1, <3>2
    <2> DEFINE n == a + q.num_blocks
    <2>2. n \in Nat
      BY <1>2
    <2>3. \A b \in DOMAIN g : b \in Nat /\ (b \in DOMAIN h \/ b < n)
      <3>1. ASSUME NEW b \in DOMAIN g PROVE b \in Nat /\ (b \in DOMAIN h \/ b < n)
        <4>1. CASE b \in DOMAIN h
          BY <4>1, <1>1
        <4>2. CASE b \notin DOMAIN h
          <5>1. PICK i \in DOMAIN q.blocks : b = a + i
            BY <4>2, <1>5 DEF CopyBlocks
          <5> QED BY <5>1, <1>2
        <4> QED BY <4>1, <4>2
      <3> QED BY <3>1
    <2>4. DOMAIN g \subseteq Nat
      BY <2>3
    <2> HIDE DEF n
    <2> QED BY <2>1, <2>2, <2>3, <2>4, HeapGrows
  <1> QED BY <1>5, <1>6, <1>7, <1>8 DEF HasCopies

LEMMA CopiedStores ==
  ASSUME NEW m, GoodHeap(m.heap), GoodDeque(m.q), BlocksOf(m.q) \subseteq DOMAIN m.heap,
         NEW s, ReadAs(m.heap, m.q, s), NEW r, r = Deques!Copied(m)
  PROVE  Stores(m.heap, DOMAIN m.heap, r, s)
  <1> DEFINE a == Deques!Fresh(m.heap)
  <1>1. a \in Nat /\ \A b \in DOMAIN m.heap : b < a
    BY FreshIs
  <1>2. CopyOf(m.q, a, r.q) /\ HeapCopy(m.heap, m.q, a, r.heap)
    BY DEF Deques!Copied, CopyOf, HeapCopy, CopyBlocks
  <1> HIDE DEF a
  <1>3. /\ GoodDeque(r.q) /\ SameMembers(m.q, r.q) /\ DOMAIN r.q.blocks = DOMAIN m.q.blocks
        /\ \A i \in DOMAIN m.q.blocks :
             r.q.blocks[i] = IF m.q.blocks[i] # Nil THEN a + i ELSE Nil
        /\ BlocksOf(r.q) = CopyBlocks(m.q, a)
    BY <1>1, <1>2, CopyGood
  <1>4. /\ GoodHeap(r.heap) /\ DOMAIN r.heap = DOMAIN m.heap \cup CopyBlocks(m.q, a) /\ DOMAIN m.heap \cap CopyBlocks(m.q, a) = {}
        /\ \A b \in DOMAIN m.heap : r.heap[b] = m.heap[b]
        /\ \A i \in DOMAIN m.q.blocks :
             m.q.blocks[i] # Nil => r.heap[a + i] = m.heap[m.q.blocks[i]]
    <2>1. HasCopies(m.heap, m.q, a, r.heap)
      BY <1>1, <1>2, CopyHeap
    <2> QED BY <2>1 DEF HasCopies
  <1>5. Parts(m.heap, DOMAIN m.heap, r)
    BY <1>3, <1>4 DEF Parts
  <1>6. s \in Seq(Values) /\ Len(s) = m.q.size /\ r.q.size = m.q.size /\ m.q.size \in Nat
    BY <1>3, MembersType DEF ReadAs, SameMembers
  <1>7. ASSUME NEW k \in 0..(m.q.size - 1)
        PROVE  r.heap[Deques!Place(r.q, k)[1]][Deques!Place(r.q, k)[2]] = s[k + 1]
    <2>1. k \in Nat /\ k < m.q.size
      BY <1>6
    <2>2. PICK i \in Int, j \in Int :
            /\ j \in Deques!Indices /\ Numbered(m.q, k, i, j) /\ i \in DOMAIN m.q.blocks
            /\ Deques!Place(m.q, k) = <<m.q.blocks[i], j>> /\ m.q.blocks[i] \in Nat
      BY <2>1, PlaceExists
    <2>3. r.q.blocks[i] = a + i /\ r.heap[a + i] = m.heap[m.q.blocks[i]]
      BY <2>2, <1>3, <1>4, NilNoBlock
    <2>4. Deques!Place(r.q, k) = <<r.q.blocks[i], j>>
      <3>1. Numbered(r.q, k, i, j)
        BY <2>2, <1>3 DEF Numbered, SameMembers
      <3>2. r.q.head \in Int /\ r.q.headInd \in -1..(BlockSize - 1)
        <4>1. r.q.head \in Int /\ r.q.headInd \in Int
          BY <1>3, MembersType
        <4>2. -1 <= r.q.headInd /\ r.q.headInd < BlockSize /\ BlockSize \in Int
          BY <1>3, BlockSizeType DEF GoodDeque, Ends
        <4> QED BY <4>1, <4>2
      <3> QED BY <3>1, <3>2, <2>1, <2>2, PlaceIs
    <2>5. m.heap[Deques!Place(m.q, k)[1]][Deques!Place(m.q, k)[2]] = s[k + 1]
      BY DEF ReadAs
    <2> QED BY <2>2, <2>3, <2>4, <2>5
  <1>8. ReadAs(r.heap, r.q, s)
    BY <1>6, <1>7 DEF ReadAs
  <1> QED BY <1>3, <1>4, <1>5, <1>8 DEF Stores

-----------------------------------------------------------------------------
(* All objects together: qs maps the constructed ones to their members, K  *)
(* to what they hold, and h has their blocks and no others.                *)
Apart(qs, h) ==
  /\ DOMAIN h = UNION {BlocksOf(qs[d]) : d \in DOMAIN qs}
  /\ \A d, e \in DOMAIN qs : d # e => BlocksOf(qs[d]) \cap BlocksOf(qs[e]) = {}

IsMap(f) == f = [x \in DOMAIN f |-> f[x]]

AllHold(qs, h, K) ==
  /\ IsMap(qs) /\ IsMap(K) /\ DOMAIN K = DOMAIN qs
  /\ GoodHeap(h) /\ Apart(qs, h)
  /\ \A d \in DOMAIN qs : GoodDeque(qs[d]) /\ ReadAs(h, qs[d], K[d])

OtherBlocks(qs, d) == UNION {BlocksOf(qs[e]) : e \in DOMAIN qs \ {d}}

Is(m, h, q) == m.heap = h /\ m.q = q

LEMMA ObjectStores ==
  ASSUME NEW qs, NEW h, NEW K, AllHold(qs, h, K), NEW d \in DOMAIN qs,
         NEW m, Is(m, h, qs[d])
  PROVE  Stores(h, OtherBlocks(qs, d), m, K[d])
  <1>1. GoodHeap(m.heap) /\ GoodDeque(m.q) /\ ReadAs(m.heap, m.q, K[d])
    BY DEF AllHold, Is
  <1>2. Apart(qs, h)
    BY DEF AllHold
  <1>3. DOMAIN h = OtherBlocks(qs, d) \cup BlocksOf(qs[d])
    BY <1>2 DEF Apart, OtherBlocks
  <1>4. OtherBlocks(qs, d) \cap BlocksOf(qs[d]) = {}
    BY <1>2 DEF Apart, OtherBlocks
  <1>5. Parts(h, OtherBlocks(qs, d), m)
    BY <1>3, <1>4 DEF Parts, Is
  <1> QED BY <1>1, <1>5 DEF Stores

LEMMA NoObjectsBlocks ==
  ASSUME NEW qs, NEW h, NEW K, AllHold(qs, h, K), NEW d, d \notin DOMAIN qs
  PROVE  OtherBlocks(qs, d) = DOMAIN h
  BY DEF AllHold, Apart, OtherBlocks

LEMMA FreedObjectBlocks ==
  ASSUME NEW qs, NEW h, NEW K, AllHold(qs, h, K), NEW d \in DOMAIN qs
  PROVE  DOMAIN h \ BlocksOf(qs[d]) = OtherBlocks(qs, d) /\ BlocksOf(qs[d]) \subseteq DOMAIN h
  BY DEF AllHold, Apart, OtherBlocks

Puts(f, d, x, r) ==
  /\ DOMAIN r = DOMAIN f \cup {d} /\ r[d] = x /\ IsMap(r)
  /\ \A e \in DOMAIN f : e # d => r[e] = f[e]

LEMMA WithIs ==
  ASSUME NEW f, NEW d, NEW x, NEW r, r = Deques!With(f, d, x)
  PROVE  Puts(f, d, x, r)
  BY DEF Deques!With, IsMap, Puts

(* One object and its blocks are replaced, or an object is added. *)
LEMMA Replaced ==
  ASSUME NEW qs, NEW h, NEW K, AllHold(qs, h, K), NEW d,
         NEW m, NEW s, Stores(h, OtherBlocks(qs, d), m, s),
         NEW ps, ps = Deques!With(qs, d, m.q), NEW L, L = Deques!With(K, d, s)
  PROVE  AllHold(ps, m.heap, L)
  <1>1. /\ GoodHeap(m.heap) /\ GoodDeque(m.q) /\ ReadAs(m.heap, m.q, s)
        /\ DOMAIN m.heap = OtherBlocks(qs, d) \cup BlocksOf(m.q)
        /\ OtherBlocks(qs, d) \cap BlocksOf(m.q) = {}
        /\ \A b \in OtherBlocks(qs, d) : m.heap[b] = h[b]
    BY DEF Stores, Parts
  <1>2. /\ DOMAIN ps = DOMAIN qs \cup {d} /\ ps[d] = m.q /\ IsMap(ps)
        /\ \A e \in DOMAIN qs : e # d => ps[e] = qs[e]
    <2>1. Puts(qs, d, m.q, ps)
      BY WithIs
    <2> QED BY <2>1 DEF Puts
  <1>3. /\ DOMAIN L = DOMAIN K \cup {d} /\ L[d] = s /\ IsMap(L)
        /\ \A e \in DOMAIN K : e # d => L[e] = K[e]
    <2>1. Puts(K, d, s, L)
      BY WithIs
    <2> QED BY <2>1 DEF Puts
  <1>4. /\ DOMAIN K = DOMAIN qs /\ Apart(qs, h)
        /\ \A e \in DOMAIN qs : GoodDeque(qs[e]) /\ ReadAs(h, qs[e], K[e])
    BY DEF AllHold
  <1>5. \A e \in DOMAIN qs \ {d} : BlocksOf(qs[e]) \subseteq OtherBlocks(qs, d)
    BY DEF OtherBlocks
  <1>6. Apart(ps, m.heap)
    <2>1. DOMAIN m.heap = UNION {BlocksOf(ps[e]) : e \in DOMAIN ps}
      BY <1>1, <1>2 DEF OtherBlocks
    <2>2. ASSUME NEW e \in DOMAIN ps, NEW e2 \in DOMAIN ps, e # e2
          PROVE  BlocksOf(ps[e]) \cap BlocksOf(ps[e2]) = {}
      <3>1. CASE e = d
        <4>1. e2 \in DOMAIN qs \ {d} /\ ps[e2] = qs[e2] /\ ps[e] = m.q
          BY <2>2, <3>1, <1>2
        <4> QED BY <4>1, <1>1, <1>5
      <3>2. CASE e2 = d
        <4>1. e \in DOMAIN qs \ {d} /\ ps[e] = qs[e] /\ ps[e2] = m.q
          BY <2>2, <3>2, <1>2
        <4> QED BY <4>1, <1>1, <1>5
      <3>3. CASE e # d /\ e2 # d
        BY <2>2, <3>3, <1>2, <1>4 DEF Apart
      <3> QED BY <3>1, <3>2, <3>3
    <2> QED BY <2>1, <2>2 DEF Apart
  <1>7. ASSUME NEW e \in DOMAIN ps PROVE GoodDeque(ps[e]) /\ ReadAs(m.heap, ps[e], L[e])
    <2>1. CASE e = d
      BY <2>1, <1>1, <1>2, <1>3
    <2>2. CASE e # d
      <3>1. e \in DOMAIN qs \ {d} /\ ps[e] = qs[e] /\ L[e] = K[e]
        BY <2>2, <1>2, <1>3, <1>4
      <3>2. GoodDeque(qs[e]) /\ ReadAs(h, qs[e], K[e])
        BY <3>1, <1>4
      <3>3. \A b \in BlocksOf(qs[e]) : m.heap[b] = h[b]
        BY <3>1, <1>1, <1>5
      <3>4. SamePlaces(qs[e], qs[e], qs[e].size, 0)
        BY <3>2, MembersType, PlacesSame
      <3>5. ReadAs(m.heap, qs[e], K[e])
        BY <3>2, <3>3, <3>4, ReadsStay
      <3> QED BY <3>1, <3>2, <3>5
    <2> QED BY <2>1, <2>2
  <1> QED BY <1>1, <1>2, <1>3, <1>4, <1>6, <1>7 DEF AllHold

(* One object dies. *)
LEMMA Removed ==
  ASSUME NEW qs, NEW h, NEW K, AllHold(qs, h, K), NEW d \in DOMAIN qs,
         NEW ps, ps = Deques!Restrict(qs, DOMAIN qs \ {d}),
         NEW L, L = Deques!Restrict(K, DOMAIN K \ {d}),
         NEW g, g = Deques!Freed(h, qs[d])
  PROVE  AllHold(ps, g, L)
  <1>1. /\ DOMAIN ps = DOMAIN qs \ {d} /\ IsMap(ps) /\ \A e \in DOMAIN ps : ps[e] = qs[e]
    BY DEF Deques!Restrict, IsMap
  <1>2. /\ DOMAIN L = DOMAIN K \ {d} /\ IsMap(L) /\ \A e \in DOMAIN L : L[e] = K[e]
    BY DEF Deques!Restrict, IsMap
  <1>3. /\ DOMAIN K = DOMAIN qs /\ Apart(qs, h) /\ GoodHeap(h)
        /\ \A e \in DOMAIN qs : GoodDeque(qs[e]) /\ ReadAs(h, qs[e], K[e])
    BY DEF AllHold
  <1>4. Without(h, BlocksOf(qs[d]), g)
    <2>1. BlocksOf(qs[d]) \subseteq DOMAIN h
      BY FreedObjectBlocks
    <2> QED BY <2>1, <1>3, FreedIs
  <1>5. GoodHeap(g) /\ DOMAIN g = OtherBlocks(qs, d) /\ \A b \in DOMAIN g : g[b] = h[b]
    BY <1>4, FreedObjectBlocks DEF Without
  <1>6. \A e \in DOMAIN ps : BlocksOf(qs[e]) \subseteq DOMAIN g
    BY <1>1, <1>5 DEF OtherBlocks
  <1>7. Apart(ps, g)
    <2>1. DOMAIN g = UNION {BlocksOf(ps[e]) : e \in DOMAIN ps}
      <3>1. {BlocksOf(ps[e]) : e \in DOMAIN ps} = {BlocksOf(qs[e]) : e \in DOMAIN qs \ {d}}
        BY <1>1
      <3> QED BY <3>1, <1>5, Zenon DEF OtherBlocks
    <2>2. \A e, e2 \in DOMAIN ps : e # e2 => BlocksOf(ps[e]) \cap BlocksOf(ps[e2]) = {}
      BY <1>1, <1>3 DEF Apart
    <2> QED BY <2>1, <2>2 DEF Apart
  <1>8. ASSUME NEW e \in DOMAIN ps PROVE GoodDeque(ps[e]) /\ ReadAs(g, ps[e], L[e])
    <2>1. e \in DOMAIN qs /\ ps[e] = qs[e] /\ L[e] = K[e]
      BY <1>1, <1>2, <1>3
    <2>2. GoodDeque(qs[e]) /\ ReadAs(h, qs[e], K[e])
      BY <2>1, <1>3
    <2>3. \A b \in BlocksOf(qs[e]) : g[b] = h[b]
      BY <1>5, <1>6
    <2>4. SamePlaces(qs[e], qs[e], qs[e].size, 0)
      BY <2>2, MembersType, PlacesSame
    <2>5. ReadAs(g, qs[e], K[e])
      BY <2>2, <2>3, <2>4, ReadsStay
    <2> QED BY <2>1, <2>2, <2>5
  <1> QED BY <1>1, <1>2, <1>3, <1>5, <1>7, <1>8 DEF AllHold

(* Two objects exchange what they hold. *)
Exchanged(f, d, e) == [f EXCEPT ![d] = f[e], ![e] = f[d]]

LEMMA ExchangedIs ==
  ASSUME NEW f, IsMap(f), NEW d \in DOMAIN f, NEW e \in DOMAIN f,
         NEW r, r = Exchanged(f, d, e)
  PROVE  /\ DOMAIN r = DOMAIN f /\ IsMap(r) /\ r[d] = f[e] /\ r[e] = f[d]
         /\ \A x \in DOMAIN f : x # d /\ x # e => r[x] = f[x]
  BY DEF Exchanged, IsMap

LEMMA ExchangedHold ==
  ASSUME NEW qs, NEW h, NEW K, AllHold(qs, h, K), NEW d \in DOMAIN qs, NEW e \in DOMAIN qs,
         NEW ps, ps = Exchanged(qs, d, e), NEW L, L = Exchanged(K, d, e)
  PROVE  AllHold(ps, h, L)
  <1>1. /\ DOMAIN K = DOMAIN qs /\ Apart(qs, h) /\ GoodHeap(h) /\ IsMap(qs) /\ IsMap(K)
        /\ \A x \in DOMAIN qs : GoodDeque(qs[x]) /\ ReadAs(h, qs[x], K[x])
    BY DEF AllHold
  <1>2. /\ DOMAIN ps = DOMAIN qs /\ IsMap(ps) /\ ps[d] = qs[e] /\ ps[e] = qs[d]
        /\ \A x \in DOMAIN qs : x # d /\ x # e => ps[x] = qs[x]
    BY <1>1, ExchangedIs
  <1>3. /\ DOMAIN L = DOMAIN K /\ IsMap(L) /\ L[d] = K[e] /\ L[e] = K[d]
        /\ \A x \in DOMAIN K : x # d /\ x # e => L[x] = K[x]
    BY <1>1, ExchangedIs
  <1> DEFINE o(x) == IF x = d THEN e ELSE IF x = e THEN d ELSE x
  <1>4. \A x \in DOMAIN qs : o(x) \in DOMAIN qs /\ ps[x] = qs[o(x)] /\ L[x] = K[o(x)] /\ o(o(x)) = x
    BY <1>1, <1>2, <1>3
  <1> HIDE DEF o
  <1>5. Apart(ps, h)
    <2>1. {BlocksOf(ps[x]) : x \in DOMAIN ps} = {BlocksOf(qs[x]) : x \in DOMAIN qs}
      <3>1. \A x \in DOMAIN ps : BlocksOf(ps[x]) \in {BlocksOf(qs[y]) : y \in DOMAIN qs}
        BY <1>2, <1>4
      <3>2. ASSUME NEW x \in DOMAIN qs PROVE BlocksOf(qs[x]) \in {BlocksOf(ps[y]) : y \in DOMAIN ps}
        <4>1. o(x) \in DOMAIN ps /\ ps[o(x)] = qs[x]
          BY <1>2, <1>4
        <4> QED BY <4>1
      <3> QED BY <3>1, <3>2
    <2>2. \A x, y \in DOMAIN ps : x # y => BlocksOf(ps[x]) \cap BlocksOf(ps[y]) = {}
      <3>1. ASSUME NEW x \in DOMAIN ps, NEW y \in DOMAIN ps, x # y
            PROVE  BlocksOf(ps[x]) \cap BlocksOf(ps[y]) = {}
        <4>1. o(x) # o(y) /\ o(x) \in DOMAIN qs /\ o(y) \in DOMAIN qs
          BY <3>1, <1>2, <1>4
        <4>2. ps[x] = qs[o(x)] /\ ps[y] = qs[o(y)]
          BY <1>2, <1>4
        <4> QED BY <4>1, <4>2, <1>1 DEF Apart
      <3> QED BY <3>1
    <2> QED BY <2>1, <2>2, <1>1 DEF Apart
  <1>6. \A x \in DOMAIN ps : GoodDeque(ps[x]) /\ ReadAs(h, ps[x], L[x])
    BY <1>1, <1>2, <1>4
  <1> QED BY <1>1, <1>2, <1>3, <1>5, <1>6 DEF AllHold

LEMMA ExchangedWith ==
  ASSUME NEW f, IsMap(f), NEW d, NEW e \in DOMAIN f, d # e, NEW x
  PROVE  Exchanged(Deques!With(f, d, x), d, e) = Deques!With(Deques!With(f, d, f[e]), e, x)
  <1> DEFINE p == Deques!With(f, d, x)
             r == Deques!With(Deques!With(f, d, f[e]), e, x)
  <1>1. DOMAIN p = DOMAIN f \cup {d} /\ p[d] = x /\ \A y \in DOMAIN f : y # d => p[y] = f[y]
    BY DEF Deques!With
  <1>2. /\ r = [y \in DOMAIN f \cup {d} |-> r[y]] /\ r[e] = x /\ r[d] = f[e]
        /\ \A y \in DOMAIN f : y # d /\ y # e => r[y] = f[y]
    BY DEF Deques!With
  <1> HIDE DEF p, r
  <1>3. /\ Exchanged(p, d, e) = [y \in DOMAIN p |-> Exchanged(p, d, e)[y]]
        /\ \A y \in DOMAIN p : Exchanged(p, d, e)[y] = IF y = e THEN p[d] ELSE IF y = d THEN p[e] ELSE p[y]
    BY <1>1 DEF Exchanged
  <1>4. \A y \in DOMAIN p : Exchanged(p, d, e)[y] = r[y]
    BY <1>1, <1>2, <1>3
  <1>5. Exchanged(p, d, e) = r
    BY <1>1, <1>2, <1>3, <1>4
  <1> QED BY <1>5 DEF p, r

LEMMA WithTwice ==
  ASSUME NEW f, NEW d, NEW x, NEW y
  PROVE  Deques!With(Deques!With(f, d, x), d, y) = Deques!With(f, d, y)
  BY DEF Deques!With

LEMMA WithSame ==
  ASSUME NEW f, IsMap(f), NEW d \in DOMAIN f
  PROVE  Deques!With(f, d, f[d]) = f
  BY DEF Deques!With, IsMap

-----------------------------------------------------------------------------
(* What a call does to the contents K. *)
Appears(K, L) ==
  \E d \in Objects \ DOMAIN K :
    \/ \E s \in Seq(Values) : L = Deques!With(K, d, s)
    \/ \E e \in DOMAIN K : L = Deques!With(Deques!With(K, d, K[e]), e, << >>)

Pushes(K, d, s) == \E v \in Values : s = Append(K[d], v) \/ s = <<v>> \o K[d]

Pops(K, d, s) == K[d] # << >> /\ (s = Tail(K[d]) \/ s = SubSeq(K[d], 1, Len(K[d]) - 1))

Modifies(K, d, s) == \E i \in DOMAIN K[d], v \in Values : s = [K[d] EXCEPT ![i] = v]

Changes(K, L) ==
  \E d \in DOMAIN K : \E s :
    /\ L = Deques!With(K, d, s)
    /\ \/ Pushes(K, d, s) \/ Pops(K, d, s) \/ Modifies(K, d, s)
       \/ s = << >> \/ \E e \in DOMAIN K : s = K[e]

Moves(K, L) ==
  \E d, e \in DOMAIN K :
    L = Deques!With(Deques!With(K, d, K[e]), e, << >>) \/ L = Exchanged(K, d, e)

Dies(K, L) == \E d \in DOMAIN K : L = Deques!Restrict(K, DOMAIN K \ {d})

Steps(K, L) == L = K \/ Appears(K, L) \/ Changes(K, L) \/ Moves(K, L) \/ Dies(K, L)

LEMMA BecomesHold ==
  ASSUME NEW K, AllHold(deque, blockHeap, K), NEW d, NEW m, NEW s,
         Stores(blockHeap, OtherBlocks(deque, d), m, s), Deques!Becomes(d, m)
  PROVE  AllHold(deque', blockHeap', Deques!With(K, d, s))
  <1>1. deque' = Deques!With(deque, d, m.q) /\ blockHeap' = m.heap
    BY DEF Deques!Becomes
  <1>2. AllHold(Deques!With(deque, d, m.q), m.heap, Deques!With(K, d, s))
    BY Replaced
  <1> QED BY <1>1, <1>2

LEMMA NewObject ==
  ASSUME NEW K, AllHold(deque, blockHeap, K), NEW d \in Objects, d \notin DOMAIN deque,
         NEW m, NEW s \in Seq(Values),
         Stores(blockHeap, DOMAIN blockHeap, m, s), Deques!Becomes(d, m)
  PROVE  \E L : AllHold(deque', blockHeap', L) /\ Steps(K, L)
  <1>1. Stores(blockHeap, OtherBlocks(deque, d), m, s)
    BY NoObjectsBlocks
  <1>2. AllHold(deque', blockHeap', Deques!With(K, d, s))
    BY <1>1, BecomesHold
  <1>3. d \in Objects \ DOMAIN K
    BY DEF AllHold
  <1> QED BY <1>2, <1>3 DEF Steps, Appears

LEMMA EmptyStores ==
  ASSUME NEW K, AllHold(deque, blockHeap, K), NEW m, Is(m, blockHeap, Deques!Initialized)
  PROVE  Stores(blockHeap, DOMAIN blockHeap, m, << >>)
  BY InitStores DEF AllHold, Is

LEMMA StepConstruct ==
  ASSUME NEW K, AllHold(deque, blockHeap, K), NEW d \in Objects, Deques!Construct(d)
  PROVE  \E L : AllHold(deque', blockHeap', L) /\ Steps(K, L)
  <1> DEFINE m == [heap |-> blockHeap, q |-> Deques!Initialized]
  <1>1. d \notin DOMAIN deque /\ Deques!Becomes(d, m)
    BY DEF Deques!Construct, Deques!Constructed
  <1>2. Is(m, blockHeap, Deques!Initialized)
    BY DEF Is
  <1> HIDE DEF m
  <1>3. << >> \in Seq(Values)
    OBVIOUS
  <1> QED BY <1>1, <1>2, <1>3, EmptyStores, NewObject

LEMMA StepConstructFilled ==
  ASSUME NEW K, AllHold(deque, blockHeap, K), NEW d \in Objects,
         NEW list \in Seq(Values), NEW half \in Nat, half <= Len(list),
         Deques!ConstructFilled(d, list, half)
  PROVE  \E L : AllHold(deque', blockHeap', L) /\ Steps(K, L)
  <1> DEFINE n == Deques!BlocksFor(Len(list))
             e == [heap |-> blockHeap, q |-> Deques!Initialized]
             m == Deques!Reallocate(e, n)
             r == Deques!Filled(m, list, half)
  <1>1. d \notin DOMAIN deque /\ Deques!Becomes(d, r)
    BY DEF Deques!ConstructFilled, Deques!Constructed
  <1>2. Is(e, blockHeap, Deques!Initialized)
    BY DEF Is
  <1>3. n \in Nat
    BY BlocksForType
  <1> HIDE DEF e, n
  <1>4. Stores(blockHeap, DOMAIN blockHeap, m, << >>)
    BY <1>2, <1>3, EmptyStores, ReallocStores
  <1> HIDE DEF m
  <1>5. PICK s \in Seq(Values) : Stores(blockHeap, DOMAIN blockHeap, r, s)
    BY <1>4, FilledStores
  <1> HIDE DEF r
  <1> QED BY <1>1, <1>5, NewObject

LEMMA StepConstructSize ==
  ASSUME NEW K, AllHold(deque, blockHeap, K), NEW d \in Objects, Deques!ConstructSize(d)
  PROVE  \E L : AllHold(deque', blockHeap', L) /\ Steps(K, L)
  <1>1. PICK size \in 0..MaxSize : Deques!ConstructFilled(d, [i \in 1..size |-> 0], 0)
    BY DEF Deques!ConstructSize
  <1> DEFINE list == [i \in 1..size |-> 0]
  <1>2. size \in Nat /\ 0 \in Values
    BY DequeBounds DEF Deques!BoundsAssumption
  <1>3. list \in Seq(Values) /\ 0 \in Nat /\ 0 <= Len(list)
    BY <1>2
  <1> HIDE DEF list
  <1>4. Deques!ConstructFilled(d, list, 0)
    BY <1>1 DEF list
  <1> QED BY <1>3, <1>4, StepConstructFilled

LEMMA StepConstructList ==
  ASSUME NEW K, AllHold(deque, blockHeap, K), NEW d \in Objects, Deques!ConstructList(d)
  PROVE  \E L : AllHold(deque', blockHeap', L) /\ Steps(K, L)
  <1>1. PICK size \in 1..MaxSize : \E list \in [1..size -> Values] :
           Deques!ConstructFilled(d, list, size \div 2)
    BY DEF Deques!ConstructList
  <1>2. PICK list \in [1..size -> Values] : Deques!ConstructFilled(d, list, size \div 2)
    BY <1>1
  <1>3. size \in Nat /\ size \div 2 \in Nat /\ size \div 2 <= size
    BY DequeBounds DEF Deques!BoundsAssumption
  <1>4. list \in Seq(Values) /\ Len(list) = size
    BY <1>2, <1>3
  <1> DEFINE half == size \div 2
  <1>5. half \in Nat /\ half <= Len(list) /\ Deques!ConstructFilled(d, list, half)
    BY <1>2, <1>3, <1>4
  <1> HIDE DEF half
  <1> QED BY <1>4, <1>5, StepConstructFilled

LEMMA ObjectRead ==
  ASSUME NEW K, AllHold(deque, blockHeap, K), NEW d \in DOMAIN deque
  PROVE  /\ Stores(blockHeap, OtherBlocks(deque, d), Deques!Memory(d), K[d])
         /\ Deques!Memory(d).heap = blockHeap /\ Deques!Memory(d).q = deque[d]
         /\ d \in DOMAIN K /\ K[d] \in Seq(Values) /\ Len(K[d]) = deque[d].size
  <1>1. Is(Deques!Memory(d), blockHeap, deque[d])
    BY DEF Deques!Memory, Is
  <1>2. Stores(blockHeap, OtherBlocks(deque, d), Deques!Memory(d), K[d])
    BY <1>1, ObjectStores
  <1> QED BY <1>1, <1>2 DEF Is, AllHold, ReadAs

LEMMA CopyStores ==
  ASSUME NEW K, AllHold(deque, blockHeap, K), NEW e \in DOMAIN deque
  PROVE  Stores(blockHeap, DOMAIN blockHeap, Deques!Copied(Deques!Memory(e)), K[e])
  <1> DEFINE m == Deques!Memory(e)
             r == Deques!Copied(m)
  <1>1. m.heap = blockHeap /\ m.q = deque[e]
    BY ObjectRead
  <1> HIDE DEF m, r
  <1>2. GoodHeap(m.heap) /\ GoodDeque(m.q) /\ ReadAs(m.heap, m.q, K[e])
    BY <1>1 DEF AllHold
  <1>3. BlocksOf(m.q) \subseteq DOMAIN m.heap
    BY <1>1, FreedObjectBlocks
  <1>4. Stores(m.heap, DOMAIN m.heap, r, K[e])
    BY <1>2, <1>3, CopiedStores DEF r
  <1> QED BY <1>1, <1>4 DEF r, m

LEMMA StepCopyConstruct ==
  ASSUME NEW K, AllHold(deque, blockHeap, K), NEW d \in Objects, NEW e,
         Deques!CopyConstruct(d, e)
  PROVE  \E L : AllHold(deque', blockHeap', L) /\ Steps(K, L)
  <1> DEFINE r == Deques!Copied(Deques!Memory(e))
  <1>1. d \notin DOMAIN deque /\ e \in DOMAIN deque /\ Deques!Becomes(d, r)
    BY DEF Deques!CopyConstruct, Deques!Constructed
  <1>2. Stores(blockHeap, DOMAIN blockHeap, r, K[e])
    BY <1>1, CopyStores
  <1>3. K[e] \in Seq(Values)
    BY <1>1, ObjectRead
  <1> HIDE DEF r
  <1> QED BY <1>1, <1>2, <1>3, NewObject

LEMMA StepMoveConstruct ==
  ASSUME NEW K, AllHold(deque, blockHeap, K), NEW d \in Objects, NEW e,
         Deques!MoveConstruct(d, e)
  PROVE  \E L : AllHold(deque', blockHeap', L) /\ Steps(K, L)
  <1>1. /\ d \notin DOMAIN deque /\ e \in DOMAIN deque /\ blockHeap' = blockHeap
        /\ deque' = Deques!With(Deques!With(deque, d, deque[e]), e, Deques!Initialized)
    BY DEF Deques!MoveConstruct, Deques!Constructed
  <1> DEFINE m == [heap |-> blockHeap, q |-> Deques!Initialized]
             ps == Deques!With(deque, d, Deques!Initialized)
             L == Deques!With(K, d, << >>)
  <1>2. Is(m, blockHeap, Deques!Initialized) /\ m.q = Deques!Initialized /\ m.heap = blockHeap
    BY DEF Is
  <1> HIDE DEF m
  <1>3. Stores(blockHeap, OtherBlocks(deque, d), m, << >>)
    BY <1>1, <1>2, EmptyStores, NoObjectsBlocks
  <1>4. AllHold(ps, blockHeap, L)
    BY <1>2, <1>3, Replaced
  <1>5. IsMap(deque) /\ IsMap(K) /\ DOMAIN K = DOMAIN deque /\ d # e
    BY <1>1 DEF AllHold
  <1>6. /\ Exchanged(ps, d, e) = deque'
        /\ Exchanged(L, d, e) = Deques!With(Deques!With(K, d, K[e]), e, << >>)
    BY <1>1, <1>5, ExchangedWith
  <1>7. d \in DOMAIN ps /\ e \in DOMAIN ps
    BY <1>1 DEF Deques!With
  <1> HIDE DEF ps, L
  <1>8. AllHold(Exchanged(ps, d, e), blockHeap, Exchanged(L, d, e))
    BY <1>4, <1>7, ExchangedHold
  <1>9. Appears(K, Exchanged(L, d, e))
    BY <1>1, <1>5, <1>6 DEF Appears
  <1> QED BY <1>1, <1>6, <1>8, <1>9 DEF Steps

LEMMA StepDestroy ==
  ASSUME NEW K, AllHold(deque, blockHeap, K), NEW d, Deques!Destroy(d)
  PROVE  \E L : AllHold(deque', blockHeap', L) /\ Steps(K, L)
  <1>1. /\ d \in DOMAIN deque /\ deque' = Deques!Restrict(deque, DOMAIN deque \ {d})
        /\ blockHeap' = Deques!Freed(blockHeap, deque[d])
    BY DEF Deques!Destroy, Deques!Constructed
  <1> DEFINE L == Deques!Restrict(K, DOMAIN K \ {d})
  <1>2. AllHold(deque', blockHeap', L)
    BY <1>1, Removed
  <1>3. d \in DOMAIN K
    BY <1>1 DEF AllHold
  <1> QED BY <1>2, <1>3 DEF Steps, Dies

LEMMA ChangedObject ==
  ASSUME NEW K, AllHold(deque, blockHeap, K), NEW d \in DOMAIN deque, NEW m, NEW s,
         Stores(blockHeap, OtherBlocks(deque, d), m, s), Deques!Becomes(d, m),
         \/ Pushes(K, d, s) \/ Pops(K, d, s) \/ Modifies(K, d, s)
         \/ s = << >> \/ \E e \in DOMAIN K : s = K[e]
  PROVE  \E L : AllHold(deque', blockHeap', L) /\ Steps(K, L)
  <1>1. AllHold(deque', blockHeap', Deques!With(K, d, s))
    BY BecomesHold
  <1>2. d \in DOMAIN K
    BY DEF AllHold
  <1> QED BY <1>1, <1>2 DEF Steps, Changes

LEMMA StepCopyAssign ==
  ASSUME NEW K, AllHold(deque, blockHeap, K), NEW d, NEW e, Deques!CopyAssign(d, e)
  PROVE  \E L : AllHold(deque', blockHeap', L) /\ Steps(K, L)
  <1> DEFINE m == Deques!Copied(Deques!Memory(e))
             r == [heap |-> Deques!Freed(m.heap, deque[d]), q |-> m.q]
  <1>1. d \in DOMAIN deque /\ e \in DOMAIN deque /\ Deques!Becomes(d, r)
    BY DEF Deques!CopyAssign, Deques!Constructed
  <1>2. Stores(blockHeap, DOMAIN blockHeap, m, K[e])
    BY <1>1, CopyStores
  <1> HIDE DEF m
  <1>3. FreesOther(m, deque[d], r)
    BY DEF FreesOther
  <1> HIDE DEF r
  <1>4. /\ DOMAIN blockHeap \ BlocksOf(deque[d]) = OtherBlocks(deque, d)
        /\ BlocksOf(deque[d]) \subseteq DOMAIN blockHeap /\ GoodDeque(deque[d])
    BY <1>1, FreedObjectBlocks DEF AllHold
  <1>5. Stores(blockHeap, DOMAIN blockHeap \ BlocksOf(deque[d]), r, K[e])
    BY <1>2, <1>3, <1>4, OtherFreedStores
  <1>6. Stores(blockHeap, OtherBlocks(deque, d), r, K[e])
    BY <1>4, <1>5
  <1>7. e \in DOMAIN K
    BY <1>1 DEF AllHold
  <1> QED BY <1>1, <1>6, <1>7, ChangedObject

(* An object of which the blocks are freed holds nothing. *)
LEMMA FreedObject ==
  ASSUME NEW K, AllHold(deque, blockHeap, K), NEW d \in DOMAIN deque,
         NEW m, Is(m, Deques!Freed(blockHeap, deque[d]), Deques!Initialized)
  PROVE  Stores(blockHeap, OtherBlocks(deque, d), m, << >>)
  <1>1. Frees(Deques!Memory(d), m)
    BY ObjectRead DEF Frees, Is
  <1> QED BY <1>1, ObjectRead, FreedStores

LEMMA StepMoveAssign ==
  ASSUME NEW K, AllHold(deque, blockHeap, K), NEW d, NEW e, Deques!MoveAssign(d, e)
  PROVE  \E L : AllHold(deque', blockHeap', L) /\ Steps(K, L)
  <1>1. /\ d \in DOMAIN deque /\ e \in DOMAIN deque
        /\ blockHeap' = Deques!Freed(blockHeap, deque[d])
        /\ deque' = Deques!With(Deques!With(deque, d, deque[e]), e, Deques!Initialized)
    BY DEF Deques!MoveAssign, Deques!Constructed
  <1> DEFINE m == [heap |-> Deques!Freed(blockHeap, deque[d]), q |-> Deques!Initialized]
             ps == Deques!With(deque, d, Deques!Initialized)
             L == Deques!With(K, d, << >>)
  <1>2. /\ Is(m, Deques!Freed(blockHeap, deque[d]), Deques!Initialized)
        /\ m.q = Deques!Initialized /\ m.heap = blockHeap'
    BY <1>1 DEF Is
  <1> HIDE DEF m
  <1>3. Stores(blockHeap, OtherBlocks(deque, d), m, << >>)
    BY <1>1, <1>2, FreedObject
  <1>4. AllHold(ps, blockHeap', L)
    BY <1>2, <1>3, Replaced
  <1>5. IsMap(deque) /\ IsMap(K) /\ DOMAIN K = DOMAIN deque
    BY DEF AllHold
  <1>6. CASE d = e
    <2>1. deque' = ps
      BY <1>1, <1>6, WithTwice
    <2>2. Changes(K, L)
      BY <1>1, <1>5 DEF Changes
    <2> QED BY <1>4, <2>1, <2>2 DEF Steps
  <1>7. CASE d # e
    <2>1. /\ Exchanged(ps, d, e) = deque'
          /\ Exchanged(L, d, e) = Deques!With(Deques!With(K, d, K[e]), e, << >>)
      BY <1>1, <1>5, <1>7, ExchangedWith
    <2>2. d \in DOMAIN ps /\ e \in DOMAIN ps
      BY <1>1 DEF Deques!With
    <2> HIDE DEF ps, L
    <2>3. AllHold(Exchanged(ps, d, e), blockHeap', Exchanged(L, d, e))
      BY <1>4, <2>2, ExchangedHold
    <2>4. Moves(K, Exchanged(L, d, e))
      BY <1>1, <1>5, <2>1 DEF Moves
    <2> QED BY <2>1, <2>3, <2>4 DEF Steps
  <1> QED BY <1>6, <1>7

LEMMA StepSwap ==
  ASSUME NEW K, AllHold(deque, blockHeap, K), NEW d, NEW e, Deques!Swap(d, e)
  PROVE  \E L : AllHold(deque', blockHeap', L) /\ Steps(K, L)
  <1>1. /\ d \in DOMAIN deque /\ e \in DOMAIN deque /\ blockHeap' = blockHeap
        /\ deque' = Exchanged(deque, d, e)
    BY DEF Deques!Swap, Deques!Constructed, Exchanged
  <1>2. AllHold(deque', blockHeap', Exchanged(K, d, e))
    BY <1>1, ExchangedHold
  <1>3. d \in DOMAIN K /\ e \in DOMAIN K
    BY <1>1 DEF AllHold
  <1> QED BY <1>2, <1>3 DEF Steps, Moves

LEMMA StepPushBack ==
  ASSUME NEW K, AllHold(deque, blockHeap, K), NEW d, Deques!PushBack(d)
  PROVE  \E L : AllHold(deque', blockHeap', L) /\ Steps(K, L)
  <1>1. d \in DOMAIN deque
    BY DEF Deques!PushBack, Deques!Constructed
  <1>2. PICK v \in Values : Deques!Becomes(d, Deques!PushedBack(Deques!Memory(d), v))
    BY DEF Deques!PushBack
  <1> DEFINE r == Deques!PushedBack(Deques!Memory(d), v)
  <1>3. Stores(blockHeap, OtherBlocks(deque, d), r, Append(K[d], v))
    BY <1>1, ObjectRead, PushedBackStores
  <1> HIDE DEF r
  <1>4. Pushes(K, d, Append(K[d], v))
    BY DEF Pushes
  <1>5. Deques!Becomes(d, r)
    BY <1>2 DEF r
  <1> QED BY <1>1, <1>3, <1>4, <1>5, ChangedObject

LEMMA StepPushFront ==
  ASSUME NEW K, AllHold(deque, blockHeap, K), NEW d, Deques!PushFront(d)
  PROVE  \E L : AllHold(deque', blockHeap', L) /\ Steps(K, L)
  <1>1. d \in DOMAIN deque
    BY DEF Deques!PushFront, Deques!Constructed
  <1>2. PICK v \in Values : Deques!Becomes(d, Deques!PushedFront(Deques!Memory(d), v))
    BY DEF Deques!PushFront
  <1> DEFINE r == Deques!PushedFront(Deques!Memory(d), v)
  <1>3. Stores(blockHeap, OtherBlocks(deque, d), r, <<v>> \o K[d])
    BY <1>1, ObjectRead, PushedFrontStores
  <1> HIDE DEF r
  <1>4. Pushes(K, d, <<v>> \o K[d])
    BY DEF Pushes
  <1>5. Deques!Becomes(d, r)
    BY <1>2 DEF r
  <1> QED BY <1>1, <1>3, <1>4, <1>5, ChangedObject

LEMMA Stutters ==
  ASSUME NEW K, AllHold(deque, blockHeap, K), deque' = deque, blockHeap' = blockHeap
  PROVE  \E L : AllHold(deque', blockHeap', L) /\ Steps(K, L)
  BY DEF Steps

LEMMA StepPopBack ==
  ASSUME NEW K, AllHold(deque, blockHeap, K), NEW d, Deques!PopBack(d)
  PROVE  \E L : AllHold(deque', blockHeap', L) /\ Steps(K, L)
  <1>1. d \in DOMAIN deque
    BY DEF Deques!PopBack, Deques!Constructed
  <1>2. CASE deque[d].size = 0
    <2>1. deque' = deque /\ blockHeap' = blockHeap
      BY <1>2 DEF Deques!PopBack, Deques!vars
    <2> QED BY <2>1, Stutters
  <1>3. CASE deque[d].size # 0
    <2> DEFINE r == Deques!PoppedBack(Deques!Memory(d))
               s == SubSeq(K[d], 1, Len(K[d]) - 1)
    <2>1. Deques!Becomes(d, r)
      BY <1>3 DEF Deques!PopBack
    <2>2. deque[d].size > 0 /\ K[d] # << >>
      BY <1>1, <1>3, MembersType, ObjectRead DEF AllHold
    <2>3. Stores(blockHeap, OtherBlocks(deque, d), r, s)
      BY <1>1, <2>2, ObjectRead, PoppedBackStores
    <2> HIDE DEF r
    <2>4. Pops(K, d, s)
      BY <2>2 DEF Pops
    <2> HIDE DEF s
    <2> QED BY <1>1, <2>1, <2>3, <2>4, ChangedObject
  <1> QED BY <1>2, <1>3

LEMMA StepPopFront ==
  ASSUME NEW K, AllHold(deque, blockHeap, K), NEW d, Deques!PopFront(d)
  PROVE  \E L : AllHold(deque', blockHeap', L) /\ Steps(K, L)
  <1>1. d \in DOMAIN deque
    BY DEF Deques!PopFront, Deques!Constructed
  <1>2. CASE deque[d].size = 0
    <2>1. deque' = deque /\ blockHeap' = blockHeap
      BY <1>2 DEF Deques!PopFront, Deques!vars
    <2> QED BY <2>1, Stutters
  <1>3. CASE deque[d].size # 0
    <2> DEFINE r == Deques!PoppedFront(Deques!Memory(d))
               s == Tail(K[d])
    <2>1. Deques!Becomes(d, r)
      BY <1>3 DEF Deques!PopFront
    <2>2. deque[d].size > 0 /\ K[d] # << >>
      BY <1>1, <1>3, MembersType, ObjectRead DEF AllHold
    <2>3. Stores(blockHeap, OtherBlocks(deque, d), r, s)
      BY <1>1, <2>2, ObjectRead, PoppedFrontStores
    <2> HIDE DEF r
    <2>4. Pops(K, d, s)
      BY <2>2 DEF Pops
    <2> HIDE DEF s
    <2> QED BY <1>1, <2>1, <2>3, <2>4, ChangedObject
  <1> QED BY <1>2, <1>3

LEMMA StepModify ==
  ASSUME NEW K, AllHold(deque, blockHeap, K), NEW d, Deques!Modify(d)
  PROVE  \E L : AllHold(deque', blockHeap', L) /\ Steps(K, L)
  <1>1. d \in DOMAIN deque /\ deque' = deque
    BY DEF Deques!Modify, Deques!Constructed
  <1>2. PICK k \in 0..(deque[d].size - 1), v \in Values :
          blockHeap' = Written(blockHeap, Deques!Place(deque[d], k)[1],
                               Deques!Place(deque[d], k)[2], v)
    BY DEF Deques!Modify, Written
  <1> DEFINE r == [heap |-> blockHeap', q |-> deque[d]]
             s == [K[d] EXCEPT ![k + 1] = v]
  <1>3. Writes(Deques!Memory(d), k, v, r) /\ k \in 0..(Deques!Memory(d).q.size - 1)
    BY <1>1, <1>2, ObjectRead DEF Writes
  <1>9. r.heap = blockHeap' /\ r.q = deque[d]
    OBVIOUS
  <1> HIDE DEF r
  <1>4. Stores(blockHeap, OtherBlocks(deque, d), r, s) /\ k + 1 \in DOMAIN K[d]
    BY <1>1, <1>3, ObjectRead, WritesStores
  <1>5. Modifies(K, d, s)
    BY <1>4 DEF Modifies
  <1> HIDE DEF s
  <1>6. AllHold(Deques!With(deque, d, deque[d]), blockHeap', Deques!With(K, d, s))
    BY <1>4, <1>9, Replaced
  <1>7. Deques!With(deque, d, deque[d]) = deque
    BY <1>1, WithSame DEF AllHold
  <1>8. Changes(K, Deques!With(K, d, s))
    BY <1>1, <1>5 DEF Changes, AllHold
  <1> QED BY <1>1, <1>6, <1>7, <1>8 DEF Steps

LEMMA StepClear ==
  ASSUME NEW K, AllHold(deque, blockHeap, K), NEW d, Deques!Clear(d)
  PROVE  \E L : AllHold(deque', blockHeap', L) /\ Steps(K, L)
  <1> DEFINE m == [heap |-> Deques!Freed(blockHeap, deque[d]), q |-> Deques!Initialized]
  <1>1. d \in DOMAIN deque /\ Deques!Becomes(d, m)
    BY DEF Deques!Clear, Deques!Constructed
  <1>2. Is(m, Deques!Freed(blockHeap, deque[d]), Deques!Initialized)
    BY DEF Is
  <1> HIDE DEF m
  <1>3. Stores(blockHeap, OtherBlocks(deque, d), m, << >>)
    BY <1>1, <1>2, FreedObject
  <1> QED BY <1>1, <1>3, ChangedObject

(* Every call keeps the invariant and does one of the things above. *)
LEMMA CallSteps ==
  ASSUME NEW K, AllHold(deque, blockHeap, K), NEW d \in Objects, Deques!Call(d)
  PROVE  \E L : AllHold(deque', blockHeap', L) /\ Steps(K, L)
  <1>1. ASSUME Deques!PopOutside(d) PROVE deque' = deque /\ blockHeap' = blockHeap
    BY <1>1 DEF Deques!PopOutside
  <1>2. CASE \E e \in Objects :
               \/ Deques!CopyConstruct(d, e) \/ Deques!MoveConstruct(d, e)
               \/ Deques!CopyAssign(d, e) \/ Deques!MoveAssign(d, e) \/ Deques!Swap(d, e)
    BY <1>2, StepCopyConstruct, StepMoveConstruct, StepCopyAssign, StepMoveAssign, StepSwap,
       Zenon
  <1>3. CASE \/ Deques!Construct(d) \/ Deques!ConstructSize(d) \/ Deques!ConstructList(d)
             \/ Deques!Destroy(d)
    BY <1>3, StepConstruct, StepConstructSize, StepConstructList, StepDestroy, Zenon
  <1>4. CASE \/ Deques!PushBack(d) \/ Deques!PushFront(d) \/ Deques!PopBack(d)
             \/ Deques!PopFront(d)
    BY <1>4, StepPushBack, StepPushFront, StepPopBack, StepPopFront, Zenon
  <1>5. CASE Deques!PopOutside(d) \/ Deques!Modify(d) \/ Deques!Clear(d)
    BY <1>1, <1>5, Stutters, StepModify, StepClear, Zenon
  <1> QED BY <1>2, <1>3, <1>4, <1>5, Zenon DEF Deques!Call

(* The invariant: what all objects hold, for some contents. *)
DequeInv == /\ stopped \in BOOLEAN /\ DOMAIN deque \subseteq Objects
            /\ \E K : AllHold(deque, blockHeap, K)

LEMMA StepsLive ==
  ASSUME NEW K, NEW L, Steps(K, L), DOMAIN K \subseteq Objects
  PROVE  DOMAIN L \subseteq Objects
  <1>1. CASE L = K
    BY <1>1
  <1>2. CASE Appears(K, L)
    BY <1>2 DEF Appears, Deques!With
  <1>3. CASE Changes(K, L)
    BY <1>3 DEF Changes, Deques!With
  <1>4. CASE Moves(K, L)
    BY <1>4 DEF Moves, Deques!With, Exchanged
  <1>5. CASE Dies(K, L)
    BY <1>5 DEF Dies, Deques!Restrict
  <1> QED BY <1>1, <1>2, <1>3, <1>4, <1>5 DEF Steps

LEMMA CallStops ==
  ASSUME NEW d, Deques!Call(d)
  PROVE  stopped' = stopped \/ stopped' = TRUE
  <1>1. CASE \E e \in Objects :
               \/ Deques!CopyConstruct(d, e) \/ Deques!MoveConstruct(d, e)
               \/ Deques!CopyAssign(d, e) \/ Deques!MoveAssign(d, e) \/ Deques!Swap(d, e)
    BY <1>1, Zenon DEF Deques!CopyConstruct, Deques!MoveConstruct, Deques!CopyAssign,
       Deques!MoveAssign, Deques!Swap, Deques!Becomes
  <1>2. CASE \/ Deques!Construct(d) \/ Deques!ConstructSize(d) \/ Deques!ConstructList(d)
             \/ Deques!Destroy(d)
    BY <1>2, Zenon DEF Deques!Construct, Deques!ConstructSize, Deques!ConstructList,
       Deques!ConstructFilled, Deques!Destroy, Deques!Becomes
  <1>3. CASE Deques!PushBack(d) \/ Deques!PushFront(d)
    BY <1>3, Zenon DEF Deques!PushBack, Deques!PushFront, Deques!Becomes
  <1>4. CASE Deques!PopBack(d) \/ Deques!PopFront(d)
    BY <1>4 DEF Deques!PopBack, Deques!PopFront, Deques!Becomes, Deques!vars
  <1>5. CASE Deques!PopOutside(d) \/ Deques!Modify(d) \/ Deques!Clear(d)
    BY <1>5, Zenon DEF Deques!PopOutside, Deques!Modify, Deques!Clear, Deques!Becomes
  <1> QED BY <1>1, <1>2, <1>3, <1>4, <1>5, Zenon DEF Deques!Call

LEMMA NoneHold == AllHold(<< >>, << >>, << >>)
  <1>1. DOMAIN << >> = {} /\ IsMap(<< >>)
    BY DEF IsMap
  <1>2. GoodHeap(<< >>)
    BY <1>1 DEF GoodHeap
  <1>3. Apart(<< >>, << >>)
    BY <1>1 DEF Apart
  <1> QED BY <1>1, <1>2, <1>3 DEF AllHold

LEMMA DequeInit == Deques!Init => DequeInv
  <1> SUFFICES ASSUME Deques!Init PROVE DequeInv
    OBVIOUS
  <1>1. deque = << >> /\ blockHeap = << >> /\ stopped = FALSE
    BY DEF Deques!Init
  <1>2. DOMAIN << >> = {}
    OBVIOUS
  <1>3. DOMAIN deque \subseteq Objects
    BY <1>1, <1>2
  <1>4. AllHold(deque, blockHeap, << >>)
    BY <1>1, NoneHold
  <1>5. stopped \in BOOLEAN
    BY <1>1
  <1> QED BY <1>3, <1>4, <1>5 DEF DequeInv

LEMMA DequeNext == DequeInv /\ [Deques!Next]_dequeVars => DequeInv'
  <1> SUFFICES ASSUME DequeInv, [Deques!Next]_dequeVars PROVE DequeInv'
    OBVIOUS
  <1>1. PICK K : AllHold(deque, blockHeap, K)
    BY DEF DequeInv
  <1>2. CASE UNCHANGED dequeVars
    BY <1>2 DEF DequeInv, dequeVars
  <1>3. CASE Deques!Next
    <2>1. PICK d \in Objects : Deques!Call(d)
      BY <1>3 DEF Deques!Next
    <2>2. PICK L : AllHold(deque', blockHeap', L) /\ Steps(K, L)
      BY <1>1, <2>1, CallSteps
    <2>3. DOMAIN K \subseteq Objects
      BY <1>1 DEF DequeInv, AllHold
    <2>4. DOMAIN deque' \subseteq Objects
      BY <2>2, <2>3, StepsLive DEF AllHold
    <2>5. stopped' \in BOOLEAN
      BY <2>1, CallStops DEF DequeInv
    <2> QED BY <2>2, <2>4, <2>5 DEF DequeInv
  <1> QED BY <1>2, <1>3

LEMMA OwnedIs == \A d : Deques!Owned(d) = BlocksOf(deque[d])
  BY DEF Deques!Owned, Deques!Range, BlocksOf

LEMMA InvOwned == DequeInv => BlocksOwned
  <1> SUFFICES ASSUME DequeInv PROVE BlocksOwned
    OBVIOUS
  <1>1. PICK K : AllHold(deque, blockHeap, K)
    BY DEF DequeInv
  <1>2. /\ GoodHeap(blockHeap) /\ Apart(deque, blockHeap)
        /\ \A d \in DOMAIN deque : GoodDeque(deque[d])
    BY <1>1 DEF AllHold
  <1>3. Deques!TypeOK
    <2>1. /\ blockHeap \in [DOMAIN blockHeap -> [Deques!Indices -> Values \cup {Junk}]]
          /\ DOMAIN blockHeap \subseteq Nat
      BY <1>2 DEF GoodHeap, IntCells
    <2>2. Deques!Constructed \subseteq Objects /\ stopped \in BOOLEAN
      BY DEF DequeInv, Deques!Constructed
    <2>3. ASSUME NEW d \in DOMAIN deque
          PROVE  LET q == deque[d] IN
                   /\ q.num_blocks \in Nat /\ q.blocks \in [0..(q.num_blocks - 1) -> Nat \cup {Nil}]
                   /\ q.head \in -1..(q.num_blocks - 1) /\ q.headInd \in -1..(BlockSize - 1)
                   /\ q.tail \in 0..q.num_blocks /\ q.tailInd \in 0..BlockSize
                   /\ q.size = (q.tail - q.head - 2) * BlockSize + q.tailInd - q.headInd - 1
      <3> DEFINE q == deque[d]
      <3>1. GoodDeque(q)
        BY <1>2
      <3> HIDE DEF q
      <3>2. /\ q.num_blocks \in Nat /\ q.head \in Int /\ q.tail \in Int
            /\ q.headInd \in Int /\ q.tailInd \in Int
            /\ q.blocks \in [0..(q.num_blocks - 1) -> Nat \cup {Nil}]
        BY <3>1, MembersType
      <3>3. Ends(q)
        BY <3>1 DEF GoodDeque
      <3>4. /\ q.head \in -1..(q.num_blocks - 1) /\ q.headInd \in -1..(BlockSize - 1)
            /\ q.tail \in 0..q.num_blocks /\ q.tailInd \in 0..BlockSize
        BY <3>2, <3>3, BlockSizeType DEF Ends
      <3>5. q.size = (q.tail - q.head - 2) * BlockSize + q.tailInd - q.headInd - 1
        BY <3>1 DEF GoodDeque, Sized
      <3> QED BY <3>2, <3>4, <3>5 DEF q
    <2> QED BY <2>1, <2>2, <2>3 DEF Deques!TypeOK, Deques!Constructed
  <1>4. Deques!OneOwnerEach
    <2>1. \A d \in DOMAIN deque : \A i, j \in DOMAIN deque[d].blocks :
            deque[d].blocks[i] = deque[d].blocks[j] /\ deque[d].blocks[i] # Nil => i = j
      BY <1>2 DEF GoodDeque, Pointers
    <2> QED BY <1>2, <2>1, OwnedIs DEF Apart, Deques!OneOwnerEach, Deques!Constructed
  <1>5. Deques!FewSpareBlocks
    BY <1>2 DEF GoodDeque, Pointers, Deques!FewSpareBlocks, Deques!Constructed
  <1> QED BY <1>3, <1>4, <1>5 DEF BlocksOwned, Deques!BlocksOwned

(* Every block of ints on the heap has one owner, every pointer of         *)
(* blocks_ that is not null points to one, and no more than one block      *)
(* beyond each end stays: deque.h leaks nothing, deletes nothing twice and *)
(* gives memory back, for any number of objects, any block size, and       *)
(* whatever it is asked to hold.                                           *)
THEOREM BlocksAlwaysOwned == Deques!Spec => []BlocksOwned
  BY DequeInit, DequeNext, InvOwned, PTL DEF Deques!Spec, Deques!vars, dequeVars

-----------------------------------------------------------------------------
(* Elements stay where they are. *)
LEMMA PlacesFrom ==
  ASSUME NEW q, NEW r, q.size \in Nat, r.size = q.size + 1, SamePlaces(q, r, q.size, 0)
  PROVE  Deques!Places(q) = Deques!ButLast(Deques!Places(r))
  <1> DEFINE f == Deques!Places(q)
             g == Deques!Places(r)
             n == q.size
  <1>1. n \in Nat /\ r.size = n + 1 /\ f = [i \in 1..n |-> Deques!Place(q, i - 1)]
        /\ g = [i \in 1..(n + 1) |-> Deques!Place(r, i - 1)]
    BY DEF Deques!Places
  <1>2. SamePlaces(q, r, n, 0)
    OBVIOUS
  <1> HIDE DEF n
  <1> DEFINE k == n + 1
             S == {Deques!Place(r, i - 1) : i \in 1..k}
  <1>3. g \in Seq(S) /\ Len(g) = n + 1
    <2>1. k \in Nat /\ g \in [1..k -> S]
      BY <1>1
    <2> HIDE DEF S
    <2>2. g \in Seq(S) /\ Len(g) = k
      <3> HIDE DEF k, g
      <3> QED BY <2>1
    <2> QED BY <2>2
  <1> HIDE DEF k, S
  <1>4. ASSUME NEW i \in 1..n PROVE f[i] = g[i]
    <2>1. i - 1 \in 0..(n - 1) /\ i - 1 + 0 = i - 1 /\ i \in 1..(n + 1)
      BY <1>1
    <2>2. Deques!Place(r, i - 1 + 0) = Deques!Place(q, i - 1)
      BY <1>2, <2>1 DEF SamePlaces
    <2> QED BY <1>1, <2>1, <2>2
  <1>5. f = [i \in 1..n |-> f[i]]
    BY <1>1
  <1> HIDE DEF f, g
  <1>6. Deques!ButLast(g) = [i \in 1..n |-> g[i]]
    BY <1>1, <1>3 DEF Deques!ButLast
  <1>7. f = Deques!ButLast(g)
    BY <1>4, <1>5, <1>6
  <1> QED BY <1>7 DEF f, g

LEMMA PlacesAfter ==
  ASSUME NEW q, NEW r, q.size \in Nat, r.size = q.size + 1, SamePlaces(q, r, q.size, 1)
  PROVE  Deques!Places(q) = Tail(Deques!Places(r))
  <1> DEFINE f == Deques!Places(q)
             g == Deques!Places(r)
             n == q.size
  <1>1. n \in Nat /\ r.size = n + 1 /\ f = [i \in 1..n |-> Deques!Place(q, i - 1)]
        /\ g = [i \in 1..(n + 1) |-> Deques!Place(r, i - 1)]
    BY DEF Deques!Places
  <1>2. SamePlaces(q, r, n, 1)
    OBVIOUS
  <1> HIDE DEF n
  <1> DEFINE k == n + 1
             S == {Deques!Place(r, i - 1) : i \in 1..k}
  <1>3. g \in Seq(S) /\ Len(g) = n + 1
    <2>1. k \in Nat /\ g \in [1..k -> S]
      BY <1>1
    <2> HIDE DEF S
    <2>2. g \in Seq(S) /\ Len(g) = k
      <3> HIDE DEF k, g
      <3> QED BY <2>1
    <2> QED BY <2>2
  <1> HIDE DEF k, S
  <1>4. ASSUME NEW i \in 1..n PROVE f[i] = g[i + 1]
    <2>1. i - 1 \in 0..(n - 1) /\ i - 1 + 1 = i + 1 - 1 /\ i + 1 \in 1..(n + 1)
      BY <1>1
    <2>2. Deques!Place(r, i - 1 + 1) = Deques!Place(q, i - 1)
      BY <1>2, <2>1 DEF SamePlaces
    <2> QED BY <1>1, <2>1, <2>2
  <1>5. f = [i \in 1..n |-> f[i]]
    BY <1>1
  <1> HIDE DEF f, g
  <1>6. Tail(g) = [i \in 1..n |-> g[i + 1]]
    BY <1>1, <1>3
  <1>7. f = Tail(g)
    BY <1>4, <1>5, <1>6
  <1> QED BY <1>7 DEF f, g

LEMMA PushedBackStays ==
  ASSUME DequeInv, NEW d \in DOMAIN deque, Deques!PushBack(d)
  PROVE  Deques!Places(deque[d]) = Deques!ButLast(Deques!Places(deque'[d]))
  <1>1. PICK K : AllHold(deque, blockHeap, K)
    BY DEF DequeInv
  <1>2. PICK v \in Values : Deques!Becomes(d, Deques!PushedBack(Deques!Memory(d), v))
    BY DEF Deques!PushBack
  <1> DEFINE r == Deques!PushedBack(Deques!Memory(d), v)
  <1>3. /\ Stores(blockHeap, OtherBlocks(deque, d), Deques!Memory(d), K[d])
        /\ Deques!Memory(d).q = deque[d]
    BY <1>1, ObjectRead
  <1>4. SamePlaces(deque[d], r.q, deque[d].size, 0) /\ r.q.size = deque[d].size + 1
    BY <1>3, PushedBackStores
  <1>5. deque[d].size \in Nat
    BY <1>1, MembersType DEF AllHold
  <1>6. Deques!Becomes(d, r)
    BY <1>2
  <1> HIDE DEF r
  <1>7. deque'[d] = r.q
    BY <1>6 DEF Deques!Becomes, Deques!With
  <1> QED BY <1>4, <1>5, <1>7, PlacesFrom

LEMMA PushedFrontStays ==
  ASSUME DequeInv, NEW d \in DOMAIN deque, Deques!PushFront(d)
  PROVE  Deques!Places(deque[d]) = Tail(Deques!Places(deque'[d]))
  <1>1. PICK K : AllHold(deque, blockHeap, K)
    BY DEF DequeInv
  <1>2. PICK v \in Values : Deques!Becomes(d, Deques!PushedFront(Deques!Memory(d), v))
    BY DEF Deques!PushFront
  <1> DEFINE r == Deques!PushedFront(Deques!Memory(d), v)
  <1>3. /\ Stores(blockHeap, OtherBlocks(deque, d), Deques!Memory(d), K[d])
        /\ Deques!Memory(d).q = deque[d]
    BY <1>1, ObjectRead
  <1>4. SamePlaces(deque[d], r.q, deque[d].size, 1) /\ r.q.size = deque[d].size + 1
    <2>1. /\ Stores(blockHeap, OtherBlocks(deque, d), r, <<v>> \o K[d])
          /\ SamePlaces(Deques!Memory(d).q, r.q, Deques!Memory(d).q.size, 1)
          /\ r.q.size = Deques!Memory(d).q.size + 1
      BY <1>3, PushedFrontStores
    <2> HIDE DEF r
    <2> QED BY <1>3, <2>1
  <1>5. deque[d].size \in Nat
    BY <1>1, MembersType DEF AllHold
  <1>6. Deques!Becomes(d, r)
    BY <1>2
  <1> HIDE DEF r
  <1>7. deque'[d] = r.q
    BY <1>6 DEF Deques!Becomes, Deques!With
  <1> QED BY <1>4, <1>5, <1>7, PlacesAfter

LEMMA PoppedBackStays ==
  ASSUME DequeInv, NEW d \in DOMAIN deque, deque[d].size > 0, Deques!PopBack(d)
  PROVE  Deques!Places(deque'[d]) = Deques!ButLast(Deques!Places(deque[d]))
  <1>1. PICK K : AllHold(deque, blockHeap, K)
    BY DEF DequeInv
  <1>5. deque[d].size \in Nat
    BY <1>1, MembersType DEF AllHold
  <1> DEFINE r == Deques!PoppedBack(Deques!Memory(d))
  <1>2. Deques!Becomes(d, r)
    BY <1>5 DEF Deques!PopBack
  <1>3. /\ Stores(blockHeap, OtherBlocks(deque, d), Deques!Memory(d), K[d])
        /\ Deques!Memory(d).q = deque[d]
    BY <1>1, ObjectRead
  <1>4. SamePlaces(r.q, deque[d], r.q.size, 0) /\ r.q.size = deque[d].size - 1
    BY <1>3, PoppedBackStores
  <1> HIDE DEF r
  <1>6. r.q.size \in Nat /\ deque[d].size = r.q.size + 1
    BY <1>4, <1>5
  <1>7. deque'[d] = r.q
    BY <1>2 DEF Deques!Becomes, Deques!With
  <1> QED BY <1>4, <1>6, <1>7, PlacesFrom

LEMMA PoppedFrontStays ==
  ASSUME DequeInv, NEW d \in DOMAIN deque, deque[d].size > 0, Deques!PopFront(d)
  PROVE  Deques!Places(deque'[d]) = Tail(Deques!Places(deque[d]))
  <1>1. PICK K : AllHold(deque, blockHeap, K)
    BY DEF DequeInv
  <1>5. deque[d].size \in Nat
    BY <1>1, MembersType DEF AllHold
  <1> DEFINE r == Deques!PoppedFront(Deques!Memory(d))
  <1>2. Deques!Becomes(d, r)
    BY <1>5 DEF Deques!PopFront
  <1>3. /\ Stores(blockHeap, OtherBlocks(deque, d), Deques!Memory(d), K[d])
        /\ Deques!Memory(d).q = deque[d]
    BY <1>1, ObjectRead
  <1>4. SamePlaces(r.q, deque[d], r.q.size, 1) /\ r.q.size = deque[d].size - 1
    BY <1>3, PoppedFrontStores
  <1> HIDE DEF r
  <1>6. r.q.size \in Nat /\ deque[d].size = r.q.size + 1
    BY <1>4, <1>5
  <1>7. deque'[d] = r.q
    BY <1>2 DEF Deques!Becomes, Deques!With
  <1> QED BY <1>4, <1>6, <1>7, PlacesAfter

Stays ==
  \A d \in Deques!Constructed :
    /\ Deques!PushBack(d) => Deques!Places(deque[d]) = Deques!ButLast(Deques!Places(deque'[d]))
    /\ Deques!PushFront(d) => Deques!Places(deque[d]) = Tail(Deques!Places(deque'[d]))
    /\ deque[d].size > 0 =>
         /\ Deques!PopBack(d) => Deques!Places(deque'[d]) = Deques!ButLast(Deques!Places(deque[d]))
         /\ Deques!PopFront(d) => Deques!Places(deque'[d]) = Tail(Deques!Places(deque[d]))

(* An element stays in its block and its cell when others are pushed or    *)
(* popped at either end of its deque, whatever blocks come, go or are      *)
(* reallocated on the way (deque.h:102-117 and 167-243): what operator[]   *)
(* gave a reference to goes on being there.                                *)
THEOREM ElementsStayThere == Deques!Spec => ElementsStay
  <1>1. DequeInv /\ [Deques!Next]_dequeVars => [Stays]_dequeVars
    <2> SUFFICES ASSUME DequeInv PROVE Stays
      OBVIOUS
    <2> QED BY PushedBackStays, PushedFrontStays, PoppedBackStays, PoppedFrontStays, Zenon
            DEF Stays, Deques!Constructed
  <1>2. ElementsStay <=> [][Stays]_dequeVars
    BY PTL DEF ElementsStay, Deques!ElementsStay, Stays, Deques!vars, dequeVars
  <1> QED BY <1>1, <1>2, DequeInit, DequeNext, PTL DEF Deques!Spec, Deques!vars, dequeVars

-----------------------------------------------------------------------------
(* What the objects hold, as AbstractDeque.tla sees it. *)
ReadAt(h, place) ==
  IF place[1] \in DOMAIN h /\ place[2] \in Deques!Indices THEN h[place[1]][place[2]] ELSE Junk

ReadFrom(h, q) == [i \in 1..q.size |-> ReadAt(h, Deques!Place(q, i - 1))]

ItemsOf(h, qs) == [d \in Objects |-> IF d \in DOMAIN qs THEN ReadFrom(h, qs[d]) ELSE NoObject]

ItemsIn(K) == [d \in Objects |-> IF d \in DOMAIN K THEN K[d] ELSE NoObject]

LEMMA ItemsNow == Deques!Contents = ItemsOf(blockHeap, deque)
  BY DEF Deques!Contents, Deques!Constructed, Deques!Value, ItemsOf, ReadFrom, ReadAt

LEMMA ItemsNext == Deques!Contents' = ItemsOf(blockHeap', deque')
  BY DEF Deques!Contents, Deques!Constructed, Deques!Value, ItemsOf, ReadFrom, ReadAt

LEMMA ReadFromIs ==
  ASSUME NEW h, NEW q, GoodDeque(q), NEW s, ReadAs(h, q, s), BlocksOf(q) \subseteq DOMAIN h
  PROVE  ReadFrom(h, q) = s
  <1>1. s \in Seq(Values) /\ Len(s) = q.size /\ q.size \in Nat
    BY MembersType DEF ReadAs
  <1>2. ASSUME NEW i \in 1..q.size PROVE ReadAt(h, Deques!Place(q, i - 1)) = s[i]
    <2> DEFINE k == i - 1
    <2>1. k \in Nat /\ k < q.size /\ k \in 0..(q.size - 1) /\ k + 1 = i
      BY <1>1
    <2> HIDE DEF k
    <2>2. PICK x \in Int, y \in Int :
             /\ y \in Deques!Indices /\ x \in DOMAIN q.blocks
             /\ Deques!Place(q, k) = <<q.blocks[x], y>> /\ q.blocks[x] \in Nat
      BY <2>1, PlaceExists
    <2>3. q.blocks[x] \in DOMAIN h
      BY <2>2, NilNoBlock, BlocksAre
    <2>4. h[Deques!Place(q, k)[1]][Deques!Place(q, k)[2]] = s[k + 1]
      BY <2>1 DEF ReadAs
    <2>5. ReadAt(h, Deques!Place(q, k)) = s[i]
      BY <2>1, <2>2, <2>3, <2>4 DEF ReadAt
    <2> QED BY <2>5 DEF k
  <1>3. s = [i \in 1..q.size |-> s[i]]
    BY <1>1
  <1> QED BY <1>2, <1>3 DEF ReadFrom

LEMMA ItemsRead ==
  ASSUME NEW qs, NEW h, NEW K, AllHold(qs, h, K)
  PROVE  ItemsOf(h, qs) = ItemsIn(K)
  <1>1. DOMAIN K = DOMAIN qs
    BY DEF AllHold
  <1>2. ASSUME NEW d \in DOMAIN qs PROVE ReadFrom(h, qs[d]) = K[d]
    <2>1. GoodDeque(qs[d]) /\ ReadAs(h, qs[d], K[d])
      BY DEF AllHold
    <2>2. BlocksOf(qs[d]) \subseteq DOMAIN h
      BY FreedObjectBlocks
    <2> QED BY <2>1, <2>2, ReadFromIs
  <1> QED BY <1>1, <1>2 DEF ItemsOf, ItemsIn

LEMMA ItemsType ==
  ASSUME NEW qs, NEW h, NEW K, AllHold(qs, h, K)
  PROVE  \A d \in DOMAIN K : K[d] \in Seq(Values) /\ K[d] # NoObject
  BY DequeNames DEF AllHold, ReadAs, Deques!NamesAssumption

Update(I, d, s) == [I EXCEPT ![d] = s]

LEMMA ItemsWith ==
  ASSUME NEW K, NEW d \in Objects, NEW s
  PROVE  ItemsIn(Deques!With(K, d, s)) = Update(ItemsIn(K), d, s)
  BY DEF ItemsIn, Update, Deques!With

LEMMA ItemsWithout ==
  ASSUME NEW K, NEW d \in Objects
  PROVE  ItemsIn(Deques!Restrict(K, DOMAIN K \ {d})) = Update(ItemsIn(K), d, NoObject)
  BY DEF ItemsIn, Update, Deques!Restrict

LEMMA ItemsExchanged ==
  ASSUME NEW K, DOMAIN K \subseteq Objects, NEW d \in DOMAIN K, NEW e \in DOMAIN K
  PROVE  ItemsIn(Exchanged(K, d, e)) = Update(Update(ItemsIn(K), d, K[e]), e, K[d])
  <1> DEFINE L == Exchanged(K, d, e)
  <1>1. DOMAIN L = DOMAIN K /\ \A x \in DOMAIN K :
          L[x] = IF x = e THEN K[d] ELSE IF x = d THEN K[e] ELSE K[x]
    BY DEF Exchanged
  <1> HIDE DEF L
  <1>2. ItemsIn(L) = Update(Update(ItemsIn(K), d, K[e]), e, K[d])
    BY <1>1 DEF ItemsIn, Update
  <1> QED BY <1>2 DEF L

(* The step of AbstractDeque.tla on one object. *)
DequeStepOf(d) ==
  \/ Deques!Abstract!Construct(d) \/ Deques!Abstract!Destroy(d) \/ Deques!Abstract!Push(d)
  \/ Deques!Abstract!Pop(d) \/ Deques!Abstract!Modify(d) \/ Deques!Abstract!Clear(d)
  \/ \E e \in Objects : Deques!Abstract!Assign(d, e)

LEMMA DequeStepMaps ==
  ASSUME NEW K, AllHold(deque, blockHeap, K), DOMAIN K \subseteq Objects,
         NEW L, AllHold(deque', blockHeap', L), Steps(K, L)
  PROVE  Deques!Contents' = Deques!Contents \/ \E d \in Objects : DequeStepOf(d)
  <1> DEFINE I == ItemsIn(K)
  <1>1. Deques!Contents = I /\ Deques!Contents' = ItemsIn(L)
    BY ItemsNow, ItemsNext, ItemsRead
  <1>2. \A d \in DOMAIN K : d \in Objects /\ I[d] = K[d] /\ K[d] \in Seq(Values)
    BY ItemsType DEF ItemsIn
  <1>3. Deques!Abstract!Live = DOMAIN K
    <2>1. \A d \in Objects : I[d] # NoObject <=> d \in DOMAIN K
      BY ItemsType DEF ItemsIn
    <2> QED BY <1>1, <2>1 DEF Deques!Abstract!Live
  <1>4. \A d \in Objects : \A s : Update(I, d, s)[d] = s
    BY DEF Update, ItemsIn
  <1> HIDE DEF I
  <1>5. CASE L = K
    BY <1>1, <1>5 DEF I
  <1>6. CASE Appears(K, L)
    <2>1. PICK d \in Objects \ DOMAIN K :
            \/ \E s \in Seq(Values) : L = Deques!With(K, d, s)
            \/ \E e \in DOMAIN K : L = Deques!With(Deques!With(K, d, K[e]), e, << >>)
      BY <1>6 DEF Appears
    <2>2. CASE \E s \in Seq(Values) : L = Deques!With(K, d, s)
      <3>1. PICK s \in Seq(Values) : L = Deques!With(K, d, s)
        BY <2>2
      <3>2. Deques!Contents' = Update(Deques!Contents, d, s)
        BY <1>1, <3>1, ItemsWith DEF I
      <3>3. Deques!Contents'[d] = s
        BY <1>1, <1>4, <3>2
      <3>4. Deques!Abstract!Construct(d)
        BY <1>3, <3>2, <3>3 DEF Deques!Abstract!Construct, Update
      <3> QED BY <3>4 DEF DequeStepOf
    <2>3. CASE \E e \in DOMAIN K : L = Deques!With(Deques!With(K, d, K[e]), e, << >>)
      <3>1. PICK e \in DOMAIN K : L = Deques!With(Deques!With(K, d, K[e]), e, << >>)
        BY <2>3
      <3>2. e \in Objects /\ Deques!Contents[e] = K[e]
        BY <1>1, <1>2
      <3>3. Deques!Contents' = Update(Update(Deques!Contents, d, Deques!Contents[e]), e, << >>)
        BY <1>1, <3>1, <3>2, ItemsWith DEF I
      <3>4. Deques!Abstract!Construct(d)
        BY <1>3, <3>3 DEF Deques!Abstract!Construct, Update
      <3> QED BY <3>4 DEF DequeStepOf
    <2> QED BY <2>1, <2>2, <2>3
  <1>7. CASE Changes(K, L)
    <2>0. PICK d \in DOMAIN K : \E s :
            /\ L = Deques!With(K, d, s)
            /\ \/ Pushes(K, d, s) \/ Pops(K, d, s) \/ Modifies(K, d, s)
               \/ s = << >> \/ \E e \in DOMAIN K : s = K[e]
      BY <1>7 DEF Changes
    <2>1. PICK s :
            /\ L = Deques!With(K, d, s)
            /\ \/ Pushes(K, d, s) \/ Pops(K, d, s) \/ Modifies(K, d, s)
               \/ s = << >> \/ \E e \in DOMAIN K : s = K[e]
      BY <2>0
    <2>2. d \in Objects /\ d \in Deques!Abstract!Live /\ Deques!Contents[d] = K[d]
      BY <1>1, <1>2, <1>3
    <2>3. Deques!Contents' = Update(Deques!Contents, d, s)
      BY <1>1, <2>1, <2>2, ItemsWith DEF I
    <2>4. CASE Pushes(K, d, s)
      <3>1. Deques!Abstract!Push(d)
        BY <2>2, <2>3, <2>4 DEF Pushes, Update, Deques!Abstract!Push
      <3> QED BY <2>2, <3>1 DEF DequeStepOf
    <2>5. CASE Pops(K, d, s)
      <3>1. Deques!Abstract!Pop(d)
        BY <2>2, <2>3, <2>5 DEF Pops, Update, Deques!Abstract!Pop
      <3> QED BY <2>2, <3>1 DEF DequeStepOf
    <2>6. CASE Modifies(K, d, s)
      <3>1. Deques!Abstract!Modify(d)
        BY <2>2, <2>3, <2>6 DEF Modifies, Update, Deques!Abstract!Modify
      <3> QED BY <2>2, <3>1 DEF DequeStepOf
    <2>7. CASE s = << >>
      <3>1. Deques!Abstract!Clear(d)
        BY <2>2, <2>3, <2>7 DEF Update, Deques!Abstract!Clear
      <3> QED BY <2>2, <3>1 DEF DequeStepOf
    <2>8. ASSUME NEW e \in DOMAIN K, s = K[e] PROVE DequeStepOf(d)
      <3>1. e \in Objects /\ e \in Deques!Abstract!Live /\ Deques!Contents[e] = K[e]
        BY <1>1, <1>2, <1>3
      <3>2. Deques!Abstract!Assign(d, e)
        BY <2>2, <2>3, <2>8, <3>1 DEF Update, Deques!Abstract!Assign
      <3> QED BY <3>1, <3>2 DEF DequeStepOf
    <2> QED BY <2>1, <2>2, <2>4, <2>5, <2>6, <2>7, <2>8
  <1>8. CASE Moves(K, L)
    <2>1. PICK d \in DOMAIN K, e \in DOMAIN K :
            L = Deques!With(Deques!With(K, d, K[e]), e, << >>) \/ L = Exchanged(K, d, e)
      BY <1>8 DEF Moves
    <2>2. /\ d \in Objects /\ d \in Deques!Abstract!Live /\ Deques!Contents[d] = K[d]
          /\ e \in Objects /\ e \in Deques!Abstract!Live /\ Deques!Contents[e] = K[e]
      BY <1>1, <1>2, <1>3
    <2>3. CASE L = Deques!With(Deques!With(K, d, K[e]), e, << >>)
      <3>1. Deques!Contents' = Update(Update(Deques!Contents, d, Deques!Contents[e]), e, << >>)
        BY <1>1, <2>2, <2>3, ItemsWith DEF I
      <3>2. Deques!Abstract!Assign(d, e)
        BY <2>2, <3>1 DEF Update, Deques!Abstract!Assign
      <3> QED BY <2>2, <3>2 DEF DequeStepOf
    <2>4. CASE L = Exchanged(K, d, e)
      <3>1. Deques!Contents' =
              Update(Update(Deques!Contents, d, Deques!Contents[e]), e, Deques!Contents[d])
        BY <1>1, <2>2, <2>4, ItemsExchanged DEF I
      <3>2. Deques!Abstract!Assign(d, e)
        BY <2>2, <3>1 DEF Update, Deques!Abstract!Assign
      <3> QED BY <2>2, <3>2 DEF DequeStepOf
    <2> QED BY <2>1, <2>3, <2>4
  <1>9. CASE Dies(K, L)
    <2>1. PICK d \in DOMAIN K : L = Deques!Restrict(K, DOMAIN K \ {d})
      BY <1>9 DEF Dies
    <2>2. d \in Objects /\ d \in Deques!Abstract!Live
      BY <1>2, <1>3
    <2>3. Deques!Contents' = Update(Deques!Contents, d, NoObject)
      BY <1>1, <2>1, <2>2, ItemsWithout DEF I
    <2>4. Deques!Abstract!Destroy(d)
      BY <2>2, <2>3 DEF Update, Deques!Abstract!Destroy
    <2> QED BY <2>2, <2>4 DEF DequeStepOf
  <1> QED BY <1>5, <1>6, <1>7, <1>8, <1>9 DEF Steps

LEMMA DequeInitMaps == Deques!Init => Deques!Abstract!Init
  <1> SUFFICES ASSUME Deques!Init PROVE Deques!Abstract!Init
    OBVIOUS
  <1>1. deque = << >>
    BY DEF Deques!Init
  <1>2. DOMAIN << >> = {}
    OBVIOUS
  <1>3. Deques!Contents = [d \in Objects |-> NoObject]
    BY <1>1, <1>2, ItemsNow DEF ItemsOf
  <1> QED BY <1>3 DEF Deques!Abstract!Init

(* Every call does to the objects what AbstractDeque.tla says: they are    *)
(* sequences that grow and shrink at both ends, are copied by value, moved *)
(* and exchanged, whatever the constructors, pushes and pops do to blocks_ *)
(* and to the indices of the two ends (deque.h).                           *)
THEOREM DequeRefinement == Deques!Spec => ImplementsDeque
  <1>1. DequeInv /\ [Deques!Next]_dequeVars => [Deques!Abstract!Next]_(Deques!Contents)
    <2> SUFFICES ASSUME DequeInv, [Deques!Next]_dequeVars
                 PROVE  [Deques!Abstract!Next]_(Deques!Contents)
      OBVIOUS
    <2>1. PICK K : AllHold(deque, blockHeap, K)
      BY DEF DequeInv
    <2>2. CASE UNCHANGED dequeVars
      <3>1. blockHeap' = blockHeap /\ deque' = deque
        BY <2>2 DEF dequeVars
      <3> QED BY <3>1, ItemsNow, ItemsNext
    <2>3. CASE Deques!Next
      <3>1. PICK d \in Objects : Deques!Call(d)
        BY <2>3 DEF Deques!Next
      <3>2. PICK L : AllHold(deque', blockHeap', L) /\ Steps(K, L)
        BY <2>1, <3>1, CallSteps
      <3>3. DOMAIN K \subseteq Objects
        BY <2>1 DEF DequeInv, AllHold
      <3>4. Deques!Contents' = Deques!Contents \/ \E e \in Objects : DequeStepOf(e)
        BY <2>1, <3>2, <3>3, DequeStepMaps
      <3> QED BY <3>4 DEF DequeStepOf, Deques!Abstract!Next
    <2> QED BY <2>2, <2>3
  <1> QED BY <1>1, DequeInit, DequeNext, DequeInitMaps, PTL
          DEF Deques!Spec, Deques!vars, dequeVars, ImplementsDeque, Deques!ImplementsDeque,
              Deques!Abstract!Spec
=============================================================================

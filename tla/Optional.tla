------------------------------ MODULE Optional ------------------------------
(***************************************************************************)
(* optional/optional.h: Optional<T> variables.  T is a struct with some    *)
(* data and an owning pointer to another Optional<T>, or none, whose       *)
(* constructors may throw.  opt[v] is the Optional v followed by those     *)
(* inside of its value: each has has_value_ (has) and what lives in buf_,  *)
(* the data of a T, Moved in one moved from, or Raw where no T lives.      *)
(*                                                                         *)
(* A constructor of T that throws leaves its source alone.  lost are the   *)
(* variables the program may not touch any more, not even destroy.         *)
(* MaxDepth bounds the nesting.                                            *)
(***************************************************************************)
EXTENDS Integers, SequencesExt

CONSTANTS Variables, Data, MaxDepth, Gone, Lost, Moved, Raw

VARIABLES opt, lost

vars == <<opt, lost>>

Usable == {v \in Variables : opt[v] # Gone} \ lost

(* An Optional is a place <<v, i>>: the i-th of opt[v]. *)
Places == UNION {{v} \X DOMAIN opt[v] : v \in Usable}

At(p) == opt[p[1]][p[2]]

(* The Optional at p with all that is inside, as a variable would have it. *)
Inside(p) == SubSeq(opt[p[1]], p[2], Len(opt[p[1]]))

Cell(d) == [has |-> TRUE, buf |-> d]

Empty == [has |-> FALSE, buf |-> Raw]

Cells == [has : BOOLEAN, buf : Data \cup {Moved, Raw}]

(* What the names of the model have to be told apart from. *)
NamesAssumption ==
  /\ {Gone, Lost} \cap (Seq(Cells) \cup Seq(Data \cup {Moved, Raw})) = {}
  /\ Gone # Lost
  /\ Raw \notin Data \cup {Moved}
  /\ MaxDepth \in Nat \ {0}

-----------------------------------------------------------------------------
(* m is opt during a call.  GetValuePtr()->~T(): what was inside dies too. *)
Killed(m, v) == [m EXCEPT ![v] = <<[has |-> @[1].has, buf |-> Raw]>>]

(* new (buf_) T of the value of s *)
Built(m, v, s) ==
  [m EXCEPT ![v] = <<[has |-> @[1].has, buf |-> s[1].buf]>> \o Tail(s)]

Flagged(m, v, has) == [m EXCEPT ![v][1].has = has]

(* The value at p, if any, has been moved from. *)
MovedFrom(p) ==
  IF ~At(p).has THEN opt
  ELSE [opt EXCEPT ![p[1]] = Append(SubSeq(@, 1, p[2] - 1), [At(p) EXCEPT !.buf = Moved])]

Returns(m) == opt' = m /\ UNCHANGED lost

Throws == UNCHANGED vars

Construct(v, m, s) ==
  LET raw == [m EXCEPT ![v] = <<Empty>>] IN
    IF s[1].has THEN Returns(Flagged(Built(raw, v, s), v, TRUE)) \/ Throws ELSE Returns(raw)

MutAssign(v, m, s) ==      \* the flag is set before the value is there
  IF ~s[1].has THEN Returns(Flagged(Killed(m, v), v, FALSE))
  ELSE \/ Returns(Flagged(Built(Killed(m, v), v, s), v, TRUE))
       \/ ~At(<<v, 1>>).has /\ Returns(Flagged(opt, v, TRUE))

(* *this = s, which leaves m: through value_copy when there is a value     *)
(* that has to die first.  That it is built again may throw, too.          *)
Assign(v, m, s) ==
  IF ~s[1].has THEN Returns(Flagged(Killed(m, v), v, FALSE))
  ELSE \/ Returns(Flagged(Built(Killed(m, v), v, s), v, TRUE))
       \/ Throws
       \/ At(<<v, 1>>).has /\ opt' = Killed(m, v) /\ lost' = lost \cup {v}

-----------------------------------------------------------------------------
Init == opt = [v \in Variables |-> Gone] /\ lost = {}

(* Optional(), Optional(const T&) and Optional(T&&) *)
ConstructValue(v) ==
  /\ opt[v] = Gone
  /\ \E c \in {Empty} \cup {Cell(d) : d \in Data} : Construct(v, opt, <<c>>)

CopyConstruct(v, p) == opt[v] = Gone /\ Construct(v, opt, Inside(p))

MoveConstruct(v, p) == opt[v] = Gone /\ Construct(v, MovedFrom(p), Inside(p))

Destroy(v) == v \in Usable /\ Returns([opt EXCEPT ![v] = Gone])

CopyAssign(v, p) ==
  /\ v \in Usable
  /\ IF p = <<v, 1>> THEN UNCHANGED vars ELSE Assign(v, opt, Inside(p))

MutMoveAssign(v, p) ==     \* resets the Optional that it is moved from
  /\ v \in Usable
  /\ IF p = <<v, 1>> THEN UNCHANGED vars
     ELSE Assign(v, [opt EXCEPT ![p[1]] = Append(SubSeq(@, 1, p[2] - 1), Empty)], Inside(p))

MoveAssign(v, p) ==
  /\ v \in Usable
  /\ IF p = <<v, 1>> THEN UNCHANGED vars ELSE Assign(v, MovedFrom(p), Inside(p))

(* A T is made an Optional, which is moved to v and destroyed. *)
AssignValue(v, d) == v \in Usable /\ Assign(v, opt, <<Cell(d)>>)

Reset(v) ==
  /\ v \in Usable
  /\ IF At(<<v, 1>>).has THEN Returns(Flagged(Killed(opt, v), v, FALSE)) ELSE UNCHANGED vars

(* Value(), * and ->, where GetValuePtr does not throw: the program gives  *)
(* the T another value, perhaps with an Optional inside, or moves it out.  *)
Access(p) ==
  /\ At(p).has
  /\ \/ Returns(MovedFrom(p))
     \/ \E d \in Data, inside \in {<<>>, <<Empty>>} \cup {<<Cell(e)>> : e \in Data} :
          /\ p[2] + Len(inside) <= MaxDepth
          /\ Returns([opt EXCEPT ![p[1]] = SubSeq(@, 1, p[2] - 1) \o <<Cell(d)>> \o inside])

Next ==
  \/ \E v \in Variables :
       \/ ConstructValue(v) \/ Destroy(v) \/ Reset(v)
       \/ \E d \in Data : AssignValue(v, d)
       \/ \E p \in Places :
            CopyConstruct(v, p) \/ MoveConstruct(v, p) \/ CopyAssign(v, p) \/ MoveAssign(v, p)
  \/ \E p \in Places : Access(p)

Spec == Init /\ [][Next]_vars

-----------------------------------------------------------------------------
TypeOK ==
  /\ lost \subseteq {v \in Variables : opt[v] # Gone}
  /\ \A v \in Variables : opt[v] # Gone =>
       /\ Len(opt[v]) \in 1..MaxDepth
       /\ \A i \in DOMAIN opt[v] : opt[v][i] \in Cells

(* Whatever throws, has_value_ is true exactly where a T lives in buf_, so *)
(* that no T is destroyed twice or never, and a T has an Optional inside   *)
(* only while it lives.  Only where an assignment has destroyed the old    *)
(* value and then T's constructor throws (lines 50 and 72) the flag stays  *)
(* true over nothing.                                                      *)
FlagTellsLife ==
  /\ TypeOK
  /\ \A p \in Places : /\ At(p).has <=> At(p).buf # Raw
                       /\ Len(Inside(p)) > 1 => At(p).has
  /\ \A v \in lost : opt[v] = <<Cell(Raw)>>

Abstract == INSTANCE AbstractOptional
  WITH contents <- [v \in Variables |->
                     CASE v \in lost -> Lost
                       [] opt[v] = Gone -> Gone
                       [] OTHER -> [i \in DOMAIN opt[v] |-> opt[v][i].buf]],
       None <- Raw, NoObject <- Gone

(* Optionals hold values by value, moves leave HasValue() of their source  *)
(* alone, and an assignment works though its source is inside the value    *)
(* that it replaces.                                                       *)
ImplementsOptional == Abstract!Spec
=============================================================================

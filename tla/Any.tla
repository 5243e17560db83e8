--------------------------------- MODULE Any ---------------------------------
(***************************************************************************)
(* any/any.h: Any variables over one heap of holders.  ptr is inner_ptr_   *)
(* of a constructed variable, inner maps the allocated holders to their    *)
(* value_: a leaf of some type, or a struct X { Any x; }, whose x may be   *)
(* read, and so copied from, through GetValue<X>().x, but not moved or     *)
(* assigned, as GetValue returns a const reference.                        *)
(*                                                                         *)
(* new and the constructors of the values do not throw.  MaxDepth bounds   *)
(* the nesting.                                                            *)
(***************************************************************************)
EXTENDS Integers, Sequences, Functions

CONSTANTS Variables, Addresses, Leaves, X, MaxDepth, Gone, Null

NamesAssumption ==
  /\ Gone \notin Addresses \cup {Null} \cup Seq(Leaves \cup {X})
  /\ Null \notin Addresses
  /\ Variables \cap Addresses = {}

BoundsAssumption == MaxDepth \in Nat \ {0}

VARIABLES ptr, inner

vars == <<ptr, inner>>

Constructed == {v \in Variables : ptr[v] # Gone}

(* The objects there are to copy from, and what they point to. *)
Places == Constructed \cup {a \in DOMAIN inner : inner[a].value = X}

Pointer(p) == IF p \in Variables THEN ptr[p] ELSE inner[p].x

(* A holder with the one in its value, and so on. *)
Chain(holders, a) ==
  LET Below == [b \in DOMAIN holders \cup {Null} |-> IF b = Null THEN Null ELSE holders[b].x]
      at[n \in 1..MaxDepth] == IF n = 1 THEN a ELSE Below[at[n - 1]]
      depth == CHOOSE k \in 0..MaxDepth : \A n \in 1..MaxDepth : at[n] # Null <=> n <= k
  IN  [n \in 1..depth |-> at[n]]

(* What the Any p holds, and the Any inside of that, and so on. *)
ValuesOf(p) ==
  LET chain == Chain(inner, Pointer(p)) IN [n \in DOMAIN chain |-> inner[chain[n]].value]

Depth(p) == Len(ValuesOf(p))

-----------------------------------------------------------------------------
(* A temporary Any: t = [ptr, inner, held], held being its inner_ptr_. *)
Empty == [ptr |-> ptr, inner |-> inner, held |-> Null]

(* What n calls of new return. *)
Fresh(holders, n) ==
  CHOOSE new \in [1..n -> Addresses \ DOMAIN holders] : \A i, j \in 1..n : new[i] = new[j] => i = j

(* A new Inner for each of the values, the next one inside of it, and in   *)
(* the innermost what t held.                                              *)
Boxed(t, values) ==
  LET new == Fresh(t.inner, Len(values))
      next == Append(new, t.held)
      Holder(i) == [value |-> values[i], x |-> next[i + 1]]
  IN  [ptr |-> t.ptr, held |-> next[1],
       inner |-> [a \in DOMAIN t.inner \cup Range(new) |->
                    IF a \in DOMAIN t.inner THEN t.inner[a]
                    ELSE Holder(CHOOSE i \in DOMAIN new : new[i] = a)]]

MutCopied(p) ==            \* Clone() leaves the Any in the value out
  LET values == ValuesOf(p) IN Boxed(Empty, IF values = <<>> THEN <<>> ELSE <<values[1]>>)

(* Any(const Any&) of p: Clone() copies the Any in the value, and so on. *)
Copied(p) == Boxed(Empty, ValuesOf(p))

(* Any(Any&&) of v *)
Taken(v) == [ptr |-> [ptr EXCEPT ![v] = Null], inner |-> inner, held |-> ptr[v]]

(* Any(T&&): a leaf, X{p} and X{std::move(v)} *)
ValuesBoxed ==
  {Boxed(Empty, <<l>>) : l \in Leaves}
    \cup {Boxed(Copied(p), <<X>>) : p \in {q \in Places : Depth(q) < MaxDepth}}
    \cup {Boxed(Taken(v), <<X>>) : v \in {w \in Constructed : Depth(w) < MaxDepth}}

Freed(holders, a) == Restrict(holders, DOMAIN holders \ Range(Chain(holders, a)))

-----------------------------------------------------------------------------
Becomes(v, t) == ptr' = [t.ptr EXCEPT ![v] = t.held] /\ inner' = t.inner

MutSwapped(v, t) == Becomes(v, t)   \* nobody destroys what v held

(* The temporary is swapped with v and destroyed with what v held. *)
Swapped(v, t) ==
  /\ ptr' = [t.ptr EXCEPT ![v] = t.held]
  /\ inner' = Freed(t.inner, t.ptr[v])

Init == ptr = [v \in Variables |-> Gone] /\ inner = <<>>

(* Any(), Any(T&&), Any(const Any&) and Any(Any&&) *)
Construct(v) ==
  /\ v \notin Constructed
  /\ \E t \in {Empty} \cup ValuesBoxed \cup {Copied(p) : p \in Places}
                      \cup {Taken(w) : w \in Constructed} : Becomes(v, t)

Destroy(v) ==
  /\ v \in Constructed
  /\ ptr' = [ptr EXCEPT ![v] = Gone]
  /\ inner' = Freed(inner, ptr[v])

Clear(v) ==
  /\ v \in Constructed
  /\ ptr' = [ptr EXCEPT ![v] = Null]
  /\ inner' = Freed(inner, ptr[v])

(* operator=(T&&) *)
AssignValue(v) ==
  /\ v \in Constructed
  /\ \E t \in ValuesBoxed : Swapped(v, t)

(* operator=(const Any&), also of an Any inside of v *)
CopyAssign(v, p) ==
  /\ v \in Constructed /\ p \in Places
  /\ IF p = v THEN UNCHANGED vars ELSE Swapped(v, Copied(p))

(* operator=(Any&&): through the temporary v gets even its own value back. *)
MoveAssign(v, w) ==
  /\ {v, w} \subseteq Constructed
  /\ Swapped(v, Taken(w))

Swap(v, w) ==
  /\ {v, w} \subseteq Constructed
  /\ ptr' = [ptr EXCEPT ![v] = ptr[w], ![w] = ptr[v]]
  /\ UNCHANGED inner

Next ==
  \E v \in Variables :
    \/ Construct(v) \/ Destroy(v) \/ Clear(v) \/ AssignValue(v)
    \/ \E p \in Places : CopyAssign(v, p)
    \/ \E w \in Variables : MoveAssign(v, w) \/ Swap(v, w)

Spec == Init /\ [][Next]_vars

-----------------------------------------------------------------------------
TypeOK ==
  /\ DOMAIN inner \subseteq Addresses
  /\ \A v \in Constructed : ptr[v] \in DOMAIN inner \cup {Null}
  /\ \A a \in DOMAIN inner : /\ inner[a].value \in Leaves \cup {X}
                             /\ inner[a].x \in DOMAIN inner \cup {Null}

(* The holders from a on come to an end within MaxDepth: following x never *)
(* leads back to a holder that was there before.                           *)
Ends(a) ==
  LET chain == Chain(inner, a) IN chain # <<>> => inner[chain[Len(chain)]].x = Null

(* Every holder belongs to one variable, directly or inside of other       *)
(* values: none leaks, is deleted twice or contains itself, whatever is    *)
(* wrapped, taken out of another value or assigned to itself.              *)
HoldersOwned ==
  /\ TypeOK
  /\ \A v \in Constructed : Ends(ptr[v])
  /\ \A a \in DOMAIN inner :
       \E v \in Constructed : {w \in Constructed : a \in Range(Chain(inner, ptr[w]))} = {v}

Contents == [v \in Variables |-> IF v \in Constructed THEN ValuesOf(v) ELSE Gone]

Abstract == INSTANCE AbstractAny
  WITH contents <- Contents, NoObject <- Gone

(* Variables hold values of any type, nested to any depth, by value.       *)
ImplementsAny == Abstract!Spec
=============================================================================

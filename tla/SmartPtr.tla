------------------------------- MODULE SmartPtr -------------------------------
(***************************************************************************)
(* smart-ptrs/smart_ptr.h: SharedPtr and WeakPtr variables of one program. *)
(*                                                                         *)
(* A constructed variable holds a pair [obj, counter], obj_ptr_ and        *)
(* counter_.  counter maps the LinkCounters allocated to their counts, and *)
(* strings are the std::strings allocated.  A call is one action: nothing  *)
(* here is atomic or meant for several threads.  A raw pointer is given to *)
(* one SharedPtr only.  new may throw: what is leaked then is in leaked,   *)
(* at most MaxLeaked strings, and a variable that is Lost may not be       *)
(* touched any more, not even destroyed.                                   *)
(***************************************************************************)
EXTENDS Integers, FiniteSets

CONSTANTS
  SharedPtrs, WeakPtrs,   (* the variables of the program                  *)
  Counters, Strings,      (* where LinkCounters and strings are allocated  *)
  MaxLeaked,
  Gone,                   (* a variable not constructed                    *)
  Lost, Null

VARIABLES shared, weak, counter, strings, leaked

vars == <<shared, weak, counter, strings, leaked>>

Live == {x \in SharedPtrs : shared[x] \notin {Gone, Lost}}

Empty == [obj |-> Null, counter |-> Null]

Pointers == [obj : Strings \cup {Null}, counter : Counters \cup {Null}]

(* The names of the pieces of memory and of the states of a variable do    *)
(* not clash, and memory is not used up without new throwing.              *)
ASSUME NamesAssumption ==
  /\ Gone # Lost
  /\ {Gone, Lost} \cap (Pointers \cup Counters) = {}
  /\ Null \notin {Gone, Lost} \cup Counters \cup Strings

ASSUME RoomAssumption ==
  /\ IsFiniteSet(SharedPtrs) /\ IsFiniteSet(WeakPtrs) /\ MaxLeaked \in Nat
  /\ IsFiniteSet(Counters) =>
       Cardinality(Counters) > Cardinality(SharedPtrs) + Cardinality(WeakPtrs)
  /\ IsFiniteSet(Strings) =>
       Cardinality(Strings) > Cardinality(SharedPtrs) + MaxLeaked

(* An allocated counter counts something. *)
TypeOK ==
  /\ shared \in [SharedPtrs -> Pointers \cup {Gone, Lost}]
  /\ weak \in [WeakPtrs -> Pointers \cup {Gone}]
  /\ DOMAIN counter \subseteq Counters
  /\ \A c \in DOMAIN counter : /\ counter[c] \in [strong : Nat, weak : Nat]
                               /\ counter[c].strong + counter[c].weak > 0
  /\ leaked \subseteq strings /\ strings \subseteq Strings

-----------------------------------------------------------------------------
(* A memory m is [counter, strings]; p is the pair of a pointer. *)
Memory == [counter |-> counter, strings |-> strings]

FreeCounter(m, c) == [m EXCEPT !.counter = [d \in DOMAIN @ \ {c} |-> @[d]]]

(* ++counter_->strong and ++counter_->weak *)
Shared(m, p) ==
  IF p.counter = Null THEN m ELSE [m EXCEPT !.counter[p.counter].strong = @ + 1]

Watched(m, p) ==
  IF p.counter = Null THEN m ELSE [m EXCEPT !.counter[p.counter].weak = @ + 1]

(* ~SharedPtr() of p *)
Released(m, p) ==
  IF p.counter = Null \/ m.counter[p.counter].strong = 0 THEN m
  ELSE LET s == [m EXCEPT !.counter[p.counter].strong = @ - 1]
           t == [s EXCEPT !.strings = @ \ {p.obj}]
       IN  IF s.counter[p.counter].strong > 0 THEN s
           ELSE IF t.counter[p.counter].weak = 0 THEN FreeCounter(t, p.counter) ELSE t

MutUnwatched(m, p) ==      \* the last WeakPtr leaves the counter
  IF p.counter = Null \/ m.counter[p.counter].weak = 0 THEN m
  ELSE [m EXCEPT !.counter[p.counter].weak = @ - 1]

(* ~WeakPtr() of p *)
Unwatched(m, p) ==
  IF p.counter = Null \/ m.counter[p.counter].weak = 0 THEN m
  ELSE LET s == [m EXCEPT !.counter[p.counter].weak = @ - 1] IN
         IF s.counter[p.counter].weak = 0 /\ s.counter[p.counter].strong = 0
         THEN FreeCounter(s, p.counter) ELSE s

(* new LinkCounter{1, 0} for obj: the memory and the pair. *)
Counted(m, obj) ==
  LET c == CHOOSE c \in Counters : c \notin DOMAIN m.counter IN
    [memory |-> [m EXCEPT !.counter = [d \in DOMAIN @ \cup {c} |->
                   IF d = c THEN [strong |-> 1, weak |-> 0] ELSE @[d]]],
     pair   |-> [obj |-> obj, counter |-> c]]

IsExpired(p) == p.counter = Null \/ counter[p.counter].strong = 0

(* SharedPtr(weak_ptr), before ++counter_->strong, and Lock(). *)
Lock(p) == IF IsExpired(p) THEN Empty ELSE p

-----------------------------------------------------------------------------
Becomes(m) == counter' = m.counter /\ strings' = m.strings

(* x holds the pair p, after its constructor or an assignment. *)
SetShared(x, p, m) ==
  shared' = [shared EXCEPT ![x] = p] /\ Becomes(m) /\ UNCHANGED <<weak, leaked>>

SetWeak(w, p, m) ==
  weak' = [weak EXCEPT ![w] = p] /\ Becomes(m) /\ UNCHANGED <<shared, leaked>>

Init ==
  /\ shared = [x \in SharedPtrs |-> Gone]
  /\ weak = [w \in WeakPtrs |-> Gone]
  /\ counter = [c \in {} |-> [strong |-> 0, weak |-> 0]]
  /\ strings = {} /\ leaked = {}

(* What the program passes as std::string*: a new string, or nullptr. *)
RawPointers == {Null, CHOOSE s \in Strings : s \notin strings}

WithString(m, s) == [m EXCEPT !.strings = @ \cup ({s} \ {Null})]

(* new LinkCounter throws: nobody deletes s. *)
Leaks(s) ==
  /\ leaked' = leaked \cup ({s} \ {Null})
  /\ Cardinality(leaked') <= MaxLeaked

(* SharedPtr() and SharedPtr(ptr) *)
ConstructShared(x) ==
  /\ shared[x] = Gone
  /\ \/ SetShared(x, Empty, Memory)
     \/ \E s \in RawPointers : LET new == Counted(WithString(Memory, s), s) IN
          SetShared(x, new.pair, new.memory)

(* SharedPtr(ptr), when new LinkCounter throws *)
ConstructThrows(x) ==
  /\ shared[x] = Gone
  /\ \E s \in RawPointers : Leaks(s) /\ Becomes(WithString(Memory, s))
  /\ UNCHANGED <<shared, weak>>

(* SharedPtr(const SharedPtr&) *)
CopyShared(x, other) ==
  /\ shared[x] = Gone /\ other \in Live
  /\ SetShared(x, shared[other], Shared(Memory, shared[other]))

(* SharedPtr(SharedPtr&&) *)
MoveShared(x, other) ==
  /\ shared[x] = Gone /\ other \in Live
  /\ shared' = [shared EXCEPT ![x] = shared[other], ![other] = Empty]
  /\ UNCHANGED <<weak, counter, strings, leaked>>

(* SharedPtr(const WeakPtr&), also the result of Lock() *)
LockShared(x, w) ==
  /\ shared[x] = Gone /\ weak[w] # Gone
  /\ SetShared(x, Lock(weak[w]), Shared(Memory, Lock(weak[w])))

DestroyShared(x) ==
  /\ x \in Live
  /\ SetShared(x, Gone, Released(Memory, shared[x]))

(* operator=(SharedPtr other), other a copy: the pairs are swapped and the *)
(* parameter is destroyed with what x held.                                *)
CopyAssignShared(x, other) ==
  /\ x \in Live /\ other \in Live
  /\ SetShared(x, shared[other], Released(Shared(Memory, shared[other]), shared[x]))

MutMoveAssignShared(x, other) ==   \* what x held is not released
  /\ x \in Live /\ other \in Live
  /\ shared' = [shared EXCEPT ![x] = shared[other], ![other] = IF x = other THEN @ ELSE Empty]
  /\ UNCHANGED <<weak, counter, strings, leaked>>

(* operator=(SharedPtr other), other moved from a variable: x = move(x)    *)
(* empties x before it is given back its pair.                             *)
MoveAssignShared(x, other) ==
  /\ x \in Live /\ other \in Live
  /\ IF x = other THEN UNCHANGED <<shared, counter, strings, leaked>>
     ELSE /\ shared' = [shared EXCEPT ![x] = shared[other], ![other] = Empty]
          /\ Becomes(Released(Memory, shared[x]))
  /\ UNCHANGED <<weak, leaked>>

(* x = w.Lock() *)
LockAssign(x, w) ==
  /\ x \in Live /\ weak[w] # Gone
  /\ SetShared(x, Lock(weak[w]), Released(Shared(Memory, Lock(weak[w])), shared[x]))

(* Reset(ptr): the string is made before the call. *)
ResetShared(x) ==
  /\ x \in Live
  /\ \E s \in RawPointers :
       LET new == Counted(Released(WithString(Memory, s), shared[x]), s) IN
         SetShared(x, new.pair, new.memory)

(* Reset(ptr), when new LinkCounter throws: x has ptr and, unless it was   *)
(* the last one, a counter that does not count it.                         *)
ResetThrows(x) ==
  /\ x \in Live
  /\ \E s \in RawPointers :
       Leaks(s) /\ Becomes(Released(WithString(Memory, s), shared[x]))
  /\ shared' = [shared EXCEPT ![x] = Lost]
  /\ UNCHANGED weak

-----------------------------------------------------------------------------
(* What a WeakPtr can be made from by copy: a WeakPtr or a SharedPtr. *)
Watchable == ({weak[w] : w \in WeakPtrs} \cup {shared[x] : x \in Live}) \ {Gone}

(* WeakPtr(), WeakPtr(const WeakPtr&) and WeakPtr(const SharedPtr&) *)
ConstructWeak(w) ==
  /\ weak[w] = Gone
  /\ \E p \in {Empty} \cup Watchable : SetWeak(w, p, Watched(Memory, p))

(* WeakPtr(WeakPtr&&) *)
MoveWeak(w, other) ==
  /\ weak[w] = Gone /\ weak[other] # Gone
  /\ weak' = [weak EXCEPT ![w] = weak[other], ![other] = Empty]
  /\ UNCHANGED <<shared, counter, strings, leaked>>

DestroyWeak(w) ==
  /\ weak[w] # Gone
  /\ SetWeak(w, Gone, Unwatched(Memory, weak[w]))

(* operator=(WeakPtr other), other copied or converted *)
CopyAssignWeak(w) ==
  /\ weak[w] # Gone
  /\ \E p \in Watchable : SetWeak(w, p, Unwatched(Watched(Memory, p), weak[w]))

(* operator=(WeakPtr other), other moved from a variable *)
MoveAssignWeak(w, other) ==
  /\ weak[w] # Gone /\ weak[other] # Gone
  /\ IF w = other THEN UNCHANGED <<weak, counter, strings, leaked>>
     ELSE /\ weak' = [weak EXCEPT ![w] = weak[other], ![other] = Empty]
          /\ Becomes(Unwatched(Memory, weak[w]))
  /\ UNCHANGED <<shared, leaked>>

ResetWeak(w) ==
  /\ weak[w] # Gone
  /\ SetWeak(w, Empty, Unwatched(Memory, weak[w]))

-----------------------------------------------------------------------------
Next ==
  \/ \E x \in SharedPtrs :
       \/ ConstructShared(x) \/ DestroyShared(x) \/ ResetShared(x)
       \/ ConstructThrows(x) \/ ResetThrows(x)
       \/ \E other \in SharedPtrs :
            \/ CopyShared(x, other) \/ MoveShared(x, other)
            \/ CopyAssignShared(x, other) \/ MoveAssignShared(x, other)
       \/ \E w \in WeakPtrs : LockShared(x, w) \/ LockAssign(x, w)
  \/ \E w \in WeakPtrs :
       \/ ConstructWeak(w) \/ DestroyWeak(w)
       \/ CopyAssignWeak(w) \/ ResetWeak(w)
       \/ \E other \in WeakPtrs : MoveWeak(w, other) \/ MoveAssignWeak(w, other)

Spec == Init /\ [][Next]_vars

-----------------------------------------------------------------------------
SharedBy(c)  == {x \in Live : shared[x].counter = c}
WatchedBy(c) == {w \in WeakPtrs : weak[w] # Gone /\ weak[w].counter = c}

(* The counts are the numbers of pointers, a pointer's counter is there as *)
(* long as the pointer, and no counter is left when the pointers are gone. *)
CountsExact ==
  /\ TypeOK
  /\ \A c \in DOMAIN counter : /\ counter[c].strong = Cardinality(SharedBy(c))
                               /\ counter[c].weak = Cardinality(WatchedBy(c))
  /\ \A c \in Counters \ DOMAIN counter : SharedBy(c) = {} /\ WatchedBy(c) = {}

(* A string lives as long as a SharedPtr has it, no longer, and under one  *)
(* counter: it is deleted once.  Only a SharedPtr that cannot be made, or  *)
(* Reset, for want of a counter leaks the string it has been given.        *)
StringsOwned ==
  /\ strings \ leaked = {shared[x].obj : x \in Live} \ {Null}
  /\ \A x, y \in Live :
       shared[x].obj # Null =>
         (shared[x].obj = shared[y].obj <=> shared[x].counter = shared[y].counter)

(* No counter, and else no string, leaks or is deleted twice or too early. *)
OwnershipExact == CountsExact /\ StringsOwned

Held(p) == IF p \in {Gone, Lost} THEN p ELSE p.counter

Ownership == INSTANCE SharedOwnership
  WITH Owners <- SharedPtrs, Observers <- WeakPtrs, Objects <- Counters, None <- Null,
       owns <- [x \in SharedPtrs |-> Held(shared[x])],
       watches <- [w \in WeakPtrs |-> Held(weak[w])],
       alive <- {c \in DOMAIN counter : counter[c].strong > 0}

(* Through any sequence of copies, moves, assignments and locks the        *)
(* pointers are owners and observers of objects, and an expired WeakPtr    *)
(* gives nobody anything any more.                                         *)
ImplementsOwnership == Ownership!Spec
=============================================================================

--------------------------- MODULE SharedOwnership ---------------------------
(***************************************************************************)
(* What smart-ptrs/smart_ptr.h promises: owners share objects, observers   *)
(* watch them, and an object lives exactly as long as somebody owns it.    *)
(* Gone stands for a variable not constructed, None for an empty one, Lost *)
(* for an owner that an exception has made useless.                        *)
(***************************************************************************)
CONSTANTS Owners, Observers, Objects, Gone, Lost, None

VARIABLES owns, watches, alive

vars == <<owns, watches, alive>>

Live == {x \in Owners : owns[x] \notin {Gone, Lost}}

Owned == {owns[x] : x \in Owners} \cap Objects

Init ==
  /\ owns = [x \in Owners |-> Gone]
  /\ watches = [w \in Observers |-> Gone]
  /\ alive = {}

(* A new object is one that nobody knows. *)
Fresh == Objects \ (Owned \cup {watches[w] : w \in Observers})

(* What an owner gets from an observer. *)
Locked(w) == IF watches[w] \in alive THEN watches[w] ELSE None

Construct(x) ==
  /\ owns[x] = Gone
  /\ \/ \E v \in {None} \cup Fresh : owns' = [owns EXCEPT ![x] = v]
     \/ \E y \in Owners : y \in Live /\
          \/ owns' = [owns EXCEPT ![x] = owns[y]]
          \/ owns' = [owns EXCEPT ![x] = owns[y], ![y] = None]
     \/ \E w \in Observers : watches[w] # Gone /\ owns' = [owns EXCEPT ![x] = Locked(w)]
  /\ UNCHANGED watches

Assign(x) ==
  /\ x \in Live
  /\ \/ \E y \in Owners : y \in Live /\
          \/ owns' = [owns EXCEPT ![x] = owns[y]]
          \/ x # y /\ owns' = [owns EXCEPT ![x] = owns[y], ![y] = None]
     \/ \E w \in Observers : watches[w] # Gone /\ owns' = [owns EXCEPT ![x] = Locked(w)]
     (* Reset: the object let go of may be where the new one is put. *)
     \/ \E v \in Objects :
          /\ owns' = [owns EXCEPT ![x] = v]
          /\ \A y \in Owners \ {x} : owns[y] # v
          /\ \A w \in Observers : watches[w] # v
  /\ UNCHANGED watches

Destroy(x) ==
  /\ x \in Live
  /\ \E v \in {Gone, Lost} : owns' = [owns EXCEPT ![x] = v]
  /\ UNCHANGED watches

Watch(w) ==
  /\ \/ watches' = [watches EXCEPT ![w] = None]
     \/ \E u \in Observers : watches[u] # Gone /\
          \/ watches' = [watches EXCEPT ![w] = watches[u]]
          \/ w # u /\ watches' = [watches EXCEPT ![w] = watches[u], ![u] = None]
     \/ \E x \in Owners : x \in Live /\ watches' = [watches EXCEPT ![w] = owns[x]]
     \/ watches' = [watches EXCEPT ![w] = Gone]
  /\ UNCHANGED owns

Next ==
  /\ \/ \E x \in Owners : Construct(x) \/ Assign(x) \/ Destroy(x)
     \/ \E w \in Observers : Watch(w)
  /\ alive' = Owned'

Spec == Init /\ [][Next]_vars
=============================================================================

------------------------------- MODULE MCDeque -------------------------------
(* Model values for NamedDeque.tla: the two objects are interchangeable. *)
EXTENDS NamedDeque, TLC

Program == Deques!Spec

Symmetry == Permutations(Objects)

(* Addresses are only names: states that differ in them alone behave alike. *)
BlockOf(p) == IF p \in DOMAIN blockHeap THEN blockHeap[p] ELSE p

NoAddresses ==
  <<stopped, [d \in Objects |->
     IF d \in DOMAIN deque
     THEN [deque[d] EXCEPT !.blocks = [i \in DOMAIN @ |-> BlockOf(@[i])]]
     ELSE NoObject]>>
=============================================================================

---------------------------- MODULE FairSemaphore ----------------------------
(***************************************************************************)
(* What semaphore/README.md promises with "Fair Semaphore": a counter of   *)
(* permits, and waiters that are served in the order in which they asked.  *)
(* Semaphore.tla is shown to implement it.                                 *)
(***************************************************************************)
EXTENDS Naturals

CONSTANTS Threads, InitialCount

VARIABLES
  permits,
  holders,
  ahead       (* a waiting thread -> those that asked before and still wait *)

vars == <<permits, holders, ahead>>

Waiting == DOMAIN ahead

Init ==
  /\ permits = InitialCount
  /\ holders = {}
  /\ ahead = [t \in {} |-> {}]

Arrive(t) ==
  /\ t \notin holders \cup Waiting
  /\ ahead' = [u \in Waiting \cup {t} |-> IF u = t THEN Waiting ELSE ahead[u]]
  /\ UNCHANGED <<permits, holders>>

(* Nobody is served before a thread that asked earlier; a thread that      *)
(* finds no one waiting may take a permit in the step that asks.           *)
Take(t) ==
  /\ permits > 0
  /\ t \notin holders
  /\ (IF t \in Waiting THEN ahead[t] ELSE Waiting) = {}
  /\ permits' = permits - 1
  /\ holders' = holders \cup {t}
  /\ ahead' = [u \in Waiting \ {t} |-> ahead[u] \ {t}]

(* The first waiter goes away with an exception. *)
Leave(t) ==
  /\ permits > 0
  /\ t \in Waiting /\ ahead[t] = {}
  /\ ahead' = [u \in Waiting \ {t} |-> ahead[u] \ {t}]
  /\ UNCHANGED <<permits, holders>>

Give(t) ==
  /\ t \in holders
  /\ permits' = permits + 1
  /\ holders' = holders \ {t}
  /\ UNCHANGED ahead

Next == \E t \in Threads : Arrive(t) \/ Take(t) \/ Leave(t) \/ Give(t)

Spec == Init /\ [][Next]_vars
=============================================================================

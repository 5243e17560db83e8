--------------------------- MODULE AbstractRWLock ---------------------------
(***************************************************************************)
(* What a readers-writer lock that prefers readers promises: readers share *)
(* it, a writer has it alone, and no writer enters while a reader has been *)
(* announced (rw-lock/README.md: "with writers starvation").  RWLock.tla   *)
(* is shown to implement it.                                               *)
(***************************************************************************)
CONSTANT Threads

VARIABLES
  announced,      (* called Read() and are not let in yet                  *)
  readers,
  writers         (* none or one; a writer that throws stays for ever      *)

vars == <<announced, readers, writers>>

Init == announced = {} /\ readers = {} /\ writers = {}

Announce(t) ==
  /\ t \notin announced \cup readers \cup writers
  /\ announced' = announced \cup {t}
  /\ UNCHANGED <<readers, writers>>

StartRead(t) ==
  /\ t \in announced
  /\ writers = {}
  /\ announced' = announced \ {t}
  /\ readers' = readers \cup {t}
  /\ UNCHANGED writers

EndRead(t) ==
  /\ t \in readers
  /\ readers' = readers \ {t}
  /\ UNCHANGED <<announced, writers>>

StartWrite(t) ==
  /\ announced = {} /\ readers = {} /\ writers = {}
  /\ writers' = {t}
  /\ UNCHANGED <<announced, readers>>

EndWrite(t) ==
  /\ writers = {t}
  /\ writers' = {}
  /\ UNCHANGED <<announced, readers>>

Next ==
  \E t \in Threads :
    \/ Announce(t) \/ StartRead(t) \/ EndRead(t)
    \/ StartWrite(t) \/ EndWrite(t)

Spec == Init /\ [][Next]_vars
=============================================================================

------------------------------- MODULE RWLock -------------------------------
(***************************************************************************)
(* rw-lock/rw_lock.h: one 32 bit word, the low half counts the readers     *)
(* that have called Read(), the bit above it is the writer.  Every atomic  *)
(* operation, every wait and every notify_all is one step of a thread; all *)
(* of them are memory_order_seq_cst.                                       *)
(***************************************************************************)
EXTENDS Naturals, FiniteSets

CONSTANT Threads

OneWriter == 65536

(* With 65536 readers in Read() the count would run into the writer's bit. *)
ASSUME ThreadsAssumption ==
  IsFiniteSet(Threads) /\ Cardinality(Threads) < OneWriter

VARIABLES
  atm,
  pc,
  old                 (* the value each thread waits on                    *)

vars == <<atm, pc, old>>

Labels == {"idle", "load", "rwait", "rasleep", "reading",
           "cas", "wwait", "wasleep", "writing", "thrown", "notify"}

Words == 0..(OneWriter + Cardinality(Threads))

TypeOK ==
  /\ atm \in Words
  /\ pc \in [Threads -> Labels]
  /\ old \in [Threads -> Words]

Init ==
  /\ atm = 0
  /\ pc = [t \in Threads |-> "idle"]
  /\ old = [t \in Threads |-> 0]

Goto(t, label) == pc' = [pc EXCEPT ![t] = label]

GetWriters(value) == value \div OneWriter

-----------------------------------------------------------------------------
Read(t) ==
  /\ pc[t] = "idle"
  /\ atm' = atm + 1
  /\ Goto(t, "load")
  /\ UNCHANGED old

Load(t) ==
  /\ pc[t] = "load"
  /\ old' = [old EXCEPT ![t] = atm]
  /\ Goto(t, IF GetWriters(atm) > 0 THEN "rwait" ELSE "reading")
  /\ UNCHANGED atm

(* atm_.wait(old): compares and blocks in one step; whoever is unblocked   *)
(* compares again.                                                         *)
ReadWait(t) ==
  /\ pc[t] = "rwait"
  /\ Goto(t, IF atm = old[t] THEN "rasleep" ELSE "load")
  /\ UNCHANGED <<atm, old>>

MutEndRead(t) ==       \* fetch_sub(1) == 0
  /\ pc[t] = "reading"
  /\ atm' = atm - 1
  /\ Goto(t, IF atm = 0 THEN "notify" ELSE "idle")
  /\ UNCHANGED old

(* func returned or threw: both ways end in EndRead(). *)
EndRead(t) ==
  /\ pc[t] = "reading"
  /\ atm' = atm - 1
  /\ Goto(t, IF atm = 1 THEN "notify" ELSE "idle")
  /\ UNCHANGED old

MutTryWrite(t) ==      \* looks at the writer's bit only
  \/ /\ GetWriters(atm) = 0
     /\ atm' = atm + OneWriter
     /\ Goto(t, "writing")
     /\ UNCHANGED old
  \/ /\ GetWriters(atm) # 0
     /\ old' = [old EXCEPT ![t] = atm]
     /\ Goto(t, "wwait")
     /\ UNCHANGED atm

(* compare_exchange_strong(zero, kOneWriter), zero is what it waits on. *)
TryWrite(t) ==
  \/ /\ atm = 0
     /\ atm' = OneWriter
     /\ Goto(t, "writing")
     /\ UNCHANGED old
  \/ /\ atm # 0
     /\ old' = [old EXCEPT ![t] = atm]
     /\ Goto(t, "wwait")
     /\ UNCHANGED atm

Write(t) == pc[t] = "idle" /\ TryWrite(t)

WriteWait(t) ==
  /\ pc[t] = "wwait"
  /\ Goto(t, IF atm = old[t] THEN "wasleep" ELSE "cas")
  /\ UNCHANGED <<atm, old>>

RetryWrite(t) == pc[t] = "cas" /\ TryWrite(t)

MutEndWrite(t) ==      \* atm_.store(0)
  /\ pc[t] = "writing"
  /\ atm' = 0
  /\ Goto(t, "notify")
  /\ UNCHANGED old

(* fetch_and(0xFFFF): the announced readers stay. *)
EndWrite(t) ==
  /\ pc[t] = "writing"
  /\ atm' = atm % OneWriter
  /\ Goto(t, "notify")
  /\ UNCHANGED old

(* Write() has no try: an exception leaves the writer's bit set, and no    *)
(* thread can clear it any more.                                           *)
WriteThrows(t) ==
  /\ pc[t] = "writing"
  /\ Goto(t, "thrown")
  /\ UNCHANGED <<atm, old>>

(* Unblocked threads are back at the comparison of their wait. *)
Unblocked(label) ==
  CASE label = "rasleep" -> "rwait"
    [] label = "wasleep" -> "wwait"
    [] OTHER -> label

MutNotify(t) ==        \* notify_one()
  /\ pc[t] = "notify"
  /\ \/ /\ \A u \in Threads : pc[u] \notin {"rasleep", "wasleep"}
        /\ Goto(t, "idle")
     \/ \E u \in Threads :
          /\ pc[u] \in {"rasleep", "wasleep"}
          /\ pc' = [pc EXCEPT ![t] = "idle", ![u] = Unblocked(pc[u])]
  /\ UNCHANGED <<atm, old>>

(* atm_.notify_all() *)
Notify(t) ==
  /\ pc[t] = "notify"
  /\ pc' = [u \in Threads |-> IF u = t THEN "idle" ELSE Unblocked(pc[u])]
  /\ UNCHANGED <<atm, old>>

(* atomic::wait may unblock for no reason. *)
Spurious(t) ==
  /\ pc[t] \in {"rasleep", "wasleep"}
  /\ Goto(t, Unblocked(pc[t]))
  /\ UNCHANGED <<atm, old>>

-----------------------------------------------------------------------------
InRead(t) == Load(t) \/ ReadWait(t) \/ EndRead(t)

InWrite(t) == RetryWrite(t) \/ WriteWait(t) \/ EndWrite(t)

Next ==
  \E t \in Threads :
    \/ Read(t) \/ InRead(t)
    \/ Write(t) \/ InWrite(t) \/ WriteThrows(t)
    \/ Notify(t) \/ Spurious(t)

Spec == Init /\ [][Next]_vars

(* A thread inside Read() or Write() runs on, and func ends. *)
FairSpec ==
  Spec /\ \A t \in Threads : WF_vars(InRead(t) \/ InWrite(t) \/ Notify(t))

-----------------------------------------------------------------------------
Announced == {t \in Threads : pc[t] \in {"load", "rwait", "rasleep"}}

Readers == {t \in Threads : pc[t] = "reading"}

Writers == {t \in Threads : pc[t] \in {"writing", "thrown"}}

Thrown == {t \in Threads : pc[t] = "thrown"}

WaitsToWrite(t) == pc[t] \in {"cas", "wwait", "wasleep"}

(* rw-lock/test.cpp "OnlyWritingOrReading": a writer is alone. *)
Exclusion ==
  \A w \in Writers : Readers = {} /\ \A u \in Writers : u = w

(* The word always tells who is in Read() and Write(), also in the windows *)
(* in which a writer leaves while readers announce themselves, and after a *)
(* writer has thrown.                                                      *)
WordCountsUsers ==
  atm = Cardinality(Announced \cup Readers) + OneWriter * Cardinality(Writers)

(* Until a writer throws no wakeup is lost: a blocked reader has a writer  *)
(* that will still call EndWrite, a blocked writer has somebody inside who *)
(* is not blocked, or notify_all is due.                                   *)
WakerComes ==
  \A t \in Threads :
    /\ pc[t] = "rasleep" => \E u \in Threads : pc[u] \in {"writing", "notify"}
    /\ pc[t] = "wasleep" =>
         \E u \in Threads :
           pc[u] \in {"load", "rwait", "reading", "writing", "notify"}

(* After a throw the writer's bit is set and nobody is left to clear it:   *)
(* no reader and no other writer runs, and a wakeup only leads back to the *)
(* wait.                                                                   *)
NobodyEnters ==
  GetWriters(atm) > 0 /\ \A t \in Threads : pc[t] \notin {"reading", "writing"}

SleepersHaveWaker == IF Thrown = {} THEN WakerComes ELSE NobodyEnters

Abstract == INSTANCE AbstractRWLock
  WITH announced <- Announced, readers <- Readers, writers <- Writers

(* A readers-writer lock in which no writer overtakes a reader that has    *)
(* announced itself.                                                       *)
ImplementsRWLock == Abstract!Spec

(* Unless a writer throws, a reader that has called Read() gets to run     *)
(* func, however many writers compete with it.                             *)
ReaderProgress ==
  \A t \in Threads :
    [](Thrown = {}) => (t \in Announced ~> t \in Readers)

(* Writers may starve, but only because of readers: once no reader comes   *)
(* any more, a waiting writer or another one enters.                       *)
WriterProgress ==
  [](Thrown = {}) /\ <>[](Announced \cup Readers = {}) =>
    ((\E t \in Threads : WaitsToWrite(t)) ~> Writers # {})
=============================================================================

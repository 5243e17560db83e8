---------------------------- MODULE RWLockProofs ----------------------------
(***************************************************************************)
(* Proofs about RWLock.tla for every set of fewer than 65536 threads,      *)
(* writers that throw included: the meaning of the word, exclusion, no     *)
(* lost wakeup and the refinement of AbstractRWLock.                       *)
(***************************************************************************)
EXTENDS RWLock, FiniteSetTheorems, TLAPS

Users == Announced \cup Readers

(* What a blocked thread waits on is a reason to wait. *)
WaitsForReason ==
  \A t \in Threads :
    /\ pc[t] \in {"rwait", "rasleep"} => old[t] >= OneWriter
    /\ pc[t] \in {"wwait", "wasleep"} => old[t] # 0

(* As long as nobody throws this is as good as SleepersHaveWaker, and it   *)
(* is kept by every step.                                                  *)
WaitsForSomebody ==
  \A t \in Threads :
    \/ \E u \in Threads : pc[u] = "notify"
    \/ /\ pc[t] = "rasleep" => Writers # {}
       /\ pc[t] = "wasleep" => Announced \cup Readers \cup Writers # {}

IInv ==
  /\ TypeOK
  /\ Exclusion
  /\ WordCountsUsers
  /\ WaitsForReason
  /\ WaitsForSomebody

-----------------------------------------------------------------------------
LEMMA UsersFinite ==
  /\ IsFiniteSet(Users) /\ Cardinality(Users) \in Nat
  /\ Cardinality(Users) <= Cardinality(Threads)
  /\ IsFiniteSet(Writers) /\ Cardinality(Writers) \in Nat
  /\ Cardinality(Threads) \in Nat /\ Cardinality(Threads) < OneWriter
  <1>1. Users \subseteq Threads /\ Writers \subseteq Threads
    BY DEF Users, Announced, Readers, Writers
  <1> QED BY <1>1, ThreadsAssumption, FS_Subset, FS_CardinalityType

LEMMA WriterCount ==
  ASSUME Exclusion
  PROVE  IF Writers = {} THEN Cardinality(Writers) = 0 ELSE Cardinality(Writers) = 1
  <1>1. CASE Writers = {}
    BY <1>1, FS_EmptySet
  <1>2. CASE Writers # {}
    <2>1. PICK w \in Writers : Writers = {w}
      BY <1>2 DEF Exclusion
    <2> QED BY <2>1, <1>2, FS_Singleton
  <1> QED BY <1>1, <1>2

(* How the code reads the word. *)
LEMMA WordMeaning ==
  ASSUME TypeOK, Exclusion, WordCountsUsers
  PROVE  /\ atm = 0 <=> Users = {} /\ Writers = {}
         /\ atm < OneWriter <=> Writers = {}
         /\ GetWriters(atm) > 0 <=> Writers # {}
         /\ Writers = {} => atm = Cardinality(Users)
         /\ Writers # {} => atm = Cardinality(Users) + OneWriter
         /\ atm % OneWriter = Cardinality(Users)
  <1>1. Cardinality(Users) = 0 <=> Users = {}
    BY UsersFinite, FS_EmptySet
  <1>2. atm = Cardinality(Users) + OneWriter * Cardinality(Writers)
    BY DEF WordCountsUsers, Users
  <1>3. CASE Writers = {}
    BY <1>1, <1>2, <1>3, WriterCount, UsersFinite DEF GetWriters, OneWriter
  <1>4. CASE Writers # {}
    BY <1>1, <1>2, <1>4, WriterCount, UsersFinite DEF GetWriters, OneWriter
  <1> QED BY <1>3, <1>4

-----------------------------------------------------------------------------
LEMMA InitIInv == Init => IInv
  <1> SUFFICES ASSUME Init PROVE IInv
    OBVIOUS
  <1>1. Announced \cup Readers = {} /\ Writers = {}
    BY DEF Init, Announced, Readers, Writers
  <1>2. TypeOK
    BY UsersFinite DEF Init, TypeOK, Labels, Words, OneWriter
  <1>3. WordCountsUsers
    BY <1>1, FS_EmptySet DEF Init, WordCountsUsers, OneWriter
  <1>4. Exclusion /\ WaitsForReason /\ WaitsForSomebody
    BY <1>1 DEF Init, Exclusion, WaitsForReason, WaitsForSomebody
  <1> QED BY <1>2, <1>3, <1>4 DEF IInv

(* The steps that move no thread into or out of Read() or Write() and do   *)
(* not touch the word. *)
LEMMA WordKept ==
  ASSUME TypeOK, WordCountsUsers, Exclusion,
         UNCHANGED atm, Users' = Users, Writers' = Writers,
         Readers' = Readers \/ Writers = {}
  PROVE  WordCountsUsers' /\ Exclusion' /\ atm' \in Words
  <1>1. Exclusion'
    BY DEF Exclusion
  <1> QED BY <1>1 DEF TypeOK, WordCountsUsers, Users

LEMMA ReadIInv ==
  ASSUME IInv, NEW t \in Threads, Read(t)
  PROVE  IInv'
  <1> USE DEF IInv
  <1>1. /\ t \notin Users /\ Users' = Users \cup {t}
        /\ Writers' = Writers /\ Readers' = Readers
    BY DEF Read, Goto, TypeOK, Users, Announced, Readers, Writers
  <1>2. Cardinality(Users') = Cardinality(Users) + 1
    BY <1>1, UsersFinite, FS_AddElement
  <1>3. Exclusion'
    BY <1>1 DEF Exclusion
  <1>4. atm' \in Words
    <2>1. Users' \subseteq Threads
      BY <1>1 DEF Users, Announced, Readers
    <2>2. Cardinality(Users') <= Cardinality(Threads)
      BY <2>1, ThreadsAssumption, FS_Subset
    <2> QED BY <1>2, <2>2, WordMeaning, UsersFinite DEF Read, Words, OneWriter
  <1>5. WordCountsUsers'
    BY <1>1, <1>2, WriterCount, UsersFinite
    DEF Read, WordCountsUsers, Users, OneWriter
  <1>6. TypeOK' /\ WaitsForReason'
    BY <1>4 DEF Read, Goto, TypeOK, Labels, WaitsForReason
  <1>7. WaitsForSomebody'
    BY <1>1 DEF Read, Goto, TypeOK, WaitsForSomebody, Users
  <1> QED BY <1>3, <1>5, <1>6, <1>7

LEMMA InReadIInv ==
  ASSUME IInv, NEW t \in Threads, Load(t) \/ ReadWait(t)
  PROVE  IInv'
  <1> USE DEF IInv
  <1>1. Users' = Users /\ Writers' = Writers
    BY DEF Load, ReadWait, Goto, TypeOK, Users, Announced, Readers, Writers
  <1>2. Readers' = Readers \/ Writers = {}
    BY WordMeaning DEF Load, ReadWait, Goto, TypeOK, Readers
  <1>3. WordCountsUsers' /\ Exclusion' /\ atm' \in Words
    BY <1>1, <1>2, WordKept DEF Load, ReadWait
  <1>4. TypeOK'
    BY <1>3 DEF Load, ReadWait, Goto, TypeOK, Labels
  <1>5. WaitsForReason'
    <2>1. CASE Load(t)
      <3>1. pc'[t] = "rwait" => old'[t] >= OneWriter
        BY <2>1, WordMeaning DEF Load, Goto, TypeOK, Words, OneWriter
      <3> QED BY <2>1, <3>1 DEF Load, Goto, TypeOK, WaitsForReason
    <2>2. CASE ReadWait(t)
      BY <2>2 DEF ReadWait, Goto, TypeOK, WaitsForReason
    <2> QED BY <2>1, <2>2
  <1>6. WaitsForSomebody'
    <2>1. pc'[t] = "rasleep" => Writers # {}
      BY WordMeaning DEF Load, ReadWait, Goto, TypeOK, WaitsForReason, Words, OneWriter
    <2> QED
      BY <1>1, <2>1 DEF Load, ReadWait, Goto, TypeOK, WaitsForSomebody, Users
  <1> QED BY <1>3, <1>4, <1>5, <1>6

LEMMA EndReadIInv ==
  ASSUME IInv, NEW t \in Threads, EndRead(t)
  PROVE  IInv'
  <1> USE DEF IInv
  <1>1. /\ t \in Users /\ t \in Readers /\ Users' = Users \ {t}
        /\ Writers' = Writers /\ Readers' = Readers \ {t}
    BY DEF EndRead, Goto, TypeOK, Users, Announced, Readers, Writers
  <1>2. Writers = {}
    BY <1>1 DEF Exclusion
  <1>3. Cardinality(Users') = Cardinality(Users) - 1 /\ Cardinality(Users) # 0
    BY <1>1, UsersFinite, FS_RemoveElement, FS_EmptySet
  <1>4. atm' \in Words /\ atm' = Cardinality(Users') /\ atm = Cardinality(Users)
    BY <1>2, <1>3, WordMeaning, UsersFinite DEF EndRead, Words, OneWriter
  <1>5. Exclusion' /\ WordCountsUsers'
    BY <1>1, <1>2, <1>4, FS_EmptySet, UsersFinite
    DEF Exclusion, WordCountsUsers, Users, OneWriter
  <1>6. TypeOK' /\ WaitsForReason'
    BY <1>4 DEF EndRead, Goto, TypeOK, Labels, WaitsForReason
  <1>7. WaitsForSomebody'
    <2>1. CASE atm = 1
      BY <2>1 DEF EndRead, Goto, TypeOK, WaitsForSomebody
    <2>2. CASE atm # 1
      <3>1. Users' # {}
        BY <1>3, <1>4, <2>2, FS_EmptySet, UsersFinite
      <3> QED
        BY <1>1, <1>2, <3>1 DEF EndRead, Goto, TypeOK, WaitsForSomebody, Users
    <2> QED BY <2>1, <2>2
  <1> QED BY <1>5, <1>6, <1>7

LEMMA TryWriteIInv ==
  ASSUME IInv, NEW t \in Threads, Write(t) \/ RetryWrite(t)
  PROVE  IInv'
  <1> USE DEF IInv, Write, RetryWrite, TryWrite
  <1>1. CASE atm = 0
    <2>1. Users = {} /\ Writers = {}
      BY <1>1, WordMeaning
    <2>2. Users' = {} /\ Writers' = {t} /\ Readers' = {}
      BY <1>1, <2>1 DEF Goto, TypeOK, Users, Announced, Readers, Writers
    <2>3. Exclusion' /\ WaitsForSomebody'
      BY <2>2 DEF Exclusion, WaitsForSomebody
    <2>4. WordCountsUsers'
      <3>1. Cardinality(Users') = 0 /\ Cardinality(Writers') = 1
        BY <2>2, FS_EmptySet, FS_Singleton
      <3> QED BY <1>1, <3>1 DEF WordCountsUsers, Users, OneWriter
    <2>5. TypeOK' /\ WaitsForReason'
      BY <1>1, UsersFinite DEF Goto, TypeOK, Labels, Words, OneWriter, WaitsForReason
    <2> QED BY <2>3, <2>4, <2>5
  <1>2. CASE atm # 0
    <2>1. Users' = Users /\ Writers' = Writers /\ Readers' = Readers
      BY <1>2 DEF Goto, TypeOK, Users, Announced, Readers, Writers
    <2>2. WordCountsUsers' /\ Exclusion' /\ atm' \in Words
      BY <1>2, <2>1, WordKept
    <2>3. TypeOK' /\ WaitsForReason'
      BY <1>2, <2>2 DEF Goto, TypeOK, Labels, WaitsForReason
    <2>4. WaitsForSomebody'
      BY <1>2, <2>1 DEF Goto, TypeOK, WaitsForSomebody, Users
    <2> QED BY <2>2, <2>3, <2>4
  <1> QED BY <1>1, <1>2

LEMMA WriteWaitIInv ==
  ASSUME IInv, NEW t \in Threads, WriteWait(t)
  PROVE  IInv'
  <1> USE DEF IInv
  <1>1. Users' = Users /\ Writers' = Writers /\ Readers' = Readers
    BY DEF WriteWait, Goto, TypeOK, Users, Announced, Readers, Writers
  <1>2. WordCountsUsers' /\ Exclusion' /\ atm' \in Words
    BY <1>1, WordKept DEF WriteWait
  <1>3. TypeOK' /\ WaitsForReason'
    BY <1>2 DEF WriteWait, Goto, TypeOK, Labels, WaitsForReason
  <1>4. pc'[t] = "wasleep" => Users \cup Writers # {}
    BY WordMeaning DEF WriteWait, Goto, TypeOK, WaitsForReason
  <1>5. WaitsForSomebody'
    BY <1>1, <1>4 DEF WriteWait, Goto, TypeOK, WaitsForSomebody, Users
  <1> QED BY <1>2, <1>3, <1>5

LEMMA EndWriteIInv ==
  ASSUME IInv, NEW t \in Threads, EndWrite(t) \/ WriteThrows(t)
  PROVE  IInv'
  <1> USE DEF IInv
  <1>1. t \in Writers /\ Writers = {t} /\ Readers = {} /\ Users' = Users
        /\ Readers' = Readers
    BY DEF EndWrite, WriteThrows, Goto, TypeOK, Users, Announced, Readers,
           Writers, Exclusion
  <1>2. CASE EndWrite(t)
    <2>1. Writers' = {}
      BY <1>1, <1>2 DEF EndWrite, Goto, TypeOK, Writers
    <2>2. atm' = Cardinality(Users)
      BY <1>2, WordMeaning DEF EndWrite
    <2>3. Exclusion' /\ WordCountsUsers' /\ atm' \in Words
      BY <1>1, <2>1, <2>2, FS_EmptySet, UsersFinite
      DEF Exclusion, WordCountsUsers, Words, Users, OneWriter
    <2>4. TypeOK' /\ WaitsForReason' /\ WaitsForSomebody'
      BY <1>2, <2>3
      DEF EndWrite, Goto, TypeOK, Labels, WaitsForReason, WaitsForSomebody
    <2> QED BY <2>3, <2>4
  <1>3. CASE WriteThrows(t)
    <2>1. Writers' = Writers
      BY <1>1, <1>3 DEF WriteThrows, Goto, TypeOK, Writers
    <2>2. WordCountsUsers' /\ Exclusion' /\ atm' \in Words
      BY <1>1, <1>3, <2>1, WordKept DEF WriteThrows
    <2>3. TypeOK' /\ WaitsForReason'
      BY <1>3, <2>2 DEF WriteThrows, Goto, TypeOK, Labels, WaitsForReason
    <2>4. WaitsForSomebody'
      BY <1>1, <2>1 DEF WaitsForSomebody
    <2> QED BY <2>2, <2>3, <2>4
  <1> QED BY <1>2, <1>3

LEMMA NotifyIInv ==
  ASSUME IInv, NEW t \in Threads, Notify(t) \/ Spurious(t)
  PROVE  IInv'
  <1> USE DEF IInv, Notify, Spurious, Goto, Unblocked
  <1>1. Users' = Users /\ Writers' = Writers /\ Readers' = Readers
    BY DEF TypeOK, Labels, Users, Announced, Readers, Writers
  <1>2. WordCountsUsers' /\ Exclusion' /\ atm' \in Words
    BY <1>1, WordKept
  <1>3. TypeOK' /\ WaitsForReason'
    BY <1>2 DEF TypeOK, Labels, WaitsForReason
  <1>4. WaitsForSomebody'
    BY <1>1 DEF TypeOK, Labels, WaitsForSomebody, Users
  <1> QED BY <1>2, <1>3, <1>4

LEMMA StepIInv == IInv /\ [Next]_vars => IInv'
  <1> SUFFICES ASSUME IInv, [Next]_vars PROVE IInv'
    OBVIOUS
  <1>1. CASE UNCHANGED vars
    BY <1>1 DEF vars, IInv, TypeOK, Exclusion, WordCountsUsers, WaitsForReason,
                WaitsForSomebody, Announced, Readers, Writers
  <1> QED
    BY <1>1, ReadIInv, InReadIInv, EndReadIInv, TryWriteIInv, WriteWaitIInv,
       EndWriteIInv, NotifyIInv
    DEF Next, InRead, InWrite

(* The invariant the other results rest on. *)
THEOREM Invariance == Spec => []IInv
  BY InitIInv, StepIInv, PTL DEF Spec

(* The word never leaves the range of one writer and all the threads. *)
THEOREM TypeCorrect == Spec => []TypeOK
  <1>1. IInv => TypeOK
    BY DEF IInv
  <1> QED BY <1>1, Invariance, PTL

(* A writer, also one that has thrown, is alone. *)
THEOREM WriterAlone == Spec => []Exclusion
  <1>1. IInv => Exclusion
    BY DEF IInv
  <1> QED BY <1>1, Invariance, PTL

(* The word counts the readers and the writer in every state. *)
THEOREM WordExact == Spec => []WordCountsUsers
  <1>1. IInv => WordCountsUsers
    BY DEF IInv
  <1> QED BY <1>1, Invariance, PTL

LEMMA WakerKept == IInv /\ Thrown = {} => WakerComes
  <1> SUFFICES ASSUME IInv, Thrown = {} PROVE WakerComes
    OBVIOUS
  <1> DEFINE Live == \E u \in Threads : pc[u] \in {"writing", "notify"}
  <1>1. Writers # {} => Live
    BY DEF Writers, Thrown
  <1>2. ASSUME NEW t \in Threads, pc[t] = "rasleep" PROVE Live
    BY <1>1, <1>2 DEF IInv, WaitsForSomebody
  <1>3. ASSUME NEW t \in Threads, pc[t] = "wasleep"
        PROVE  \E u \in Threads :
                 pc[u] \in {"load", "rwait", "reading", "writing", "notify"}
    <2>1. Live \/ Announced \cup Readers # {}
      BY <1>1, <1>3 DEF IInv, WaitsForSomebody
    <2>2. CASE Live
      BY <2>2
    <2>3. CASE Announced \cup Readers # {}
      <3>1. PICK u \in Threads : pc[u] \in {"load", "rwait", "rasleep", "reading"}
        BY <2>3 DEF Announced, Readers
      <3> QED BY <3>1, <1>2
    <2> QED BY <2>1, <2>2, <2>3
  <1> QED BY <1>2, <1>3 DEF WakerComes

LEMMA ThrownStays == IInv /\ Thrown # {} => NobodyEnters
  <1> SUFFICES ASSUME IInv, Thrown # {} PROVE NobodyEnters
    OBVIOUS
  <1>1. PICK w \in Threads : pc[w] = "thrown"
    BY DEF Thrown
  <1>2. w \in Writers
    BY <1>1 DEF Writers
  <1>3. GetWriters(atm) > 0
    BY <1>2, WordMeaning DEF IInv
  <1>4. ASSUME NEW t \in Threads PROVE pc[t] \notin {"reading", "writing"}
    BY <1>1, <1>2 DEF IInv, Exclusion, Readers, Writers
  <1> QED BY <1>3, <1>4 DEF NobodyEnters

(* Until a writer throws nobody blocks without a thread that is awake and  *)
(* will call notify_all; after a throw nobody enters any more.             *)
THEOREM NoLostWakeup == Spec => []SleepersHaveWaker
  <1>1. IInv => SleepersHaveWaker
    BY WakerKept, ThrownStays DEF SleepersHaveWaker
  <1> QED BY <1>1, Invariance, PTL

-----------------------------------------------------------------------------
LEMMA InitRefines == Init => Abstract!Init
  BY DEF Init, Abstract!Init, Announced, Readers, Writers

LEMMA StepRefines == IInv /\ [Next]_vars => [Abstract!Next]_(Abstract!vars)
  <1> SUFFICES ASSUME IInv, [Next]_vars PROVE [Abstract!Next]_(Abstract!vars)
    OBVIOUS
  <1> USE DEF IInv, TypeOK, Labels, Goto, Announced, Readers, Writers
  <1>1. CASE UNCHANGED vars
    BY <1>1 DEF vars, Abstract!vars
  <1>2. ASSUME NEW t \in Threads, Read(t) PROVE Abstract!Announce(t)
    BY <1>2 DEF Read, Abstract!Announce
  <1>3. ASSUME NEW t \in Threads, Load(t)
        PROVE  Abstract!StartRead(t) \/ UNCHANGED Abstract!vars
    <2>1. CASE GetWriters(atm) > 0
      BY <1>3, <2>1 DEF Load, Abstract!vars
    <2>2. CASE ~(GetWriters(atm) > 0)
      <3>1. Writers = {}
        BY <2>2, WordMeaning
      <3> QED BY <1>3, <2>2, <3>1 DEF Load, Abstract!StartRead
    <2> QED BY <2>1, <2>2
  <1>4. ASSUME NEW t \in Threads, EndRead(t) PROVE Abstract!EndRead(t)
    BY <1>4 DEF EndRead, Abstract!EndRead
  <1>5. ASSUME NEW t \in Threads, Write(t) \/ RetryWrite(t)
        PROVE  Abstract!StartWrite(t) \/ UNCHANGED Abstract!vars
    <2>1. CASE atm # 0
      BY <1>5, <2>1 DEF Write, RetryWrite, TryWrite, Abstract!vars
    <2>2. CASE atm = 0
      <3>1. Users = {} /\ Writers = {}
        BY <2>2, WordMeaning
      <3>2. Announced = {} /\ Readers = {}
        BY <3>1 DEF Users
      <3> QED BY <1>5, <2>2, <3>1, <3>2
              DEF Write, RetryWrite, TryWrite, Abstract!StartWrite
    <2> QED BY <2>1, <2>2
  <1>6. ASSUME NEW t \in Threads, EndWrite(t) PROVE Abstract!EndWrite(t)
    <2>1. Writers = {t}
      BY <1>6 DEF EndWrite, Exclusion
    <2> QED BY <1>6, <2>1 DEF EndWrite, Abstract!EndWrite
  <1>7. ASSUME NEW t \in Threads,
               ReadWait(t) \/ WriteWait(t) \/ WriteThrows(t)
        PROVE  UNCHANGED Abstract!vars
    BY <1>7 DEF ReadWait, WriteWait, WriteThrows, Abstract!vars
  <1>8. ASSUME NEW t \in Threads, Notify(t) \/ Spurious(t)
        PROVE  UNCHANGED Abstract!vars
    BY <1>8 DEF Notify, Spurious, Unblocked, Abstract!vars
  <1> QED
    BY <1>1, <1>2, <1>3, <1>4, <1>5, <1>6, <1>7, <1>8
    DEF Next, InRead, InWrite, Abstract!Next

(* rw_lock.h is a readers-writer lock that prefers readers. *)
THEOREM RWLockRefinement == Spec => ImplementsRWLock
  BY InitRefines, StepRefines, Invariance, PTL
  DEF Spec, ImplementsRWLock, Abstract!Spec
=============================================================================

----------------------------- MODULE MutexProofs -----------------------------
(***************************************************************************)
(* Proofs about Mutex.tla for every set of threads: the safety invariants  *)
(* of mutex/mutex.h and the refinement of AbstractLock.                    *)
(***************************************************************************)
EXTENDS Mutex, TLAPS

(* The lock word is 0 exactly while nobody owns the mutex. *)
WordTellsOwner == locked = 0 <=> \A t \in Threads : ~Owns(t)

(* An owner has seen the last access; a free word carries that access to   *)
(* the next acquire, or everyone has seen it already.                      *)
OwnerHasSeen == \A t \in Threads : Owns(t) => t \in seen

FreeWordCarries == locked = 0 => carried \/ seen = Threads

IInv ==
  /\ TypeOK
  /\ MutualExclusion
  /\ WordTellsOwner
  /\ OwnerHasSeen
  /\ FreeWordCarries
  /\ SleeperHasWaker

Step(t) == Lock(t) \/ InLock(t) \/ Interrupted(t) \/ Use(t) \/ InUnlock(t)

-----------------------------------------------------------------------------
LEMMA InitIInv == Init => IInv
  <1> SUFFICES ASSUME Init PROVE IInv
    OBVIOUS
  <1>1. TypeOK
    <2>1. carried \in BOOLEAN
      BY Zenon DEF Init
    <2> QED BY <2>1 DEF Init, TypeOK, Labels
  <1>2. MutualExclusion /\ WordTellsOwner /\ OwnerHasSeen /\ SleeperHasWaker
    BY DEF Init, MutualExclusion, WordTellsOwner, Owns, OwnerHasSeen,
           SleeperHasWaker, Asleep
  <1>3. FreeWordCarries
    BY DEF Init, FreeWordCarries
  <1> QED BY <1>1, <1>2, <1>3 DEF IInv

(* A compare_exchange that fails only moves the thread. *)
LEMMA TryLockIInv ==
  ASSUME IInv, NEW t \in Threads, NEW won, NEW lost,
         pc[t] \in {"idle", "retry"},
         won \in {"locked", "mark"}, lost = "exchange",
         pc[t] = "retry" => won = "mark",
         TryLock(t, won, lost)
  PROVE  IInv'
  <1> USE DEF IInv, TypeOK, Labels
  <1>1. CASE /\ locked = 0 /\ locked' = 1
             /\ AcquireView(t) /\ Goto(t, won) /\ UNCHANGED carried
    <2> USE <1>1 DEF Goto, AcquireView
    <2>1. \A u \in Threads : ~Owns(u)
      BY DEF WordTellsOwner
    <2>2. \A u \in Threads : Owns(u)' => u = t
      BY <2>1 DEF Owns
    <2>3. Owns(t)' /\ t \in seen'
      BY <2>1 DEF Owns, FreeWordCarries
    <2>4. TypeOK' /\ MutualExclusion' /\ OwnerHasSeen' /\ FreeWordCarries'
      BY <2>2, <2>3 DEF MutualExclusion, OwnerHasSeen, FreeWordCarries
    <2>5. WordTellsOwner'
      BY <2>3 DEF WordTellsOwner
    <2>6. SleeperHasWaker'
      BY <2>1 DEF SleeperHasWaker, Asleep, Owns
    <2> QED BY <2>4, <2>5, <2>6
  <1>2. CASE Goto(t, lost) /\ UNCHANGED <<locked, seen, carried>>
    BY <1>2 DEF Goto, MutualExclusion, WordTellsOwner, Owns, OwnerHasSeen,
                FreeWordCarries, SleeperHasWaker, Asleep
  <1> QED BY <1>1, <1>2 DEF TryLock

LEMMA ExchangeIInv ==
  ASSUME IInv, NEW t \in Threads, Exchange(t)
  PROVE  IInv'
  <1> USE DEF IInv, TypeOK, Labels, Exchange, Goto, AcquireView
  <1>1. CASE locked = 0
    <2>1. \A u \in Threads : Owns(u)' <=> u = t
      BY <1>1 DEF WordTellsOwner, Owns
    <2>2. t \in seen'
      BY <1>1 DEF FreeWordCarries
    <2>3. SleeperHasWaker'
      BY <1>1 DEF SleeperHasWaker
    <2> QED
      BY <1>1, <2>1, <2>2, <2>3
      DEF MutualExclusion, WordTellsOwner, OwnerHasSeen, FreeWordCarries
  <1>2. CASE locked # 0
    <2>1. \A u \in Threads : Owns(u)' <=> Owns(u)
      BY <1>2 DEF Owns
    <2>2. PICK o \in Threads : Owns(o)
      BY <1>2 DEF WordTellsOwner
    <2>3. pc'[o] \in {"mark", "reset", "locked", "used"} /\ locked' = 2
      BY <2>1, <2>2 DEF Owns
    <2>4. SleeperHasWaker'
      BY <2>3 DEF SleeperHasWaker
    <2> QED
      BY <1>2, <2>1, <2>2, <2>4
      DEF MutualExclusion, WordTellsOwner, OwnerHasSeen, FreeWordCarries
  <1> QED BY <1>1, <1>2

LEMMA FutexWaitIInv ==
  ASSUME IInv, NEW t \in Threads, FutexWait(t) \/ Interrupted(t)
  PROVE  IInv'
  <1> USE DEF IInv, TypeOK, Labels, FutexWait, Interrupted, Goto
  <1>1. \A u \in Threads : Owns(u)' <=> Owns(u)
    BY DEF Owns
  <1>2. TypeOK' /\ MutualExclusion' /\ WordTellsOwner' /\ OwnerHasSeen'
                /\ FreeWordCarries'
    BY <1>1 DEF MutualExclusion, WordTellsOwner, OwnerHasSeen, FreeWordCarries
  <1>3. SleeperHasWaker'
    <2>1. CASE pc'[t] = "retry"
      BY <2>1 DEF SleeperHasWaker
    <2>2. CASE pc'[t] = "asleep"
      <3>1. locked = 2 /\ locked' = 2
        BY <2>2
      <3>2. PICK o \in Threads : Owns(o)
        BY <3>1 DEF WordTellsOwner
      <3> QED BY <1>1, <3>1, <3>2 DEF SleeperHasWaker, Owns
    <2> QED BY <2>1, <2>2
  <1> QED BY <1>2, <1>3

LEMMA CriticalIInv ==
  ASSUME IInv, NEW t \in Threads, Mark(t) \/ Use(t)
  PROVE  IInv'
  <1> USE DEF IInv, TypeOK, Labels, Mark, Use, Goto
  <1>1. Owns(t) /\ \A u \in Threads : Owns(u)' <=> Owns(u)
    BY DEF Owns
  <1>2. locked # 0 /\ locked' # 0
    BY <1>1 DEF WordTellsOwner
  <1>3. TypeOK'
    <2>1. carried' = FALSE
      OBVIOUS
    <2>2. carried' \in BOOLEAN
      BY <2>1, Zenon
    <2> QED BY <2>2
  <1>4. MutualExclusion' /\ WordTellsOwner' /\ FreeWordCarries'
    BY <1>1, <1>2 DEF MutualExclusion, WordTellsOwner, FreeWordCarries
  <1>5. OwnerHasSeen'
    BY <1>1 DEF MutualExclusion, OwnerHasSeen
  <1>6. SleeperHasWaker'
    BY DEF SleeperHasWaker, Asleep
  <1> QED BY <1>3, <1>4, <1>5, <1>6

LEMMA UnlockIInv ==
  ASSUME IInv, NEW t \in Threads, InUnlock(t)
  PROVE  IInv'
  <1> USE DEF IInv, TypeOK, Labels, InUnlock, Goto
  <1>1. CASE Unlock(t)
    <2> USE <1>1 DEF Unlock
    <2>1. Owns(t) /\ t \in seen /\ \A u \in Threads : Owns(u) => u = t
      BY DEF Owns, MutualExclusion, OwnerHasSeen
    <2>2. locked \in {1, 2}
      BY <2>1 DEF WordTellsOwner
    <2>3. carried' = TRUE
      BY <2>1
    <2>4. CASE locked = 1
      <3>1. locked' = 0 /\ \A u \in Threads : ~Owns(u)'
        BY <2>1, <2>4 DEF Owns
      <3>2. SleeperHasWaker'
        BY <2>1, <2>4, <3>1 DEF SleeperHasWaker, Asleep, Owns
      <3> QED
        BY <2>3, <3>1, <3>2
        DEF MutualExclusion, WordTellsOwner, OwnerHasSeen, FreeWordCarries, Owns
    <2>5. CASE locked = 2
      <3>1. locked' = 1 /\ \A u \in Threads : Owns(u)' <=> Owns(u)
        BY <2>5 DEF Owns
      <3>2. SleeperHasWaker'
        BY <2>5 DEF SleeperHasWaker
      <3> QED
        BY <2>1, <2>3, <3>1, <3>2
        DEF MutualExclusion, WordTellsOwner, OwnerHasSeen, FreeWordCarries
    <2> QED BY <2>2, <2>4, <2>5
  <1>2. CASE Reset(t)
    <2> USE <1>2 DEF Reset
    <2>1. Owns(t) /\ t \in seen /\ \A u \in Threads : Owns(u) => u = t
      BY DEF Owns, MutualExclusion, OwnerHasSeen
    <2>2. \A u \in Threads : ~Owns(u)'
      BY <2>1 DEF Owns
    <2>3. SleeperHasWaker'
      BY DEF SleeperHasWaker
    <2>4. carried' = TRUE
      BY <2>1
    <2>5. TypeOK' /\ FreeWordCarries'
      BY <2>4 DEF FreeWordCarries
    <2> QED
      BY <2>2, <2>3, <2>5 DEF MutualExclusion, WordTellsOwner, OwnerHasSeen
  <1>3. CASE FutexWake(t)
    <2> USE <1>3 DEF FutexWake
    <2>1. \A u \in Threads : Owns(u)' <=> Owns(u)
      BY DEF Owns, Asleep
    <2>2. TypeOK' /\ MutualExclusion' /\ WordTellsOwner' /\ OwnerHasSeen'
                  /\ FreeWordCarries'
      BY <2>1 DEF MutualExclusion, WordTellsOwner, OwnerHasSeen, FreeWordCarries, Asleep
    <2>3. SleeperHasWaker'
      <3>1. CASE Asleep = {} /\ Goto(t, "idle")
        BY <3>1 DEF SleeperHasWaker, Asleep
      <3>2. CASE \E u \in Asleep : pc' = [pc EXCEPT ![t] = "idle", ![u] = "retry"]
        BY <3>2 DEF SleeperHasWaker, Asleep
      <3> QED BY <3>1, <3>2
    <2> QED BY <2>2, <2>3
  <1> QED BY <1>1, <1>2, <1>3

LEMMA StepIInv == IInv /\ [Next]_vars => IInv'
  <1> SUFFICES ASSUME IInv, [Next]_vars PROVE IInv'
    OBVIOUS
  <1>1. CASE UNCHANGED vars
    BY <1>1 DEF vars, IInv, TypeOK, MutualExclusion, WordTellsOwner, Owns,
                OwnerHasSeen, FreeWordCarries, SleeperHasWaker, Asleep
  <1>2. ASSUME NEW t \in Threads, Step(t) PROVE IInv'
    <2>1. CASE Lock(t)
      BY <2>1, TryLockIInv DEF Lock
    <2>2. CASE Retry(t)
      BY <2>2, TryLockIInv DEF Retry
    <2>3. CASE Exchange(t)
      BY <2>3, ExchangeIInv
    <2>4. CASE FutexWait(t) \/ Interrupted(t)
      BY <2>4, FutexWaitIInv
    <2>5. CASE Mark(t) \/ Use(t)
      BY <2>5, CriticalIInv
    <2>6. CASE InUnlock(t)
      BY <2>6, UnlockIInv
    <2> QED BY <1>2, <2>1, <2>2, <2>3, <2>4, <2>5, <2>6 DEF Step, InLock
  <1> QED BY <1>1, <1>2 DEF Next, Step

(* The invariant the other results rest on. *)
THEOREM Invariance == Spec => []IInv
  BY InitIInv, StepIInv, PTL DEF Spec

(* locked is 0, 1 or 2 for ever: fetch_sub never finds 0.                  *)
THEOREM TypeCorrect == Spec => []TypeOK
  <1>1. IInv => TypeOK
    BY DEF IInv
  <1> QED BY <1>1, Invariance, PTL

(* At most one thread is between the end of Lock() and the end of the      *)
(* stores of Unlock().                                                     *)
THEOREM Exclusion == Spec => []MutualExclusion
  <1>1. IInv => MutualExclusion
    BY DEF IInv
  <1> QED BY <1>1, Invariance, PTL

(* The acquire and release orders of mutex.h are enough: the thread in the *)
(* critical section happens after the previous access.                     *)
THEOREM DataRaceFree == Spec => []NoDataRace
  <1>1. IInv => NoDataRace
    BY DEF IInv, OwnerHasSeen, NoDataRace, Owns
  <1> QED BY <1>1, Invariance, PTL

(* No sleeper is forgotten by every other thread. *)
THEOREM NoLostWakeup == Spec => []SleeperHasWaker
  <1>1. IInv => SleeperHasWaker
    BY DEF IInv
  <1> QED BY <1>1, Invariance, PTL

-----------------------------------------------------------------------------
LEMMA InitRefines == Init => Abstract!Init
  BY DEF Init, Abstract!Init, Owns, Parked

LEMMA StepRefines == IInv /\ [Next]_vars => [Abstract!Next]_(Abstract!vars)
  <1> SUFFICES ASSUME IInv, [Next]_vars PROVE [Abstract!Next]_(Abstract!vars)
    OBVIOUS
  <1> DEFINE owners == {t \in Threads : Owns(t)}
             parked == {t \in Threads : Parked(t)}
  <1>1. CASE UNCHANGED vars
    BY <1>1 DEF vars, Abstract!vars, Owns, Parked
  <1>2. ASSUME NEW t \in Threads, Step(t) PROVE [Abstract!Next]_(Abstract!vars)
    <2> USE DEF IInv, TypeOK, Labels
    (* A thread that gains the mutex finds 0 in the word. *)
    <2>1. ASSUME locked = 0, NEW label \in {"mark", "locked"}, Goto(t, label)
          PROVE  Abstract!Acquire(t)
      <3>1. owners = {}
        BY <2>1 DEF WordTellsOwner
      <3>2. owners' = {t}
        BY <2>1, <3>1 DEF Goto, Owns
      <3>3. parked' = parked \ {t}
        BY <2>1 DEF Goto, Parked
      <3> QED BY <3>1, <3>2, <3>3 DEF Abstract!Acquire
    (* A thread that gives it back owned it alone. *)
    <2>2. ASSUME Owns(t), NEW label \in {"idle", "wake"}, Goto(t, label)
          PROVE  Abstract!Release(t)
      <3>1. owners = {t}
        BY <2>2 DEF MutualExclusion
      <3>2. owners' = {} /\ parked' = parked
        BY <2>2, <3>1 DEF Goto, Owns, Parked
      <3> QED BY <3>1, <3>2 DEF Abstract!Release
    <2>3. CASE Lock(t)
      <3>1. CASE Goto(t, "exchange") /\ pc[t] = "idle"
        <4>1. t \notin owners \cup parked /\ owners' = owners
                                          /\ parked' = parked \cup {t}
          BY <3>1 DEF Goto, Owns, Parked
        <4> QED BY <4>1 DEF Abstract!Next, Abstract!Request
      <3> QED BY <2>1, <2>3, <3>1 DEF Lock, TryLock, Abstract!Next
    <2>4. CASE Exchange(t) \/ Retry(t)
      <3>1. CASE Goto(t, "wait") \/ Goto(t, "exchange")
        BY <2>4, <3>1 DEF Exchange, Retry, Goto, Owns, Parked, Abstract!vars
      <3> QED BY <2>1, <2>4, <3>1 DEF Exchange, Retry, TryLock, Abstract!Next
    <2>5. CASE FutexWait(t) \/ Interrupted(t) \/ Mark(t) \/ Use(t)
      BY <2>5 DEF FutexWait, Interrupted, Mark, Use, Goto, Owns, Parked, Abstract!vars
    <2>6. CASE Unlock(t) \/ Reset(t)
      <3>1. CASE Goto(t, "reset")
        BY <2>6, <3>1 DEF Unlock, Reset, Goto, Owns, Parked, Abstract!vars
      <3> QED BY <2>2, <2>6, <3>1 DEF Unlock, Reset, Owns, Abstract!Next
    <2>7. CASE FutexWake(t)
      BY <2>7 DEF FutexWake, Asleep, Goto, Owns, Parked, Abstract!vars
    <2> QED BY <1>2, <2>3, <2>4, <2>5, <2>6, <2>7 DEF Step, InLock, InUnlock
  <1> QED BY <1>1, <1>2 DEF Next, Step

(* mutex.h implements the abstract lock. *)
THEOREM LockRefinement == Spec => ImplementsLock
  BY InitRefines, StepRefines, Invariance, PTL
  DEF Spec, ImplementsLock, Abstract!Spec
=============================================================================

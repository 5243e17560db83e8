--------------------------- MODULE SpinLockProofs ---------------------------
(***************************************************************************)
(* Proofs about SpinLock.tla for every set of threads and every number of  *)
(* polls: the safety invariants of spinlock/spinlock.h and the refinement  *)
(* of AbstractLock.                                                        *)
(***************************************************************************)
EXTENDS SpinLock, TLAPS

(* locked_ is set exactly while somebody owns the lock. *)
FlagTellsOwner == locked <=> \E t \in Threads : Owns(t)

(* A clear flag carries the last access to the next exchange. *)
OwnerHasSeen == \A t \in Threads : Owns(t) => t \in seen

FreeFlagCarries == ~locked => carried \/ seen = Threads

Order == FlagTellsOwner /\ OwnerHasSeen /\ FreeFlagCarries

IInv == TypeOK /\ MutualExclusion /\ Order

Step(t) == Lock(t) \/ InLock(t) \/ Use(t) \/ Unlock(t)

-----------------------------------------------------------------------------
LEMMA InitIInv == Init => IInv
  <1> SUFFICES ASSUME Init PROVE IInv
    OBVIOUS
  <1>1. locked \in BOOLEAN /\ carried \in BOOLEAN
    BY Zenon DEF Init
  <1>2. /\ pc \in [Threads -> Labels] /\ seen \in SUBSET Threads
        /\ num_tries \in [Threads -> 0..MaxNumTries]
        /\ \A t \in Threads : num_tries[t] = MaxNumTries => pc[t] = "yield"
    BY MaxNumTriesAssumption DEF Init, Labels
  <1>3. MutualExclusion /\ Order
    BY DEF Init, MutualExclusion, Owns, Order, FlagTellsOwner, OwnerHasSeen,
           FreeFlagCarries
  <1> QED BY <1>1, <1>2, <1>3, Zenon DEF IInv, TypeOK

(* The flags stay Boolean; the other conjuncts of TypeOK. *)
LEMMA StepTypeOK ==
  ASSUME TypeOK, NEW t \in Threads, Step(t)
  PROVE  TypeOK'
  <1> USE DEF TypeOK
  <1>1. locked' \in BOOLEAN
    <2>1. locked' = locked \/ locked' = TRUE \/ locked' = FALSE
      BY DEF Step, Lock, InLock, Exchange, Load, Yield, Use, Unlock
    <2> QED BY <2>1, Zenon
  <1>2. carried' \in BOOLEAN
    <2>1. carried' = carried \/ carried' = TRUE \/ carried' = FALSE
      BY DEF Step, Lock, InLock, Exchange, Load, Yield, Use, Unlock
    <2> QED BY <2>1, Zenon
  <1>3. pc' \in [Threads -> Labels] /\ seen' \in SUBSET Threads
    BY DEF Step, Lock, InLock, Exchange, Load, Yield, Use, Unlock, Goto, Labels
  <1>4. /\ num_tries' \in [Threads -> 0..MaxNumTries]
        /\ \A u \in Threads : num_tries'[u] = MaxNumTries => pc'[u] = "yield"
    BY MaxNumTriesAssumption
    DEF Step, Lock, InLock, Exchange, Load, Yield, Use, Unlock, Goto, Labels
  <1> QED BY <1>1, <1>2, <1>3, <1>4

LEMMA StepExclusion ==
  ASSUME IInv, NEW t \in Threads, Step(t)
  PROVE  MutualExclusion' /\ Order'
  <1> USE DEF IInv, TypeOK, Labels, Goto, Order
  <1>1. CASE Lock(t) \/ Load(t) \/ Yield(t) \/ (Exchange(t) /\ locked)
    <2>1. /\ \A u \in Threads : Owns(u)' <=> Owns(u)
          /\ locked' <=> locked
      BY <1>1 DEF Lock, Load, Yield, Exchange, Owns
    <2>2. UNCHANGED carried /\ seen \subseteq seen' /\ (~locked => seen' = seen)
      BY <1>1 DEF Lock, Load, Yield, Exchange
    <2>3. MutualExclusion' /\ FlagTellsOwner'
      BY <2>1 DEF MutualExclusion, FlagTellsOwner
    <2>4. OwnerHasSeen' /\ FreeFlagCarries'
      BY <2>1, <2>2 DEF OwnerHasSeen, FreeFlagCarries
    <2> QED BY <2>3, <2>4
  <1>2. CASE Exchange(t) /\ ~locked
    <2>1. \A u \in Threads : ~Owns(u)
      BY <1>2 DEF FlagTellsOwner
    <2>2. \A u \in Threads : Owns(u)' <=> u = t
      BY <1>2, <2>1 DEF Exchange, Owns
    <2>3. t \in seen'
      BY <1>2 DEF Exchange, FreeFlagCarries
    <2>4. locked'
      BY <1>2 DEF Exchange
    <2> QED
      BY <2>2, <2>3, <2>4
      DEF MutualExclusion, FlagTellsOwner, OwnerHasSeen, FreeFlagCarries
  <1>3. CASE Use(t)
    <2>1. Owns(t) /\ \A u \in Threads : Owns(u)' <=> Owns(u)
      BY <1>3 DEF Use, Owns
    <2>2. locked /\ locked' /\ seen' = {t}
      BY <1>3, <2>1 DEF Use, FlagTellsOwner
    <2> QED
      BY <2>1, <2>2
      DEF MutualExclusion, FlagTellsOwner, OwnerHasSeen, FreeFlagCarries
  <1>4. CASE Unlock(t)
    <2>1. Owns(t) /\ t \in seen /\ \A u \in Threads : Owns(u) => u = t
      BY <1>4 DEF Unlock, Owns, MutualExclusion, OwnerHasSeen
    <2>2. \A u \in Threads : ~Owns(u)'
      BY <1>4, <2>1 DEF Unlock, Owns
    <2>3. ~locked' /\ carried'
      BY <1>4, <2>1 DEF Unlock
    <2> QED
      BY <2>2, <2>3
      DEF MutualExclusion, FlagTellsOwner, OwnerHasSeen, FreeFlagCarries
  <1>5. CASE Exchange(t)
    BY <1>1, <1>2, <1>5
  <1>6. CASE Lock(t) \/ Load(t) \/ Yield(t)
    BY <1>1, <1>6
  <1> HIDE DEF IInv, TypeOK, Labels, Goto, Order
  <1> QED BY <1>3, <1>4, <1>5, <1>6 DEF Step, InLock

LEMMA StepIInv == IInv /\ [Next]_vars => IInv'
  <1> SUFFICES ASSUME IInv, [Next]_vars PROVE IInv'
    OBVIOUS
  <1>1. CASE UNCHANGED vars
    BY <1>1 DEF vars, IInv, TypeOK, MutualExclusion, Owns, Order,
                FlagTellsOwner, OwnerHasSeen, FreeFlagCarries
  <1>2. ASSUME NEW t \in Threads, Step(t) PROVE IInv'
    BY <1>2, StepTypeOK, StepExclusion DEF IInv
  <1> QED BY <1>1, <1>2 DEF Next, Step

(* The invariant the other results rest on. *)
THEOREM Invariance == Spec => []IInv
  BY InitIInv, StepIInv, PTL DEF Spec

(* num_tries never passes MaxNumTries and reaches it only before a yield.  *)
THEOREM TypeCorrect == Spec => []TypeOK
  <1>1. IInv => TypeOK
    BY DEF IInv
  <1> QED BY <1>1, Invariance, PTL

(* At most one thread is between Lock() and Unlock(). *)
THEOREM Exclusion == Spec => []MutualExclusion
  <1>1. IInv => MutualExclusion
    BY DEF IInv
  <1> QED BY <1>1, Invariance, PTL

(* The relaxed polls and the acquire exchange order the critical sections. *)
THEOREM DataRaceFree == Spec => []NoDataRace
  <1>1. IInv => NoDataRace
    BY DEF IInv, Order, OwnerHasSeen, NoDataRace, Owns
  <1> QED BY <1>1, Invariance, PTL

-----------------------------------------------------------------------------
LEMMA InitRefines == Init => Abstract!Init
  BY DEF Init, Abstract!Init, Owns, Spins

LEMMA StepRefines == IInv /\ [Next]_vars => [Abstract!Next]_(Abstract!vars)
  <1> SUFFICES ASSUME IInv, [Next]_vars PROVE [Abstract!Next]_(Abstract!vars)
    OBVIOUS
  <1> DEFINE owners == {t \in Threads : Owns(t)}
             spinning == {t \in Threads : Spins(t)}
  <1>1. CASE UNCHANGED vars
    BY <1>1 DEF vars, Abstract!vars, Owns, Spins
  <1>2. ASSUME NEW t \in Threads, Step(t) PROVE [Abstract!Next]_(Abstract!vars)
    <2> USE DEF IInv, TypeOK, Labels, Goto
    <2>1. CASE Lock(t)
      <3>1. t \notin owners \cup spinning /\ owners' = owners
                                          /\ spinning' = spinning \cup {t}
        BY <2>1 DEF Lock, Owns, Spins
      <3> QED BY <3>1 DEF Abstract!Next, Abstract!Request
    <2>2. CASE Exchange(t) /\ ~locked
      <3>1. owners = {}
        BY <2>2 DEF Order, FlagTellsOwner
      <3>2. owners' = {t}
        BY <2>2, <3>1 DEF Exchange, Owns
      <3>3. spinning' = spinning \ {t}
        BY <2>2 DEF Exchange, Spins
      <3> QED BY <3>1, <3>2, <3>3 DEF Abstract!Next, Abstract!Acquire
    <2>3. CASE Unlock(t)
      <3>1. owners = {t}
        BY <2>3 DEF Unlock, Owns, MutualExclusion
      <3>2. owners' = {} /\ spinning' = spinning
        BY <2>3, <3>1 DEF Unlock, Owns, Spins
      <3> QED BY <3>1, <3>2 DEF Abstract!Next, Abstract!Release
    <2>4. CASE (Exchange(t) /\ locked) \/ Load(t) \/ Yield(t) \/ Use(t)
      BY <2>4 DEF Exchange, Load, Yield, Use, Owns, Spins, Abstract!vars
    <2> QED BY <1>2, <2>1, <2>2, <2>3, <2>4 DEF Step, InLock
  <1> QED BY <1>1, <1>2 DEF Next, Step

(* spinlock.h implements the same abstract lock as mutex.h. *)
THEOREM LockRefinement == Spec => ImplementsLock
  BY InitRefines, StepRefines, Invariance, PTL
  DEF Spec, ImplementsLock, Abstract!Spec
=============================================================================

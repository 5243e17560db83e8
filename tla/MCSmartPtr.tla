----------------------------- MODULE MCSmartPtr -----------------------------
(* Model values for SmartPtr.tla: enough counters and strings for every    *)
(* variable, a string that is leaked and a call that makes a new one       *)
(* before it frees the old.                                                *)
EXTENDS SmartPtr, TLC

MCCounters == 1..7
MCStrings == 1..6

Symmetry == Permutations(SharedPtrs) \cup Permutations(WeakPtrs)

(* Addresses are only names: a pointer is what it shares with which others. *)
Seen(p) ==
  IF p \in {Gone, Lost, Empty} THEN p
  ELSE <<p.obj = Null, p.obj \in strings, SharedBy(p.counter), WatchedBy(p.counter),
         {counter[c] : c \in {p.counter} \cap DOMAIN counter}>>

NoAddresses ==
  <<[x \in SharedPtrs |-> Seen(shared[x])], [w \in WeakPtrs |-> Seen(weak[w])],
    {c \in DOMAIN counter : SharedBy(c) \cup WatchedBy(c) = {}}, Cardinality(strings), Cardinality(leaked)>>
=============================================================================

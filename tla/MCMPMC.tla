------------------------------- MODULE MCMPMC -------------------------------
(* Model values for MPMC.tla; threads and values are interchangeable. *)
EXTENDS MPMC, TLC

Symmetry == Permutations(Threads) \cup Permutations(Values)
=============================================================================

-------------------------- MODULE MCRecyclingPool --------------------------
(* Small instances of RecyclingPool for TLC. *)
EXTENDS RecyclingPool, TLC

PoolSymmetry == Permutations(Requests) \cup Permutations(Conns)
=============================================================================

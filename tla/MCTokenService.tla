--------------------------- MODULE MCTokenService ---------------------------
(* Small instances of TokenService for TLC. *)
EXTENDS TokenService, TLC

ThreadSymmetry == Permutations(Callers)
=============================================================================

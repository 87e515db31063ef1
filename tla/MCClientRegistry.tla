-------------------------- MODULE MCClientRegistry --------------------------
(* Small instances of ClientRegistry for TLC: no symmetry, since the run
   checks liveness. *)
EXTENDS ClientRegistry
=============================================================================

--------------------------- MODULE MCSessionLifecycle ---------------------------
(* TLC instance of SessionLifecycle: the constants get their values in the cfg. *)
EXTENDS SessionLifecycle, TLC

Symmetry == Permutations(Turns) \cup Permutations(Enders)
================================================================================

--------------------------- MODULE MCSessionPool ---------------------------
(* Small instances of SessionPool. *)
EXTENDS SessionPool, TLC

CallerSymmetry == Permutations(Callers)
=============================================================================

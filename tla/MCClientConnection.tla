------------------------- MODULE MCClientConnection -------------------------
(* Small instances of ClientConnection. *)
EXTENDS ClientConnection, TLC

CallerSymmetry == Permutations(Callers)
=============================================================================

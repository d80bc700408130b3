-------------------------- MODULE MCMuuReplication --------------------------
(***************************************************************************)
(* Instances of MuuReplication for model checking.                          *)
(***************************************************************************)
EXTENDS MuuReplication, TLC

CONSTANT Working   \* the followers that never stop

\* Sessions are interchangeable; keys are not, one of them may be exclusive.
Symmetric == Permutations(Sessions)

LiveSpec == Spec /\ Fairness(Working)
WorkingCatchUp == FollowersCatchUp(Working)
=============================================================================

---------------------------- MODULE MCNukvClient ----------------------------
(* Model checking of the drivers' client: goroutines are interchangeable.    *)
EXTENDS NukvClient, TLC

CallerSymmetry == Permutations(Callers)
=============================================================================

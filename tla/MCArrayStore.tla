----------------------------- MODULE MCArrayStore -----------------------------
(* Instances of ArrayStore: the first element has two pages that Delete does   *)
(* not know of, the second one page and bytes that call for another.          *)
EXTENDS ArrayStore, TLC

MCPages == [i \in 1..N |-> IF i = 1 THEN 2 ELSE 1]
WorkerSymmetry == Permutations(Workers)
MCLead == [i \in 1..N |-> IF i = 2 THEN 1 ELSE 0]
=============================================================================

--------------------------- MODULE MCRequestSplit ---------------------------
(* Small instances of RequestSplit: lines of two words, values up to three  *)
(* lines long. *)
EXTENDS RequestSplit

Command(n) == [key |-> TRUE, words |-> n]
Control == [key |-> FALSE, words |-> 0]

AllKinds == {Control, Command(0), Command(2), Command(5)}
=============================================================================

---------------------------- MODULE MCParquetStore ----------------------------
(* An instance of ParquetStore with four columns.  Files of four and three rows: *)
(* "even" and "short" as the Divider stores them now, "old" with page headers    *)
(* and columns that are cut at different rows, one value of its third column     *)
(* holding two pages.                                                            *)
EXTENDS ParquetStore

Of(ends) == [i \in DOMAIN ends |-> [rows |-> ends[i], bytes |-> 8 * (ends[i] - (IF i = 1 THEN 0 ELSE ends[i - 1]))]]
MCPageList == [f \in {"even", "short", "old"} |->
  CASE f = "even" -> [c \in 1..4 |-> Of(<<2, 4>>)]
    [] f = "short" -> [c \in 1..4 |-> IF c = 1 THEN Of(<<2, 3>>) ELSE Of(<<3>>)]
    [] f = "old" -> << Of(<<2, 4>>), Of(<<3, 4>>), Of(<<1, 3, 4>>), Of(<<4>>) >>]
MCFiltered == [c \in 1..4 |-> {r \in 1..4 : r # c}]
MCShuffles == {<<>>, <<1, 2, 3>>, <<2, 3, 1>>, <<1, 2, 3, 4>>, <<3, 1, 4, 2>>}
=============================================================================

----------------------------- MODULE MCValuePath -----------------------------
(* Small instances of ValuePath: two tenants, the node leads the first.      *)
EXTENDS ValuePath

CONSTANTS t1, t2

Kind(op, tenant, lines) == [op |-> op, tenant |-> tenant, lines |-> lines]

Writes == {Kind("local", t1, n) : n \in 1..2}

\* Every kind of request, those that disturb the pairing among them.
AllKinds ==
  Writes \cup {Kind("replicated", t1, 1), Kind("replicated", t2, 2),
               Kind("local", t2, 0), Kind("replicated", t1, 0),
               Kind("conditional", t2, 1), Kind("read", t2, 0)}
=============================================================================

--------------------------- MODULE AtomicBroadcast ---------------------------
(***************************************************************************)
(* What the replication promises, without saying how: client writes are put *)
(* in one order, committed along it, and every node delivers committed      *)
(* writes along it.  A node may miss writes (a request thrown away is never *)
(* sent again), but never delivers one twice, out of order, or uncommitted. *)
(***************************************************************************)
EXTENDS Naturals, Sequences

CONSTANTS Nodes, Source, Writes  \* Source: the node that orders the writes

VARIABLES order,      \* the writes, in their order
          committed,  \* how many of them are committed
          delivered   \* per node: the positions delivered so far

vars == <<order, committed, delivered>>

LastOf(s) == IF s = <<>> THEN 0 ELSE s[Len(s)]

Init ==
  /\ order = <<>>
  /\ committed = 0
  /\ delivered = [n \in Nodes |-> <<>>]

Broadcast ==
  /\ \E w \in Writes : order' = Append(order, w)
  /\ UNCHANGED <<committed, delivered>>

\* The source commits the next write and delivers it at once.
Commit ==
  /\ committed < Len(order)
  /\ committed' = committed + 1
  /\ delivered' = [delivered EXCEPT ![Source] = Append(@, committed + 1)]
  /\ UNCHANGED order

Deliver(n) ==
  /\ n # Source
  /\ \E z \in (LastOf(delivered[n]) + 1)..committed :
       delivered' = [delivered EXCEPT ![n] = Append(@, z)]
  /\ UNCHANGED <<order, committed>>

Next == Broadcast \/ Commit \/ \E n \in Nodes : Deliver(n)

Spec == Init /\ [][Next]_vars
=============================================================================

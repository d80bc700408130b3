---------------------------- MODULE MCLoadDriver ----------------------------
(* Model checking of the load driver: one configuration for each way through *)
(* the loop of a client.                                                     *)
EXTENDS LoadDriver

Plain == [populate |-> FALSE, flush |-> FALSE, updates |-> TRUE, gets |-> TRUE, match |-> FALSE,
          scans |-> 0, batchGet |-> 1, batchSet |-> 1]

MCConfigurations ==
  {[Plain EXCEPT !.populate = TRUE, !.flush = f] : f \in BOOLEAN}
    \cup {[Plain EXCEPT !.batchGet = g, !.batchSet = s, !.flush = (g = 1)] : g \in {1, 2}, s \in {1, 2}}
    \cup {[Plain EXCEPT !.updates = FALSE, !.match = TRUE, !.scans = s] : s \in 0..2}
=============================================================================

----------------------------- MODULE LoadDriver -----------------------------
(***************************************************************************)
(* The load driver (sw/client-scan-multes-bulk/src/multes/nukv_client.go):  *)
(* main starts and stops its clients over one unbuffered channel, the       *)
(* clients issue requests over their part of the keys until they are told    *)
(* to stop, and main collects what they counted.                            *)
(*                                                                         *)
(* A request is one step: its result is an error or none.  Keys are their   *)
(* indices.                                                                *)
(***************************************************************************)
EXTENDS Integers

CONSTANTS
  ClientCount,    \* -clients
  Datasize,       \* -datasize
  Configurations, \* [populate, flush, updates, gets, match, scans, batchGet, batchSet]
  MaxReqs         \* bound: requests a client counts

ASSUME DriverAssumption ==
  /\ ClientCount \in Nat \ {0} /\ Datasize \in Nat /\ Datasize >= ClientCount
  /\ MaxReqs \in Nat
  /\ \A k \in Configurations :
       {k.batchGet, k.batchSet} \subseteq Nat \ {0} /\ k.scans \in 0..2

Clients == 1..ClientCount
\* The lines of the input are read until there are more than -datasize.
NumKeys == Datasize + 1

VARIABLES
  config,    \* the flags, for the whole run
  mainAt,    \* main: sleeping, starting, running, stopping, collecting
  told,      \* signals main has handed over, or statistics it has taken, in this phase
  at,        \* per client: setup, ready, running, reporting, gone
  bound,     \* the first index of each client; of one more, the last
  myNumKeys, \* per client
  keyidx, reqs, wrapped,   \* per client
  slice,     \* per client: the keys of its last request, from, up to
  stored,    \* keys a set has reached since they were flushed
  lost,      \* keys that were stored when the flush came
  tried,     \* per client: keys it has populated, or failed to
  early,     \* main began to start clients before all were set up
  overtaken, \* a running client took a start signal
  status     \* of the process: running, done, exited, panicked

loop == <<keyidx, reqs, wrapped, slice, tried>>
ranges == <<bound, myNumKeys>>
vars == <<config, mainAt, told, at, ranges, loop, stored, lost, early, overtaken, status>>

Running == status = "running"
FirstIdx(c) == bound[c]
LastIdx(c) == bound[c + 1]
Smaller(a, b) == IF a < b THEN a ELSE b

\* int(x * i / n) computed in floating point: one less when it should be exact.
Truncated(x, i, n) ==
  LET q == (x * i) \div n IN
  IF i \in {0, n} \/ (x * i) % n # 0 THEN {q} ELSE {q, q - 1}

-----------------------------------------------------------------------------
(* main.                                                                    *)

\* It sleeps for a second, for the clients to set up.
MainStarts ==
  /\ Running /\ mainAt = "sleeping"
  /\ mainAt' = "starting" /\ told' = 0
  /\ early' = (\E c \in Clients : at[c] = "setup")
  /\ UNCHANGED <<config, at, ranges, loop, stored, lost, overtaken, status>>

MainStops ==
  /\ Running /\ mainAt = "running"
  /\ mainAt' = "stopping" /\ told' = 0
  /\ UNCHANGED <<config, at, ranges, loop, stored, lost, early, overtaken, status>>

\* Mutated: a running client takes the signal a waiting one could have.
ReceivesAny(c) == at[c] \in {"ready", "running"}
\* An unbuffered channel hands a value to a goroutine that waits in a receive; one
\* that polls in a select gets it when none waits.
Receives(c) ==
  \/ at[c] = "ready"
  \/ at[c] = "running" /\ ~\E d \in Clients : at[d] = "ready"

\* start <- true.  A client that runs already takes no notice of it.
StartSignal(c) ==
  /\ Running /\ mainAt = "starting" /\ Receives(c)
  /\ told' = told + 1
  /\ mainAt' = IF told' = ClientCount THEN "running" ELSE mainAt
  /\ at' = [at EXCEPT ![c] = "running"]
  /\ overtaken' = (overtaken \/ at[c] = "running")
  /\ \E start \in (IF at[c] = "running" THEN {keyidx[c]}
                   ELSE IF config.populate THEN {FirstIdx(c)} ELSE FirstIdx(c)..(LastIdx(c) - 1)) :
       keyidx' = [keyidx EXCEPT ![c] = start]
  /\ UNCHANGED <<config, ranges, reqs, wrapped, slice, tried, stored, lost, early, status>>

\* start <- false.  A client that has not run takes it for a wrong start signal and
\* returns without its statistics.
StopSignal(c) ==
  /\ Running /\ mainAt = "stopping" /\ Receives(c)
  /\ IF told + 1 = ClientCount THEN mainAt' = "collecting" /\ told' = 0
     ELSE told' = told + 1 /\ UNCHANGED mainAt
  /\ at' = [at EXCEPT ![c] = IF @ = "running" THEN "reporting" ELSE "gone"]
  /\ UNCHANGED <<config, ranges, loop, stored, lost, early, overtaken, status>>

\* The statistics of as many clients as there are, then wg.Wait.
Report(c) ==
  /\ Running /\ mainAt = "collecting" /\ at[c] = "reporting"
  /\ at' = [at EXCEPT ![c] = "gone"]
  /\ told' = told + 1
  /\ status' = IF told' = ClientCount THEN "done" ELSE status
  /\ UNCHANGED <<config, mainAt, ranges, loop, stored, lost, early, overtaken>>

-----------------------------------------------------------------------------
(* A client.                                                                *)

\* The client of the first part flushes, when told to.
Flush(c) ==
  IF config.flush /\ FirstIdx(c) = 0
  THEN stored' = {} /\ lost' = lost \cup stored
  ELSE UNCHANGED <<stored, lost>>

\* Mutated: a client may flush after its start signal.
SetupLate(c) ==
  /\ Running /\ at[c] \in {"setup", "running"}
  /\ IF at[c] = "running" THEN Flush(c) ELSE UNCHANGED <<stored, lost>>
  /\ at' = IF at[c] = "setup" THEN [at EXCEPT ![c] = "ready"] ELSE at
  /\ UNCHANGED <<config, mainAt, told, ranges, loop, early, overtaken, status>>
\* FlushAll, or a Get that opens the connection; then the client waits.
Setup(c) ==
  /\ Running /\ at[c] = "setup"
  /\ Flush(c)
  /\ at' = [at EXCEPT ![c] = "ready"]
  /\ UNCHANGED <<config, mainAt, told, ranges, loop, early, overtaken, status>>

\* The next index, in the client's part of the keys.
Advance(c) == IF keyidx[c] + 1 >= LastIdx(c) THEN FirstIdx(c) ELSE keyidx[c] + 1

\* Mutated: the last key is counted as the first of the second round.
WrapsEarly(c) == wrapped[c] \/ reqs[c] + 1 >= myNumKeys[c]
\* Once round all its keys.
Wraps(c) == wrapped[c] \/ reqs[c] + 1 > myNumKeys[c]

\* Mutated: a batch is not cut off.
EndOfBatchUncut(c, i, n) == i + n
\* endind: where a batch of n from i is cut off.
EndOfBatch(c, i, n) == Smaller(i + n, LastIdx(c))

\* The client goes round the loop: its index, what it counts, the keys it used.
Loop(c, i, more, use) ==
  /\ keyidx' = [keyidx EXCEPT ![c] = i]
  /\ reqs' = [reqs EXCEPT ![c] = @ + 1 + more]
  /\ slice' = [slice EXCEPT ![c] = use]

\* Populating: one Set after the other; the client that is once round ends the
\* process.  The key is stored unless the Set returns an error.
Populate(c) ==
  /\ config.populate
  /\ IF Wraps(c)
     THEN status' = "exited" /\ wrapped' = [wrapped EXCEPT ![c] = TRUE]
          /\ UNCHANGED <<keyidx, reqs, slice, tried, stored, lost>>
     ELSE LET i == Advance(c) IN
          /\ Loop(c, i, 0, <<i, i + 1>>)
          /\ tried' = [tried EXCEPT ![c] = @ \cup {i}]
          /\ stored' = stored \cup {i} \/ stored' = stored
          /\ UNCHANGED <<wrapped, lost, status>>

\* Replace, or SetMulti of a batch; all of a batch is counted, cut off or not.
Update(c) ==
  LET n == config.batchSet
      i == Advance(c) IN
  /\ config.updates /\ ~config.populate
  /\ Loop(c, Smaller(i + n - 1, LastIdx(c) - 1), n - 1,
          <<i, IF n = 1 THEN i + 1 ELSE EndOfBatch(c, i, n)>>)
  /\ stored' = stored \cup i..(EndOfBatch(c, i, n) - 1) \/ stored' = stored
  /\ wrapped' = [wrapped EXCEPT ![c] = Wraps(c)]
  /\ UNCHANGED <<lost, tried, status>>

\* Get, or MultiGet of a batch; their errors are dropped.
Read(c) ==
  LET n == config.batchGet
      i == Advance(c) IN
  /\ config.gets /\ ~config.populate /\ ~config.match
  /\ Loop(c, i + n - 1, n - 1, <<i, IF n = 1 THEN i + 1 ELSE EndOfBatch(c, i, n)>>)
  /\ wrapped' = [wrapped EXCEPT ![c] = Wraps(c)]
  /\ UNCHANGED <<stored, lost, tried, status>>

\* Ret: of a key; as a scan in the node (1), whose missing result is a nil pointer;
\* of all keys, once (2).  A single scanning client ends the process when it has no
\* error, any client when regexconfig fails.
Match(c) ==
  LET i == Advance(c) IN
  /\ config.gets /\ ~config.populate /\ config.match
  /\ Loop(c, i, 0, IF config.scans = 2 /\ ~Wraps(c) THEN <<FirstIdx(c), LastIdx(c)>> ELSE <<i, i + 1>>)
  /\ wrapped' = [wrapped EXCEPT ![c] = Wraps(c) \/ (config.scans = 2 /\ ClientCount > 1)]
  /\ \E result \in {"nil", "error", "no regex"} :
       status' = CASE result = "no regex" -> "exited"
                   [] config.scans = 1 /\ result = "error" -> "panicked"
                   [] config.scans > 0 /\ result = "nil" /\ ClientCount = 1 -> "exited"
                   [] OTHER -> status
  /\ UNCHANGED <<stored, lost, tried>>

Request(c) ==
  /\ Running /\ at[c] = "running" /\ reqs[c] < MaxReqs
  /\ Populate(c) \/ Update(c) \/ Read(c) \/ Match(c)
  /\ UNCHANGED <<config, mainAt, told, at, ranges, early, overtaken>>

-----------------------------------------------------------------------------
Init ==
  /\ config \in Configurations
  /\ mainAt = "sleeping" /\ told = 0
  /\ at = [c \in Clients |-> "setup"]
  /\ bound \in {b \in [1..(ClientCount + 1) -> 0..NumKeys] :
                  \A i \in 1..(ClientCount + 1) : b[i] \in Truncated(NumKeys, i - 1, ClientCount)}
  /\ myNumKeys \in [Clients -> Truncated(NumKeys, 1, ClientCount)]
  /\ keyidx = [c \in Clients |-> FirstIdx(c)]
  /\ reqs = [c \in Clients |-> 0] /\ wrapped = [c \in Clients |-> FALSE]
  /\ slice = [c \in Clients |-> <<0, 0>>]
  /\ stored = {} /\ lost = {} /\ tried = [c \in Clients |-> {}]
  /\ early = FALSE /\ overtaken = FALSE /\ status = "running"

Next ==
  \/ MainStarts \/ MainStops
  \/ \E c \in Clients : Setup(c) \/ StartSignal(c) \/ StopSignal(c) \/ Report(c) \/ Request(c)

Spec == Init /\ [][Next]_vars

(* Sleeps end, a client's set-up ends by its deadline, and a goroutine whose  *)
(* partner waits on the channel goes on.  Nothing is assumed of requests.     *)
Fairness ==
  /\ WF_vars(MainStarts) /\ WF_vars(MainStops)
  /\ WF_vars(\E c \in Clients : StartSignal(c) \/ StopSignal(c))
  /\ \A c \in Clients : WF_vars(Setup(c)) /\ WF_vars(Report(c))

FairSpec == Spec /\ Fairness

-----------------------------------------------------------------------------
\* Besides the types: the keys of every request are a slice, never empty, of the
\* client's own part of the keys, whatever the batch and the rounding (client
\* 219-221, 279-281, 398-401, 458-461).
TypeOK ==
  /\ config \in Configurations
  /\ mainAt \in {"sleeping", "starting", "running", "stopping", "collecting"}
  /\ told \in 0..ClientCount
  /\ at \in [Clients -> {"setup", "ready", "running", "reporting", "gone"}]
  /\ reqs \in [Clients -> Nat] /\ keyidx \in [Clients -> Nat]
  /\ stored \subseteq 0..(NumKeys - 1) /\ lost \subseteq 0..(NumKeys - 1)
  /\ status \in {"running", "done", "exited", "panicked"}
  /\ \A c \in Clients : reqs[c] > 0 =>
       FirstIdx(c) <= slice[c][1] /\ slice[c][1] < slice[c][2] /\ slice[c][2] <= LastIdx(c)

\* A client that ends the process because it is once round has set every key of its
\* part, or reported an error for it, when its part has as many keys as it thinks
\* (client 265-306: the first index used is the second of the part, the first key
\* comes last).
PopulatesItsPart ==
  \A c \in Clients :
    status = "exited" /\ config.populate /\ wrapped[c] /\ myNumKeys[c] = LastIdx(c) - FirstIdx(c)
      => tried[c] = FirstIdx(c)..(LastIdx(c) - 1)

\* What a client has stored is not flushed by another, unless main began to start
\* clients while one was still setting up (client 203-213, main 762-768).
FlushComesFirst == lost # {} => early

\* The driver ends, unless main began to start clients while one was still setting up
\* and a client that runs has taken the start signal of that one: then main waits for
\* the statistics of a client that has taken its stop signal for a wrong start signal
\* (client 224-228, main 762-806).
EndsUnlessOvertaken == <>(status # "running" \/ (early /\ overtaken))
=============================================================================

--------------------------- MODULE LoadDriverProofs ---------------------------
(***************************************************************************)
(* Proofs about LoadDriver, for every number of clients, size of the data   *)
(* and set of configurations.                                              *)
(***************************************************************************)
EXTENDS LoadDriver, TLAPS

\* Where the clients are, by what main does; before main starts them nothing is
\* stored, and later one that is still setting up was overlooked by main.
SetupInv ==
  /\ at \in [Clients -> {"setup", "ready", "running", "reporting", "gone"}]
  /\ mainAt = "sleeping" =>
       /\ \A c \in Clients : at[c] \in {"setup", "ready"}
       /\ stored = {} /\ lost = {}
  /\ mainAt # "sleeping" /\ (\E c \in Clients : at[c] = "setup") => early
  /\ FlushComesFirst

\* Nobody has started and nothing is stored.
LEMMA SetupInit == Init => SetupInv
<1> SUFFICES ASSUME Init
             PROVE  SetupInv
  OBVIOUS
<1>1. mainAt = "sleeping" /\ at = [c \in Clients |-> "setup"] /\ stored = {} /\ lost = {}
  BY DEF Init
<1> QED
  BY <1>1 DEF SetupInv, FlushComesFirst

\* Main's own steps: only the first one ends the sleep, and it notes who is late.
LEMMA MainKeepsSetupInv ==
  ASSUME SetupInv, MainStarts \/ MainStops
  PROVE  SetupInv'
<1>1. CASE MainStarts
  <2>1. /\ mainAt = "sleeping" /\ mainAt' = "starting" /\ UNCHANGED <<at, stored, lost>>
        /\ early' = (\E c \in Clients : at[c] = "setup")
    BY <1>1 DEF MainStarts
  <2>2. (\E c \in Clients : at'[c] = "setup") => early'
    BY <2>1, Zenon
  <2>3. FlushComesFirst'
    BY <2>1 DEF SetupInv, FlushComesFirst
  <2> QED
    BY <2>1, <2>2, <2>3 DEF SetupInv
<1>2. CASE MainStops
  BY <1>2 DEF MainStops, SetupInv, FlushComesFirst, ranges, loop
<1> QED
  BY <1>1, <1>2

\* A client that flushes what is stored is late, for something is stored only when
\* main no longer sleeps.
LEMMA SetupKeepsSetupInv ==
  ASSUME SetupInv, NEW c \in Clients, Setup(c)
  PROVE  SetupInv'
<1>1. at' = [at EXCEPT ![c] = "ready"] /\ UNCHANGED <<mainAt, early>> /\ at[c] = "setup"
  BY DEF Setup
<1>2. \/ UNCHANGED <<stored, lost>>
      \/ stored' = {} /\ lost' = lost \cup stored
  BY DEF Setup, Flush
<1>3. FlushComesFirst'
  <2>1. CASE stored = {}
    BY <1>1, <1>2, <2>1 DEF SetupInv, FlushComesFirst
  <2>2. CASE stored # {}
    <3>1. mainAt # "sleeping"
      BY <2>2 DEF SetupInv
    <3>2. early
      BY <1>1, <3>1 DEF SetupInv
    <3> QED
      BY <1>1, <3>2 DEF FlushComesFirst
  <2> QED
    BY <2>1, <2>2
<1>4. mainAt' = "sleeping" => stored' = {} /\ lost' = {}
  BY <1>1, <1>2 DEF SetupInv
<1> QED
  BY <1>1, <1>3, <1>4 DEF SetupInv

\* Signals and statistics: no client goes back to its set-up.
LEMMA SignalKeepsSetupInv ==
  ASSUME SetupInv, NEW c \in Clients, StartSignal(c) \/ StopSignal(c) \/ Report(c)
  PROVE  SetupInv'
<1>1. /\ mainAt # "sleeping" /\ mainAt' # "sleeping"
      /\ UNCHANGED <<stored, lost, early>>
  BY DEF StartSignal, StopSignal, Report
<1>2. \E place \in {"running", "reporting", "gone"} : at' = [at EXCEPT ![c] = place]
  BY DEF StartSignal, StopSignal, Report
<1> QED
  BY <1>1, <1>2 DEF SetupInv, FlushComesFirst

\* A request of a client that runs, when main no longer sleeps.
LEMMA RequestKeepsSetupInv ==
  ASSUME SetupInv, NEW c \in Clients, Request(c)
  PROVE  SetupInv'
<1>1. at[c] = "running" /\ UNCHANGED <<mainAt, at, early>>
  BY DEF Request
<1>2. mainAt # "sleeping"
  BY <1>1 DEF SetupInv
<1>3. UNCHANGED lost
  BY DEF Request, Populate, Update, Read, Match
<1> QED
  BY <1>1, <1>2, <1>3 DEF SetupInv, FlushComesFirst

\* No flush removes what a client has stored, unless main began to start clients
\* while one was still setting up (client 203-213, main 762-768).
THEOREM FlushFirst == Spec => []FlushComesFirst
<1>1. Init => SetupInv
  BY SetupInit
<1>2. SetupInv /\ [Next]_vars => SetupInv'
  <2> SUFFICES ASSUME SetupInv, [Next]_vars
               PROVE  SetupInv'
    OBVIOUS
  <2>1. CASE MainStarts \/ MainStops
    BY <2>1, MainKeepsSetupInv
  <2>2. ASSUME NEW c \in Clients, Setup(c)
        PROVE  SetupInv'
    BY <2>2, SetupKeepsSetupInv
  <2>3. ASSUME NEW c \in Clients, StartSignal(c) \/ StopSignal(c) \/ Report(c)
        PROVE  SetupInv'
    BY <2>3, SignalKeepsSetupInv
  <2>4. ASSUME NEW c \in Clients, Request(c)
        PROVE  SetupInv'
    BY <2>4, RequestKeepsSetupInv
  <2>5. CASE UNCHANGED vars
    BY <2>5 DEF SetupInv, FlushComesFirst, vars
  <2> QED
    BY <2>1, <2>2, <2>3, <2>4, <2>5 DEF Next
<1>3. SetupInv => FlushComesFirst
  BY DEF SetupInv
<1> QED
  BY <1>1, <1>2, <1>3, PTL DEF Spec

-----------------------------------------------------------------------------
(* The keys of each client, and what main has counted.                      *)

\* What the types rest on: a part has at least one key and a client's index does not
\* fall behind its part; main counts up to the last client, and while the process
\* runs not beyond.
PartInv ==
  /\ TypeOK
  /\ bound \in [1..(ClientCount + 1) -> 0..NumKeys] /\ DOMAIN slice = Clients
  /\ \A c \in Clients : FirstIdx(c) < LastIdx(c) /\ FirstIdx(c) <= keyidx[c]
  /\ Running /\ mainAt \in {"starting", "stopping", "collecting"} => told < ClientCount

\* A client that populates has tried the keys from the second of its part on, in
\* order, and last the first.
Populated(c) ==
  LET size == LastIdx(c) - FirstIdx(c) IN
  /\ reqs[c] \in 0..size
  /\ at[c] \in {"setup", "ready"} => reqs[c] = 0
  /\ keyidx[c] = IF reqs[c] < size THEN FirstIdx(c) + reqs[c] ELSE FirstIdx(c)
  /\ tried[c] = IF reqs[c] = size THEN FirstIdx(c)..(LastIdx(c) - 1)
                ELSE (FirstIdx(c) + 1)..(FirstIdx(c) + reqs[c])
  /\ wrapped[c] => reqs[c] = size

PopulateInv ==
  /\ PartInv
  /\ wrapped \in [Clients -> BOOLEAN] /\ DOMAIN tried = Clients
  /\ config.populate =>
       \A c \in Clients : myNumKeys[c] = LastIdx(c) - FirstIdx(c) => Populated(c)

\* Division by the number of clients.
LEMMA Quotient ==
  ASSUME NEW x \in Nat, NEW n \in Nat \ {0}
  PROVE  /\ x \div n \in Nat /\ x % n \in 0..(n - 1)
         /\ x = n * (x \div n) + (x % n)
<1>1. x \div n \in Nat
  OBVIOUS
<1>2. x % n \in 0..(n - 1)
  OBVIOUS
<1>3. x = n * (x \div n) + (x % n)
  OBVIOUS
<1> QED
  BY <1>1, <1>2, <1>3

\* A product grows with its factor.
LEMMA TimesMonotone ==
  ASSUME NEW n \in Nat, NEW p \in Int, NEW q \in Int, p <= q
  PROVE  n * p <= n * q
OBVIOUS

\* Cut where the code cuts them, no part of more keys than clients is empty.
LEMMA PartsNotEmpty ==
  ASSUME NEW x \in Nat, NEW n \in Nat \ {0}, x > n, NEW i \in 0..(n - 1),
         NEW p \in Truncated(x, i, n), NEW q \in Truncated(x, i + 1, n)
  PROVE  p < q
<1> DEFINE a == x * i  b == x * (i + 1)  p0 == a \div n  q0 == b \div n
<1>1. a \in Nat /\ b \in Nat /\ b = a + x
  OBVIOUS
<1>2. /\ p0 \in Nat /\ a % n \in 0..(n - 1) /\ a = n * p0 + (a % n)
      /\ q0 \in Nat /\ b % n \in 0..(n - 1) /\ b = n * q0 + (b % n)
  <2> HIDE DEF a, b
  <2> QED
    BY <1>1, Quotient
<1>3. p \in {p0, p0 - 1}
  BY DEF Truncated
<1>4. q = q0 \/ (q = q0 - 1 /\ b % n = 0)
  BY DEF Truncated
<1> DEFINE ra == a % n  rb == b % n
<1>5. /\ p0 \in Nat /\ ra \in 0..(n - 1) /\ a = n * p0 + ra
      /\ q0 \in Nat /\ rb \in 0..(n - 1) /\ b = n * q0 + rb
      /\ (q = q0 \/ (q = q0 - 1 /\ rb = 0))
  BY <1>2, <1>4
<1> HIDE DEF p0, q0, ra, rb, a, b
<1>6. p0 < q0
  <2> SUFFICES ASSUME q0 <= p0 PROVE FALSE
    BY <1>5
  <2>1. n * q0 <= n * p0
    BY <1>5, TimesMonotone
  <2> QED
    BY <1>1, <1>5, <2>1
<1>7. rb = 0 => p0 < q0 - 1
  <2> SUFFICES ASSUME rb = 0, q0 <= p0 + 1 PROVE FALSE
    BY <1>5
  <2> DEFINE p1 == p0 + 1
  <2>1. n \in Nat /\ p1 \in Int /\ q0 \in Int /\ q0 <= p1
    BY <1>5
  <2> HIDE DEF p1
  <2>2. n * q0 <= n * p1
    BY <2>1, TimesMonotone
  <2>3. n * p1 = n * p0 + n
    BY <1>5 DEF p1
  <2> QED
    BY <1>1, <1>5, <2>2, <2>3
<1> QED
  BY <1>3, <1>5, <1>6, <1>7

\* At the start every client has keys, and its index is the first of them.
LEMMA PartInit == Init => PartInv
<1> SUFFICES ASSUME Init PROVE PartInv
  OBVIOUS
<1>1. ClientCount \in Nat \ {0} /\ NumKeys \in Nat /\ NumKeys > ClientCount
  BY DriverAssumption DEF NumKeys
<1>2. /\ bound \in [1..(ClientCount + 1) -> 0..NumKeys]
      /\ \A i \in 1..(ClientCount + 1) : bound[i] \in Truncated(NumKeys, i - 1, ClientCount)
  BY DEF Init
<1>3. keyidx = [c \in Clients |-> FirstIdx(c)] /\ reqs = [c \in Clients |-> 0]
  BY DEF Init
<1>4. ASSUME NEW c \in Clients
      PROVE  FirstIdx(c) \in Nat /\ LastIdx(c) \in Nat /\ FirstIdx(c) < LastIdx(c)
  <2>1. /\ c \in 1..(ClientCount + 1) /\ c + 1 \in 1..(ClientCount + 1)
        /\ c - 1 \in 0..(ClientCount - 1) /\ (c - 1) + 1 = (c + 1) - 1
    BY <1>1 DEF Clients
  <2>2. bound[c] \in Truncated(NumKeys, c - 1, ClientCount)
    BY <1>2, <2>1
  <2>3. bound[c + 1] \in Truncated(NumKeys, (c - 1) + 1, ClientCount)
    BY <1>2, <2>1, Zenon
  <2>4. bound[c] < bound[c + 1]
    BY <1>1, <2>1, <2>2, <2>3, PartsNotEmpty
  <2> QED
    BY <1>1, <1>2, <2>1, <2>4 DEF FirstIdx, LastIdx
<1>5. keyidx \in [Clients -> Nat] /\ \A c \in Clients : FirstIdx(c) <= keyidx[c]
  BY <1>3, <1>4
<1>6. TypeOK
  BY <1>1, <1>3, <1>5 DEF Init, TypeOK
<1> QED
  BY <1>2, <1>4, <1>5, <1>6 DEF Init, PartInv, Running

\* The steps of main and those of a client before and after its requests.
LEMMA SignalsKeepPart ==
  ASSUME PartInv, NEW c \in Clients,
         MainStarts \/ MainStops \/ Setup(c) \/ StartSignal(c) \/ StopSignal(c) \/ Report(c)
  PROVE  PartInv'
<1>1. UNCHANGED <<config, bound, reqs, slice>>
  BY DEF MainStarts, MainStops, Setup, StartSignal, StopSignal, Report, ranges, loop
<1>2. /\ TypeOK /\ keyidx \in [Clients -> Nat] /\ bound \in [1..(ClientCount + 1) -> 0..NumKeys]
      /\ \A d \in Clients : /\ FirstIdx(d) \in Nat /\ LastIdx(d) \in Nat
                            /\ FirstIdx(d) < LastIdx(d) /\ FirstIdx(d) <= keyidx[d]
  <2>1. \A d \in Clients : d \in 1..(ClientCount + 1) /\ d + 1 \in 1..(ClientCount + 1)
    BY DriverAssumption DEF Clients
  <2> QED
    BY <2>1, DriverAssumption DEF PartInv, TypeOK, FirstIdx, LastIdx, NumKeys
<1>3. \A d \in Clients : FirstIdx(d)' = FirstIdx(d) /\ LastIdx(d)' = LastIdx(d)
  BY <1>1 DEF FirstIdx, LastIdx
<1>4. keyidx' \in [Clients -> Nat] /\ \A d \in Clients : FirstIdx(d) <= keyidx'[d]
  <2>1. CASE StartSignal(c)
    <3>1. PICK start \in (IF at[c] = "running" THEN {keyidx[c]}
                          ELSE IF config.populate THEN {FirstIdx(c)} ELSE FirstIdx(c)..(LastIdx(c) - 1)) :
            keyidx' = [keyidx EXCEPT ![c] = start]
      BY <2>1 DEF StartSignal
    <3>2. start \in Nat /\ FirstIdx(c) <= start
      <4>1. start = keyidx[c] \/ start = FirstIdx(c) \/ start \in FirstIdx(c)..(LastIdx(c) - 1)
        BY <3>1
      <4> QED
        BY <1>2, <4>1
    <3> QED
      BY <1>2, <3>1, <3>2
  <2>2. CASE UNCHANGED keyidx
    BY <1>2, <2>2
  <2> QED
    BY <2>1, <2>2 DEF MainStarts, MainStops, Setup, StopSignal, Report, loop
<1>5. /\ told' \in 0..ClientCount
      /\ mainAt' \in {"sleeping", "starting", "running", "stopping", "collecting"}
      /\ Running' /\ mainAt' \in {"starting", "stopping", "collecting"} => told' < ClientCount
  <2>1. told \in 0..ClientCount /\ ClientCount \in Nat \ {0}
        /\ mainAt \in {"sleeping", "starting", "running", "stopping", "collecting"}
        /\ (Running /\ mainAt \in {"starting", "stopping", "collecting"} => told < ClientCount)
    BY DriverAssumption DEF PartInv, TypeOK
  <2>2. CASE MainStarts \/ MainStops
    <3>1. told' = 0 /\ mainAt' \in {"starting", "stopping"}
      BY <2>2 DEF MainStarts, MainStops
    <3> QED
      BY <2>1, <3>1
  <2>3. CASE Setup(c)
    <3>1. UNCHANGED <<told, mainAt, status>>
      BY <2>3 DEF Setup
    <3> QED
      BY <2>1, <3>1 DEF Running
  <2>4. CASE StartSignal(c)
    <3>1. /\ Running /\ mainAt = "starting" /\ told' = told + 1
          /\ mainAt' = IF told' = ClientCount THEN "running" ELSE mainAt
      BY <2>4 DEF StartSignal
    <3> QED
      BY <2>1, <3>1
  <2>5. CASE StopSignal(c)
    <3>1. /\ Running /\ mainAt = "stopping"
          /\ \/ told + 1 = ClientCount /\ mainAt' = "collecting" /\ told' = 0
             \/ told + 1 # ClientCount /\ told' = told + 1 /\ mainAt' = mainAt
      BY <2>5 DEF StopSignal
    <3> QED
      BY <2>1, <3>1
  <2>6. CASE Report(c)
    <3>1. /\ Running /\ mainAt = "collecting" /\ told' = told + 1 /\ mainAt' = mainAt
          /\ status' = IF told' = ClientCount THEN "done" ELSE status
      BY <2>6 DEF Report
    <3> QED
      BY <2>1, <3>1 DEF Running
  <2> QED
    BY <2>2, <2>3, <2>4, <2>5, <2>6
<1>6. at' \in [Clients -> {"setup", "ready", "running", "reporting", "gone"}]
  <2>1. at \in [Clients -> {"setup", "ready", "running", "reporting", "gone"}]
    BY <1>2 DEF TypeOK
  <2>2. at' = at \/ \E place \in {"ready", "running", "reporting", "gone"} :
                      at' = [at EXCEPT ![c] = place]
    BY DEF MainStarts, MainStops, Setup, StartSignal, StopSignal, Report
  <2> QED
    BY <2>1, <2>2
<1>7. stored' \subseteq 0..(NumKeys - 1) /\ lost' \subseteq 0..(NumKeys - 1)
  <2>1. UNCHANGED <<stored, lost>> \/ (stored' = {} /\ lost' = lost \cup stored)
    BY DEF MainStarts, MainStops, Setup, Flush, StartSignal, StopSignal, Report
  <2> QED
    BY <1>2, <2>1 DEF TypeOK
<1>8. status' \in {"running", "done", "exited", "panicked"}
  BY <1>2 DEF TypeOK, MainStarts, MainStops, Setup, StartSignal, StopSignal, Report
<1>9. TypeOK'
  BY <1>1, <1>2, <1>3, <1>4, <1>5, <1>6, <1>7, <1>8 DEF TypeOK
<1> QED
  BY <1>1, <1>2, <1>3, <1>4, <1>5, <1>9 DEF PartInv

\* The next index is one of the client's part.
LEMMA AdvanceInPart ==
  ASSUME PartInv, NEW c \in Clients
  PROVE  /\ FirstIdx(c) \in 0..NumKeys /\ LastIdx(c) \in 0..NumKeys
         /\ FirstIdx(c) < LastIdx(c) /\ Advance(c) \in FirstIdx(c)..(LastIdx(c) - 1)
<1>1. c \in 1..(ClientCount + 1) /\ c + 1 \in 1..(ClientCount + 1) /\ NumKeys \in Nat
  BY DriverAssumption DEF Clients, NumKeys
<1>2. /\ FirstIdx(c) \in 0..NumKeys /\ LastIdx(c) \in 0..NumKeys
      /\ FirstIdx(c) < LastIdx(c) /\ FirstIdx(c) <= keyidx[c] /\ keyidx[c] \in Nat
  BY <1>1 DEF PartInv, TypeOK, FirstIdx, LastIdx
<1> QED
  BY <1>1, <1>2 DEF Advance

\* Once round the loop: its index and its keys are of the client's part, and the count
\* is a count.
LEMMA LoopKeepsPart ==
  ASSUME PartInv, NEW c \in Clients, NEW i \in Nat, NEW more \in Nat,
         NEW u \in Nat, NEW v \in Nat, Loop(c, i, more, <<u, v>>),
         FirstIdx(c) <= i, FirstIdx(c) <= u, u < v, v <= LastIdx(c),
         UNCHANGED <<config, mainAt, told, at, bound, lost>>,
         stored' \subseteq 0..(NumKeys - 1),
         status' \in {"running", "done", "exited", "panicked"},
         Running
  PROVE  PartInv'
<1>1. /\ keyidx' = [keyidx EXCEPT ![c] = i] /\ reqs' = [reqs EXCEPT ![c] = @ + 1 + more]
      /\ slice' = [slice EXCEPT ![c] = <<u, v>>]
  BY DEF Loop
<1>2. \A d \in Clients : FirstIdx(d)' = FirstIdx(d) /\ LastIdx(d)' = LastIdx(d)
  BY DEF FirstIdx, LastIdx
<1>3. TypeOK /\ keyidx \in [Clients -> Nat] /\ reqs \in [Clients -> Nat]
  BY DEF PartInv, TypeOK
<1>4. keyidx' \in [Clients -> Nat] /\ reqs' \in [Clients -> Nat]
  BY <1>1, <1>3
<1>5. \A d \in Clients : FirstIdx(d) < LastIdx(d) /\ FirstIdx(d) <= keyidx'[d]
  BY <1>1, <1>3 DEF PartInv
<1>6. ASSUME NEW d \in Clients, reqs'[d] > 0
      PROVE  /\ FirstIdx(d) <= slice'[d][1] /\ slice'[d][1] < slice'[d][2]
             /\ slice'[d][2] <= LastIdx(d)
  <2>1. CASE d = c
    <3>1. slice'[d] = <<u, v>>
      BY <1>1, <2>1 DEF PartInv
    <3> QED
      BY <2>1, <3>1
  <2>2. CASE d # c
    <3>1. slice'[d] = slice[d] /\ reqs'[d] = reqs[d]
      BY <1>1, <1>3, <2>2 DEF PartInv
    <3> QED
      BY <1>3, <1>6, <3>1 DEF TypeOK
  <2> QED
    BY <2>1, <2>2
<1>7. TypeOK'
  BY <1>2, <1>3, <1>4, <1>6 DEF TypeOK
<1>8. DOMAIN slice' = Clients
  BY <1>1 DEF PartInv
<1> QED
  BY <1>2, <1>5, <1>7, <1>8 DEF PartInv, Running

\* The keys of a batch.
LEMMA BatchInPart ==
  ASSUME PartInv, NEW c \in Clients, NEW i \in FirstIdx(c)..(LastIdx(c) - 1),
         NEW n \in Nat \ {0}
  PROVE  /\ EndOfBatch(c, i, n) \in Nat /\ i < EndOfBatch(c, i, n)
         /\ EndOfBatch(c, i, n) <= LastIdx(c)
<1>1. FirstIdx(c) \in 0..NumKeys /\ LastIdx(c) \in 0..NumKeys /\ NumKeys \in Nat
  BY AdvanceInPart, DriverAssumption DEF NumKeys
<1> QED
  BY <1>1 DEF EndOfBatch, Smaller

\* A request, whichever kind it is.
LEMMA RequestKeepsPart ==
  ASSUME PartInv, NEW c \in Clients, Request(c)
  PROVE  PartInv'
<1> DEFINE i == Advance(c)
<1>1. /\ Running /\ UNCHANGED <<config, mainAt, told, at, bound, myNumKeys>>
  BY DEF Request, ranges
<1>2. /\ FirstIdx(c) \in Nat /\ LastIdx(c) \in Nat /\ i \in Nat /\ LastIdx(c) <= NumKeys
      /\ FirstIdx(c) <= i /\ i < LastIdx(c) /\ i \in FirstIdx(c)..(LastIdx(c) - 1)
      /\ NumKeys \in Nat
  BY AdvanceInPart, DriverAssumption DEF NumKeys
<1> HIDE DEF i
<1>3. /\ TypeOK /\ config \in Configurations
      /\ stored \subseteq 0..(NumKeys - 1) /\ lost \subseteq 0..(NumKeys - 1)
  BY DEF PartInv, TypeOK
<1>4. config.batchGet \in Nat \ {0} /\ config.batchSet \in Nat \ {0}
  BY <1>3, DriverAssumption
<1>5. CASE Populate(c)
  <2>1. CASE Wraps(c)
    <3>1. status' = "exited" /\ UNCHANGED <<keyidx, reqs, slice, stored, lost>>
      BY <1>5, <2>1 DEF Populate
    <3>2. \A d \in Clients : FirstIdx(d)' = FirstIdx(d) /\ LastIdx(d)' = LastIdx(d)
      BY <1>1 DEF FirstIdx, LastIdx
    <3>3. TypeOK'
      BY <1>1, <1>3, <3>1, <3>2 DEF TypeOK
    <3> QED
      BY <1>1, <3>1, <3>2, <3>3 DEF PartInv, Running
  <2>2. CASE ~Wraps(c)
    <3>1. Loop(c, i, 0, <<i, i + 1>>) /\ UNCHANGED <<lost, status>>
          /\ (stored' = stored \cup {i} \/ stored' = stored)
      BY <1>5, <2>2 DEF Populate, i
    <3>2. /\ stored' \subseteq 0..(NumKeys - 1)
          /\ i + 1 \in Nat /\ i < i + 1 /\ i + 1 <= LastIdx(c)
      <4>1. i \in 0..(NumKeys - 1) /\ i + 1 \in Nat /\ i < i + 1 /\ i + 1 <= LastIdx(c)
        BY <1>2
      <4>2. stored' = stored \cup {i} \/ stored' = stored
        BY <3>1
      <4> QED
        BY <1>3, <4>1, <4>2, Zenon
    <3>3. status' \in {"running", "done", "exited", "panicked"}
      BY <1>3, <3>1 DEF TypeOK
    <3> QED
      BY <1>1, <1>2, <3>1, <3>2, <3>3, LoopKeepsPart
  <2> QED
    BY <2>1, <2>2
<1>6. CASE Update(c)
  <2> DEFINE n == config.batchSet  e == EndOfBatch(c, i, n)
             k == Smaller(i + n - 1, LastIdx(c) - 1)
             v == IF n = 1 THEN i + 1 ELSE e
  <2>1. Loop(c, k, n - 1, <<i, v>>) /\ UNCHANGED <<lost, status>>
        /\ (stored' = stored \cup i..(e - 1) \/ stored' = stored)
    BY <1>6 DEF Update, i
  <2>2. e \in Nat /\ i < e /\ e <= LastIdx(c)
    BY <1>2, <1>4, BatchInPart
  <2>3. k \in Nat /\ FirstIdx(c) <= k /\ n - 1 \in Nat
    BY <1>2, <1>4 DEF Smaller
  <2> HIDE DEF n, e, k
  <2>4. v \in Nat /\ i < v /\ v <= LastIdx(c)
    BY <1>2, <2>2
  <2> HIDE DEF v
  <2>5. stored' \subseteq 0..(NumKeys - 1)
    <3>1. i..(e - 1) \subseteq 0..(NumKeys - 1)
      BY <1>2, <2>2
    <3>2. stored' = stored \cup i..(e - 1) \/ stored' = stored
      BY <2>1
    <3> QED
      BY <1>3, <3>1, <3>2, Zenon
  <2>6. status' \in {"running", "done", "exited", "panicked"}
    BY <1>3, <2>1 DEF TypeOK
  <2> QED
    BY <1>1, <1>2, <2>1, <2>3, <2>4, <2>5, <2>6, LoopKeepsPart
<1>7. CASE Read(c)
  <2> DEFINE n == config.batchGet  e == EndOfBatch(c, i, n)
             k == i + n - 1
             v == IF n = 1 THEN i + 1 ELSE e
  <2>1. Loop(c, k, n - 1, <<i, v>>) /\ UNCHANGED <<stored, lost, status>>
    BY <1>7 DEF Read, i
  <2>2. e \in Nat /\ i < e /\ e <= LastIdx(c)
    BY <1>2, <1>4, BatchInPart
  <2>3. k \in Nat /\ FirstIdx(c) <= k /\ n - 1 \in Nat
    BY <1>2, <1>4
  <2> HIDE DEF n, e, k
  <2>4. v \in Nat /\ i < v /\ v <= LastIdx(c)
    BY <1>2, <2>2
  <2> HIDE DEF v
  <2>5. stored' \subseteq 0..(NumKeys - 1)
    BY <1>3, <2>1
  <2>6. status' \in {"running", "done", "exited", "panicked"}
    BY <1>3, <2>1 DEF TypeOK
  <2> QED
    BY <1>1, <1>2, <2>1, <2>3, <2>4, <2>5, <2>6, LoopKeepsPart
<1>8. CASE Match(c)
  <2>1. PICK u, v \in Nat : /\ Loop(c, i, 0, <<u, v>>)
                            /\ FirstIdx(c) <= u /\ u < v /\ v <= LastIdx(c)
    <3>1. CASE config.scans = 2 /\ ~Wraps(c)
      <4>1. Loop(c, i, 0, <<FirstIdx(c), LastIdx(c)>>)
        BY <1>8, <3>1 DEF Match, i
      <4>2. FirstIdx(c) <= FirstIdx(c) /\ FirstIdx(c) < LastIdx(c) /\ LastIdx(c) <= LastIdx(c)
        BY <1>2
      <4> QED
        BY <1>2, <4>1, <4>2, Zenon
    <3>2. CASE ~(config.scans = 2 /\ ~Wraps(c))
      <4>1. Loop(c, i, 0, <<i, i + 1>>)
        BY <1>8, <3>2 DEF Match, i
      <4>2. i + 1 \in Nat /\ i < i + 1 /\ i + 1 <= LastIdx(c)
        BY <1>2
      <4> QED
        BY <1>2, <4>1, <4>2, Zenon
    <3> QED
      BY <3>1, <3>2
  <2>2. UNCHANGED <<stored, lost>>
    BY <1>8 DEF Match
  <2>3. status' \in {"running", "done", "exited", "panicked"}
    BY <1>3, <1>8 DEF Match, TypeOK
  <2>4. stored' \subseteq 0..(NumKeys - 1)
    BY <1>3, <2>2
  <2> QED
    BY <1>1, <1>2, <2>1, <2>2, <2>3, <2>4, LoopKeepsPart
<1> QED
  BY <1>5, <1>6, <1>7, <1>8 DEF Request

\* The driver keeps its types, and every request the part of the keys of its client.
LEMMA PartNext == PartInv /\ [Next]_vars => PartInv'
<1> SUFFICES ASSUME PartInv, [Next]_vars PROVE PartInv'
  OBVIOUS
<1>1. CASE MainStarts \/ MainStops
  <2>1. PICK c \in Clients : TRUE
    <3>1. 1 \in Clients
      BY DriverAssumption DEF Clients
    <3> QED
      BY <3>1
  <2> QED
    BY <1>1, <2>1, SignalsKeepPart
<1>2. ASSUME NEW c \in Clients, Setup(c) \/ StartSignal(c) \/ StopSignal(c) \/ Report(c)
      PROVE  PartInv'
  BY <1>2, SignalsKeepPart
<1>3. ASSUME NEW c \in Clients, Request(c)
      PROVE  PartInv'
  BY <1>3, RequestKeepsPart
<1>4. CASE UNCHANGED vars
  BY <1>4 DEF vars, loop, ranges, PartInv, TypeOK, FirstIdx, LastIdx, Running
<1> QED
  BY <1>1, <1>2, <1>3, <1>4 DEF Next

\* For any number of clients, size of the data and batch sizes: main counts its
\* signals and statistics within the clients it has, and the keys of every request are a
\* slice, never empty, of the client's own part of the keys (client 219-221, 279-281,
\* 398-401, 458-461; main 762-806).
THEOREM DriverTypes == Spec => []TypeOK
<1>1. PartInv => TypeOK
  BY DEF PartInv
<1> QED
  BY <1>1, PartInit, PartNext, PTL DEF Spec

-----------------------------------------------------------------------------
(* Populating.                                                              *)

\* At the start nothing is tried, and a client's index is the first of its part.
LEMMA PopulateInit == Init => PopulateInv
<1> SUFFICES ASSUME Init PROVE PopulateInv
  OBVIOUS
<1>1. /\ keyidx = [c \in Clients |-> FirstIdx(c)] /\ reqs = [c \in Clients |-> 0]
      /\ wrapped = [c \in Clients |-> FALSE] /\ tried = [c \in Clients |-> {}]
  BY DEF Init
<1>2. PartInv
  BY PartInit
<1>3. ASSUME NEW c \in Clients PROVE Populated(c)
  <2>1. /\ FirstIdx(c) \in 0..NumKeys /\ LastIdx(c) \in 0..NumKeys /\ NumKeys \in Nat
        /\ FirstIdx(c) < LastIdx(c)
    BY <1>2, AdvanceInPart, DriverAssumption DEF NumKeys
  <2>2. reqs[c] = 0 /\ keyidx[c] = FirstIdx(c) /\ ~wrapped[c] /\ tried[c] = {}
    BY <1>1
  <2>3. {} = (FirstIdx(c) + 1)..(FirstIdx(c) + 0)
    BY <2>1
  <2> QED
    BY <2>1, <2>2, <2>3 DEF Populated
<1> QED
  BY <1>1, <1>2, <1>3 DEF PopulateInv

\* What a client has populated does not change with what another one does.
LEMMA PopulatedKept ==
  ASSUME NEW c \in Clients, Populated(c),
         UNCHANGED <<bound, reqs[c], keyidx[c], tried[c], wrapped[c]>>,
         at'[c] \in {"setup", "ready"} => at[c] \in {"setup", "ready"}
  PROVE  Populated(c)'
BY DEF Populated, FirstIdx, LastIdx

\* A client that is started begins at the first key of its part; one that runs already
\* stays where it is.
LEMMA SignalsKeepPopulate ==
  ASSUME PopulateInv, NEW c \in Clients,
         MainStarts \/ MainStops \/ Setup(c) \/ StartSignal(c) \/ StopSignal(c) \/ Report(c)
  PROVE  PopulateInv'
<1>1. UNCHANGED <<config, bound, myNumKeys, reqs, wrapped, tried>>
  BY DEF MainStarts, MainStops, Setup, StartSignal, StopSignal, Report, ranges, loop
<1>2. PartInv /\ PartInv'
  BY SignalsKeepPart DEF PopulateInv
<1>3. /\ keyidx \in [Clients -> Nat]
      /\ at \in [Clients -> {"setup", "ready", "running", "reporting", "gone"}]
  BY <1>2 DEF PartInv, TypeOK
<1>4. ASSUME NEW d \in Clients, at'[d] \in {"setup", "ready"}
      PROVE  at[d] \in {"setup", "ready"}
  <2>1. at' = at \/ \E place \in {"running", "reporting", "gone"} : at' = [at EXCEPT ![c] = place]
        \/ (at[c] = "setup" /\ at' = [at EXCEPT ![c] = "ready"])
    BY DEF MainStarts, MainStops, Setup, StartSignal, StopSignal, Report
  <2> QED
    BY <1>3, <1>4, <2>1
<1>5. ASSUME config.populate, NEW d \in Clients, myNumKeys[d] = LastIdx(d) - FirstIdx(d)
      PROVE  Populated(d)'
  <2>1. Populated(d)
    BY <1>5 DEF PopulateInv
  <2>2. keyidx'[d] = keyidx[d]
    <3>1. CASE StartSignal(c)
      <4>1. CASE at[c] = "running"
        BY <1>3, <3>1, <4>1 DEF StartSignal
      <4>2. CASE at[c] # "running"
        <5>1. keyidx' = [keyidx EXCEPT ![c] = FirstIdx(c)] /\ at[c] = "ready"
          BY <1>5, <3>1, <4>2 DEF StartSignal, Receives
        <5>2. CASE d = c
          <6>1. reqs[c] = 0 /\ FirstIdx(c) < LastIdx(c) /\ FirstIdx(c) \in Int /\ LastIdx(c) \in Int
            BY <1>2, <2>1, <5>1, <5>2, AdvanceInPart DEF Populated
          <6>2. keyidx[c] = FirstIdx(c)
            BY <2>1, <5>2, <6>1 DEF Populated
          <6> QED
            BY <1>3, <5>1, <5>2, <6>2
        <5>3. CASE d # c
          BY <1>3, <5>1, <5>3
        <5> QED
          BY <5>2, <5>3
      <4> QED
        BY <4>1, <4>2
    <3>2. CASE UNCHANGED keyidx
      BY <3>2
    <3> QED
      BY <3>1, <3>2 DEF MainStarts, MainStops, Setup, StopSignal, Report, loop
  <2> QED
    BY <1>1, <1>4, <2>1, <2>2, PopulatedKept
<1>6. \A d \in Clients : LastIdx(d)' - FirstIdx(d)' = LastIdx(d) - FirstIdx(d)
  BY <1>1 DEF FirstIdx, LastIdx
<1>7. /\ wrapped' \in [Clients -> BOOLEAN] /\ DOMAIN tried' = Clients
  BY <1>1 DEF PopulateInv
<1>8. config.populate' = config.populate /\ myNumKeys' = myNumKeys
  BY <1>1
<1> QED
  BY <1>2, <1>5, <1>6, <1>7, <1>8 DEF PopulateInv

\* A Set: the next key is one more than the last, until only the first one is left.
LEMMA SetPopulates ==
  ASSUME PopulateInv, NEW c \in Clients, Request(c), config.populate,
         myNumKeys[c] = LastIdx(c) - FirstIdx(c)
  PROVE  Populated(c)'
<1> DEFINE f == FirstIdx(c)  l == LastIdx(c)  r == reqs[c]  i == Advance(c)  t == tried[c]
<1>1. PartInv /\ Populated(c) /\ DOMAIN tried = Clients /\ wrapped \in [Clients -> BOOLEAN]
      /\ reqs \in [Clients -> Nat] /\ keyidx \in [Clients -> Nat]
  BY DEF PopulateInv, PartInv, TypeOK
<1>2. /\ at[c] = "running" /\ UNCHANGED <<config, at, bound, myNumKeys>> /\ Populate(c)
  BY DEF Request, Update, Read, Match, ranges
<1>3. f \in Nat /\ l \in Nat /\ f < l /\ FirstIdx(c)' = f /\ LastIdx(c)' = l
  <2>1. f \in Nat /\ l \in Nat /\ f < l
    BY <1>1, AdvanceInPart, DriverAssumption DEF NumKeys
  <2>2. FirstIdx(c)' = f /\ LastIdx(c)' = l
    BY <1>2 DEF FirstIdx, LastIdx
  <2> QED
    BY <2>1, <2>2
<1>4. /\ r \in 0..(l - f) /\ keyidx[c] = (IF r < l - f THEN f + r ELSE f)
      /\ t = (IF r = l - f THEN f..(l - 1) ELSE (f + 1)..(f + r))
      /\ wrapped[c] => r = l - f
  BY <1>1 DEF Populated
<1>5. i = IF keyidx[c] + 1 >= l THEN f ELSE keyidx[c] + 1
  BY DEF Advance
<1>6. CASE Wraps(c)
  <2>1. UNCHANGED <<reqs, keyidx, tried>>
    BY <1>2, <1>6 DEF Populate
  <2>2. r = l - f
    BY <1>3, <1>4, <1>6 DEF Wraps
  <2> HIDE DEF f, l, r, i, t
  <2>3. reqs'[c] = r /\ keyidx'[c] = f /\ tried'[c] = f..(l - 1)
    BY <1>3, <1>4, <2>1, <2>2 DEF r, t
  <2>4. at'[c] = "running"
    BY <1>2
  <2> QED
    BY <1>3, <1>4, <2>2, <2>3, <2>4 DEF Populated
<1>7. CASE ~Wraps(c)
  <2>1. ~wrapped[c] /\ r < l - f
    BY <1>3, <1>4, <1>7 DEF Wraps
  <2>2. /\ keyidx' = [keyidx EXCEPT ![c] = i] /\ reqs' = [reqs EXCEPT ![c] = @ + 1 + 0]
        /\ tried' = [tried EXCEPT ![c] = @ \cup {i}] /\ wrapped' = wrapped
    BY <1>2, <1>7 DEF Populate, Loop
  <2>3. keyidx'[c] = i /\ reqs'[c] = r + 1 /\ tried'[c] = t \cup {i} /\ at'[c] = "running"
    BY <1>1, <1>2, <1>4, <2>2
  <2>4. ~wrapped'[c]
    BY <2>1, <2>2
  <2> HIDE DEF f, l, r, i, t
  <2>5. t = (f + 1)..(f + r) /\ keyidx[c] = f + r
    BY <1>4, <2>1, <1>3
  <2>6. CASE r + 1 = l - f
    <3>1. i = f
      BY <1>3, <1>4, <1>5, <2>5, <2>6
    <3>2. (f + 1)..(f + r) \cup {f} = f..(l - 1)
      BY <1>3, <1>4, <2>6
    <3>3. reqs'[c] = l - f /\ keyidx'[c] = f /\ tried'[c] = f..(l - 1)
      BY <2>3, <2>5, <2>6, <3>1, <3>2
    <3> QED
      BY <1>3, <2>3, <2>4, <3>3 DEF Populated
  <2>7. CASE r + 1 < l - f
    <3>1. i = f + (r + 1)
      BY <1>3, <1>4, <1>5, <2>5, <2>7
    <3>2. (f + 1)..(f + r) \cup {f + (r + 1)} = (f + 1)..(f + (r + 1))
      BY <1>3, <1>4, <2>7
    <3>3. reqs'[c] = r + 1 /\ keyidx'[c] = f + (r + 1) /\ tried'[c] = (f + 1)..(f + (r + 1))
      BY <2>3, <2>5, <3>1, <3>2
    <3> QED
      BY <1>3, <1>4, <2>3, <2>4, <2>7, <3>3 DEF Populated
  <2> QED
    BY <1>3, <1>4, <2>1, <2>6, <2>7
<1> QED
  BY <1>6, <1>7

\* A request changes what its own client has populated, and no other's.
LEMMA RequestKeepsPopulate ==
  ASSUME PopulateInv, NEW c \in Clients, Request(c)
  PROVE  PopulateInv'
<1>1. PartInv' /\ UNCHANGED <<config, at, bound, myNumKeys>>
  BY RequestKeepsPart DEF PopulateInv, Request, ranges
<1>2. /\ DOMAIN tried = Clients /\ wrapped \in [Clients -> BOOLEAN]
      /\ reqs \in [Clients -> Nat] /\ keyidx \in [Clients -> Nat]
  BY DEF PopulateInv, PartInv, TypeOK
<1>3. /\ tried' = tried \/ \E s : tried' = [tried EXCEPT ![c] = s]
      /\ reqs' = reqs \/ \E n : reqs' = [reqs EXCEPT ![c] = n]
      /\ keyidx' = keyidx \/ \E k : keyidx' = [keyidx EXCEPT ![c] = k]
  BY Zenon DEF Request, Populate, Update, Read, Match, Loop
<1>4. wrapped' = wrapped \/ \E w \in BOOLEAN : wrapped' = [wrapped EXCEPT ![c] = w]
  <2>1. Wraps(c) \in BOOLEAN
    BY <1>2, Zenon DEF Wraps
  <2> QED
    BY <2>1, Zenon DEF Request, Populate, Update, Read, Match
<1>5. wrapped' \in [Clients -> BOOLEAN] /\ DOMAIN tried' = Clients
  BY <1>2, <1>3, <1>4
<1>6. ASSUME config.populate, NEW d \in Clients, myNumKeys[d] = LastIdx(d) - FirstIdx(d)
      PROVE  Populated(d)'
  <2>1. CASE d = c
    BY <1>6, <2>1, SetPopulates
  <2>2. CASE d # c
    <3>1. UNCHANGED <<reqs[d], keyidx[d], tried[d]>>
      BY <1>2, <1>3, <2>2
    <3>2. wrapped'[d] = wrapped[d]
      BY <1>2, <1>4, <2>2
    <3>3. Populated(d)
      BY <1>6 DEF PopulateInv
    <3> QED
      BY <1>1, <3>1, <3>2, <3>3, PopulatedKept
  <2> QED
    BY <2>1, <2>2
<1>7. \A d \in Clients : LastIdx(d)' - FirstIdx(d)' = LastIdx(d) - FirstIdx(d)
  BY <1>1 DEF FirstIdx, LastIdx
<1> QED
  BY <1>1, <1>5, <1>6, <1>7 DEF PopulateInv

\* What the clients have populated, through every step of the driver.
LEMMA PopulateNext == PopulateInv /\ [Next]_vars => PopulateInv'
<1> SUFFICES ASSUME PopulateInv, [Next]_vars PROVE PopulateInv'
  OBVIOUS
<1>1. CASE MainStarts \/ MainStops
  <2>1. PICK c \in Clients : TRUE
    <3>1. 1 \in Clients
      BY DriverAssumption DEF Clients
    <3> QED
      BY <3>1
  <2> QED
    BY <1>1, <2>1, SignalsKeepPopulate
<1>2. ASSUME NEW c \in Clients, Setup(c) \/ StartSignal(c) \/ StopSignal(c) \/ Report(c)
      PROVE  PopulateInv'
  BY <1>2, SignalsKeepPopulate
<1>3. ASSUME NEW c \in Clients, Request(c)
      PROVE  PopulateInv'
  BY <1>3, RequestKeepsPopulate
<1>4. CASE UNCHANGED vars
  <2>1. PartInv'
    BY <1>4, PartNext DEF PopulateInv
  <2>2. UNCHANGED <<config, at, bound, myNumKeys, reqs, keyidx, tried, wrapped>>
    BY <1>4 DEF vars, loop, ranges
  <2>3. \A d \in Clients : Populated(d) => Populated(d)'
    BY <2>2, PopulatedKept
  <2>4. \A d \in Clients : LastIdx(d)' - FirstIdx(d)' = LastIdx(d) - FirstIdx(d)
    BY <2>2 DEF FirstIdx, LastIdx
  <2> QED
    BY <2>1, <2>2, <2>3, <2>4 DEF PopulateInv
<1> QED
  BY <1>1, <1>2, <1>3, <1>4 DEF Next

\* For any number of clients and size of the data: a client that ends the process
\* because it is once round has tried every key of its part, when its part has as many
\* keys as it thinks (client 265-306).
THEOREM PopulatesAll == Spec => []PopulatesItsPart
<1>1. PopulateInv => PopulatesItsPart
  <2> SUFFICES ASSUME PopulateInv, NEW c \in Clients, config.populate, wrapped[c],
                      myNumKeys[c] = LastIdx(c) - FirstIdx(c)
               PROVE  tried[c] = FirstIdx(c)..(LastIdx(c) - 1)
    BY DEF PopulatesItsPart
  <2>1. Populated(c)
    BY DEF PopulateInv
  <2> QED
    BY <2>1 DEF Populated
<1> QED
  BY <1>1, PopulateInit, PopulateNext, PTL DEF Spec
=============================================================================

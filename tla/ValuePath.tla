------------------------------ MODULE ValuePath ------------------------------
(***************************************************************************)
(* How a node pairs values with commands (muu_top_module_lmem_privacy.v).    *)
(* The splitter sends a request's command and key one way, through the       *)
(* control unit and the hash table, and the lines of its value another, into *)
(* one FIFO that all tenants share.  muu_value_set.v joins them: for each    *)
(* command that comes out of the hash table it takes the lines it believes   *)
(* belong to it.  Nothing in the lines says whose they are.                  *)
(***************************************************************************)
EXTENDS Integers, Sequences

CONSTANTS
  Tenants,
  Led,           \* tenants this node is set up for as the leader
  Kinds,         \* requests that are sent: [op, tenant, lines]
  Found,         \* what the hash table may say of a conditional read's key
  FifoSlots,     \* lines the value FIFO takes
  MaxRequests,   \* bound: requests in a run
  MaxLines       \* bound: lines of a value

Ops == {"local", "replicated", "read", "conditional", "delete"}

(* A write may have an empty value (Set(key, []byte{}) sends no line for it). *)
(* A conditional read carries its condition in one line.                     *)
ASSUME KindAssumption ==
  /\ Led \subseteq Tenants /\ Found \subseteq BOOLEAN
  /\ \A k \in Kinds :
       /\ k.op \in Ops /\ k.tenant \in Tenants /\ k.lines \in 0..MaxLines
       /\ k.op \in {"read", "delete"} => k.lines = 0
       /\ k.op = "conditional" => k.lines = 1
ASSUME SizeAssumption ==
  FifoSlots \in Nat \ {0} /\ MaxRequests \in Nat /\ MaxLines \in Nat \ {0}

VARIABLES
  sent,       \* the requests that the splitter has let in
  arrived,    \* lines of the last of them that are in the value FIFO
  commands,   \* commands on their way to the control unit: request numbers
  results,    \* what the hash table makes of them: [req, found]
  valueFifo,  \* lines: <<request, part>>
  state,      \* state of muu_value_set
  current,    \* the command it is at: a request number, 0 before the first
  toGo,       \* towrite or tothrow in lines
  stored,     \* per request: the lines written to memory for it
  condition,  \* per request: the line taken as its condition, <<>> if none
  disturbers  \* history: requests that left their lines or took lines of others

vars == <<sent, arrived, commands, results, valueFifo, state, current, toGo, stored, condition,
          disturbers>>
splitter == <<sent, arrived>>
setter == <<state, current, toGo, stored, condition>>

Requests == 1..MaxRequests
Value(r) == [i \in 1..sent[r].lines |-> <<r, i>>]

-----------------------------------------------------------------------------
(* The splitter: the command goes ahead, the lines follow one by one.        *)

Arrive ==
  /\ Len(sent) < MaxRequests
  /\ sent # <<>> => arrived = sent[Len(sent)].lines
  /\ \E k \in Kinds : sent' = Append(sent, k)
  /\ arrived' = 0
  /\ commands' = Append(commands, Len(sent) + 1)
  /\ UNCHANGED <<results, valueFifo, setter, disturbers>>

Line ==
  /\ sent # <<>> /\ arrived < sent[Len(sent)].lines
  /\ Len(valueFifo) < FifoSlots
  /\ arrived' = arrived + 1
  /\ valueFifo' = Append(valueFifo, <<Len(sent), arrived + 1>>)
  /\ UNCHANGED <<sent, commands, results, setter, disturbers>>

-----------------------------------------------------------------------------
(* The control unit and the hash table.                                     *)

\* A WRITEREQ that finds no leader here only raises an error flag: no command
\* goes on.
Refused(r) == sent[r].op = "replicated" /\ sent[r].tenant \notin Led

Control ==
  /\ commands # <<>>
  /\ commands' = Tail(commands)
  /\ LET r == Head(commands) IN
     \/ Refused(r) /\ disturbers' = disturbers \cup {r} /\ UNCHANGED results
     \/ /\ ~Refused(r) /\ UNCHANGED disturbers
        /\ \E found \in IF sent[r].op = "conditional" THEN Found ELSE {TRUE} :
             results' = Append(results, [req |-> r, found |-> found])
  /\ UNCHANGED <<splitter, valueFifo, setter>>

-----------------------------------------------------------------------------
(* muu_value_set.                                                           *)

\* A conditional read of a key that is there takes its condition.
HasCondition(k) == k.op = "conditional"

\* Mutated: a line too few, a line too many.
LinesToWriteShort(r) == sent[r].lines - 1
LinesToWriteLong(r) == sent[r].lines + 1
\* towrite: from the size of the allocated value.
LinesToWrite(r) == sent[r].lines

\* ST_IDLE: the next command and what it does with the value FIFO.  A write of
\* length zero counts as one that failed: a local one throws away a value whose
\* length is read from the first line, a replicated one exactly one line.
Start ==
  /\ state = "idle" /\ results # <<>>
  /\ results' = Tail(results)
  /\ LET r == Head(results).req
         k == sent[r]
         write == k.op \in {"local", "replicated"}
         hit == HasCondition(k) /\ Head(results).found
     IN
     /\ current' = r
     /\ \/ write /\ k.lines > 0 /\ state' = "write" /\ toGo' = LinesToWrite(r)
        \/ k.op = "replicated" /\ k.lines = 0 /\ state' = "throw" /\ toGo' = 1
        \/ k.op = "local" /\ k.lines = 0 /\ state' = "throwFirst" /\ UNCHANGED toGo
        \/ hit /\ state' = "condition" /\ UNCHANGED toGo
        \/ ~write /\ ~hit /\ UNCHANGED <<state, toGo>>
     /\ disturbers' = IF \/ write /\ k.lines = 0
                         \/ k.op = "conditional" /\ ~Head(results).found
                      THEN disturbers \cup {r}
                      ELSE disturbers
  /\ UNCHANGED <<splitter, commands, valueFifo, stored, condition>>

TakeLine ==
  /\ valueFifo # <<>> /\ valueFifo' = Tail(valueFifo)
  /\ UNCHANGED <<splitter, commands, results, current, disturbers>>

Write ==
  /\ state = "write" /\ TakeLine
  /\ stored' = [stored EXCEPT ![current] = Append(@, Head(valueFifo))]
  /\ toGo' = toGo - 1
  /\ state' = IF toGo <= 1 THEN "idle" ELSE "write"
  /\ UNCHANGED condition

\* Lines that the line at the head of the FIFO says its value has: the first one
\* of a value starts with the length, in another one the bits are the client's.
ClaimedLines ==
  LET line == Head(valueFifo) IN
  IF line[2] = 1 /\ sent[line[1]].op # "conditional"
  THEN {sent[line[1]].lines}
  ELSE 1..MaxLines

\* ST_THROW_FIRST: what is to be thrown is as long as its first line says.
ThrowFirst ==
  /\ state = "throwFirst" /\ TakeLine
  /\ \E n \in ClaimedLines :
       /\ toGo' = n - 1
       /\ state' = IF n = 1 THEN "idle" ELSE "throw"
  /\ UNCHANGED <<stored, condition>>

Throw ==
  /\ state = "throw" /\ TakeLine
  /\ toGo' = toGo - 1
  /\ state' = IF toGo <= 1 THEN "idle" ELSE "throw"
  /\ UNCHANGED <<stored, condition>>

\* ST_PREDEVALCONF: one line goes to the predicate evaluation.
TakeCondition ==
  /\ state = "condition" /\ TakeLine
  /\ condition' = [condition EXCEPT ![current] = Head(valueFifo)]
  /\ state' = "idle"
  /\ UNCHANGED <<toGo, stored>>

-----------------------------------------------------------------------------
Init ==
  /\ sent = <<>> /\ arrived = 0 /\ commands = <<>> /\ results = <<>> /\ valueFifo = <<>>
  /\ state = "idle" /\ current = 0 /\ toGo = 0
  /\ stored = [r \in Requests |-> <<>>] /\ condition = [r \in Requests |-> <<>>]
  /\ disturbers = {}

Setter == Start \/ Write \/ ThrowFirst \/ Throw \/ TakeCondition

Next == Arrive \/ Line \/ Control \/ Setter

Spec == Init /\ [][Next]_vars

(* Every stage goes on when it can; the network delivers a request's lines.  *)
FairSpec == Spec /\ WF_vars(Line) /\ WF_vars(Control) /\ WF_vars(Setter)

-----------------------------------------------------------------------------
LineType == Requests \X Nat

TypeOK ==
  /\ sent \in Seq(Kinds) /\ Len(sent) <= MaxRequests /\ arrived \in Nat
  /\ commands \in Seq(Requests)
  /\ results \in Seq([req : Requests, found : BOOLEAN])
  /\ valueFifo \in Seq(LineType)
  /\ state \in {"idle", "write", "throwFirst", "throw", "condition"}
  /\ current \in 0..MaxRequests /\ toGo \in Nat
  /\ stored \in [Requests -> Seq(LineType)]
  /\ condition \in [Requests -> LineType \cup {<<>>}]
  /\ disturbers \subseteq Requests

Owned(r) ==
  /\ Len(stored[r]) <= sent[r].lines
  /\ \A i \in 1..Len(stored[r]) : stored[r][i] = <<r, i>>
  /\ stored[r] # <<>> /\ ~(state = "write" /\ current = r) => stored[r] = Value(r)
  /\ condition[r] \in {<<>>, <<r, 1>>}

Undisturbed(r) == \A d \in disturbers : r <= d

\* The pairing by position of muu_value_set.v holds, and a conditional read is
\* decided by its own condition, as long as no earlier request was refused, was
\* a write of nothing or a conditional read of a key that is not there.
OwnValueUntilDisturbed == \A r \in 1..Len(sent) : Undisturbed(r) => Owned(r)

\* Each command the splitter lets in gets through, unless a disturbing one comes
\* before it is done: none waits for lines another one took (ST_WRITE 340-407).
EveryCommandEnds ==
  \A r \in Requests : (commands # <<>> /\ Head(commands) = r)
     ~> ((current >= r /\ state = "idle") \/ disturbers # {})
=============================================================================

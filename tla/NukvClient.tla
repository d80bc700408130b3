----------------------------- MODULE NukvClient -----------------------------
(***************************************************************************)
(* The client of the load drivers                                          *)
(* (sw/client-scan-multes-bulk/src/multes/nukv/nukv.go, selector.go): calls *)
(* of several goroutines, the pool of idle connections they share, and what *)
(* each call writes to and takes from the stream of the connection it got.  *)
(*                                                                         *)
(* Requests are numbered in the order in which they are written.  A stream  *)
(* is a sequence of 8-byte words; a word names the request it answers, which *)
(* the program cannot see: all it reads are the two marker bytes, the       *)
(* success byte and the size.                                               *)
(***************************************************************************)
EXTENDS Integers, Sequences, FiniteSets, SequencesExt

CONSTANTS
  Callers,       \* goroutines that share the Client
  ServerCount,   \* addresses of the ServerList
  MaxIdleConns,  \* idle connections kept per address
  BatchSize,     \* keys of MultiGet, MultiRet, SetMulti
  Ops,           \* the operations the goroutines call
  MaxConns,      \* bound: connections dialled
  MaxRequests,   \* bound: requests written
  MaxTimeouts    \* bound: calls whose deadline passes

AllOps == {"get", "gettimed", "multiget", "delete", "ret", "multiret", "scan", "flushall", "set",
           "setmulti", "asyncset", "asyncsetlast", "asyncresponse"}

ASSUME ClientAssumption ==
  /\ {ServerCount, MaxIdleConns, BatchSize} \subseteq Nat \ {0}
  /\ {MaxConns, MaxRequests, MaxTimeouts} \subseteq Nat
  /\ Ops \subseteq AllOps

Servers == 1..ServerCount
Conns == 1..MaxConns
Requests == 1..MaxRequests

VARIABLES
  call,      \* per goroutine: its call [op, server, conn, reads]
  free,      \* per address: the idle connections, the last is taken first
  at,        \* per connection dialled: the address
  open,      \* connections that are not closed
  written,   \* per connection: requests in the write buffer
  sent,      \* per connection: requests the server has not answered
  words,     \* per connection: the words of the answers not read yet
  kind,      \* per request: the operation
  via,       \* per request: the connection
  given,     \* per request: the request whose answer was taken for it, 0 if none
  tainted,   \* connections given back by a call that is not done with its answers
  timeouts

streams == <<written, sent, words>>
pool == <<free, at, open>>
vars == <<call, pool, streams, kind, via, given, tainted, timeouts>>

Idle == [op |-> "none", server |-> 1, conn |-> 0, reads |-> <<>>]

-----------------------------------------------------------------------------
(* What the operations write and read.                                      *)

\* PickServerMain for all that writes, PickServerOther for all that reads.
PickServerMain == 1
PickServerOther == IF ServerCount = 1 THEN 1 ELSE 2

\* A call: the address, the requests it writes, whether it flushes them and whether
\* it waits for their answers.
Form(server, count, flushes, waits) ==
  [server |-> server, count |-> count, flushes |-> flushes, waits |-> waits]

GetFromAddr      == Form(PickServerOther, 1, TRUE, TRUE)
MultiGetFromAddr == Form(PickServerOther, BatchSize, TRUE, TRUE)
DelFromAddr      == Form(PickServerOther, 1, TRUE, TRUE)
RetFromAddr      == Form(PickServerOther, 1, TRUE, TRUE)
MultiRetFromAddr == Form(PickServerOther, BatchSize, TRUE, TRUE)
FlushAllFromAddr == Form(1, 1, TRUE, TRUE)
\* By verb: SetAsync leaves its request in the buffer, WaitSetResp only reads.
PopulateOne(verb) ==
  CASE verb = "set"           -> Form(PickServerMain, 1, TRUE, TRUE)
    [] verb = "asyncset"      -> Form(PickServerMain, 1, FALSE, FALSE)
    [] verb = "asyncsetlast"  -> Form(PickServerMain, 1, TRUE, FALSE)
    [] verb = "asyncresponse" -> Form(PickServerMain, 0, FALSE, TRUE)
PopulateMany == Form(PickServerMain, BatchSize, TRUE, TRUE)

FormOf(op) ==
  CASE op \in {"get", "gettimed"} -> GetFromAddr
    [] op = "multiget" -> MultiGetFromAddr
    [] op = "delete" -> DelFromAddr
    [] op \in {"ret", "scan"} -> RetFromAddr
    [] op = "multiret" -> MultiRetFromAddr
    [] op = "flushall" -> FlushAllFromAddr
    [] op = "setmulti" -> PopulateMany
    [] OTHER -> PopulateOne(op)

\* The answers a call waits for; WaitSetResp has no request of its own.
Reads(op, ids) ==
  IF ~FormOf(op).waits THEN <<>> ELSE IF op = "asyncresponse" THEN <<0>> ELSE ids

Word(id, part, ok, size) == [of |-> id, part |-> part, ok |-> ok, size |-> size, local |-> FALSE]
Header(id, ok, size) == <<Word(id, "head", ok, size), Word(id, "tail", FALSE, 0)>>
Found(id) == Header(id, TRUE, 1) \o <<Word(id, "value", FALSE, 0)>>
\* The answers of the node to request id.  A value the condition refused is one word;
\* a set that was not stored may name the local set as its operation (0x1F).
Answers(op, id) ==
  LET missed == Header(id, FALSE, 0)  done == Header(id, TRUE, 0) IN
  CASE op \in {"get", "gettimed", "multiget"} -> {Found(id), missed}
    [] op \in {"ret", "multiret"} -> {Found(id), missed, <<Word(id, "head", TRUE, 0)>>}
    [] op = "scan" -> {<<Word(id, "end", FALSE, 0)>>, Append(Found(id), Word(id, "end", FALSE, 0))}
    [] op = "flushall" -> {done}
    [] op = "delete" -> {done, missed}
    [] OTHER -> {done, missed, <<[Head(missed) EXCEPT !.local = TRUE], missed[2]>>}

-----------------------------------------------------------------------------
(* Taking one answer off the stream: the words it takes and the error.      *)

Took(n, err) == [took |-> n, err |-> err]

\* A word that does not begin with FF FF is left where it is and is no error.
\* A miss is an error of its own, not ErrCacheMiss, and leaves the second word.
ParseZsoltResponse(ws) ==
  CASE ws[1].part # "head" -> Took(0, "nil")
    [] ws[1].part = "head" /\ ~ws[1].ok /\ ws[1].size = 0 -> Took(1, "miss")
    [] OTHER -> Took(2 + ws[1].size, "nil")

\* With DoTiming: a miss takes both words.
ParseZsoltResponseWt(ws) ==
  LET p == ParseZsoltResponse(ws) IN IF p.err = "miss" THEN Took(2, "miss") ELSE p

\* As the first, but what was found and refused has no second word.
ParseZsoltResponseCOND(ws) ==
  CASE ws[1].part # "head" -> Took(0, "nil")
    [] ws[1].part = "head" /\ ~ws[1].ok /\ ws[1].size = 0 -> Took(2, "miss")
    [] ws[1].part = "head" /\ ws[1].ok /\ ws[1].size = 0 -> Took(1, "nil")
    [] OTHER -> Took(2 + ws[1].size, "nil")

\* multiRetFromAddr parses for itself.
ParseMultiRet(ws) ==
  IF ws[1].part = "head" /\ ~ws[1].ok THEN Took(2, "miss") ELSE ParseZsoltResponseCOND(ws)

\* The words up to the marker, which stays; until it comes the call reads on.
ParseScan(ws) ==
  LET ends == {i \in 1..Len(ws) : ws[i].part = "end"} IN
  IF ends = {} THEN Took(Len(ws) + 1, "nil")
  ELSE Took((CHOOSE i \in ends : \A j \in ends : i <= j) - 1, "nil")

ParseFlush(ws) == Took(2, IF ws[1].part = "head" THEN "nil" ELSE "unexpected")

\* Two words, whatever they are.
ParseStored(ws) == Took(2, IF ws[1].ok \/ ws[1].local THEN "nil" ELSE "ErrNotStored")
ParseStoredMany(ws) == Took(2, IF ws[1].ok THEN "nil" ELSE "ErrNotStored")

Parse(op, ws) ==
  CASE op \in {"get", "multiget", "delete"} -> ParseZsoltResponse(ws)
    [] op = "gettimed" -> ParseZsoltResponseWt(ws)
    [] op = "ret" -> ParseZsoltResponseCOND(ws)
    [] op = "multiret" -> ParseMultiRet(ws)
    [] op = "scan" -> ParseScan(ws)
    [] op = "flushall" -> ParseFlush(ws)
    [] op = "setmulti" -> ParseStoredMany(ws)
    [] OTHER -> ParseStored(ws)

\* With the deadline past after the first word of the last answer: the error of
\* the Discard of the second word is dropped.
Overlooks(c) ==
  LET k == call[c]  h == words[k.conn][1] IN
  /\ Len(k.reads) = 1
  /\ \/ k.op \in {"get", "gettimed", "multiget", "delete"} /\ h.part = "head" /\ h.ok /\ h.size = 0
     \/ k.op \in {"set", "asyncresponse"} /\ (h.ok \/ h.local)

-----------------------------------------------------------------------------
(* The pool.                                                                *)

\* Mutated: a cache miss is taken for the sentinel of the package.
ResumableMiss(err) == err \in {"miss", "ErrNotStored"}
\* Mutated: a connection is kept whose answer is late.
ResumableTimeout(err) == err \in {"timeout", "ErrNotStored"}
\* The protocol's errors; the miss of the parsers is not the ErrCacheMiss listed.
ResumableError(err) == err \in {"ErrNotStored"}

\* Mutated: the connection handed out stays in the list.
RemainsAll(s) == free[s]
\* What getFreeConn leaves of the list.
Remains(s) == Front(free[s])

\* getConn: the connection given back last, or a new one.
GetConn(s, cn) ==
  \/ /\ free[s] # <<>> /\ cn = Last(free[s])
     /\ free' = [free EXCEPT ![s] = Remains(s)]
     /\ UNCHANGED <<at, open>>
  \/ /\ free[s] = <<>> /\ cn = Len(at) + 1 /\ cn \in Conns
     /\ at' = Append(at, s) /\ open' = open \cup {cn}
     /\ UNCHANGED free

\* Mutated: the list is not bounded.
PutFreeConnAlways(cn) ==
  /\ free' = [free EXCEPT ![at[cn]] = Append(@, cn)]
  /\ UNCHANGED open
\* Kept unless the list is full.
PutFreeConn(cn) ==
  IF Len(free[at[cn]]) < MaxIdleConns
  THEN free' = [free EXCEPT ![at[cn]] = Append(@, cn)] /\ UNCHANGED open
  ELSE open' = open \ {cn} /\ UNCHANGED free

\* condRelease, at the end of every call.
CondRelease(cn, err) ==
  /\ IF err = "nil" \/ ResumableError(err)
     THEN PutFreeConn(cn)
     ELSE open' = open \ {cn} /\ UNCHANGED free
  /\ UNCHANGED at

\* The error condRelease looks at: SetMulti defers it on an err that it never assigns.
Deferred(op, err) == IF op = "setmulti" THEN "nil" ELSE err

\* Each goes on to the next address after a call without error.
Return(c, err) ==
  LET k == call[c] IN
  /\ CondRelease(k.conn, Deferred(k.op, err))
  /\ call' = [call EXCEPT ![c] =
       IF k.op = "flushall" /\ err = "nil" /\ k.server < ServerCount
       THEN [Idle EXCEPT !.op = "flushall", !.server = k.server + 1]
       ELSE Idle]

-----------------------------------------------------------------------------
(* The calls.                                                               *)

\* getConn, the requests of the call, the flush.  What SetAsync writes stays in the
\* buffer until it is full, or a later call on the connection flushes it.
Issue(c, op, s) ==
  LET form == FormOf(op)
      n == form.count
      first == Len(kind)
      ids == [i \in 1..n |-> first + i] IN
  /\ first + n <= MaxRequests
  /\ \E cn \in Conns :
       /\ GetConn(s, cn)
       /\ LET buffer == written[cn] \o ids IN
          \E flushed \in (IF form.flushes THEN {Len(buffer)} ELSE IF n > 0 THEN 0..Len(buffer) ELSE {0}) :
            /\ sent' = [sent EXCEPT ![cn] = @ \o SubSeq(buffer, 1, flushed)]
            /\ written' = [written EXCEPT ![cn] = SubSeq(buffer, flushed + 1, Len(buffer))]
       /\ call' = [call EXCEPT ![c] = [op |-> op, server |-> s, conn |-> cn, reads |-> Reads(op, ids)]]
       /\ via' = via \o [i \in 1..n |-> cn]
  /\ kind' = kind \o [i \in 1..n |-> op]
  /\ given' = given \o [i \in 1..n |-> 0]
  /\ UNCHANGED <<words, tainted, timeouts>>

Begin(c) == call[c].op = "none" /\ \E op \in Ops : Issue(c, op, FormOf(op).server)
FlushNext(c) == call[c].op = "flushall" /\ call[c].conn = 0 /\ Issue(c, "flushall", call[c].server)

\* SetAsync and SetAsyncLast are done when they have written, or have failed to.
ReturnAsync(c) ==
  /\ call[c].conn # 0 /\ call[c].reads = <<>>
  /\ \E err \in {"nil", "write"} : Return(c, err)
  /\ tainted' = tainted \cup {call[c].conn}
  /\ UNCHANGED <<streams, kind, via, given, timeouts>>

\* The next answer on the connection is taken for the next request of the call.
Read(c) ==
  LET k == call[c]  cn == k.conn  ws == words[cn] IN
  /\ cn # 0 /\ k.reads # <<>> /\ ws # <<>>
  /\ LET p == Parse(k.op, ws)
         id == Head(k.reads)
         last == Len(k.reads) = 1 IN
     /\ p.took <= Len(ws)
     /\ words' = [words EXCEPT ![cn] = SubSeq(ws, p.took + 1, Len(ws))]
     /\ given' = IF id = 0 \/ p.took = 0 THEN given ELSE [given EXCEPT ![id] = ws[1].of]
     /\ IF p.err = "nil" /\ ~last
        THEN call' = [call EXCEPT ![c].reads = Tail(@)] /\ UNCHANGED pool
        ELSE Return(c, p.err)
     /\ tainted' = IF k.op = "scan" \/ (k.op = "setmulti" /\ p.err # "nil" /\ ~last)
                   THEN tainted \cup {cn} ELSE tainted
  /\ UNCHANGED <<written, sent, kind, via, timeouts>>

\* The deadline, set once in getConn, passes before the next answer is complete; a
\* request that could not be written ends the same way.
\* SetMulti and a scan give their connection back all the same.
Timeout(c) ==
  LET k == call[c] IN
  /\ k.conn # 0 /\ k.reads # <<>> /\ timeouts < MaxTimeouts
  /\ timeouts' = timeouts + 1
  /\ Return(c, IF k.op = "scan" THEN "nil" ELSE "timeout")
  /\ tainted' = IF k.op \in {"scan", "setmulti"} THEN tainted \cup {k.conn} ELSE tainted
  /\ UNCHANGED <<streams, kind, via, given>>

\* It passes between the two words of a header, and nobody notices.
TimeoutAfterHead(c) ==
  LET k == call[c]  cn == k.conn IN
  /\ cn # 0 /\ k.reads # <<>> /\ words[cn] # <<>> /\ Overlooks(c) /\ timeouts < MaxTimeouts
  /\ timeouts' = timeouts + 1
  /\ words' = [words EXCEPT ![cn] = Tail(@)]
  /\ Return(c, "nil")
  /\ tainted' = tainted \cup {cn}
  /\ UNCHANGED <<written, sent, kind, via, given>>

\* The node answers the requests of a connection in order.
ServerAnswers(cn) ==
  /\ cn \in open /\ sent[cn] # <<>>
  /\ LET id == Head(sent[cn]) IN
     \E a \in Answers(kind[id], id) : words' = [words EXCEPT ![cn] = @ \o a]
  /\ sent' = [sent EXCEPT ![cn] = Tail(@)]
  /\ UNCHANGED <<call, pool, written, kind, via, given, tainted, timeouts>>

-----------------------------------------------------------------------------
Init ==
  /\ call = [c \in Callers |-> Idle]
  /\ free = [s \in Servers |-> <<>>]
  /\ at = <<>> /\ open = {}
  /\ written = [cn \in Conns |-> <<>>]
  /\ sent = [cn \in Conns |-> <<>>]
  /\ words = [cn \in Conns |-> <<>>]
  /\ kind = <<>> /\ via = <<>> /\ given = <<>>
  /\ tainted = {} /\ timeouts = 0

Next ==
  \/ \E c \in Callers :
       \/ Begin(c) \/ FlushNext(c) \/ ReturnAsync(c)
       \/ Read(c) \/ Timeout(c) \/ TimeoutAfterHead(c)
  \/ \E cn \in Conns : ServerAnswers(cn)

Spec == Init /\ [][Next]_vars

-----------------------------------------------------------------------------
TypeOK ==
  /\ \A c \in Callers :
       /\ call[c].op \in Ops \cup {"none"} /\ call[c].server \in Servers
       /\ call[c].conn \in Conns \cup {0} /\ call[c].reads \in Seq(Requests \cup {0})
  /\ \A s \in Servers : free[s] \in Seq(Conns) /\ Len(free[s]) <= MaxIdleConns
  /\ at \in Seq(Servers) /\ open \subseteq 1..Len(at) /\ tainted \subseteq Conns
  /\ \A cn \in Conns : written[cn] \in Seq(Requests) /\ sent[cn] \in Seq(Requests)
  /\ Len(via) = Len(kind) /\ Len(given) = Len(kind)
  /\ timeouts \in 0..MaxTimeouts

\* The places a connection is in.
Places(cn) ==
  {p \in Servers \X (1..MaxConns) : p[2] <= Len(free[p[1]]) /\ free[p[1]][p[2]] = cn}
    \cup {c \in Callers : call[c].conn = cn}

\* A connection that is open is in exactly one place, the list of its address or
\* the hands of one goroutine; none is lost or handed out twice, and no closed one
\* is handed out (getFreeConn 225-239, putFreeConn 211-223, condRelease 203-209).
OnePlace ==
  /\ \A cn \in open : Cardinality(Places(cn)) = 1
  /\ \A cn \in Conns \ open : Places(cn) = {}

\* What is written, under way or unread on an idle connection was left there by an
\* asynchronous set, a scan, a SetMulti that did not read all its answers or a
\* deadline between the two words of a header.  Every other call, a cache miss or
\* a set that was not stored among them, leaves the stream at the start of an
\* answer or closes the connection (condRelease 203-209 against the Discards of
\* every parser).
IdleIsSilent ==
  \A s \in Servers : \A i \in 1..Len(free[s]) :
    LET cn == free[s][i] IN
    cn \notin tainted => written[cn] = <<>> /\ sent[cn] = <<>> /\ words[cn] = <<>>

\* On a connection no such call has used, a call takes the answers to its own
\* requests, each for the right key, although the answers carry no number
\* (multiGetFromAddr, populateMany: the answers are read in the order written).
AnswersOwn ==
  \A id \in 1..Len(given) : via[id] \notin tainted => given[id] \in {0, id}
=============================================================================

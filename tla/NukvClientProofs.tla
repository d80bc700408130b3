-------------------------- MODULE NukvClientProofs --------------------------
(***************************************************************************)
(* Theorems about NukvClient, for every number of goroutines, addresses,     *)
(* idle connections and keys of a batch: where a connection is, and whose    *)
(* answers are in its stream.                                              *)
(***************************************************************************)
EXTENDS NukvClient, FiniteSetTheorems, SequenceTheorems, WellFoundedInduction, TLAPS

-----------------------------------------------------------------------------
(* The inductive invariants. *)

WordType ==
  [of : Requests, part : {"head", "tail", "value", "end"}, ok : BOOLEAN, size : {0, 1},
   local : BOOLEAN]
CallType ==
  [op : Ops \cup {"none"}, server : Servers, conn : Conns \cup {0}, reads : Seq(Requests \cup {0})]

\* The types of the calls and of the pool, of what is known of the requests, and of
\* the streams.
PoolType ==
  /\ call \in [Callers -> CallType]
  /\ free \in [Servers -> Seq(Conns)] /\ \A s \in Servers : Len(free[s]) <= MaxIdleConns
  /\ at \in Seq(Servers) /\ Len(at) <= MaxConns
  /\ open \subseteq 1..Len(at)

RequestType ==
  /\ tainted \subseteq Conns /\ timeouts \in 0..MaxTimeouts
  /\ kind \in Seq(Ops) /\ Len(kind) <= MaxRequests
  /\ via \in Seq(Conns) /\ Len(via) = Len(kind)
  /\ given \in Seq(Requests \cup {0}) /\ Len(given) = Len(kind)

StreamType ==
  /\ written \in [Conns -> Seq(Requests)]
  /\ sent \in [Conns -> Seq(Requests)]
  /\ words \in [Conns -> Seq(WordType)]

Typed == PoolType /\ RequestType /\ StreamType

\* A goroutine outside of a call holds nothing, one between two addresses neither.
CallShape ==
  \A c \in Callers :
    /\ call[c].conn = 0 => call[c].op \in {"none", "flushall"} /\ call[c].reads = <<>>
    /\ call[c].op = "none" => call[c].conn = 0

Free(cn) == \E s \in Servers : \E i \in 1..Len(free[s]) : free[s][i] = cn

\* A connection in the hands of a goroutine is open, in no list and in nobody
\* else's hands; those in the lists are open, in the list of their address and there
\* once; and no open one is anywhere else.
Held ==
  /\ \A c \in Callers : call[c].conn # 0 => call[c].conn \in open /\ ~Free(call[c].conn)
  /\ \A c, d \in Callers : call[c].conn # 0 /\ call[c].conn = call[d].conn => c = d
Listed ==
  \A s \in Servers :
    /\ \A i \in 1..Len(free[s]) : free[s][i] \in open /\ at[free[s][i]] = s
    /\ \A i, j \in 1..Len(free[s]) : free[s][i] = free[s][j] => i = j
NoneLost == \A cn \in open : Free(cn) \/ \E c \in Callers : call[c].conn = cn

PoolInv == CallShape /\ Held /\ Listed /\ NoneLost

\* The stream ws is the answers to the first m of the requests ids, all of op, b[j]
\* words up to the j-th, and the others have not been answered.
AnswersUpTo(op, ws, unanswered, ids, m, b) ==
  /\ b[0] = 0 /\ b[m] = Len(ws)
  /\ \A i, j \in 0..m : i <= j => b[i] <= b[j]
  /\ \A j \in 1..m : \E a \in Answers(op, ids[j]) :
       b[j] = b[j - 1] + Len(a) /\ \A i \in 1..Len(a) : ws[b[j - 1] + i] = a[i]
  /\ unanswered = SubSeq(ids, m + 1, Len(ids))
AnswersOf(op, ws, unanswered, ids) ==
  \E m \in 0..Len(ids) : \E b \in [0..m -> Nat] : AnswersUpTo(op, ws, unanswered, ids, m, b)

Silent(cn) == written[cn] = <<>> /\ sent[cn] = <<>> /\ words[cn] = <<>>

\* The sets of one key.
SingleSets == {"set", "asyncset", "asyncsetlast", "asyncresponse"}

\* The requests a call still waits for; WaitSetResp has none of its own.
Awaited(c) == IF call[c].op = "asyncresponse" THEN <<>> ELSE call[c].reads

\* What a call waits for was written for it, on its connection; and unless a call
\* left something on that connection, what comes are the answers to it.
Waits ==
  \A c \in Callers :
    /\ call[c].op = "asyncresponse" => call[c].reads \in {<<>>, <<0>>}
    /\ call[c].op \in SingleSets => Len(call[c].reads) <= 1
    /\ \A i \in 1..Len(Awaited(c)) :
         /\ Awaited(c)[i] \in 1..Len(kind)
         /\ kind[Awaited(c)[i]] = call[c].op /\ via[Awaited(c)[i]] = call[c].conn
InStep ==
  \A c \in Callers :
    LET cn == call[c].conn IN
    cn # 0 /\ cn \notin tainted /\ call[c].reads # <<>> =>
      written[cn] = <<>> /\ AnswersOf(call[c].op, words[cn], sent[cn], Awaited(c))

\* Nothing is on a fresh connection or, untainted, on one in a list.
Rested ==
  \A cn \in Conns : cn \notin tainted /\ (Free(cn) \/ cn > Len(at)) => Silent(cn)

StreamInv == Waits /\ InStep /\ Rested /\ AnswersOwn

ClientInv == Typed /\ PoolInv /\ StreamInv

\* A call is over; its connection is kept, or it is closed.
GivenBack(c, kept) ==
  LET cn == call[c].conn IN
  /\ \E r \in CallType : /\ r.conn = 0 /\ r.reads = <<>> /\ r.op \in {"none", "flushall"}
                         /\ call' = [call EXCEPT ![c] = r]
  /\ at' = at
  /\ IF kept
     THEN /\ Len(free[at[cn]]) < MaxIdleConns
          /\ free' = [free EXCEPT ![at[cn]] = Append(@, cn)] /\ open' = open
     ELSE free' = free /\ open' = open \ {cn}

\* t is s with n more elements, all x.
Lengthened(s, t, S, n, x) ==
  /\ t \in Seq(S) /\ Len(s) \in Nat /\ Len(t) = Len(s) + n
  /\ \A i \in 1..Len(s) : t[i] = s[i]
  /\ \A i \in 1..n : t[Len(s) + i] = x

\* A call r has begun on cn with the n requests ids, and the first of what is in the
\* buffer then have been flushed.
Issued(c, op, s, cn, n, ids, r) ==
  /\ GetConn(s, cn)
  /\ n = FormOf(op).count /\ Len(kind) + n <= MaxRequests
  /\ Len(ids) = n /\ \A i \in 1..n : ids[i] = Len(kind) + i
  /\ r = [op |-> op, server |-> s, conn |-> cn, reads |-> Reads(op, ids)]
  /\ call' = [call EXCEPT ![c] = r]
  /\ \E flushed \in 0..Len(written[cn] \o ids) :
       /\ FormOf(op).flushes => flushed = Len(written[cn] \o ids)
       /\ ~FormOf(op).flushes /\ n = 0 => flushed = 0
       /\ sent' = [sent EXCEPT ![cn] = @ \o SubSeq(written[cn] \o ids, 1, flushed)]
       /\ written' = [written EXCEPT ![cn] =
            SubSeq(written[cn] \o ids, flushed + 1, Len(written[cn] \o ids))]
  /\ Lengthened(kind, kind', Ops, n, op)
  /\ Lengthened(via, via', Conns, n, cn)
  /\ Lengthened(given, given', Requests \cup {0}, n, 0)
  /\ UNCHANGED <<words, tainted, timeouts>>

-----------------------------------------------------------------------------
(* What the operations write, are answered and take off the stream. *)

\* The address and the number of requests of an operation; all but a lone WaitSetResp
\* write what they wait for, and then flush it.
LEMMA Forms ==
  ASSUME NEW op \in Ops
  PROVE  /\ FormOf(op).server \in Servers /\ FormOf(op).count \in Nat
         /\ FormOf(op).flushes \in BOOLEAN /\ FormOf(op).waits \in BOOLEAN
         /\ op = "asyncresponse" => FormOf(op).count = 0 /\ ~FormOf(op).flushes
         /\ op \in SingleSets => FormOf(op).count <= 1
         /\ FormOf(op).waits /\ op # "asyncresponse" => FormOf(op).flushes
<1>1. op \in AllOps /\ BatchSize \in Nat /\ ServerCount \in Nat /\ ServerCount >= 1
  BY ClientAssumption
<1>2. PickServerMain \in Servers /\ PickServerOther \in Servers /\ 1 \in Servers
  BY <1>1 DEF PickServerMain, PickServerOther, Servers
<1>3. op = "asyncresponse" => FormOf(op).count = 0 /\ ~FormOf(op).flushes
  BY DEF FormOf, Form, PopulateOne
<1>4. op \in SingleSets => FormOf(op).count <= 1
  BY DEF FormOf, Form, PopulateOne, SingleSets
<1> QED
  BY <1>1, <1>2, <1>3, <1>4
  DEF AllOps, FormOf, Form, GetFromAddr, MultiGetFromAddr, DelFromAddr, RetFromAddr,
      MultiRetFromAddr, FlushAllFromAddr, PopulateOne, PopulateMany

\* Sequences of one and of two elements.
LEMMA One ==
  ASSUME NEW S, NEW x \in S
  PROVE  <<x>> \in Seq(S) /\ Len(<<x>>) = 1 /\ <<x>>[1] = x
OBVIOUS

\* The same of two elements.
LEMMA Two ==
  ASSUME NEW S, NEW x \in S, NEW y \in S
  PROVE  /\ <<x, y>> \in Seq(S) /\ Len(<<x, y>>) = 2
         /\ <<x, y>>[1] = x /\ <<x, y>>[2] = y /\ Head(<<x, y>>) = x
OBVIOUS

\* The elements of two sequences put together, and of a longer sequence.
LEMMA Joined ==
  ASSUME NEW S, NEW s \in Seq(S), NEW t \in Seq(S)
  PROVE  /\ s \o t \in Seq(S) /\ Len(s) \in Nat /\ Len(t) \in Nat
         /\ Len(s \o t) = Len(s) + Len(t)
         /\ \A i \in 1..Len(s) : (s \o t)[i] = s[i]
OBVIOUS

\* The elements of the second of two sequences put together.
LEMMA JoinedRight ==
  ASSUME NEW S, NEW s \in Seq(S), NEW t \in Seq(S), NEW i \in 1..Len(t)
  PROVE  (s \o t)[Len(s) + i] = t[i]
OBVIOUS

\* What a longer sequence has at its ends.
LEMMA Appended ==
  ASSUME NEW S, NEW s \in Seq(S), NEW e \in S
  PROVE  /\ Append(s, e) \in Seq(S) /\ Len(s) \in Nat /\ Len(Append(s, e)) = Len(s) + 1
         /\ Append(s, e)[Len(s) + 1] = e
         /\ Len(s) # 0 => Append(s, e)[1] = s[1]
OBVIOUS

\* What a longer sequence keeps.
LEMMA AppendedKept ==
  ASSUME NEW S, NEW s \in Seq(S), NEW e \in S, NEW i \in 1..Len(s)
  PROVE  Append(s, e)[i] = s[i]
OBVIOUS

\* What a word is.
LEMMA WordTyped ==
  ASSUME NEW id \in Requests, NEW part \in {"head", "tail", "value", "end"},
         NEW ok \in BOOLEAN, NEW size \in {0, 1}
  PROVE  Word(id, part, ok, size) \in WordType
BY DEF Word, WordType

\* The words of a header, and of what was found.
LEMMA HeaderWords ==
  ASSUME NEW id \in Requests, NEW ok \in BOOLEAN, NEW size \in {0, 1}
  PROVE  /\ Header(id, ok, size) \in Seq(WordType) /\ Len(Header(id, ok, size)) = 2
         /\ Header(id, ok, size)[2] \in WordType
         /\ Header(id, ok, size)[1] = Word(id, "head", ok, size)
         /\ Head(Header(id, ok, size)) = Word(id, "head", ok, size)
<1>1. Word(id, "head", ok, size) \in WordType /\ Word(id, "tail", FALSE, 0) \in WordType
  BY WordTyped
<1> DEFINE x == Word(id, "head", ok, size)
           y == Word(id, "tail", FALSE, 0)
<1>2. Header(id, ok, size) = <<x, y>> /\ x \in WordType /\ y \in WordType
  BY <1>1 DEF Header
<1> HIDE DEF x, y
<1>3. /\ <<x, y>> \in Seq(WordType) /\ Len(<<x, y>>) = 2
      /\ <<x, y>>[1] = x /\ <<x, y>>[2] = y /\ Head(<<x, y>>) = x
  BY <1>2, Two
<1>4. /\ Header(id, ok, size) \in Seq(WordType) /\ Len(Header(id, ok, size)) = 2
      /\ Header(id, ok, size)[2] \in WordType
      /\ Header(id, ok, size)[1] = x /\ Head(Header(id, ok, size)) = x
  BY <1>2, <1>3
<1> QED
  BY <1>4 DEF x

\* The words of a key that was found.
LEMMA FoundWords ==
  ASSUME NEW id \in Requests
  PROVE  /\ Found(id) \in Seq(WordType) /\ Len(Found(id)) = 3
         /\ Found(id)[1] = Word(id, "head", TRUE, 1)
<1> DEFINE h == Header(id, TRUE, 1)
           v == Word(id, "value", FALSE, 0)
<1>1. <<v>> \in Seq(WordType) /\ Len(<<v>>) = 1
  <2>1. v \in WordType
    BY WordTyped
  <2> HIDE DEF v
  <2> QED
    BY <2>1, One
<1>2. h \in Seq(WordType) /\ Len(h) = 2
  BY HeaderWords, Zenon
<1>7. h[1] = Word(id, "head", TRUE, 1)
  BY HeaderWords, Zenon
<1>3. Found(id) = h \o <<v>>
  BY DEF Found
<1> DEFINE w == <<v>>
<1>4. w \in Seq(WordType) /\ Len(w) = 1
  BY <1>1
<1> HIDE DEF h, w
<1>5. h \o w \in Seq(WordType) /\ Len(h \o w) = 3 /\ (h \o w)[1] = h[1]
  <2>1. /\ h \o w \in Seq(WordType) /\ Len(h \o w) = Len(h) + Len(w)
        /\ \A i \in 1..Len(h) : (h \o w)[i] = h[i]
    BY <1>2, <1>4, Joined, Zenon
  <2> QED
    BY <1>2, <1>4, <2>1
<1>6. Found(id) = h \o w
  BY <1>3 DEF w
<1> QED
  BY <1>5, <1>6, <1>7, Zenon

\* The answers by the operation of the request: how long they are and how they begin.
LEMMA AnswerCases ==
  ASSUME NEW op, NEW id \in Requests, NEW a \in Answers(op, id)
  PROVE  /\ a \in Seq(WordType) /\ Len(a) >= 1 /\ a[1].of = id
         /\ op # "scan" => a[1].part = "head"
         /\ op \in {"get", "gettimed", "multiget"} =>
              \/ Len(a) = 3 /\ a[1].ok /\ a[1].size = 1
              \/ Len(a) = 2 /\ ~a[1].ok /\ a[1].size = 0
         /\ op \in {"ret", "multiret"} =>
              \/ Len(a) = 3 /\ a[1].ok /\ a[1].size = 1
              \/ Len(a) = 2 /\ ~a[1].ok /\ a[1].size = 0
              \/ Len(a) = 1 /\ a[1].ok /\ a[1].size = 0
         /\ op = "delete" => Len(a) = 2 /\ a[1].size = 0
         /\ op \notin {"get", "gettimed", "multiget", "ret", "multiret", "scan", "delete"} =>
              Len(a) = 2
<1> DEFINE missed == Header(id, FALSE, 0)
           done == Header(id, TRUE, 0)
           found == Found(id)
           end == Word(id, "end", FALSE, 0)
           one == Word(id, "head", TRUE, 0)
           local == [Head(missed) EXCEPT !.local = TRUE]
<1> HIDE DEF missed, done, found
<1>1. /\ missed \in Seq(WordType) /\ Len(missed) = 2 /\ missed[2] \in WordType
      /\ missed[1].of = id /\ missed[1].part = "head" /\ ~missed[1].ok /\ missed[1].size = 0
      /\ Head(missed) = missed[1]
  <2>1. /\ missed \in Seq(WordType) /\ Len(missed) = 2 /\ missed[2] \in WordType
        /\ missed[1] = Word(id, "head", FALSE, 0) /\ Head(missed) = Word(id, "head", FALSE, 0)
    BY HeaderWords, Zenon DEF missed
  <2> QED
    BY <2>1 DEF Word
<1>2. /\ done \in Seq(WordType) /\ Len(done) = 2
      /\ done[1].of = id /\ done[1].part = "head" /\ done[1].size = 0
  <2>1. done \in Seq(WordType) /\ Len(done) = 2 /\ done[1] = Word(id, "head", TRUE, 0)
    BY HeaderWords, Zenon DEF done
  <2> QED
    BY <2>1 DEF Word
<1>14. /\ found \in Seq(WordType) /\ Len(found) = 3
      /\ found[1].of = id /\ found[1].part = "head" /\ found[1].ok /\ found[1].size = 1
  <2>1. found \in Seq(WordType) /\ Len(found) = 3 /\ found[1] = Word(id, "head", TRUE, 1)
    BY FoundWords, Zenon DEF found
  <2> QED
    BY <2>1 DEF Word
<1>3. end \in WordType /\ end.of = id /\ one \in WordType
  BY WordTyped DEF Word
<1>4. /\ Append(found, end) \in Seq(WordType) /\ Len(Append(found, end)) = 4
      /\ Append(found, end)[1].of = id
  <2> HIDE DEF end
  <2>1. /\ Append(found, end) \in Seq(WordType) /\ Len(Append(found, end)) = 4
        /\ Append(found, end)[1] = found[1]
    <3>1. found \in Seq(WordType) /\ end \in WordType /\ Len(found) = 3
      BY <1>3, <1>14
    <3>2. Len(found) # 0
      BY <3>1
    <3>3. Append(found, end) \in Seq(WordType) /\ Len(Append(found, end)) = Len(found) + 1
      BY <3>1, Appended
    <3>4. Append(found, end)[1] = found[1]
      <4>1. 1 \in 1..Len(found)
        BY <3>1
      <4>2. \A i \in 1..Len(found) : Append(found, end)[i] = found[i]
        BY <3>1, AppendedKept, Zenon
      <4> QED
        BY <4>1, <4>2
    <3> QED
      BY <3>1, <3>3, <3>4
  <2> QED
    BY <1>14, <2>1
<1>5. local \in WordType /\ local.of = id /\ local.part = "head"
  <2>1. missed[1] \in WordType
    <3>1. missed \in Seq(WordType) /\ 1 \in 1..Len(missed)
      BY <1>1
    <3> QED
      BY <3>1, ElementOfSeq, Zenon
  <2> DEFINE w == missed[1]
  <2> HIDE DEF w
  <2>2. w \in WordType /\ w.of = id /\ w.part = "head" /\ local = [w EXCEPT !.local = TRUE]
    BY <1>1, <2>1 DEF w
  <2> HIDE DEF local
  <2> QED
    BY <2>2 DEF WordType
<1>6. /\ <<local, missed[2]>> \in Seq(WordType) /\ Len(<<local, missed[2]>>) = 2
      /\ <<local, missed[2]>>[1].of = id /\ <<local, missed[2]>>[1].part = "head"
  <2> HIDE DEF local
  <2> QED
    BY <1>1, <1>5, Two
<1>7. /\ <<end>> \in Seq(WordType) /\ Len(<<end>>) = 1 /\ <<end>>[1].of = id
      /\ <<one>> \in Seq(WordType) /\ Len(<<one>>) = 1
      /\ <<one>>[1].of = id /\ <<one>>[1].part = "head" /\ <<one>>[1].ok /\ <<one>>[1].size = 0
  <2>1. one.of = id /\ one.part = "head" /\ one.ok /\ one.size = 0
    BY DEF Word
  <2> HIDE DEF end, one
  <2> QED
    BY <1>3, <2>1, One
<1>8. /\ op \in {"get", "gettimed", "multiget"} => a \in {found, missed}
      /\ op \in {"ret", "multiret"} => a \in {found, missed, <<one>>}
      /\ op = "scan" => a \in {<<end>>, Append(found, end)}
      /\ op = "flushall" => a = done
      /\ op = "delete" => a \in {done, missed}
      /\ op \notin {"get", "gettimed", "multiget", "ret", "multiret", "scan", "flushall", "delete"} =>
           a \in {done, missed, <<local, missed[2]>>}
  BY DEF Answers, missed, done, found
<1> HIDE DEF end, one, local
<1> DEFINE atOnce == <<one>>  ended == <<end>>  longer == Append(found, end)
           refused == <<local, missed[2]>>
<1>15. /\ atOnce \in Seq(WordType) /\ Len(atOnce) = 1
       /\ atOnce[1].of = id /\ atOnce[1].part = "head" /\ atOnce[1].ok /\ atOnce[1].size = 0
       /\ ended \in Seq(WordType) /\ Len(ended) = 1 /\ ended[1].of = id
       /\ longer \in Seq(WordType) /\ Len(longer) = 4 /\ longer[1].of = id
       /\ refused \in Seq(WordType) /\ Len(refused) = 2
       /\ refused[1].of = id /\ refused[1].part = "head"
  BY <1>4, <1>6, <1>7, Zenon
<1>16. /\ op \in {"ret", "multiret"} => a \in {found, missed, atOnce}
       /\ op = "scan" => a \in {ended, longer}
       /\ op \notin {"get", "gettimed", "multiget", "ret", "multiret", "scan", "flushall", "delete"} =>
            a \in {done, missed, refused}
  BY <1>8, Zenon
<1> HIDE DEF atOnce, ended, longer, refused
<1>17. /\ a = found => a \in Seq(WordType) /\ Len(a) = 3 /\ a[1].of = id /\ a[1].part = "head"
       /\ a = missed => a \in Seq(WordType) /\ Len(a) = 2 /\ a[1].of = id /\ a[1].part = "head"
       /\ a = atOnce => a \in Seq(WordType) /\ Len(a) = 1 /\ a[1].of = id /\ a[1].part = "head"
  BY <1>1, <1>14, <1>15
<1>18. /\ a = found => a[1].ok /\ a[1].size = 1
       /\ a = missed => ~a[1].ok /\ a[1].size = 0
       /\ a = atOnce => a[1].ok /\ a[1].size = 0
  BY <1>1, <1>14, <1>15, Zenon
<1>19. op \in {"get", "gettimed", "multiget", "ret", "multiret"} =>
         a \in Seq(WordType) /\ Len(a) >= 1 /\ a[1].of = id /\ a[1].part = "head"
  BY <1>8, <1>16, <1>17
<1>9. CASE op \in {"get", "gettimed", "multiget"}
  <2>1. a \in {found, missed}
    BY <1>8, <1>9, Zenon
  <2>2. \/ Len(a) = 3 /\ a[1].ok /\ a[1].size = 1
        \/ Len(a) = 2 /\ ~a[1].ok /\ a[1].size = 0
    BY <1>17, <1>18, <2>1, Zenon
  <2>3. op \notin {"ret", "multiret", "scan", "delete"}
    BY <1>9
  <2> QED
    BY <1>9, <1>19, <2>2, <2>3, Zenon
<1>10. CASE op \in {"ret", "multiret"}
  <2>1. a \in {found, missed, atOnce}
    BY <1>16, <1>10, Zenon
  <2>2. \/ Len(a) = 3 /\ a[1].ok /\ a[1].size = 1
        \/ Len(a) = 2 /\ ~a[1].ok /\ a[1].size = 0
        \/ Len(a) = 1 /\ a[1].ok /\ a[1].size = 0
    BY <1>17, <1>18, <2>1, Zenon
  <2>3. op \notin {"get", "gettimed", "multiget", "scan", "delete"}
    BY <1>10
  <2> QED
    BY <1>10, <1>19, <2>2, <2>3, Zenon
<1>11. CASE op = "scan"
  BY <1>15, <1>16, <1>11
<1>12. CASE op \in {"flushall", "delete"}
  <2>1. a = done \/ a = missed
    BY <1>8, <1>12
  <2>2. /\ a \in Seq(WordType) /\ Len(a) = 2
        /\ a[1].of = id /\ a[1].part = "head" /\ a[1].size = 0
    BY <1>1, <1>2, <2>1, Zenon
  <2>3. op \notin {"get", "gettimed", "multiget", "ret", "multiret", "scan"}
    BY <1>12
  <2>4. Len(a) >= 1
    BY <2>2
  <2> QED
    BY <1>12, <2>2, <2>3, <2>4, Zenon
<1>13. CASE op \notin {"get", "gettimed", "multiget", "ret", "multiret", "scan", "flushall", "delete"}
  BY <1>1, <1>2, <1>15, <1>16, <1>13
<1> QED
  BY <1>9, <1>10, <1>11, <1>12, <1>13

\* The parser of the operation takes a whole answer to its request, or closes the
\* connection: after a miss, of which it leaves the second word.
LEMMA ParseOwn ==
  ASSUME NEW op \in Ops, op # "scan", NEW id \in Requests, NEW a \in Answers(op, id),
         NEW ws, ws[1] = a[1]
  PROVE  /\ Parse(op, ws).took # 0 /\ ws[1].of = id
         /\ Parse(op, ws).err \in {"nil", "miss", "ErrNotStored"}
         /\ Parse(op, ws).err # "miss" => Parse(op, ws).took = Len(a)
         /\ Parse(op, ws).err = "ErrNotStored" => op \in SingleSets \cup {"setmulti"}
         /\ Parse(op, ws).err = "miss" => op # "setmulti"
<1>1. op \in AllOps
  BY ClientAssumption
<1>2. ws[1].of = id /\ ws[1].part = "head"
  BY AnswerCases
<1>3. CASE op \in {"get", "multiget", "gettimed"}
  <2>1. CASE Len(a) = 3 /\ ws[1].ok /\ ws[1].size = 1
    <3>1. ParseZsoltResponse(ws) = Took(3, "nil")
      BY <1>2, <2>1 DEF ParseZsoltResponse
    <3>2. Parse(op, ws) = Took(3, "nil")
      BY <1>3, <3>1 DEF Parse, ParseZsoltResponseWt, Took, SingleSets
    <3> QED
      BY <1>2, <2>1, <3>2 DEF Took, SingleSets
  <2>2. CASE Len(a) = 2 /\ ~ws[1].ok /\ ws[1].size = 0
    <3>1. ParseZsoltResponse(ws) = Took(1, "miss")
      BY <1>2, <2>2 DEF ParseZsoltResponse
    <3>2. Parse(op, ws) \in {Took(1, "miss"), Took(2, "miss")}
      BY <1>3, <3>1 DEF Parse, ParseZsoltResponseWt, Took, SingleSets
    <3> QED
      BY <1>3, <1>2, <2>2, <3>2 DEF Took
  <2> QED
    BY <1>3, <2>1, <2>2, AnswerCases
<1>4. CASE op = "delete"
  <2>1. Len(a) = 2 /\ ws[1].size = 0
    BY <1>4, AnswerCases
  <2> QED
    BY <1>2, <1>4, <2>1 DEF Parse, ParseZsoltResponse, Took, SingleSets
<1>5. CASE op \in {"ret", "multiret"}
  <2>1. CASE Len(a) = 3 /\ ws[1].ok /\ ws[1].size = 1
    <3>1. ParseZsoltResponseCOND(ws) = Took(3, "nil")
      BY <1>2, <2>1 DEF ParseZsoltResponseCOND
    <3>2. Parse(op, ws) = Took(3, "nil")
      BY <1>2, <1>5, <2>1, <3>1 DEF Parse, ParseMultiRet
    <3> QED
      BY <1>2, <2>1, <3>2 DEF Took, SingleSets
  <2>2. CASE Len(a) = 2 /\ ~ws[1].ok /\ ws[1].size = 0
    <3>1. ParseZsoltResponseCOND(ws) = Took(2, "miss")
      BY <1>2, <2>2 DEF ParseZsoltResponseCOND
    <3>2. Parse(op, ws) = Took(2, "miss")
      BY <1>2, <1>5, <2>2, <3>1 DEF Parse, ParseMultiRet
    <3> QED
      BY <1>5, <1>2, <2>2, <3>2 DEF Took
  <2>3. CASE Len(a) = 1 /\ ws[1].ok /\ ws[1].size = 0
    <3>1. ParseZsoltResponseCOND(ws) = Took(1, "nil")
      BY <1>2, <2>3 DEF ParseZsoltResponseCOND
    <3>2. Parse(op, ws) = Took(1, "nil")
      BY <1>2, <1>5, <2>3, <3>1 DEF Parse, ParseMultiRet
    <3> QED
      BY <1>2, <2>3, <3>2 DEF Took, SingleSets
  <2> QED
    BY <1>5, <2>1, <2>2, <2>3, AnswerCases
<1>6. CASE op \in {"flushall", "setmulti", "set", "asyncset", "asyncsetlast", "asyncresponse"}
  <2>1. Len(a) = 2
    BY <1>6, AnswerCases
  <2> QED
    BY <1>2, <1>6, <2>1 DEF Parse, ParseFlush, ParseStored, ParseStoredMany, Took, SingleSets
<1> QED
  BY <1>1, <1>3, <1>4, <1>5, <1>6 DEF AllOps

\* A set of numbers has a first one.
LEMMA FirstOf ==
  ASSUME NEW n \in Nat, NEW S \in SUBSET (1..n), S # {}
  PROVE  \E i \in S : \A j \in S : i <= j
<1>1. S \subseteq Nat
  OBVIOUS
<1>2. PICK i \in S : \A j \in S : <<j, i>> \notin OpToRel(<, Nat)
  BY <1>1, NatLessThanWellFounded, WFMin, Zenon
<1>3. \A j \in S : ~(j < i)
  BY <1>1, <1>2 DEF OpToRel
<1> QED
  BY <1>1, <1>3

\* A parser takes a number of words.
LEMMA ParseTakes ==
  ASSUME NEW op \in Ops, NEW ws \in Seq(WordType), ws # <<>>
  PROVE  Parse(op, ws).took \in Nat
<1>1. ws[1] \in WordType /\ Len(ws) \in Nat
  OBVIOUS
<1>2. ws[1].size \in {0, 1}
  BY <1>1 DEF WordType
<1>3. ParseScan(ws).took \in Nat
  <2> DEFINE ends == {i \in 1..Len(ws) : ws[i].part = "end"}
             first == CHOOSE i \in ends : \A j \in ends : i <= j
  <2>1. CASE ends = {}
    BY <1>1, <2>1 DEF ParseScan, Took
  <2>2. CASE ends # {}
    <3>1. ends \in SUBSET (1..Len(ws))
      OBVIOUS
    <3>2. \E i \in ends : \A j \in ends : i <= j
      BY <1>1, <2>2, <3>1, FirstOf
    <3>3. first \in ends
      BY <3>2
    <3>4. ParseScan(ws).took = first - 1
      BY <2>2 DEF ParseScan, Took
    <3> QED
      BY <3>3, <3>4
  <2> QED
    BY <2>1, <2>2
<1>4. ParseZsoltResponse(ws).took \in Nat /\ ParseZsoltResponseWt(ws).took \in Nat
  BY <1>2 DEF ParseZsoltResponse, ParseZsoltResponseWt, Took
<1>5. ParseZsoltResponseCOND(ws).took \in Nat /\ ParseMultiRet(ws).took \in Nat
  BY <1>2 DEF ParseZsoltResponseCOND, ParseMultiRet, Took
<1>6. /\ ParseFlush(ws).took \in Nat /\ ParseStored(ws).took \in Nat
      /\ ParseStoredMany(ws).took \in Nat
  BY DEF ParseFlush, ParseStored, ParseStoredMany, Took
<1> QED
  BY <1>3, <1>4, <1>5, <1>6 DEF Parse

-----------------------------------------------------------------------------
(* The pool. *)

\* The constants are numbers.
LEMMA ConstantTypes ==
  /\ ServerCount \in Nat /\ ServerCount >= 1 /\ MaxIdleConns \in Nat /\ MaxIdleConns >= 1
  /\ MaxConns \in Nat /\ MaxRequests \in Nat /\ MaxTimeouts \in Nat
BY ClientAssumption

\* What Return does, and when it keeps the connection.
LEMMA ReturnGivesBack ==
  ASSUME PoolType, CallShape, NEW c \in Callers, call[c].conn # 0, NEW err, Return(c, err)
  PROVE  \E kept \in BOOLEAN :
           GivenBack(c, kept) /\ (kept => Deferred(call[c].op, err) \in {"nil", "ErrNotStored"})
<1> DEFINE k == call[c]
           again == [Idle EXCEPT !.op = "flushall", !.server = k.server + 1]
           r == IF k.op = "flushall" /\ err = "nil" /\ k.server < ServerCount THEN again ELSE Idle
<1>1. k \in CallType
  BY DEF PoolType
<1>2. r \in CallType /\ r.conn = 0 /\ r.reads = <<>> /\ r.op \in {"none", "flushall"}
  <2>1. 1 \in Servers /\ <<>> \in Seq(Requests \cup {0})
    BY ConstantTypes DEF Servers
  <2>2. Idle \in CallType /\ Idle.conn = 0 /\ Idle.reads = <<>> /\ Idle.op = "none"
    BY <2>1 DEF Idle, CallType
  <2>3. ASSUME k.op = "flushall", k.server < ServerCount
        PROVE  /\ again \in CallType /\ again.conn = 0 /\ again.reads = <<>>
               /\ again.op = "flushall"
    <3>1. k.server + 1 \in Servers /\ "flushall" \in Ops
      BY <1>1, <2>3, ConstantTypes DEF CallType, Servers
    <3> QED
      BY <2>1, <3>1 DEF Idle, CallType
  <2> QED
    BY <2>2, <2>3
<1>3. call' = [call EXCEPT ![c] = r]
  BY Zenon DEF Return
<1>4. CondRelease(k.conn, Deferred(k.op, err))
  BY Zenon DEF Return
<1> HIDE DEF k, r
<1>5. at' = at
  BY <1>4 DEF CondRelease
<1>6. CASE Deferred(k.op, err) = "nil" \/ ResumableError(Deferred(k.op, err))
  <2>1. PutFreeConn(k.conn)
    BY <1>4, <1>6 DEF CondRelease
  <2>2. Deferred(k.op, err) \in {"nil", "ErrNotStored"}
    BY <1>6 DEF ResumableError
  <2>3. CASE Len(free[at[k.conn]]) < MaxIdleConns
    <3>1. GivenBack(c, TRUE)
      BY <1>2, <1>3, <1>5, <2>1, <2>3 DEF GivenBack, PutFreeConn, k
    <3> QED
      BY <2>2, <3>1 DEF k
  <2>4. CASE ~(Len(free[at[k.conn]]) < MaxIdleConns)
    <3>1. GivenBack(c, FALSE)
      BY <1>2, <1>3, <1>5, <2>1, <2>4 DEF GivenBack, PutFreeConn, k
    <3> QED
      BY <3>1
  <2> QED
    BY <2>3, <2>4
<1>7. CASE ~(Deferred(k.op, err) = "nil" \/ ResumableError(Deferred(k.op, err)))
  <2>1. GivenBack(c, FALSE)
    BY <1>2, <1>3, <1>4, <1>5, <1>7 DEF GivenBack, CondRelease, k
  <2> QED
    BY <2>1
<1> QED
  BY <1>6, <1>7

\* A connection that is given back goes to the end of its list or is closed, and
\* what nobody holds any more is in one place at most.
LEMMA GivenBackPool ==
  ASSUME PoolType, PoolInv, NEW c \in Callers, call[c].conn # 0,
         NEW kept \in BOOLEAN, GivenBack(c, kept)
  PROVE  PoolType' /\ PoolInv'
<1> DEFINE cn == call[c].conn
           home == at[cn]
<1>1. PICK r \in CallType : /\ r.conn = 0 /\ r.reads = <<>> /\ r.op \in {"none", "flushall"}
                            /\ call' = [call EXCEPT ![c] = r]
  BY DEF GivenBack
<1>2. cn \in open /\ ~Free(cn) /\ \A d \in Callers : call[d].conn = cn => d = c
  BY DEF PoolInv, Held
<1>3. cn \in 1..Len(at) /\ cn \in Conns /\ home \in Servers /\ cn # 0 /\ Len(at) \in Nat
  <2> HIDE DEF cn
  <2>1. cn \in 1..Len(at) /\ Len(at) \in Nat /\ Len(at) <= MaxConns
    <3>1. open \subseteq 1..Len(at) /\ Len(at) \in Nat /\ Len(at) <= MaxConns
      BY DEF PoolType
    <3> QED
      BY <1>2, <3>1
  <2>2. at \in [1..Len(at) -> Servers]
    BY DEF PoolType
  <2> QED
    BY <2>1, <2>2, ConstantTypes DEF Conns
<1>4. at' = at
  BY DEF GivenBack
<1>5. \A d \in Callers : call'[d] = IF d = c THEN r ELSE call[d]
  BY <1>1 DEF PoolType
<1> HIDE DEF cn, home
<1>6. call' \in [Callers -> CallType] /\ CallShape'
  BY <1>1, <1>5 DEF PoolType, PoolInv, CallShape
<1>7. CASE ~kept
  <2>1. free' = free /\ open' = open \ {cn}
    BY <1>7 DEF GivenBack, cn
  <2>2. \A x : Free(x)' <=> Free(x)
    BY <2>1 DEF Free
  <2>3. PoolType'
    BY <1>4, <1>6, <2>1 DEF PoolType
  <2>4. Held'
    BY <1>1, <1>2, <1>5, <2>1, <2>2 DEF PoolInv, Held, cn
  <2>5. Listed'
    <3>1. \A s \in Servers : \A i \in 1..Len(free[s]) : free[s][i] # cn
      BY <1>2 DEF Free
    <3> QED
      BY <1>4, <2>1, <3>1 DEF PoolInv, Listed
  <2>6. NoneLost'
    BY <1>1, <1>2, <1>5, <2>1, <2>2 DEF PoolInv, NoneLost, cn
  <2> QED
    BY <1>6, <2>3, <2>4, <2>5, <2>6 DEF PoolInv
<1>8. CASE kept
  <2> DEFINE old == free[home]
             new == Append(old, cn)
  <2>1. Len(old) < MaxIdleConns /\ free' = [free EXCEPT ![home] = new] /\ open' = open
    BY <1>8 DEF GivenBack, cn, home
  <2>2. old \in Seq(Conns) /\ Len(old) \in Nat
    BY <1>3 DEF PoolType
  <2>3. /\ new \in Seq(Conns) /\ Len(new) = Len(old) + 1 /\ new[Len(old) + 1] = cn
        /\ \A i \in 1..Len(old) : new[i] = old[i]
    BY <1>3, <2>2
  <2>4. \A s \in Servers : free'[s] = IF s = home THEN new ELSE free[s]
    BY <2>1 DEF PoolType
  <2> HIDE DEF new
  <2>5. PoolType'
    <3>1. free' \in [Servers -> Seq(Conns)]
      BY <2>1, <2>3 DEF PoolType
    <3>2. \A s \in Servers : Len(free'[s]) <= MaxIdleConns
      BY <2>1, <2>2, <2>3, <2>4, ConstantTypes DEF PoolType
    <3> QED
      BY <1>4, <1>6, <2>1, <3>1, <3>2 DEF PoolType
  <2>6. \A i \in 1..Len(new) : i \in 1..Len(old) \/ i = Len(old) + 1
    BY <2>2, <2>3
  <2>7. \A x : Free(x)' <=> (Free(x) \/ x = cn)
    <3> SUFFICES ASSUME NEW x PROVE Free(x)' <=> (Free(x) \/ x = cn)
      OBVIOUS
    <3>1. ASSUME NEW s \in Servers, NEW i \in 1..Len(free'[s]), free'[s][i] = x
          PROVE  Free(x) \/ x = cn
      BY <2>3, <2>4, <2>6, <3>1 DEF Free
    <3>2. ASSUME NEW s \in Servers, NEW i \in 1..Len(free[s]), free[s][i] = x
          PROVE  i \in 1..Len(free'[s]) /\ free'[s][i] = x
      BY <2>2, <2>3, <2>4, <3>2 
    <3>3. Len(old) + 1 \in 1..Len(free'[home]) /\ free'[home][Len(old) + 1] = cn
      BY <1>3, <2>2, <2>3, <2>4
    <3>4. Free(x)' => Free(x) \/ x = cn
      BY <3>1 DEF Free
    <3>5. Free(x) => Free(x)'
      BY <3>2 DEF Free
    <3>6. ASSUME x = cn PROVE Free(x)'
      BY <1>3, <3>3, <3>6 DEF Free
    <3> QED
      BY <3>4, <3>5, <3>6
  <2>8. Held'
    BY <1>1, <1>2, <1>5, <2>1, <2>7 DEF PoolInv, Held, cn
  <2>9. Listed'
    <3> SUFFICES ASSUME NEW s \in Servers
                 PROVE  /\ \A i \in 1..Len(free'[s]) : free'[s][i] \in open /\ at[free'[s][i]] = s
                        /\ \A i, j \in 1..Len(free'[s]) : free'[s][i] = free'[s][j] => i = j
      BY <1>4, <2>1 DEF Listed
    <3>1. /\ \A i \in 1..Len(free[s]) : free[s][i] \in open /\ at[free[s][i]] = s /\ free[s][i] # cn
          /\ \A i, j \in 1..Len(free[s]) : free[s][i] = free[s][j] => i = j
      BY <1>2 DEF PoolInv, Listed, Free
    <3>2. CASE s # home
      BY <2>4, <3>1, <3>2
    <3>3. CASE s = home
      <4>1. free'[s] = new
        BY <2>4, <3>3
      <4>2. ASSUME NEW i \in 1..Len(new) PROVE new[i] \in open /\ at[new[i]] = s
        BY <1>2, <2>3, <2>6, <3>1, <3>3 DEF home
      <4>3. ASSUME NEW i \in 1..Len(new), NEW j \in 1..Len(new), new[i] = new[j] PROVE i = j
        BY <2>3, <2>6, <3>1, <3>3, <4>3
      <4> QED
        BY <4>1, <4>2, <4>3
    <3> QED
      BY <3>2, <3>3
  <2>10. NoneLost'
    BY <1>1, <1>2, <1>5, <2>1, <2>7 DEF PoolInv, NoneLost, cn
  <2> QED
    BY <1>6, <2>5, <2>8, <2>9, <2>10 DEF PoolInv
<1> QED
  BY <1>7, <1>8

\* getConn hands out a connection that was the last of its list, or a new one.
LEMMA TakenPool ==
  ASSUME PoolType, PoolInv, NEW c \in Callers, call[c].conn = 0, NEW s \in Servers,
         NEW cn \in Conns, GetConn(s, cn), NEW r \in CallType, r.conn = cn, r.op # "none",
         call' = [call EXCEPT ![c] = r]
  PROVE  /\ PoolType' /\ PoolInv'
         /\ Free(cn) \/ cn > Len(at)
         /\ Len(at') >= Len(at) /\ cn <= Len(at')
         /\ \A x : Free(x)' => Free(x)
         /\ \A d \in Callers \ {c} : call[d].conn # cn
<1>1. \A d \in Callers : call'[d] = IF d = c THEN r ELSE call[d]
  BY DEF PoolType
<1>2. call' \in [Callers -> CallType] /\ CallShape' /\ cn # 0
  BY <1>1 DEF PoolType, PoolInv, CallShape, Conns
<1>3. free[s] \in Seq(Conns) /\ Len(free[s]) \in Nat /\ Len(at) \in Nat
  BY DEF PoolType
<1>4. CASE free[s] # <<>> /\ cn = Last(free[s])
  <2> DEFINE n == Len(free[s])
             new == SubSeq(free[s], 1, n - 1)
  <2>1. free' = [free EXCEPT ![s] = new] /\ at' = at /\ open' = open
    BY <1>4 DEF GetConn, Remains, Front
  <2>2. n \in 1..n /\ free[s][n] = cn /\ n - 1 \in Nat
    BY <1>3, <1>4 DEF Last
  <2>3. new \in Seq(Conns) /\ Len(new) = n - 1 /\ \A i \in 1..(n - 1) : new[i] = free[s][i]
    BY <1>3, <2>2
  <2>4. \A t \in Servers : free'[t] = IF t = s THEN new ELSE free[t]
    BY <2>1 DEF PoolType
  <2> HIDE DEF new, n
  <2>5. \A i \in 1..(n - 1) : i \in 1..n /\ i # n
    BY <2>2
  <2>6. cn \in open /\ at[cn] = s
    BY <2>2 DEF PoolInv, Listed, n
  <2>7. \A i \in 1..(n - 1) : free[s][i] # cn
    <3>1. \A i, j \in 1..n : free[s][i] = free[s][j] => i = j
      BY DEF PoolInv, Listed, n
    <3> QED
      BY <2>2, <2>5, <3>1
  <2>8. \A x : Free(x)' <=> (Free(x) /\ x # cn)
    <3>1. ASSUME NEW x, NEW t \in Servers, NEW i \in 1..Len(free'[t]), free'[t][i] = x
          PROVE  Free(x) /\ x # cn
      <4>1. CASE t = s
        BY <2>3, <2>4, <2>5, <2>7, <3>1, <4>1 DEF Free, n
      <4>2. CASE t # s
        <5>1. i \in 1..Len(free[t]) /\ free[t][i] = x
          BY <2>4, <3>1, <4>2
        <5>2. at[x] = t
          BY <5>1 DEF PoolInv, Listed
        <5> QED
          BY <2>6, <4>2, <5>1, <5>2 DEF Free
      <4> QED
        BY <4>1, <4>2
    <3>2. ASSUME NEW x, NEW t \in Servers, NEW i \in 1..Len(free[t]), free[t][i] = x, x # cn
          PROVE  Free(x)'
      <4>1. CASE t # s
        BY <2>4, <3>2, <4>1 DEF Free
      <4>2. CASE t = s
        <5>1. i \in 1..n /\ i # n
          BY <2>2, <3>2, <4>2 DEF n
        <5>2. i \in 1..(n - 1)
          BY <2>2, <5>1
        <5> QED
          BY <2>3, <2>4, <3>2, <4>2, <5>2 DEF Free
      <4> QED
        BY <4>1, <4>2
    <3>3. \A x : Free(x)' => Free(x) /\ x # cn
      BY <3>1 DEF Free
    <3>4. \A x : Free(x) /\ x # cn => Free(x)'
      <4> SUFFICES ASSUME NEW x, Free(x), x # cn PROVE Free(x)'
        OBVIOUS
      <4>1. PICK t \in Servers : \E i \in 1..Len(free[t]) : free[t][i] = x
        BY DEF Free
      <4> QED
        BY <3>2, <4>1
    <3> QED
      BY <3>3, <3>4
  <2>9. Free(cn)
    BY <2>2 DEF Free, n
  <2>10. \A d \in Callers : call[d].conn # cn
    BY <1>2, <2>9 DEF PoolInv, Held
  <2>11. PoolType'
    <3>1. Len(new) <= MaxIdleConns /\ free' \in [Servers -> Seq(Conns)]
      BY <2>1, <2>2, <2>3, ConstantTypes DEF PoolType, n
    <3>2. \A t \in Servers : Len(free'[t]) <= MaxIdleConns
      BY <2>4, <3>1 DEF PoolType
    <3> QED
      BY <1>2, <2>1, <3>1, <3>2 DEF PoolType
  <2>12. Held'
    BY <1>1, <2>1, <2>6, <2>8, <2>10 DEF PoolInv, Held
  <2>13. Listed'
    <3> SUFFICES ASSUME NEW t \in Servers
                 PROVE  /\ \A i \in 1..Len(free'[t]) : free'[t][i] \in open /\ at[free'[t][i]] = t
                        /\ \A i, j \in 1..Len(free'[t]) : free'[t][i] = free'[t][j] => i = j
      BY <2>1 DEF Listed
    <3>1. CASE t = s
      <4>1. /\ \A i \in 1..n : free[s][i] \in open /\ at[free[s][i]] = s
            /\ \A i, j \in 1..n : free[s][i] = free[s][j] => i = j
        BY DEF PoolInv, Listed, n
      <4>2. free'[t] = new /\ \A i \in 1..Len(new) : i \in 1..n /\ new[i] = free[s][i]
        BY <2>3, <2>4, <2>5, <3>1
      <4> QED
        BY <3>1, <4>1, <4>2
    <3>2. CASE t # s
      BY <2>4, <3>2 DEF PoolInv, Listed
    <3> QED
      BY <3>1, <3>2
  <2>14. NoneLost'
    <3> SUFFICES ASSUME NEW x \in open PROVE Free(x)' \/ \E d \in Callers : call'[d].conn = x
      BY <2>1 DEF NoneLost
    <3>1. CASE x = cn
      BY <1>1, <3>1
    <3>2. CASE x # cn
      <4>1. Free(x) \/ \E d \in Callers : call[d].conn = x
        BY DEF PoolInv, NoneLost
      <4>2. x # 0
        BY DEF PoolType
      <4>3. ASSUME NEW d \in Callers, call[d].conn = x PROVE call'[d].conn = x
        BY <1>1, <4>2, <4>3
      <4> QED
        BY <2>8, <3>2, <4>1, <4>3
    <3> QED
      BY <3>1, <3>2
  <2> QED
    BY <1>2, <1>3, <2>1, <2>6, <2>8, <2>9, <2>10, <2>11, <2>12, <2>13, <2>14 DEF PoolInv, PoolType
<1>5. CASE free[s] = <<>> /\ cn = Len(at) + 1
  <2>1. at' = Append(at, s) /\ open' = open \cup {cn} /\ free' = free
    BY <1>5 DEF GetConn
  <2>2. /\ at' \in Seq(Servers) /\ Len(at') = cn /\ at'[cn] = s
        /\ \A i \in 1..Len(at) : at'[i] = at[i]
    BY <1>5, <2>1 DEF PoolType
  <2>3. \A x : Free(x)' <=> Free(x)
    BY <2>1 DEF Free
  <2>4. cn \notin open /\ \A x \in open : x \in 1..Len(at)
    BY <1>3, <1>5 DEF PoolType
  <2>5. ~Free(cn) /\ \A d \in Callers : call[d].conn # cn
    BY <1>2, <2>4 DEF PoolInv, Held, Listed, Free
  <2>6. PoolType'
    <3>1. open' \subseteq 1..Len(at')
      BY <1>3, <1>5, <2>1, <2>2, <2>4
    <3>2. Len(at') <= MaxConns
      BY <2>2, ConstantTypes DEF Conns
    <3> QED
      BY <1>2, <2>1, <2>2, <3>1, <3>2 DEF PoolType
  <2>7. Held'
    BY <1>1, <2>1, <2>3, <2>5 DEF PoolInv, Held
  <2>8. Listed'
    BY <2>1, <2>2, <2>4 DEF PoolInv, Listed
  <2>9. NoneLost'
    <3> SUFFICES ASSUME NEW x \in open' PROVE Free(x)' \/ \E d \in Callers : call'[d].conn = x
      BY DEF NoneLost
    <3>1. CASE x = cn
      BY <1>1, <3>1
    <3>2. CASE x # cn
      <4>1. x \in open /\ x # 0
        BY <1>3, <2>1, <2>4, <3>2
      <4>2. Free(x) \/ \E d \in Callers : call[d].conn = x
        BY <4>1 DEF PoolInv, NoneLost
      <4>3. ASSUME NEW d \in Callers, call[d].conn = x PROVE call'[d].conn = x
        BY <1>1, <4>1, <4>3
      <4> QED
        BY <2>3, <4>2, <4>3
    <3> QED
      BY <3>1, <3>2
  <2>10. cn > Len(at) /\ Len(at') >= Len(at) /\ cn <= Len(at')
    BY <1>3, <1>5, <2>2
  <2> QED
    BY <1>2, <2>3, <2>5, <2>6, <2>7, <2>8, <2>9, <2>10 DEF PoolInv
<1> QED
  BY <1>4, <1>5 DEF GetConn

\* A list of different connections is not longer than there are connections.
LEMMA ListBound ==
  ASSUME NEW l \in Seq(Conns), \A i, j \in 1..Len(l) : l[i] = l[j] => i = j
  PROVE  Len(l) <= MaxConns
<1>1. l \in [1..Len(l) -> Conns] /\ Len(l) \in Nat
  OBVIOUS
<1>2. l \in Injection(1..Len(l), Conns)
  BY <1>1 DEF Injection, IsInjective
<1>3. IsFiniteSet(Conns) /\ Cardinality(Conns) = MaxConns
  <2>1. MaxConns \in Int /\ 1 \in Int /\ (1 > MaxConns => MaxConns = 0)
    BY ConstantTypes
  <2> QED
    BY <2>1, FS_Interval DEF Conns
<1>4. Cardinality(1..Len(l)) <= Cardinality(Conns)
  BY <1>2, <1>3, FS_Injection
<1>5. Cardinality(1..Len(l)) = Len(l)
  <2>1. Len(l) \in Int /\ 1 \in Int /\ (1 > Len(l) => Len(l) = 0)
    BY <1>1
  <2> QED
    BY <2>1, FS_Interval
<1> QED
  BY <1>3, <1>4, <1>5

\* What the pool's invariant says of the places of a connection.
LEMMA PoolPlaces == ASSUME PoolType, PoolInv PROVE OnePlace
<1> DEFINE Lists(cn) == {p \in Servers \X (1..MaxConns) : p[2] <= Len(free[p[1]]) /\ free[p[1]][p[2]] = cn}
           Hands(cn) == {c \in Callers : call[c].conn = cn}
<1>1. \A cn : Places(cn) = Lists(cn) \cup Hands(cn)
  BY DEF Places
<1>2. ASSUME NEW s \in Servers, NEW i \in 1..Len(free[s])
      PROVE  i \in 1..MaxConns /\ free[s][i] \in open /\ at[free[s][i]] = s
  <2>1. free[s] \in Seq(Conns) /\ Len(free[s]) \in Nat
    BY DEF PoolType
  <2>2. \A k, j \in 1..Len(free[s]) : free[s][k] = free[s][j] => k = j
    BY DEF PoolInv, Listed
  <2>3. Len(free[s]) <= MaxConns
    BY <2>1, <2>2, ListBound
  <2> QED
    BY <2>1, <2>3, ConstantTypes DEF PoolInv, Listed
<1>3. ASSUME NEW cn, ~Free(cn) PROVE Lists(cn) = {}
  <2> SUFFICES ASSUME NEW p \in Lists(cn) PROVE FALSE
    OBVIOUS
  <2>1. p[1] \in Servers /\ p[2] \in 1..MaxConns /\ p[2] <= Len(free[p[1]]) /\ free[p[1]][p[2]] = cn
    OBVIOUS
  <2>2. Len(free[p[1]]) \in Nat
    BY <2>1 DEF PoolType
  <2>3. p[2] \in 1..Len(free[p[1]])
    BY <2>1, <2>2, ConstantTypes
  <2> QED
    BY <1>3, <2>1, <2>3 DEF Free
<1>4. ASSUME NEW cn \in Conns \ open PROVE Places(cn) = {}
  <2>1. ~Free(cn)
    BY DEF PoolInv, Listed, Free
  <2>2. Hands(cn) = {}
    BY DEF PoolInv, Held, Conns
  <2> QED
    BY <1>1, <1>3, <2>1, <2>2
<1>5. ASSUME NEW cn \in open PROVE \E x : Places(cn) = {x}
  <2>1. CASE Free(cn)
    <3>1. PICK s \in Servers : \E i \in 1..Len(free[s]) : free[s][i] = cn
      BY <2>1 DEF Free
    <3>2. PICK i \in 1..Len(free[s]) : free[s][i] = cn
      BY <3>1
    <3>3. Len(free[s]) \in Nat
      BY DEF PoolType
    <3>4. <<s, i>> \in Lists(cn)
      BY <1>2, <3>2, <3>3
    <3>5. ASSUME NEW p \in Lists(cn) PROVE p = <<s, i>>
      <4>1. /\ p = <<p[1], p[2]>> /\ p[1] \in Servers /\ p[2] \in 1..MaxConns
            /\ p[2] <= Len(free[p[1]]) /\ free[p[1]][p[2]] = cn
        OBVIOUS
      <4>2. Len(free[p[1]]) \in Nat
        BY <4>1 DEF PoolType
      <4>3. p[2] \in 1..Len(free[p[1]])
        BY <4>1, <4>2, ConstantTypes
      <4>4. p[1] = s
        BY <1>2, <3>2, <4>1, <4>3
      <4>5. p[2] = i
        BY <3>2, <4>1, <4>3, <4>4 DEF PoolInv, Listed
      <4> QED
        BY <4>1, <4>4, <4>5
    <3>6. Hands(cn) = {}
      <4>1. cn # 0
        BY DEF PoolType
      <4> QED
        BY <2>1, <4>1 DEF PoolInv, Held
    <3>7. Lists(cn) = {<<s, i>>}
      BY <3>4, <3>5
    <3> QED
      BY <1>1, <3>6, <3>7
  <2>2. CASE ~Free(cn)
    <3>1. PICK c \in Callers : call[c].conn = cn
      BY <2>2 DEF PoolInv, NoneLost
    <3>2. cn # 0
      BY DEF PoolType
    <3>3. Hands(cn) = {c}
      BY <3>1, <3>2 DEF PoolInv, Held
    <3> QED
      BY <1>1, <1>3, <2>2, <3>3
  <2> QED
    BY <2>1, <2>2
<1>6. \A cn \in open : Cardinality(Places(cn)) = 1
  BY <1>5, FS_Singleton
<1> QED
  BY <1>4, <1>6 DEF OnePlace

-----------------------------------------------------------------------------
(* The requests and the streams. *)

\* One of them with equal elements added.
LEMMA ByEqual ==
  ASSUME NEW S, NEW s \in Seq(S), NEW x \in S, NEW n \in Nat, NEW t, t = s \o [i \in 1..n |-> x]
  PROVE  Lengthened(s, t, S, n, x)
<1> DEFINE e == [i \in 1..n |-> x]
<1>1. e \in Seq(S) /\ Len(e) = n /\ \A i \in 1..n : e[i] = x
  OBVIOUS
<1>2. t = s \o e
  OBVIOUS
<1> HIDE DEF e
<1>3. /\ s \o e \in Seq(S) /\ Len(s) \in Nat /\ Len(s \o e) = Len(s) + Len(e)
      /\ \A i \in 1..Len(s) : (s \o e)[i] = s[i]
      /\ \A i \in 1..Len(e) : (s \o e)[Len(s) + i] = e[i]
  <2>1. s \o e \in Seq(S) /\ Len(s) \in Nat /\ Len(s \o e) = Len(s) + Len(e)
    BY <1>1, Joined
  <2>2. \A i \in 1..Len(s) : (s \o e)[i] = s[i]
    BY <1>1, Joined, Zenon
  <2>3. ASSUME NEW i \in 1..Len(e) PROVE (s \o e)[Len(s) + i] = e[i]
    BY <1>1, JoinedRight
  <2> QED
    BY <2>1, <2>2, <2>3
<1> QED
  BY <1>1, <1>2, <1>3 DEF Lengthened

\* The two parts of a sequence.
LEMMA Parts ==
  ASSUME NEW S, NEW s \in Seq(S), NEW n \in 0..Len(s)
  PROVE  /\ SubSeq(s, 1, n) \in Seq(S) /\ Len(SubSeq(s, 1, n)) = n
         /\ SubSeq(s, n + 1, Len(s)) \in Seq(S) /\ Len(SubSeq(s, n + 1, Len(s))) = Len(s) - n
         /\ \A i \in 1..(Len(s) - n) : SubSeq(s, n + 1, Len(s))[i] = s[n + i]
OBVIOUS

\* What Issue writes, on which connection, and the call it begins.
LEMMA IssueEffect ==
  ASSUME Typed, NEW c \in Callers, NEW op \in Ops, NEW s \in Servers, Issue(c, op, s)
  PROVE  \E cn \in Conns, n \in Nat, ids \in Seq(Requests), r \in CallType :
           Issued(c, op, s, cn, n, ids, r)
<1> DEFINE n == FormOf(op).count
           ids == [i \in 1..n |-> Len(kind) + i]
<1>1. n \in Nat /\ FormOf(op).flushes \in BOOLEAN
  BY Forms
<1>2. /\ Len(kind) + n <= MaxRequests
      /\ kind' = kind \o [i \in 1..n |-> op] /\ given' = given \o [i \in 1..n |-> 0]
      /\ UNCHANGED <<words, tainted, timeouts>>
  BY DEF Issue
<1>3. PICK cn \in Conns :
        /\ GetConn(s, cn)
        /\ \E flushed \in (IF FormOf(op).flushes THEN {Len(written[cn] \o ids)}
                           ELSE IF n > 0 THEN 0..Len(written[cn] \o ids) ELSE {0}) :
             /\ sent' = [sent EXCEPT ![cn] = @ \o SubSeq(written[cn] \o ids, 1, flushed)]
             /\ written' = [written EXCEPT ![cn] =
                  SubSeq(written[cn] \o ids, flushed + 1, Len(written[cn] \o ids))]
        /\ call' = [call EXCEPT ![c] = [op |-> op, server |-> s, conn |-> cn, reads |-> Reads(op, ids)]]
        /\ via' = via \o [i \in 1..n |-> cn]
  BY Zenon DEF Issue
<1>4. ids \in Seq(Requests) /\ Len(ids) = n /\ \A i \in 1..n : ids[i] = Len(kind) + i
  <2>1. Len(kind) \in Nat
    BY DEF Typed, RequestType
  <2>2. \A i \in 1..n : Len(kind) + i \in Requests
    BY <1>1, <1>2, <2>1, ConstantTypes DEF Requests
  <2> HIDE DEF n
  <2> QED
    BY <1>1, <2>2
<1> HIDE DEF n, ids
<1>5. written[cn] \o ids \in Seq(Requests) /\ Len(written[cn] \o ids) \in Nat
  <2>1. written[cn] \in Seq(Requests)
    BY DEF Typed, StreamType
  <2> QED
    BY <1>4, <2>1
<1>6. \E flushed \in 0..Len(written[cn] \o ids) :
        /\ FormOf(op).flushes => flushed = Len(written[cn] \o ids)
        /\ ~FormOf(op).flushes /\ n = 0 => flushed = 0
        /\ sent' = [sent EXCEPT ![cn] = @ \o SubSeq(written[cn] \o ids, 1, flushed)]
        /\ written' = [written EXCEPT ![cn] =
             SubSeq(written[cn] \o ids, flushed + 1, Len(written[cn] \o ids))]
  <2>1. PICK flushed \in (IF FormOf(op).flushes THEN {Len(written[cn] \o ids)}
                          ELSE IF n > 0 THEN 0..Len(written[cn] \o ids) ELSE {0}) :
             /\ sent' = [sent EXCEPT ![cn] = @ \o SubSeq(written[cn] \o ids, 1, flushed)]
             /\ written' = [written EXCEPT ![cn] =
                  SubSeq(written[cn] \o ids, flushed + 1, Len(written[cn] \o ids))]
    BY <1>3
  <2> DEFINE total == Len(written[cn] \o ids)
  <2> HIDE DEF total
  <2>2. /\ flushed \in 0..total
        /\ FormOf(op).flushes => flushed = total
        /\ ~FormOf(op).flushes /\ n = 0 => flushed = 0
    BY <1>1, <1>5, <2>1 DEF total
  <2> QED
    BY <2>1, <2>2, Zenon DEF total
<1>7. [op |-> op, server |-> s, conn |-> cn, reads |-> Reads(op, ids)] \in CallType
  <2>1. <<>> \in Seq(Requests \cup {0}) /\ <<0>> \in Seq(Requests \cup {0})
    BY One, EmptySeq
  <2>2. ids \in Seq(Requests \cup {0})
    BY <1>4, SeqMonotonic
  <2>3. Reads(op, ids) \in Seq(Requests \cup {0})
    BY <2>1, <2>2 DEF Reads
  <2> QED
    BY <2>3 DEF CallType
<1>8. kind \in Seq(Ops) /\ via \in Seq(Conns) /\ given \in Seq(Requests \cup {0})
  BY DEF Typed, RequestType
<1>9. Lengthened(kind, kind', Ops, n, op)
  BY <1>1, <1>2, <1>8, ByEqual
<1>10. Lengthened(via, via', Conns, n, cn)
  BY <1>1, <1>3, <1>8, ByEqual
<1>11. Lengthened(given, given', Requests \cup {0}, n, 0)
  <2>1. 0 \in Requests \cup {0}
    OBVIOUS
  <2> QED
    BY <1>1, <1>2, <1>8, <2>1, ByEqual
<1> QED
  BY <1>1, <1>2, <1>3, <1>4, <1>6, <1>7, <1>9, <1>10, <1>11, Zenon DEF n, Issued

\* The types after a call has begun.
LEMMA IssueTypes ==
  ASSUME Typed, PoolInv, NEW c \in Callers, call[c].conn = 0, NEW op \in Ops, NEW s \in Servers,
         Issue(c, op, s)
  PROVE  Typed' /\ PoolInv'
<1>1. PICK cn \in Conns, n \in Nat, ids \in Seq(Requests), r \in CallType :
        Issued(c, op, s, cn, n, ids, r)
  BY IssueEffect
<1>2. PoolType' /\ PoolInv'
  <2>1. GetConn(s, cn) /\ call' = [call EXCEPT ![c] = r] /\ r.conn = cn /\ r.op # "none"
    BY <1>1, ClientAssumption DEF Issued, AllOps
  <2> QED
    BY <2>1, TakenPool DEF Typed
<1>3. RequestType'
  BY <1>1 DEF Typed, RequestType, Issued, Lengthened
<1>4. StreamType'
  <2>1. PICK flushed \in 0..Len(written[cn] \o ids) :
             /\ sent' = [sent EXCEPT ![cn] = @ \o SubSeq(written[cn] \o ids, 1, flushed)]
             /\ written' = [written EXCEPT ![cn] =
                  SubSeq(written[cn] \o ids, flushed + 1, Len(written[cn] \o ids))]
    BY <1>1 DEF Issued
  <2> DEFINE buffer == written[cn] \o ids
             part == SubSeq(buffer, 1, flushed)
             rest == SubSeq(buffer, flushed + 1, Len(buffer))
  <2>2. buffer \in Seq(Requests) /\ flushed \in 0..Len(buffer)
    BY DEF Typed, StreamType
  <2>3. sent' = [sent EXCEPT ![cn] = @ \o part] /\ written' = [written EXCEPT ![cn] = rest]
    BY <2>1
  <2> HIDE DEF buffer
  <2>4. part \in Seq(Requests) /\ rest \in Seq(Requests)
    BY <2>2, Parts, Zenon
  <2> HIDE DEF part, rest
  <2>5. sent[cn] \o part \in Seq(Requests)
    BY <2>4 DEF Typed, StreamType
  <2> QED
    BY <1>1, <2>3, <2>4, <2>5 DEF Typed, StreamType, Issued
<1> QED
  BY <1>2, <1>3, <1>4 DEF Typed

\* The types when a call ends.
LEMMA GivenBackTypes ==
  ASSUME Typed, PoolInv, NEW c \in Callers, call[c].conn # 0,
         NEW err, Return(c, err), UNCHANGED <<written, sent, kind, via>>,
         tainted' \subseteq tainted \cup {call[c].conn},
         timeouts' = timeouts \/ (timeouts < MaxTimeouts /\ timeouts' = timeouts + 1),
         words' \in [Conns -> Seq(WordType)],
         given' \in Seq(Requests \cup {0}) /\ Len(given') = Len(given)
  PROVE  Typed' /\ PoolInv'
<1>1. PICK kept \in BOOLEAN : GivenBack(c, kept)
  BY ReturnGivesBack DEF Typed, PoolInv
<1>2. PoolType' /\ PoolInv'
  BY <1>1, GivenBackPool DEF Typed
<1>3. RequestType'
  <2>1. call[c].conn \in Conns
    BY DEF Typed, PoolType, CallType
  <2>2. timeouts' \in 0..MaxTimeouts
    BY ConstantTypes DEF Typed, RequestType
  <2> QED
    BY <2>1, <2>2 DEF Typed, RequestType
<1>4. StreamType'
  BY DEF Typed, StreamType
<1> QED
  BY <1>2, <1>3, <1>4 DEF Typed

\* What a call that is read for looks like.
LEMMA ReadingCall ==
  ASSUME PoolType, NEW c \in Callers, call[c].conn # 0, call[c].reads # <<>>
  PROVE  /\ call[c] \in CallType /\ call[c].conn \in Conns
         /\ call[c].reads \in Seq(Requests \cup {0}) /\ Len(call[c].reads) \in Nat \ {0}
         /\ Head(call[c].reads) = call[c].reads[1] /\ Head(call[c].reads) \in Requests \cup {0}
         /\ Tail(call[c].reads) \in Seq(Requests \cup {0})
<1>1. call[c] \in CallType
  BY DEF PoolType
<1>2. call[c].conn \in Conns /\ call[c].reads \in Seq(Requests \cup {0})
  BY <1>1 DEF CallType
<1> QED
  BY <1>1, <1>2

\* The types after an answer has been read.
LEMMA ReadTypes ==
  ASSUME Typed, PoolInv, NEW c \in Callers, Read(c)
  PROVE  Typed' /\ PoolInv'
<1> DEFINE k == call[c]  cn == k.conn  ws == words[cn]
           p == Parse(k.op, ws)  id == Head(k.reads)
<1>1. /\ cn # 0 /\ k.reads # <<>> /\ ws # <<>> /\ p.took <= Len(ws)
      /\ words' = [words EXCEPT ![cn] = SubSeq(ws, p.took + 1, Len(ws))]
      /\ given' = IF id = 0 \/ p.took = 0 THEN given ELSE [given EXCEPT ![id] = ws[1].of]
      /\ UNCHANGED <<written, sent, kind, via, timeouts>>
  BY DEF Read
<1>2. tainted' \subseteq tainted \cup {cn}
  BY DEF Read
<1>3. \/ call' = [call EXCEPT ![c].reads = Tail(@)] /\ UNCHANGED pool
      \/ Return(c, p.err)
  BY DEF Read
<1>4. /\ k \in CallType /\ cn \in Conns /\ Tail(k.reads) \in Seq(Requests \cup {0})
      /\ id \in Requests \cup {0}
  BY <1>1, ReadingCall DEF Typed
<1>5. ws \in Seq(WordType) /\ Len(ws) \in Nat /\ ws[1] \in WordType
  <2>1. ws \in Seq(WordType)
    BY <1>4 DEF Typed, StreamType
  <2> HIDE DEF ws
  <2> QED
    BY <1>1, <2>1
<1> HIDE DEF ws, p
<1>6. k.op \in Ops
  <2>1. k.op \in Ops \cup {"none"}
    BY <1>4 DEF CallType
  <2>2. k.op # "none"
    BY <1>1 DEF PoolInv, CallShape
  <2> QED
    BY <2>1, <2>2
<1>7. p.took \in 0..Len(ws)
  BY <1>1, <1>5, <1>6, ParseTakes DEF p
<1>8. words' \in [Conns -> Seq(WordType)]
  <2>1. SubSeq(ws, p.took + 1, Len(ws)) \in Seq(WordType)
    BY <1>5, <1>7, Parts
  <2> QED
    BY <1>1, <1>4, <2>1 DEF Typed, StreamType
<1>9. given' \in Seq(Requests \cup {0}) /\ Len(given') = Len(given)
  <2>1. ws[1].of \in Requests /\ given \in Seq(Requests \cup {0})
    BY <1>5 DEF WordType, Typed, RequestType
  <2> DEFINE g == [given EXCEPT ![id] = ws[1].of]
  <2>2. g \in Seq(Requests \cup {0}) /\ Len(g) = Len(given)
    <3>1. CASE id \in 1..Len(given)
      BY <2>1, <3>1, ExceptSeq
    <3>2. CASE id \notin 1..Len(given)
      <4>1. given \in [1..Len(given) -> Requests \cup {0}]
        BY <2>1
      <4>2. g = given
        BY <3>2, <4>1
      <4> QED
        BY <2>1, <4>2
    <3> QED
      BY <3>1, <3>2
  <2> HIDE DEF g
  <2>3. given' = given \/ given' = g
    BY <1>1 DEF g
  <2> QED
    BY <2>1, <2>2, <2>3
<1>10. CASE Return(c, p.err)
  BY <1>1, <1>2, <1>8, <1>9, <1>10, GivenBackTypes
<1>11. CASE call' = [call EXCEPT ![c].reads = Tail(@)] /\ UNCHANGED pool
  <2>1. [k EXCEPT !.reads = Tail(@)] \in CallType
    BY <1>4 DEF CallType
  <2>2. PoolType'
    BY <1>11, <2>1 DEF Typed, PoolType, pool
  <2>3. \A d \in Callers : call'[d].conn = call[d].conn
    BY <1>4, <1>11 DEF Typed, PoolType, CallType
  <2>4. CallShape'
    BY <1>1, <1>11, <2>3 DEF Typed, PoolType, PoolInv, CallShape
  <2>5. \A x : Free(x)' <=> Free(x)
    BY <1>11 DEF pool, Free
  <2>6. Held' /\ Listed' /\ NoneLost'
    BY <1>11, <2>3, <2>5 DEF PoolInv, Held, Listed, NoneLost, pool
  <2>7. RequestType'
    BY <1>1, <1>2, <1>4, <1>9 DEF Typed, RequestType
  <2>8. StreamType'
    BY <1>1, <1>8 DEF Typed, StreamType
  <2> QED
    BY <2>2, <2>4, <2>6, <2>7, <2>8 DEF Typed, PoolInv
<1> QED
  BY <1>3, <1>10, <1>11

\* The types after a call has begun, or the next address of a FlushAll.
LEMMA BeginTypes ==
  ASSUME Typed, PoolInv, NEW c \in Callers, Begin(c) \/ FlushNext(c)
  PROVE  /\ Typed' /\ PoolInv'
         /\ call[c].conn = 0 /\ \E op \in Ops, s \in Servers : Issue(c, op, s)
<1>1. call[c] \in CallType
  BY DEF Typed, PoolType
<1>2. CASE Begin(c)
  <2>1. call[c].conn = 0
    BY <1>2 DEF Begin, PoolInv, CallShape
  <2>2. PICK op \in Ops : Issue(c, op, FormOf(op).server)
    BY <1>2 DEF Begin
  <2>3. FormOf(op).server \in Servers
    BY Forms
  <2> QED
    BY <2>1, <2>2, <2>3, IssueTypes
<1>3. CASE FlushNext(c)
  <2>1. call[c].conn = 0 /\ Issue(c, "flushall", call[c].server) /\ call[c].op = "flushall"
    BY <1>3 DEF FlushNext
  <2>2. "flushall" \in Ops /\ call[c].server \in Servers
    BY <1>1, <2>1 DEF CallType
  <2> QED
    BY <2>1, <2>2, IssueTypes
<1> QED
  BY <1>2, <1>3

\* The types after a call ends that has not read an answer to its end.
LEMMA EndTypes ==
  ASSUME Typed, PoolInv, NEW c \in Callers, ReturnAsync(c) \/ Timeout(c) \/ TimeoutAfterHead(c)
  PROVE  Typed' /\ PoolInv'
<1>1. words \in [Conns -> Seq(WordType)] /\ given \in Seq(Requests \cup {0})
  BY DEF Typed, StreamType, RequestType
<1>2. CASE ReturnAsync(c)
  <2>1. /\ call[c].conn # 0 /\ tainted' = tainted \cup {call[c].conn}
        /\ UNCHANGED <<words, written, sent, kind, via, given, timeouts>>
    BY <1>2 DEF ReturnAsync, streams
  <2>2. \E err \in {"nil", "write"} : Return(c, err)
    BY <1>2 DEF ReturnAsync
  <2> QED
    BY <1>1, <2>1, <2>2, GivenBackTypes
<1>3. CASE Timeout(c)
  <2>1. /\ call[c].conn # 0 /\ tainted' \subseteq tainted \cup {call[c].conn}
        /\ timeouts < MaxTimeouts /\ timeouts' = timeouts + 1
        /\ UNCHANGED <<words, written, sent, kind, via, given>>
    BY <1>3 DEF Timeout, streams
  <2>2. \E err : Return(c, err)
    BY <1>3 DEF Timeout
  <2> QED
    BY <1>1, <2>1, <2>2, GivenBackTypes
<1>4. CASE TimeoutAfterHead(c)
  <2> DEFINE cn == call[c].conn
  <2>1. /\ cn # 0 /\ tainted' = tainted \cup {cn} /\ words[cn] # <<>>
        /\ timeouts < MaxTimeouts /\ timeouts' = timeouts + 1
        /\ words' = [words EXCEPT ![cn] = Tail(@)]
        /\ UNCHANGED <<written, sent, kind, via, given>>
    BY <1>4 DEF TimeoutAfterHead
  <2>2. Return(c, "nil")
    BY <1>4 DEF TimeoutAfterHead
  <2>3. cn \in Conns
    BY <2>1 DEF Typed, PoolType, CallType
  <2>4. words' \in [Conns -> Seq(WordType)]
    <3>1. Tail(words[cn]) \in Seq(WordType)
      BY <1>1, <2>1, <2>3
    <3> QED
      BY <1>1, <2>1, <2>3, <3>1
  <2> QED
    BY <1>1, <2>1, <2>2, <2>4, GivenBackTypes
<1> QED
  BY <1>2, <1>3, <1>4

\* What ServerAnswers does to the streams.
LEMMA AnswerEffect ==
  ASSUME Typed, NEW cn \in Conns, ServerAnswers(cn)
  PROVE  /\ cn \in open /\ sent[cn] # <<>> /\ Head(sent[cn]) \in Requests
         /\ sent' = [sent EXCEPT ![cn] = Tail(@)] /\ Tail(sent[cn]) \in Seq(Requests)
         /\ \E a \in Answers(kind[Head(sent[cn])], Head(sent[cn])) :
              a \in Seq(WordType) /\ words' = [words EXCEPT ![cn] = @ \o a]
         /\ UNCHANGED <<call, pool, written, kind, via, given, tainted, timeouts>>
<1>1. cn \in open /\ sent[cn] # <<>> /\ sent' = [sent EXCEPT ![cn] = Tail(@)]
  BY DEF ServerAnswers
<1>2. sent[cn] \in Seq(Requests)
  BY DEF Typed, StreamType
<1>3. Head(sent[cn]) \in Requests /\ Tail(sent[cn]) \in Seq(Requests)
  BY <1>1, <1>2
<1>4. PICK a \in Answers(kind[Head(sent[cn])], Head(sent[cn])) :
        words' = [words EXCEPT ![cn] = @ \o a]
  BY DEF ServerAnswers
<1>5. a \in Seq(WordType)
  BY <1>3, AnswerCases
<1>6. UNCHANGED <<call, pool, written, kind, via, given, tainted, timeouts>>
  BY DEF ServerAnswers
<1> QED
  BY <1>1, <1>3, <1>4, <1>5, <1>6

\* A step that moves neither a call nor a connection.
LEMMA PoolKept ==
  ASSUME PoolType, PoolInv, UNCHANGED <<call, pool>>
  PROVE  PoolType' /\ PoolInv'
<1>1. \A x : Free(x)' <=> Free(x)
  BY DEF Free, pool
<1> QED
  BY <1>1 DEF pool, PoolType, PoolInv, CallShape, Held, Listed, NoneLost

\* The types after the node has answered.
LEMMA AnswerTypes ==
  ASSUME Typed, PoolInv, NEW cn \in Conns, ServerAnswers(cn)
  PROVE  Typed' /\ PoolInv'
<1>1. PICK a \in Seq(WordType) : words' = [words EXCEPT ![cn] = @ \o a]
  BY AnswerEffect
<1>2. /\ sent' = [sent EXCEPT ![cn] = Tail(@)] /\ Tail(sent[cn]) \in Seq(Requests)
      /\ UNCHANGED <<call, pool, written, kind, via, given, tainted, timeouts>>
  BY AnswerEffect
<1>3. PoolType' /\ PoolInv'
  BY <1>2, PoolKept DEF Typed
<1>4. words[cn] \o a \in Seq(WordType)
  BY DEF Typed, StreamType
<1>5. StreamType'
  BY <1>1, <1>2, <1>4 DEF Typed, StreamType
<1>6. RequestType'
  BY <1>2 DEF Typed, RequestType
<1> QED
  BY <1>3, <1>5, <1>6 DEF Typed

\* The types at the start, with an empty pool.
LEMMA InitTypes == Init => Typed /\ PoolInv
<1> SUFFICES ASSUME Init PROVE Typed /\ PoolInv
  OBVIOUS
<1>1. 1 \in Servers
  BY ConstantTypes DEF Servers
<1>2. Idle \in CallType /\ Idle.conn = 0 /\ Idle.op = "none" /\ Idle.reads = <<>>
  BY <1>1 DEF Idle, CallType
<1>3. PoolType /\ PoolInv
  <2>1. \A c \in Callers : call[c] = Idle
    BY DEF Init
  <2>2. \A s \in Servers : free[s] = <<>>
    BY DEF Init
  <2>3. PoolType
    <3>1. call \in [Callers -> CallType]
      BY <1>2 DEF Init
    <3>2. free \in [Servers -> Seq(Conns)] /\ \A s \in Servers : Len(free[s]) <= MaxIdleConns
      BY ConstantTypes DEF Init
    <3>3. at \in Seq(Servers) /\ Len(at) <= MaxConns /\ open \subseteq 1..Len(at)
      BY ConstantTypes DEF Init
    <3> QED
      BY <3>1, <3>2, <3>3 DEF PoolType
  <2>4. open = {}
    BY DEF Init
  <2> QED
    BY <1>2, <2>1, <2>2, <2>3, <2>4 DEF PoolInv, CallShape, Held, Listed, NoneLost, Free
<1>4. RequestType
  BY ConstantTypes DEF Init, RequestType
<1>5. StreamType
  BY DEF Init, StreamType
<1> QED
  BY <1>3, <1>4, <1>5 DEF Typed

\* Every step keeps the types, and each connection in its place.
LEMMA NextTypes == Typed /\ PoolInv /\ [Next]_vars => Typed' /\ PoolInv'
<1> SUFFICES ASSUME Typed, PoolInv, [Next]_vars PROVE Typed' /\ PoolInv'
  OBVIOUS
<1>1. ASSUME NEW c \in Callers, Begin(c) \/ FlushNext(c) PROVE Typed' /\ PoolInv'
  BY <1>1, BeginTypes
<1>2. ASSUME NEW c \in Callers, ReturnAsync(c) \/ Timeout(c) \/ TimeoutAfterHead(c)
      PROVE  Typed' /\ PoolInv'
  BY <1>2, EndTypes
<1>3. ASSUME NEW c \in Callers, Read(c) PROVE Typed' /\ PoolInv'
  BY <1>3, ReadTypes
<1>4. ASSUME NEW cn \in Conns, ServerAnswers(cn) PROVE Typed' /\ PoolInv'
  BY <1>4, AnswerTypes
<1>5. CASE UNCHANGED vars
  <2>1. PoolType' /\ PoolInv'
    BY <1>5, PoolKept DEF Typed, vars
  <2>2. RequestType' /\ StreamType'
    BY <1>5 DEF Typed, RequestType, StreamType, vars, streams
  <2> QED
    BY <2>1, <2>2 DEF Typed
<1> QED
  BY <1>1, <1>2, <1>3, <1>4, <1>5 DEF Next

\* The types of the client's state: a list never holds more than MaxIdleConns
\* connections (putFreeConn 211-223), and each request has one answer slot.
THEOREM ClientTypes == Spec => []TypeOK
<1>1. Typed /\ PoolInv => TypeOK
  BY DEF Typed, PoolType, RequestType, StreamType, TypeOK, CallType
<1> QED
  BY <1>1, InitTypes, NextTypes, PTL DEF Spec

\* No connection is lost, handed out twice or handed out closed, whatever calls the
\* goroutines make and however they end (getFreeConn, putFreeConn, condRelease).
THEOREM ConnectionsKept == Spec => []OnePlace
<1>1. Typed /\ PoolInv => OnePlace
  BY PoolPlaces DEF Typed
<1> QED
  BY <1>1, InitTypes, NextTypes, PTL DEF Spec

-----------------------------------------------------------------------------
(* The answers in a stream. *)

\* Before the first of them has come.
LEMMA AnswersNone ==
  ASSUME NEW op, NEW S, NEW ids \in Seq(S)
  PROVE  AnswersOf(op, <<>>, ids, ids)
<1> DEFINE b == [i \in 0..0 |-> 0]
<1>1. b \in [0..0 -> Nat] /\ b[0] = 0
  OBVIOUS
<1>2. Len(<<>>) = 0 /\ Len(ids) \in Nat /\ SubSeq(ids, 0 + 1, Len(ids)) = ids
  BY SubSeqFull
<1> HIDE DEF b
<1>3. \A i, j \in 0..0 : i <= j => b[i] <= b[j]
  BY <1>1
<1>4. \A j \in 1..0 : FALSE
  OBVIOUS
<1>5. AnswersUpTo(op, <<>>, ids, ids, 0, b)
  BY <1>1, <1>2, <1>3, <1>4 DEF AnswersUpTo
<1>6. 0 \in 0..Len(ids)
  BY <1>2
<1>7. \E c \in [0..0 -> Nat] : AnswersUpTo(op, <<>>, ids, ids, 0, c)
  BY <1>1, <1>5, Zenon
<1> QED
  BY <1>6, <1>7, Zenon DEF AnswersOf

\* Without a request there is nothing.
LEMMA AnswersSilent ==
  ASSUME NEW op, NEW ws \in Seq(WordType), NEW unanswered, AnswersOf(op, ws, unanswered, <<>>)
  PROVE  ws = <<>> /\ unanswered = <<>>
<1>1. PICK m \in 0..Len(<<>>) : \E b \in [0..m -> Nat] : AnswersUpTo(op, ws, unanswered, <<>>, m, b)
  BY DEF AnswersOf
<1>2. m = 0 /\ Len(<<>>) = 0
  OBVIOUS
<1>3. Len(ws) = 0 /\ unanswered = SubSeq(<<>>, 1, 0)
  BY <1>1, <1>2 DEF AnswersUpTo
<1> QED
  BY <1>3, SubSeqEmpty

\* One more comes.
LEMMA AnswersMore ==
  ASSUME NEW op, NEW ws \in Seq(WordType), NEW ids \in Seq(Requests),
         NEW unanswered, unanswered # <<>>, AnswersOf(op, ws, unanswered, ids),
         NEW a \in Seq(WordType), a \in Answers(op, Head(unanswered))
  PROVE  AnswersOf(op, ws \o a, Tail(unanswered), ids)
<1>0. PICK m \in 0..Len(ids) : \E b \in [0..m -> Nat] : AnswersUpTo(op, ws, unanswered, ids, m, b)
  BY DEF AnswersOf
<1>1. PICK b \in [0..m -> Nat] : AnswersUpTo(op, ws, unanswered, ids, m, b)
  BY <1>0
<1>2. /\ b[0] = 0 /\ b[m] = Len(ws)
      /\ \A i, j \in 0..m : i <= j => b[i] <= b[j]
      /\ \A j \in 1..m : \E x \in Answers(op, ids[j]) :
           b[j] = b[j - 1] + Len(x) /\ \A i \in 1..Len(x) : ws[b[j - 1] + i] = x[i]
      /\ unanswered = SubSeq(ids, m + 1, Len(ids))
  BY <1>1 DEF AnswersUpTo
<1>3. Len(ids) \in Nat /\ m \in Nat /\ Len(ws) \in Nat /\ Len(a) \in Nat
  OBVIOUS
<1>4. m + 1 \in 1..Len(ids)
  BY <1>2, <1>3, SubSeqEmpty
<1>5. Head(unanswered) = ids[m + 1] /\ Tail(unanswered) = SubSeq(ids, (m + 1) + 1, Len(ids))
  BY <1>2, <1>3, <1>4, HeadTailOfSubSeq
<1> DEFINE t == [i \in 0..(m + 1) |-> IF i = m + 1 THEN Len(ws) + Len(a) ELSE b[i]]
           w == ws \o a
<1>6. /\ t \in [0..(m + 1) -> Nat] /\ t[m + 1] = Len(ws) + Len(a)
      /\ \A i \in 0..m : t[i] = b[i]
  BY <1>3
<1>7. /\ Len(w) = Len(ws) + Len(a)
      /\ \A i \in 1..Len(ws) : w[i] = ws[i]
      /\ \A i \in 1..Len(a) : w[Len(ws) + i] = a[i]
  <2>1. Len(w) = Len(ws) + Len(a) /\ \A i \in 1..Len(ws) : w[i] = ws[i]
    BY Joined
  <2>2. \A i \in 1..Len(a) : w[Len(ws) + i] = a[i]
    BY JoinedRight
  <2> QED
    BY <2>1, <2>2
<1> HIDE DEF t, w
<1>8. \A i, j \in 0..(m + 1) : i <= j => t[i] <= t[j]
  <2> SUFFICES ASSUME NEW i \in 0..(m + 1), NEW j \in 0..(m + 1), i <= j
               PROVE  t[i] <= t[j]
    OBVIOUS
  <2>1. CASE j \in 0..m
    <3>1. i \in 0..m
      BY <1>3, <2>1
    <3> QED
      BY <1>2, <1>6, <2>1, <3>1
  <2>2. CASE j = m + 1 /\ i \in 0..m
    <3>1. t[i] = b[i] /\ b[i] <= b[m] /\ b[i] \in Nat /\ b[m] = Len(ws)
      BY <1>2, <1>3, <1>6, <2>2
    <3> QED
      BY <1>3, <1>6, <2>2, <3>1
  <2>3. CASE j = m + 1 /\ i = m + 1
    BY <1>3, <1>6, <2>3
  <2> QED
    BY <1>3, <2>1, <2>2, <2>3
<1>9. \A j \in 1..(m + 1) : \E x \in Answers(op, ids[j]) :
        t[j] = t[j - 1] + Len(x) /\ \A i \in 1..Len(x) : w[t[j - 1] + i] = x[i]
  <2> SUFFICES ASSUME NEW j \in 1..(m + 1)
               PROVE  \E x \in Answers(op, ids[j]) :
                        t[j] = t[j - 1] + Len(x) /\ \A i \in 1..Len(x) : w[t[j - 1] + i] = x[i]
    OBVIOUS
  <2>1. CASE j = m + 1
    <3>1. a \in Answers(op, ids[j])
      BY <1>5, <2>1
    <3>2. t[j - 1] = Len(ws) /\ t[j] = Len(ws) + Len(a)
      BY <1>2, <1>3, <1>6, <2>1
    <3> QED
      BY <1>7, <3>1, <3>2
  <2>2. CASE j \in 1..m
    <3>1. PICK x \in Answers(op, ids[j]) :
            b[j] = b[j - 1] + Len(x) /\ \A i \in 1..Len(x) : ws[b[j - 1] + i] = x[i]
      BY <1>2, <2>2
    <3>2. t[j] = b[j] /\ t[j - 1] = b[j - 1] /\ b[j - 1] \in Nat /\ b[j] \in Nat /\ b[j] <= Len(ws)
      BY <1>2, <1>3, <1>6, <2>2
    <3>3. ASSUME NEW i \in 1..Len(x) PROVE b[j - 1] + i \in 1..Len(ws)
      <4>1. ids[j] \in Requests
        BY <1>3, <2>2, ElementOfSeq
      <4>2. x \in Seq(WordType)
        BY <4>1, AnswerCases
      <4>3. Len(x) \in Nat
        BY <4>2
      <4> DEFINE u == b[j - 1]  v == b[j]  l == Len(x)
      <4>4. u \in Nat /\ v = u + l /\ v <= Len(ws) /\ l \in Nat /\ Len(ws) \in Nat /\ i \in 1..l
        BY <1>3, <3>1, <3>2, <4>3
      <4> HIDE DEF u, v, l
      <4>5. u + i \in 1..Len(ws)
        BY <4>4
      <4> QED
        BY <4>5 DEF u
    <3>4. \A i \in 1..Len(x) : w[t[j - 1] + i] = x[i]
      BY <1>7, <3>1, <3>2, <3>3
    <3> QED
      BY <3>1, <3>2, <3>4
  <2> QED
    BY <1>3, <2>1, <2>2
<1>10. AnswersUpTo(op, w, Tail(unanswered), ids, m + 1, t)
  <2>1. t[0] = 0 /\ t[m + 1] = Len(w)
    BY <1>2, <1>3, <1>6, <1>7
  <2> QED
    BY <1>5, <1>8, <1>9, <2>1 DEF AnswersUpTo
<1>11. m + 1 \in 0..Len(ids)
  BY <1>3, <1>4
<1> QED
  BY <1>6, <1>10, <1>11 DEF AnswersOf, w

\* What is behind a prefix of a sequence, and of its tail.
LEMMA Behind ==
  ASSUME NEW S, NEW s \in Seq(S), NEW n \in 0..Len(s)
  PROVE  /\ SubSeq(s, n + 1, Len(s)) \in Seq(S) /\ Len(SubSeq(s, n + 1, Len(s))) = Len(s) - n
         /\ \A i \in 1..(Len(s) - n) : SubSeq(s, n + 1, Len(s))[i] = s[n + i]
<1>1. Len(s) \in Nat /\ n \in Nat
  OBVIOUS
<1>2. \A i \in (n + 1)..Len(s) : s[i] \in S
  BY <1>1
<1> QED
  BY <1>1, <1>2, SubSeqProperties

\* A rest of a sequence is one of its tail.
LEMMA BehindTail ==
  ASSUME NEW S, NEW s \in Seq(S), NEW m \in 1..Len(s)
  PROVE  /\ Tail(s) \in Seq(S) /\ Len(Tail(s)) = Len(s) - 1
         /\ \A i \in 1..(Len(s) - 1) : Tail(s)[i] = s[1 + i]
         /\ SubSeq(s, m + 1, Len(s)) = SubSeq(Tail(s), m, Len(s) - 1)
<1>1. Len(s) \in Nat /\ m \in Nat /\ m - 1 \in 0..(Len(s) - 1)
  OBVIOUS
<1>2. /\ Tail(s) \in Seq(S) /\ Len(Tail(s)) = Len(s) - 1
      /\ \A i \in 1..(Len(s) - 1) : Tail(s)[i] = s[1 + i]
  <2>1. s # <<>>
    BY <1>1
  <2>2. Tail(s) \in Seq(S) /\ Len(Tail(s)) = Len(s) - 1 /\ \A i \in 1..Len(Tail(s)) : Tail(s)[i] = s[i + 1]
    BY <2>1, HeadTailProperties
  <2> QED
    BY <1>1, <2>2
<1> DEFINE t == Tail(s)  u == SubSeq(s, m + 1, Len(s))  v == SubSeq(t, m, Len(s) - 1)
<1>3. /\ u \in Seq(S) /\ Len(u) = Len(s) - m
      /\ \A i \in 1..(Len(s) - m) : u[i] = s[m + i]
  BY <1>1, Behind
<1>4. t \in Seq(S) /\ Len(t) = Len(s) - 1 /\ \A i \in 1..(Len(s) - 1) : t[i] = s[1 + i]
  BY <1>2
<1>5. v \in Seq(S) /\ Len(v) = Len(s) - m /\ \A i \in 1..(Len(s) - m) : v[i] = t[(m - 1) + i]
  <2>1. v = SubSeq(t, (m - 1) + 1, Len(t)) /\ m - 1 \in 0..Len(t)
    BY <1>1, <1>4
  <2> HIDE DEF t, v
  <2>2. v \in Seq(S) /\ Len(v) = Len(t) - (m - 1) /\ \A i \in 1..(Len(t) - (m - 1)) : v[i] = t[(m - 1) + i]
    BY <1>4, <2>1, Behind
  <2> QED
    BY <1>1, <1>4, <2>2
<1> HIDE DEF t, u, v
<1>6. ASSUME NEW i \in 1..(Len(s) - m) PROVE u[i] = v[i]
  <2>1. (m - 1) + i \in 1..(Len(s) - 1) /\ 1 + ((m - 1) + i) = m + i
    BY <1>1
  <2> QED
    BY <1>3, <1>4, <1>5, <2>1
<1>7. u = v
  BY <1>1, <1>3, <1>5, <1>6, SeqEqual
<1> QED
  BY <1>2, <1>7 DEF t, u, v

\* The first of them, if there is a word, is the answer to the first request; behind
\* it are the answers to the rest.
LEMMA AnswersLess ==
  ASSUME NEW op, NEW ws \in Seq(WordType), ws # <<>>, NEW ids \in Seq(Requests),
         NEW unanswered, AnswersOf(op, ws, unanswered, ids)
  PROVE  /\ Len(ids) >= 1 /\ ids[1] \in Requests
         /\ \E a \in Answers(op, ids[1]) :
              /\ Len(a) \in 1..Len(ws) /\ ws[1] = a[1]
              /\ AnswersOf(op, SubSeq(ws, Len(a) + 1, Len(ws)), unanswered, Tail(ids))
              /\ Len(ids) = 1 => Len(a) = Len(ws) /\ unanswered = <<>>
<1>0. PICK m \in 0..Len(ids) : \E b \in [0..m -> Nat] : AnswersUpTo(op, ws, unanswered, ids, m, b)
  BY DEF AnswersOf
<1>1. PICK b \in [0..m -> Nat] : AnswersUpTo(op, ws, unanswered, ids, m, b)
  BY <1>0
<1>2. /\ b[0] = 0 /\ b[m] = Len(ws)
      /\ \A i, j \in 0..m : i <= j => b[i] <= b[j]
      /\ \A j \in 1..m : \E x \in Answers(op, ids[j]) :
           b[j] = b[j - 1] + Len(x) /\ \A i \in 1..Len(x) : ws[b[j - 1] + i] = x[i]
      /\ unanswered = SubSeq(ids, m + 1, Len(ids))
  BY <1>1 DEF AnswersUpTo
<1>3. Len(ids) \in Nat /\ m \in Nat /\ Len(ws) \in Nat /\ Len(ws) # 0
  OBVIOUS
<1>4. m \in 1..Len(ids) /\ 1 \in 1..m /\ 1 \in 1..Len(ids) /\ m - 1 \in Nat
  BY <1>2, <1>3
<1>5. ids[1] \in Requests
  BY <1>4, ElementOfSeq
<1>6. PICK a \in Answers(op, ids[1]) :
        b[1] = b[1 - 1] + Len(a) /\ \A i \in 1..Len(a) : ws[b[1 - 1] + i] = a[i]
  BY <1>2, <1>4
<1>7. a \in Seq(WordType) /\ Len(a) >= 1 /\ Len(a) \in Nat
  <2>1. a \in Seq(WordType) /\ Len(a) >= 1
    BY <1>5, AnswerCases
  <2> QED
    BY <2>1
<1>8. /\ b[1] = Len(a) /\ Len(a) \in 1..Len(ws)
      /\ \A i \in 1..Len(a) : ws[i] = a[i]
  <2>1. 1 - 1 = 0 /\ 1 \in 0..m /\ m \in 0..m /\ 1 <= m
    BY <1>4
  <2>2. b[1] = 0 + Len(a) /\ \A i \in 1..Len(a) : ws[0 + i] = a[i]
    BY <1>2, <1>6, <2>1
  <2>3. b[1] <= Len(ws)
    BY <1>2, <2>1
  <2> QED
    BY <1>7, <1>3, <2>2, <2>3
<1>9. ws[1] = a[1]
  BY <1>7, <1>8
<1> DEFINE n == Len(a)
           rest == SubSeq(ws, n + 1, Len(ws))
           t == [i \in 0..(m - 1) |-> b[i + 1] - n]
<1>10. n \in Nat /\ n \in 0..Len(ws)
  BY <1>7, <1>8
<1>11. rest \in Seq(WordType) /\ Len(rest) = Len(ws) - n /\ \A i \in 1..(Len(ws) - n) : rest[i] = ws[n + i]
  <2> HIDE DEF n
  <2> QED
    BY <1>10, Behind
<1>12. /\ Tail(ids) \in Seq(Requests) /\ Len(Tail(ids)) = Len(ids) - 1
       /\ \A i \in 1..(Len(ids) - 1) : Tail(ids)[i] = ids[1 + i]
       /\ unanswered = SubSeq(Tail(ids), m, Len(ids) - 1)
  BY <1>2, <1>4, BehindTail
<1>13. ASSUME NEW i \in 0..(m - 1)
       PROVE  i + 1 \in 0..m /\ b[i + 1] \in Nat /\ n <= b[i + 1] /\ t[i] = b[i + 1] - n
  <2>1. i + 1 \in 0..m /\ 1 \in 0..m /\ 1 <= i + 1
    BY <1>4
  <2> QED
    BY <1>2, <1>8, <2>1
<1> HIDE DEF n, rest
<1>14. t \in [0..(m - 1) -> Nat]
  BY <1>10, <1>13
<1> HIDE DEF t
<1>15. t[0] = 0 /\ t[m - 1] = Len(rest)
  <2>1. 0 \in 0..(m - 1) /\ m - 1 \in 0..(m - 1) /\ 0 + 1 = 1 /\ (m - 1) + 1 = m
    BY <1>4
  <2>2. t[0] = b[1] - n /\ t[m - 1] = b[m] - n
    BY <1>13, <2>1
  <2>3. b[1] = n
    BY <1>8 DEF n
  <2> QED
    BY <1>2, <1>3, <1>10, <1>11, <2>2, <2>3
<1>16. ASSUME NEW i \in 0..(m - 1), NEW j \in 0..(m - 1), i <= j PROVE t[i] <= t[j]
  <2>1. i + 1 <= j + 1
    BY <1>16
  <2>2. b[i + 1] <= b[j + 1]
    BY <1>2, <1>13, <2>1
  <2> QED
    BY <1>10, <1>13, <2>2
<1>17. ASSUME NEW j \in 1..(m - 1)
       PROVE  \E x \in Answers(op, Tail(ids)[j]) :
                t[j] = t[j - 1] + Len(x) /\ \A i \in 1..Len(x) : rest[t[j - 1] + i] = x[i]
  <2>1. j + 1 \in 1..m /\ (j + 1) - 1 = j /\ j \in 1..(Len(ids) - 1) /\ 1 + j = j + 1 /\ j \in 0..m
        /\ j - 1 \in 0..(m - 1) /\ (j - 1) + 1 = j /\ j \in 0..(m - 1) /\ j + 1 \in 1..Len(ids)
    BY <1>3, <1>4
  <2>2. PICK x \in Answers(op, ids[j + 1]) :
          b[j + 1] = b[j] + Len(x) /\ \A i \in 1..Len(x) : ws[b[j] + i] = x[i]
    BY <1>2, <2>1
  <2>3. Tail(ids)[j] = ids[j + 1]
    BY <1>12, <2>1
  <2>4. Len(x) \in Nat
    <3>1. ids[j + 1] \in Requests
      BY <2>1, ElementOfSeq
    <3>2. x \in Seq(WordType)
      BY <3>1, AnswerCases
    <3> QED
      BY <3>2
  <2>5. t[j] = b[j + 1] - n /\ t[j - 1] = b[j] - n /\ b[j] \in Nat /\ b[j + 1] \in Nat /\ n <= b[j]
    BY <1>13, <2>1
  <2>6. t[j] = t[j - 1] + Len(x)
    BY <1>10, <2>2, <2>4, <2>5
  <2>7. b[j + 1] <= Len(ws)
    <3>1. j + 1 \in 0..m /\ m \in 0..m /\ j + 1 <= m
      BY <2>1
    <3> QED
      BY <1>2, <3>1
  <2>8. ASSUME NEW i \in 1..Len(x) PROVE rest[t[j - 1] + i] = x[i]
    <3> DEFINE u == t[j - 1]  v == b[j]  w == b[j + 1]  l == Len(x)
    <3>1. /\ u = v - n /\ v \in Nat /\ n \in Nat /\ n <= v /\ w = v + l /\ w <= Len(ws)
          /\ l \in Nat /\ Len(ws) \in Nat /\ i \in 1..l
      BY <1>3, <1>10, <2>2, <2>4, <2>5, <2>7
    <3> HIDE DEF u, v, w, l
    <3>2. u + i \in 1..(Len(ws) - n) /\ n + (u + i) = v + i
      BY <3>1
    <3>3. rest[u + i] = ws[v + i]
      BY <1>11, <3>2
    <3> QED
      BY <2>2, <3>3 DEF u, v
  <2> QED
    BY <2>2, <2>3, <2>6, <2>8
<1>18. AnswersOf(op, rest, unanswered, Tail(ids))
  <2>1. unanswered = SubSeq(Tail(ids), (m - 1) + 1, Len(Tail(ids))) /\ m - 1 \in 0..Len(Tail(ids))
    BY <1>3, <1>4, <1>12
  <2>2. AnswersUpTo(op, rest, unanswered, Tail(ids), m - 1, t)
    BY <1>15, <1>16, <1>17, <2>1 DEF AnswersUpTo
  <2> QED
    BY <1>14, <2>1, <2>2 DEF AnswersOf
<1>19. ASSUME Len(ids) = 1 PROVE n = Len(ws) /\ unanswered = <<>>
  <2>1. m = 1
    BY <1>4, <1>19
  <2>2. b[1] = Len(ws)
    BY <1>2, <2>1
  <2>3. unanswered = SubSeq(Tail(ids), 1, 0)
    BY <1>12, <1>19, <2>1
  <2> QED
    BY <1>8, <2>2, <2>3, SubSeqEmpty DEF n
<1> QED
  BY <1>3, <1>4, <1>5, <1>8, <1>9, <1>18, <1>19 DEF n, rest

\* What comes next answers a request the call waits for.
LEMMA AnswersNext ==
  ASSUME NEW op, NEW ws, NEW ids \in Seq(Requests),
         NEW unanswered, unanswered # <<>>, AnswersOf(op, ws, unanswered, ids)
  PROVE  \E j \in 1..Len(ids) : Head(unanswered) = ids[j]
<1>1. PICK m \in 0..Len(ids) : \E b \in [0..m -> Nat] : AnswersUpTo(op, ws, unanswered, ids, m, b)
  BY DEF AnswersOf
<1>2. unanswered = SubSeq(ids, m + 1, Len(ids))
  BY <1>1 DEF AnswersUpTo
<1>3. Len(ids) \in Nat /\ m \in Nat
  OBVIOUS
<1>4. m + 1 \in 1..Len(ids)
  BY <1>2, <1>3, SubSeqEmpty
<1>5. Head(unanswered) = ids[m + 1]
  BY <1>2, <1>3, <1>4, HeadTailOfSubSeq
<1> QED
  BY <1>4, <1>5

-----------------------------------------------------------------------------
(* The streams, step by step. *)

\* The requests a call waits for are requests that were written.
LEMMA AwaitedTyped ==
  ASSUME Typed, Waits, NEW c \in Callers
  PROVE  /\ Awaited(c) \in Seq(Requests)
         /\ \A i \in 1..Len(Awaited(c)) :
              /\ Awaited(c)[i] \in 1..Len(kind) /\ Awaited(c)[i] \in Requests
              /\ kind[Awaited(c)[i]] = call[c].op /\ via[Awaited(c)[i]] = call[c].conn
<1>1. \A i \in 1..Len(Awaited(c)) :
         /\ Awaited(c)[i] \in 1..Len(kind)
         /\ kind[Awaited(c)[i]] = call[c].op /\ via[Awaited(c)[i]] = call[c].conn
  BY DEF Waits
<1>2. 1..Len(kind) \subseteq Requests
  <2>1. Len(kind) \in Nat /\ Len(kind) <= MaxRequests
    BY DEF Typed, RequestType
  <2> QED
    BY <2>1, ConstantTypes DEF Requests
<1>3. Awaited(c) \in Seq(Requests \cup {0})
  <2>1. call[c].reads \in Seq(Requests \cup {0}) /\ <<>> \in Seq(Requests \cup {0})
    BY DEF Typed, PoolType, CallType
  <2> QED
    BY <2>1 DEF Awaited
<1> DEFINE s == Awaited(c)
<1>4. s \in Seq(Requests \cup {0}) /\ \A i \in 1..Len(s) : s[i] \in Requests
  BY <1>1, <1>2, <1>3
<1> HIDE DEF s
<1>5. s \in Seq(Requests)
  BY <1>4
<1> QED
  BY <1>1, <1>2, <1>5 DEF s

\* The lists after a connection is given back.
LEMMA FreeGivenBack ==
  ASSUME PoolType, NEW c \in Callers, call[c].conn # 0, call[c].conn \in 1..Len(at),
         NEW kept \in BOOLEAN, GivenBack(c, kept), NEW x, Free(x)'
  PROVE  Free(x) \/ (kept /\ x = call[c].conn)
<1> DEFINE cn == call[c].conn  home == at[cn]
<1>1. CASE ~kept
  BY <1>1 DEF GivenBack, Free
<1>2. CASE kept
  <2> DEFINE old == free[home]  new == Append(old, cn)
  <2>1. free' = [free EXCEPT ![home] = new]
    BY <1>2 DEF GivenBack
  <2>2. home \in Servers /\ cn \in Conns
    BY DEF PoolType, CallType
  <2>3. old \in Seq(Conns) /\ Len(old) \in Nat
    BY <2>2 DEF PoolType
  <2> HIDE DEF cn, home
  <2>4. /\ Len(new) = Len(old) + 1 /\ new[Len(old) + 1] = cn
        /\ \A i \in 1..Len(old) : new[i] = old[i]
    BY <2>2, <2>3
  <2>5. \A s \in Servers : free'[s] = IF s = home THEN new ELSE free[s]
    BY <2>1 DEF PoolType
  <2> HIDE DEF new
  <2>6. PICK s \in Servers : \E i \in 1..Len(free'[s]) : free'[s][i] = x
    BY DEF Free
  <2>9. PICK i \in 1..Len(free'[s]) : free'[s][i] = x
    BY <2>6
  <2>7. CASE s # home
    BY <2>5, <2>7, <2>9 DEF Free
  <2>8. CASE s = home
    <3>1. i \in 1..Len(old) \/ i = Len(old) + 1
      BY <2>3, <2>4, <2>5, <2>8, <2>9
    <3>2. new[i] = x
      BY <2>5, <2>8, <2>9
    <3>3. CASE i \in 1..Len(old)
      BY <2>4, <2>8, <3>2, <3>3 DEF Free
    <3>4. CASE i = Len(old) + 1
      BY <1>2, <2>4, <3>2, <3>4 DEF cn
    <3> QED
      BY <3>1, <3>3, <3>4
  <2> QED
    BY <2>7, <2>8
<1> QED
  BY <1>1, <1>2

\* The connection of a call is open, in no list and in no other call.
LEMMA OwnConn ==
  ASSUME Typed, PoolInv, NEW c \in Callers, call[c].conn # 0
  PROVE  /\ call[c].conn \in Conns /\ call[c].conn \in 1..Len(at) /\ ~Free(call[c].conn)
         /\ Len(at) \in Nat
         /\ \A d \in Callers : call[d].conn = call[c].conn => d = c
<1>1. call[c].conn \in open /\ ~Free(call[c].conn) /\ \A d \in Callers : call[d].conn = call[c].conn => d = c
  BY DEF PoolInv, Held
<1>2. call[c].conn \in Conns /\ open \subseteq 1..Len(at) /\ Len(at) \in Nat
  BY DEF Typed, PoolType, CallType
<1> QED
  BY <1>1, <1>2

\* What only a step on its own connection can change.
OnlyAt(cn) ==
  /\ \A x \in Conns \ {cn} :
       written'[x] = written[x] /\ sent'[x] = sent[x] /\ words'[x] = words[x]
  /\ tainted \subseteq tainted'

\* A call that ends leaves nothing on a connection it gives back, or taints it.
LEMMA GivenBackStreams ==
  ASSUME Typed, PoolInv, StreamInv, NEW c \in Callers, NEW cn \in Conns, cn = call[c].conn,
         NEW kept \in BOOLEAN, GivenBack(c, kept), OnlyAt(cn), UNCHANGED <<kind, via>>,
         kept /\ cn \notin tainted' => Silent(cn)',
         AnswersOwn'
  PROVE  StreamInv'
<1>0. cn # 0
  BY DEF Conns
<1>1. PICK r \in CallType : /\ r.conn = 0 /\ r.reads = <<>> /\ r.op \in {"none", "flushall"}
                            /\ call' = [call EXCEPT ![c] = r]
  BY DEF GivenBack
<1>2. \A d \in Callers : call'[d] = IF d = c THEN r ELSE call[d]
  BY <1>1 DEF Typed, PoolType
<1>3. /\ cn \in Conns /\ cn \in 1..Len(at) /\ ~Free(cn) /\ Len(at) \in Nat
      /\ \A d \in Callers : call[d].conn = cn => d = c
  BY <1>0, OwnConn
<1>4. at' = at
  BY DEF GivenBack
<1>5. Waits'
  <2> SUFFICES ASSUME NEW d \in Callers
               PROVE  /\ call'[d].op = "asyncresponse" => call'[d].reads \in {<<>>, <<0>>}
                      /\ call'[d].op \in SingleSets => Len(call'[d].reads) <= 1
                      /\ \A i \in 1..Len(Awaited(d)') :
                           /\ Awaited(d)'[i] \in 1..Len(kind)
                           /\ kind[Awaited(d)'[i]] = call'[d].op
                           /\ via[Awaited(d)'[i]] = call'[d].conn
    BY DEF Waits
  <2>1. CASE d = c
    <3>1. call'[d] = r /\ Awaited(d)' = <<>>
      BY <1>1, <1>2, <2>1 DEF Awaited
    <3>2. r.op # "asyncresponse" /\ r.op \notin SingleSets
      BY <1>1 DEF SingleSets
    <3> QED
      BY <3>1, <3>2
  <2>2. CASE d # c
    <3>1. call'[d] = call[d] /\ Awaited(d)' = Awaited(d)
      BY <1>2, <2>2 DEF Awaited
    <3> QED
      BY <3>1 DEF StreamInv, Waits
  <2> QED
    BY <2>1, <2>2
<1>6. InStep'
  <2> SUFFICES ASSUME NEW d \in Callers, call'[d].conn # 0, call'[d].conn \notin tainted',
                      call'[d].reads # <<>>
               PROVE  /\ written'[call'[d].conn] = <<>>
                      /\ AnswersOf(call'[d].op, words'[call'[d].conn], sent'[call'[d].conn], Awaited(d)')
    BY DEF InStep
  <2>1. d # c
    BY <1>1, <1>2
  <2>2. call'[d] = call[d] /\ Awaited(d)' = Awaited(d)
    BY <1>2, <2>1 DEF Awaited
  <2>3. call[d].conn \in Conns \ {cn} /\ call[d].conn \notin tainted
    BY <1>3, <2>1, <2>2 DEF Typed, PoolType, CallType, OnlyAt
  <2>4. /\ written[call[d].conn] = <<>>
        /\ AnswersOf(call[d].op, words[call[d].conn], sent[call[d].conn], Awaited(d))
    BY <2>2, <2>3 DEF StreamInv, InStep
  <2>5. /\ written'[call[d].conn] = written[call[d].conn] /\ sent'[call[d].conn] = sent[call[d].conn]
        /\ words'[call[d].conn] = words[call[d].conn]
    BY <2>3 DEF OnlyAt
  <2> QED
    BY <2>2, <2>4, <2>5
<1>7. Rested'
  <2> SUFFICES ASSUME NEW x \in Conns, x \notin tainted', Free(x)' \/ x > Len(at)
               PROVE  Silent(x)'
    BY <1>4 DEF Rested
  <2>1. CASE x = cn
    <3>1. Free(x)'
      BY <1>3, <2>1
    <3>2. kept
      BY <1>0, <1>3, <2>1, <3>1, FreeGivenBack DEF Typed
    <3> QED
      BY <2>1, <3>2 DEF Silent
  <2>2. CASE x # cn
    <3>1. Free(x) \/ x > Len(at)
      BY <1>0, <1>3, <2>2, FreeGivenBack DEF Typed
    <3>2. Silent(x)
      BY <3>1 DEF StreamInv, Rested, OnlyAt
    <3> QED
      BY <2>2, <3>2 DEF Silent, OnlyAt
  <2> QED
    BY <2>1, <2>2
<1> QED
  BY <1>5, <1>6, <1>7 DEF StreamInv

\* A call that begins finds nothing on its connection, unless that is tainted, and
\* what it waits for is what it has written and sent.
LEMMA IssueStreams ==
  ASSUME Typed, PoolInv, StreamInv, NEW c \in Callers, call[c].conn = 0, NEW op \in Ops,
         NEW s \in Servers, Issue(c, op, s)
  PROVE  StreamInv'
<1>1. PICK cn \in Conns, n \in Nat, ids \in Seq(Requests), r \in CallType :
        Issued(c, op, s, cn, n, ids, r)
  BY IssueEffect
<1>2. /\ GetConn(s, cn) /\ call' = [call EXCEPT ![c] = r]
      /\ r.op = op /\ r.conn = cn /\ r.reads = Reads(op, ids) /\ r.op # "none"
  BY <1>1, ClientAssumption DEF Issued, AllOps
<1>3. /\ n = FormOf(op).count /\ Len(ids) = n /\ \A i \in 1..n : ids[i] = Len(kind) + i
      /\ Lengthened(kind, kind', Ops, n, op)
      /\ Lengthened(via, via', Conns, n, cn)
      /\ Lengthened(given, given', Requests \cup {0}, n, 0)
      /\ UNCHANGED <<words, tainted, timeouts>>
  BY <1>1, Zenon DEF Issued
<1>4. PICK flushed \in 0..Len(written[cn] \o ids) :
             /\ FormOf(op).flushes => flushed = Len(written[cn] \o ids)
             /\ ~FormOf(op).flushes /\ n = 0 => flushed = 0
             /\ sent' = [sent EXCEPT ![cn] = @ \o SubSeq(written[cn] \o ids, 1, flushed)]
             /\ written' = [written EXCEPT ![cn] =
                  SubSeq(written[cn] \o ids, flushed + 1, Len(written[cn] \o ids))]
  BY <1>1, Zenon DEF Issued
<1>5. /\ PoolType' /\ PoolInv'
      /\ Free(cn) \/ cn > Len(at)
      /\ Len(at') >= Len(at) /\ cn <= Len(at')
      /\ \A x : Free(x)' => Free(x)
      /\ \A d \in Callers \ {c} : call[d].conn # cn
  BY <1>2, TakenPool DEF Typed
<1>6. \A d \in Callers : call'[d] = IF d = c THEN r ELSE call[d]
  BY <1>2 DEF Typed, PoolType
<1>7. cn # 0 /\ cn \in Nat /\ Len(at) \in Nat /\ Len(at') \in Nat
  BY <1>5 DEF Typed, PoolType, Conns
<1>8. cn \notin tainted => Silent(cn)
  BY <1>5 DEF StreamInv, Rested
<1>9. \A x \in Conns \ {cn} : written'[x] = written[x] /\ sent'[x] = sent[x] /\ words'[x] = words[x]
  BY <1>3, <1>4 DEF Typed, StreamType
<1>10. /\ Awaited(c)' = IF op = "asyncresponse" THEN <<>> ELSE Reads(op, ids)
       /\ \A d \in Callers \ {c} : Awaited(d)' = Awaited(d)
  BY <1>2, <1>6 DEF Awaited
<1>11. Awaited(c)' = <<>> \/ (op # "asyncresponse" /\ FormOf(op).waits /\ Awaited(c)' = ids /\ r.reads = ids)
  BY <1>2, <1>10 DEF Reads
<1>12. Waits'
  <2> SUFFICES ASSUME NEW d \in Callers
               PROVE  /\ call'[d].op = "asyncresponse" => call'[d].reads \in {<<>>, <<0>>}
                      /\ call'[d].op \in SingleSets => Len(call'[d].reads) <= 1
                      /\ \A i \in 1..Len(Awaited(d)') :
                           /\ Awaited(d)'[i] \in 1..Len(kind')
                           /\ kind'[Awaited(d)'[i]] = call'[d].op
                           /\ via'[Awaited(d)'[i]] = call'[d].conn
    BY DEF Waits
  <2>1. CASE d = c
    <3>1. call'[d] = r
      BY <1>6, <2>1
    <3>2. op = "asyncresponse" => r.reads \in {<<>>, <<0>>}
      BY <1>2 DEF Reads
    <3>3. op \in SingleSets => Len(r.reads) <= 1
      <4>1. op \in SingleSets => n <= 1
        BY <1>3, Forms
      <4>2. r.reads = <<>> \/ r.reads = <<0>> \/ r.reads = ids
        BY <1>2 DEF Reads
      <4>3. Len(<<>>) = 0 /\ Len(<<0>>) = 1
        BY One
      <4>4. Len(ids) = n
        BY <1>3
      <4>5. CASE r.reads = ids
        BY <4>1, <4>4, <4>5
      <4>6. CASE r.reads = <<>>
        <5>1. Len(r.reads) = 0
          BY <4>3, <4>6, Zenon
        <5> QED
          BY <5>1
      <4>7. CASE r.reads = <<0>>
        <5>1. Len(r.reads) = 1
          BY <4>3, <4>7, Zenon
        <5> QED
          BY <5>1
      <4> QED
        BY <4>2, <4>5, <4>6, <4>7
    <3>4. \A i \in 1..Len(Awaited(c)') :
            /\ Awaited(c)'[i] \in 1..Len(kind')
            /\ kind'[Awaited(c)'[i]] = op /\ via'[Awaited(c)'[i]] = cn
      <4>1. CASE Awaited(c)' = <<>>
        BY <4>1
      <4>2. CASE Awaited(c)' = ids
        <5>1. ASSUME NEW i \in 1..n
              PROVE  ids[i] \in 1..Len(kind') /\ kind'[ids[i]] = op /\ via'[ids[i]] = cn
          <6>1. /\ Len(kind') = Len(kind) + n /\ kind'[Len(kind) + i] = op
                /\ via'[Len(via) + i] = cn /\ Len(via) = Len(kind) /\ Len(kind) \in Nat
            BY <1>3 DEF Lengthened, Typed, RequestType
          <6>2. ids[i] = Len(kind) + i
            BY <1>3
          <6> QED
            BY <6>1, <6>2
        <5> QED
          BY <1>3, <4>2, <5>1
      <4> QED
        BY <1>11, <4>1, <4>2
    <3> QED
      BY <1>2, <2>1, <3>1, <3>2, <3>3, <3>4
  <2>2. CASE d # c
    <3>1. call'[d] = call[d] /\ Awaited(d)' = Awaited(d)
      BY <1>6, <1>10, <2>2
    <3>2. /\ call[d].op = "asyncresponse" => call[d].reads \in {<<>>, <<0>>}
          /\ call[d].op \in SingleSets => Len(call[d].reads) <= 1
      BY DEF StreamInv, Waits
    <3>3. ASSUME NEW i \in 1..Len(Awaited(d))
          PROVE  /\ Awaited(d)[i] \in 1..Len(kind')
                 /\ kind'[Awaited(d)[i]] = call[d].op /\ via'[Awaited(d)[i]] = call[d].conn
      <4>1. /\ Awaited(d)[i] \in 1..Len(kind)
            /\ kind[Awaited(d)[i]] = call[d].op /\ via[Awaited(d)[i]] = call[d].conn
        BY DEF StreamInv, Waits
      <4>2. /\ Len(kind') = Len(kind) + n /\ Len(kind) \in Nat /\ Len(via) = Len(kind)
            /\ \A j \in 1..Len(kind) : kind'[j] = kind[j] /\ via'[j] = via[j]
        BY <1>3 DEF Lengthened, Typed, RequestType
      <4> QED
        BY <4>1, <4>2
    <3> QED
      BY <3>1, <3>2, <3>3
  <2> QED
    BY <2>1, <2>2
<1>13. ASSUME cn \notin tainted, r.reads # <<>>
       PROVE  written'[cn] = <<>> /\ AnswersOf(op, words'[cn], sent'[cn], Awaited(c)')
  <2>1. written[cn] = <<>> /\ sent[cn] = <<>> /\ words'[cn] = <<>>
    BY <1>3, <1>8, <1>13 DEF Silent
  <2>2. written[cn] \o ids = ids
    BY <2>1
  <2>3. /\ sent'[cn] = <<>> \o SubSeq(ids, 1, flushed)
        /\ written'[cn] = SubSeq(ids, flushed + 1, Len(ids))
    BY <1>4, <2>1, <2>2 DEF Typed, StreamType
  <2>4. Len(ids) \in Nat /\ flushed \in 0..Len(ids)
    BY <2>2
  <2>5. CASE op = "asyncresponse"
    <3>1. n = 0 /\ flushed = 0
      BY <1>3, <1>4, <2>5, Forms
    <3>2. sent'[cn] = <<>> /\ written'[cn] = <<>>
      <4>1. SubSeq(ids, 1, 0) = <<>> /\ SubSeq(ids, 0 + 1, Len(ids)) = <<>>
        BY <1>3, <3>1, SubSeqEmpty
      <4> QED
        BY <2>3, <3>1, <4>1
    <3>3. Awaited(c)' = <<>>
      BY <1>10, <2>5
    <3>4. <<>> \in Seq(Requests)
      OBVIOUS
    <3> QED
      BY <2>1, <3>2, <3>3, <3>4, AnswersNone
  <2>6. CASE op # "asyncresponse"
    <3>1. FormOf(op).waits /\ r.reads = ids /\ Awaited(c)' = ids
      BY <1>2, <1>10, <1>13, <2>6 DEF Reads
    <3>2. flushed = Len(ids)
      BY <1>4, <2>2, <2>6, <3>1, Forms
    <3>3. SubSeq(ids, 1, Len(ids)) = ids /\ SubSeq(ids, Len(ids) + 1, Len(ids)) = <<>>
      BY <2>4, SubSeqFull, SubSeqEmpty
    <3>4. sent'[cn] = ids /\ written'[cn] = <<>>
      BY <2>3, <3>2, <3>3
    <3> QED
      BY <2>1, <3>1, <3>4, AnswersNone
  <2> QED
    BY <2>5, <2>6
<1>14. InStep'
  <2> SUFFICES ASSUME NEW d \in Callers, call'[d].conn # 0, call'[d].conn \notin tainted',
                      call'[d].reads # <<>>
               PROVE  /\ written'[call'[d].conn] = <<>>
                      /\ AnswersOf(call'[d].op, words'[call'[d].conn], sent'[call'[d].conn], Awaited(d)')
    BY DEF InStep
  <2>1. CASE d = c
    BY <1>2, <1>3, <1>6, <1>13, <2>1
  <2>2. CASE d # c
    <3>1. call'[d] = call[d] /\ Awaited(d)' = Awaited(d)
      BY <1>6, <1>10, <2>2
    <3>2. call[d].conn \in Conns \ {cn} /\ call[d].conn \notin tainted
      BY <1>3, <1>5, <2>2, <3>1 DEF Typed, PoolType, CallType
    <3>3. /\ written[call[d].conn] = <<>>
          /\ AnswersOf(call[d].op, words[call[d].conn], sent[call[d].conn], Awaited(d))
      BY <3>1, <3>2 DEF StreamInv, InStep
    <3>4. /\ written'[call[d].conn] = written[call[d].conn] /\ sent'[call[d].conn] = sent[call[d].conn]
          /\ words'[call[d].conn] = words[call[d].conn]
      BY <1>9, <3>2
    <3> QED
      BY <3>1, <3>3, <3>4
  <2> QED
    BY <2>1, <2>2
<1>15. Rested'
  <2> SUFFICES ASSUME NEW x \in Conns, x \notin tainted, Free(x)' \/ x > Len(at')
               PROVE  Silent(x)'
    BY <1>3 DEF Rested
  <2>1. x # cn
    <3>1. call'[c].conn = cn /\ call'[c].conn # 0
      BY <1>2, <1>6, <1>7
    <3>2. \A y : y = call'[c].conn => ~Free(y)'
      <4> SUFFICES ASSUME NEW y, y = call'[c].conn PROVE ~Free(y)'
        OBVIOUS
      <4> QED
        BY <1>5, <3>1 DEF PoolInv, Held, Free
    <3>3. ASSUME x = cn, Free(x)' PROVE FALSE
      BY <3>1, <3>2, <3>3
    <3> QED
      BY <1>5, <1>7, <3>3
  <2>2. Free(x) \/ x > Len(at)
    BY <1>5, <1>7 DEF Conns
  <2>3. Silent(x)
    BY <2>2 DEF StreamInv, Rested
  <2> QED
    BY <1>9, <2>1, <2>3 DEF Silent
<1>16. AnswersOwn'
  <2> SUFFICES ASSUME NEW id \in 1..Len(given'), via'[id] \notin tainted PROVE given'[id] \in {0, id}
    BY <1>3 DEF AnswersOwn
  <2>1. /\ Len(given) \in Nat /\ Len(via) = Len(given) /\ Len(given') = Len(given) + n
        /\ \A i \in 1..Len(given) : given'[i] = given[i] /\ via'[i] = via[i]
        /\ \A i \in 1..n : given'[Len(given) + i] = 0
    BY <1>3 DEF Lengthened, Typed, RequestType
  <2>2. CASE id \in 1..Len(given)
    BY <2>1, <2>2 DEF StreamInv, AnswersOwn
  <2>3. CASE id \notin 1..Len(given)
    <3>1. id - Len(given) \in 1..n /\ Len(given) + (id - Len(given)) = id
      BY <2>1, <2>3
    <3> QED
      BY <2>1, <3>1
  <2> QED
    BY <2>2, <2>3
<1> QED
  BY <1>12, <1>14, <1>15, <1>16 DEF StreamInv

\* A call ends without an answer read to its end: ReturnAsync and the deadlines.
LEMMA EndStreams ==
  ASSUME Typed, PoolInv, StreamInv, NEW c \in Callers,
         ReturnAsync(c) \/ Timeout(c) \/ TimeoutAfterHead(c)
  PROVE  StreamInv'
<1>0. PICK cn : cn = call[c].conn
  OBVIOUS
<1>1. /\ cn # 0 /\ UNCHANGED <<written, sent, kind, via, given>>
      /\ tainted \subseteq tainted'
      /\ words' = words \/ words' = [words EXCEPT ![cn] = Tail(@)]
  BY <1>0 DEF ReturnAsync, Timeout, TimeoutAfterHead, streams
<1>2. AnswersOwn'
  BY <1>1 DEF StreamInv, AnswersOwn
<1>3. OnlyAt(cn)
  <2>1. \A x \in Conns \ {cn} : words'[x] = words[x]
    BY <1>1 DEF Typed, StreamType
  <2> QED
    BY <1>1, <2>1 DEF OnlyAt
<1>4. PICK err : /\ Return(c, err)
                 /\ cn \in tainted' \/ (err = "timeout" /\ call[c].op # "setmulti")
  <2>1. CASE ReturnAsync(c) \/ TimeoutAfterHead(c)
    BY <1>0, <2>1 DEF ReturnAsync, TimeoutAfterHead
  <2>2. CASE Timeout(c)
    BY <1>0, <2>2 DEF Timeout
  <2> QED
    BY <2>1, <2>2
<1>5. PICK kept \in BOOLEAN :
        GivenBack(c, kept) /\ (kept => Deferred(call[c].op, err) \in {"nil", "ErrNotStored"})
  BY <1>0, <1>1, <1>4, ReturnGivesBack DEF Typed, PoolInv
<1>6. kept => cn \in tainted'
  BY <1>4, <1>5 DEF Deferred
<1>7. cn \in Conns
  BY <1>0, <1>1, OwnConn
<1> QED
  BY <1>0, <1>1, <1>2, <1>3, <1>5, <1>6, <1>7, GivenBackStreams

\* The node answers on a connection that a call reads from or that is tainted.
LEMMA AnswerStreams ==
  ASSUME Typed, PoolInv, StreamInv, NEW cn \in Conns, ServerAnswers(cn)
  PROVE  StreamInv'
<1> DEFINE h == Head(sent[cn])
<1>1. PICK a \in Answers(kind[h], h) : a \in Seq(WordType) /\ words' = [words EXCEPT ![cn] = @ \o a]
  BY AnswerEffect
<1>2. /\ sent[cn] # <<>> /\ sent' = [sent EXCEPT ![cn] = Tail(@)]
      /\ UNCHANGED <<call, pool, written, kind, via, given, tainted, timeouts>>
  BY AnswerEffect
<1>3. words[cn] \in Seq(WordType) /\ sent[cn] \in Seq(Requests)
  BY DEF Typed, StreamType
<1>4. /\ words'[cn] = words[cn] \o a /\ sent'[cn] = Tail(sent[cn])
      /\ \A x \in Conns \ {cn} : words'[x] = words[x] /\ sent'[x] = sent[x]
  BY <1>1, <1>2 DEF Typed, StreamType
<1>5. Waits'
  BY <1>2 DEF StreamInv, Waits, Awaited
<1>6. AnswersOwn'
  BY <1>2 DEF StreamInv, AnswersOwn
<1>7. Rested'
  <2> SUFFICES ASSUME NEW x \in Conns, x \notin tainted, Free(x)' \/ x > Len(at)
               PROVE  Silent(x)'
    BY <1>2 DEF Rested, pool
  <2>1. Free(x) \/ x > Len(at)
    BY <1>2 DEF Free, pool
  <2>2. Silent(x)
    BY <2>1 DEF StreamInv, Rested
  <2>3. x # cn
    BY <1>2, <2>2 DEF Silent
  <2> QED
    BY <1>2, <1>4, <2>2, <2>3 DEF Silent
<1>8. InStep'
  <2> SUFFICES ASSUME NEW d \in Callers, call[d].conn # 0, call[d].conn \notin tainted,
                      call[d].reads # <<>>
               PROVE  /\ written[call[d].conn] = <<>>
                      /\ AnswersOf(call[d].op, words'[call[d].conn], sent'[call[d].conn], Awaited(d))
    BY <1>2 DEF InStep, Awaited
  <2>1. /\ written[call[d].conn] = <<>>
        /\ AnswersOf(call[d].op, words[call[d].conn], sent[call[d].conn], Awaited(d))
    BY DEF StreamInv, InStep
  <2>2. call[d].conn \in Conns
    BY DEF Typed, PoolType, CallType
  <2>3. CASE call[d].conn # cn
    BY <1>4, <2>1, <2>2, <2>3
  <2>4. CASE call[d].conn = cn
    <3>1. /\ Awaited(d) \in Seq(Requests)
          /\ \A i \in 1..Len(Awaited(d)) : kind[Awaited(d)[i]] = call[d].op
      BY AwaitedTyped DEF StreamInv
    <3>2. AnswersOf(call[d].op, words[cn], sent[cn], Awaited(d))
      BY <2>1, <2>4
    <3>3. \E j \in 1..Len(Awaited(d)) : h = Awaited(d)[j]
      BY <1>2, <3>1, <3>2, AnswersNext
    <3>4. a \in Answers(call[d].op, h)
      BY <3>1, <3>3
    <3>5. AnswersOf(call[d].op, words[cn] \o a, Tail(sent[cn]), Awaited(d))
      BY <1>1, <1>2, <1>3, <3>1, <3>2, <3>4, AnswersMore
    <3> QED
      BY <1>4, <2>1, <2>4, <3>5
  <2> QED
    BY <2>3, <2>4
<1> QED
  BY <1>5, <1>6, <1>7, <1>8 DEF StreamInv

\* A call has taken an answer and waits for the next.
LEMMA MidStreams ==
  ASSUME Typed, PoolInv, StreamInv, NEW c \in Callers, NEW cn \in Conns, cn = call[c].conn,
         call[c].op # "asyncresponse", call[c].reads # <<>>,
         call' = [call EXCEPT ![c].reads = Tail(@)], UNCHANGED pool, UNCHANGED <<kind, via>>,
         OnlyAt(cn),
         cn \notin tainted' =>
           written'[cn] = <<>> /\ AnswersOf(call[c].op, words'[cn], sent'[cn], Tail(call[c].reads)),
         AnswersOwn'
  PROVE  StreamInv'
<1>0. cn # 0
  BY DEF Conns
<1>1. /\ cn \in 1..Len(at) /\ ~Free(cn) /\ Len(at) \in Nat
      /\ \A d \in Callers : call[d].conn = cn => d = c
  BY <1>0, OwnConn
<1>2. call[c].reads \in Seq(Requests \cup {0}) /\ call[c] \in CallType
  BY DEF Typed, PoolType, CallType
<1> DEFINE s == call[c].reads
<1>3. /\ \A d \in Callers : d # c => call'[d] = call[d]
      /\ call'[c].op = call[c].op /\ call'[c].conn = cn /\ call'[c].reads = Tail(s)
  BY <1>2 DEF Typed, PoolType, CallType
<1>4. /\ Awaited(c) = s /\ Awaited(c)' = Tail(s)
      /\ \A d \in Callers : d # c => Awaited(d)' = Awaited(d)
  BY <1>3 DEF Awaited
<1>5. /\ Tail(s) \in Seq(Requests \cup {0}) /\ Len(s) \in Nat /\ Len(Tail(s)) = Len(s) - 1
      /\ \A i \in 1..(Len(s) - 1) : Tail(s)[i] = s[i + 1]
  <2>1. s \in Seq(Requests \cup {0}) /\ s # <<>>
    BY <1>2
  <2> HIDE DEF s
  <2> QED
    BY <2>1
<1>6. Waits'
  <2> SUFFICES ASSUME NEW d \in Callers
               PROVE  /\ call'[d].op = "asyncresponse" => call'[d].reads \in {<<>>, <<0>>}
                      /\ call'[d].op \in SingleSets => Len(call'[d].reads) <= 1
                      /\ \A i \in 1..Len(Awaited(d)') :
                           /\ Awaited(d)'[i] \in 1..Len(kind)
                           /\ kind[Awaited(d)'[i]] = call'[d].op
                           /\ via[Awaited(d)'[i]] = call'[d].conn
    BY DEF Waits
  <2>1. CASE d = c
    <3>1. call[c].op \in SingleSets => Len(s) <= 1
      BY DEF StreamInv, Waits
    <3>2. \A i \in 1..Len(s) : s[i] \in 1..Len(kind) /\ kind[s[i]] = call[c].op /\ via[s[i]] = cn
      BY <1>4 DEF StreamInv, Waits
    <3> HIDE DEF s
    <3>3. \A i \in 1..Len(Tail(s)) :
            Tail(s)[i] \in 1..Len(kind) /\ kind[Tail(s)[i]] = call[c].op /\ via[Tail(s)[i]] = cn
      <4> SUFFICES ASSUME NEW i \in 1..Len(Tail(s))
                   PROVE  Tail(s)[i] \in 1..Len(kind) /\ kind[Tail(s)[i]] = call[c].op /\ via[Tail(s)[i]] = cn
        OBVIOUS
      <4>1. i + 1 \in 1..Len(s) /\ Tail(s)[i] = s[i + 1]
        BY <1>5
      <4> QED
        BY <3>2, <4>1
    <3>4. call[c].op \in SingleSets => Len(Tail(s)) <= 1
      BY <1>5, <3>1
    <3> QED
      BY <1>3, <1>4, <2>1, <3>3, <3>4
  <2>2. CASE d # c
    BY <1>3, <1>4, <2>2 DEF StreamInv, Waits
  <2> QED
    BY <2>1, <2>2
<1>7. InStep'
  <2> SUFFICES ASSUME NEW d \in Callers, call'[d].conn # 0, call'[d].conn \notin tainted',
                      call'[d].reads # <<>>
               PROVE  /\ written'[call'[d].conn] = <<>>
                      /\ AnswersOf(call'[d].op, words'[call'[d].conn], sent'[call'[d].conn], Awaited(d)')
    BY DEF InStep
  <2>1. CASE d = c
    BY <1>3, <1>4, <2>1
  <2>2. CASE d # c
    <3>1. call'[d] = call[d] /\ Awaited(d)' = Awaited(d)
      BY <1>3, <1>4, <2>2
    <3>2. call[d].conn \in Conns \ {cn} /\ call[d].conn \notin tainted
      BY <1>1, <2>2, <3>1 DEF Typed, PoolType, CallType, OnlyAt
    <3>3. /\ written[call[d].conn] = <<>>
          /\ AnswersOf(call[d].op, words[call[d].conn], sent[call[d].conn], Awaited(d))
      BY <3>1, <3>2 DEF StreamInv, InStep
    <3>4. /\ written'[call[d].conn] = written[call[d].conn] /\ sent'[call[d].conn] = sent[call[d].conn]
          /\ words'[call[d].conn] = words[call[d].conn]
      BY <3>2 DEF OnlyAt
    <3> QED
      BY <3>1, <3>3, <3>4
  <2> QED
    BY <2>1, <2>2
<1>8. Rested'
  <2> SUFFICES ASSUME NEW x \in Conns, x \notin tainted', Free(x)' \/ x > Len(at)
               PROVE  Silent(x)'
    BY DEF Rested, pool
  <2>1. Free(x) \/ x > Len(at)
    BY DEF Free, pool
  <2>2. x # cn
    BY <1>1, <2>1
  <2>3. Silent(x)
    BY <2>1 DEF StreamInv, Rested, OnlyAt
  <2> QED
    BY <2>2, <2>3 DEF Silent, OnlyAt
<1> QED
  BY <1>6, <1>7, <1>8 DEF StreamInv

\* What a call reads is a whole answer to its own request, or the connection is closed
\* or tainted after it.
LEMMA ReadStreams ==
  ASSUME Typed, PoolInv, StreamInv, NEW c \in Callers, Read(c)
  PROVE  StreamInv'
<1>0. PICK cn : cn = call[c].conn
  OBVIOUS
<1> DEFINE op == call[c].op  s == call[c].reads  ws == words[cn]
           p == Parse(op, ws)  id == Head(s)  last == Len(s) = 1
<1>1. /\ cn # 0 /\ s # <<>> /\ ws # <<>> /\ p.took <= Len(ws)
      /\ words' = [words EXCEPT ![cn] = SubSeq(ws, p.took + 1, Len(ws))]
      /\ given' = IF id = 0 \/ p.took = 0 THEN given ELSE [given EXCEPT ![id] = ws[1].of]
      /\ UNCHANGED <<written, sent, kind, via, timeouts>>
  BY <1>0 DEF Read
<1>2. /\ p.err = "nil" /\ ~last => call' = [call EXCEPT ![c].reads = Tail(@)] /\ UNCHANGED pool
      /\ p.err # "nil" \/ last => Return(c, p.err)
  BY <1>0, Zenon DEF Read
<1>3. tainted' = IF op = "scan" \/ (op = "setmulti" /\ p.err # "nil" /\ ~last)
                 THEN tainted \cup {cn} ELSE tainted
  BY <1>0 DEF Read
<1>4. /\ call[c] \in CallType /\ cn \in Conns /\ s \in Seq(Requests \cup {0})
      /\ id = s[1] /\ id \in Requests \cup {0} /\ Len(s) \in Nat \ {0}
  BY <1>0, <1>1, ReadingCall DEF Typed
<1>5. ws \in Seq(WordType) /\ Len(ws) \in Nat
  BY <1>4 DEF Typed, StreamType
<1>6. op \in Ops
  <2>1. op \in Ops \cup {"none"}
    BY <1>4 DEF CallType
  <2>2. op # "none"
    BY <1>0, <1>1 DEF PoolInv, CallShape
  <2> QED
    BY <2>1, <2>2
<1>7. /\ op = "asyncresponse" => Len(s) = 1 /\ id = 0
      /\ op # "asyncresponse" => Awaited(c) = s /\ id \in 1..Len(kind) /\ via[id] = cn /\ id # 0
      /\ op \in SingleSets => last
  <2>1. /\ op = "asyncresponse" => s \in {<<>>, <<0>>}
        /\ op \in SingleSets => Len(s) <= 1
    BY DEF StreamInv, Waits
  <2>2. op = "asyncresponse" => Len(s) = 1 /\ id = 0
    <3>1. Len(<<0>>) = 1 /\ Head(<<0>>) = 0
      OBVIOUS
    <3>2. op = "asyncresponse" => s = <<0>>
      BY <1>1, <2>1
    <3> QED
      BY <3>1, <3>2, Zenon
  <2>3. op # "asyncresponse" => Awaited(c) = s
    BY DEF Awaited
  <2>4. \A i \in 1..Len(Awaited(c)) :
          Awaited(c)[i] \in 1..Len(kind) /\ via[Awaited(c)[i]] = cn
    BY <1>0 DEF StreamInv, Waits
  <2>5. 1 \in 1..Len(s) /\ 0 \notin 1..Len(kind)
    BY <1>4
  <2>6. op # "asyncresponse" => id \in 1..Len(kind) /\ via[id] = cn /\ id # 0
    BY <1>4, <2>3, <2>4, <2>5
  <2>7. op \in SingleSets => last
    <3>1. PICK n : n = Len(s)
      OBVIOUS
    <3>2. n \in Nat \ {0} /\ (op \in SingleSets => n <= 1)
      BY <1>4, <2>1, <3>1, Zenon
    <3>3. n <= 1 => n = 1
      BY <3>2
    <3> QED
      BY <3>1, <3>2, <3>3, Zenon
  <2> QED
    BY <2>2, <2>3, <2>6, <2>7
<1> HIDE DEF p
<1>8. OnlyAt(cn)
  <2>1. \A x \in Conns \ {cn} : words'[x] = words[x]
    BY <1>1 DEF Typed, StreamType
  <2> QED
    BY <1>1, <1>3, <2>1 DEF OnlyAt
<1>9. ASSUME op = "asyncresponse" \/ cn \in tainted' \/ p.took = 0 \/ ws[1].of = id
      PROVE  AnswersOwn'
  <2> SUFFICES ASSUME NEW j \in 1..Len(given'), via[j] \notin tainted' PROVE given'[j] \in {0, j}
    BY <1>1 DEF AnswersOwn
  <2>1. given \in [1..Len(given) -> Requests \cup {0}] /\ given \in Seq(Requests \cup {0})
        /\ Len(given) \in Nat
    BY DEF Typed, RequestType
  <2>2. CASE given' = given
    BY <1>8, <2>2 DEF StreamInv, AnswersOwn, OnlyAt
  <2>3. CASE given' # given
    <3>1. given' = [given EXCEPT ![id] = ws[1].of] /\ id # 0 /\ p.took # 0
      BY <1>1, <2>3
    <3>2. op # "asyncresponse" /\ via[id] = cn
      BY <1>7, <3>1
    <3>3. id \in 1..Len(given)
      BY <1>7, <3>2 DEF Typed, RequestType
    <3>4. Len(given') = Len(given)
      <4>1. ws[1] \in WordType
        BY <1>1, <1>5
      <4>2. ws[1].of \in Requests \cup {0}
        BY <4>1 DEF WordType
      <4> QED
        BY <2>1, <3>1, <3>3, <4>2, ExceptSeq
    <3>5. j \in 1..Len(given) /\ given'[j] = IF j = id THEN ws[1].of ELSE given[j]
      BY <2>1, <3>1, <3>4
    <3>6. given[j] \in {0, j}
      BY <1>8, <3>5 DEF StreamInv, AnswersOwn, OnlyAt
    <3>7. j = id => ws[1].of = id
      BY <1>9, <3>1, <3>2
    <3> QED
      BY <3>5, <3>6, <3>7
  <2> QED
    BY <2>2, <2>3
<1>10. CASE cn \in tainted'
  <2>1. AnswersOwn'
    BY <1>9, <1>10
  <2>2. CASE p.err = "nil" /\ ~last
    BY <1>0, <1>1, <1>2, <1>4, <1>7, <1>8, <1>10, <2>1, <2>2, MidStreams
  <2>3. CASE p.err # "nil" \/ last
    <3>1. Return(c, p.err)
      BY <1>2, <2>3
    <3>2. PICK kept \in BOOLEAN : GivenBack(c, kept)
      BY <1>0, <1>1, <3>1, ReturnGivesBack DEF Typed, PoolInv
    <3> QED
      BY <1>0, <1>1, <1>4, <1>8, <1>10, <2>1, <3>2, GivenBackStreams
  <2> QED
    BY <2>2, <2>3
<1>11. CASE cn \notin tainted'
  <2>1. /\ cn \notin tainted /\ op # "scan"
        /\ op = "setmulti" /\ p.err # "nil" => last
    BY <1>3, <1>11
  <2>2. written[cn] = <<>> /\ AnswersOf(op, ws, sent[cn], Awaited(c))
    BY <1>0, <1>1, <2>1 DEF StreamInv, InStep
  <2>3. Awaited(c) # <<>>
    BY <1>1, <1>5, <2>2, AnswersSilent
  <2>4. op # "asyncresponse"
    BY <2>3 DEF Awaited
  <2>5. Awaited(c) = s
    BY <1>7, <2>4
  <2>6. s \in Seq(Requests)
    <3>1. Awaited(c) \in Seq(Requests)
      BY AwaitedTyped DEF StreamInv
    <3> QED
      BY <2>5, <3>1, Zenon
  <2>7. AnswersOf(op, ws, sent[cn], s)
    BY <2>2, <2>5, Zenon
  <2> HIDE DEF op, s, ws
  <2>8. PICK a \in Answers(op, s[1]) :
          /\ Len(a) \in 1..Len(ws) /\ ws[1] = a[1]
          /\ AnswersOf(op, SubSeq(ws, Len(a) + 1, Len(ws)), sent[cn], Tail(s))
          /\ Len(s) = 1 => Len(a) = Len(ws) /\ sent[cn] = <<>>
    BY <1>1, <1>5, <2>6, <2>7, AnswersLess
  <2>9. s[1] \in Requests
    BY <1>1, <1>5, <2>6, <2>7, AnswersLess
  <2>10. /\ p.took # 0 /\ ws[1].of = id
         /\ p.err \in {"nil", "miss", "ErrNotStored"}
         /\ p.err # "miss" => p.took = Len(a)
         /\ p.err = "ErrNotStored" => op \in SingleSets \cup {"setmulti"}
         /\ p.err = "miss" => op # "setmulti"
    BY <1>4, <1>6, <2>1, <2>8, <2>9, ParseOwn DEF p
  <2>11. AnswersOwn'
    BY <1>9, <2>10
  <2>12. words'[cn] = SubSeq(ws, p.took + 1, Len(ws)) /\ written'[cn] = <<>> /\ sent'[cn] = sent[cn]
    BY <1>1, <1>4, <2>2 DEF Typed, StreamType, ws
  <2>13. CASE p.err = "nil" /\ ~last
    <3>1. AnswersOf(op, words'[cn], sent'[cn], Tail(s))
      BY <2>8, <2>10, <2>12, <2>13
    <3>2. call' = [call EXCEPT ![c].reads = Tail(@)] /\ UNCHANGED pool
      BY <1>2, <2>13
    <3> QED
      BY <1>0, <1>1, <1>4, <1>8, <2>4, <2>11, <2>12, <3>1, <3>2, MidStreams DEF op, s
  <2>14. CASE p.err # "nil" \/ last
    <3>1. Return(c, p.err)
      BY <1>2, <2>14
    <3>2. PICK kept \in BOOLEAN :
            GivenBack(c, kept) /\ (kept => Deferred(op, p.err) \in {"nil", "ErrNotStored"})
      BY <1>0, <1>1, <3>1, ReturnGivesBack DEF Typed, PoolInv, op
    <3>3. kept => p.err # "miss" /\ last
      <4>1. CASE op = "setmulti"
        BY <2>1, <2>10, <2>14, <4>1
      <4>2. CASE op # "setmulti"
        <5>1. Deferred(op, p.err) = p.err
          BY <4>2 DEF Deferred
        <5>2. p.err = "ErrNotStored" => last
          BY <1>7, <2>10, <4>2 DEF op, s
        <5> QED
          BY <2>10, <2>14, <3>2, <5>1, <5>2
      <4> QED
        BY <4>1, <4>2
    <3>4. kept => Silent(cn)'
      <4> SUFFICES ASSUME kept PROVE Silent(cn)'
        OBVIOUS
      <4>1. p.took = Len(ws) /\ sent[cn] = <<>>
        BY <2>8, <2>10, <3>3
      <4>2. words'[cn] = <<>>
        BY <1>5, <2>12, <4>1, SubSeqEmpty
      <4> QED
        BY <2>12, <4>1, <4>2 DEF Silent
    <3> QED
      BY <1>0, <1>1, <1>4, <1>8, <2>11, <3>2, <3>4, GivenBackStreams
  <2> QED
    BY <2>13, <2>14
<1> QED
  BY <1>10, <1>11

\* Nothing is on a connection at the start.
LEMMA InitStreams == Init => StreamInv
<1> SUFFICES ASSUME Init PROVE StreamInv
  OBVIOUS
<1>1. \A c \in Callers : call[c].op = "none" /\ call[c].conn = 0 /\ call[c].reads = <<>>
  BY DEF Init, Idle
<1>2. Waits
  BY <1>1 DEF Waits, Awaited, SingleSets
<1>3. InStep
  BY <1>1 DEF InStep
<1>4. Rested
  BY DEF Init, Rested, Silent
<1>5. AnswersOwn
  BY DEF Init, AnswersOwn
<1> QED
  BY <1>2, <1>3, <1>4, <1>5 DEF StreamInv

\* No step leaves an answer behind on a connection that is not tainted.
LEMMA NextStreams == Typed /\ PoolInv /\ StreamInv /\ [Next]_vars => StreamInv'
<1> SUFFICES ASSUME Typed, PoolInv, StreamInv, [Next]_vars PROVE StreamInv'
  OBVIOUS
<1>1. ASSUME NEW c \in Callers, Begin(c) \/ FlushNext(c) PROVE StreamInv'
  <2>1. call[c].conn = 0
    BY <1>1, BeginTypes
  <2>2. PICK op \in Ops : \E s \in Servers : Issue(c, op, s)
    BY <1>1, BeginTypes
  <2> QED
    BY <2>1, <2>2, IssueStreams
<1>2. ASSUME NEW c \in Callers, ReturnAsync(c) \/ Timeout(c) \/ TimeoutAfterHead(c)
      PROVE  StreamInv'
  BY <1>2, EndStreams
<1>3. ASSUME NEW c \in Callers, Read(c) PROVE StreamInv'
  BY <1>3, ReadStreams
<1>4. ASSUME NEW cn \in Conns, ServerAnswers(cn) PROVE StreamInv'
  BY <1>4, AnswerStreams
<1>5. CASE UNCHANGED vars
  <2>1. \A x : Silent(x)' <=> Silent(x)
    BY <1>5 DEF vars, streams, Silent
  <2>2. \A x : Free(x)' <=> Free(x)
    BY <1>5 DEF vars, pool, Free
  <2>3. Rested'
    BY <1>5, <2>1, <2>2 DEF vars, pool, StreamInv, Rested
  <2>4. Waits' /\ InStep' /\ AnswersOwn'
    BY <1>5 DEF vars, streams, StreamInv, Waits, InStep, AnswersOwn, Awaited
  <2> QED
    BY <2>3, <2>4 DEF StreamInv
<1> QED
  BY <1>1, <1>2, <1>3, <1>4, <1>5 DEF Next

\* A connection in a list that no asynchronous set, scan, unfinished SetMulti or
\* unnoticed deadline has used carries no word, no request and no buffered write: every
\* parser takes its answer to the end or its error closes the connection (condRelease).
THEOREM IdleSilent == Spec => []IdleIsSilent
<1>1. ClientInv => IdleIsSilent
  <2> SUFFICES ASSUME ClientInv, NEW s \in Servers, NEW i \in 1..Len(free[s]),
                      free[s][i] \notin tainted
               PROVE  /\ written[free[s][i]] = <<>> /\ sent[free[s][i]] = <<>>
                      /\ words[free[s][i]] = <<>>
    BY DEF IdleIsSilent
  <2>1. free[s] \in Seq(Conns)
    BY DEF ClientInv, Typed, PoolType
  <2>2. free[s][i] \in Conns /\ Free(free[s][i])
    BY <2>1 DEF Free
  <2>3. Silent(free[s][i])
    BY <2>2 DEF ClientInv, StreamInv, Rested
  <2> QED
    BY <2>3 DEF Silent
<1>2. Init => ClientInv
  BY InitTypes, InitStreams DEF ClientInv
<1>3. ClientInv /\ [Next]_vars => ClientInv'
  BY NextTypes, NextStreams DEF ClientInv
<1> QED
  BY <1>1, <1>2, <1>3, PTL DEF Spec

\* On such a connection each call gets the answers to its own requests, in the order in
\* which it wrote them, however the goroutines share the connections
\* (multiGetFromAddr, multiRetFromAddr, populateMany).
THEOREM OwnAnswers == Spec => []AnswersOwn
<1>1. ClientInv => AnswersOwn
  BY DEF ClientInv, StreamInv
<1>2. Init => ClientInv
  BY InitTypes, InitStreams DEF ClientInv
<1>3. ClientInv /\ [Next]_vars => ClientInv'
  BY NextTypes, NextStreams DEF ClientInv
<1> QED
  BY <1>1, <1>2, <1>3, PTL DEF Spec
=============================================================================

---------------------------- MODULE ValuePathProofs ----------------------------
(***************************************************************************)
(* Theorems about ValuePath, for every set of tenants and of kinds of        *)
(* requests and any size of the value FIFO: the lines that come in are       *)
(* numbered by their request and their place in it, the FIFO holds them in   *)
(* that order, and as long as no disturber has come before, it begins with   *)
(* the line that muu_value_set expects.                                     *)
(***************************************************************************)
EXTENDS ValuePath, TLAPS

\* The lines that have come in.
CameIn(r, n) ==
  /\ r \in 1..Len(sent) /\ n \in 1..sent[r].lines
  /\ r = Len(sent) => n <= arrived

Before(a, b) == a[1] < b[1] \/ (a[1] = b[1] /\ a[2] < b[2])

\* Requests that the control unit has handled: those whose command is not on its way to it.
Handled == Len(sent) - Len(commands)

\* Lines in the FIFO have come in, and in the order of the FIFO.
FifoInv ==
  /\ \A i \in 1..Len(valueFifo), r, n \in Nat : valueFifo[i] = <<r, n>> => CameIn(r, n)
  /\ \A i, j \in 1..Len(valueFifo) : i < j => Before(valueFifo[i], valueFifo[j])
  /\ sent = <<>> => arrived = 0
  /\ sent # <<>> => arrived <= sent[Len(sent)].lines

\* Commands and results are in the order of the requests, and a request without a result
\* was refused.
OrderInv ==
  /\ Handled \in Nat /\ current \in 0..Handled /\ disturbers \subseteq 1..Handled
  /\ \A i \in 1..Len(commands) : commands[i] = Handled + i
  /\ \A i \in 1..Len(results) : results[i].req \in (current + 1)..Handled
                               /\ results[i].req \notin disturbers
  /\ \A i, j \in 1..Len(results) : i < j => results[i].req < results[j].req
  /\ \A r \in (current + 1)..Handled :
       r \in disturbers \/ \E i \in 1..Len(results) : results[i].req = r

\* What muu_value_set does is for its current command, and it has not touched later ones.
SetterInv ==
  /\ state # "idle" => current \in 1..Handled
  /\ state = "write" =>
       /\ toGo \in 1..sent[current].lines
       /\ Len(stored[current]) = sent[current].lines - toGo
  /\ state = "throw" => toGo >= 1
  /\ state = "condition" => sent[current].op = "conditional" /\ condition[current] = <<>>
  /\ state \in {"write", "condition"} => current \notin disturbers
  /\ state \in {"throwFirst", "throw"} => current \in disturbers
  /\ \A r \in Requests : r > current => stored[r] = <<>> /\ condition[r] = <<>>

\* No disturber has come to muu_value_set.
Clean == \A d \in disturbers : current < d

\* Lines of the current command that were taken, if nothing has gone wrong.
Taken ==
  IF state = "idle" THEN (IF current = 0 THEN 0 ELSE sent[current].lines)
  ELSE IF state = "write" THEN sent[current].lines - toGo ELSE 0

\* The lines that have come in are those taken and those in the FIFO.
Paired(t) ==
  /\ \A n \in 1..t : CameIn(current, n)
  /\ \A r, n \in Nat :
       (CameIn(r, n) /\ (current < r \/ (current = r /\ t < n)))
         <=> \E i \in 1..Len(valueFifo) : valueFifo[i] = <<r, n>>

PathInv ==
  /\ TypeOK /\ FifoInv /\ OrderInv /\ SetterInv
  /\ Clean => Paired(Taken)
  /\ OwnValueUntilDisturbed

-----------------------------------------------------------------------------
(* Facts about the operators.                                               *)

\* A sequence with one more element.
LEMMA OneMore ==
  ASSUME NEW S, NEW s \in Seq(S), NEW x \in S
  PROVE  /\ Append(s, x) \in Seq(S) /\ Len(s) \in Nat /\ Len(Append(s, x)) = Len(s) + 1
         /\ \A i \in 1..Len(s) : Append(s, x)[i] = s[i]
         /\ Append(s, x)[Len(s) + 1] = x
OBVIOUS

\* A sequence without its first element.
LEMMA OneLess ==
  ASSUME NEW S, NEW s \in Seq(S), s # <<>>
  PROVE  /\ Len(s) \in Nat /\ Len(s) > 0 /\ Head(s) = s[1] /\ Head(s) \in S
         /\ Tail(s) \in Seq(S) /\ Len(Tail(s)) = Len(s) - 1
         /\ \A i \in 1..Len(Tail(s)) : Tail(s)[i] = s[i + 1]
OBVIOUS

\* The requests are requests.
LEMMA SentKinds ==
  ASSUME TypeOK, NEW r \in 1..Len(sent)
  PROVE  /\ Len(sent) \in Nat /\ r \in Requests /\ sent[r] \in Kinds
         /\ sent[r].lines \in 0..MaxLines /\ sent[r].lines \in Nat
         /\ sent[r].op \in {"read", "delete"} => sent[r].lines = 0
         /\ sent[r].op = "conditional" => sent[r].lines = 1
         /\ sent[r].op \in Ops
<1>1. sent[r] \in Kinds /\ Len(sent) \in Nat /\ Len(sent) <= MaxRequests
  BY DEF TypeOK
<1>2. MaxRequests \in Nat /\ MaxLines \in Nat
  BY SizeAssumption
<1>3. r \in Requests
  BY <1>1, <1>2 DEF Requests
<1>4. /\ sent[r].lines \in 0..MaxLines /\ sent[r].op \in Ops
      /\ sent[r].op \in {"read", "delete"} => sent[r].lines = 0
      /\ sent[r].op = "conditional" => sent[r].lines = 1
  BY <1>1, KindAssumption
<1> QED
  BY <1>1, <1>2, <1>3, <1>4

\* The line that muu_value_set takes is, as long as nothing has gone wrong, the next one
\* of its command.
LEMMA NextLine ==
  ASSUME TypeOK, FifoInv, current \in 1..Len(sent), NEW t \in Nat, t < sent[current].lines,
         Paired(t), TakeLine
  PROVE  /\ Head(valueFifo) = <<current, t + 1>>
         /\ Paired(t + 1)'
<1> DEFINE v == valueFifo  w == Tail(valueFifo)
<1>1. /\ v \in Seq(LineType) /\ v # <<>> /\ w = valueFifo'
      /\ UNCHANGED <<sent, arrived, current>>
  BY DEF TypeOK, TakeLine, splitter
<1>2. /\ Len(v) \in Nat /\ Len(v) > 0 /\ Head(v) = v[1]
      /\ Len(w) = Len(v) - 1 /\ \A i \in 1..Len(w) : w[i] = v[i + 1]
  BY <1>1, OneLess
<1>3. \A i \in 1..Len(v) : v[i] = <<v[i][1], v[i][2]>> /\ v[i][1] \in Nat /\ v[i][2] \in Nat
  BY <1>1, SizeAssumption DEF LineType, Requests
<1>4. /\ \A i \in 1..Len(v), r, n \in Nat : v[i] = <<r, n>> => CameIn(r, n)
      /\ \A i, j \in 1..Len(v) : i < j => Before(v[i], v[j])
  BY DEF FifoInv
<1>5. /\ \A n \in 1..t : CameIn(current, n)
      /\ \A r, n \in Nat :
           (CameIn(r, n) /\ (current < r \/ (current = r /\ t < n)))
             <=> \E i \in 1..Len(v) : v[i] = <<r, n>>
  BY DEF Paired
<1>6. current \in Nat /\ Len(sent) \in Nat /\ sent[current].lines \in Nat /\ arrived \in Nat
  BY SentKinds DEF TypeOK
<1> HIDE DEF v, w
<1>7. CameIn(current, t + 1)
  <2> DEFINE r == v[1][1]  n == v[1][2]
  <2>1. 1 \in 1..Len(v)
    BY <1>2
  <2>2. v[1] = <<r, n>> /\ r \in Nat /\ n \in Nat /\ CameIn(r, n)
    BY <1>3, <1>4, <2>1
  <2>3. current < r \/ (current = r /\ t < n)
    BY <1>5, <2>1, <2>2
  <2> HIDE DEF r, n
  <2> QED
    BY <1>6, <2>2, <2>3 DEF CameIn
<1>8. v[1] = <<current, t + 1>>
  <2>1. PICK i \in 1..Len(v) : v[i] = <<current, t + 1>>
    <3>1. t + 1 \in Nat /\ t < t + 1
      OBVIOUS
    <3> QED
      BY <1>5, <1>6, <1>7, <3>1, Zenon
  <2>2. CASE i = 1
    BY <2>1, <2>2
  <2>3. CASE i # 1
    <3> DEFINE r == v[1][1]  n == v[1][2]
    <3>1. 1 \in 1..Len(v) /\ 1 < i
      BY <1>2, <2>3
    <3>2. Before(v[1], v[i])
      BY <1>4, <2>1, <3>1
    <3>3. v[1] = <<r, n>> /\ r \in Nat /\ n \in Nat
      BY <1>3, <3>1
    <3>4. current < r \/ (current = r /\ t < n)
      BY <1>5, <3>1, <3>3
    <3>5. r < current \/ (r = current /\ n < t + 1)
      BY <2>1, <3>2 DEF Before
    <3> HIDE DEF r, n
    <3> QED
      BY <1>6, <3>3, <3>4, <3>5
  <2> QED
    BY <2>2, <2>3
<1>9. \A r, n : CameIn(r, n)' <=> CameIn(r, n)
  BY <1>1 DEF CameIn
<1>10. \A n \in 1..(t + 1) : CameIn(current, n)
  BY <1>5, <1>7
<1>11. ASSUME NEW r \in Nat, NEW n \in Nat
       PROVE  (CameIn(r, n) /\ (current < r \/ (current = r /\ t + 1 < n)))
                <=> \E i \in 1..Len(w) : w[i] = <<r, n>>
  <2>1. ASSUME CameIn(r, n), current < r \/ (current = r /\ t + 1 < n)
        PROVE  \E i \in 1..Len(w) : w[i] = <<r, n>>
    <3>1. PICK j \in 1..Len(v) : v[j] = <<r, n>>
      <4>1. current < r \/ (current = r /\ t < n)
        BY <1>6, <2>1
      <4> QED
        BY <1>5, <2>1, <4>1, Zenon
    <3>2. j # 1
      BY <1>6, <1>8, <2>1, <3>1
    <3>3. j - 1 \in 1..Len(w) /\ (j - 1) + 1 = j
      BY <1>2, <3>2
    <3>4. w[j - 1] = <<r, n>>
      BY <1>2, <3>1, <3>3
    <3> QED
      BY <3>3, <3>4
  <2>2. ASSUME NEW i \in 1..Len(w), w[i] = <<r, n>>
        PROVE  CameIn(r, n) /\ (current < r \/ (current = r /\ t + 1 < n))
    <3>1. i + 1 \in 1..Len(v) /\ 1 \in 1..Len(v) /\ 1 < i + 1 /\ v[i + 1] = <<r, n>>
      BY <1>2, <2>2
    <3>2. CameIn(r, n) /\ (current < r \/ (current = r /\ t < n))
      BY <1>5, <3>1
    <3>3. Before(v[1], v[i + 1])
      BY <1>4, <3>1
    <3>4. current < r \/ (current = r /\ t + 1 < n)
      BY <1>8, <3>1, <3>3 DEF Before
    <3> QED
      BY <3>2, <3>4
  <2> QED
    BY <2>1, <2>2
<1>12. current' = current /\ valueFifo' = w
  BY <1>1
<1>13. Paired(t + 1)'
  BY <1>9, <1>10, <1>11, <1>12 DEF Paired
<1> QED
  BY <1>2, <1>8, <1>13 DEF v

\* The rest of the FIFO is in order too.
LEMMA TakeFifo ==
  ASSUME TypeOK, FifoInv, TakeLine
  PROVE  /\ FifoInv' /\ valueFifo' \in Seq(LineType)
         /\ Head(valueFifo) \in LineType
         /\ \A r, n \in Nat : Head(valueFifo) = <<r, n>> => CameIn(r, n)
<1> DEFINE v == valueFifo  w == Tail(valueFifo)
<1>1. /\ v \in Seq(LineType) /\ v # <<>> /\ w = valueFifo'
      /\ UNCHANGED <<sent, arrived, current>>
  BY DEF TypeOK, TakeLine, splitter
<1>2. /\ Len(v) \in Nat /\ Len(v) > 0 /\ Head(v) = v[1] /\ Head(v) \in LineType
      /\ w \in Seq(LineType)
      /\ Len(w) = Len(v) - 1 /\ \A i \in 1..Len(w) : w[i] = v[i + 1]
  BY <1>1, OneLess
<1>3. /\ \A i \in 1..Len(v), r, n \in Nat : v[i] = <<r, n>> => CameIn(r, n)
      /\ \A i, j \in 1..Len(v) : i < j => Before(v[i], v[j])
      /\ sent = <<>> => arrived = 0
      /\ sent # <<>> => arrived <= sent[Len(sent)].lines
  BY DEF FifoInv
<1> HIDE DEF v, w
<1>4. \A r, n : CameIn(r, n)' <=> CameIn(r, n)
  BY <1>1 DEF CameIn
<1>5. \A i \in 1..Len(w), r, n \in Nat : w[i] = <<r, n>> => CameIn(r, n)
  BY <1>2, <1>3
<1>6. ASSUME NEW i \in 1..Len(w), NEW j \in 1..Len(w), i < j
      PROVE  Before(w[i], w[j])
  <2>1. /\ i + 1 \in 1..Len(v) /\ j + 1 \in 1..Len(v) /\ i + 1 < j + 1
        /\ w[i] = v[i + 1] /\ w[j] = v[j + 1]
    BY <1>2, <1>6
  <2> QED
    BY <1>3, <2>1
<1>7. FifoInv'
  <2>1. \A i \in 1..Len(valueFifo'), r, n \in Nat : valueFifo'[i] = <<r, n>> => CameIn(r, n)'
    BY <1>1, <1>4, <1>5
  <2>2. \A i, j \in 1..Len(valueFifo') : i < j => Before(valueFifo'[i], valueFifo'[j])
    BY <1>1, <1>6
  <2> QED
    BY <1>1, <1>3, <2>1, <2>2 DEF FifoInv, Before
<1>8. \A r, n \in Nat : v[1] = <<r, n>> => CameIn(r, n)
  BY <1>2, <1>3
<1> QED
  BY <1>1, <1>2, <1>7, <1>8 DEF v

-----------------------------------------------------------------------------
(* What steps leave alone.                                                  *)

\* A step that leaves the lines alone.
LEMMA FifoKept ==
  ASSUME FifoInv, UNCHANGED <<sent, arrived, valueFifo>>
  PROVE  FifoInv'
BY DEF FifoInv, CameIn, Before

\* A step that leaves the lines and the current command alone.
LEMMA PairedKept ==
  ASSUME NEW t, Paired(t), UNCHANGED <<sent, arrived, valueFifo, current>>
  PROVE  Paired(t)'
BY DEF Paired, CameIn

\* A step that leaves the commands alone.
LEMMA OrderKept ==
  ASSUME OrderInv, Len(sent)' = Len(sent), UNCHANGED <<commands, results, current, disturbers>>
  PROVE  OrderInv'
BY DEF OrderInv, Handled

\* A disturber stays one.
LEMMA StillUndisturbed ==
  ASSUME disturbers \subseteq disturbers', NEW r
  PROVE  Undisturbed(r)' => Undisturbed(r)
BY DEF Undisturbed

\* A request whose lines and whose condition stay, when muu_value_set is not writing it.
LEMMA OwnedKept ==
  ASSUME NEW r, Owned(r), sent'[r] = sent[r], UNCHANGED <<stored[r], condition[r]>>,
         state = "write" /\ current = r => state' = "write" /\ current' = r
  PROVE  Owned(r)'
BY DEF Owned, Value

\* At the start nothing has been sent.
LEMMA InitPath == Init => PathInv
<1> SUFFICES ASSUME Init PROVE PathInv
  OBVIOUS
<1>1. /\ sent = <<>> /\ arrived = 0 /\ commands = <<>> /\ results = <<>> /\ valueFifo = <<>>
      /\ state = "idle" /\ current = 0 /\ toGo = 0 /\ disturbers = {}
      /\ stored = [r \in Requests |-> <<>>] /\ condition = [r \in Requests |-> <<>>]
  BY DEF Init
<1>2. Len(sent) = 0 /\ Len(commands) = 0 /\ Len(results) = 0 /\ Len(valueFifo) = 0
  BY <1>1
<1>3. TypeOK
  BY <1>1, <1>2, SizeAssumption DEF TypeOK
<1>4. FifoInv
  BY <1>1, <1>2 DEF FifoInv
<1>5. OrderInv
  BY <1>1, <1>2 DEF OrderInv, Handled
<1>6. SetterInv
  BY <1>1 DEF SetterInv
<1>7. Paired(Taken)
  <2>1. Taken = 0
    BY <1>1 DEF Taken
  <2>2. Paired(0)
    BY <1>1, <1>2 DEF Paired, CameIn
  <2> QED
    BY <2>1, <2>2
<1>8. OwnValueUntilDisturbed
  BY <1>2 DEF OwnValueUntilDisturbed
<1> QED
  BY <1>3, <1>4, <1>5, <1>6, <1>7, <1>8 DEF PathInv

-----------------------------------------------------------------------------
(* The splitter and the control unit.                                       *)

\* A request begins when all lines of the one before have come in.
LEMMA ArriveStep ==
  ASSUME PathInv, Arrive
  PROVE  PathInv'
<1>1. TypeOK /\ FifoInv /\ OrderInv /\ SetterInv
  BY DEF PathInv
<1>2. /\ Len(sent) < MaxRequests /\ (sent # <<>> => arrived = sent[Len(sent)].lines)
      /\ arrived' = 0 /\ commands' = Append(commands, Len(sent) + 1)
      /\ UNCHANGED <<results, valueFifo, disturbers>>
      /\ UNCHANGED <<state, current, toGo, stored, condition>>
  BY DEF Arrive, setter
<1>3. PICK k \in Kinds : sent' = Append(sent, k)
  BY DEF Arrive
<1> DEFINE s == Len(sent)
<1>4. /\ sent' \in Seq(Kinds) /\ s \in Nat /\ Len(sent') = s + 1
      /\ \A r \in 1..s : sent'[r] = sent[r]
      /\ sent'[s + 1] = k
  <2>1. sent \in Seq(Kinds)
    BY <1>1 DEF TypeOK
  <2> QED
    BY <1>3, <2>1, OneMore
<1>5. s + 1 \in Requests /\ MaxRequests \in Nat
  BY <1>2, <1>4, SizeAssumption DEF Requests
<1>6. /\ commands' \in Seq(Requests) /\ Len(commands) \in Nat /\ Len(commands') = Len(commands) + 1
      /\ \A i \in 1..Len(commands) : commands'[i] = commands[i]
      /\ commands'[Len(commands) + 1] = s + 1
  <2>1. commands \in Seq(Requests)
    BY <1>1 DEF TypeOK
  <2> QED
    BY <1>2, <1>5, <2>1, OneMore
<1> HIDE DEF s
<1>7. TypeOK'
  BY <1>1, <1>2, <1>4, <1>5, <1>6 DEF TypeOK, s
<1>8. \A r \in 1..s : sent[r].lines \in Nat
  BY <1>1, SentKinds DEF s
<1>9. ASSUME NEW r \in Nat, NEW n \in Nat PROVE CameIn(r, n)' <=> CameIn(r, n)
  <2>1. CASE r \in 1..s
    <3>1. sent # <<>> /\ (r = s => arrived = sent[r].lines)
      BY <1>2, <1>4, <2>1 DEF s
    <3> QED
      BY <1>2, <1>4, <1>8, <2>1, <3>1 DEF CameIn, s
  <2>2. CASE r \notin 1..s
    <3>1. ~CameIn(r, n)
      BY <2>2 DEF CameIn, s
    <3>2. ~CameIn(r, n)'
      BY <1>2, <1>4, <2>2 DEF CameIn
    <3> QED
      BY <3>1, <3>2
  <2> QED
    BY <2>1, <2>2
<1>10. FifoInv'
  <2>1. sent' # <<>> /\ sent'[Len(sent')].lines \in Nat
    <3>1. k.lines \in Nat
      BY KindAssumption
    <3> QED
      BY <1>4, <3>1
  <2>2. arrived' <= sent'[Len(sent')].lines
    BY <1>2, <2>1
  <2> QED
    BY <1>1, <1>2, <1>9, <2>1, <2>2 DEF FifoInv, Before
<1>11. Handled' = Handled /\ Handled \in Nat /\ Handled <= s
  BY <1>1, <1>4, <1>6 DEF Handled, s, OrderInv
<1>12. OrderInv'
  <2>1. ASSUME NEW i \in 1..Len(commands') PROVE commands'[i] = Handled + i
    <3>1. CASE i \in 1..Len(commands)
      BY <1>1, <1>6, <3>1 DEF OrderInv
    <3>2. CASE i = Len(commands) + 1
      BY <1>6, <1>11, <3>2 DEF Handled, s
    <3> QED
      BY <1>6, <3>1, <3>2
  <2> QED
    BY <1>1, <1>2, <1>11, <2>1 DEF OrderInv
<1>13. current \in Nat /\ current <= s /\ (current # 0 => sent'[current] = sent[current])
  BY <1>1, <1>4, <1>11 DEF OrderInv
<1>14. SetterInv'
  <2>1. state # "idle" => sent'[current] = sent[current]
    BY <1>1, <1>13 DEF SetterInv
  <2> QED
    BY <1>1, <1>2, <1>11, <2>1 DEF SetterInv
<1>15. Clean' => Paired(Taken)'
  <2> SUFFICES ASSUME Clean' PROVE Paired(Taken)'
    OBVIOUS
  <2>1. Clean
    BY <1>2 DEF Clean
  <2>2. PICK t : t = Taken
    OBVIOUS
  <2>3. Paired(t)
    BY <2>1, <2>2 DEF PathInv
  <2>4. state # "idle" => current # 0
    BY <1>1, <1>11 DEF SetterInv
  <2>5. Taken' = t
    BY <1>2, <1>13, <2>2, <2>4 DEF Taken
  <2>6. t \in Int
    <3>1. current # 0 => sent[current].lines \in Nat
      BY <1>8, <1>13
    <3>2. toGo \in Nat
      BY <1>1 DEF TypeOK
    <3> QED
      BY <2>2, <2>4, <3>1, <3>2 DEF Taken
  <2>7. ASSUME NEW n \in 1..t PROVE CameIn(current, n)'
    <3>1. n \in Nat
      BY <2>6
    <3>2. PICK c \in Nat : c = current
      BY <1>13
    <3>3. CameIn(c, n)
      BY <2>3, <3>2 DEF Paired
    <3>4. CameIn(c, n)'
      BY <1>9, <3>1, <3>3
    <3> QED
      BY <1>2, <3>2, <3>4 DEF CameIn
  <2>8. ASSUME NEW r \in Nat, NEW n \in Nat
        PROVE  (CameIn(r, n)' /\ (current < r \/ (current = r /\ t < n)))
                 <=> \E i \in 1..Len(valueFifo) : valueFifo[i] = <<r, n>>
    BY <1>9, <2>3 DEF Paired
  <2> QED
    BY <1>2, <2>5, <2>7, <2>8 DEF Paired
<1>16. OwnValueUntilDisturbed'
  <2> SUFFICES ASSUME NEW r \in 1..(s + 1), Undisturbed(r)'
               PROVE  Owned(r)'
    BY <1>4 DEF OwnValueUntilDisturbed
  <2>1. Undisturbed(r)
    BY <1>2 DEF Undisturbed
  <2>2. CASE r \in 1..s
    <3>1. Owned(r)
      BY <2>1, <2>2 DEF PathInv, OwnValueUntilDisturbed, s
    <3> QED
      BY <1>2, <1>4, <2>2, <3>1, OwnedKept
  <2>3. CASE r = s + 1
    <3>1. stored[r] = <<>> /\ condition[r] = <<>>
      <4>1. r \in Requests /\ r > current
        BY <1>4, <1>5, <1>13, <2>3
      <4> QED
        BY <1>1, <4>1 DEF SetterInv
    <3>2. sent'[r].lines \in Nat
      BY <1>4, <2>3, KindAssumption
    <3> QED
      BY <1>2, <3>1, <3>2 DEF Owned
  <2> QED
    BY <1>4, <2>2, <2>3
<1> QED
  BY <1>7, <1>10, <1>12, <1>14, <1>15, <1>16 DEF PathInv

\* A line comes in at the end of the FIFO, after all lines of its command before it.
LEMMA LineStep ==
  ASSUME PathInv, Line
  PROVE  PathInv'
<1> DEFINE s == Len(sent)  v == valueFifo  w == valueFifo'
<1>1. TypeOK /\ FifoInv /\ OrderInv /\ SetterInv
  BY DEF PathInv
<1>2. /\ sent # <<>> /\ arrived < sent[s].lines /\ arrived' = arrived + 1
      /\ w = Append(v, <<s, arrived + 1>>)
      /\ UNCHANGED <<sent, commands, results, disturbers>>
      /\ UNCHANGED <<state, current, toGo, stored, condition>>
  BY DEF Line, setter
<1>3. s \in Nat /\ s \in 1..s /\ s \in Requests /\ arrived \in Nat /\ sent[s].lines \in Nat
  <2>1. s \in Nat /\ s # 0 /\ arrived \in Nat
    BY <1>1, <1>2 DEF TypeOK
  <2>2. s \in 1..s
    BY <2>1
  <2> QED
    BY <1>1, <2>1, <2>2, SentKinds
<1>4. /\ w \in Seq(LineType) /\ Len(v) \in Nat /\ Len(w) = Len(v) + 1
      /\ \A i \in 1..Len(v) : w[i] = v[i]
      /\ w[Len(v) + 1] = <<s, arrived + 1>>
  <2>1. v \in Seq(LineType) /\ <<s, arrived + 1>> \in LineType
    BY <1>1, <1>3 DEF TypeOK, LineType
  <2> QED
    BY <1>2, <2>1, OneMore
<1>5. \A i \in 1..Len(v) : \E r, n \in Nat : v[i] = <<r, n>>
  <2>1. v \in Seq(Requests \X Nat) /\ Requests \subseteq Nat
    BY <1>1, SizeAssumption DEF TypeOK, LineType, Requests
  <2> QED
    BY <2>1
<1>6. /\ \A i \in 1..Len(v), r, n \in Nat : v[i] = <<r, n>> => CameIn(r, n)
      /\ \A i, j \in 1..Len(v) : i < j => Before(v[i], v[j])
  BY <1>1 DEF FifoInv
<1> HIDE DEF s, v, w
<1>7. TypeOK'
  BY <1>1, <1>2, <1>3, <1>4 DEF TypeOK, w
<1>8. ASSUME NEW r \in Nat, NEW n \in Nat
      PROVE  /\ CameIn(r, n)' <=> CameIn(r, n) \/ (r = s /\ n = arrived + 1)
             /\ CameIn(r, n) => r \in 1..s /\ (r = s => n <= arrived)
  <2>1. CameIn(r, n)' <=> r \in 1..s /\ n \in 1..sent[r].lines /\ (r = s => n <= arrived + 1)
    BY <1>2 DEF CameIn, s
  <2>2. CameIn(r, n) <=> r \in 1..s /\ n \in 1..sent[r].lines /\ (r = s => n <= arrived)
    BY DEF CameIn, s
  <2>3. CASE r = s
    BY <1>2, <1>3, <2>1, <2>2, <2>3
  <2>4. CASE r # s
    BY <2>1, <2>2, <2>4
  <2> QED
    BY <2>3, <2>4
<1>9. FifoInv'
  <2>1. ASSUME NEW i \in 1..Len(w), NEW r \in Nat, NEW n \in Nat, w[i] = <<r, n>>
        PROVE  CameIn(r, n)'
    <3>1. CASE i \in 1..Len(v)
      BY <1>4, <1>6, <1>8, <2>1, <3>1
    <3>2. CASE i = Len(v) + 1
      BY <1>4, <1>8, <2>1, <3>2
    <3> QED
      BY <1>4, <3>1, <3>2
  <2>2. ASSUME NEW i \in 1..Len(w), NEW j \in 1..Len(w), i < j
        PROVE  Before(w[i], w[j])
    <3>1. i \in 1..Len(v) /\ w[i] = v[i]
      BY <1>4, <2>2
    <3>2. CASE j \in 1..Len(v)
      BY <1>4, <1>6, <2>2, <3>1, <3>2
    <3>3. CASE j = Len(v) + 1
      <4>1. PICK r, n \in Nat : v[i] = <<r, n>>
        BY <1>5, <3>1
      <4>2. r \in 1..s /\ (r = s => n <= arrived)
        BY <1>6, <1>8, <3>1, <4>1
      <4>3. w[i] = <<r, n>> /\ w[j] = <<s, arrived + 1>>
        BY <1>4, <3>1, <3>3, <4>1
      <4> QED
        BY <1>3, <4>2, <4>3 DEF Before
    <3> QED
      BY <1>4, <3>2, <3>3
  <2>3. sent' # <<>> /\ arrived' <= sent'[Len(sent')].lines
    BY <1>2, <1>3 DEF s
  <2> QED
    BY <2>1, <2>2, <2>3 DEF FifoInv, Before, w
<1>10. OrderInv'
  BY <1>1, <1>2, OrderKept
<1>11. SetterInv'
  BY <1>1, <1>2 DEF SetterInv, OrderInv, Handled
<1>12. Clean' => Paired(Taken)'
  <2> SUFFICES ASSUME Clean' PROVE Paired(Taken)'
    OBVIOUS
  <2>1. Clean
    BY <1>2 DEF Clean
  <2>2. PICK t : t = Taken
    OBVIOUS
  <2>3. Paired(t)
    BY <2>1, <2>2 DEF PathInv
  <2>4. Taken' = t
    BY <1>2, <2>2 DEF Taken
  <2>5. current \in Nat /\ current <= s /\ (state # "idle" => current # 0)
    <3>1. Handled \in Nat /\ Handled <= s
      <4>1. Len(commands) \in Nat
        BY <1>1 DEF TypeOK
      <4> QED
        BY <1>1, <1>3, <4>1 DEF Handled, s, OrderInv
    <3> QED
      BY <1>1, <1>3, <3>1 DEF OrderInv, SetterInv
  <2>6. t \in Int
    <3>1. current # 0 => sent[current].lines \in Nat
      <4>1. current # 0 => current \in 1..Len(sent)
        BY <1>3, <2>5 DEF s
      <4> QED
        BY <1>1, <4>1, SentKinds
    <3>2. toGo \in Nat
      BY <1>1 DEF TypeOK
    <3> QED
      BY <2>2, <2>5, <3>1, <3>2 DEF Taken
  <2>7. ASSUME NEW n \in 1..t PROVE CameIn(current, n)'
    <3>1. n \in Nat
      BY <2>6
    <3>2. PICK c \in Nat : c = current
      BY <2>5
    <3>3. CameIn(c, n)
      BY <2>3, <3>2 DEF Paired
    <3>4. CameIn(c, n)'
      BY <1>8, <3>1, <3>3
    <3> QED
      BY <1>2, <3>2, <3>4 DEF CameIn
  <2>8. current < s \/ (current = s /\ t < arrived + 1)
    <3>1. CASE current = s
      <4>1. \A n \in 1..t : CameIn(s, n)
        BY <2>3, <3>1 DEF Paired
      <4>2. t <= arrived
        <5> SUFFICES ASSUME t > arrived PROVE FALSE
          BY <1>3, <2>6
        <5>1. t \in 1..t /\ t \in Nat
          BY <1>3, <2>6
        <5> QED
          BY <1>3, <1>8, <4>1, <5>1
      <4> QED
        BY <1>3, <2>6, <3>1, <4>2
    <3> QED
      BY <1>3, <2>5, <3>1
  <2>9. ASSUME NEW r \in Nat, NEW n \in Nat
        PROVE  (CameIn(r, n)' /\ (current < r \/ (current = r /\ t < n)))
                 <=> \E i \in 1..Len(w) : w[i] = <<r, n>>
    <3>1. (\E i \in 1..Len(w) : w[i] = <<r, n>>)
            <=> (\E i \in 1..Len(v) : v[i] = <<r, n>>) \/ (r = s /\ n = arrived + 1)
      <4>1. ASSUME NEW i \in 1..Len(w), w[i] = <<r, n>>
            PROVE  (\E j \in 1..Len(v) : v[j] = <<r, n>>) \/ (r = s /\ n = arrived + 1)
        BY <1>4, <4>1
      <4>2. ASSUME NEW i \in 1..Len(v), v[i] = <<r, n>>
            PROVE  \E j \in 1..Len(w) : w[j] = <<r, n>>
        <5>1. i \in 1..Len(w) /\ w[i] = <<r, n>>
          BY <1>4, <4>2
        <5> QED
          BY <5>1
      <4>3. ASSUME r = s, n = arrived + 1
            PROVE  \E j \in 1..Len(w) : w[j] = <<r, n>>
        <5>1. Len(v) + 1 \in 1..Len(w) /\ w[Len(v) + 1] = <<r, n>>
          BY <1>4, <4>3
        <5> QED
          BY <5>1
      <4> QED
        BY <4>1, <4>2, <4>3
    <3>2. (CameIn(r, n) /\ (current < r \/ (current = r /\ t < n)))
            <=> \E i \in 1..Len(v) : v[i] = <<r, n>>
      BY <2>3 DEF Paired, v
    <3> QED
      BY <1>8, <2>8, <3>1, <3>2
  <2> QED
    BY <1>2, <2>4, <2>7, <2>9 DEF Paired, w
<1>13. OwnValueUntilDisturbed'
  <2> SUFFICES ASSUME NEW r \in 1..Len(sent), Undisturbed(r)'
               PROVE  Owned(r)'
    BY <1>2 DEF OwnValueUntilDisturbed
  <2>1. Owned(r)
    BY <1>2 DEF PathInv, OwnValueUntilDisturbed, Undisturbed
  <2> QED
    BY <1>2, <2>1, OwnedKept
<1> QED
  BY <1>7, <1>9, <1>10, <1>11, <1>12, <1>13 DEF PathInv

\* The control unit refuses a command, or hands it on to the hash table.
LEMMA ControlStep ==
  ASSUME PathInv, Control
  PROVE  PathInv'
<1> DEFINE r == Head(commands)  h == Handled
<1>1. TypeOK /\ FifoInv /\ OrderInv /\ SetterInv
  BY DEF PathInv
<1>2. /\ commands # <<>> /\ commands' = Tail(commands)
      /\ UNCHANGED <<sent, arrived, valueFifo, state, current, toGo, stored, condition>>
  BY DEF Control, setter, splitter
<1>3. \/ disturbers' = disturbers \cup {r} /\ results' = results
      \/ /\ disturbers' = disturbers
         /\ \E found \in BOOLEAN : results' = Append(results, [req |-> r, found |-> found])
  <2>1. \A S \in {Found, {TRUE}} : S \subseteq BOOLEAN
    BY KindAssumption
  <2> QED
    BY <2>1 DEF Control
<1>4. /\ Len(commands) \in Nat /\ Len(commands) > 0 /\ r = commands[1] /\ r \in Requests
      /\ commands' \in Seq(Requests) /\ Len(commands') = Len(commands) - 1
      /\ \A i \in 1..Len(commands') : commands'[i] = commands[i + 1]
  <2>1. commands \in Seq(Requests)
    BY <1>1 DEF TypeOK
  <2> QED
    BY <1>2, <2>1, OneLess
<1>5. /\ h \in Nat /\ current \in 0..h /\ disturbers \subseteq 1..h
      /\ \A i \in 1..Len(commands) : commands[i] = h + i
      /\ \A i \in 1..Len(results) : results[i].req \in (current + 1)..h
                                   /\ results[i].req \notin disturbers
      /\ \A i, j \in 1..Len(results) : i < j => results[i].req < results[j].req
      /\ \A q \in (current + 1)..h :
           q \in disturbers \/ \E i \in 1..Len(results) : results[i].req = q
  BY <1>1 DEF OrderInv
<1>6. r = h + 1 /\ Handled' = h + 1 /\ h + 1 <= Len(sent) /\ Len(sent) \in Nat
  <2>1. r = h + 1
    BY <1>4, <1>5
  <2>2. Len(sent) \in Nat
    BY <1>1 DEF TypeOK
  <2> QED
    BY <1>2, <1>4, <2>1, <2>2 DEF Handled
<1> HIDE DEF r, h
<1>7. /\ results' \in Seq([req : Requests, found : BOOLEAN])
      /\ \/ disturbers' = disturbers \cup {r} /\ results' = results
         \/ /\ disturbers' = disturbers /\ Len(results') = Len(results) + 1
            /\ \A i \in 1..Len(results) : results'[i] = results[i]
            /\ results'[Len(results) + 1].req = r
  <2>1. results \in Seq([req : Requests, found : BOOLEAN])
    BY <1>1 DEF TypeOK
  <2>2. CASE disturbers' = disturbers \cup {r} /\ results' = results
    BY <2>1, <2>2
  <2>3. ASSUME NEW found \in BOOLEAN, disturbers' = disturbers,
               results' = Append(results, [req |-> r, found |-> found])
        PROVE  /\ results' \in Seq([req : Requests, found : BOOLEAN])
               /\ Len(results') = Len(results) + 1
               /\ \A i \in 1..Len(results) : results'[i] = results[i]
               /\ results'[Len(results) + 1].req = r
    <3> DEFINE x == [req |-> r, found |-> found]
    <3>1. x \in [req : Requests, found : BOOLEAN] /\ x.req = r
      BY <1>4
    <3> HIDE DEF x
    <3>2. results' = Append(results, x)
      BY <2>3 DEF x
    <3> QED
      BY <2>1, <3>1, <3>2, OneMore
  <2> QED
    BY <1>3, <2>2, <2>3
<1>8. disturbers \subseteq disturbers' /\ disturbers' \subseteq disturbers \cup {h + 1}
  BY <1>3, <1>6
<1>9. TypeOK'
  <2>1. disturbers' \subseteq Requests
    BY <1>1, <1>4, <1>6, <1>8 DEF TypeOK
  <2> QED
    BY <1>1, <1>2, <1>4, <1>7, <2>1 DEF TypeOK
<1>10. Len(results) \in Nat
  BY <1>1 DEF TypeOK
<1>11. OrderInv'
  <2>1. disturbers' \subseteq 1..(h + 1) /\ current \in 0..(h + 1) /\ h + 1 \in Nat
    BY <1>5, <1>8
  <2>2. ASSUME NEW i \in 1..Len(commands') PROVE commands'[i] = (h + 1) + i
    BY <1>4, <1>5
  <2>3. CASE disturbers' = disturbers \cup {r} /\ results' = results
    <3>1. \A i \in 1..Len(results') : results'[i].req \in (current + 1)..(h + 1)
                                     /\ results'[i].req \notin disturbers'
      BY <1>5, <1>6, <2>3
    <3>2. ASSUME NEW q \in (current + 1)..(h + 1)
          PROVE  q \in disturbers' \/ \E i \in 1..Len(results') : results'[i].req = q
      <4>1. q = h + 1 \/ q \in (current + 1)..h
        BY <1>5
      <4> QED
        BY <1>5, <1>6, <2>3, <4>1
    <3> QED
      BY <1>2, <1>5, <1>6, <2>1, <2>2, <2>3, <3>1, <3>2 DEF OrderInv
  <2>4. CASE /\ disturbers' = disturbers /\ Len(results') = Len(results) + 1
             /\ \A i \in 1..Len(results) : results'[i] = results[i]
             /\ results'[Len(results) + 1].req = r
    <3>1. ASSUME NEW i \in 1..Len(results')
          PROVE  \/ i \in 1..Len(results) /\ results'[i] = results[i]
                 \/ i = Len(results) + 1 /\ results'[i].req = h + 1
      BY <1>6, <1>10, <2>4
    <3>2. \A i \in 1..Len(results') : results'[i].req \in (current + 1)..(h + 1)
                                     /\ results'[i].req \notin disturbers'
      BY <1>5, <2>4, <3>1
    <3>3. ASSUME NEW i \in 1..Len(results'), NEW j \in 1..Len(results'), i < j
          PROVE  results'[i].req < results'[j].req
      <4>1. i \in 1..Len(results) /\ results'[i] = results[i] /\ results[i].req \in (current + 1)..h
        BY <1>5, <1>10, <2>4, <3>1, <3>3
      <4>2. CASE j \in 1..Len(results) /\ results'[j] = results[j]
        BY <1>5, <3>3, <4>1, <4>2
      <4>3. CASE results'[j].req = h + 1
        BY <1>5, <4>1, <4>3
      <4> QED
        BY <3>1, <4>2, <4>3
    <3>4. ASSUME NEW q \in (current + 1)..(h + 1)
          PROVE  q \in disturbers' \/ \E i \in 1..Len(results') : results'[i].req = q
      <4>1. CASE q = h + 1
        <5>1. Len(results) + 1 \in 1..Len(results') /\ results'[Len(results) + 1].req = q
          BY <1>6, <1>10, <2>4, <4>1
        <5> QED
          BY <5>1
      <4>2. CASE q \in (current + 1)..h /\ q \in disturbers
        BY <2>4, <4>2
      <4>3. CASE q \in (current + 1)..h /\ q \notin disturbers
        <5>1. PICK i \in 1..Len(results) : results[i].req = q
          BY <1>5, <4>3
        <5>2. i \in 1..Len(results') /\ results'[i].req = q
          BY <1>10, <2>4, <5>1
        <5> QED
          BY <5>2
      <4> QED
        BY <1>5, <4>1, <4>2, <4>3
    <3> QED
      BY <1>2, <1>6, <2>1, <2>2, <3>2, <3>3, <3>4 DEF OrderInv
  <2> QED
    BY <1>7, <2>3, <2>4
<1>12. SetterInv'
  <2>1. current # h + 1 /\ (current \in 1..h => current \in 1..(h + 1))
    BY <1>5
  <2>2. state # "idle" => current \in 1..(h + 1)
    BY <1>1, <2>1 DEF SetterInv, h
  <2> QED
    BY <1>1, <1>2, <1>6, <1>8, <2>1, <2>2 DEF SetterInv
<1>13. Clean' => Paired(Taken)'
  <2> SUFFICES ASSUME Clean' PROVE Paired(Taken)'
    OBVIOUS
  <2>1. Clean
    BY <1>2, <1>8 DEF Clean
  <2>2. PICK t : t = Taken
    OBVIOUS
  <2>3. Taken' = t
    BY <1>2, <2>2 DEF Taken
  <2>4. Paired(t)'
    BY <1>2, <2>1, <2>2, PairedKept DEF PathInv
  <2> QED
    BY <2>3, <2>4 DEF Paired
<1>14. OwnValueUntilDisturbed'
  <2> SUFFICES ASSUME NEW q \in 1..Len(sent), Undisturbed(q)'
               PROVE  Owned(q)'
    BY <1>2 DEF OwnValueUntilDisturbed
  <2>1. Owned(q)
    BY <1>8, StillUndisturbed DEF PathInv, OwnValueUntilDisturbed
  <2> QED
    BY <1>2, <2>1, OwnedKept
<1> QED
  BY <1>1, <1>2, <1>9, <1>11, <1>12, <1>13, <1>14, FifoKept DEF PathInv

-----------------------------------------------------------------------------
(* muu_value_set.                                                           *)

\* The next command.  It is the one after the current one, unless one in between was
\* refused; and it takes its lines from the beginning, or has none.
LEMMA StartStep ==
  ASSUME PathInv, Start
  PROVE  PathInv'
<1> DEFINE r == Head(results).req  k == sent[r]
           write == k.op \in {"local", "replicated"}
           hit == HasCondition(k) /\ Head(results).found
<1>1. TypeOK /\ FifoInv /\ OrderInv /\ SetterInv
  BY DEF PathInv
<1>2. /\ state = "idle" /\ results # <<>> /\ results' = Tail(results) /\ current' = r
      /\ UNCHANGED <<sent, arrived, commands, valueFifo, stored, condition>>
  BY DEF Start, splitter
<1>3. \/ write /\ k.lines > 0 /\ state' = "write" /\ toGo' = k.lines
      \/ k.op = "replicated" /\ k.lines = 0 /\ state' = "throw" /\ toGo' = 1
      \/ k.op = "local" /\ k.lines = 0 /\ state' = "throwFirst" /\ toGo' = toGo
      \/ hit /\ state' = "condition" /\ toGo' = toGo
      \/ ~write /\ ~hit /\ state' = state /\ toGo' = toGo
  BY DEF Start, LinesToWrite
<1>4. disturbers' = IF (write /\ k.lines = 0) \/ (k.op = "conditional" /\ ~Head(results).found)
                    THEN disturbers \cup {r} ELSE disturbers
  BY DEF Start
<1>5. /\ Len(results) \in Nat /\ Len(results) > 0 /\ r = results[1].req
      /\ results' \in Seq([req : Requests, found : BOOLEAN])
      /\ Len(results') = Len(results) - 1
      /\ \A i \in 1..Len(results') : results'[i] = results[i + 1]
  <2>1. results \in Seq([req : Requests, found : BOOLEAN])
    BY <1>1 DEF TypeOK
  <2> QED
    BY <1>2, <2>1, OneLess
<1>6. /\ Handled \in Nat /\ current \in 0..Handled /\ disturbers \subseteq 1..Handled
      /\ \A i \in 1..Len(commands) : commands[i] = Handled + i
      /\ \A i \in 1..Len(results) : results[i].req \in (current + 1)..Handled
                                   /\ results[i].req \notin disturbers
      /\ \A i, j \in 1..Len(results) : i < j => results[i].req < results[j].req
      /\ \A q \in (current + 1)..Handled :
           q \in disturbers \/ \E i \in 1..Len(results) : results[i].req = q
  BY <1>1 DEF OrderInv
<1>7. Handled <= Len(sent) /\ Len(sent) \in Nat
  <2>1. Len(commands) \in Nat /\ Len(sent) \in Nat
    BY <1>1 DEF TypeOK
  <2> QED
    BY <2>1 DEF Handled
<1>8. r \in (current + 1)..Handled /\ r \notin disturbers /\ r \in 1..Len(sent)
  <2>1. 1 \in 1..Len(results)
    BY <1>5
  <2> QED
    BY <1>5, <1>6, <1>7, <2>1
<1>9. /\ k.lines \in Nat /\ r \in Requests /\ k.op \in Ops
      /\ k.op \in {"read", "delete"} => k.lines = 0
      /\ k.op = "conditional" => k.lines = 1
  BY <1>1, <1>8, SentKinds
<1> HIDE DEF r, k
<1>10. Handled' = Handled
  BY <1>2 DEF Handled
<1>11. disturbers' = disturbers \/ disturbers' = disturbers \cup {r}
  BY <1>4
<1>12. /\ state' = "write" => k.lines > 0 /\ toGo' = k.lines
       /\ state' = "throw" => toGo' = 1
       /\ state' = "condition" => k.op = "conditional"
       /\ state' \in {"idle", "write", "throwFirst", "throw", "condition"}
       /\ toGo' \in Nat
  <2>1. toGo \in Nat
    BY <1>1 DEF TypeOK
  <2> QED
    BY <1>2, <1>3, <1>9, <2>1 DEF HasCondition
<1>13. /\ state' \in {"write", "condition"} => r \notin disturbers'
       /\ state' \in {"throwFirst", "throw"} => r \in disturbers'
       /\ state' = "idle" /\ r \notin disturbers' => k.lines = 0
  <2>1. CASE write /\ k.lines > 0 /\ state' = "write"
    BY <1>4, <1>8, <2>1
  <2>2. CASE k.op \in {"replicated", "local"} /\ k.lines = 0 /\ state' \in {"throw", "throwFirst"}
    BY <1>4, <2>2
  <2>3. CASE hit /\ state' = "condition"
    BY <1>4, <1>8, <2>3 DEF HasCondition
  <2>4. CASE ~write /\ ~hit /\ state' = state
    <3>1. CASE k.op = "conditional"
      <4>1. r \in disturbers'
        BY <1>4, <2>4, <3>1 DEF HasCondition
      <4> QED
        BY <1>2, <2>4, <4>1
    <3>2. CASE k.op \in {"read", "delete"}
      BY <1>2, <1>9, <2>4, <3>2
    <3> QED
      BY <1>9, <2>4, <3>1, <3>2 DEF Ops
  <2> QED
    BY <1>3, <2>1, <2>2, <2>3, <2>4
<1>14. TypeOK'
  <2>1. disturbers' \subseteq Requests /\ r \in 0..MaxRequests
    <3>1. disturbers' \subseteq Requests
      BY <1>1, <1>9, <1>11, Zenon DEF TypeOK
    <3>2. r \in 0..MaxRequests
      BY <1>9, SizeAssumption DEF Requests
    <3> QED
      BY <3>1, <3>2
  <2> QED
    BY <1>1, <1>2, <1>5, <1>12, <2>1 DEF TypeOK
<1>15. FifoInv'
  BY <1>1, <1>2, FifoKept
<1>16. OrderInv'
  <2>1. r \in 0..Handled /\ disturbers' \subseteq 1..Handled
    <3>1. r \in 0..Handled /\ r \in 1..Handled
      BY <1>6, <1>8
    <3>2. disturbers' \subseteq 1..Handled
      BY <1>6, <1>11, <3>1, Zenon
    <3> QED
      BY <3>1, <3>2
  <2>2. ASSUME NEW i \in 1..Len(results')
        PROVE  i + 1 \in 1..Len(results) /\ results'[i] = results[i + 1]
    BY <1>5
  <2>3. ASSUME NEW i \in 1..Len(results')
        PROVE  results'[i].req \in (r + 1)..Handled /\ results'[i].req \notin disturbers'
    <3>1. 1 \in 1..Len(results) /\ 1 < i + 1
      BY <1>5
    <3>2. r < results[i + 1].req
      BY <1>5, <1>6, <2>2, <3>1
    <3>3. results[i + 1].req \in (current + 1)..Handled /\ results[i + 1].req \notin disturbers
      BY <1>6, <2>2
    <3> QED
      BY <1>6, <1>8, <1>11, <2>2, <3>2, <3>3
  <2>4. ASSUME NEW i \in 1..Len(results'), NEW j \in 1..Len(results'), i < j
        PROVE  results'[i].req < results'[j].req
    <3>1. i + 1 < j + 1
      BY <2>4
    <3> QED
      BY <1>6, <2>2, <3>1
  <2>5. ASSUME NEW q \in (r + 1)..Handled
        PROVE  q \in disturbers' \/ \E i \in 1..Len(results') : results'[i].req = q
    <3>1. q \in (current + 1)..Handled /\ q # r
      BY <1>6, <1>8
    <3>2. CASE q \in disturbers
      BY <1>11, <3>2
    <3>3. CASE \E i \in 1..Len(results) : results[i].req = q
      <4>1. PICK i \in 1..Len(results) : results[i].req = q
        BY <3>3
      <4>2. i # 1
        BY <1>5, <3>1, <4>1
      <4>3. i - 1 \in 1..Len(results') /\ (i - 1) + 1 = i
        BY <1>5, <4>2
      <4>4. results'[i - 1].req = q
        BY <1>5, <4>1, <4>3
      <4> QED
        BY <4>3, <4>4
    <3> QED
      BY <1>6, <3>1, <3>2, <3>3
  <2> QED
    BY <1>2, <1>6, <1>10, <2>1, <2>3, <2>4, <2>5 DEF OrderInv
<1>17. \A q \in Requests : q > r => stored[q] = <<>> /\ condition[q] = <<>>
  <2>1. \A q \in Requests : q \in Nat
    BY SizeAssumption DEF Requests
  <2> QED
    BY <1>1, <1>6, <1>8, <2>1 DEF SetterInv
<1>18. stored[r] = <<>> /\ condition[r] = <<>>
  BY <1>1, <1>6, <1>8, <1>9 DEF SetterInv
<1>19. SetterInv'
  <2>1. sent'[r] = k
    BY <1>2 DEF k
  <2>2. state' = "write" => toGo' \in 1..k.lines /\ Len(stored[r]) = k.lines - toGo'
    BY <1>9, <1>12, <1>18
  <2>3. r \in 1..Handled
    BY <1>6, <1>8
  <2> QED
    BY <1>2, <1>10, <1>12, <1>13, <1>17, <1>18, <2>1, <2>2, <2>3 DEF SetterInv
<1>20. Clean' => Paired(Taken)'
  <2> SUFFICES ASSUME Clean' PROVE Paired(Taken)'
    OBVIOUS
  <2>1. /\ \A d \in disturbers' : r < d
        /\ Clean /\ r \notin disturbers'
    <3>1. \A d \in disturbers' : r < d
      BY <1>2 DEF Clean
    <3>2. \A d \in disturbers : current < d
      BY <1>6, <1>8, <1>11, <3>1
    <3> QED
      BY <1>6, <1>8, <3>1, <3>2 DEF Clean
  <2>2. r = current + 1
    <3> SUFFICES ASSUME r # current + 1 PROVE FALSE
      OBVIOUS
    <3>1. current + 1 \in (current + 1)..Handled /\ current + 1 < r
      BY <1>6, <1>8
    <3>2. current + 1 \notin disturbers
      BY <1>6, <1>8, <1>11, <2>1, <3>1
    <3>3. PICK i \in 1..Len(results) : results[i].req = current + 1
      BY <1>6, <3>1, <3>2
    <3>4. i = 1 \/ (1 \in 1..Len(results) /\ 1 < i)
      BY <1>5
    <3> QED
      BY <1>5, <1>6, <1>8, <3>1, <3>3, <3>4
  <2>3. Taken' = 0
    <3>1. r # 0 /\ sent'[r] = k
      BY <1>2, <1>6, <1>8 DEF k
    <3>2. state' = "idle" => k.lines = 0
      BY <1>13, <2>1
    <3>3. state' = "write" => k.lines - toGo' = 0
      BY <1>9, <1>12
    <3> QED
      BY <1>2, <3>1, <3>2, <3>3 DEF Taken
  <2>4. Paired(Taken)
    BY <2>1 DEF PathInv
  <2>5. ASSUME NEW q \in Nat, NEW n \in Nat
        PROVE  (CameIn(q, n) /\ (r < q \/ (r = q /\ 0 < n)))
                 <=> \E i \in 1..Len(valueFifo) : valueFifo[i] = <<q, n>>
    <3>1. (CameIn(q, n) /\ (current < q \/ (current = q /\ Taken < n)))
            <=> \E i \in 1..Len(valueFifo) : valueFifo[i] = <<q, n>>
      BY <2>4 DEF Paired
    <3>2. CameIn(q, n) => q \in 1..Len(sent) /\ n \in 1..sent[q].lines
      BY DEF CameIn
    <3>3. ASSUME CameIn(q, n)
          PROVE  (r < q \/ (r = q /\ 0 < n)) <=> (current < q \/ (current = q /\ Taken < n))
      <4>1. sent[q].lines \in Nat
        BY <1>1, <3>2, <3>3, SentKinds
      <4>2. current = q => Taken = sent[q].lines
        BY <1>2, <3>2, <3>3 DEF Taken
      <4>3. 0 < n /\ (current = q => ~(Taken < n))
        BY <3>2, <3>3, <4>1, <4>2
      <4> QED
        BY <1>6, <2>2, <4>3
    <3> QED
      BY <3>1, <3>3
  <2>6. \A q, n : CameIn(q, n)' <=> CameIn(q, n)
    BY <1>2 DEF CameIn
  <2>7. Paired(0)'
    <3>1. ASSUME NEW q \in Nat, NEW n \in Nat
          PROVE  (CameIn(q, n)' /\ (r < q \/ (r = q /\ 0 < n)))
                   <=> \E i \in 1..Len(valueFifo) : valueFifo[i] = <<q, n>>
      BY <2>5, <2>6
    <3>2. \A n \in 1..0 : FALSE
      OBVIOUS
    <3> QED
      BY <1>2, <3>1, <3>2 DEF Paired
  <2> QED
    BY <2>3, <2>7 DEF Paired
<1>21. OwnValueUntilDisturbed'
  <2> SUFFICES ASSUME NEW q \in 1..Len(sent), Undisturbed(q)'
               PROVE  Owned(q)'
    BY <1>2 DEF OwnValueUntilDisturbed
  <2>1. Owned(q)
    BY <1>11, StillUndisturbed DEF PathInv, OwnValueUntilDisturbed
  <2> QED
    BY <1>2, <2>1, OwnedKept
<1> QED
  BY <1>14, <1>15, <1>16, <1>19, <1>20, <1>21 DEF PathInv

\* What a step of muu_value_set that takes a line leaves alone.
LEMMA TakeKeeps ==
  ASSUME PathInv, TakeLine
  PROVE  /\ TypeOK /\ FifoInv /\ OrderInv /\ SetterInv
         /\ FifoInv' /\ OrderInv' /\ valueFifo' \in Seq(LineType) /\ Head(valueFifo) \in LineType
         /\ UNCHANGED <<sent, arrived, commands, results, current, disturbers>>
         /\ Handled' = Handled /\ Handled <= Len(sent) /\ Handled \in Nat /\ Len(sent) \in Nat
         /\ Clean' <=> Clean
<1>1. TypeOK /\ FifoInv /\ OrderInv /\ SetterInv
  BY DEF PathInv
<1>2. UNCHANGED <<sent, arrived, commands, results, current, disturbers>>
  BY DEF TakeLine, splitter
<1>3. FifoInv' /\ valueFifo' \in Seq(LineType) /\ Head(valueFifo) \in LineType
  BY <1>1, TakeFifo
<1>4. OrderInv' /\ Handled' = Handled /\ Handled \in Nat
  BY <1>1, <1>2, OrderKept DEF OrderInv, Handled
<1>5. Handled <= Len(sent) /\ Len(sent) \in Nat
  <2>1. Len(commands) \in Nat /\ Len(sent) \in Nat
    BY <1>1 DEF TypeOK
  <2> QED
    BY <2>1 DEF Handled
<1>6. Clean' <=> Clean
  BY <1>2 DEF Clean
<1> QED
  BY <1>1, <1>2, <1>3, <1>4, <1>5, <1>6

\* A line is written for the current command: its own next one, if nothing has gone wrong.
LEMMA WriteStep ==
  ASSUME PathInv, Write
  PROVE  PathInv'
<1> DEFINE c == current  n == sent[current].lines  x == Head(valueFifo)
<1>0. PICK t : t = n - toGo
  OBVIOUS
<1>1. /\ state = "write" /\ TakeLine
      /\ stored' = [stored EXCEPT ![c] = Append(@, x)]
      /\ toGo' = toGo - 1 /\ state' = (IF toGo <= 1 THEN "idle" ELSE "write")
      /\ condition' = condition
  BY DEF Write
<1>2. /\ TypeOK /\ FifoInv /\ OrderInv /\ SetterInv
      /\ FifoInv' /\ OrderInv' /\ valueFifo' \in Seq(LineType) /\ x \in LineType
      /\ UNCHANGED <<sent, arrived, commands, results, current, disturbers>>
      /\ Handled' = Handled /\ Handled <= Len(sent) /\ Handled \in Nat /\ Len(sent) \in Nat
      /\ Clean' <=> Clean
  BY <1>1, TakeKeeps
<1>3. /\ c \in 1..Handled /\ c \in 1..Len(sent) /\ c \in Requests /\ c \notin disturbers
      /\ n \in Nat /\ toGo \in 1..n /\ t \in Nat /\ t < n /\ Len(stored[c]) = t
  <2>1. /\ c \in 1..Handled /\ c \notin disturbers /\ toGo \in 1..n
        /\ Len(stored[c]) = n - toGo
    BY <1>1, <1>2 DEF SetterInv
  <2>2. c \in 1..Len(sent)
    BY <1>2, <2>1
  <2>3. n \in Nat /\ c \in Requests
    BY <1>2, <2>2, SentKinds
  <2> QED
    BY <1>0, <2>1, <2>2, <2>3
<1>4. stored \in [Requests -> Seq(LineType)] /\ condition \in [Requests -> LineType \cup {<<>>}]
  BY <1>2 DEF TypeOK
<1>5. /\ stored'[c] \in Seq(LineType) /\ Len(stored'[c]) = t + 1
      /\ \A i \in 1..t : stored'[c][i] = stored[c][i]
      /\ stored'[c][t + 1] = x
      /\ \A r \in Requests : r # c => stored'[r] = stored[r]
  <2>1. stored[c] \in Seq(LineType)
    BY <1>3, <1>4
  <2>2. stored'[c] = Append(stored[c], x)
    BY <1>1, <1>3, <1>4
  <2>3. \A r \in Requests : r # c => stored'[r] = stored[r]
    BY <1>1, <1>3, <1>4
  <2> DEFINE a == stored[c]  b == stored'[c]
  <2>4. a \in Seq(LineType) /\ Len(a) = t /\ x \in LineType /\ b = Append(a, x)
    BY <1>2, <1>3, <2>1, <2>2
  <2> HIDE DEF a, b, x
  <2>5. /\ b \in Seq(LineType) /\ Len(b) = t + 1 /\ b[t + 1] = x
        /\ \A i \in 1..t : b[i] = a[i]
    BY <2>4, OneMore
  <2> QED
    BY <2>3, <2>5 DEF a, b
<1>6. stored' \in [Requests -> Seq(LineType)]
  <2>1. stored' = [stored EXCEPT ![c] = stored'[c]]
    BY <1>1, <1>3, <1>4
  <2> QED
    BY <1>3, <1>4, <1>5, <2>1
<1>7. toGo' \in Nat /\ state' \in {"idle", "write"}
      /\ (state' = "write" => toGo' \in 1..n /\ t + 1 = n - toGo')
      /\ (state' = "idle" => t + 1 = n)
  BY <1>0, <1>1, <1>3
<1> HIDE DEF x
<1>8. TypeOK'
  BY <1>1, <1>2, <1>6, <1>7 DEF TypeOK
<1>9. SetterInv'
  <2>1. \A r \in Requests : r > c => r # c
    BY <1>2, SizeAssumption DEF Requests, TypeOK
  <2>2. \A r \in Requests : r > c => stored'[r] = <<>> /\ condition'[r] = <<>>
    BY <1>1, <1>2, <1>5, <2>1 DEF SetterInv
  <2> QED
    BY <1>2, <1>3, <1>5, <1>7, <2>2 DEF SetterInv
<1>10. Clean => x = <<c, t + 1>> /\ Paired(t + 1)'
  <2> SUFFICES ASSUME Clean PROVE x = <<c, t + 1>> /\ Paired(t + 1)'
    OBVIOUS
  <2>1. Taken = t
    BY <1>0, <1>1 DEF Taken
  <2>2. Paired(t)
    BY <2>1 DEF PathInv
  <2> QED
    BY <1>1, <1>2, <1>3, <2>2, NextLine DEF x
<1>11. Clean' => Paired(Taken)'
  <2> SUFFICES ASSUME Clean' PROVE Paired(Taken)'
    OBVIOUS
  <2>1. Taken' = t + 1
    BY <1>2, <1>3, <1>7 DEF Taken
  <2>2. Paired(t + 1)'
    BY <1>2, <1>10
  <2> QED
    BY <2>1, <2>2 DEF Paired
<1>12. OwnValueUntilDisturbed'
  <2> SUFFICES ASSUME NEW r \in 1..Len(sent), Undisturbed(r)'
               PROVE  Owned(r)'
    BY <1>2 DEF OwnValueUntilDisturbed
  <2>1. Owned(r) /\ Undisturbed(r)
    BY <1>2, StillUndisturbed DEF PathInv, OwnValueUntilDisturbed
  <2>2. r \in Requests
    BY <1>2, SentKinds
  <2>3. CASE r # c
    BY <1>1, <1>2, <1>5, <2>1, <2>2, <2>3, OwnedKept
  <2>4. CASE r = c
    <3>1. Clean
      <4>1. \A d \in disturbers : c <= d /\ c # d /\ d \in Nat
        BY <1>2, <1>3, <2>1, <2>4 DEF Undisturbed, OrderInv
      <4> QED
        BY <1>2, <1>3, <4>1 DEF Clean
    <3>2. \A i \in 1..t : stored[c][i] = <<c, i>>
      BY <1>3, <2>1, <2>4 DEF Owned
    <3>3. \A i \in 1..(t + 1) : stored'[c][i] = <<c, i>>
      BY <1>3, <1>5, <1>10, <3>1, <3>2
    <3>4. t + 1 = n => stored'[c] = [i \in 1..n |-> <<c, i>>]
      <4> DEFINE s == stored'[c]
      <4>1. s \in Seq(LineType) /\ Len(s) = t + 1
        BY <1>5
      <4> HIDE DEF s
      <4>2. s = [i \in 1..Len(s) |-> s[i]]
        BY <4>1
      <4> QED
        BY <3>3, <4>1, <4>2 DEF s
    <3>5. state' # "write" => t + 1 = n
      BY <1>7
    <3>6. condition'[c] \in {<<>>, <<c, 1>>}
      BY <1>1, <2>1, <2>4 DEF Owned
    <3> QED
      BY <1>2, <1>3, <1>5, <2>4, <3>3, <3>4, <3>5, <3>6 DEF Owned, Value
  <2> QED
    BY <2>3, <2>4
<1> QED
  BY <1>2, <1>8, <1>9, <1>11, <1>12 DEF PathInv

\* Lines are thrown away for a command that is a disturber: from here on nothing is
\* claimed of the requests after it.
LEMMA ThrowSteps ==
  ASSUME PathInv, ThrowFirst \/ Throw
  PROVE  PathInv'
<1>1. /\ state \in {"throwFirst", "throw"} /\ TakeLine /\ UNCHANGED <<stored, condition>>
      /\ state' \in {"idle", "throw"}
  BY DEF ThrowFirst, Throw
<1>2. /\ TypeOK /\ FifoInv /\ OrderInv /\ SetterInv
      /\ FifoInv' /\ OrderInv' /\ valueFifo' \in Seq(LineType)
      /\ Head(valueFifo) \in LineType
      /\ UNCHANGED <<sent, arrived, commands, results, current, disturbers>>
      /\ Handled' = Handled /\ Handled <= Len(sent) /\ Handled \in Nat /\ Len(sent) \in Nat
      /\ Clean' <=> Clean
  BY <1>1, TakeKeeps
<1>3. current \in disturbers /\ current \in 1..Handled
  BY <1>1, <1>2 DEF SetterInv
<1>4. toGo' \in Nat /\ (state' = "throw" => toGo' >= 1)
  <2>1. CASE Throw
    <3>1. /\ toGo \in Nat /\ toGo >= 1 /\ toGo' = toGo - 1
          /\ state' = (IF toGo <= 1 THEN "idle" ELSE "throw")
      BY <1>2, <2>1 DEF Throw, SetterInv, TypeOK
    <3> QED
      BY <3>1
  <2>2. CASE ThrowFirst
    <3>1. ClaimedLines \subseteq Nat \ {0}
      <4> DEFINE x == Head(valueFifo)
      <4>1. x \in Requests \X Nat /\ x = <<x[1], x[2]>> /\ x[1] \in Nat /\ x[2] \in Nat
        BY <1>2, SizeAssumption DEF LineType, Requests
      <4>2. CameIn(x[1], x[2])
        BY <1>1, <1>2, <4>1, TakeFifo
      <4>3. x[1] \in 1..Len(sent) /\ x[2] \in 1..sent[x[1]].lines
        BY <4>2 DEF CameIn
      <4>4. sent[x[1]].lines \in Nat
        BY <1>2, <4>3, SentKinds
      <4>5. sent[x[1]].lines >= 1
        BY <4>3, <4>4
      <4>6. ClaimedLines \subseteq {sent[x[1]].lines} \cup 1..MaxLines
        BY DEF ClaimedLines
      <4> HIDE DEF x
      <4> QED
        BY <4>4, <4>5, <4>6, SizeAssumption
    <3>2. PICK n \in ClaimedLines : toGo' = n - 1 /\ state' = IF n = 1 THEN "idle" ELSE "throw"
      BY <2>2 DEF ThrowFirst
    <3> QED
      BY <3>1, <3>2
  <2> QED
    BY <2>1, <2>2 DEF ThrowFirst, Throw
<1>5. TypeOK'
  BY <1>1, <1>2, <1>4 DEF TypeOK
<1>6. SetterInv'
  BY <1>1, <1>2, <1>3, <1>4 DEF SetterInv
<1>7. ~Clean'
  BY <1>2, <1>3 DEF Clean
<1>8. OwnValueUntilDisturbed'
  <2> SUFFICES ASSUME NEW q \in 1..Len(sent), Undisturbed(q)'
               PROVE  Owned(q)'
    BY <1>2 DEF OwnValueUntilDisturbed
  <2>1. Owned(q)
    BY <1>2, StillUndisturbed DEF PathInv, OwnValueUntilDisturbed
  <2> QED
    BY <1>1, <1>2, <2>1, OwnedKept
<1> QED
  BY <1>2, <1>5, <1>6, <1>7, <1>8 DEF PathInv

\* A conditional read takes one line: its condition, if nothing has gone wrong.
LEMMA ConditionStep ==
  ASSUME PathInv, TakeCondition
  PROVE  PathInv'
<1> DEFINE c == current  x == Head(valueFifo)
<1>1. /\ state = "condition" /\ TakeLine /\ state' = "idle"
      /\ condition' = [condition EXCEPT ![c] = x]
      /\ UNCHANGED <<toGo, stored>>
  BY DEF TakeCondition
<1>2. /\ TypeOK /\ FifoInv /\ OrderInv /\ SetterInv
      /\ FifoInv' /\ OrderInv' /\ valueFifo' \in Seq(LineType) /\ x \in LineType
      /\ UNCHANGED <<sent, arrived, commands, results, current, disturbers>>
      /\ Handled' = Handled /\ Handled <= Len(sent) /\ Handled \in Nat /\ Len(sent) \in Nat
      /\ Clean' <=> Clean
  BY <1>1, TakeKeeps
<1>3. /\ c \in 1..Handled /\ c \in 1..Len(sent) /\ c \in Requests /\ c \notin disturbers
      /\ sent[c].lines = 1 /\ sent[c].lines \in Nat
  <2>1. c \in 1..Handled /\ c \notin disturbers /\ sent[c].op = "conditional"
    BY <1>1, <1>2 DEF SetterInv
  <2>2. c \in 1..Len(sent)
    BY <1>2, <2>1
  <2> QED
    BY <1>2, <2>1, <2>2, SentKinds
<1>4. /\ condition \in [Requests -> LineType \cup {<<>>}] /\ stored \in [Requests -> Seq(LineType)]
  BY <1>2 DEF TypeOK
<1>5. /\ condition' \in [Requests -> LineType \cup {<<>>}] /\ condition'[c] = x
      /\ \A r \in Requests : r # c => condition'[r] = condition[r]
  BY <1>1, <1>2, <1>3, <1>4
<1> HIDE DEF x
<1>6. TypeOK'
  BY <1>1, <1>2, <1>5 DEF TypeOK
<1>7. SetterInv'
  <2>1. \A r \in Requests : r > c => r # c
    BY <1>2, SizeAssumption DEF Requests, TypeOK
  <2> QED
    BY <1>1, <1>2, <1>5, <2>1 DEF SetterInv
<1>8. Clean => x = <<c, 1>> /\ Paired(1)'
  <2> SUFFICES ASSUME Clean PROVE x = <<c, 1>> /\ Paired(1)'
    OBVIOUS
  <2>1. Taken = 0
    BY <1>1 DEF Taken
  <2>2. Paired(0)
    BY <2>1 DEF PathInv
  <2>3. 0 \in Nat /\ 0 < sent[c].lines /\ 0 + 1 = 1
    BY <1>3
  <2>4. Head(valueFifo) = <<c, 0 + 1>> /\ Paired(0 + 1)'
    BY <1>1, <1>2, <1>3, <2>2, <2>3, NextLine, Zenon
  <2> QED
    BY <2>3, <2>4, Zenon DEF x
<1>9. Clean' => Paired(Taken)'
  <2> SUFFICES ASSUME Clean' PROVE Paired(Taken)'
    OBVIOUS
  <2>1. Taken' = 1
    BY <1>1, <1>2, <1>3 DEF Taken
  <2>2. Paired(1)'
    BY <1>2, <1>8
  <2> QED
    BY <2>1, <2>2 DEF Paired
<1>10. OwnValueUntilDisturbed'
  <2> SUFFICES ASSUME NEW r \in 1..Len(sent), Undisturbed(r)'
               PROVE  Owned(r)'
    BY <1>2 DEF OwnValueUntilDisturbed
  <2>1. Owned(r) /\ Undisturbed(r)
    BY <1>2, StillUndisturbed DEF PathInv, OwnValueUntilDisturbed
  <2>2. r \in Requests
    BY <1>2, SentKinds
  <2>3. CASE r # c
    BY <1>1, <1>2, <1>5, <2>1, <2>2, <2>3, OwnedKept
  <2>4. CASE r = c
    <3>1. Clean
      <4>1. \A d \in disturbers : c <= d /\ c # d /\ d \in Nat
        BY <1>2, <1>3, <2>1, <2>4 DEF Undisturbed, OrderInv
      <4> QED
        BY <1>2, <1>3, <4>1 DEF Clean
    <3>2. condition'[c] = <<c, 1>>
      BY <1>5, <1>8, <3>1
    <3>3. /\ Len(stored[c]) <= sent[c].lines
          /\ \A i \in 1..Len(stored[c]) : stored[c][i] = <<c, i>>
          /\ stored[c] # <<>> => stored[c] = [i \in 1..sent[c].lines |-> <<c, i>>]
      BY <1>1, <2>1, <2>4 DEF Owned, Value
    <3> QED
      BY <1>1, <1>2, <2>4, <3>2, <3>3 DEF Owned, Value
  <2> QED
    BY <2>3, <2>4
<1> QED
  BY <1>2, <1>6, <1>7, <1>9, <1>10 DEF PathInv

-----------------------------------------------------------------------------
\* Every step keeps the invariant.
LEMMA NextPath == PathInv /\ [Next]_vars => PathInv'
<1> SUFFICES ASSUME PathInv, [Next]_vars PROVE PathInv'
  OBVIOUS
<1>1. CASE UNCHANGED vars
  <2>1. /\ UNCHANGED <<sent, arrived, commands, results, valueFifo, state, current>>
        /\ UNCHANGED <<toGo, stored, condition, disturbers>>
    BY <1>1 DEF vars
  <2>2. TypeOK' /\ FifoInv' /\ OrderInv'
    BY <2>1, FifoKept, OrderKept DEF PathInv, TypeOK
  <2>3. SetterInv'
    BY <2>1 DEF PathInv, SetterInv, Handled
  <2>4. Clean' => Paired(Taken)'
    <3> SUFFICES ASSUME Clean' PROVE Paired(Taken)'
      OBVIOUS
    <3>1. Clean
      BY <2>1 DEF Clean
    <3>2. PICK t : t = Taken
      OBVIOUS
    <3>3. Taken' = t
      BY <2>1, <3>2 DEF Taken
    <3>4. Paired(t)'
      BY <2>1, <3>1, <3>2, PairedKept DEF PathInv
    <3> QED
      BY <3>3, <3>4 DEF Paired
  <2>5. OwnValueUntilDisturbed'
    BY <2>1 DEF PathInv, OwnValueUntilDisturbed, Undisturbed, Owned, Value
  <2> QED
    BY <2>2, <2>3, <2>4, <2>5 DEF PathInv
<1> QED
  BY <1>1, ArriveStep, LineStep, ControlStep, StartStep, WriteStep, ThrowSteps, ConditionStep
     DEF Next, Setter

\* For any requests and any FIFO: the stages of the value path keep their types, and what
\* muu_value_set counts stays a count, whatever lines it has taken (ST_THROW_FIRST to
\* ST_THROW_AND_REPL, muu_value_set.v 303-424).
THEOREM PathTypes == Spec => []TypeOK
<1>1. PathInv => TypeOK
  BY DEF PathInv
<1> QED
  BY <1>1, InitPath, NextPath, PTL DEF Spec

\* For any requests and any FIFO: as long as no earlier request was refused, was a write
\* of nothing or a conditional read of a key that is not there, a request is stored with
\* the lines of its own value and decided by its own condition, although nothing in the
\* lines says whose they are (ST_WRITE to ST_WRITE_AND_REPL, muu_value_set.v 340-407,
\* ST_PREDEVALCONF 483-493).
THEOREM OwnValues == Spec => []OwnValueUntilDisturbed
<1>1. PathInv => OwnValueUntilDisturbed
  BY DEF PathInv
<1> QED
  BY <1>1, InitPath, NextPath, PTL DEF Spec
=============================================================================

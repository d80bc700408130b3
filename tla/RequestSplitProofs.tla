-------------------------- MODULE RequestSplitProofs --------------------------
(***************************************************************************)
(* Theorems about RequestSplit, for every set of requests, length of a line  *)
(* and size of the FIFOs: the splitter keeps its place in the stream, what   *)
(* it puts into the FIFOs of commands and of keys stays paired, and until it *)
(* throws a request away the values leave it complete and in order.         *)
(***************************************************************************)
EXTENDS RequestSplit, SequenceTheorems, WellFoundedInduction, TLAPS

-----------------------------------------------------------------------------
(* The inductive invariants. *)

LineType == [last : BOOLEAN, words : [Positions -> Nat \X Int]]

\* The types; no state but the first is without a request.
SplitTypes ==
  /\ TypeOK
  /\ line \in [valid : BOOLEAN, last : BOOLEAN, words : [Positions -> Nat \X Int]]
  /\ valueFifo \in Seq(LineType) /\ lines \in Seq(LineType)
  /\ state # "idle" => Current >= 1

\* How many words of the request have been taken in each state: what the splitter
\* counts down is what the request has left.
PlaceInv ==
  /\ state \in {"meta", "dropFirst"} => word = 0
  /\ state = "meta2" => word = 1
  /\ state = "key" => word = 2 /\ LoadLen(Kind) > 0
  /\ state = "dropFirst" => left = LoadLen(Kind)
  /\ state \in {"value", "dropRest"} => left \in Nat /\ word + left + 1 = Words(Kind)
  /\ state = "idle" /\ sent # <<>> => word = Words(Kind)

\* A FIFO and the register in front of it.
With(fifo, x) == IF x = 0 THEN fifo ELSE Append(fifo, x)

\* Commands and keys are in step, but for the request whose key is still to come;
\* a request begins with empty registers.
PairInv ==
  LET m == With(metaFifo, meta)
      k == With(keyFifo, key)
  IN
  /\ Len(m) = Len(k) + (IF state = "key" THEN 1 ELSE 0)
  /\ \A i \in 1..Len(k) : m[i] = k[i]
  /\ state = "key" => m[Len(m)] = Current
  /\ state \in {"meta", "meta2"} => meta = 0
  /\ state \in {"meta", "meta2", "key"} => key = 0

\* The lines of the first m requests; the lines that have left the splitter.
Done(m) == FlattenSeq([i \in 1..m |-> Lines(i)])
Out == IF line.valid THEN Append(lines, [last |-> line.last, words |-> line.words]) ELSE lines

\* Of request c, the last one, q lines are full and have left the splitter; the
\* register holds the words that came after them.
Filled(c, q) ==
  /\ q * LineWords + pos = sent[c].words - 1 - left
  /\ Out = Done(c - 1) \o SubSeq(Lines(c), 1, q)
  /\ pos # 0 => /\ ~line.valid
                /\ \A p \in Positions :
                     line.words[p] = IF p < pos THEN <<c, q * LineWords + p + 1>> ELSE NoWord

\* Nothing was thrown away: what has left the splitter is what the requests before
\* the last one, c, held, and the full lines of c.
ValueOf(c) ==
  /\ accepted = [i \in 1..c |-> i]
  /\ state \notin {"dropFirst", "dropRest"}
  /\ ~line.valid => ~line.last
  /\ state = "idle" => Out = Done(c)
  /\ state \in {"meta", "meta2", "key"} => Out = Done(c - 1)
  /\ state = "value" => \E q \in Nat : Filled(c, q)

ValueInv == \E c \in Nat : c = Current /\ ValueOf(c)

IntactInv == ~forceThrow => ValueInv

SplitInv == SplitTypes /\ PlaceInv /\ PairInv /\ IntactInv
-----------------------------------------------------------------------------
(* What FlattenSeq computes, one sequence at a time. *)

\* A set of numbers that is not empty has a first one.
LEMMA FirstOf ==
  ASSUME NEW S \in SUBSET Nat, S # {}
  PROVE  \E i \in S : \A j \in S : i <= j
<1>1. PICK i \in S : \A j \in S : <<j, i>> \notin OpToRel(<, Nat)
  BY NatLessThanWellFounded, WFMin, Zenon
<1>2. \A j \in S : ~(j < i)
  BY <1>1 DEF OpToRel
<1>3. \A j \in S : j \in Nat /\ i \in Nat
  OBVIOUS
<1> QED
  BY <1>2, <1>3

\* f is what the definition of FlattenSeq computes from the first n sequences of s.
IsFlat(f, s, n) == f = [i \in 1..n |-> IF i = 1 THEN s[i] ELSE f[i - 1] \o s[i]]

Agree(s, t, n) == \A i \in 1..n : s[i] = t[i]

\* There is one such function for every n.
LEMMA FlatExists ==
  ASSUME NEW S, NEW s \in Seq(Seq(S)), NEW n \in 0..Len(s)
  PROVE  \E f \in [1..n -> Seq(S)] : IsFlat(f, s, n)
<1> DEFINE Has(m) == \E f \in [1..m -> Seq(S)] : IsFlat(f, s, m)
           bad == {m \in 0..Len(s) : ~Has(m)}
<1>1. SUFFICES ASSUME bad # {} PROVE FALSE
  OBVIOUS
<1>2. PICK m \in bad : \A j \in bad : m <= j
  <2>1. bad \in SUBSET Nat
    OBVIOUS
  <2> QED
    BY <1>1, <2>1, FirstOf, Zenon
<1>3. m \in 0..Len(s) /\ Len(s) \in Nat
  OBVIOUS
<1>4. CASE m = 0
  <2> DEFINE f == [i \in 1..0 |-> <<>>]
  <2>1. 1..0 = {}
    OBVIOUS
  <2>2. f \in [1..0 -> Seq(S)] /\ IsFlat(f, s, 0)
    BY <2>1 DEF IsFlat
  <2> QED
    BY <1>2, <1>4, <2>2
<1>5. CASE m # 0
  <2>1. m - 1 \in 0..Len(s) /\ ~(m <= m - 1)
    BY <1>3, <1>5
  <2>2. Has(m - 1)
    BY <1>2, <2>1
  <2>3. PICK f \in [1..(m - 1) -> Seq(S)] : IsFlat(f, s, m - 1)
    BY <2>2
  <2> DEFINE g == [i \in 1..m |-> IF i < m THEN f[i] ELSE IF m = 1 THEN s[m] ELSE f[m - 1] \o s[m]]
  <2>4. \A i \in 1..m : s[i] \in Seq(S)
    BY <1>3
  <2>5. \A i \in 1..m : i < m => i \in 1..(m - 1) /\ f[i] \in Seq(S)
    BY <1>3
  <2>6. m # 1 => f[m - 1] \in Seq(S) /\ f[m - 1] \o s[m] \in Seq(S)
    <3>1. SUFFICES ASSUME m # 1 PROVE f[m - 1] \in Seq(S) /\ f[m - 1] \o s[m] \in Seq(S)
      OBVIOUS
    <3>2. m - 1 \in 1..(m - 1) /\ m \in 1..m
      BY <1>3, <1>5, <3>1
    <3>3. f[m - 1] \in Seq(S) /\ s[m] \in Seq(S)
      BY <2>3, <2>4, <3>2
    <3> QED
      BY <3>3
  <2>7. g \in [1..m -> Seq(S)]
    <3>1. \A i \in 1..m : (IF i < m THEN f[i] ELSE IF m = 1 THEN s[m] ELSE f[m - 1] \o s[m]) \in Seq(S)
      <4>1. \A i \in 1..m : i < m \/ i = m
        BY <1>3
      <4> QED
        BY <2>4, <2>5, <2>6, <4>1
    <3> QED
      BY <3>1, Zenon
  <2>8. \A i \in 1..m : g[i] = IF i = 1 THEN s[i] ELSE g[i - 1] \o s[i]
    <3> SUFFICES ASSUME NEW i \in 1..m PROVE g[i] = IF i = 1 THEN s[i] ELSE g[i - 1] \o s[i]
      OBVIOUS
    <3>1. i # 1 => i - 1 \in 1..m /\ i - 1 < m
      BY <1>3
    <3>2. i # 1 => g[i - 1] = f[i - 1]
      BY <3>1
    <3>3. CASE i < m
      <4>1. i \in 1..(m - 1)
        BY <1>3, <3>3
      <4>2. f[i] = IF i = 1 THEN s[i] ELSE f[i - 1] \o s[i]
        BY <2>3, <4>1, Zenon DEF IsFlat
      <4>3. g[i] = f[i]
        BY <3>3
      <4> QED
        BY <3>2, <4>2, <4>3, Zenon
    <3>4. CASE i = m
      <4>1. g[i] = IF m = 1 THEN s[m] ELSE f[m - 1] \o s[m]
        BY <1>3, <3>4
      <4> QED
        BY <3>2, <3>4, <4>1, Zenon
    <3> QED
      BY <1>3, <3>3, <3>4
  <2>9. IsFlat(g, s, m)
    <3> HIDE DEF g
    <3>1. g = [i \in 1..m |-> g[i]]
      BY <2>7
    <3> QED
      BY <2>8, <3>1, Zenon DEF IsFlat
  <2> QED
    BY <1>2, <2>7, <2>9
<1> QED
  BY <1>4, <1>5

\* Two such functions agree where both are defined, if the sequences do.
LEMMA FlatUnique ==
  ASSUME NEW n \in Nat, NEW m \in Nat, n <= m, NEW s, NEW t, NEW f, NEW g,
         IsFlat(f, s, n), IsFlat(g, t, m), Agree(s, t, n)
  PROVE  Agree(f, g, n)
<1> DEFINE bad == {i \in 1..n : f[i] # g[i]}
<1>1. SUFFICES ASSUME bad # {} PROVE FALSE
  BY DEF Agree
<1>2. PICK i \in bad : \A j \in bad : i <= j
  <2>1. bad \in SUBSET Nat
    OBVIOUS
  <2> QED
    BY <1>1, <2>1, FirstOf, Zenon
<1>3. i \in 1..n /\ i \in 1..m
  OBVIOUS
<1>4. i # 1 => i - 1 \in 1..n /\ ~(i <= i - 1)
  BY <1>3
<1>5. f[i] = IF i = 1 THEN s[i] ELSE f[i - 1] \o s[i]
  BY <1>3, Zenon DEF IsFlat
<1>6. g[i] = IF i = 1 THEN t[i] ELSE g[i - 1] \o t[i]
  BY <1>3, Zenon DEF IsFlat
<1>7. i # 1 => f[i - 1] = g[i - 1]
  BY <1>2, <1>4
<1>8. f[i] = g[i]
  BY <1>3, <1>5, <1>6, <1>7, Zenon DEF Agree
<1> QED
  BY <1>2, <1>8

\* FlattenSeq of sequences that are at hand.
LEMMA FlattenIs ==
  ASSUME NEW S, NEW s \in Seq(Seq(S)), s # <<>>
  PROVE  \E f \in [1..Len(s) -> Seq(S)] : IsFlat(f, s, Len(s)) /\ FlattenSeq(s) = f[Len(s)]
<1> DEFINE f == CHOOSE f : f = [i \in 1..Len(s) |-> IF i = 1 THEN s[i] ELSE f[i - 1] \o s[i]]
<1>1. Len(s) \in 0..Len(s) /\ Len(s) # 0 /\ Len(s) \in Nat
  OBVIOUS
<1>2. PICK h \in [1..Len(s) -> Seq(S)] : IsFlat(h, s, Len(s))
  BY <1>1, FlatExists
<1>3. h = [i \in 1..Len(s) |-> IF i = 1 THEN s[i] ELSE h[i - 1] \o s[i]]
  BY <1>2 DEF IsFlat
<1>4. f = [i \in 1..Len(s) |-> IF i = 1 THEN s[i] ELSE f[i - 1] \o s[i]]
  BY <1>3, Zenon
<1>5. FlattenSeq(s) = f[Len(s)]
  BY <1>1, Zenon DEF FlattenSeq
<1>6. IsFlat(f, s, Len(s))
  BY <1>4, Zenon DEF IsFlat
<1> HIDE DEF f
<1>7. \A i \in 1..Len(s) : h[i] = f[i]
  <2>1. Agree(s, s, Len(s)) /\ Len(s) <= Len(s)
    BY <1>1 DEF Agree
  <2>2. Agree(h, f, Len(s))
    BY <1>1, <1>2, <1>6, <2>1, FlatUnique
  <2> QED
    BY <2>2 DEF Agree
<1>8. f \in [1..Len(s) -> Seq(S)]
  <2>1. DOMAIN f = 1..Len(s) /\ f = [i \in 1..Len(s) |-> f[i]]
    BY <1>6 DEF IsFlat
  <2>2. \A i \in 1..Len(s) : f[i] \in Seq(S)
    BY <1>2, <1>7
  <2> QED
    BY <2>1, <2>2, Zenon
<1> QED
  BY <1>5, <1>6, <1>8

\* One more sequence comes at the end.
LEMMA FlattenAppend ==
  ASSUME NEW S, NEW s \in Seq(Seq(S)), NEW x \in Seq(S)
  PROVE  /\ FlattenSeq(s) \in Seq(S)
         /\ FlattenSeq(Append(s, x)) = FlattenSeq(s) \o x
<1> DEFINE t == Append(s, x)
<1>1. /\ t \in Seq(Seq(S)) /\ t # <<>> /\ Len(t) = Len(s) + 1 /\ Len(s) \in Nat
      /\ t[Len(t)] = x
  BY AppendProperties
<1>2. \A i \in 1..Len(s) : s[i] = t[i]
  BY AppendProperties
<1>3. s \in Seq(Seq(S)) /\ x \in Seq(S)
  OBVIOUS
<1> HIDE DEF t
<1>4. PICK g \in [1..Len(t) -> Seq(S)] : IsFlat(g, t, Len(t)) /\ FlattenSeq(t) = g[Len(t)]
  BY <1>1, FlattenIs
<1>5. g[Len(t)] = IF Len(t) = 1 THEN x ELSE g[Len(t) - 1] \o x
  <2>1. Len(t) \in 1..Len(t)
    BY <1>1
  <2> QED
    BY <1>1, <1>4, <2>1, Zenon DEF IsFlat
<1>6. CASE s = <<>>
  <2>1. FlattenSeq(s) = <<>>
    BY <1>6 DEF FlattenSeq
  <2>2. FlattenSeq(t) = x
    BY <1>1, <1>4, <1>5, <1>6
  <2> QED
    BY <2>1, <2>2 DEF t
<1>7. CASE s # <<>>
  <2>1. PICK f \in [1..Len(s) -> Seq(S)] : IsFlat(f, s, Len(s)) /\ FlattenSeq(s) = f[Len(s)]
    BY <1>7, FlattenIs
  <2>2. \A i \in 1..Len(s) : f[i] = g[i]
    <3>1. Len(s) \in Nat /\ Len(t) \in Nat /\ Len(s) <= Len(t)
      BY <1>1
    <3>2. IsFlat(f, s, Len(s)) /\ IsFlat(g, t, Len(t))
      BY <1>4, <2>1
    <3>3. Agree(s, t, Len(s))
      BY <1>2 DEF Agree, t
    <3>4. Agree(f, g, Len(s))
      BY <3>1, <3>2, <3>3, FlatUnique
    <3> QED
      BY <3>4 DEF Agree
  <2>3. Len(s) \in 1..Len(s) /\ Len(t) - 1 = Len(s) /\ Len(t) # 1
    BY <1>1, <1>7
  <2>4. FlattenSeq(s) = g[Len(s)] /\ FlattenSeq(s) \in Seq(S)
    BY <2>1, <2>2, <2>3
  <2> QED
    BY <1>4, <1>5, <2>3, <2>4, Zenon DEF t
<1> QED
  BY <1>6, <1>7

-----------------------------------------------------------------------------
(* The lines of a value. *)

\* The constants are numbers, the parts of a request what they should be.
LEMMA ConstantTypes ==
  /\ LineWords \in Nat /\ LineWords >= 1 /\ FifoSlots \in Nat /\ FifoSlots >= 2
  /\ MaxRequests \in Nat
  /\ \A k \in Kinds : /\ k.key \in BOOLEAN /\ k.words \in Nat /\ (k.words > 0 => k.key)
                      /\ LoadLen(k) \in Nat /\ Words(k) = LoadLen(k) + 2
                      /\ k.words > 0 => LoadLen(k) = k.words + 1
BY KindAssumption, SizeAssumption DEF LoadLen, Words

\* Multiples of a number are at least that number apart.
LEMMA Multiples ==
  ASSUME NEW d \in Nat, d >= 1, NEW a \in Int, NEW b \in Int, a < b
  PROVE  a * d + d <= b * d
<1>1. PICK e \in Nat : b = a + 1 + e
  <2>1. b - a - 1 \in Nat /\ b = a + 1 + (b - a - 1)
    OBVIOUS
  <2> QED
    BY <2>1
<1>2. b * d = a * d + d + e * d
  BY <1>1
<1>3. e * d >= 0
  BY <1>1
<1>4. a * d \in Int /\ b * d \in Int /\ e * d \in Int
  BY <1>1
<1> QED
  BY <1>2, <1>3, <1>4

\* The lines of a value of n words.
Count(n) == (n + LineWords - 1) \div LineWords

\* A value of n words goes on beyond q full lines and p words: the line that has
\* begun is one of its lines, and the last one if and only if its last word comes
\* before the line is full.
LEMMA LineCount ==
  ASSUME NEW n \in Nat, NEW q \in Nat, NEW p \in Positions, q * LineWords + p < n
  PROVE  /\ Count(n) \in Nat /\ q + 1 <= Count(n)
         /\ n = q * LineWords + p + 1 => Count(n) = q + 1
         /\ p = LineWords - 1 /\ q * LineWords + p + 1 < n => q + 1 < Count(n)
<1> DEFINE d == LineWords
           c == Count(n)
<1>1. d \in Nat /\ d >= 1 /\ p \in Nat /\ p < d
  BY ConstantTypes DEF Positions
<1>2. PICK r \in 0..(d - 1) : c \in Int /\ n + d - 1 = c * d + r
  <2>1. n + d - 1 \in Int /\ d > 0
    BY <1>1
  <2>2. /\ (n + d - 1) \div d \in Int /\ (n + d - 1) % d \in 0..(d - 1)
        /\ n + d - 1 = d * ((n + d - 1) \div d) + ((n + d - 1) % d)
    BY <1>1, <2>1
  <2> QED
    BY <1>1, <2>2 DEF Count
<1> HIDE DEF c, d
<1>3. q * d \in Int /\ c * d \in Int /\ r \in Int /\ 0 <= r /\ r < d
  BY <1>1, <1>2
<1>4. q * d + p < n
  BY DEF d
<1>5. q < c
  <2>1. SUFFICES ASSUME c <= q PROVE FALSE
    BY <1>2
  <2>2. c * d <= q * d
    <3>1. CASE c = q
      BY <1>3, <3>1
    <3>2. CASE c < q
      <4>1. c * d + d <= q * d
        BY <1>1, <1>2, <3>2, Multiples
      <4> QED
        BY <1>1, <1>3, <4>1
    <3> QED
      BY <1>2, <2>1, <3>1, <3>2
  <2> QED
    BY <1>1, <1>2, <1>3, <1>4, <2>2
<1>6. ASSUME n = q * d + p + 1 PROVE c = q + 1
  <2>1. SUFFICES ASSUME q + 1 < c PROVE FALSE
    BY <1>2, <1>5
  <2>2. (q + 1) * d + d <= c * d
    BY <1>1, <1>2, <2>1, Multiples
  <2>3. (q + 1) * d = q * d + d
    BY <1>1
  <2> QED
    BY <1>1, <1>2, <1>3, <1>6, <2>2, <2>3
<1>7. ASSUME p = d - 1, q * d + p + 1 < n PROVE q + 1 < c
  <2>1. SUFFICES ASSUME c = q + 1 PROVE FALSE
    BY <1>2, <1>5
  <2>2. c * d = q * d + d
    BY <1>1, <2>1
  <2> QED
    BY <1>1, <1>2, <1>3, <1>7, <2>2
<1> QED
  BY <1>2, <1>5, <1>6, <1>7 DEF c, d

\* The lines of a request are lines.
LEMMA LinesType ==
  ASSUME sent \in Seq(Kinds), NEW r \in 1..Len(sent)
  PROVE  /\ sent[r] \in Kinds /\ Count(sent[r].words) \in Nat
         /\ Lines(r) \in Seq(LineType) /\ Len(Lines(r)) = Count(sent[r].words)
         /\ \A i \in 1..Len(Lines(r)) :
              Lines(r)[i] = [last |-> i = Count(sent[r].words),
                             words |-> [p \in Positions |->
                               IF (i - 1) * LineWords + p + 1 <= sent[r].words
                               THEN <<r, (i - 1) * LineWords + p + 1>> ELSE NoWord]]
<1> DEFINE n == sent[r].words
<1>1. sent[r] \in Kinds /\ n \in Nat /\ r \in Nat
  BY ConstantTypes
<1>2. Count(n) \in Nat
  <2>1. LineWords \in Nat /\ LineWords > 0 /\ n + LineWords - 1 \in Nat
    BY <1>1, ConstantTypes
  <2> QED
    BY <2>1 DEF Count
<1> DEFINE ws(i) == [p \in Positions |-> IF (i - 1) * LineWords + p + 1 <= n
                                          THEN <<r, (i - 1) * LineWords + p + 1>> ELSE NoWord]
<1>3. Lines(r) = [i \in 1..Count(n) |-> [last |-> i = Count(n), words |-> ws(i)]]
  BY DEF Lines, Count
<1>4. \A i \in 1..Count(n) : ws(i) \in [Positions -> Nat \X Int]
  <2> SUFFICES ASSUME NEW i \in 1..Count(n), NEW p \in Positions
               PROVE (IF (i - 1) * LineWords + p + 1 <= n
                      THEN <<r, (i - 1) * LineWords + p + 1>> ELSE NoWord) \in Nat \X Int
    OBVIOUS
  <2>1. (i - 1) * LineWords + p + 1 \in Int
    <3>1. i - 1 \in Int /\ LineWords \in Int /\ p \in Int
      BY <1>2, ConstantTypes DEF Positions
    <3>2. (i - 1) * LineWords \in Int
      BY <3>1
    <3> QED
      BY <3>1, <3>2
  <2> QED
    BY <1>1, <2>1 DEF NoWord
<1> HIDE DEF ws, n
<1>5. \A i \in 1..Count(n) : [last |-> i = Count(n), words |-> ws(i)] \in LineType
  <2>1. \A i \in 1..Count(n) : (i = Count(n)) \in BOOLEAN
    OBVIOUS
  <2> QED
    BY <1>4, <2>1, Zenon DEF LineType
<1>6. Lines(r) \in [1..Count(n) -> LineType]
  BY <1>3, <1>5, Zenon
<1>7. Lines(r) \in Seq(LineType) /\ Len(Lines(r)) = Count(n)
  BY <1>2, <1>6
<1>8. \A i \in 1..Len(Lines(r)) : Lines(r)[i] = [last |-> i = Count(n), words |-> ws(i)]
  BY <1>3, <1>7, Zenon
<1> QED
  BY <1>1, <1>2, <1>7, <1>8, Zenon DEF ws, n

\* The lines of one more request come at the end.
LEMMA DoneStep ==
  ASSUME sent \in Seq(Kinds), NEW m \in 0..(Len(sent) - 1)
  PROVE  /\ Done(m) \in Seq(LineType) /\ Lines(m + 1) \in Seq(LineType)
         /\ Done(m + 1) = Done(m) \o Lines(m + 1)
<1> DEFINE s == [i \in 1..m |-> Lines(i)]
<1>1. \A i \in 1..(m + 1) : Lines(i) \in Seq(LineType)
  <2>1. Len(sent) \in Nat /\ \A i \in 1..(m + 1) : i \in 1..Len(sent)
    OBVIOUS
  <2> QED
    BY <2>1, LinesType
<1>2. m \in Nat /\ m + 1 \in 1..(m + 1) /\ \A i \in 1..m : i \in 1..(m + 1)
  OBVIOUS
<1>3. s \in [1..m -> Seq(LineType)]
  BY <1>1, <1>2, Zenon
<1>4. s \in Seq(Seq(LineType)) /\ Len(s) = m
  BY <1>2, <1>3
<1>5. Lines(m + 1) \in Seq(LineType)
  BY <1>1, <1>2
<1>6. [i \in 1..(m + 1) |-> Lines(i)] = Append(s, Lines(m + 1))
  <2> DEFINE t == [i \in 1..(m + 1) |-> Lines(i)]
  <2>1. t \in [1..(m + 1) -> Seq(LineType)]
    BY <1>1, Zenon
  <2>2. t \in Seq(Seq(LineType)) /\ Len(t) = m + 1
    BY <1>2, <2>1
  <2>3. \A i \in 1..m : t[i] = s[i]
    BY <1>2, Zenon
  <2>4. t[m + 1] = Lines(m + 1)
    BY <1>2, Zenon
  <2>5. /\ Append(s, Lines(m + 1)) \in Seq(Seq(LineType))
        /\ Len(Append(s, Lines(m + 1))) = m + 1
        /\ \A i \in 1..m : Append(s, Lines(m + 1))[i] = s[i]
        /\ Append(s, Lines(m + 1))[m + 1] = Lines(m + 1)
    <3> HIDE DEF s
    <3>1. s \in Seq(Seq(LineType)) /\ Lines(m + 1) \in Seq(LineType)
      BY <1>4, <1>5
    <3> QED
      BY <1>4, <3>1, AppendProperties
  <2> HIDE DEF s, t
  <2>6. \A i \in 1..(m + 1) : i \in 1..m \/ i = m + 1
    OBVIOUS
  <2>7. \A i \in 1..(m + 1) : t[i] = Append(s, Lines(m + 1))[i]
    BY <2>3, <2>4, <2>5, <2>6
  <2> QED
    <3>1. t = Append(s, Lines(m + 1))
      BY <2>2, <2>5, <2>7, SeqEqual
    <3> QED
      BY <3>1 DEF t
<1> HIDE DEF s
<1>7. /\ FlattenSeq(s) \in Seq(LineType)
      /\ FlattenSeq(Append(s, Lines(m + 1))) = FlattenSeq(s) \o Lines(m + 1)
  BY <1>4, <1>5, FlattenAppend
<1> QED
  BY <1>5, <1>6, <1>7 DEF Done, s

\* No request, no line.
LEMMA DoneNone == Done(0) = <<>>
<1>1. [i \in 1..0 |-> Lines(i)] = <<>>
  OBVIOUS
<1> QED
  BY <1>1 DEF Done, FlattenSeq

\* All lines are lines.
LEMMA DoneType ==
  ASSUME sent \in Seq(Kinds), NEW m \in 0..Len(sent)
  PROVE  Done(m) \in Seq(LineType)
<1>1. CASE m = 0
  <2>1. <<>> \in Seq(LineType)
    OBVIOUS
  <2>2. Done(m) = <<>>
    BY <1>1, DoneNone
  <2> QED
    BY <2>1, <2>2
<1>2. CASE m # 0
  <2>1. m - 1 \in 0..(Len(sent) - 1) /\ (m - 1) + 1 = m
    BY <1>2
  <2>2. Done(m - 1) \in Seq(LineType) /\ Lines(m) \in Seq(LineType) /\ Done(m) = Done(m - 1) \o Lines(m)
    BY <2>1, DoneStep
  <2> QED
    BY <2>2
<1> QED
  BY <1>1, <1>2

\* A request that comes later changes nothing of the lines of those before it.
LEMMA LinesKept ==
  ASSUME NEW m, \A i \in 1..m : sent'[i] = sent[i]
  PROVE  Done(m)' = Done(m) /\ \A i \in 1..m : Lines(i)' = Lines(i)
<1>1. ASSUME NEW i \in 1..m PROVE Lines(i)' = Lines(i)
  <2>1. sent'[i] = sent[i]
    OBVIOUS
  <2> QED
    BY <2>1, Zenon DEF Lines
<1>2. [i \in 1..m |-> Lines(i)'] = [i \in 1..m |-> Lines(i)]
  BY <1>1, Zenon
<1>3. Done(m)' = Done(m)
  BY <1>2, Zenon DEF Done
<1> QED
  BY <1>1, <1>3

-----------------------------------------------------------------------------
(* Two sequences in step, the first d elements ahead. *)

InStep(m, k, d) == Len(m) = Len(k) + d /\ \A i \in 1..Len(k) : m[i] = k[i]

\* s after its first n elements were taken, one or none.
Popped(s, n) == IF n = 1 THEN Tail(s) ELSE s

\* Taking the first element of both leaves them in step.
LEMMA StepPopped ==
  ASSUME NEW m \in Seq(Requests), NEW k \in Seq(Requests), NEW d \in {0, 1}, InStep(m, k, d),
         NEW n \in {0, 1}, n = 1 => m # <<>> /\ k # <<>>
  PROVE  /\ Popped(m, n) \in Seq(Requests) /\ Popped(k, n) \in Seq(Requests)
         /\ InStep(Popped(m, n), Popped(k, n), d)
         /\ d = 1 => Popped(m, n)[Len(Popped(m, n))] = m[Len(m)]
<1>1. CASE n = 0
  BY <1>1 DEF Popped
<1>2. CASE n = 1
  <2>1. m # <<>> /\ k # <<>> /\ Popped(m, n) = Tail(m) /\ Popped(k, n) = Tail(k)
    BY <1>2 DEF Popped
  <2>2. /\ Len(m) \in Nat /\ Len(k) \in Nat /\ Len(m) = Len(k) + d /\ Len(k) >= 1
        /\ \A i \in 1..Len(k) : m[i] = k[i]
    BY <2>1 DEF InStep
  <2>3. /\ Tail(m) \in Seq(Requests) /\ Tail(k) \in Seq(Requests)
        /\ Len(Tail(m)) = Len(m) - 1 /\ Len(Tail(k)) = Len(k) - 1
    BY <2>1
  <2>4. \A i \in 1..Len(Tail(m)) : Tail(m)[i] = m[i + 1]
    BY <2>1, <2>3
  <2>5. \A i \in 1..Len(Tail(k)) : Tail(k)[i] = k[i + 1]
    BY <2>1, <2>3
  <2>6. \A i \in 1..Len(Tail(k)) : i \in 1..Len(Tail(m)) /\ i + 1 \in 1..Len(k)
    BY <2>2, <2>3
  <2>7. \A i \in 1..Len(Tail(k)) : Tail(m)[i] = Tail(k)[i]
    BY <2>2, <2>4, <2>5, <2>6
  <2>8. d = 1 => Len(Tail(m)) \in 1..Len(Tail(m)) /\ Len(Tail(m)) + 1 = Len(m)
    BY <2>2, <2>3
  <2>9. d = 1 => Tail(m)[Len(Tail(m))] = m[Len(m)]
    BY <2>4, <2>8
  <2>10. Len(Tail(m)) = Len(Tail(k)) + d
    BY <2>2, <2>3
  <2> QED
    BY <2>1, <2>3, <2>7, <2>9, <2>10 DEF InStep
<1> QED
  BY <1>1, <1>2

\* Adding the command, its key, or both.
LEMMA StepAdded ==
  ASSUME NEW m \in Seq(Requests), NEW k \in Seq(Requests), NEW x \in Requests
  PROVE  /\ InStep(m, k, 0) => /\ InStep(Append(m, x), Append(k, x), 0)
                               /\ InStep(Append(m, x), k, 1)
         /\ InStep(m, k, 1) /\ m[Len(m)] = x => InStep(m, Append(k, x), 0)
         /\ Append(m, x)[Len(Append(m, x))] = x
<1>1. /\ Len(m) \in Nat /\ Len(k) \in Nat
      /\ Len(Append(m, x)) = Len(m) + 1 /\ Len(Append(k, x)) = Len(k) + 1
      /\ Append(m, x)[Len(m) + 1] = x /\ Append(k, x)[Len(k) + 1] = x
  BY AppendProperties
<1>2. \A i \in 1..Len(m) : Append(m, x)[i] = m[i]
  BY AppendProperties
<1>3. \A i \in 1..Len(k) : Append(k, x)[i] = k[i]
  BY AppendProperties
<1>4. \A i \in 1..(Len(k) + 1) : i \in 1..Len(k) \/ i = Len(k) + 1
  BY <1>1
<1>5. ASSUME InStep(m, k, 0)
      PROVE  InStep(Append(m, x), Append(k, x), 0) /\ InStep(Append(m, x), k, 1)
  <2>1. Len(m) = Len(k) /\ \A i \in 1..Len(k) : m[i] = k[i]
    BY <1>1, <1>5 DEF InStep
  <2> HIDE <1>5
  <2>2. \A i \in 1..Len(k) : Append(m, x)[i] = k[i] /\ Append(m, x)[i] = Append(k, x)[i]
    BY <1>2, <1>3, <2>1
  <2>3. \A i \in 1..(Len(k) + 1) : Append(m, x)[i] = Append(k, x)[i]
    BY <1>1, <1>4, <2>1, <2>2
  <2> QED
    BY <1>1, <2>1, <2>2, <2>3 DEF InStep
<1>6. ASSUME InStep(m, k, 1), m[Len(m)] = x PROVE InStep(m, Append(k, x), 0)
  <2>1. Len(m) = Len(k) + 1 /\ \A i \in 1..Len(k) : m[i] = k[i]
    BY <1>6 DEF InStep
  <2> HIDE <1>6
  <2>2. m[Len(k) + 1] = x
    BY <1>6, <2>1
  <2>3. \A i \in 1..(Len(k) + 1) : m[i] = Append(k, x)[i]
    BY <1>1, <1>3, <1>4, <2>1, <2>2
  <2> QED
    BY <1>1, <2>1, <2>3 DEF InStep
<1> QED
  BY <1>1, <1>5, <1>6

-----------------------------------------------------------------------------
(* A clock edge of the FIFOs. *)

\* A FIFO after n elements were taken and, if it had room, x was put into it; the
\* register in front of it.
Fed(fifo, x, n) == Popped(fifo, n) \o (IF x # 0 /\ Ready(fifo) THEN <<x>> ELSE <<>>)
Kept(fifo, x) == IF Ready(fifo) THEN 0 ELSE x

\* What a FIFO holds and what waits in front of it is what it was, but for what was
\* taken, if the register is cleared when the FIFO took it; an empty register adds
\* nothing.
LEMMA FifoStep ==
  ASSUME NEW fifo \in Seq(Requests), NEW x \in 0..MaxRequests,
         NEW n \in {0, 1}, n = 1 => fifo # <<>>
  PROVE  /\ Fed(fifo, x, n) \in Seq(Requests)
         /\ With(fifo, x) \in Seq(Requests) /\ (fifo # <<>> => With(fifo, x) # <<>>)
         /\ With(Fed(fifo, x, n), Kept(fifo, x)) = Popped(With(fifo, x), n)
         /\ x = 0 => Fed(fifo, x, n) = Popped(fifo, n)
<1> DEFINE new == Fed(fifo, x, n)
<1>1. Popped(fifo, n) \in Seq(Requests)
  BY DEF Popped
<1>2. x # 0 => x \in Requests
  BY DEF Requests
<1>3. x # 0 => /\ Append(fifo, x) \in Seq(Requests) /\ Append(fifo, x) # <<>>
               /\ Append(Popped(fifo, n), x) \in Seq(Requests)
  BY <1>1, <1>2, AppendProperties
<1>4. new = IF x # 0 /\ Ready(fifo) THEN Append(Popped(fifo, n), x) ELSE Popped(fifo, n)
  <2>1. x # 0 => Append(Popped(fifo, n), x) = Popped(fifo, n) \o <<x>>
    BY <1>1, <1>2, AppendIsConcat
  <2>2. Popped(fifo, n) \o <<>> = Popped(fifo, n)
    BY <1>1, ConcatEmptySeq
  <2> QED
    BY <2>1, <2>2, Zenon DEF Fed
<1> HIDE DEF new
<1>5. x # 0 => Append(Popped(fifo, n), x) = Popped(Append(fifo, x), n)
  <2>1. SUFFICES ASSUME x # 0, n = 1 PROVE Append(Tail(fifo), x) = Tail(Append(fifo, x))
    BY DEF Popped
  <2>2. fifo # <<>> /\ x \in Requests
    BY <1>2, <2>1
  <2> DEFINE a == Append(Tail(fifo), x)
             b == Tail(Append(fifo, x))
  <2>3. /\ a \in Seq(Requests) /\ b \in Seq(Requests)
        /\ Len(a) = Len(fifo) /\ Len(b) = Len(fifo)
    BY <2>2
  <2>4. \A i \in 1..Len(fifo) : a[i] = b[i]
    BY <2>2
  <2> HIDE DEF a, b
  <2>5. a = b
    BY <2>3, <2>4, SeqEqual
  <2> QED
    BY <2>5 DEF a, b
<1>6. With(fifo, x) = IF x # 0 THEN Append(fifo, x) ELSE fifo
  BY DEF With
<1>7. With(new, Kept(fifo, x))
        = IF x # 0 THEN Append(Popped(fifo, n), x) ELSE Popped(fifo, n)
  BY <1>4 DEF With, Kept
<1>8. With(new, Kept(fifo, x)) = Popped(With(fifo, x), n)
  BY <1>5, <1>6, <1>7, Zenon
<1>9. new \in Seq(Requests)
  BY <1>1, <1>3, <1>4
<1>10. With(fifo, x) \in Seq(Requests) /\ (fifo # <<>> => With(fifo, x) # <<>>)
  BY <1>3, <1>6
<1>11. x = 0 => new = Popped(fifo, n)
  BY <1>4
<1> QED
  BY <1>8, <1>9, <1>10, <1>11, Zenon DEF new

\* The FIFOs of commands and of keys; they are read together.
LEMMA CommandFifos ==
  ASSUME SplitTypes, NEW c \in BOOLEAN, NEW l \in BOOLEAN, Fifos(c, l)
  PROVE  /\ metaFifo' \in Seq(Requests) /\ keyFifo' \in Seq(Requests)
         /\ With(metaFifo, meta) \in Seq(Requests) /\ With(keyFifo, key) \in Seq(Requests)
         /\ \E n \in {0, 1} :
              /\ n = 1 => With(metaFifo, meta) # <<>> /\ With(keyFifo, key) # <<>>
              /\ With(metaFifo', MetaKept) = Popped(With(metaFifo, meta), n)
              /\ With(keyFifo', KeyKept) = Popped(With(keyFifo, key), n)
              /\ meta = 0 => metaFifo' = Popped(metaFifo, n)
              /\ key = 0 => keyFifo' = Popped(keyFifo, n)
<1>1. PICK n \in {0, 1} : c <=> n = 1
  <2>1. CASE c
    BY <2>1
  <2>2. CASE ~c
    BY <2>2
  <2> QED
    BY <2>1, <2>2
<1>2. /\ metaFifo \in Seq(Requests) /\ keyFifo \in Seq(Requests)
      /\ meta \in 0..MaxRequests /\ key \in 0..MaxRequests
  BY DEF SplitTypes, TypeOK
<1>3. n = 1 => metaFifo # <<>> /\ keyFifo # <<>>
  BY <1>1, Zenon DEF Fifos
<1>4. metaFifo' = Fed(metaFifo, meta, n) /\ MetaKept = Kept(metaFifo, meta)
  BY <1>1, Zenon DEF Fifos, Through, Popped, Fed, Kept, MetaKept
<1>5. keyFifo' = Fed(keyFifo, key, n) /\ KeyKept = Kept(keyFifo, key)
  BY <1>1, Zenon DEF Fifos, Through, Popped, Fed, Kept, KeyKept
<1>6. /\ metaFifo' \in Seq(Requests)
      /\ With(metaFifo, meta) \in Seq(Requests)
      /\ metaFifo # <<>> => With(metaFifo, meta) # <<>>
      /\ With(metaFifo', MetaKept) = Popped(With(metaFifo, meta), n)
      /\ meta = 0 => metaFifo' = Popped(metaFifo, n)
  BY <1>2, <1>3, <1>4, FifoStep
<1>7. /\ keyFifo' \in Seq(Requests)
      /\ With(keyFifo, key) \in Seq(Requests)
      /\ keyFifo # <<>> => With(keyFifo, key) # <<>>
      /\ With(keyFifo', KeyKept) = Popped(With(keyFifo, key), n)
      /\ key = 0 => keyFifo' = Popped(keyFifo, n)
  BY <1>2, <1>3, <1>5, FifoStep
<1> QED
  BY <1>3, <1>6, <1>7, Zenon

\* A line that was taken.
LEMMA ClearedLine ==
  ASSUME NEW W, NEW r \in [valid : BOOLEAN, last : BOOLEAN, words : W]
  PROVE  [r EXCEPT !.valid = FALSE, !.last = FALSE]
           = [valid |-> FALSE, last |-> FALSE, words |-> r.words]
<1> DEFINE T == [valid : BOOLEAN, last : BOOLEAN, words : W]
           a == [r EXCEPT !.valid = FALSE, !.last = FALSE]
<1>1. a \in T /\ ~a.valid /\ ~a.last /\ a.words = r.words
  OBVIOUS
<1> HIDE DEF a
<1>2. a = [valid |-> a.valid, last |-> a.last, words |-> a.words]
  BY <1>1
<1>3. a.valid = FALSE /\ a.last = FALSE
  BY <1>1
<1> QED
  BY <1>1, <1>2, <1>3 DEF a

\* The FIFO of values: the register's line is put into it when it has room, and only
\* then is the register cleared.
LEMMA LineFifo ==
  ASSUME SplitTypes, NEW c \in BOOLEAN, NEW l \in BOOLEAN, Fifos(c, l)
  PROVE  /\ lines' \in Seq(LineType) /\ valueFifo' \in Seq(LineType)
         /\ LineKept \in [valid : BOOLEAN, last : BOOLEAN, words : [Positions -> Nat \X Int]]
         /\ line' = LineKept => Out' = Out
         /\ Ready(valueFifo) => lines' = Out /\ ~LineKept.valid
         /\ ~line.valid => LineKept = line
         /\ (~line.valid => ~line.last) => (~LineKept.valid => ~LineKept.last)
<1> DEFINE x == [last |-> line.last, words |-> line.words]
           put == line.valid /\ Ready(valueFifo)
           T == [valid : BOOLEAN, last : BOOLEAN, words : [Positions -> Nat \X Int]]
<1>1. /\ line \in T /\ lines \in Seq(LineType) /\ valueFifo \in Seq(LineType)
  BY DEF SplitTypes
<1>2. x \in LineType /\ line.valid \in BOOLEAN
  BY <1>1 DEF LineType
<1>3. lines' = IF put THEN lines \o <<x>> ELSE lines \o <<>>
  BY Zenon DEF Fifos
<1>4. lines' = IF put THEN Append(lines, x) ELSE lines
  <2>1. Append(lines, x) = lines \o <<x>> /\ lines \o <<>> = lines
    <3> HIDE DEF x
    <3> QED
      BY <1>1, <1>2, AppendIsConcat, ConcatEmptySeq
  <2> QED
    BY <1>3, <2>1, Zenon
<1>5. lines' \in Seq(LineType)
  BY <1>1, <1>2, <1>4
<1>6. valueFifo' \in Seq(LineType)
  <2>1. valueFifo' = (IF l THEN Tail(valueFifo) ELSE valueFifo) \o (IF put THEN <<x>> ELSE <<>>)
    BY Zenon DEF Fifos, Through
  <2>2. l => valueFifo # <<>>
    BY Zenon DEF Fifos
  <2>3. (IF l THEN Tail(valueFifo) ELSE valueFifo) \in Seq(LineType)
    BY <1>1, <2>2
  <2>4. (IF put THEN <<x>> ELSE <<>>) \in Seq(LineType)
    BY <1>2
  <2> HIDE DEF put, x
  <2> QED
    BY <2>1, <2>3, <2>4
<1>7. LineKept = IF put THEN [valid |-> FALSE, last |-> FALSE, words |-> line.words] ELSE line
  <2>1. CASE put
    <3>1. LineKept = [line EXCEPT !.valid = FALSE, !.last = FALSE]
      BY <2>1, Zenon DEF LineKept
    <3>2. [line EXCEPT !.valid = FALSE, !.last = FALSE]
            = [valid |-> FALSE, last |-> FALSE, words |-> line.words]
      BY <1>1, ClearedLine
    <3> QED
      BY <2>1, <3>1, <3>2, Zenon
  <2>2. CASE ~put
    BY <2>2, Zenon DEF LineKept
  <2> QED
    BY <2>1, <2>2
<1>8. LineKept \in T
  BY <1>1, <1>7
<1>9. Out = IF line.valid THEN Append(lines, x) ELSE lines
  BY DEF Out
<1>10. ASSUME line' = LineKept PROVE Out' = Out
  <2>1. Out' = IF line'.valid THEN Append(lines', [last |-> line'.last, words |-> line'.words])
               ELSE lines'
    BY DEF Out
  <2>2. CASE put
    <3>1. ~line'.valid
      BY <1>7, <1>10, <2>2
    <3> QED
      BY <1>4, <1>9, <2>1, <2>2, <3>1, Zenon
  <2>3. CASE ~put
    <3>1. line' = line /\ lines' = lines
      BY <1>4, <1>7, <1>10, <2>3, Zenon
    <3> QED
      BY <1>9, <2>1, <3>1, Zenon
  <2> QED
    BY <2>2, <2>3
<1>11. ASSUME Ready(valueFifo) PROVE lines' = Out /\ ~LineKept.valid
  <2>1. lines' = Out
    BY <1>4, <1>9, <1>11, Zenon
  <2>2. ~LineKept.valid
    BY <1>7, <1>11
  <2> QED
    BY <2>1, <2>2
<1>12. ~line.valid => LineKept = line
  BY <1>7
<1>13. (~line.valid => ~line.last) => (~LineKept.valid => ~LineKept.last)
  BY <1>7
<1> QED
  BY <1>5, <1>6, <1>8, <1>10, <1>11, <1>12, <1>13, Zenon

-----------------------------------------------------------------------------
(* Types. *)

\* A step is a clock edge of the FIFOs and one of the state machine.
LEMMA CycleCases ==
  ASSUME Next
  PROVE  /\ \E c, l \in BOOLEAN : Fifos(c, l)
         /\ Idle \/ Header \/ Meta2 \/ Key \/ Value \/ DropRest \/ Wait
BY Zenon DEF Next, Cycle

\* The request that is being taken.
LEMMA CurrentRequest ==
  ASSUME SplitTypes
  PROVE  /\ sent \in Seq(Kinds) /\ Current \in 0..MaxRequests
         /\ state # "idle" => /\ Current \in 1..Len(sent) /\ Current \in Requests
                              /\ Kind \in Kinds /\ Kind.words \in Nat
                              /\ LoadLen(Kind) \in Nat /\ Words(Kind) = LoadLen(Kind) + 2
                              /\ Kind.words > 0 => LoadLen(Kind) = Kind.words + 1
<1>1. /\ sent \in Seq(Kinds) /\ Current <= MaxRequests /\ Current \in Nat /\ MaxRequests \in Nat
      /\ state # "idle" => Current >= 1
  BY ConstantTypes DEF SplitTypes, TypeOK, Current
<1>2. Current \in 0..MaxRequests /\ (state # "idle" => Current \in 1..Len(sent) /\ Current \in Requests)
  BY <1>1 DEF Requests, Current
<1>3. state # "idle" => Kind \in Kinds
  BY <1>1, <1>2 DEF Kind
<1> QED
  BY <1>1, <1>2, <1>3, ConstantTypes

\* Taking a word begins no request.
LEMMA WordTaken ==
  ASSUME SplitTypes, TakeWord
  PROVE  /\ state # "idle" /\ word \in Nat /\ word' = word + 1 /\ word < Words(Kind)
         /\ sent' = sent /\ forceThrow' = forceThrow /\ accepted' = accepted
         /\ Current' = Current /\ Kind' = Kind
         /\ ~forceThrow => OutReady
<1>1. word \in Nat
  BY DEF SplitTypes, TypeOK
<1> QED
  BY <1>1 DEF TakeWord, Current, Kind, Tready

\* The registers when the state machine sets nothing.
LEMMA RegistersType ==
  ASSUME SplitTypes
  PROVE  MetaKept \in 0..MaxRequests /\ KeyKept \in 0..MaxRequests
<1>1. meta \in 0..MaxRequests /\ key \in 0..MaxRequests /\ 0 \in 0..MaxRequests
  BY ConstantTypes DEF SplitTypes, TypeOK
<1> QED
  BY <1>1, Zenon DEF MetaKept, KeyKept

LineRecord == [valid : BOOLEAN, last : BOOLEAN, words : [Positions -> Nat \X Int]]

\* The word that is put into a line.
LEMMA ValueLine ==
  ASSUME SplitTypes, Value, LineKept \in LineRecord
  PROVE  /\ line' \in LineRecord
         /\ line'.valid <=> left = 0 \/ LineFull(pos) \/ LineKept.valid
         /\ line'.last <=> left = 0 \/ LineKept.last
         /\ \A p \in Positions :
              line'.words[p] = IF p = pos THEN <<Current, Kind.words - left>>
                               ELSE IF pos = 0 THEN NoWord ELSE line.words[p]
<1> DEFINE w == <<Current, Kind.words - left>>
           clear == IF pos = 0 THEN ClearLine.words ELSE line.words
           v == left = 0 \/ LineFull(pos) \/ LineKept.valid
           la == left = 0 \/ LineKept.last
<1>1. line' = [valid |-> v, last |-> la, words |-> [clear EXCEPT ![pos] = w]]
  BY Zenon DEF Value
<1>2. /\ pos \in Positions /\ left \in Int /\ line \in LineRecord /\ state = "value"
  BY DEF SplitTypes, TypeOK, Value, LineRecord
<1>3. w \in Nat \X Int
  <2>1. Current \in Nat /\ Kind.words - left \in Int
    BY <1>2, CurrentRequest
  <2> QED
    BY <2>1
<1>4. ClearLine.words = [p \in Positions |-> NoWord] /\ NoWord \in Nat \X Int
  BY DEF ClearLine, NoWord
<1>5. clear \in [Positions -> Nat \X Int]
  BY <1>2, <1>4 DEF LineRecord
<1>6. \A p \in Positions : clear[p] = IF pos = 0 THEN NoWord ELSE line.words[p]
  BY <1>4
<1>7. v \in BOOLEAN /\ la \in BOOLEAN
  OBVIOUS
<1> DEFINE ws == [clear EXCEPT ![pos] = w]
<1> HIDE DEF clear, v, la, w
<1>8. /\ ws \in [Positions -> Nat \X Int]
      /\ \A p \in Positions : ws[p] = IF p = pos THEN w ELSE clear[p]
  BY <1>2, <1>3, <1>5
<1> HIDE DEF ws
<1>9. line'.valid = v /\ line'.last = la /\ line'.words = ws
  BY <1>1 DEF ws
<1>10. line' \in LineRecord
  BY <1>1, <1>7, <1>8, Zenon DEF LineRecord, ws
<1>11. \A p \in Positions : line'.words[p] = IF p = pos THEN w
                             ELSE IF pos = 0 THEN NoWord ELSE line.words[p]
  BY <1>6, <1>8, <1>9, Zenon
<1> QED
  BY <1>9, <1>10, <1>11, Zenon DEF v, la, w

\* Every step keeps the types.
LEMMA TypesKept ==
  ASSUME SplitTypes, [Next]_vars
  PROVE  SplitTypes'
<1>1. CASE UNCHANGED vars
  BY <1>1 DEF SplitTypes, TypeOK, vars, registers, fifos, Current
<1>2. ASSUME Next PROVE SplitTypes'
  <2>1. PICK c \in BOOLEAN, l \in BOOLEAN : Fifos(c, l)
    BY <1>2, CycleCases
  <2>2. /\ metaFifo' \in Seq(Requests) /\ keyFifo' \in Seq(Requests)
        /\ lines' \in Seq(LineType) /\ valueFifo' \in Seq(LineType)
        /\ LineKept \in LineRecord
    BY <2>1, CommandFifos, LineFifo DEF LineRecord
  <2>3. /\ state \in States /\ sent \in Seq(Kinds) /\ Current \in 0..MaxRequests
        /\ word \in Nat /\ left \in Int /\ pos \in Positions /\ forceThrow \in BOOLEAN
        /\ accepted \in Seq(Requests) /\ (state # "idle" => Current >= 1)
        /\ MaxRequests \in Nat
    BY CurrentRequest, ConstantTypes DEF SplitTypes, TypeOK
  <2>4. MetaKept \in 0..MaxRequests /\ KeyKept \in 0..MaxRequests
    BY RegistersType
  <2> DEFINE Machine == /\ state' \in States /\ sent' \in Seq(Kinds) /\ Current' <= MaxRequests
                        /\ word' \in Nat /\ left' \in Int /\ pos' \in Positions
                        /\ forceThrow' \in BOOLEAN /\ accepted' \in Seq(Requests)
                        /\ state' # "idle" => Current' >= 1
             Output == meta' \in 0..MaxRequests /\ key' \in 0..MaxRequests /\ line' \in LineRecord
  <2>5. SUFFICES Machine /\ Output
    BY <2>2 DEF SplitTypes, TypeOK, LineRecord
  <2>6. RegistersKept => Output
    BY <2>2, <2>4 DEF RegistersKept
  <2>7. ASSUME TakeWord, state' \in States, left' \in Int, pos' \in Positions PROVE Machine
    <3>1. /\ state # "idle" /\ word' = word + 1 /\ sent' = sent /\ forceThrow' = forceThrow
          /\ accepted' = accepted /\ Current' = Current
      BY <2>7, WordTaken
    <3> QED
      BY <2>3, <2>7, <3>1
  <2>8. CASE Idle
    <3>1. Current < MaxRequests /\ Current \in Nat /\ Current = Len(sent) /\ MaxRequests \in Nat
      BY <2>3, <2>8, ConstantTypes DEF Idle, Current
    <3>2. PICK k \in Kinds :
            /\ sent' = Append(sent, k)
            /\ \/ state' = "meta" /\ accepted' = Append(accepted, Current + 1)
                  /\ UNCHANGED <<forceThrow, left>>
               \/ state' = "dropFirst" /\ forceThrow' = TRUE /\ left' = ThrowLength(k)
                  /\ UNCHANGED accepted
      BY <2>8, Zenon DEF Idle
    <3>3. sent' \in Seq(Kinds) /\ Len(sent') = Current + 1
      BY <2>3, <3>1, <3>2
    <3>4. Current' = Current + 1
      BY <3>3 DEF Current
    <3>5. ThrowLength(k) \in Int
      BY ConstantTypes DEF ThrowLength
    <3>6. Current + 1 \in Requests
      BY <3>1 DEF Requests
    <3>7. accepted' \in Seq(Requests)
      BY <2>3, <3>2, <3>6
    <3>8. word' = 0 /\ pos' = pos /\ RegistersKept
      BY <2>8 DEF Idle
    <3>9. state' \in States /\ left' \in Int /\ forceThrow' \in BOOLEAN
      BY <2>3, <3>2, <3>5 DEF States
    <3> QED
      BY <2>3, <2>6, <3>1, <3>3, <3>4, <3>7, <3>8, <3>9
  <2>9. CASE Header
    <3>1. TakeWord /\ state' \in States /\ RegistersKept /\ left' = left /\ pos' = pos
      BY <2>9 DEF Header, States
    <3>2. Output
      BY <2>6, <3>1
    <3>3. left' \in Int /\ pos' \in Positions
      BY <2>3, <3>1
    <3> QED
      BY <2>7, <3>1, <3>2, <3>3
  <2>10. CASE Meta2
    <3>1. /\ TakeWord /\ state' \in States /\ line' = LineKept /\ left' = left /\ pos' = pos
          /\ meta' = Current /\ (key' = Current \/ key' = KeyKept)
      BY <2>10 DEF Meta2, States
    <3>2. Output
      BY <2>2, <2>3, <2>4, <3>1, CurrentRequest
    <3>3. left' \in Int /\ pos' \in Positions
      BY <2>3, <3>1
    <3> QED
      BY <2>7, <3>1, <3>2, <3>3
  <2>11. CASE Key
    <3>1. /\ TakeWord /\ line' = LineKept /\ meta' = MetaKept /\ key' = Current
          /\ \/ state' = "value" /\ left' = Kind.words - 1 /\ pos' = 0
             \/ state' = "idle" /\ left' = left /\ pos' = pos
      BY <2>11 DEF Key
    <3>2. state # "idle" /\ Kind.words - 1 \in Int /\ 0 \in Positions
      BY <3>1, WordTaken, CurrentRequest, ConstantTypes DEF Positions
    <3>3. state' \in States
      BY <3>1 DEF States
    <3>4. Output
      BY <2>2, <2>3, <2>4, <3>1
    <3>5. left' \in Int /\ pos' \in Positions
      BY <2>3, <3>1, <3>2, <3>3
    <3> QED
      BY <2>7, <3>1, <3>3, <3>4, <3>5
  <2>12. CASE Value
    <3>1. /\ TakeWord /\ state' \in States /\ meta' = MetaKept /\ key' = KeyKept
          /\ left' = left - 1 /\ pos' = IF LineFull(pos) THEN 0 ELSE pos + 1
      BY <2>12 DEF Value, States
    <3>2. pos' \in Positions
      BY <2>3, <3>1, ConstantTypes DEF Positions, LineFull
    <3>3. line' \in LineRecord
      BY <2>2, <2>12, ValueLine
    <3>4. Output
      BY <2>4, <3>1, <3>3
    <3>5. left' \in Int /\ pos' \in Positions
      BY <2>3, <3>1, <3>2
    <3> QED
      BY <2>7, <3>1, <3>4, <3>5
  <2>13. CASE DropRest
    <3>1. TakeWord /\ state' \in States /\ RegistersKept /\ left' = left - 1 /\ pos' = pos
      BY <2>13 DEF DropRest, States
    <3>2. Output
      BY <2>6, <3>1
    <3>3. left' \in Int /\ pos' \in Positions
      BY <2>3, <3>1
    <3> QED
      BY <2>7, <3>1, <3>2, <3>3
  <2>14. CASE Wait
    <3>1. /\ state' = state /\ sent' = sent /\ word' = word /\ left' = left /\ pos' = pos
          /\ forceThrow' = forceThrow /\ accepted' = accepted /\ RegistersKept
      BY <2>14 DEF Wait
    <3>2. Output
      BY <2>6, <3>1
    <3>3. Current' = Current
      BY <3>1 DEF Current
    <3>4. Machine
      BY <2>3, <3>1, <3>3
    <3> QED
      BY <3>2, <3>4
  <2> QED
    BY <1>2, <2>8, <2>9, <2>10, <2>11, <2>12, <2>13, <2>14, CycleCases
<1> QED
  BY <1>1, <1>2

-----------------------------------------------------------------------------
(* The place in the stream. *)

\* The lengths of a request.
LEMMA Lengths ==
  ASSUME NEW k \in Kinds
  PROVE  /\ k.words \in Nat /\ LoadLen(k) \in Nat /\ Words(k) = LoadLen(k) + 2
         /\ k.words > 0 => LoadLen(k) = k.words + 1
         /\ k.words = 0 /\ LoadLen(k) # 0 => LoadLen(k) = 1
  BY ConstantTypes DEF LoadLen

\* Every step keeps the count.
LEMMA PlaceKept ==
  ASSUME SplitTypes, PlaceInv, [Next]_vars
  PROVE  PlaceInv'
<1>1. CASE UNCHANGED vars
  <2>1. state' = state /\ word' = word /\ left' = left /\ sent' = sent
    BY <1>1 DEF vars
  <2> QED
    BY <2>1, Zenon DEF PlaceInv, Kind, Current
<1>2. ASSUME Next PROVE PlaceInv'
  <2>1. left \in Int /\ word \in Nat
    BY DEF SplitTypes, TypeOK
  <2>2. CASE Idle
    <3>1. PICK k \in Kinds :
            /\ sent' = Append(sent, k)
            /\ \/ state' = "meta"
               \/ state' = "dropFirst" /\ left' = LoadLen(k)
      BY <2>2, Zenon DEF Idle, ThrowLength
    <3>2. Kind' = k
      <4>1. Len(sent') = Len(sent) + 1 /\ sent'[Len(sent) + 1] = k
        BY <3>1, CurrentRequest
      <4> QED
        BY <4>1, Zenon DEF Kind, Current
    <3>3. word' = 0
      BY <2>2 DEF Idle
    <3> QED
      BY <3>1, <3>2, <3>3 DEF PlaceInv
  <2>3. CASE TakeWord
    <3>1. /\ state # "idle" /\ word' = word + 1 /\ sent' = sent /\ Kind' = Kind
      BY <2>3, WordTaken
    <3>2. PICK k \in Kinds : Kind = k
      BY <3>1, CurrentRequest
    <3>3. Kind' = k
      BY <3>1, <3>2
    <3>4. /\ k.words \in Nat /\ LoadLen(k) \in Nat /\ Words(k) = LoadLen(k) + 2
          /\ k.words > 0 => LoadLen(k) = k.words + 1
          /\ k.words = 0 /\ LoadLen(k) # 0 => LoadLen(k) = 1
      BY Lengths
    <3>5. /\ state \in {"meta", "dropFirst"} => word = 0
          /\ state = "meta2" => word = 1
          /\ state = "key" => word = 2 /\ LoadLen(k) > 0
          /\ state = "dropFirst" => left = LoadLen(k)
          /\ state \in {"value", "dropRest"} => left \in Nat /\ word + left + 1 = Words(k)
      BY <3>2 DEF PlaceInv
    <3>6. SUFFICES /\ state' \in {"meta", "dropFirst"} => word' = 0
                   /\ state' = "meta2" => word' = 1
                   /\ state' = "key" => word' = 2 /\ LoadLen(k) > 0
                   /\ state' = "dropFirst" => left' = LoadLen(k)
                   /\ state' \in {"value", "dropRest"} =>
                        left' \in Nat /\ word' + left' + 1 = Words(k)
                   /\ state' = "idle" => word' = Words(k)
      BY <3>3 DEF PlaceInv
    <3>7. CASE Header
      <4>1. /\ \/ state = "meta" /\ state' = "meta2"
               \/ state = "dropFirst" /\ state' = "dropRest"
            /\ left' = left
        BY <3>7 DEF Header
      <4> QED
        BY <3>1, <3>4, <3>5, <4>1
    <3>8. CASE Meta2
      <4>1. /\ state = "meta2" /\ left' = left
            /\ state' = IF LoadLen(k) = 0 THEN "idle" ELSE "key"
        BY <3>2, <3>8 DEF Meta2
      <4> QED
        BY <3>1, <3>4, <3>5, <4>1
    <3>9. CASE Key
      <4>1. /\ state = "key"
            /\ IF k.words > 0 THEN state' = "value" /\ left' = k.words - 1
                              ELSE state' = "idle"
        BY <3>2, <3>9, Zenon DEF Key
      <4> QED
        BY <3>1, <3>4, <3>5, <4>1
    <3>10. CASE Value
      <4>1. state = "value" /\ left' = left - 1 /\ state' = IF left = 0 THEN "idle" ELSE "value"
        BY <3>10 DEF Value
      <4> QED
        BY <2>1, <3>1, <3>4, <3>5, <4>1
    <3>11. CASE DropRest
      <4>1. /\ state = "dropRest" /\ left' = left - 1
            /\ state' = IF left = 0 THEN "idle" ELSE "dropRest"
        BY <3>11 DEF DropRest
      <4> QED
        BY <2>1, <3>1, <3>4, <3>5, <4>1
    <3>12. CASE Wait
      <4>1. word' = word
        BY <3>12 DEF Wait
      <4> QED
        BY <2>1, <3>1, <4>1
    <3>13. CASE Idle
      BY <3>1, <3>13 DEF Idle
    <3> QED
      BY <1>2, <3>7, <3>8, <3>9, <3>10, <3>11, <3>12, <3>13, CycleCases
  <2>4. CASE Wait
    <3>1. state' = state /\ word' = word /\ left' = left /\ sent' = sent
      BY <2>4 DEF Wait
    <3> QED
      BY <3>1, Zenon DEF PlaceInv, Kind, Current
  <2>5. Idle \/ TakeWord \/ Wait
    BY <1>2, CycleCases, Zenon DEF Header, Meta2, Key, Value, DropRest
  <2> QED
    BY <2>2, <2>3, <2>4, <2>5
<1> QED
  BY <1>1, <1>2

-----------------------------------------------------------------------------
(* Commands and keys. *)

\* A register that is set while it is empty goes to the end.
LEMMA Behind ==
  ASSUME NEW fifo, NEW x \in Requests
  PROVE  With(fifo, x) = Append(fifo, x) /\ With(fifo, 0) = fifo
BY DEF With, Requests

\* Every step keeps them in step.
LEMMA PairKept ==
  ASSUME SplitTypes, PairInv, [Next]_vars
  PROVE  PairInv'
<1> DEFINE M == With(metaFifo, meta)
           K == With(keyFifo, key)
           Ahead == IF state = "key" THEN 1 ELSE 0
<1>1. CASE UNCHANGED vars
  <2>1. /\ state' = state /\ sent' = sent /\ meta' = meta /\ key' = key
        /\ metaFifo' = metaFifo /\ keyFifo' = keyFifo
    BY <1>1 DEF vars, registers, fifos
  <2> QED
    BY <2>1, Zenon DEF PairInv, With, Current
<1>2. ASSUME Next PROVE PairInv'
  <2>1. PICK c \in BOOLEAN, l \in BOOLEAN : Fifos(c, l)
    BY <1>2, CycleCases
  <2>2. PICK m : m = M
    OBVIOUS
  <2>3. PICK k : k = K
    OBVIOUS
  <2>4. /\ m \in Seq(Requests) /\ k \in Seq(Requests) /\ Ahead \in {0, 1}
        /\ InStep(m, k, Ahead)
        /\ Ahead = 1 => m[Len(m)] = Current
        /\ state \in {"meta", "meta2"} => meta = 0
        /\ state \in {"meta", "meta2", "key"} => key = 0
    <3>1. m \in Seq(Requests) /\ k \in Seq(Requests)
      BY <2>1, <2>2, <2>3, CommandFifos
    <3> QED
      BY <2>2, <2>3, <3>1 DEF PairInv, InStep
  <2>5. PICK n \in {0, 1} :
          /\ n = 1 => m # <<>> /\ k # <<>>
          /\ With(metaFifo', MetaKept) = Popped(m, n)
          /\ With(keyFifo', KeyKept) = Popped(k, n)
          /\ meta = 0 => metaFifo' = Popped(m, n)
          /\ key = 0 => keyFifo' = Popped(k, n)
    <3>1. /\ meta = 0 => M = metaFifo
          /\ key = 0 => K = keyFifo
      BY DEF With
    <3> QED
      BY <2>1, <2>2, <2>3, <3>1, CommandFifos
  <2> DEFINE p == Popped(m, n)
             r == Popped(k, n)
  <2>6. /\ p \in Seq(Requests) /\ r \in Seq(Requests) /\ InStep(p, r, Ahead)
        /\ Ahead = 1 => p[Len(p)] = Current
    BY <2>4, <2>5, StepPopped
  <2> HIDE DEF p, r, M, K
  <2>7. PICK m2 : m2 = With(metaFifo, meta)'
    OBVIOUS
  <2>8. PICK k2 : k2 = With(keyFifo, key)'
    OBVIOUS
  <2>9. /\ m2 = With(metaFifo', meta') /\ k2 = With(keyFifo', key')
    BY <2>7, <2>8 DEF With
  <2>10. SUFFICES /\ InStep(m2, k2, IF state' = "key" THEN 1 ELSE 0)
                  /\ state' = "key" => m2[Len(m2)] = Current'
                  /\ state' \in {"meta", "meta2"} => meta' = 0
                  /\ state' \in {"meta", "meta2", "key"} => key' = 0
    BY <2>7, <2>8 DEF PairInv, InStep
  <2>11. ASSUME RegistersKept PROVE m2 = p /\ k2 = r
    BY <2>5, <2>9, <2>11 DEF RegistersKept, p, r
  <2>12. CASE Idle
    <3>1. /\ state = "idle" /\ RegistersKept
          /\ state' = "meta" \/ state' = "dropFirst"
      BY <2>12, Zenon DEF Idle
    <3>2. state' = "meta" => Ready(metaFifo) /\ Ready(keyFifo)
      BY <2>12, Zenon DEF Idle, ReadyForNew, OutReady
    <3>3. state' = "meta" => meta' = 0 /\ key' = 0
      BY <2>12, <3>2 DEF Idle, RegistersKept, MetaKept, KeyKept
    <3> QED
      BY <2>6, <2>11, <2>12, <3>1, <3>3 DEF Idle
  <2>13. CASE Header
    <3>1. /\ RegistersKept
          /\ \/ state = "meta" /\ state' = "meta2"
             \/ state = "dropFirst" /\ state' = "dropRest"
      BY <2>13 DEF Header
    <3>2. state = "meta" => MetaKept = 0 /\ KeyKept = 0
      BY <2>4 DEF MetaKept, KeyKept
    <3> QED
      BY <2>6, <2>11, <3>1, <3>2 DEF RegistersKept
  <2>14. CASE Meta2
    <3>1. /\ state = "meta2" /\ meta = 0 /\ key = 0 /\ KeyKept = 0
      BY <2>4, <2>14 DEF Meta2, KeyKept
    <3>2. Current \in Requests /\ Current' = Current
      BY <2>14, WordTaken, CurrentRequest DEF Meta2
    <3>3. m2 = Append(p, Current)
      BY <2>5, <2>9, <2>14, <3>1, <3>2, Behind DEF Meta2, p
    <3>4. InStep(p, r, 0)
      BY <2>6, <3>1
    <3>5. CASE LoadLen(Kind) = 0
      <4>1. state' = "idle" /\ key' = Current
        BY <2>14, <3>5, Zenon DEF Meta2, EmptyKey
      <4>2. k2 = Append(r, Current)
        BY <2>5, <2>9, <3>1, <3>2, <4>1, Behind DEF r
      <4> QED
        BY <2>6, <3>2, <3>3, <3>4, <4>1, <4>2, StepAdded
    <3>6. CASE LoadLen(Kind) # 0
      <4>1. state' = "key" /\ key' = 0
        BY <2>14, <3>1, <3>6, Zenon DEF Meta2, EmptyKey
      <4>2. k2 = r
        BY <2>5, <2>9, <3>1, <4>1 DEF r
      <4> QED
        BY <2>6, <3>2, <3>3, <3>4, <4>1, <4>2, StepAdded
    <3> QED
      BY <3>5, <3>6
  <2>15. CASE Key
    <3>1. /\ state = "key" /\ key = 0 /\ key' = Current /\ meta' = MetaKept
          /\ state' = "value" \/ state' = "idle"
      BY <2>4, <2>15 DEF Key
    <3>2. Current \in Requests
      BY <3>1, CurrentRequest
    <3>3. m2 = p /\ k2 = Append(r, Current)
      BY <2>5, <2>9, <3>1, <3>2, Behind DEF p, r
    <3>4. InStep(p, r, 1) /\ p[Len(p)] = Current
      BY <2>6, <3>1
    <3> QED
      BY <2>6, <3>1, <3>2, <3>3, <3>4, StepAdded
  <2>16. CASE Value
    <3>1. /\ state = "value" /\ key' = KeyKept /\ meta' = MetaKept
          /\ state' = "value" \/ state' = "idle"
      BY <2>16 DEF Value
    <3> QED
      BY <2>5, <2>6, <2>9, <3>1 DEF p, r
  <2>17. CASE DropRest
    <3>1. /\ state = "dropRest" /\ RegistersKept
          /\ state' = "dropRest" \/ state' = "idle"
      BY <2>17 DEF DropRest
    <3> QED
      BY <2>6, <2>11, <3>1
  <2>18. CASE Wait
    <3>1. state' = state /\ sent' = sent /\ RegistersKept
      BY <2>18 DEF Wait
    <3>2. /\ meta = 0 => MetaKept = 0
          /\ key = 0 => KeyKept = 0
      BY DEF MetaKept, KeyKept
    <3>3. Current' = Current
      BY <3>1 DEF Current
    <3> QED
      BY <2>4, <2>6, <2>11, <3>1, <3>2, <3>3 DEF RegistersKept
  <2> QED
    BY <1>2, <2>12, <2>13, <2>14, <2>15, <2>16, <2>17, <2>18, CycleCases
<1> QED
  BY <1>1, <1>2

-----------------------------------------------------------------------------
(* Values. *)

\* A value without words has no lines.
LEMMA NoLines ==
  ASSUME sent \in Seq(Kinds), NEW c \in 1..Len(sent), sent[c].words = 0
  PROVE  Done(c) = Done(c - 1)
<1>1. Count(0) = 0
  <2>1. LineWords \in Nat /\ LineWords >= 1
    BY ConstantTypes
  <2> DEFINE x == (LineWords - 1) \div LineWords
             y == (LineWords - 1) % LineWords
  <2>2. /\ x \in Int /\ y \in 0..(LineWords - 1)
        /\ LineWords - 1 = LineWords * x + y
    BY <2>1
  <2> HIDE DEF x, y
  <2>3. x * LineWords = LineWords * x /\ LineWords * x \in Int
    BY <2>1, <2>2
  <2>4. ~(0 < x)
    <3>1. SUFFICES ASSUME 0 < x PROVE FALSE
      OBVIOUS
    <3>2. 0 * LineWords + LineWords <= x * LineWords
      BY <2>1, <2>2, <3>1, Multiples
    <3> QED
      BY <2>1, <2>2, <2>3, <3>2
  <2>5. ~(x < 0)
    <3>1. SUFFICES ASSUME x < 0 PROVE FALSE
      OBVIOUS
    <3>2. x * LineWords + LineWords <= 0 * LineWords
      BY <2>1, <2>2, <3>1, Multiples
    <3> QED
      BY <2>1, <2>2, <2>3, <3>2
  <2>6. x = 0
    BY <2>2, <2>4, <2>5
  <2>7. 0 + LineWords - 1 = LineWords - 1
    BY <2>1
  <2> QED
    BY <2>6, <2>7 DEF Count, x
<1>2. Lines(c) \in Seq(LineType) /\ Len(Lines(c)) = 0
  BY <1>1, LinesType
<1>3. Lines(c) = <<>>
  BY <1>2
<1>4. c - 1 \in 0..(Len(sent) - 1) /\ (c - 1) + 1 = c
  OBVIOUS
<1>5. Done(c - 1) \in Seq(LineType) /\ Done(c) = Done(c - 1) \o Lines(c)
  BY <1>4, DoneStep
<1> QED
  BY <1>3, <1>5, ConcatEmptySeq

\* One more element of s is put behind a.
LEMMA NextElement ==
  ASSUME NEW S, NEW a \in Seq(S), NEW s \in Seq(S), NEW q \in Nat, q + 1 <= Len(s)
  PROVE  /\ s[q + 1] \in S
         /\ Append(a \o SubSeq(s, 1, q), s[q + 1]) = a \o SubSeq(s, 1, q + 1)
         /\ q + 1 = Len(s) => SubSeq(s, 1, q + 1) = s
<1> DEFINE b == SubSeq(s, 1, q)
           e == SubSeq(s, 1, q + 1)
<1>1. /\ b \in Seq(S) /\ Len(b) = q /\ e \in Seq(S) /\ Len(e) = q + 1
      /\ s[q + 1] \in S /\ Len(s) \in Nat /\ Len(a) \in Nat
  OBVIOUS
<1>2. \A i \in 1..q : b[i] = s[i]
  OBVIOUS
<1>3. \A i \in 1..(q + 1) : e[i] = s[i]
  OBVIOUS
<1> HIDE DEF b, e
<1>4. PICK x \in S : x = s[q + 1]
  BY <1>1
<1>5. Append(a \o b, x) = a \o Append(b, x)
  <2>1. a \o b \in Seq(S)
    BY <1>1, ConcatProperties
  <2>2. Append(a \o b, x) = (a \o b) \o <<x>> /\ Append(b, x) = b \o <<x>>
    BY <1>1, <2>1, AppendIsConcat
  <2>3. <<x>> \in Seq(S)
    OBVIOUS
  <2>4. PICK e1 \in Seq(S) : e1 = <<x>>
    BY <2>3
  <2>5. a \in Seq(S) /\ b \in Seq(S)
    BY <1>1
  <2>6. (a \o b) \o <<x>> = a \o (b \o <<x>>)
    <3>1. (a \o b) \o e1 = a \o (b \o e1)
      BY <2>5, ConcatAssociative
    <3> QED
      BY <2>4, <3>1, Zenon
  <2> QED
    BY <2>2, <2>6, Zenon
<1>6. Append(b, x) = e
  <2>1. /\ Append(b, x) \in Seq(S) /\ Len(Append(b, x)) = q + 1 /\ Append(b, x)[q + 1] = x
        /\ \A i \in 1..q : Append(b, x)[i] = b[i]
    BY <1>1, AppendProperties
  <2>2. \A i \in 1..(q + 1) : i \in 1..q \/ i = q + 1
    OBVIOUS
  <2>3. \A i \in 1..(q + 1) : Append(b, x)[i] = e[i]
    BY <1>2, <1>3, <1>4, <2>1, <2>2
  <2> QED
    BY <1>1, <2>1, <2>3, SeqEqual
<1>7. q + 1 = Len(s) => e = s
  BY <1>1, <1>3, SeqEqual
<1> QED
  BY <1>1, <1>4, <1>5, <1>6, <1>7 DEF b, e

\* A line that is full, or ends its value, is the next of the request's lines.
LEMMA NextLine ==
  ASSUME sent \in Seq(Kinds), NEW c \in 1..Len(sent), NEW q \in Nat, NEW p \in Positions,
         NEW ws \in [Positions -> Nat \X Int],
         q * LineWords + p < sent[c].words,
         \A x \in Positions : ws[x] = IF x <= p THEN <<c, q * LineWords + x + 1>> ELSE NoWord
  PROVE  /\ sent[c].words = q * LineWords + p + 1 =>
              Append(Done(c - 1) \o SubSeq(Lines(c), 1, q), [last |-> TRUE, words |-> ws])
                = Done(c)
         /\ p = LineWords - 1 /\ q * LineWords + p + 1 < sent[c].words =>
              Append(Done(c - 1) \o SubSeq(Lines(c), 1, q), [last |-> FALSE, words |-> ws])
                = Done(c - 1) \o SubSeq(Lines(c), 1, q + 1)
<1> DEFINE n == sent[c].words
           s == Lines(c)
           a == Done(c - 1)
<1>1. n \in Nat /\ p \in Nat /\ LineWords \in Nat /\ LineWords >= 1 /\ p < LineWords
  BY ConstantTypes DEF Positions
<1>2. /\ Count(n) \in Nat /\ q + 1 <= Count(n)
      /\ n = q * LineWords + p + 1 => Count(n) = q + 1
      /\ p = LineWords - 1 /\ q * LineWords + p + 1 < n => q + 1 < Count(n)
  BY <1>1, LineCount
<1>3. s \in Seq(LineType) /\ Len(s) = Count(n)
  BY LinesType
<1>4. q + 1 \in 1..Len(s)
  BY <1>2, <1>3
<1>5. s[q + 1] = [last |-> q + 1 = Count(n),
                  words |-> [x \in Positions |->
                    IF ((q + 1) - 1) * LineWords + x + 1 <= n
                    THEN <<c, ((q + 1) - 1) * LineWords + x + 1>> ELSE NoWord]]
  BY <1>4, LinesType
<1>6. (q + 1) - 1 = q
  OBVIOUS
<1>7. s[q + 1] = [last |-> q + 1 = Count(n),
                  words |-> [x \in Positions |-> IF q * LineWords + x + 1 <= n
                                                 THEN <<c, q * LineWords + x + 1>> ELSE NoWord]]
  BY <1>5, <1>6, Zenon
<1>8. a \in Seq(LineType) /\ Done(c) = a \o s
  <2>1. c - 1 \in 0..(Len(sent) - 1) /\ (c - 1) + 1 = c
    OBVIOUS
  <2> QED
    BY <2>1, DoneStep
<1>9. /\ Append(a \o SubSeq(s, 1, q), s[q + 1]) = a \o SubSeq(s, 1, q + 1)
      /\ q + 1 = Len(s) => SubSeq(s, 1, q + 1) = s
  <2>1. q + 1 <= Len(s)
    BY <1>4
  <2> QED
    BY <1>3, <1>8, <2>1, NextElement
<1> HIDE DEF n, s, a
<1>10. q * LineWords \in Int
  BY <1>1
<1>11. ASSUME n = q * LineWords + p + 1 \/ (p = LineWords - 1 /\ q * LineWords + p + 1 < n)
       PROVE  ws = [x \in Positions |-> IF q * LineWords + x + 1 <= n
                                        THEN <<c, q * LineWords + x + 1>> ELSE NoWord]
  <2>1. \A x \in Positions : x <= p <=> q * LineWords + x + 1 <= n
    <3>1. \A x \in Positions : x \in Int /\ x <= LineWords - 1
      BY <1>1 DEF Positions
    <3> QED
      BY <1>1, <1>10, <1>11, <3>1
  <2>2. \A x \in Positions : ws[x] = IF q * LineWords + x + 1 <= n
                                     THEN <<c, q * LineWords + x + 1>> ELSE NoWord
    BY <2>1, Zenon
  <2>3. ws = [x \in Positions |-> ws[x]]
    OBVIOUS
  <2> QED
    BY <2>2, <2>3, Zenon
<1>12. ASSUME n = q * LineWords + p + 1
       PROVE  Append(a \o SubSeq(s, 1, q), [last |-> TRUE, words |-> ws]) = Done(c)
  <2>1. q + 1 = Count(n) /\ SubSeq(s, 1, q + 1) = s
    BY <1>2, <1>3, <1>9, <1>12
  <2>2. (q + 1 = Count(n)) = TRUE
    BY <2>1
  <2>3. s[q + 1] = [last |-> TRUE, words |-> ws]
    BY <1>7, <1>11, <1>12, <2>2, Zenon
  <2> QED
    BY <1>8, <1>9, <2>1, <2>3, Zenon
<1>13. ASSUME p = LineWords - 1, q * LineWords + p + 1 < n
       PROVE  Append(a \o SubSeq(s, 1, q), [last |-> FALSE, words |-> ws])
                = a \o SubSeq(s, 1, q + 1)
  <2>1. (q + 1 = Count(n)) = FALSE
    BY <1>2, <1>13
  <2>2. s[q + 1] = [last |-> FALSE, words |-> ws]
    BY <1>7, <1>11, <1>13, <2>1, Zenon
  <2> QED
    BY <1>9, <2>2, Zenon
<1> QED
  BY <1>12, <1>13 DEF n, s, a

\* What Filled says after a step, when no request has begun with it.
FilledNext(c, q) ==
  /\ q * LineWords + pos' = sent[c].words - 1 - left'
  /\ Out' = Done(c - 1) \o SubSeq(Lines(c), 1, q)
  /\ pos' # 0 => /\ ~line'.valid
                 /\ \A p \in Positions :
                      line'.words[p] = IF p < pos' THEN <<c, q * LineWords + p + 1>> ELSE NoWord

\* A word of a value is taken: as long as nothing is thrown away, a line goes out
\* when it is full or the value ends, and never on top of one that still waits.
LEMMA ValueFilled ==
  ASSUME SplitTypes, PlaceInv, Value, OutReady, NEW l \in BOOLEAN, NEW o \in BOOLEAN, Fifos(o, l),
         NEW c \in 1..Len(sent), c = Current, ~line.valid => ~line.last,
         NEW q \in Nat, Filled(c, q)
  PROVE  /\ ~line'.valid => ~line'.last
         /\ state' = "idle" => Out' = Done(c)
         /\ state' = "value" =>
              \E r \in Nat : FilledNext(c, r)
         /\ state' \in {"idle", "value"}
<1> DEFINE n == sent[c].words
           x == q * LineWords
           old == Done(c - 1) \o SubSeq(Lines(c), 1, q)
           next == [last |-> line'.last, words |-> line'.words]
<1>1. /\ pos \in Positions /\ pos \in Nat /\ pos < LineWords /\ LineWords \in Nat /\ LineWords >= 1
      /\ state = "value"
  BY ConstantTypes DEF SplitTypes, TypeOK, Positions, Value
<1>2. left \in Nat /\ n \in Nat /\ c \in Nat /\ sent \in Seq(Kinds)
  <2>1. left \in Nat
    BY <1>1 DEF PlaceInv
  <2>2. Kind.words \in Nat /\ sent \in Seq(Kinds)
    BY <1>1, CurrentRequest
  <2> QED
    BY <2>1, <2>2 DEF Kind
<1>3. x + pos = n - 1 - left /\ Out = old
  BY DEF Filled
<1>4. x \in Int
  BY <1>1
<1>5. /\ LineKept \in LineRecord /\ lines' = Out /\ ~LineKept.valid /\ ~LineKept.last
  BY LineFifo DEF OutReady, LineRecord
<1>6. /\ line' \in LineRecord
      /\ line'.valid <=> left = 0 \/ LineFull(pos)
      /\ line'.last <=> left = 0
      /\ \A p \in Positions :
           line'.words[p] = IF p = pos THEN <<Current, Kind.words - left>>
                            ELSE IF pos = 0 THEN NoWord ELSE line.words[p]
  BY <1>5, ValueLine
<1>7. <<Current, Kind.words - left>> = <<c, x + pos + 1>>
  <2>1. Kind.words = n
    BY Zenon DEF Kind
  <2> HIDE DEF x, n
  <2>2. Kind.words - left = x + pos + 1
    BY <1>1, <1>2, <1>3, <1>4, <2>1
  <2> QED
    BY <2>2
<1>8. \A p \in Positions : line'.words[p] = IF p <= pos THEN <<c, x + p + 1>> ELSE NoWord
  <2> SUFFICES ASSUME NEW p \in Positions
               PROVE  line'.words[p] = IF p <= pos THEN <<c, x + p + 1>> ELSE NoWord
    OBVIOUS
  <2>1. p \in Nat
    BY <1>1 DEF Positions
  <2>2. CASE p = pos
    BY <1>1, <1>6, <1>7, <2>2
  <2>3. CASE p # pos /\ pos = 0
    <3>1. ~(p <= pos)
      BY <2>1, <2>3
    <3>2. line'.words[p] = NoWord
      BY <1>6, <2>3, Zenon
    <3> QED
      BY <3>1, <3>2
  <2>4. CASE p # pos /\ pos # 0
    <3>1. line'.words[p] = IF p < pos THEN <<c, x + p + 1>> ELSE NoWord
      BY <1>6, <2>4, Zenon DEF Filled
    <3>2. p < pos <=> p <= pos
      BY <1>1, <2>1, <2>4
    <3> QED
      BY <3>1, <3>2, Zenon
  <2> QED
    BY <2>2, <2>3, <2>4
<1>9. line'.words \in [Positions -> Nat \X Int]
  BY <1>6 DEF LineRecord
<1>10. Out' = IF line'.valid THEN Append(old, next) ELSE old
  BY <1>3, <1>5, Zenon DEF Out
<1>11. /\ state' = IF left = 0 THEN "idle" ELSE "value"
       /\ left' = left - 1
       /\ pos' = IF LineFull(pos) THEN 0 ELSE pos + 1
  BY DEF Value
<1>12. x + pos < n
  BY <1>1, <1>2, <1>3, <1>4
<1>13. /\ n = x + pos + 1 => Append(old, [last |-> TRUE, words |-> line'.words]) = Done(c)
       /\ pos = LineWords - 1 /\ x + pos + 1 < n =>
            Append(old, [last |-> FALSE, words |-> line'.words])
              = Done(c - 1) \o SubSeq(Lines(c), 1, q + 1)
  BY <1>1, <1>2, <1>8, <1>9, <1>12, NextLine
<1>14. ~line'.valid => ~line'.last
  BY <1>6
<1>15. CASE left = 0
  <2>1. n = x + pos + 1
    BY <1>1, <1>2, <1>3, <1>4, <1>15
  <2>2. line'.valid /\ line'.last = TRUE
    BY <1>6, <1>15 DEF LineRecord
  <2>3. next = [last |-> TRUE, words |-> line'.words]
    BY <2>2, Zenon
  <2>4. Out' = Done(c)
    BY <1>10, <1>13, <2>1, <2>2, <2>3, Zenon
  <2> QED
    BY <1>11, <1>14, <1>15, <2>4
<1>16. CASE left # 0
  <2>1. x + pos + 1 < n /\ state' = "value" /\ left' = left - 1 /\ line'.last = FALSE
    BY <1>1, <1>2, <1>3, <1>4, <1>6, <1>11, <1>16 DEF LineRecord
  <2>2. CASE LineFull(pos)
    <3>1. pos = LineWords - 1 /\ pos' = 0 /\ line'.valid
      BY <1>6, <1>11, <2>2 DEF LineFull
    <3>2. next = [last |-> FALSE, words |-> line'.words]
      BY <2>1, Zenon
    <3>3. Out' = Done(c - 1) \o SubSeq(Lines(c), 1, q + 1)
      BY <1>10, <1>13, <2>1, <3>1, <3>2, Zenon
    <3>4. (q + 1) * LineWords + pos' = n - 1 - left'
      <4>1. (q + 1) * LineWords = x + LineWords
        BY <1>1
      <4>2. PICK y : y = (q + 1) * LineWords
        OBVIOUS
      <4> HIDE DEF x, n
      <4>3. y + pos' = n - 1 - left'
        BY <1>1, <1>2, <1>3, <1>4, <2>1, <3>1, <4>1, <4>2
      <4> QED
        BY <4>2, <4>3, Zenon
    <3>5. FilledNext(c, q + 1)
      BY <3>1, <3>3, <3>4, Zenon DEF FilledNext
    <3>6. q + 1 \in Nat
      OBVIOUS
    <3> QED
      BY <1>14, <2>1, <3>5, <3>6, Zenon
  <2>3. CASE ~LineFull(pos)
    <3>1. pos' = pos + 1 /\ ~line'.valid
      BY <1>6, <1>11, <1>16, <2>3
    <3>2. Out' = Done(c - 1) \o SubSeq(Lines(c), 1, q)
      BY <1>10, <3>1, Zenon
    <3>3. q * LineWords + pos' = n - 1 - left'
      BY <1>1, <1>2, <1>3, <1>4, <2>1, <3>1
    <3>4. \A p \in Positions :
            line'.words[p] = IF p < pos' THEN <<c, q * LineWords + p + 1>> ELSE NoWord
      <4>1. \A p \in Positions : p < pos' <=> p <= pos
        BY <1>1, <3>1 DEF Positions
      <4> QED
        BY <1>8, <4>1, Zenon
    <3>5. FilledNext(c, q)
      BY <3>1, <3>2, <3>3, <3>4, Zenon DEF FilledNext
    <3> QED
      BY <1>14, <2>1, <3>5, Zenon
  <2> QED
    BY <2>2, <2>3
<1> QED
  BY <1>15, <1>16

\* Every step that throws nothing away keeps what has left the splitter.
LEMMA IntactKept ==
  ASSUME SplitTypes, PlaceInv, IntactInv, SplitTypes', [Next]_vars
  PROVE  IntactInv'
<1>1. SUFFICES ASSUME ~forceThrow' PROVE ValueInv'
  BY DEF IntactInv
<1>2. CASE UNCHANGED vars
  <2>1. /\ state' = state /\ sent' = sent /\ left' = left /\ pos' = pos /\ line' = line
        /\ lines' = lines /\ accepted' = accepted /\ forceThrow' = forceThrow
    BY <1>2 DEF vars, registers, fifos
  <2>2. ValueInv
    BY <1>1, <2>1 DEF IntactInv
  <2>3. PICK c \in Nat : c = Current /\ ValueOf(c)
    BY <2>2, Zenon DEF ValueInv
  <2>4. /\ Out' = Out /\ Lines(c)' = Lines(c) /\ Current' = Current
    BY <2>1, Zenon DEF Out, Lines, Current
  <2>5. \A m : Done(m)' = Done(m)
    BY <2>1, LinesKept
  <2>6. \A q \in Nat : Filled(c, q)' <=> Filled(c, q)
    BY <2>1, <2>4, <2>5, Zenon DEF Filled
  <2>7. ValueOf(c)'
    BY <2>1, <2>3, <2>4, <2>5, <2>6, Zenon DEF ValueOf
  <2> QED
    BY <2>3, <2>4, <2>7, Zenon DEF ValueInv
<1>3. ASSUME Next PROVE ValueInv'
  <2>1. PICK o \in BOOLEAN, l \in BOOLEAN : Fifos(o, l)
    BY <1>3, CycleCases
  <2>2. ~forceThrow
    <3>1. forceThrow' = forceThrow \/ forceThrow' = TRUE
      BY <1>3, CycleCases, Zenon
         DEF Idle, Header, Meta2, Key, Value, DropRest, Wait, TakeWord
    <3> QED
      BY <1>1, <3>1
  <2>3. PICK c \in Nat : c = Current /\ ValueOf(c)
    BY <2>2, Zenon DEF IntactInv, ValueInv
  <2>4. /\ accepted = [i \in 1..c |-> i]
        /\ state \notin {"dropFirst", "dropRest"}
        /\ ~line.valid => ~line.last
        /\ state = "idle" => Out = Done(c)
        /\ state \in {"meta", "meta2", "key"} => Out = Done(c - 1)
    BY <2>3 DEF ValueOf
  <2>5. state = "value" => \E q \in Nat : Filled(c, q)
    BY <2>3, Zenon DEF ValueOf
  <2>6. /\ sent \in Seq(Kinds) /\ c = Len(sent) /\ Current \in 0..MaxRequests
        /\ state # "idle" => c \in 1..Len(sent) /\ sent[c] \in Kinds /\ Kind = sent[c]
    BY <2>3, CurrentRequest DEF Current, Kind
  <2>7. line' = LineKept => Out' = Out /\ (~line'.valid => ~line'.last)
    BY <2>1, <2>4, LineFifo
  \* The request goes on, or ends.
  <2>8. ASSUME sent' = sent, accepted' = accepted,
               state' \notin {"dropFirst", "dropRest"},
               ~line'.valid => ~line'.last,
               state' = "idle" => Out' = Done(c),
               state' \in {"meta", "meta2", "key"} => Out' = Done(c - 1),
               state' = "value" => \E q \in Nat : FilledNext(c, q)
        PROVE  ValueInv'
    <3>1. Current' = c
      BY <2>3, <2>8 DEF Current
    <3>2. \A i \in 1..c : sent'[i] = sent[i]
      BY <2>8
    <3>3. Done(c)' = Done(c) /\ \A i \in 1..c : Lines(i)' = Lines(i)
      BY <3>2, LinesKept
    <3>4. Done(c - 1)' = Done(c - 1)
      <4>1. PICK m : m = c - 1
        OBVIOUS
      <4>2. \A i \in 1..m : sent'[i] = sent[i]
        BY <2>8
      <4>3. Done(m)' = Done(m)
        BY <4>2, LinesKept
      <4> QED
        BY <4>1, <4>3, Zenon
    <3>5. state' = "value" => Lines(c)' = Lines(c)
      <4>1. c = 0 \/ c \in 1..c
        BY <2>3
      <4>2. CASE c = 0
        BY <2>8, Zenon DEF Lines
      <4>3. CASE c \in 1..c
        BY <3>3, <4>3
      <4> QED
        BY <4>1, <4>2, <4>3
    <3>6. state' = "value" => \E q \in Nat : Filled(c, q)'
      BY <2>8, <3>4, <3>5, Zenon DEF Filled, FilledNext
    <3>7. ValueOf(c)'
      BY <2>4, <2>8, <3>3, <3>4, <3>6, Zenon DEF ValueOf
    <3> QED
      BY <2>3, <3>1, <3>7, Zenon DEF ValueInv
  <2>9. TakeWord => /\ sent' = sent /\ accepted' = accepted /\ OutReady /\ state # "idle"
    BY <2>2, WordTaken
  <2>10. CASE Idle
    <3>1. PICK k \in Kinds : sent' = Append(sent, k)
      BY <2>10, Zenon DEF Idle
    <3>2. /\ state = "idle" /\ line' = LineKept
          /\ state' = "meta" /\ accepted' = Append(accepted, Current + 1)
      BY <1>1, <2>10, Zenon DEF Idle, RegistersKept
    <3>3. PICK d \in Nat : d = c + 1
      BY <2>3
    <3>4. Current' = d /\ d - 1 = c
      <4>1. Len(sent') = Len(sent) + 1
        BY <2>6, <3>1
      <4> QED
        BY <2>6, <3>3, <4>1 DEF Current
    <3>5. \A i \in 1..c : sent'[i] = sent[i]
      BY <2>6, <3>1
    <3>6. Done(c)' = Done(c)
      BY <3>5, LinesKept
    <3>7. accepted' = [i \in 1..d |-> i]
      <4>1. accepted \in Seq(Nat) /\ Len(accepted) = c
        BY <2>3, <2>4
      <4>2. accepted' = Append(accepted, d) /\ d \in Nat
        BY <2>3, <3>2, <3>3
      <4>3. /\ accepted' \in Seq(Nat) /\ Len(accepted') = d /\ accepted'[d] = d
            /\ \A i \in 1..c : accepted'[i] = accepted[i]
        BY <3>3, <4>1, <4>2, AppendProperties
      <4> DEFINE t == [i \in 1..d |-> i]
      <4>4. t \in Seq(Nat) /\ Len(t) = d
        OBVIOUS
      <4>5. \A i \in 1..d : accepted'[i] = t[i]
        <5>1. \A i \in 1..d : i \in 1..c \/ i = d
          BY <2>3, <3>3
        <5> QED
          BY <2>4, <4>3, <5>1
      <4> HIDE DEF t
      <4>6. accepted' = t
        BY <4>3, <4>4, <4>5, SeqEqual
      <4> QED
        BY <4>6 DEF t
    <3>8. Out' = Done(c) /\ (~line'.valid => ~line'.last)
      BY <2>4, <2>7, <3>2
    <3>9. Done(d - 1)' = Done(c)
      <4>1. d - 1 = c
        BY <3>4
      <4> QED
        BY <3>6, <4>1, Zenon
    <3>10. ValueOf(d)'
      BY <3>2, <3>7, <3>8, <3>9, Zenon DEF ValueOf
    <3> QED
      BY <3>4, <3>10, Zenon DEF ValueInv
  <2>11. CASE Header
    <3>1. /\ TakeWord /\ state = "meta" /\ state' = "meta2" /\ line' = LineKept
      BY <2>4, <2>11 DEF Header, RegistersKept
    <3> QED
      BY <2>4, <2>7, <2>8, <2>9, <3>1
  <2>12. CASE Meta2
    <3>1. /\ TakeWord /\ state = "meta2" /\ line' = LineKept
          /\ state' = IF LoadLen(Kind) = 0 THEN "idle" ELSE "key"
      BY <2>12 DEF Meta2
    <3>2. state' = "idle" => Done(c) = Done(c - 1)
      <4>1. SUFFICES ASSUME LoadLen(Kind) = 0 PROVE Done(c) = Done(c - 1)
        BY <3>1
      <4>2. sent[c].words = 0 /\ c \in 1..Len(sent)
        <5>1. Kind.words \in Nat /\ (Kind.words > 0 => LoadLen(Kind) = Kind.words + 1)
          BY <3>1, CurrentRequest
        <5> QED
          BY <2>6, <3>1, <4>1, <5>1
      <4> QED
        BY <2>6, <4>2, NoLines
    <3>3. Out' = Done(c - 1) /\ (~line'.valid => ~line'.last)
      BY <2>4, <2>7, <3>1
    <3> QED
      BY <2>8, <2>9, <3>1, <3>2, <3>3
  <2>13. CASE Key
    <3>1. /\ TakeWord /\ state = "key" /\ line' = LineKept
          /\ IF Kind.words > 0 THEN state' = "value" /\ left' = Kind.words - 1 /\ pos' = 0
                               ELSE state' = "idle"
      BY <2>13, Zenon DEF Key
    <3>2. Out' = Done(c - 1) /\ (~line'.valid => ~line'.last)
      BY <2>4, <2>7, <3>1
    <3>3. Kind.words \in Nat /\ Kind = sent[c] /\ c \in 1..Len(sent) /\ sent \in Seq(Kinds)
      BY <2>6, <3>1, CurrentRequest
    <3>4. CASE Kind.words > 0
      <4>1. /\ 0 * LineWords + pos' = sent[c].words - 1 - left'
        BY <3>1, <3>3, <3>4, ConstantTypes
      <4>2. Out' = Done(c - 1) \o SubSeq(Lines(c), 1, 0)
        <5>1. Done(c - 1) \in Seq(LineType) /\ Lines(c) \in Seq(LineType)
          BY <3>3, DoneType, LinesType
        <5>2. SubSeq(Lines(c), 1, 0) = <<>>
          BY <5>1
        <5> QED
          BY <3>2, <5>1, <5>2, ConcatEmptySeq
      <4>3. state' = "value" /\ pos' = 0 /\ 0 \in Nat
        BY <3>1, <3>4
      <4>4. FilledNext(c, 0)
        BY <4>1, <4>2, <4>3, Zenon DEF FilledNext
      <4> QED
        BY <2>8, <2>9, <3>1, <3>2, <4>3, <4>4, Zenon
    <3>5. CASE ~(Kind.words > 0)
      <4>1. sent[c].words = 0
        BY <3>3, <3>5
      <4>2. Done(c) = Done(c - 1)
        BY <3>3, <4>1, NoLines
      <4>3. state' = "idle"
        BY <3>1, <3>5
      <4> QED
        BY <2>8, <2>9, <3>1, <3>2, <4>2, <4>3
    <3> QED
      BY <3>4, <3>5
  <2>14. CASE Value
    <3>1. TakeWord /\ state = "value"
      BY <2>14 DEF Value
    <3>2. PICK q \in Nat : Filled(c, q)
      BY <2>5, <3>1
    <3>3. c \in 1..Len(sent) /\ OutReady /\ c = Current
      BY <2>3, <2>6, <2>9, <3>1
    <3>4. /\ ~line'.valid => ~line'.last
          /\ state' = "idle" => Out' = Done(c)
          /\ state' = "value" =>
               \E r \in Nat : FilledNext(c, r)
          /\ state' \in {"idle", "value"}
      BY <2>1, <2>4, <2>14, <3>2, <3>3, ValueFilled
    <3>5. sent' = sent /\ accepted' = accepted
      BY <2>9, <3>1
    <3> QED
      BY <2>8, <3>4, <3>5
  <2>15. CASE DropRest
    BY <2>4, <2>15 DEF DropRest
  <2>16. CASE Wait
    <3>1. /\ state' = state /\ sent' = sent /\ left' = left /\ pos' = pos
          /\ accepted' = accepted /\ line' = LineKept
      BY <2>16 DEF Wait, RegistersKept
    <3>2. Out' = Out /\ (~line'.valid => ~line'.last)
      BY <2>7, <3>1
    <3>3. ~line.valid => line' = line
      BY <2>1, <3>1, LineFifo
    <3>4. state' = "value" => \E q \in Nat : FilledNext(c, q)
      BY <2>5, <3>1, <3>2, <3>3, Zenon DEF Filled, FilledNext
    <3> QED
      BY <2>4, <2>8, <3>1, <3>2, <3>4
  <2> QED
    BY <1>3, <2>10, <2>11, <2>12, <2>13, <2>14, <2>15, <2>16, CycleCases
<1> QED
  BY <1>2, <1>3

-----------------------------------------------------------------------------
(* The theorems. *)

\* Two parts put together start with the first one.
LEMMA PrefixOf ==
  ASSUME NEW S, NEW s \in Seq(S), NEW t \in Seq(S)
  PROVE  IsPrefix(s, s \o t)
<1>1. /\ s \o t \in Seq(S) /\ Len(s \o t) = Len(s) + Len(t) /\ Len(s) \in Nat /\ Len(t) \in Nat
      /\ \A i \in 1..Len(s) : (s \o t)[i] = s[i]
  OBVIOUS
<1> DEFINE a == SubSeq(s, 1, Len(s))
           u == s \o t
           b == SubSeq(u, 1, Len(s))
<1>2. a \in Seq(S) /\ Len(a) = Len(s) /\ \A i \in 1..Len(s) : a[i] = s[i]
  OBVIOUS
<1> HIDE DEF a, u
<1>3. u \in Seq(S) /\ Len(s) <= Len(u) /\ \A i \in 1..Len(s) : u[i] = s[i]
  BY <1>1 DEF u
<1>4. b \in Seq(S) /\ Len(b) = Len(s) /\ \A i \in 1..Len(s) : b[i] = u[i]
  BY <1>1, <1>3
<1> HIDE DEF b
<1>5. a = b
  BY <1>2, <1>3, <1>4, SeqEqual
<1> QED
  BY <1>3, <1>5, Zenon DEF IsPrefix, a, b, u

\* What has left the splitter is the beginning of what it should be.
LEMMA OutIsPrefix ==
  ASSUME SplitTypes, PlaceInv, NEW c \in Nat, c = Current, ValueOf(c)
  PROVE  \E u \in Seq(LineType) : Done(c) = Out \o u
<1>1. /\ sent \in Seq(Kinds) /\ c = Len(sent) /\ c \in 0..Len(sent)
      /\ state \in States \ {"dropFirst", "dropRest"}
  BY CurrentRequest DEF Current, ValueOf, SplitTypes, TypeOK
<1>2. Done(c) \in Seq(LineType) /\ <<>> \in Seq(LineType)
  BY <1>1, DoneType
<1>3. CASE state = "idle"
  <2>1. Done(c) = Out \o <<>>
    BY <1>2, <1>3, ConcatEmptySeq DEF ValueOf
  <2> QED
    BY <1>2, <2>1
<1>4. CASE state # "idle"
  <2>1. c \in 1..Len(sent) /\ Kind = sent[c]
    BY <1>4, CurrentRequest DEF Kind
  <2>2. /\ Done(c - 1) \in Seq(LineType) /\ Lines(c) \in Seq(LineType)
        /\ Done(c) = Done(c - 1) \o Lines(c)
    <3>1. c - 1 \in 0..(Len(sent) - 1) /\ (c - 1) + 1 = c
      BY <1>1, <2>1
    <3> QED
      BY <1>1, <3>1, DoneStep
  <2>3. CASE state # "value"
    <3>1. Out = Done(c - 1)
      BY <1>1, <1>4, <2>3 DEF ValueOf, States
    <3> QED
      BY <2>2, <3>1
  <2>4. CASE state = "value"
    <3>1. PICK q \in Nat : Filled(c, q)
      BY <2>4, Zenon DEF ValueOf
    <3>2. /\ q * LineWords + pos = sent[c].words - 1 - left
          /\ Out = Done(c - 1) \o SubSeq(Lines(c), 1, q)
      BY <3>1 DEF Filled
    <3>3. q + 1 <= Len(Lines(c))
      <4>1. /\ left \in Nat /\ pos \in Positions /\ sent[c].words \in Nat
        BY <2>1, <2>4, CurrentRequest DEF PlaceInv, SplitTypes, TypeOK
      <4>2. q * LineWords + pos < sent[c].words
        BY <3>2, <4>1
      <4>3. q + 1 <= Count(sent[c].words)
        BY <4>1, <4>2, LineCount
      <4> QED
        BY <1>1, <2>1, <4>3, LinesType
    <3> DEFINE a == SubSeq(Lines(c), 1, q)
               b == SubSeq(Lines(c), q + 1, Len(Lines(c)))
    <3>4. a \in Seq(LineType) /\ b \in Seq(LineType) /\ a \o b = Lines(c)
      <4>1. PICK s \in Seq(LineType) : s = Lines(c)
        BY <2>2
      <4>2. /\ SubSeq(s, 1, q) \in Seq(LineType) /\ SubSeq(s, q + 1, Len(s)) \in Seq(LineType)
            /\ SubSeq(s, 1, q) \o SubSeq(s, q + 1, Len(s)) = s
        <5>1. Len(s) \in Nat /\ q + 1 <= Len(s)
          BY <3>3, <4>1
        <5> DEFINE x == SubSeq(s, 1, q)
                   y == SubSeq(s, q + 1, Len(s))
        <5>2. /\ x \in Seq(LineType) /\ Len(x) = q
              /\ y \in Seq(LineType) /\ Len(y) = Len(s) - q
          BY <5>1
        <5>3. \A i \in 1..q : x[i] = s[i]
          BY <5>1
        <5>4. \A i \in 1..(Len(s) - q) : y[i] = s[q + i]
          BY <5>1
        <5> HIDE DEF x, y
        <5>5. /\ x \o y \in Seq(LineType) /\ Len(x \o y) = Len(x) + Len(y)
              /\ \A i \in 1..(Len(x) + Len(y)) :
                   (x \o y)[i] = IF i <= Len(x) THEN x[i] ELSE y[i - Len(x)]
          BY <5>2, ConcatProperties
        <5>6. Len(x) + Len(y) = Len(s)
          BY <5>1, <5>2
        <5>7. /\ x \o y \in Seq(LineType) /\ Len(x \o y) = Len(s)
              /\ \A i \in 1..Len(s) : (x \o y)[i] = IF i <= q THEN x[i] ELSE y[i - q]
          BY <5>2, <5>5, <5>6, Zenon
        <5>8. \A i \in 1..Len(s) : (x \o y)[i] = s[i]
          <6> SUFFICES ASSUME NEW i \in 1..Len(s) PROVE (x \o y)[i] = s[i]
            OBVIOUS
          <6>1. CASE i <= q
            BY <5>1, <5>3, <5>7, <6>1
          <6>2. CASE ~(i <= q)
            <7>1. i - q \in 1..(Len(s) - q) /\ q + (i - q) = i
              BY <5>1, <6>2
            <7>2. y[i - q] = s[q + (i - q)]
              BY <5>4, <7>1
            <7> QED
              BY <5>7, <6>2, <7>1, <7>2
          <6> QED
            BY <6>1, <6>2
        <5>9. x \o y = s
          BY <5>7, <5>8, SeqEqual
        <5> QED
          BY <5>2, <5>9 DEF x, y
      <4> QED
        BY <4>1, <4>2
    <3> HIDE DEF a, b
    <3>5. (Done(c - 1) \o a) \o b = Done(c - 1) \o (a \o b)
      <4>1. PICK d \in Seq(LineType) : d = Done(c - 1)
        BY <2>2
      <4>2. a \in Seq(LineType) /\ b \in Seq(LineType)
        BY <3>4
      <4>3. (d \o a) \o b = d \o (a \o b)
        BY <4>2, ConcatAssociative
      <4> QED
        BY <4>1, <4>3, Zenon
    <3>6. Done(c) = Out \o b
      BY <2>2, <3>2, <3>4, <3>5, Zenon DEF a
    <3> QED
      BY <3>4, <3>6
  <2> QED
    BY <2>3, <2>4
<1> QED
  BY <1>3, <1>4

\* The inductive invariant says what the property says.
LEMMA IntactFollows ==
  ASSUME SplitTypes, PlaceInv, IntactInv
  PROVE  IntactUntilThrown
<1>1. SUFFICES ASSUME ~forceThrow PROVE LinesIntact
  BY DEF IntactUntilThrown
<1>2. PICK c \in Nat : c = Current /\ ValueOf(c)
  BY <1>1, Zenon DEF IntactInv, ValueInv
<1> DEFINE expected == FlattenSeq([i \in DOMAIN accepted |-> Lines(accepted[i])])
<1>3. expected = Done(c)
  <2>1. DOMAIN accepted = 1..c /\ \A i \in 1..c : accepted[i] = i
    BY <1>2 DEF ValueOf
  <2>2. \A i \in 1..c : Lines(accepted[i]) = Lines(i)
    BY <2>1, Zenon
  <2>3. [i \in DOMAIN accepted |-> Lines(accepted[i])] = [i \in 1..c |-> Lines(i)]
    BY <2>1, <2>2, Zenon
  <2> QED
    BY <2>3, Zenon DEF Done
<1>4. PICK u \in Seq(LineType) : Done(c) = Out \o u
  BY <1>2, OutIsPrefix
<1>5. /\ lines \in Seq(LineType) /\ line \in LineRecord
  BY DEF SplitTypes, LineRecord
<1>6. [last |-> line.last, words |-> line.words] \in LineType
  BY <1>5 DEF LineRecord, LineType
<1>7. PICK v \in Seq(LineType) : Out = lines \o v
  <2> DEFINE x == [last |-> line.last, words |-> line.words]
  <2>1. <<>> \in Seq(LineType) /\ lines \o <<>> = lines
    BY <1>5, ConcatEmptySeq
  <2> HIDE DEF x
  <2>2. x \in LineType
    BY <1>6 DEF x
  <2>3. <<x>> \in Seq(LineType) /\ Append(lines, x) = lines \o <<x>>
    BY <1>5, <2>2, AppendIsConcat
  <2>4. Out = IF line.valid THEN Append(lines, x) ELSE lines
    BY DEF Out, x
  <2> QED
    BY <2>1, <2>3, <2>4
<1>8. IsPrefix(lines, expected)
  <2>1. (lines \o v) \o u = lines \o (v \o u)
    BY <1>4, <1>5, <1>7, ConcatAssociative
  <2>2. v \o u \in Seq(LineType)
    BY <1>4, <1>7, ConcatProperties
  <2>3. IsPrefix(lines, lines \o (v \o u))
    BY <1>5, <2>2, PrefixOf
  <2> QED
    BY <1>3, <1>4, <1>7, <2>1, <2>3, Zenon
<1>9. state = "idle" /\ ~line.valid => lines = expected
  BY <1>2, <1>3, Zenon DEF ValueOf, Out
<1> QED
  BY <1>8, <1>9, Zenon DEF LinesIntact

\* What stands at the same place of the two FIFOs belongs together.
LEMMA PairFollows ==
  ASSUME SplitTypes, PairInv
  PROVE  CommandsPaired
<1>1. /\ metaFifo \in Seq(Requests) /\ keyFifo \in Seq(Requests)
      /\ meta \in 0..MaxRequests /\ key \in 0..MaxRequests
  BY DEF SplitTypes, TypeOK
<1>2. ASSUME NEW fifo \in Seq(Requests), NEW x \in 0..MaxRequests
      PROVE  /\ With(fifo, x) \in Seq(Requests) /\ Len(fifo) <= Len(With(fifo, x))
             /\ \A i \in 1..Len(fifo) : With(fifo, x)[i] = fifo[i]
  <2>1. CASE x = 0
    BY <2>1 DEF With
  <2>2. CASE x # 0
    <3>1. x \in Requests /\ With(fifo, x) = Append(fifo, x)
      BY <2>2 DEF Requests, With
    <3> QED
      BY <3>1, AppendProperties
  <2> QED
    BY <2>1, <2>2
<1>3. /\ Len(keyFifo) <= Len(With(keyFifo, key))
      /\ \A i \in 1..Len(keyFifo) : With(keyFifo, key)[i] = keyFifo[i]
      /\ \A i \in 1..Len(metaFifo) : With(metaFifo, meta)[i] = metaFifo[i]
      /\ With(keyFifo, key) \in Seq(Requests)
  BY <1>1, <1>2
<1>4. \A i \in 1..Len(With(keyFifo, key)) : With(metaFifo, meta)[i] = With(keyFifo, key)[i]
  BY DEF PairInv
<1>5. ASSUME NEW i \in DOMAIN metaFifo \cap DOMAIN keyFifo PROVE metaFifo[i] = keyFifo[i]
  <2>1. i \in 1..Len(metaFifo) /\ i \in 1..Len(keyFifo)
    BY <1>1
  <2>2. i \in 1..Len(With(keyFifo, key))
    BY <1>1, <1>3, <2>1
  <2> QED
    BY <1>3, <1>4, <2>1, <2>2
<1> QED
  BY <1>5 DEF CommandsPaired

\* The splitter starts between two requests, with everything empty.
LEMMA SplitInit == Init => SplitInv
<1> SUFFICES ASSUME Init PROVE SplitInv
  OBVIOUS
<1>1. /\ state = "idle" /\ sent = <<>> /\ word = 0 /\ left = 0 /\ pos = 0
      /\ forceThrow = FALSE /\ meta = 0 /\ key = 0 /\ line = ClearLine
      /\ metaFifo = <<>> /\ keyFifo = <<>> /\ valueFifo = <<>>
      /\ accepted = <<>> /\ lines = <<>>
  BY DEF Init
<1>2. Current = 0 /\ 0 \in Nat /\ 0 \in Positions /\ MaxRequests \in Nat
  BY <1>1, ConstantTypes DEF Current, Positions
<1>3. TypeOK
  <2>1. sent \in Seq(Kinds) /\ metaFifo \in Seq(Requests) /\ keyFifo \in Seq(Requests)
        /\ accepted \in Seq(Requests)
    BY <1>1
  <2>2. Current <= MaxRequests /\ meta \in 0..MaxRequests /\ key \in 0..MaxRequests
    BY <1>1, <1>2
  <2>3. state \in States /\ word \in Nat /\ left \in Int /\ pos \in Positions
    BY <1>1, <1>2 DEF States
  <2> QED
    BY <1>1, <2>1, <2>2, <2>3 DEF TypeOK
<1>4. line \in LineRecord /\ ~line.valid /\ ~line.last
  <2>1. [p \in Positions |-> NoWord] \in [Positions -> Nat \X Int]
    BY DEF NoWord
  <2> QED
    BY <1>1, <2>1 DEF ClearLine, LineRecord
<1>5. SplitTypes
  BY <1>1, <1>3, <1>4 DEF SplitTypes, LineRecord
<1>6. PlaceInv
  BY <1>1 DEF PlaceInv
<1>7. PairInv
  BY <1>1 DEF PairInv, With
<1>8. IntactInv
  <2>1. Out = Done(0)
    BY <1>1, <1>4, DoneNone DEF Out
  <2>2. accepted = [i \in 1..0 |-> i]
    BY <1>1
  <2>3. ValueOf(0)
    BY <1>1, <1>4, <2>1, <2>2 DEF ValueOf
  <2> QED
    BY <1>2, <2>3, Zenon DEF IntactInv, ValueInv
<1> QED
  BY <1>5, <1>6, <1>7, <1>8 DEF SplitInv

\* The invariant holds of every state.
LEMMA SplitInvariant == Spec => []SplitInv
<1>1. SplitInv /\ [Next]_vars => SplitInv'
  BY TypesKept, PlaceKept, PairKept, IntactKept, Zenon DEF SplitInv
<1> QED
  BY <1>1, SplitInit, PTL DEF Spec

\* The variables have their types: the word of a line is one of its words, however
\* many words a value has (ST_VALUE, partialpos).
THEOREM SplitTypeCorrect == Spec => []TypeOK
<1>1. SplitInv => TypeOK
  BY DEF SplitInv, SplitTypes
<1> QED
  BY <1>1, SplitInvariant, PTL

\* The splitter never loses its place in the stream: in ST_IDLE it has taken all
\* words of the request, also of one it threw away (throw_length_left, 160 and
\* 255-273), and in the other states there is a word it still waits for.
InPlace ==
  /\ state = "idle" /\ sent # <<>> => word = Words(Kind)
  /\ state # "idle" => word < Words(Kind)

\* It keeps its place with every mix of requests, also after one was thrown away
\* (muu_requestsplit.v 160-273).
THEOREM KeepsItsPlace == Spec => []InPlace
<1>1. SplitInv => InPlace
  <2> SUFFICES ASSUME SplitInv PROVE InPlace
    OBVIOUS
  <2>1. SplitTypes /\ PlaceInv
    BY DEF SplitInv
  <2>2. state = "idle" /\ sent # <<>> => word = Words(Kind)
    BY <2>1 DEF PlaceInv
  <2>3. ASSUME state # "idle" PROVE word < Words(Kind)
    <3>1. PICK w : w = Words(Kind)
      OBVIOUS
    <3>2. PICK n \in Nat : n = LoadLen(Kind) /\ w = n + 2
      BY <2>1, <2>3, <3>1, CurrentRequest
    <3>3. word \in Nat /\ state \in States
      BY <2>1 DEF SplitTypes, TypeOK
    <3>4. /\ state \in {"meta", "dropFirst"} => word = 0
          /\ state = "meta2" => word = 1
          /\ state = "key" => word = 2 /\ n > 0
          /\ state \in {"value", "dropRest"} => left \in Nat /\ word + left + 1 = w
      BY <2>1, <3>1, <3>2 DEF PlaceInv
    <3>5. word < w
      BY <2>3, <3>2, <3>3, <3>4 DEF States
    <3> QED
      BY <3>1, <3>5
  <2> QED
    BY <2>2, <2>3 DEF InPlace
<1> QED
  BY <1>1, SplitInvariant, PTL

\* Command and key that are taken together are of one request, whatever was thrown
\* away and whichever FIFO was full (ST_META2, ST_KEY, top module 722-726).
THEOREM CommandsStayPaired == Spec => []CommandsPaired
<1>1. SplitInv => CommandsPaired
  BY PairFollows DEF SplitInv
<1> QED
  BY <1>1, SplitInvariant, PTL

\* Until the splitter throws a request away, no line of a value is lost, doubled or
\* torn, whatever back-pressure there is (84-95, ST_VALUE 219-253).
THEOREM ValuesIntact == Spec => []IntactUntilThrown
<1>1. SplitInv => IntactUntilThrown
  BY IntactFollows DEF SplitInv
<1> QED
  BY <1>1, SplitInvariant, PTL
=============================================================================

-------------------------- MODULE ParquetStoreProofs --------------------------
(***************************************************************************)
(* Theorems about ParquetStore, for all files, pages and sizes of values:   *)
(* what is cached belongs together and the cursors stay in their columns;   *)
(* the batches are the file's rows in order; a call that perturbs the rows  *)
(* gives every column whole, without and with columns that fill up a group. *)
(***************************************************************************)
EXTENDS ParquetStore, SequenceTheorems, FiniteSetTheorems, WellFoundedInduction, TLAPS

-----------------------------------------------------------------------------
(* What FlattenSeq computes, one sequence at a time. *)

\* A set of numbers that is not empty has a first one.
LEMMA FirstOf ==
  ASSUME NEW S \in SUBSET Nat, S # {}
  PROVE  \E i \in S : \A j \in S : i <= j
<1>1. PICK i \in S : \A j \in S : <<j, i>> \notin OpToRel(<, Nat)
  BY NatLessThanWellFounded, WFMin, Zenon
<1>2. \A j \in S : ~(j < i)
  BY <1>1 DEF OpToRel
<1>3. \A j \in S : j \in Nat /\ i \in Nat
  OBVIOUS
<1> QED
  BY <1>2, <1>3

\* f is what the definition of FlattenSeq computes from the first n sequences of s.
IsFlat(f, s, n) == f = [i \in 1..n |-> IF i = 1 THEN s[i] ELSE f[i - 1] \o s[i]]

Agree(s, t, n) == \A i \in 1..n : s[i] = t[i]

\* There is one such function for every n.
LEMMA FlatExists ==
  ASSUME NEW S, NEW s \in Seq(Seq(S)), NEW n \in 0..Len(s)
  PROVE  \E f \in [1..n -> Seq(S)] : IsFlat(f, s, n)
<1> DEFINE Has(m) == \E f \in [1..m -> Seq(S)] : IsFlat(f, s, m)
           bad == {m \in 0..Len(s) : ~Has(m)}
<1>1. SUFFICES ASSUME bad # {} PROVE FALSE
  OBVIOUS
<1>2. PICK m \in bad : \A j \in bad : m <= j
  <2>1. bad \in SUBSET Nat
    OBVIOUS
  <2> QED
    BY <1>1, <2>1, FirstOf, Zenon
<1>3. m \in 0..Len(s) /\ Len(s) \in Nat
  OBVIOUS
<1>4. CASE m = 0
  <2> DEFINE f == [i \in 1..0 |-> <<>>]
  <2>1. 1..0 = {}
    OBVIOUS
  <2>2. f \in [1..0 -> Seq(S)] /\ IsFlat(f, s, 0)
    BY <2>1 DEF IsFlat
  <2> QED
    BY <1>2, <1>4, <2>2
<1>5. CASE m # 0
  <2>1. m - 1 \in 0..Len(s) /\ ~(m <= m - 1)
    BY <1>3, <1>5
  <2>2. Has(m - 1)
    BY <1>2, <2>1
  <2>3. PICK f \in [1..(m - 1) -> Seq(S)] : IsFlat(f, s, m - 1)
    BY <2>2
  <2> DEFINE g == [i \in 1..m |-> IF i < m THEN f[i] ELSE IF m = 1 THEN s[m] ELSE f[m - 1] \o s[m]]
  <2>4. \A i \in 1..m : s[i] \in Seq(S)
    BY <1>3
  <2>5. \A i \in 1..m : i < m => i \in 1..(m - 1) /\ f[i] \in Seq(S)
    BY <1>3
  <2>6. m # 1 => f[m - 1] \in Seq(S) /\ f[m - 1] \o s[m] \in Seq(S)
    <3>1. SUFFICES ASSUME m # 1 PROVE f[m - 1] \in Seq(S) /\ f[m - 1] \o s[m] \in Seq(S)
      OBVIOUS
    <3>2. m - 1 \in 1..(m - 1) /\ m \in 1..m
      BY <1>3, <1>5, <3>1
    <3>3. f[m - 1] \in Seq(S) /\ s[m] \in Seq(S)
      BY <2>3, <2>4, <3>2
    <3> QED
      BY <3>3
  <2>7. g \in [1..m -> Seq(S)]
    <3>1. \A i \in 1..m : (IF i < m THEN f[i] ELSE IF m = 1 THEN s[m] ELSE f[m - 1] \o s[m]) \in Seq(S)
      <4>1. \A i \in 1..m : i < m \/ i = m
        BY <1>3
      <4> QED
        BY <2>4, <2>5, <2>6, <4>1
    <3> QED
      BY <3>1, Zenon
  <2>8. \A i \in 1..m : g[i] = IF i = 1 THEN s[i] ELSE g[i - 1] \o s[i]
    <3> SUFFICES ASSUME NEW i \in 1..m PROVE g[i] = IF i = 1 THEN s[i] ELSE g[i - 1] \o s[i]
      OBVIOUS
    <3>1. i # 1 => i - 1 \in 1..m /\ i - 1 < m
      BY <1>3
    <3>2. i # 1 => g[i - 1] = f[i - 1]
      BY <3>1
    <3>3. CASE i < m
      <4>1. i \in 1..(m - 1)
        BY <1>3, <3>3
      <4>2. f[i] = IF i = 1 THEN s[i] ELSE f[i - 1] \o s[i]
        BY <2>3, <4>1, Zenon DEF IsFlat
      <4>3. g[i] = f[i]
        BY <3>3
      <4> QED
        BY <3>2, <4>2, <4>3, Zenon
    <3>4. CASE i = m
      <4>1. g[i] = IF m = 1 THEN s[m] ELSE f[m - 1] \o s[m]
        BY <1>3, <3>4
      <4> QED
        BY <3>2, <3>4, <4>1, Zenon
    <3> QED
      BY <1>3, <3>3, <3>4
  <2>9. IsFlat(g, s, m)
    <3> HIDE DEF g
    <3>1. g = [i \in 1..m |-> g[i]]
      BY <2>7
    <3> QED
      BY <2>8, <3>1, Zenon DEF IsFlat
  <2> QED
    BY <1>2, <2>7, <2>9
<1> QED
  BY <1>4, <1>5

\* Two such functions agree where both are defined, if the sequences do.
LEMMA FlatUnique ==
  ASSUME NEW n \in Nat, NEW m \in Nat, n <= m, NEW s, NEW t, NEW f, NEW g,
         IsFlat(f, s, n), IsFlat(g, t, m), Agree(s, t, n)
  PROVE  Agree(f, g, n)
<1> DEFINE bad == {i \in 1..n : f[i] # g[i]}
<1>1. SUFFICES ASSUME bad # {} PROVE FALSE
  BY DEF Agree
<1>2. PICK i \in bad : \A j \in bad : i <= j
  <2>1. bad \in SUBSET Nat
    OBVIOUS
  <2> QED
    BY <1>1, <2>1, FirstOf, Zenon
<1>3. i \in 1..n /\ i \in 1..m
  OBVIOUS
<1>4. i # 1 => i - 1 \in 1..n /\ ~(i <= i - 1)
  BY <1>3
<1>5. f[i] = IF i = 1 THEN s[i] ELSE f[i - 1] \o s[i]
  BY <1>3, Zenon DEF IsFlat
<1>6. g[i] = IF i = 1 THEN t[i] ELSE g[i - 1] \o t[i]
  BY <1>3, Zenon DEF IsFlat
<1>7. i # 1 => f[i - 1] = g[i - 1]
  BY <1>2, <1>4
<1>8. f[i] = g[i]
  BY <1>3, <1>5, <1>6, <1>7, Zenon DEF Agree
<1> QED
  BY <1>2, <1>8

\* FlattenSeq of sequences that are at hand.
LEMMA FlattenIs ==
  ASSUME NEW S, NEW s \in Seq(Seq(S)), s # <<>>
  PROVE  \E f \in [1..Len(s) -> Seq(S)] : IsFlat(f, s, Len(s)) /\ FlattenSeq(s) = f[Len(s)]
<1> DEFINE f == CHOOSE f : f = [i \in 1..Len(s) |-> IF i = 1 THEN s[i] ELSE f[i - 1] \o s[i]]
<1>1. Len(s) \in 0..Len(s) /\ Len(s) # 0 /\ Len(s) \in Nat
  OBVIOUS
<1>2. PICK h \in [1..Len(s) -> Seq(S)] : IsFlat(h, s, Len(s))
  BY <1>1, FlatExists
<1>3. h = [i \in 1..Len(s) |-> IF i = 1 THEN s[i] ELSE h[i - 1] \o s[i]]
  BY <1>2 DEF IsFlat
<1>4. f = [i \in 1..Len(s) |-> IF i = 1 THEN s[i] ELSE f[i - 1] \o s[i]]
  BY <1>3, Zenon
<1>5. FlattenSeq(s) = f[Len(s)]
  BY <1>1, Zenon DEF FlattenSeq
<1>6. IsFlat(f, s, Len(s))
  BY <1>4, Zenon DEF IsFlat
<1> HIDE DEF f
<1>7. \A i \in 1..Len(s) : h[i] = f[i]
  <2>1. Agree(s, s, Len(s)) /\ Len(s) <= Len(s)
    BY <1>1 DEF Agree
  <2>2. Agree(h, f, Len(s))
    BY <1>1, <1>2, <1>6, <2>1, FlatUnique
  <2> QED
    BY <2>2 DEF Agree
<1>8. f \in [1..Len(s) -> Seq(S)]
  <2>1. DOMAIN f = 1..Len(s) /\ f = [i \in 1..Len(s) |-> f[i]]
    BY <1>6 DEF IsFlat
  <2>2. \A i \in 1..Len(s) : f[i] \in Seq(S)
    BY <1>2, <1>7
  <2> QED
    BY <2>1, <2>2, Zenon
<1> QED
  BY <1>5, <1>6, <1>8

\* One more sequence comes at the end.
LEMMA FlattenAppend ==
  ASSUME NEW S, NEW s \in Seq(Seq(S)), NEW x \in Seq(S)
  PROVE  /\ FlattenSeq(s) \in Seq(S)
         /\ FlattenSeq(Append(s, x)) = FlattenSeq(s) \o x
<1> DEFINE t == Append(s, x)
<1>1. /\ t \in Seq(Seq(S)) /\ t # <<>> /\ Len(t) = Len(s) + 1 /\ Len(s) \in Nat
      /\ t[Len(t)] = x
  BY AppendProperties
<1>2. \A i \in 1..Len(s) : s[i] = t[i]
  BY AppendProperties
<1>3. s \in Seq(Seq(S)) /\ x \in Seq(S)
  OBVIOUS
<1> HIDE DEF t
<1>4. PICK g \in [1..Len(t) -> Seq(S)] : IsFlat(g, t, Len(t)) /\ FlattenSeq(t) = g[Len(t)]
  BY <1>1, FlattenIs
<1>5. g[Len(t)] = IF Len(t) = 1 THEN x ELSE g[Len(t) - 1] \o x
  <2>1. Len(t) \in 1..Len(t)
    BY <1>1
  <2> QED
    BY <1>1, <1>4, <2>1, Zenon DEF IsFlat
<1>6. CASE s = <<>>
  <2>1. FlattenSeq(s) = <<>>
    BY <1>6 DEF FlattenSeq
  <2>2. FlattenSeq(t) = x
    BY <1>1, <1>4, <1>5, <1>6
  <2> QED
    BY <2>1, <2>2 DEF t
<1>7. CASE s # <<>>
  <2>1. PICK f \in [1..Len(s) -> Seq(S)] : IsFlat(f, s, Len(s)) /\ FlattenSeq(s) = f[Len(s)]
    BY <1>7, FlattenIs
  <2>2. \A i \in 1..Len(s) : f[i] = g[i]
    <3>1. Len(s) \in Nat /\ Len(t) \in Nat /\ Len(s) <= Len(t)
      BY <1>1
    <3>2. IsFlat(f, s, Len(s)) /\ IsFlat(g, t, Len(t))
      BY <1>4, <2>1
    <3>3. Agree(s, t, Len(s))
      BY <1>2 DEF Agree, t
    <3>4. Agree(f, g, Len(s))
      BY <3>1, <3>2, <3>3, FlatUnique
    <3> QED
      BY <3>4 DEF Agree
  <2>3. Len(s) \in 1..Len(s) /\ Len(t) - 1 = Len(s) /\ Len(t) # 1
    BY <1>1, <1>7
  <2>4. FlattenSeq(s) = g[Len(s)] /\ FlattenSeq(s) \in Seq(S)
    BY <2>1, <2>2, <2>3
  <2> QED
    BY <1>4, <1>5, <2>3, <2>4, Zenon DEF t
<1> QED
  BY <1>6, <1>7

\* FlattenSeq keeps the type of the elements.
LEMMA FlattenType ==
  ASSUME NEW S, NEW s \in Seq(Seq(S))
  PROVE  FlattenSeq(s) \in Seq(S)
<1>1. <<>> \in Seq(S)
  OBVIOUS
<1> QED
  BY <1>1, FlattenAppend, Zenon

\* What holds at the first number and goes on from each to the next holds at all.
LEMMA EveryStep ==
  ASSUME NEW n \in Nat, NEW G, 0 \in G, \A i \in 1..n : i - 1 \in G => i \in G
  PROVE  \A i \in 0..n : i \in G
<1> DEFINE bad == {i \in 0..n : i \notin G}
<1>1. SUFFICES ASSUME bad # {} PROVE FALSE
  OBVIOUS
<1>2. PICK i \in bad : \A j \in bad : i <= j
  <2>1. bad \in SUBSET Nat
    OBVIOUS
  <2> QED
    BY <1>1, <2>1, FirstOf, Zenon
<1>3. i \in 1..n /\ i - 1 \in 0..n /\ ~(i <= i - 1)
  OBVIOUS
<1> QED
  BY <1>2, <1>3

\* The first i sequences of s, one after the other.
Flat(s, i) == FlattenSeq(SubSeq(s, 1, i))

\* They come one at a time.
LEMMA FlatSteps ==
  ASSUME NEW S, NEW s \in Seq(Seq(S))
  PROVE  /\ Flat(s, 0) = <<>>
         /\ \A i \in 0..Len(s) : Flat(s, i) \in Seq(S)
         /\ \A i \in 1..Len(s) : Flat(s, i) = Flat(s, i - 1) \o s[i]
         /\ Flat(s, Len(s)) = FlattenSeq(s) /\ FlattenSeq(s) \in Seq(S)
<1>1. Flat(s, 0) = <<>>
  BY DEF FlattenSeq, Flat
<1>2. \A i \in 0..Len(s) : SubSeq(s, 1, i) \in Seq(Seq(S))
  OBVIOUS
<1>3. ASSUME NEW i \in 0..Len(s) PROVE Flat(s, i) \in Seq(S)
  <2>1. SubSeq(s, 1, i) \in Seq(Seq(S))
    BY <1>2
  <2> QED
    BY <2>1, FlattenType DEF Flat
<1>4. ASSUME NEW i \in 1..Len(s) PROVE Flat(s, i) = Flat(s, i - 1) \o s[i]
  <2>1. i - 1 \in 0..Len(s) /\ s[i] \in Seq(S)
    OBVIOUS
  <2>2. SubSeq(s, 1, i) = Append(SubSeq(s, 1, i - 1), s[i])
    OBVIOUS
  <2>3. FlattenSeq(Append(SubSeq(s, 1, i - 1), s[i])) = FlattenSeq(SubSeq(s, 1, i - 1)) \o s[i]
    <3>1. SubSeq(s, 1, i - 1) \in Seq(Seq(S))
      BY <1>2, <2>1
    <3> QED
      BY <2>1, <3>1, FlattenAppend, Zenon
  <2> QED
    BY <2>2, <2>3 DEF Flat
<1>5. Flat(s, Len(s)) = FlattenSeq(s)
  <2>1. SubSeq(s, 1, Len(s)) = s
    OBVIOUS
  <2> QED
    BY <2>1 DEF Flat
<1> QED
  BY <1>1, <1>3, <1>4, <1>5, FlattenType, Zenon

\* The beginnings of two sequences that agree there.
LEMMA FlatAgree ==
  ASSUME NEW S, NEW s \in Seq(Seq(S)), NEW t \in Seq(Seq(S)), NEW i \in Nat,
         i <= Len(s), i <= Len(t), \A j \in 1..i : s[j] = t[j]
  PROVE  Flat(s, i) = Flat(t, i)
<1>1. SubSeq(s, 1, i) = SubSeq(t, 1, i)
  OBVIOUS
<1> QED
  BY <1>1 DEF Flat

\* Two sequences of sequences, one after the other.
LEMMA FlattenConcat ==
  ASSUME NEW S, NEW s \in Seq(Seq(S)), NEW t \in Seq(Seq(S))
  PROVE  FlattenSeq(s \o t) = FlattenSeq(s) \o FlattenSeq(t)
<1> DEFINE u == s \o t
           G == {i \in 0..Len(t) : Flat(u, Len(s) + i) = FlattenSeq(s) \o Flat(t, i)}
<1>1. /\ u \in Seq(Seq(S)) /\ Len(u) = Len(s) + Len(t) /\ Len(s) \in Nat /\ Len(t) \in Nat
      /\ \A j \in 1..Len(s) : u[j] = s[j]
      /\ \A j \in 1..Len(t) : u[Len(s) + j] = t[j]
  OBVIOUS
<1> HIDE DEF u
<1>2. 0 \in G
  <2>1. Flat(u, Len(s)) = Flat(s, Len(s))
    <3>1. Len(s) \in Nat /\ Len(s) <= Len(s) /\ Len(s) <= Len(u)
      BY <1>1
    <3> QED
      BY <1>1, <3>1, FlatAgree, Zenon
  <2>2. Flat(s, Len(s)) = FlattenSeq(s) /\ Flat(t, 0) = <<>> /\ FlattenSeq(s) \in Seq(S)
    BY FlatSteps
  <2>3. FlattenSeq(s) \o <<>> = FlattenSeq(s) /\ Len(s) + 0 = Len(s)
    BY <1>1, <2>2
  <2> QED
    BY <1>1, <2>1, <2>2, <2>3
<1>3. ASSUME NEW i \in 1..Len(t), i - 1 \in G PROVE i \in G
  <2> DEFINE p == Len(s) + i
  <2>1. /\ p \in 1..Len(u) /\ p - 1 = Len(s) + (i - 1) /\ u[p] = t[i]
        /\ i - 1 \in 0..Len(t) /\ t[i] \in Seq(S)
    BY <1>1
  <2> HIDE DEF p
  <2>2. Flat(u, p) = Flat(u, p - 1) \o u[p]
    BY <1>1, <2>1, FlatSteps, Zenon
  <2>3. Flat(t, i) = Flat(t, i - 1) \o t[i] /\ Flat(t, i - 1) \in Seq(S) /\ FlattenSeq(s) \in Seq(S) /\ t[i] \in Seq(S)
    BY <2>1, FlatSteps, FlattenType, Zenon
  <2>4. Flat(u, Len(s) + (i - 1)) = FlattenSeq(s) \o Flat(t, i - 1)
    BY <1>3
  <2>5. (FlattenSeq(s) \o Flat(t, i - 1)) \o t[i] = FlattenSeq(s) \o (Flat(t, i - 1) \o t[i])
    <3> DEFINE a == FlattenSeq(s)
               b == Flat(t, i - 1)
               c == t[i]
    <3>1. a \in Seq(S) /\ b \in Seq(S) /\ c \in Seq(S)
      BY <2>3
    <3> HIDE DEF a, b, c
    <3>2. (a \o b) \o c = a \o (b \o c)
      BY <3>1
    <3> QED
      BY <3>2 DEF a, b, c
  <2>6. Flat(u, Len(s) + i) = FlattenSeq(s) \o Flat(t, i)
    BY <2>1, <2>2, <2>3, <2>4, <2>5 DEF p
  <2>7. i \in 0..Len(t)
    BY <1>1
  <2> QED
    BY <2>6, <2>7
<1> HIDE DEF G
<1>4. Len(t) \in G
  <2>1. \A i \in 0..Len(t) : i \in G
    BY <1>1, <1>2, <1>3, EveryStep
  <2> QED
    BY <1>1, <2>1
<1>5. Flat(u, Len(s) + Len(t)) = FlattenSeq(s) \o Flat(t, Len(t))
  BY <1>4 DEF G
<1>6. Flat(u, Len(u)) = FlattenSeq(u) /\ Flat(t, Len(t)) = FlattenSeq(t)
  BY <1>1, FlatSteps
<1> QED
  BY <1>1, <1>5, <1>6 DEF u

\* Sequences with the same elements are the same.
LEMMA SameSequence ==
  ASSUME NEW X, NEW s \in Seq(X), NEW t \in Seq(X), Len(s) = Len(t), \A i \in 1..Len(s) : s[i] = t[i]
  PROVE  s = t
<1>1. s = [i \in 1..Len(s) |-> s[i]] /\ t = [i \in 1..Len(t) |-> t[i]]
  OBVIOUS
<1>2. [i \in 1..Len(s) |-> s[i]] = [i \in 1..Len(t) |-> t[i]]
  OBVIOUS
<1> QED
  BY <1>1, <1>2

\* A sequence in two parts.
LEMMA TwoParts ==
  ASSUME NEW X, NEW s \in Seq(X), NEW i \in 0..Len(s)
  PROVE  /\ SubSeq(s, 1, i) \in Seq(X) /\ SubSeq(s, i + 1, Len(s)) \in Seq(X)
         /\ SubSeq(s, 1, i) \o SubSeq(s, i + 1, Len(s)) = s
<1> DEFINE b == SubSeq(s, 1, i)
           e == SubSeq(s, i + 1, Len(s))
<1>1. /\ b \in Seq(X) /\ Len(b) = i /\ e \in Seq(X) /\ Len(e) = Len(s) - i /\ Len(s) \in Nat /\ i \in Nat
      /\ \A j \in 1..i : b[j] = s[j]
      /\ \A j \in 1..Len(s) - i : e[j] = s[i + j]
  OBVIOUS
<1> HIDE DEF b, e
<1>2. b \o e \in Seq(X) /\ Len(b \o e) = Len(s)
  BY <1>1
<1>3. \A j \in 1..Len(s) : (b \o e)[j] = s[j]
  BY <1>1
<1>4. b \o e = s
  BY <1>2, <1>3, SameSequence, Zenon
<1> QED
  BY <1>1, <1>4 DEF b, e

\* The beginnings of s are beginnings of what it makes as a whole.
LEMMA FlatPrefix ==
  ASSUME NEW S, NEW s \in Seq(Seq(S)), NEW i \in 0..Len(s)
  PROVE  /\ Len(Flat(s, i)) <= Len(FlattenSeq(s))
         /\ \A a \in 1..Len(Flat(s, i)) : FlattenSeq(s)[a] = Flat(s, i)[a]
<1> DEFINE b == SubSeq(s, 1, i)
           e == SubSeq(s, i + 1, Len(s))
<1>1. b \in Seq(Seq(S)) /\ e \in Seq(Seq(S)) /\ b \o e = s
  BY TwoParts, Zenon
<1> HIDE DEF b, e
<1>2. FlattenSeq(s) = FlattenSeq(b) \o FlattenSeq(e)
  BY <1>1, FlattenConcat, Zenon
<1>3. FlattenSeq(b) \in Seq(S) /\ FlattenSeq(e) \in Seq(S)
  BY <1>1, FlattenType, Zenon
<1> QED
  BY <1>2, <1>3 DEF b, Flat

\* They grow by one sequence after the other.
LEMMA FlatLengths ==
  ASSUME NEW S, NEW s \in Seq(Seq(S))
  PROVE  /\ \A i \in 0..Len(s) : Len(Flat(s, i)) \in Nat
         /\ \A i \in 1..Len(s) : Len(Flat(s, i)) = Len(Flat(s, i - 1)) + Len(s[i]) /\ Len(s[i]) \in Nat
         /\ \A i, k \in 0..Len(s) : i <= k => Len(Flat(s, i)) <= Len(Flat(s, k))
<1>1. \A i \in 0..Len(s) : Flat(s, i) \in Seq(S) /\ Len(Flat(s, i)) \in Nat
  <2>1. ASSUME NEW i \in 0..Len(s) PROVE Flat(s, i) \in Seq(S)
    BY <2>1, FlatSteps, Zenon
  <2> QED
    BY <2>1
<1>2. ASSUME NEW i \in 1..Len(s) PROVE Len(Flat(s, i)) = Len(Flat(s, i - 1)) + Len(s[i]) /\ Len(s[i]) \in Nat
  <2>1. Flat(s, i) = Flat(s, i - 1) \o s[i]
    BY FlatSteps, Zenon
  <2>2. i - 1 \in 0..Len(s) /\ s[i] \in Seq(S)
    OBVIOUS
  <2>3. Flat(s, i - 1) \in Seq(S)
    BY <1>1, <2>2
  <2> QED
    BY <2>1, <2>2, <2>3
<1>3. ASSUME NEW i \in 0..Len(s), NEW k \in 0..Len(s), i <= k PROVE Len(Flat(s, i)) <= Len(Flat(s, k))
  <2> DEFINE b == SubSeq(s, 1, k)
  <2>1. b \in Seq(Seq(S)) /\ Len(b) = k /\ i \in 0..Len(b) /\ SubSeq(b, 1, i) = SubSeq(s, 1, i)
    BY <1>3
  <2> HIDE DEF b
  <2>2. Len(Flat(b, i)) <= Len(FlattenSeq(b))
    BY <2>1, FlatPrefix, Zenon
  <2> QED
    BY <2>1, <2>2 DEF Flat, b
<1> QED
  BY <1>1, <1>2, <1>3, Zenon

\* Where the elements of s are in what it makes.
LEMMA FlattenAt ==
  ASSUME NEW S, NEW s \in Seq(Seq(S)), NEW i \in 1..Len(s), NEW j \in 1..Len(s[i])
  PROVE  /\ Len(Flat(s, i - 1)) + j \in 1..Len(FlattenSeq(s))
         /\ FlattenSeq(s)[Len(Flat(s, i - 1)) + j] = s[i][j]
<1>1. i \in 0..Len(s) /\ i - 1 \in 0..Len(s) /\ s[i] \in Seq(S)
  OBVIOUS
<1>2. Flat(s, i) = Flat(s, i - 1) \o s[i] /\ Flat(s, i - 1) \in Seq(S)
  BY <1>1, FlatSteps, Zenon
<1>3. /\ Len(Flat(s, i)) <= Len(FlattenSeq(s))
      /\ \A a \in 1..Len(Flat(s, i)) : FlattenSeq(s)[a] = Flat(s, i)[a]
  BY <1>1, FlatPrefix, Zenon
<1>4. FlattenSeq(s) \in Seq(S)
  BY FlattenType, Zenon
<1> DEFINE a == Len(Flat(s, i - 1)) + j
<1>5. a \in 1..Len(Flat(s, i)) /\ Flat(s, i)[a] = s[i][j]
  BY <1>1, <1>2
<1>6. a \in 1..Len(FlattenSeq(s))
  BY <1>3, <1>4, <1>5
<1> QED
  BY <1>3, <1>5, <1>6, Zenon

\* It holds nothing else.
LEMMA FlattenWhere ==
  ASSUME NEW S, NEW s \in Seq(Seq(S)), NEW a \in 1..Len(FlattenSeq(s))
  PROVE  \E i \in 1..Len(s) : \E j \in 1..Len(s[i]) :
           a = Len(Flat(s, i - 1)) + j /\ FlattenSeq(s)[a] = s[i][j]
<1> DEFINE up == {i \in 0..Len(s) : a <= Len(Flat(s, i))}
<1>1. Flat(s, 0) = <<>> /\ Flat(s, Len(s)) = FlattenSeq(s)
  BY FlatSteps, Zenon
<1>2. /\ \A i \in 0..Len(s) : Len(Flat(s, i)) \in Nat
      /\ \A i \in 1..Len(s) : Len(Flat(s, i)) = Len(Flat(s, i - 1)) + Len(s[i]) /\ Len(s[i]) \in Nat
  BY FlatLengths, Zenon
<1>3. up # {} /\ up \in SUBSET Nat
  <2>1. Len(s) \in 0..Len(s)
    OBVIOUS
  <2>2. Len(FlattenSeq(s)) \in Nat
    BY <1>1, <1>2, <2>1
  <2> QED
    BY <1>1, <2>1, <2>2
<1>4. PICK i \in up : \A k \in up : i <= k
  BY <1>3, FirstOf, Zenon
<1>5. i # 0
  BY <1>1, <1>4
<1>6. i \in 1..Len(s) /\ i - 1 \in 0..Len(s) /\ ~(i <= i - 1)
  BY <1>5
<1>7. ~(a <= Len(Flat(s, i - 1)))
  BY <1>4, <1>6
<1> DEFINE j == a - Len(Flat(s, i - 1))
<1>8. j \in 1..Len(s[i]) /\ a = Len(Flat(s, i - 1)) + j
  <2>1. Len(Flat(s, i)) = Len(Flat(s, i - 1)) + Len(s[i]) /\ Len(s[i]) \in Nat /\ Len(Flat(s, i - 1)) \in Nat
    BY <1>2, <1>6
  <2>2. a <= Len(Flat(s, i)) /\ a \in Int
    OBVIOUS
  <2> DEFINE x == Len(Flat(s, i - 1))
             y == Len(Flat(s, i))
             z == Len(s[i])
  <2>3. y = x + z /\ x \in Nat /\ z \in Nat /\ a <= y /\ ~(a <= x)
    BY <1>7, <2>1, <2>2, Zenon
  <2> HIDE DEF x, y, z
  <2>4. a - x \in 1..z /\ a = x + (a - x)
    BY <2>2, <2>3
  <2> QED
    BY <2>4 DEF x, z
<1> HIDE DEF j
<1>9. FlattenSeq(s)[Len(Flat(s, i - 1)) + j] = s[i][j]
  BY <1>6, <1>8, FlattenAt, Zenon
<1> QED
  BY <1>6, <1>8, <1>9, Zenon

\* What FlattenWhere says of a.
Comes(s, a) ==
  \E i \in 1..Len(s) : \E j \in 1..Len(s[i]) : a = Len(Flat(s, i - 1)) + j /\ FlattenSeq(s)[a] = s[i][j]

\* It says so of every a.
LEMMA AllCome ==
  ASSUME NEW S, NEW s \in Seq(Seq(S)), NEW a \in 1..Len(FlattenSeq(s))
  PROVE  Comes(s, a)
BY FlattenWhere, Zenon DEF Comes

\* It keeps their order.
LEMMA FlattenOrder ==
  ASSUME NEW S, NEW s \in Seq(Seq(S)), NEW i \in 1..Len(s), NEW k \in 1..Len(s),
         NEW j \in 1..Len(s[i]), NEW l \in 1..Len(s[k]),
         Len(Flat(s, i - 1)) + j < Len(Flat(s, k - 1)) + l
  PROVE  i < k \/ (i = k /\ j < l)
<1>1. /\ \A h \in 0..Len(s) : Len(Flat(s, h)) \in Nat
      /\ \A h \in 1..Len(s) : Len(Flat(s, h)) = Len(Flat(s, h - 1)) + Len(s[h]) /\ Len(s[h]) \in Nat
      /\ \A h, m \in 0..Len(s) : h <= m => Len(Flat(s, h)) <= Len(Flat(s, m))
  BY FlatLengths, Zenon
<1>2. i - 1 \in 0..Len(s) /\ k - 1 \in 0..Len(s) /\ k \in 0..Len(s)
  OBVIOUS
<1>3. CASE k < i
  <2>1. Len(Flat(s, k)) <= Len(Flat(s, i - 1))
    BY <1>1, <1>2, <1>3
  <2>2. Len(Flat(s, k)) = Len(Flat(s, k - 1)) + Len(s[k]) /\ Len(s[k]) \in Nat
    BY <1>1
  <2>3. Len(Flat(s, k)) \in Nat /\ Len(Flat(s, k - 1)) \in Nat /\ Len(Flat(s, i - 1)) \in Nat
    BY <1>1, <1>2
  <2>4. l <= Len(s[k]) /\ 1 <= j /\ j \in Int /\ l \in Int
    OBVIOUS
  <2> DEFINE x == Len(Flat(s, i - 1))
             y == Len(Flat(s, k - 1))
             u == Len(Flat(s, k))
             z == Len(s[k])
  <2>5. u <= x /\ u = y + z /\ x \in Nat /\ y \in Nat /\ z \in Nat /\ l <= z /\ x + j < y + l
    BY <2>1, <2>2, <2>3, <2>4, Zenon
  <2> HIDE DEF x, y, u, z
  <2> QED
    BY <2>4, <2>5
<1>4. CASE k = i
  BY <1>1, <1>2, <1>4
<1> QED
  BY <1>3, <1>4

\* Nothing comes of sequences that are empty.
LEMMA FlattenNone ==
  ASSUME NEW S, NEW s \in Seq(Seq(S)), \A i \in 1..Len(s) : s[i] = <<>>
  PROVE  FlattenSeq(s) = <<>>
<1>1. FlattenSeq(s) \in Seq(S)
  BY FlattenType, Zenon
<1>2. ~ \E a \in 1..Len(FlattenSeq(s)) : TRUE
  <2> SUFFICES ASSUME NEW a \in 1..Len(FlattenSeq(s)) PROVE FALSE
    OBVIOUS
  <2>1. PICK i \in 1..Len(s) : \E j \in 1..Len(s[i]) : TRUE
    BY FlattenWhere, Zenon
  <2> QED
    BY <2>1
<1> QED
  BY <1>1, <1>2

\* Nothing more comes of a sequence than it has elements, if each gives one at most.
LEMMA FlattenAtMost ==
  ASSUME NEW S, NEW s \in Seq(Seq(S)), \A i \in 1..Len(s) : Len(s[i]) <= 1
  PROVE  \A i \in 0..Len(s) : Len(Flat(s, i)) <= i
<1> DEFINE G == {i \in 0..Len(s) : Len(Flat(s, i)) <= i}
<1>1. /\ Flat(s, 0) = <<>> /\ Len(s) \in Nat
      /\ \A i \in 0..Len(s) : Len(Flat(s, i)) \in Nat
      /\ \A i \in 1..Len(s) : Len(Flat(s, i)) = Len(Flat(s, i - 1)) + Len(s[i]) /\ Len(s[i]) \in Nat
  <2>1. Len(s) \in Nat
    OBVIOUS
  <2> QED
    BY <2>1, FlatSteps, FlatLengths, Zenon
<1>2. 0 \in G
  BY <1>1
<1>3. ASSUME NEW i \in 1..Len(s), i - 1 \in G PROVE i \in G
  <2> DEFINE x == Len(Flat(s, i - 1))
             y == Len(Flat(s, i))
             z == Len(s[i])
  <2>1. i \in 0..Len(s) /\ i - 1 \in 0..Len(s)
    BY <1>1
  <2>2. y = x + z /\ x \in Nat /\ z \in Nat /\ z <= 1 /\ x <= i - 1
    BY <1>1, <1>3, <2>1
  <2> HIDE DEF x, y, z
  <2>3. y <= i
    BY <2>2
  <2> QED
    BY <2>1, <2>3 DEF y
<1> HIDE DEF G
<1>4. \A i \in 0..Len(s) : i \in G
  BY <1>1, <1>2, <1>3, EveryStep
<1> QED
  BY <1>4 DEF G

\* What Select flattens.
Marks(s, I) == [i \in DOMAIN s |-> IF i \in I THEN <<s[i]>> ELSE <<>>]

\* It is a sequence of sequences.
MarksAre(X, s, I) ==
  /\ Marks(s, I) \in Seq(Seq(X)) /\ Len(Marks(s, I)) = Len(s) /\ Len(s) \in Nat
  /\ \A i \in 1..Len(s) : Marks(s, I)[i] = IF i \in I THEN <<s[i]>> ELSE <<>>
  /\ Select(s, I) = FlattenSeq(Marks(s, I)) /\ Select(s, I) \in Seq(X)

\* Nothing else is in it.
LEMMA MarksType ==
  ASSUME NEW X, NEW s \in Seq(X), NEW I
  PROVE  MarksAre(X, s, I)
<1>1. \A i \in 1..Len(s) : <<s[i]>> \in Seq(X) /\ <<>> \in Seq(X)
  OBVIOUS
<1>2. \A i \in 1..Len(s) : (IF i \in I THEN <<s[i]>> ELSE <<>>) \in Seq(X)
  BY <1>1
<1>3. DOMAIN s = 1..Len(s) /\ Len(s) \in Nat
  OBVIOUS
<1> DEFINE m == [i \in 1..Len(s) |-> IF i \in I THEN <<s[i]>> ELSE <<>>]
<1>4. m \in [1..Len(s) -> Seq(X)]
  BY <1>2, Zenon
<1>5. \A i \in 1..Len(s) : m[i] = IF i \in I THEN <<s[i]>> ELSE <<>>
  BY Zenon
<1>6. Marks(s, I) = m
  BY <1>3, Zenon DEF Marks
<1> HIDE DEF m
<1>7. m \in Seq(Seq(X)) /\ Len(m) = Len(s)
  BY <1>3, <1>4
<1>8. Select(s, I) = FlattenSeq(m)
  BY <1>6, Zenon DEF Select, Marks
<1>9. FlattenSeq(m) \in Seq(X)
  BY <1>7, FlattenType, Zenon
<1> QED
  BY <1>3, <1>5, <1>6, <1>7, <1>8, <1>9, Zenon DEF MarksAre

\* From a sequence of which the first d elements are not wanted and the next are, up
\* to the n-th.
LEMMA SelectFrom ==
  ASSUME NEW X, NEW s \in Seq(X), NEW I, NEW n \in 0..Len(s), NEW d \in 0..n,
         \A i \in 1..n : i \in I <=> i > d
  PROVE  /\ n - d <= Len(Select(s, I))
         /\ \A r \in 1..n - d : Select(s, I)[r] = s[d + r]
<1> DEFINE m == Marks(s, I)
           P(i) == IF i > d THEN Len(Flat(m, i)) = i - d /\ \A r \in 1..i - d : Flat(m, i)[r] = s[d + r]
                   ELSE Flat(m, i) = <<>>
           G == {i \in 0..n : P(i)}
<1>1. /\ m \in Seq(Seq(X)) /\ Len(m) = Len(s)
      /\ \A i \in 1..Len(s) : m[i] = IF i \in I THEN <<s[i]>> ELSE <<>>
      /\ Select(s, I) = FlattenSeq(m)
  BY MarksType, Zenon DEF MarksAre
<1>2. Len(s) \in Nat /\ n \in Nat /\ d \in Nat /\ d <= n /\ n <= Len(s)
  OBVIOUS
<1> HIDE DEF m
<1>3. 0 \in G
  <2>1. Flat(m, 0) = <<>>
    BY <1>1, FlatSteps, Zenon
  <2>2. ~(0 > d) /\ 0 \in 0..n
    BY <1>2
  <2> QED
    BY <2>1, <2>2
<1>4. ASSUME NEW i \in 1..n, i - 1 \in G PROVE i \in G
  <2>1. i \in 1..Len(m) /\ i \in 1..Len(s) /\ i - 1 \in 0..Len(m) /\ i \in 0..n /\ i \in Int
    BY <1>1, <1>2
  <2>2. Flat(m, i) = Flat(m, i - 1) \o m[i] /\ Flat(m, i - 1) \in Seq(X)
    BY <1>1, <2>1, FlatSteps, Zenon
  <2>3. P(i - 1)
    BY <1>4, Zenon
  <2> DEFINE a == Flat(m, i - 1)
             b == Flat(m, i)
  <2>4. CASE i > d
    <3>1. m[i] = <<s[i]>> /\ s[i] \in X
      <4>1. i \in I
        BY <2>4
      <4>2. m[i] = <<s[i]>>
        BY <1>1, <2>1, <4>1, Zenon
      <4>3. s[i] \in X
        BY <2>1
      <4> QED
        BY <4>2, <4>3
    <3>2. Len(a) = i - 1 - d /\ \A r \in 1..i - 1 - d : a[r] = s[d + r]
      <4>1. CASE i - 1 > d
        BY <2>3, <4>1
      <4>2. CASE ~(i - 1 > d)
        <5>1. a = <<>>
          BY <2>3, <4>2
        <5> QED
          BY <1>2, <2>1, <2>4, <4>2, <5>1
      <4> QED
        BY <4>1, <4>2
    <3>3. a \in Seq(X) /\ b = a \o <<s[i]>>
      BY <2>2, <3>1
    <3> HIDE DEF a, b
    <3>4. Len(b) = i - d
      BY <1>2, <2>1, <3>2, <3>3
    <3>5. \A r \in 1..i - d : b[r] = s[d + r]
      BY <1>2, <2>1, <2>4, <3>1, <3>2, <3>3
    <3>6. P(i)
      BY <2>4, <3>4, <3>5 DEF b
    <3> QED
      BY <2>1, <3>6
  <2>5. CASE ~(i > d)
    <3>1. m[i] = <<>>
      <4>1. i \notin I
        BY <2>5
      <4> QED
        BY <1>1, <2>1, <4>1
    <3>2. a = <<>>
      BY <1>2, <2>1, <2>3, <2>5
    <3>3. b = <<>>
      BY <2>2, <3>1, <3>2
    <3>4. P(i)
      BY <2>5, <3>3
    <3> QED
      BY <2>1, <3>4
  <2> QED
    BY <2>4, <2>5
<1> HIDE DEF P
<1>5. P(n)
  <2> HIDE DEF G
  <2>1. \A i \in 0..n : i \in G
    BY <1>2, <1>3, <1>4, EveryStep
  <2>2. n \in G
    BY <1>2, <2>1
  <2> QED
    BY <2>2 DEF G
<1>6. n \in 0..Len(m)
  BY <1>1, <1>2
<1>7. /\ Len(Flat(m, n)) <= Len(FlattenSeq(m))
      /\ \A a \in 1..Len(Flat(m, n)) : FlattenSeq(m)[a] = Flat(m, n)[a]
  BY <1>1, <1>6, FlatPrefix, Zenon
<1>8. FlattenSeq(m) \in Seq(X)
  BY <1>1, FlattenType, Zenon
<1> DEFINE u == Flat(m, n)
           w == FlattenSeq(m)
<1>9. CASE n > d
  <2>1. Len(u) = n - d /\ \A r \in 1..n - d : u[r] = s[d + r]
    BY <1>5, <1>9 DEF P
  <2>2. Len(u) <= Len(w) /\ \A r \in 1..Len(u) : w[r] = u[r]
    BY <1>7
  <2> HIDE DEF u, w
  <2>3. n - d <= Len(w) /\ \A r \in 1..n - d : w[r] = s[d + r]
    BY <1>2, <2>1, <2>2
  <2> QED
    BY <1>1, <2>3 DEF w
<1>10. CASE ~(n > d)
  <2>1. n - d = 0 /\ Len(w) \in Nat
    BY <1>2, <1>8, <1>10
  <2> QED
    BY <1>1, <2>1
<1> QED
  BY <1>9, <1>10

\* K are the numbers, in two sequences, of those that are I in the one and J in the other.
InParts(a, b, I, J, K) ==
  /\ \A i \in 1..Len(a) : i \in K <=> i \in I
  /\ \A j \in 1..Len(b) : Len(a) + j \in K <=> j \in J

\* From two sequences, one after the other.
LEMMA SelectConcat ==
  ASSUME NEW X, NEW a \in Seq(X), NEW b \in Seq(X)
  PROVE  \A I, J, K : InParts(a, b, I, J, K) => Select(a \o b, K) = Select(a, I) \o Select(b, J)
<1> SUFFICES ASSUME NEW I, NEW J, NEW K, InParts(a, b, I, J, K)
             PROVE  Select(a \o b, K) = Select(a, I) \o Select(b, J)
  OBVIOUS
<1> DEFINE s == a \o b
           u == Marks(a, I)
           v == Marks(b, J)
           w == Marks(s, K)
<1>1. /\ s \in Seq(X) /\ Len(s) = Len(a) + Len(b) /\ Len(a) \in Nat /\ Len(b) \in Nat
      /\ \A i \in 1..Len(a) : s[i] = a[i]
      /\ \A j \in 1..Len(b) : s[Len(a) + j] = b[j]
  OBVIOUS
<1> HIDE DEF s
<1>2. MarksAre(X, a, I) /\ MarksAre(X, b, J) /\ MarksAre(X, s, K)
  BY <1>1, MarksType, Zenon
<1>3. /\ u \in Seq(Seq(X)) /\ Len(u) = Len(a)
      /\ \A i \in 1..Len(a) : u[i] = IF i \in I THEN <<a[i]>> ELSE <<>>
      /\ Select(a, I) = FlattenSeq(u)
  BY <1>2, Zenon DEF MarksAre
<1>4. /\ v \in Seq(Seq(X)) /\ Len(v) = Len(b)
      /\ \A i \in 1..Len(b) : v[i] = IF i \in J THEN <<b[i]>> ELSE <<>>
      /\ Select(b, J) = FlattenSeq(v)
  BY <1>2, Zenon DEF MarksAre
<1>5. /\ w \in Seq(Seq(X)) /\ Len(w) = Len(s)
      /\ \A i \in 1..Len(s) : w[i] = IF i \in K THEN <<s[i]>> ELSE <<>>
      /\ Select(s, K) = FlattenSeq(w)
  BY <1>2, Zenon DEF MarksAre
<1> HIDE DEF u, v, w
<1>6. w = u \o v
  <2>1. ASSUME NEW i \in 1..Len(a) PROVE w[i] = u[i]
    <3>1. i \in 1..Len(s) /\ s[i] = a[i] /\ (i \in K <=> i \in I)
      BY <1>1 DEF InParts
    <3> QED
      BY <1>3, <1>5, <3>1, Zenon
  <2>2. ASSUME NEW j \in 1..Len(b) PROVE w[Len(a) + j] = v[j]
    <3>1. Len(a) + j \in 1..Len(s) /\ s[Len(a) + j] = b[j] /\ (Len(a) + j \in K <=> j \in J)
      BY <1>1 DEF InParts
    <3> QED
      BY <1>4, <1>5, <3>1, Zenon
  <2> DEFINE Y == Seq(X)
  <2>5. /\ u \in Seq(Y) /\ v \in Seq(Y) /\ w \in Seq(Y) /\ Len(u) = Len(a) /\ Len(v) = Len(b)
        /\ Len(w) = Len(a) + Len(b) /\ Len(a) \in Nat /\ Len(b) \in Nat
    BY <1>1, <1>3, <1>4, <1>5, Zenon
  <2> HIDE DEF Y
  <2>3. u \o v \in Seq(Y) /\ Len(u \o v) = Len(w)
    <3>1. u \in Seq(Y) /\ v \in Seq(Y) /\ Len(w) = Len(u) + Len(v)
      BY <2>5
    <3> QED
      BY <3>1
  <2>4. ASSUME NEW i \in 1..Len(w) PROVE w[i] = (u \o v)[i]
    <3>1. CASE i <= Len(a)
      <4>1. i \in 1..Len(a) /\ (u \o v)[i] = u[i]
        BY <2>5, <3>1
      <4> QED
        BY <2>1, <4>1
    <3>2. CASE i > Len(a)
      <4>1. i - Len(a) \in 1..Len(b) /\ i = Len(a) + (i - Len(a)) /\ (u \o v)[i] = v[i - Len(a)]
        BY <2>5, <3>2
      <4>2. w[Len(a) + (i - Len(a))] = v[i - Len(a)]
        BY <2>2, <4>1, Zenon
      <4> QED
        BY <4>1, <4>2
    <3> QED
      BY <2>5, <3>1, <3>2
  <2> QED
    BY <2>5, <2>3, <2>4, SameSequence, Zenon
<1>7. FlattenSeq(w) = FlattenSeq(u) \o FlattenSeq(v)
  BY <1>3, <1>4, <1>6, FlattenConcat, Zenon
<1> QED
  BY <1>3, <1>4, <1>5, <1>7 DEF s

-----------------------------------------------------------------------------
(* The Divider. *)

Entry == Files \X Columns \X Nat

\* The columns are numbered; the constants are what they should be.
LEMMA ColumnNumbers ==
  /\ Columns = 1..ColumnsNo /\ ColumnsNo \in Nat /\ ColumnsNo >= 1 /\ 1 \in Columns
  /\ None \notin Files /\ Headers \subseteq Files /\ MinValueSize \in Nat
<1>1. IsFiniteSet(Columns) /\ Columns # {} /\ Columns = 1..ColumnsNo
  BY SizeAssumption DEF ColumnsNo
<1>2. ColumnsNo \in Nat
  BY <1>1, FS_CardinalityType DEF ColumnsNo
<1>3. PICK c \in Columns : TRUE
  BY <1>1
<1>4. ColumnsNo >= 1
  BY <1>1, <1>2, <1>3
<1> QED
  BY <1>1, <1>2, <1>4, SizeAssumption

\* Rows of a column up to the end of its page i.
Ends(f, c, i) == IF i = 0 THEN 0 ELSE PageList[f][c][i].rows
PagesNo(f, c) == Len(PageList[f][c])
AllPages(f, c) == [i \in 1..PagesNo(f, c) |-> Page(f, c, i)]
FileRows(f, c, n) == [r \in 1..n |-> <<f, c, r>>]

\* Where the pages end.
LEMMA PageEnds ==
  ASSUME NEW f \in Files, NEW c \in Columns
  PROVE  /\ PagesNo(f, c) \in Nat /\ PagesNo(f, c) >= 1
         /\ \A i \in 0..PagesNo(f, c) : Ends(f, c, i) \in Nat
         /\ \A i \in 1..PagesNo(f, c) : /\ PageList[f][c][i].bytes \in Nat
                                        /\ Ends(f, c, i - 1) <= Ends(f, c, i)
                                        /\ RowsBefore(f, c, i) = Ends(f, c, i - 1)
         /\ RowsOf(f, c) = Ends(f, c, PagesNo(f, c)) /\ RowsOf(f, c) \in Nat
         /\ RowsOf(f, c) = RowsOf(f, 1)
<1> DEFINE l == PageList[f][c]
<1>1. /\ l \in Seq([rows : Nat, bytes : Nat]) /\ l # <<>>
      /\ \A i \in 2..Len(l) : l[i - 1].rows <= l[i].rows
      /\ RowsOf(f, c) = RowsOf(f, 1)
  BY PageAssumption
<1> HIDE DEF l
<1>2. Len(l) \in Nat /\ Len(l) >= 1
  BY <1>1
<1>3. \A i \in 1..Len(l) : l[i].rows \in Nat /\ l[i].bytes \in Nat
  <2> DEFINE R == [rows : Nat, bytes : Nat]
  <2>1. \A x \in R : x.rows \in Nat /\ x.bytes \in Nat
    OBVIOUS
  <2>2. l \in Seq(R)
    BY <1>1
  <2> HIDE DEF R
  <2>3. \A i \in 1..Len(l) : l[i] \in R
    BY <2>2
  <2> QED
    BY <2>1, <2>3, Zenon
<1>4. \A i \in 0..Len(l) : Ends(f, c, i) \in Nat
  BY <1>2, <1>3 DEF Ends, l
<1>5. ASSUME NEW i \in 1..Len(l)
      PROVE  Ends(f, c, i - 1) <= Ends(f, c, i) /\ RowsBefore(f, c, i) = Ends(f, c, i - 1)
  <2>1. CASE i = 1
    <3>1. Ends(f, c, 0) = 0 /\ RowsBefore(f, c, 1) = 0
      BY DEF Ends, RowsBefore
    <3>2. Ends(f, c, 1) \in Nat
      BY <1>2, <1>4
    <3> QED
      BY <2>1, <3>1, <3>2
  <2>2. CASE i # 1
    <3>1. i \in 2..Len(l) /\ i # 0 /\ i - 1 # 0 /\ i - 1 \in 1..Len(l)
      BY <1>2, <2>2
    <3>2. l[i - 1].rows <= l[i].rows
      BY <1>1, <3>1
    <3> QED
      BY <2>2, <3>1, <3>2 DEF Ends, RowsBefore, l
  <2> QED
    BY <2>1, <2>2
<1>6. RowsOf(f, c) = Ends(f, c, Len(l)) /\ RowsOf(f, c) \in Nat
  BY <1>2, <1>3 DEF RowsOf, Ends, l
<1>7. PagesNo(f, c) = Len(l)
  BY DEF PagesNo, l
<1>8. \A i \in 1..Len(l) : PageList[f][c][i].bytes \in Nat
  BY <1>3 DEF l
<1> QED
  BY <1>1, <1>2, <1>4, <1>5, <1>6, <1>7, <1>8

\* A page, and the pages together.
LEMMA PageIs ==
  ASSUME NEW f \in Files, NEW c \in Columns
  PROVE  /\ AllPages(f, c) \in Seq(Seq(Entry)) /\ Len(AllPages(f, c)) = PagesNo(f, c)
         /\ \A i \in 1..PagesNo(f, c) :
              /\ Page(f, c, i) \in Seq(Entry) /\ AllPages(f, c)[i] = Page(f, c, i)
              /\ Len(Page(f, c, i)) = Ends(f, c, i) - Ends(f, c, i - 1)
              /\ \A r \in 1..Len(Page(f, c, i)) : Page(f, c, i)[r] = <<f, c, Ends(f, c, i - 1) + r>>
<1>1. ASSUME NEW i \in 1..PagesNo(f, c)
      PROVE  /\ Page(f, c, i) \in Seq(Entry)
             /\ Len(Page(f, c, i)) = Ends(f, c, i) - Ends(f, c, i - 1)
             /\ \A r \in 1..Len(Page(f, c, i)) : Page(f, c, i)[r] = <<f, c, Ends(f, c, i - 1) + r>>
  <2> DEFINE b == Ends(f, c, i - 1)
             e == Ends(f, c, i)
  <2>1. b \in Nat /\ e \in Nat /\ b <= e /\ RowsBefore(f, c, i) = b
    <3>1. PagesNo(f, c) \in Nat
      BY PageEnds
    <3>2. i \in 0..PagesNo(f, c) /\ i - 1 \in 0..PagesNo(f, c)
      BY <3>1
    <3> QED
      BY <3>2, PageEnds, Zenon
  <2>2. PageList[f][c][i].rows = e
    <3>1. i # 0
      OBVIOUS
    <3> QED
      BY <3>1 DEF Ends
  <2>3. Page(f, c, i) = [r \in 1..e - b |-> <<f, c, b + r>>]
    BY <2>1, <2>2, Zenon DEF Page
  <2> HIDE DEF b, e
  <2> DEFINE p == [r \in 1..e - b |-> <<f, c, b + r>>]
  <2>4. \A r \in 1..e - b : <<f, c, b + r>> \in Entry
    BY <2>1 DEF Entry
  <2>5. e - b \in Nat
    BY <2>1
  <2>6. p \in Seq(Entry) /\ Len(p) = e - b /\ \A r \in 1..e - b : p[r] = <<f, c, b + r>>
    <3> DEFINE n == e - b
    <3>1. p \in [1..n -> Entry] /\ \A r \in 1..n : p[r] = <<f, c, b + r>>
      BY <2>4, Zenon
    <3>2. n \in Nat
      BY <2>5
    <3> HIDE DEF n, p
    <3>3. p \in Seq(Entry) /\ Len(p) = n
      <4>1. p \in [1..n -> Entry]
        BY <3>1, Zenon
      <4> QED
        BY <3>2, <4>1
    <3> QED
      BY <3>1, <3>3, Zenon DEF n
  <2> QED
    BY <2>3, <2>6, Zenon DEF b, e
<1>2. PagesNo(f, c) \in Nat
  BY PageEnds
<1>3. AllPages(f, c) \in [1..PagesNo(f, c) -> Seq(Entry)] /\ \A i \in 1..PagesNo(f, c) : AllPages(f, c)[i] = Page(f, c, i)
  BY <1>1, Zenon DEF AllPages
<1>4. AllPages(f, c) \in Seq(Seq(Entry)) /\ Len(AllPages(f, c)) = PagesNo(f, c)
  BY <1>2, <1>3
<1> QED
  BY <1>1, <1>3, <1>4, Zenon

\* FileRows is a sequence.
LEMMA FileRowsAre ==
  ASSUME NEW f \in Files, NEW c \in Columns, NEW n \in Nat
  PROVE  /\ FileRows(f, c, n) \in Seq(Entry) /\ Len(FileRows(f, c, n)) = n
         /\ \A r \in 1..n : FileRows(f, c, n)[r] = <<f, c, r>>
<1>1. \A r \in 1..n : <<f, c, r>> \in Entry
  BY DEF Entry
<1>2. FileRows(f, c, n) \in [1..n -> Entry] /\ \A r \in 1..n : FileRows(f, c, n)[r] = <<f, c, r>>
  BY <1>1, Zenon DEF FileRows
<1> QED
  BY <1>2

\* The pages of a column hold its rows in order.
LEMMA PagesHoldRows ==
  ASSUME NEW f \in Files, NEW c \in Columns
  PROVE  FlattenSeq(AllPages(f, c)) = FileRows(f, c, RowsOf(f, c))
<1> DEFINE s == AllPages(f, c)
           n == PagesNo(f, c)
           G == {i \in 0..n : Flat(s, i) = FileRows(f, c, Ends(f, c, i))}
<1>1. s \in Seq(Seq(Entry)) /\ Len(s) = n /\ n \in Nat
  BY PageIs, PageEnds, Zenon
<1>2. 0 \in G
  <2>1. Flat(s, 0) = <<>>
    BY <1>1, FlatSteps, Zenon
  <2>2. FileRows(f, c, 0) \in Seq(Entry) /\ Len(FileRows(f, c, 0)) = 0
    BY FileRowsAre
  <2>3. FileRows(f, c, 0) = <<>>
    BY <2>2
  <2>4. Ends(f, c, 0) = 0
    BY DEF Ends
  <2> QED
    BY <1>1, <2>1, <2>3, <2>4
<1>3. ASSUME NEW i \in 1..n, i - 1 \in G PROVE i \in G
  <2>1. i \in 0..n /\ i - 1 \in 0..n /\ i \in 1..Len(s)
    BY <1>1
  <2> DEFINE b == Ends(f, c, i - 1)
             e == Ends(f, c, i)
             p == Page(f, c, i)
             old == FileRows(f, c, b)
             new == FileRows(f, c, e)
  <2>2. b \in Nat /\ e \in Nat /\ b <= e
    BY <2>1, PageEnds, Zenon
  <2>3. p \in Seq(Entry) /\ Len(p) = e - b /\ \A r \in 1..Len(p) : p[r] = <<f, c, b + r>>
    BY PageIs, Zenon
  <2>4. Flat(s, i) = Flat(s, i - 1) \o s[i]
    BY <1>1, <2>1, FlatSteps, Zenon
  <2>5. s[i] = p
    BY PageIs, Zenon
  <2>6. Flat(s, i - 1) = old
    BY <1>3
  <2> HIDE DEF b, e, p
  <2>7. /\ old \in Seq(Entry) /\ Len(old) = b /\ \A r \in 1..b : old[r] = <<f, c, r>>
        /\ new \in Seq(Entry) /\ Len(new) = e /\ \A r \in 1..e : new[r] = <<f, c, r>>
    BY <2>2, FileRowsAre
  <2> HIDE DEF old, new
  <2>8. old \o p \in Seq(Entry) /\ Len(old \o p) = e
    BY <2>2, <2>3, <2>7
  <2>9. ASSUME NEW r \in 1..e PROVE (old \o p)[r] = new[r]
    <3>1. CASE r <= b
      <4>1. r \in 1..b /\ (old \o p)[r] = old[r]
        BY <2>2, <2>3, <2>7, <3>1
      <4> QED
        BY <2>7, <4>1, Zenon
    <3>2. CASE r > b
      <4>1. r - b \in 1..Len(p) /\ b + (r - b) = r /\ (old \o p)[r] = p[r - b]
        BY <2>2, <2>3, <2>7, <3>2
      <4>2. p[r - b] = <<f, c, b + (r - b)>>
        BY <2>3, <4>1, Zenon
      <4>3. new[r] = <<f, c, r>>
        BY <2>7
      <4> QED
        BY <4>1, <4>2, <4>3, Zenon
    <3>3. r \in Int /\ b \in Int
      BY <2>2
    <3>4. r <= b \/ r > b
      BY <3>3
    <3> QED
      BY <3>1, <3>2, <3>4, Zenon
  <2>10. old \o p = new
    BY <2>7, <2>8, <2>9, SameSequence, Zenon
  <2>11. Flat(s, i) = FileRows(f, c, Ends(f, c, i))
    BY <2>4, <2>5, <2>6, <2>10, Zenon DEF new, e
  <2> QED
    BY <2>1, <2>11
<1> HIDE DEF G, s, n
<1>4. n \in G
  <2>1. \A i \in 0..n : i \in G
    BY <1>1, <1>2, <1>3, EveryStep
  <2> QED
    BY <1>1, <2>1
<1>5. Flat(s, n) = FileRows(f, c, Ends(f, c, n))
  BY <1>4 DEF G
<1>6. Flat(s, n) = FlattenSeq(s)
  BY <1>1, FlatSteps, Zenon
<1>7. Ends(f, c, n) = RowsOf(f, c)
  BY PageEnds, Zenon DEF n
<1> QED
  BY <1>5, <1>6, <1>7, Zenon DEF s

\* Values while the Divider fills them, and their pages.
Filling == [bytes : Nat, pages : Seq(Seq(Entry))]
PagesOf(values) == [j \in 1..Len(values) |-> values[j].pages]
FirstFilling == <<[bytes |-> 0, pages |-> <<>>]>>

\* The values hold the first i pages of a column.
HoldPages(f, c, values, i) ==
  /\ values \in Seq(Filling) /\ values # <<>>
  /\ FlattenSeq(PagesOf(values)) = SubSeq(AllPages(f, c), 1, i)

\* Pages of values are sequences of pages.
LEMMA PagesOfType ==
  ASSUME NEW values \in Seq(Filling)
  PROVE  /\ PagesOf(values) \in Seq(Seq(Seq(Entry))) /\ Len(PagesOf(values)) = Len(values)
         /\ \A j \in 1..Len(values) : PagesOf(values)[j] = values[j].pages
<1> DEFINE P == Seq(Seq(Entry))
           F == Filling
<1>1. \A v \in F : v.pages \in P
  BY DEF Filling
<1>2. values \in Seq(F) /\ Len(values) \in Nat
  OBVIOUS
<1> HIDE DEF P, F
<1>3. \A j \in 1..Len(values) : values[j].pages \in P
  BY <1>1, <1>2
<1>4. PagesOf(values) \in [1..Len(values) -> P] /\ \A j \in 1..Len(values) : PagesOf(values)[j] = values[j].pages
  BY <1>3, Zenon DEF PagesOf
<1> QED
  BY <1>2, <1>4 DEF P

\* One more value.
LEMMA PagesOfAppend ==
  ASSUME NEW values \in Seq(Filling), NEW v \in Filling
  PROVE  /\ Append(values, v) \in Seq(Filling) /\ Append(values, v) # <<>>
         /\ FlattenSeq(PagesOf(Append(values, v))) = FlattenSeq(PagesOf(values)) \o v.pages
         /\ FlattenSeq(PagesOf(values)) \in Seq(Seq(Entry)) /\ v.pages \in Seq(Seq(Entry))
<1> DEFINE P == Seq(Entry)
           w == Append(values, v)
           s == PagesOf(values)
           t == PagesOf(w)
<1>1. w \in Seq(Filling) /\ w # <<>> /\ Len(w) = Len(values) + 1 /\ w[Len(values) + 1] = v /\ Len(values) \in Nat
  BY AppendProperties
<1>2. \A j \in 1..Len(values) : w[j] = values[j]
  BY AppendProperties
<1> HIDE DEF w
<1>3. v.pages \in Seq(P)
  BY DEF Filling
<1>4. s \in Seq(Seq(P)) /\ Len(s) = Len(values) /\ \A j \in 1..Len(values) : s[j] = values[j].pages
  BY PagesOfType, Zenon
<1>5. t \in Seq(Seq(P)) /\ Len(t) = Len(w) /\ \A j \in 1..Len(w) : t[j] = w[j].pages
  BY <1>1, PagesOfType, Zenon
<1> HIDE DEF s, t, P
<1> DEFINE Q == Seq(P)
           u == Append(s, v.pages)
           x == v.pages
<1>6. t = u
  <2>1. x \in Q /\ s \in Seq(Q) /\ t \in Seq(Q)
    BY <1>3, <1>4, <1>5
  <2> HIDE DEF x, Q
  <2> DEFINE z == Append(s, x)
  <2>2. z \in Seq(Q) /\ Len(z) = Len(s) + 1 /\ z[Len(s) + 1] = x /\ \A j \in 1..Len(s) : z[j] = s[j]
    BY <2>1, AppendProperties
  <2> HIDE DEF z
  <2>3. \A j \in 1..Len(values) : t[j] = z[j]
    <3> SUFFICES ASSUME NEW j \in 1..Len(values) PROVE t[j] = z[j]
      OBVIOUS
    <3>1. j \in 1..Len(w)
      BY <1>1
    <3> QED
      BY <1>2, <1>4, <1>5, <2>2, <3>1, Zenon
  <2>4. t[Len(values) + 1] = z[Len(values) + 1]
    <3>1. Len(values) + 1 \in 1..Len(w)
      BY <1>1
    <3>2. t[Len(values) + 1] = w[Len(values) + 1].pages
      BY <1>5, <3>1, Zenon
    <3> QED
      BY <1>1, <1>4, <2>2, <3>2, Zenon DEF x
  <2>5. Len(t) = Len(values) + 1 /\ Len(z) = Len(values) + 1
    BY <1>1, <1>4, <1>5, <2>2
  <2>6. \A j \in 1..Len(t) : t[j] = z[j]
    <3> SUFFICES ASSUME NEW j \in 1..Len(t) PROVE t[j] = z[j]
      OBVIOUS
    <3>1. j \in 1..Len(values) \/ j = Len(values) + 1
      BY <1>1, <2>5
    <3> QED
      BY <2>3, <2>4, <3>1, Zenon
  <2>7. t = z
    BY <2>1, <2>2, <2>5, <2>6, SameSequence, Zenon
  <2> QED
    BY <2>7 DEF z, x
<1>7. FlattenSeq(u) = FlattenSeq(s) \o x /\ FlattenSeq(s) \in Seq(P)
  BY <1>3, <1>4, FlattenAppend, Zenon
<1> QED
  BY <1>1, <1>3, <1>6, <1>7 DEF w, s, t, P

\* AddPage adds the next page.
LEMMA PageAdded ==
  ASSUME NEW f \in Files, NEW c \in Columns, NEW i \in 1..PagesNo(f, c), NEW values,
         HoldPages(f, c, values, i - 1)
  PROVE  HoldPages(f, c, AddPage(f, c, values, i), i)
<1> DEFINE P == Seq(Entry)
           all == AllPages(f, c)
           page == Page(f, c, i)
           bytes == PageList[f][c][i].bytes
           value == Last(values)
           front == Front(values)
<1>1. /\ all \in Seq(P) /\ Len(all) = PagesNo(f, c) /\ page \in P /\ all[i] = page
      /\ PagesNo(f, c) \in Nat /\ bytes \in Nat
  BY PageIs, PageEnds, Zenon
<1>2. values \in Seq(Filling) /\ values # <<>> /\ FlattenSeq(PagesOf(values)) = SubSeq(all, 1, i - 1)
  BY DEF HoldPages
<1>3. SubSeq(all, 1, i) = SubSeq(all, 1, i - 1) \o <<page>>
  <2> HIDE DEF all, page, P
  <2> DEFINE a == SubSeq(all, 1, i - 1)
             b == SubSeq(all, 1, i)
  <2>1. /\ a \in Seq(P) /\ Len(a) = i - 1 /\ \A j \in 1..i - 1 : a[j] = all[j]
        /\ b \in Seq(P) /\ Len(b) = i /\ \A j \in 1..i : b[j] = all[j]
    BY <1>1
  <2> HIDE DEF a, b
  <2>2. a \o <<page>> \in Seq(P) /\ Len(a \o <<page>>) = Len(b)
    BY <1>1, <2>1
  <2>3. \A j \in 1..Len(b) : b[j] = (a \o <<page>>)[j]
    BY <1>1, <2>1
  <2>4. b = a \o <<page>>
    BY <2>1, <2>2, <2>3, SameSequence, Zenon
  <2> QED
    BY <2>4 DEF a, b
<1>4. /\ front \in Seq(Filling) /\ value \in Filling /\ values = Append(front, value)
  <2> DEFINE F == Filling
  <2>1. values \in Seq(F) /\ values # <<>>
    BY <1>2
  <2> HIDE DEF F
  <2>2. front \in Seq(F) /\ value \in F /\ values = Append(front, value)
    BY <2>1 DEF Front, Last
  <2> QED
    BY <2>2 DEF F
<1>5. value.bytes \in Nat /\ value.pages \in Seq(P)
  BY <1>4 DEF Filling
<1> HIDE DEF page, bytes, value, front, all
<1>6. CASE Full(value.bytes)
  <2> DEFINE v == [bytes |-> bytes, pages |-> <<page>>]
  <2>1. v \in Filling /\ v.pages = <<page>>
    BY <1>1 DEF Filling
  <2>2. AddPage(f, c, values, i) = Append(values, v)
    BY <1>6, Zenon DEF AddPage, value, bytes, page
  <2> HIDE DEF v
  <2>3. /\ Append(values, v) \in Seq(Filling) /\ Append(values, v) # <<>>
        /\ FlattenSeq(PagesOf(Append(values, v))) = FlattenSeq(PagesOf(values)) \o v.pages
    BY <1>2, <2>1, PagesOfAppend, Zenon
  <2> QED
    BY <1>2, <1>3, <2>1, <2>2, <2>3, Zenon DEF HoldPages, all
<1>7. CASE ~Full(value.bytes)
  <2> DEFINE v == [bytes |-> value.bytes + bytes, pages |-> Append(value.pages, page)]
  <2>1. v \in Filling /\ v.pages = Append(value.pages, page)
    <3>1. value.bytes + bytes \in Nat /\ Append(value.pages, page) \in Seq(P)
      BY <1>1, <1>5
    <3> QED
      BY <3>1 DEF Filling
  <2>2. AddPage(f, c, values, i) = Append(front, v)
    BY <1>7, Zenon DEF AddPage, value, front, bytes, page
  <2> HIDE DEF v
  <2>3. /\ Append(front, v) \in Seq(Filling) /\ Append(front, v) # <<>>
        /\ FlattenSeq(PagesOf(Append(front, v))) = FlattenSeq(PagesOf(front)) \o v.pages
    BY <1>4, <2>1, PagesOfAppend, Zenon
  <2>4. /\ FlattenSeq(PagesOf(values)) = FlattenSeq(PagesOf(front)) \o value.pages
        /\ FlattenSeq(PagesOf(front)) \in Seq(P)
    BY <1>4, PagesOfAppend, Zenon
  <2> DEFINE a == FlattenSeq(PagesOf(front))
             b == value.pages
  <2>5. a \in Seq(P) /\ b \in Seq(P)
    BY <1>5, <2>4
  <2> HIDE DEF a, b, P
  <2>6. a \o Append(b, page) = (a \o b) \o <<page>>
    BY <1>1, <2>5
  <2>7. FlattenSeq(PagesOf(Append(front, v))) = SubSeq(all, 1, i)
    BY <1>2, <1>3, <2>1, <2>3, <2>4, <2>6, Zenon DEF a, b
  <2> QED
    BY <2>2, <2>3, <2>7, Zenon DEF HoldPages, all
<1> QED
  BY <1>6, <1>7

\* The values while they are filled, up to page m, as ValuesOf computes them.
IsCut(f, c, g, m) ==
  g = [i \in 0..m |-> IF i = 0 THEN FirstFilling ELSE AddPage(f, c, g[i - 1], i)]

\* There is such a function.
LEMMA CutExists ==
  ASSUME NEW f \in Files, NEW c \in Columns
  PROVE  \E g : IsCut(f, c, g, PagesNo(f, c))
<1> DEFINE n == PagesNo(f, c)
           G == {m \in 0..n : \E g : IsCut(f, c, g, m)}
<1>1. n \in Nat
  BY PageEnds, Zenon
<1> HIDE DEF n
<1>2. 0 \in G
  <2> DEFINE h == [i \in 0..0 |-> FirstFilling]
  <2>1. \A i \in 0..0 : h[i] = IF i = 0 THEN FirstFilling ELSE AddPage(f, c, h[i - 1], i)
    OBVIOUS
  <2>2. h = [i \in 0..0 |-> h[i]]
    BY Zenon
  <2> HIDE DEF h
  <2>3. IsCut(f, c, h, 0)
    BY <2>1, <2>2, Zenon DEF IsCut
  <2> QED
    BY <1>1, <2>3
<1>3. ASSUME NEW m \in 1..n, m - 1 \in G PROVE m \in G
  <2>1. PICK g : IsCut(f, c, g, m - 1)
    BY <1>3
  <2> DEFINE h == [i \in 0..m |-> IF i = m THEN AddPage(f, c, g[m - 1], m) ELSE g[i]]
  <2>2. \A i \in 0..m : h[i] = IF i = m THEN AddPage(f, c, g[m - 1], m) ELSE g[i]
    BY Zenon
  <2>3. \A i \in 0..m - 1 : g[i] = IF i = 0 THEN FirstFilling ELSE AddPage(f, c, g[i - 1], i)
    BY <2>1, Zenon DEF IsCut
  <2>4. h = [i \in 0..m |-> h[i]]
    BY Zenon
  <2> HIDE DEF h
  <2>5. \A i \in 0..m - 1 : h[i] = g[i]
    <3> SUFFICES ASSUME NEW i \in 0..m - 1 PROVE h[i] = g[i]
      OBVIOUS
    <3>1. i \in 0..m /\ i # m
      BY <1>1
    <3> QED
      BY <2>2, <3>1, Zenon
  <2>6. \A i \in 0..m : h[i] = IF i = 0 THEN FirstFilling ELSE AddPage(f, c, h[i - 1], i)
    <3> SUFFICES ASSUME NEW i \in 0..m PROVE h[i] = IF i = 0 THEN FirstFilling ELSE AddPage(f, c, h[i - 1], i)
      OBVIOUS
    <3>1. CASE i = m
      <4>1. m # 0 /\ m - 1 \in 0..m - 1 /\ m \in 0..m
        BY <1>1
      <4>2. h[m] = AddPage(f, c, g[m - 1], m) /\ h[m - 1] = g[m - 1]
        BY <2>2, <2>5, <4>1, Zenon
      <4> QED
        BY <3>1, <4>1, <4>2, Zenon
    <3>2. CASE i # m
      <4>1. i \in 0..m - 1
        BY <1>1, <3>2
      <4>2. CASE i = 0
        BY <2>3, <2>5, <4>1, <4>2, Zenon
      <4>3. CASE i # 0
        <5>1. i - 1 \in 0..m - 1
          BY <1>1, <4>1, <4>3
        <5> QED
          BY <2>3, <2>5, <4>1, <4>3, <5>1, Zenon
      <4> QED
        BY <4>2, <4>3, Zenon
    <3> QED
      BY <3>1, <3>2, Zenon
  <2>7. IsCut(f, c, h, m)
    BY <2>4, <2>6, Zenon DEF IsCut
  <2>8. m \in 0..n
    BY <1>1
  <2> QED
    BY <2>7, <2>8, Zenon
<1> HIDE DEF G
<1>4. n \in G
  <2>1. \A m \in 0..n : m \in G
    BY <1>1, <1>2, <1>3, EveryStep
  <2> QED
    BY <1>1, <2>1
<1> QED
  BY <1>4 DEF G, n

\* The values of a column hold its pages in order.
LEMMA ValuesHoldPages ==
  ASSUME NEW f \in Files, NEW c \in Columns
  PROVE  HoldPages(f, c, ValuesOf(f, c), PagesNo(f, c))
<1> DEFINE n == PagesNo(f, c)
           cut == CHOOSE g : IsCut(f, c, g, n)
           G == {i \in 0..n : HoldPages(f, c, cut[i], i)}
<1>1. n \in Nat
  BY PageEnds, Zenon
<1>2. IsCut(f, c, cut, n)
  BY CutExists, Zenon
<1>3. ValuesOf(f, c) = cut[n]
  BY Zenon DEF ValuesOf, IsCut, PagesNo, FirstFilling
<1> HIDE DEF cut, n
<1>4. \A i \in 0..n : cut[i] = IF i = 0 THEN FirstFilling ELSE AddPage(f, c, cut[i - 1], i)
  BY <1>2, Zenon DEF IsCut
<1>5. 0 \in G
  <2> DEFINE v == [bytes |-> 0, pages |-> <<>>]
             P == Seq(Entry)
  <2>1. cut[0] = <<v>>
    BY <1>1, <1>4 DEF FirstFilling
  <2>2. v \in Filling /\ v.pages = <<>>
    <3>1. <<>> \in Seq(Seq(Entry))
      OBVIOUS
    <3> QED
      BY <3>1 DEF Filling
  <2> HIDE DEF v
  <2>3. <<v>> = Append(<<>>, v) /\ <<>> \in Seq(Filling)
    OBVIOUS
  <2>4. /\ <<v>> \in Seq(Filling) /\ <<v>> # <<>>
        /\ FlattenSeq(PagesOf(<<v>>)) = FlattenSeq(PagesOf(<<>>)) \o v.pages
    BY <2>2, <2>3, PagesOfAppend, Zenon
  <2>5. FlattenSeq(PagesOf(<<>>)) = <<>>
    <3>1. PagesOf(<<>>) \in Seq(Seq(Seq(Entry))) /\ Len(PagesOf(<<>>)) = Len(<<>>)
      BY <2>3, PagesOfType, Zenon
    <3> DEFINE Q == Seq(Seq(Entry))
    <3>2. PagesOf(<<>>) \in Seq(Q) /\ Len(PagesOf(<<>>)) = 0
      BY <3>1
    <3> HIDE DEF Q
    <3>3. PagesOf(<<>>) = <<>>
      BY <3>2
    <3> QED
      BY <3>3 DEF FlattenSeq
  <2>6. <<>> \o <<>> = <<>> /\ SubSeq(AllPages(f, c), 1, 0) = <<>>
    <3> DEFINE all == AllPages(f, c)
    <3>1. all \in Seq(P)
      BY PageIs, Zenon
    <3> HIDE DEF all, P
    <3> QED
      BY <3>1 DEF all
  <2>7. HoldPages(f, c, cut[0], 0)
    BY <2>1, <2>2, <2>4, <2>5, <2>6, Zenon DEF HoldPages
  <2> QED
    BY <1>1, <2>7
<1>6. ASSUME NEW i \in 1..n, i - 1 \in G PROVE i \in G
  <2>1. HoldPages(f, c, cut[i - 1], i - 1)
    BY <1>6
  <2>2. i \in 1..PagesNo(f, c)
    BY DEF n
  <2>3. HoldPages(f, c, AddPage(f, c, cut[i - 1], i), i)
    BY <2>1, <2>2, PageAdded, Zenon
  <2>4. i \in 0..n /\ i # 0
    BY <1>1
  <2>5. cut[i] = AddPage(f, c, cut[i - 1], i)
    BY <1>4, <2>4, Zenon
  <2> QED
    BY <2>3, <2>4, <2>5, Zenon
<1> HIDE DEF G
<1>7. n \in G
  <2>1. \A i \in 0..n : i \in G
    BY <1>1, <1>5, <1>6, EveryStep
  <2> QED
    BY <1>1, <2>1
<1> QED
  BY <1>3, <1>7, Zenon DEF G, n

\* Whatever is stored.
Stored == {Data(f, pages) : f \in Files, pages \in Seq(Seq(Entry))} \cup {MetaValue(f) : f \in Files}

\* The parts of values.
LEMMA ValueParts ==
  /\ \A f, pages : /\ Data(f, pages).pages = pages /\ Data(f, pages).meta = None
                   /\ Data(f, pages).headed <=> f \in Headers
  /\ \A f : /\ MetaValue(f).pages = <<>> /\ MetaValue(f).meta = f /\ MetaValue(f).counts = Counts(f)
            /\ ~MetaValue(f).headed
<1>1. ASSUME NEW f, NEW pages
      PROVE  /\ Data(f, pages).pages = pages /\ Data(f, pages).meta = None
             /\ Data(f, pages).headed <=> f \in Headers
  BY Zenon DEF Data
<1>2. ASSUME NEW f
      PROVE  /\ MetaValue(f).pages = <<>> /\ MetaValue(f).meta = f /\ MetaValue(f).counts = Counts(f)
             /\ ~MetaValue(f).headed
  BY Zenon DEF MetaValue
<1> QED
  BY <1>1, <1>2, Zenon

\* They are stored.
LEMMA AreStored ==
  \A f \in Files : MetaValue(f) \in Stored /\ \A pages \in Seq(Seq(Entry)) : Data(f, pages) \in Stored
<1> DEFINE P == Seq(Seq(Entry))
<1> HIDE DEF P
<1>1. \A f \in Files : MetaValue(f) \in Stored
  BY DEF Stored
<1>2. \A f \in Files : \A pages \in P : Data(f, pages) \in Stored
  BY DEF Stored, P
<1> QED
  BY <1>1, <1>2 DEF P

\* The values of column c, and their pages.
Cut(f, c) == ColumnValues[f][c]
CutPages(f, c) == [i \in 1..Len(Cut(f, c)) |-> Cut(f, c)[i].pages]

\* What is known of them.
CutIs(f, c) ==
  /\ Cut(f, c) \in Seq(Stored) /\ Len(Cut(f, c)) \in Nat /\ Len(Cut(f, c)) >= 1
  /\ \A i \in 1..Len(Cut(f, c)) :
       /\ Cut(f, c)[i] = Data(f, Cut(f, c)[i].pages)
       /\ Cut(f, c)[i].pages \in Seq(Seq(Entry))
       /\ CutPages(f, c)[i] = Cut(f, c)[i].pages
  /\ CutPages(f, c) \in Seq(Seq(Seq(Entry))) /\ Len(CutPages(f, c)) = Len(Cut(f, c))
  /\ FlattenSeq(CutPages(f, c)) = AllPages(f, c)

\* The Divider cuts every column so.
LEMMA ColumnsCut ==
  ASSUME NEW f \in Files, NEW c \in Columns
  PROVE  CutIs(f, c)
<1> DEFINE w == ValuesOf(f, c)
           v == Cut(f, c)
           P == Seq(Seq(Entry))
           n == PagesNo(f, c)
<1>1. HoldPages(f, c, w, n)
  BY ValuesHoldPages, Zenon
<1>2. n \in Nat /\ AllPages(f, c) \in Seq(Seq(Entry)) /\ Len(AllPages(f, c)) = n
  BY PageEnds, PageIs, Zenon
<1>3. SubSeq(AllPages(f, c), 1, n) = AllPages(f, c)
  <2> DEFINE Y == Seq(Entry)
             all == AllPages(f, c)
  <2>1. all \in Seq(Y) /\ Len(all) = n
    BY <1>2
  <2> HIDE DEF Y, all, n
  <2>2. SubSeq(all, 1, n) = all
    BY <2>1
  <2> QED
    BY <2>2 DEF all
<1>4. /\ w \in Seq(Filling) /\ w # <<>> /\ FlattenSeq(PagesOf(w)) = AllPages(f, c)
  BY <1>1, <1>3, Zenon DEF HoldPages
<1> HIDE DEF w, n
<1>5. /\ PagesOf(w) \in Seq(P) /\ Len(PagesOf(w)) = Len(w) /\ \A j \in 1..Len(w) : PagesOf(w)[j] = w[j].pages
  BY <1>4, PagesOfType, Zenon
<1>6. Len(w) \in Nat /\ Len(w) >= 1 /\ DOMAIN w = 1..Len(w)
  BY <1>4
<1>7. \A j \in 1..Len(w) : w[j].pages \in P
  <2> HIDE DEF P
  <2>1. \A j \in 1..Len(w) : PagesOf(w)[j] \in P
    BY <1>5, <1>6
  <2> QED
    BY <1>5, <2>1, Zenon
<1>8. v = [i \in 1..Len(w) |-> Data(f, w[i].pages)]
  <2>1. c \in 1..ColumnsNo
    BY ColumnNumbers
  <2> QED
    BY <1>6, <2>1, Zenon DEF Cut, ColumnValues, w
<1> DEFINE vv == [i \in 1..Len(w) |-> Data(f, w[i].pages)]
<1>9. \A i \in 1..Len(w) : vv[i] = Data(f, w[i].pages) /\ vv[i] \in Stored
  <2> SUFFICES ASSUME NEW i \in 1..Len(w) PROVE vv[i] = Data(f, w[i].pages) /\ vv[i] \in Stored
    OBVIOUS
  <2>1. vv[i] = Data(f, w[i].pages)
    BY Zenon
  <2>2. Data(f, w[i].pages) \in Stored
    BY <1>7, AreStored, Zenon
  <2> QED
    BY <2>1, <2>2, Zenon
<1>10. vv \in [1..Len(w) -> Stored]
  BY <1>9, Zenon
<1> HIDE DEF vv
<1>11. vv \in Seq(Stored) /\ Len(vv) = Len(w)
  BY <1>6, <1>10
<1>12. v = vv
  BY <1>8 DEF vv
<1> HIDE DEF v
<1>13. \A i \in 1..Len(w) : v[i] = Data(f, w[i].pages) /\ v[i].pages = w[i].pages
  <2> SUFFICES ASSUME NEW i \in 1..Len(w) PROVE v[i] = Data(f, w[i].pages) /\ v[i].pages = w[i].pages
    OBVIOUS
  <2>1. v[i] = Data(f, w[i].pages)
    BY <1>9, <1>12, Zenon
  <2>2. Data(f, w[i].pages).pages = w[i].pages
    BY ValueParts, Zenon
  <2> QED
    BY <2>1, <2>2, Zenon
<1>14. CutPages(f, c) = PagesOf(w)
  <2>1. Len(v) = Len(w)
    BY <1>11, <1>12
  <2>2. CutPages(f, c) = [i \in 1..Len(w) |-> v[i].pages]
    BY <2>1, Zenon DEF CutPages, v
  <2>3. [i \in 1..Len(w) |-> v[i].pages] = [i \in 1..Len(w) |-> w[i].pages]
    BY <1>13, Zenon
  <2> QED
    BY <2>2, <2>3, Zenon DEF PagesOf
<1> HIDE DEF P
<1>15. /\ v \in Seq(Stored) /\ Len(v) \in Nat /\ Len(v) >= 1 /\ Len(v) = Len(w)
  BY <1>6, <1>11, <1>12
<1>16. \A i \in 1..Len(v) : /\ v[i] = Data(f, v[i].pages)
                            /\ v[i].pages \in P
                            /\ CutPages(f, c)[i] = v[i].pages
  BY <1>5, <1>7, <1>13, <1>14, <1>15, Zenon
<1>17. /\ CutPages(f, c) \in Seq(P) /\ Len(CutPages(f, c)) = Len(v)
       /\ FlattenSeq(CutPages(f, c)) = AllPages(f, c)
  BY <1>4, <1>5, <1>14, <1>15, Zenon
<1> QED
  BY <1>15, <1>16, <1>17, Zenon DEF CutIs, v, P

\* Where the values of the columns are in the array.
DivideIs(f) ==
  /\ DivideFile(f) \in Seq(Stored) /\ Counts(f)[1] = 0
  /\ \A c \in 1..ColumnsNo + 1 : Counts(f)[c] \in Nat
  /\ Len(DivideFile(f)) = Counts(f)[ColumnsNo + 1] + 1
  /\ DivideFile(f)[Len(DivideFile(f))] = MetaValue(f)
  /\ \A c \in Columns : Counts(f)[c + 1] = Counts(f)[c] + Len(Cut(f, c))
  /\ \A c \in Columns : \A i \in 1..Len(Cut(f, c)) :
       /\ Counts(f)[c] + i \in 1..Counts(f)[ColumnsNo + 1]
       /\ DivideFile(f)[Counts(f)[c] + i] = Cut(f, c)[i]
  /\ \A a \in 1..Counts(f)[ColumnsNo + 1] : \E c \in Columns : \E i \in 1..Len(Cut(f, c)) :
       a = Counts(f)[c] + i /\ DivideFile(f)[a] = Cut(f, c)[i]

\* The Divider's array is so.
LEMMA FileDivided ==
  ASSUME NEW f \in Files
  PROVE  DivideIs(f)
<1> DEFINE s == ColumnValues[f]
           n == Counts(f)
           all == FlattenSeq(s)
           d == DivideFile(f)
<1>1. Columns = 1..ColumnsNo /\ ColumnsNo \in Nat /\ ColumnsNo >= 1
  BY ColumnNumbers, Zenon
<1>2. \A c \in 1..ColumnsNo : s[c] = Cut(f, c) /\ s[c] \in Seq(Stored) /\ Len(s[c]) \in Nat /\ Len(s[c]) >= 1
  BY <1>1, ColumnsCut, Zenon DEF CutIs, Cut
<1>3. s \in Seq(Seq(Stored)) /\ Len(s) = ColumnsNo
  <2> DEFINE Y == Seq(Stored)
  <2>1. s = [c \in 1..ColumnsNo |-> s[c]]
    BY Zenon DEF ColumnValues
  <2> HIDE DEF s, Y
  <2>2. \A c \in 1..ColumnsNo : s[c] \in Y
    BY <1>2, Zenon DEF Y
  <2>3. s \in [1..ColumnsNo -> Y]
    BY <2>1, <2>2, Zenon
  <2>4. s \in Seq(Y) /\ Len(s) = ColumnsNo
    BY <1>1, <2>3
  <2> QED
    BY <2>4 DEF Y
<1> HIDE DEF s
<1>4. \A c \in 1..ColumnsNo + 1 : n[c] = Len(Flat(s, c - 1))
  BY Zenon DEF Counts, Flat, s
<1> HIDE DEF n
<1>5. /\ Flat(s, 0) = <<>> /\ Flat(s, ColumnsNo) = all /\ all \in Seq(Stored)
  BY <1>3, FlatSteps, Zenon
<1>6. /\ \A i \in 0..ColumnsNo : Len(Flat(s, i)) \in Nat
      /\ \A i \in 1..ColumnsNo : Len(Flat(s, i)) = Len(Flat(s, i - 1)) + Len(s[i])
  BY <1>3, FlatLengths, Zenon
<1>7. /\ n[1] = 0
  <2>1. 1 \in 1..ColumnsNo + 1 /\ 1 - 1 = 0
    BY <1>1
  <2>2. n[1] = Len(Flat(s, 1 - 1))
    BY <1>4, <2>1, Zenon
  <2> QED
    BY <1>5, <2>1, <2>2
<1>8. \A c \in 1..ColumnsNo + 1 : n[c] \in Nat
  <2> SUFFICES ASSUME NEW c \in 1..ColumnsNo + 1 PROVE n[c] \in Nat
    OBVIOUS
  <2>1. c - 1 \in 0..ColumnsNo
    BY <1>1
  <2> QED
    BY <1>4, <1>6, <2>1, Zenon
<1>9. \A c \in Columns : n[c + 1] = n[c] + Len(s[c])
  <2> SUFFICES ASSUME NEW c \in 1..ColumnsNo PROVE n[c + 1] = n[c] + Len(s[c])
    BY <1>1
  <2>1. c \in 1..ColumnsNo + 1 /\ c + 1 \in 1..ColumnsNo + 1 /\ (c + 1) - 1 = c
    BY <1>1
  <2>2. n[c + 1] = Len(Flat(s, (c + 1) - 1)) /\ n[c] = Len(Flat(s, c - 1))
    BY <1>4, <2>1, Zenon
  <2>3. Len(Flat(s, c)) = Len(Flat(s, c - 1)) + Len(s[c])
    BY <1>6, Zenon
  <2> QED
    BY <2>1, <2>2, <2>3, Zenon
<1> DEFINE top == n[ColumnsNo + 1]
<1>10. Len(all) = top
  <2>1. ColumnsNo + 1 \in 1..ColumnsNo + 1 /\ (ColumnsNo + 1) - 1 = ColumnsNo
    BY <1>1
  <2>2. top = Len(Flat(s, (ColumnsNo + 1) - 1))
    BY <1>4, <2>1, Zenon
  <2> QED
    BY <1>5, <2>1, <2>2, Zenon
<1>11. d = Append(all, MetaValue(f)) /\ MetaValue(f) \in Stored
  BY AreStored, Zenon DEF DivideFile, s
<1> DEFINE mv == MetaValue(f)
<1> HIDE DEF d, all, mv, top
<1>12. /\ d \in Seq(Stored) /\ Len(d) = top + 1 /\ d[Len(d)] = mv /\ top \in Nat
       /\ \A a \in 1..top : d[a] = all[a]
  <2>1. d = Append(all, mv) /\ mv \in Stored /\ all \in Seq(Stored) /\ Len(all) = top
    BY <1>5, <1>10, <1>11 DEF mv
  <2> QED
    BY <2>1, AppendProperties
<1>13. \A c \in Columns : \A i \in 1..Len(s[c]) : n[c] + i \in 1..top /\ d[n[c] + i] = s[c][i]
  <2> SUFFICES ASSUME NEW c \in 1..ColumnsNo, NEW i \in 1..Len(s[c])
               PROVE  n[c] + i \in 1..top /\ d[n[c] + i] = s[c][i]
    BY <1>1
  <2>1. c \in 1..Len(s) /\ c \in 1..ColumnsNo + 1
    BY <1>1, <1>3
  <2>2. n[c] = Len(Flat(s, c - 1))
    BY <1>4, <2>1, Zenon
  <2>3. /\ Len(Flat(s, c - 1)) + i \in 1..Len(FlattenSeq(s))
        /\ FlattenSeq(s)[Len(Flat(s, c - 1)) + i] = s[c][i]
    BY <1>3, <2>1, FlattenAt, Zenon
  <2>4. n[c] + i \in 1..top /\ all[n[c] + i] = s[c][i]
    BY <1>10, <2>2, <2>3, Zenon DEF all
  <2> QED
    BY <1>12, <2>4, Zenon
<1>14. \A a \in 1..top : \E c \in Columns : \E i \in 1..Len(s[c]) : a = n[c] + i /\ d[a] = s[c][i]
  <2> SUFFICES ASSUME NEW a \in 1..top
               PROVE  \E c \in Columns : \E i \in 1..Len(s[c]) : a = n[c] + i /\ d[a] = s[c][i]
    OBVIOUS
  <2>1. a \in 1..Len(FlattenSeq(s))
    BY <1>10, Zenon DEF all
  <2>2. PICK c \in 1..Len(s) : \E i \in 1..Len(s[c]) :
               a = Len(Flat(s, c - 1)) + i /\ FlattenSeq(s)[a] = s[c][i]
    BY <1>3, <2>1, FlattenWhere, Zenon
  <2>3. PICK i \in 1..Len(s[c]) : a = Len(Flat(s, c - 1)) + i /\ FlattenSeq(s)[a] = s[c][i]
    BY <2>2
  <2>4. c \in Columns /\ c \in 1..ColumnsNo + 1
    BY <1>1, <1>3
  <2>5. n[c] = Len(Flat(s, c - 1))
    BY <1>4, <2>4, Zenon
  <2>6. a = n[c] + i /\ d[a] = s[c][i]
    BY <1>12, <2>3, <2>5, Zenon DEF all
  <2> QED
    BY <2>4, <2>6, Zenon
<1>15. \A c \in Columns : s[c] = Cut(f, c)
  BY DEF s, Cut
<1>16. \A c \in Columns : n[c + 1] = n[c] + Len(Cut(f, c))
  BY <1>9, <1>15, Zenon
<1>17. \A c \in Columns : \A i \in 1..Len(Cut(f, c)) : n[c] + i \in 1..top /\ d[n[c] + i] = Cut(f, c)[i]
  BY <1>13, <1>15, Zenon
<1>18. \A a \in 1..top : \E c \in Columns : \E i \in 1..Len(Cut(f, c)) : a = n[c] + i /\ d[a] = Cut(f, c)[i]
  <2> SUFFICES ASSUME NEW a \in 1..top
               PROVE  \E c \in Columns : \E i \in 1..Len(Cut(f, c)) : a = n[c] + i /\ d[a] = Cut(f, c)[i]
    OBVIOUS
  <2>1. PICK c \in Columns : \E i \in 1..Len(s[c]) : a = n[c] + i /\ d[a] = s[c][i]
    BY <1>14, Zenon
  <2>2. s[c] = Cut(f, c)
    BY <1>15, Zenon
  <2> QED
    BY <2>1, <2>2, Zenon
<1> QED
  BY <1>7, <1>8, <1>12, <1>16, <1>17, <1>18, Zenon DEF DivideIs, n, d, top, mv

-----------------------------------------------------------------------------
(* The entries of a column, as batches read them. *)

\* Two sequences of sequences of the same lengths have corresponding elements in
\* what they make.
Parallel(s, t, a) ==
  \E i \in 1..Len(s) : \E j \in 1..Len(s[i]) : FlattenSeq(s)[a] = s[i][j] /\ FlattenSeq(t)[a] = t[i][j]

\* They have.
LEMMA FlattenParallel ==
  ASSUME NEW S, NEW s \in Seq(Seq(S)), NEW T, NEW t \in Seq(Seq(T)), Len(s) = Len(t),
         \A i \in 1..Len(s) : Len(s[i]) = Len(t[i])
  PROVE  /\ Len(FlattenSeq(s)) = Len(FlattenSeq(t))
         /\ \A a \in 1..Len(FlattenSeq(s)) : Parallel(s, t, a)
<1> DEFINE G == {i \in 0..Len(s) : Len(Flat(s, i)) = Len(Flat(t, i))}
<1>1. /\ Flat(s, 0) = <<>> /\ Len(s) \in Nat
      /\ \A i \in 1..Len(s) : Len(Flat(s, i)) = Len(Flat(s, i - 1)) + Len(s[i])
      /\ Flat(s, Len(s)) = FlattenSeq(s)
  <2>1. Len(s) \in Nat
    OBVIOUS
  <2> QED
    BY <2>1, FlatSteps, FlatLengths, Zenon
<1>2. /\ Flat(t, 0) = <<>>
      /\ \A i \in 1..Len(t) : Len(Flat(t, i)) = Len(Flat(t, i - 1)) + Len(t[i])
      /\ Flat(t, Len(t)) = FlattenSeq(t)
  BY FlatSteps, FlatLengths, Zenon
<1>3. 0 \in G
  <2>1. 0 \in 0..Len(s)
    BY <1>1
  <2> QED
    BY <1>1, <1>2, <2>1, Zenon
<1>4. ASSUME NEW i \in 1..Len(s), i - 1 \in G PROVE i \in G
  <2>1. Len(Flat(s, i - 1)) = Len(Flat(t, i - 1)) /\ Len(s[i]) = Len(t[i]) /\ i \in 1..Len(t)
    BY <1>4, Zenon
  <2>2. Len(Flat(s, i)) = Len(Flat(t, i))
    BY <1>1, <1>2, <2>1, Zenon
  <2>3. i \in 0..Len(s)
    BY <1>1
  <2> QED
    BY <2>2, <2>3
<1> HIDE DEF G
<1>5. \A i \in 0..Len(s) : i \in G
  BY <1>1, <1>3, <1>4, EveryStep
<1>6. \A i \in 0..Len(s) : Len(Flat(s, i)) = Len(Flat(t, i))
  BY <1>5 DEF G
<1>7. Len(FlattenSeq(s)) = Len(FlattenSeq(t))
  <2>1. Len(s) \in 0..Len(s)
    BY <1>1
  <2> QED
    BY <1>1, <1>2, <1>6, <2>1, Zenon
<1>8. ASSUME NEW a \in 1..Len(FlattenSeq(s)) PROVE Parallel(s, t, a)
  <2>1. PICK i \in 1..Len(s) : \E j \in 1..Len(s[i]) : a = Len(Flat(s, i - 1)) + j /\ FlattenSeq(s)[a] = s[i][j]
    BY FlattenWhere, Zenon
  <2>2. PICK j \in 1..Len(s[i]) : a = Len(Flat(s, i - 1)) + j /\ FlattenSeq(s)[a] = s[i][j]
    BY <2>1
  <2>3. i \in 1..Len(t) /\ j \in 1..Len(t[i])
    BY Zenon
  <2>4. FlattenSeq(t)[Len(Flat(t, i - 1)) + j] = t[i][j]
    BY <2>3, FlattenAt, Zenon
  <2>5. i - 1 \in 0..Len(s)
    BY <1>1
  <2>6. FlattenSeq(t)[a] = t[i][j]
    BY <1>6, <2>2, <2>4, <2>5, Zenon
  <2> QED
    BY <2>2, <2>6, Zenon DEF Parallel
<1> QED
  BY <1>7, <1>8, Zenon

\* Sequences of sequences of sequences: what they make each, one after the other.
Each(s) == [i \in 1..Len(s) |-> FlattenSeq(s[i])]

\* It makes no difference in which order they are flattened.
LEMMA FlattenTwice ==
  ASSUME NEW S, NEW s \in Seq(Seq(Seq(S)))
  PROVE  /\ Each(s) \in Seq(Seq(S)) /\ Len(Each(s)) = Len(s) /\ Len(s) \in Nat
         /\ \A i \in 1..Len(s) : Each(s)[i] = FlattenSeq(s[i])
         /\ \A i \in 0..Len(s) : FlattenSeq(Flat(s, i)) = Flat(Each(s), i)
         /\ FlattenSeq(FlattenSeq(s)) = FlattenSeq(Each(s))
<1> DEFINE P == Seq(S)
           Q == Seq(P)
           e == Each(s)
           G == {i \in 0..Len(s) : FlattenSeq(Flat(s, i)) = Flat(e, i)}
<1>1. s \in Seq(Q) /\ Len(s) \in Nat
  OBVIOUS
<1>2. \A i \in 1..Len(s) : s[i] \in Q
  <2> HIDE DEF Q
  <2> QED
    BY <1>1
<1>3. \A i \in 1..Len(s) : FlattenSeq(s[i]) \in P
  BY <1>2, FlattenType, Zenon
<1>4. e \in [1..Len(s) -> P] /\ \A i \in 1..Len(s) : e[i] = FlattenSeq(s[i])
  BY <1>3, Zenon DEF Each
<1> HIDE DEF e, P
<1>5. e \in Seq(P) /\ Len(e) = Len(s)
  <2> DEFINE n == Len(s)
  <2>1. n \in Nat /\ e \in [1..n -> P]
    BY <1>1, <1>4, Zenon
  <2> HIDE DEF n
  <2>2. e \in Seq(P) /\ Len(e) = n
    BY <2>1
  <2> QED
    BY <2>2 DEF n
<1>6. /\ Flat(s, 0) = <<>> /\ \A i \in 0..Len(s) : Flat(s, i) \in Seq(P)
      /\ \A i \in 1..Len(s) : Flat(s, i) = Flat(s, i - 1) \o s[i]
      /\ Flat(s, Len(s)) = FlattenSeq(s)
  BY <1>1, FlatSteps, Zenon
<1>7. /\ Flat(e, 0) = <<>> /\ \A i \in 1..Len(s) : Flat(e, i) = Flat(e, i - 1) \o e[i]
      /\ Flat(e, Len(s)) = FlattenSeq(e)
  BY <1>5, FlatSteps, Zenon DEF P
<1>8. 0 \in G
  <2>1. FlattenSeq(<<>>) = <<>>
    BY DEF FlattenSeq
  <2>2. 0 \in 0..Len(s)
    BY <1>1
  <2> QED
    BY <1>6, <1>7, <2>1, <2>2, Zenon
<1>9. ASSUME NEW i \in 1..Len(s), i - 1 \in G PROVE i \in G
  <2>1. i \in 0..Len(s) /\ i - 1 \in 0..Len(s)
    BY <1>1
  <2>2. Flat(s, i - 1) \in Seq(P) /\ s[i] \in Seq(P)
    BY <1>2, <1>6, <2>1, Zenon
  <2>3. FlattenSeq(Flat(s, i - 1) \o s[i]) = FlattenSeq(Flat(s, i - 1)) \o FlattenSeq(s[i])
    BY <2>2, FlattenConcat, Zenon DEF P
  <2>4. FlattenSeq(Flat(s, i - 1)) = Flat(e, i - 1)
    BY <1>9, Zenon
  <2>5. FlattenSeq(Flat(s, i)) = Flat(e, i)
    BY <1>4, <1>6, <1>7, <2>3, <2>4, Zenon
  <2> QED
    BY <2>1, <2>5, Zenon
<1> HIDE DEF G
<1>10. \A i \in 0..Len(s) : i \in G
  BY <1>1, <1>8, <1>9, EveryStep
<1>11. \A i \in 0..Len(s) : FlattenSeq(Flat(s, i)) = Flat(e, i)
  BY <1>10 DEF G
<1>12. Len(s) \in 0..Len(s)
  BY <1>1
<1>13. FlattenSeq(FlattenSeq(s)) = FlattenSeq(e)
  BY <1>6, <1>7, <1>11, <1>12, Zenon
<1> QED
  BY <1>1, <1>4, <1>5, <1>11, <1>13, Zenon DEF e, P

\* The entries of a value's pages, as Entries marks them.
Mark == [value : Nat, page : Nat, offset : Nat]
Marked == [at : Mark, entry : Entry, left : Nat]
Line(page, v, p) ==
  [o \in 1..Len(page) |-> [at |-> At(v, p - 1, o), entry |-> page[o], left |-> Len(page) - o]]
Lines(pages, v) == [p \in 1..Len(pages) |-> Line(pages[p], v, p)]
Before(a, b) == a.page < b.page \/ (a.page = b.page /\ a.offset < b.offset)

\* The marks of the lines.
LEMMA LinesAre ==
  ASSUME NEW pages \in Seq(Seq(Entry)), NEW v \in Nat
  PROVE  /\ Lines(pages, v) \in Seq(Seq(Marked)) /\ Len(Lines(pages, v)) = Len(pages)
         /\ \A p \in 1..Len(pages) :
              /\ Len(Lines(pages, v)[p]) = Len(pages[p]) /\ Len(pages[p]) \in Nat
              /\ \A o \in 1..Len(pages[p]) :
                   /\ Lines(pages, v)[p][o].entry = pages[p][o]
                   /\ Lines(pages, v)[p][o].left = Len(pages[p]) - o
                   /\ Lines(pages, v)[p][o].at = At(v, p - 1, o)
<1> DEFINE P == Seq(Entry)
           M == Seq(Marked)
<1>1. pages \in Seq(P) /\ Len(pages) \in Nat
  OBVIOUS
<1>2. \A p \in 1..Len(pages) : pages[p] \in P
  <2> HIDE DEF P
  <2> QED
    BY <1>1
<1>3. ASSUME NEW p \in 1..Len(pages)
      PROVE  /\ Line(pages[p], v, p) \in M
             /\ Len(Line(pages[p], v, p)) = Len(pages[p]) /\ Len(pages[p]) \in Nat
             /\ \A o \in 1..Len(pages[p]) :
                  /\ Line(pages[p], v, p)[o].entry = pages[p][o]
                  /\ Line(pages[p], v, p)[o].left = Len(pages[p]) - o
                  /\ Line(pages[p], v, p)[o].at = At(v, p - 1, o)
  <2> DEFINE g == pages[p]
             n == Len(g)
             l == [o \in 1..n |-> [at |-> At(v, p - 1, o), entry |-> g[o], left |-> n - o]]
  <2>1. g \in Seq(Entry)
    BY <1>2
  <2> HIDE DEF g
  <2>2. n \in Nat /\ \A o \in 1..n : g[o] \in Entry
    BY <2>1
  <2> HIDE DEF n
  <2>3. \A o \in 1..n : [at |-> At(v, p - 1, o), entry |-> g[o], left |-> n - o] \in Marked
    <3> SUFFICES ASSUME NEW o \in 1..n
                 PROVE  [at |-> At(v, p - 1, o), entry |-> g[o], left |-> n - o] \in Marked
      OBVIOUS
    <3>1. p - 1 \in Nat /\ o \in Nat /\ n - o \in Nat
      BY <1>1, <2>2
    <3>2. At(v, p - 1, o) \in Mark
      BY <3>1 DEF At, Mark
    <3> QED
      BY <2>2, <3>1, <3>2 DEF Marked
  <2>4. l \in [1..n -> Marked]
    BY <2>3, Zenon
  <2>5. \A o \in 1..n : l[o].entry = g[o] /\ l[o].left = n - o /\ l[o].at = At(v, p - 1, o)
    OBVIOUS
  <2>6. Line(g, v, p) = l
    BY Zenon DEF Line, n
  <2> HIDE DEF l
  <2>7. l \in M /\ Len(l) = n
    BY <2>2, <2>4
  <2> QED
    BY <2>2, <2>5, <2>6, <2>7, Zenon DEF n, g
<1> DEFINE s == Lines(pages, v)
<1>4. \A p \in 1..Len(pages) : s[p] = Line(pages[p], v, p)
  BY Zenon DEF Lines
<1>5. s \in [1..Len(pages) -> M]
  BY <1>3, Zenon DEF Lines
<1> HIDE DEF s, P
<1>6. s \in Seq(M) /\ Len(s) = Len(pages)
  <2> DEFINE n == Len(pages)
  <2>1. n \in Nat /\ s \in [1..n -> M]
    BY <1>1, <1>5, Zenon
  <2> HIDE DEF n, M
  <2>2. s \in Seq(M) /\ Len(s) = n
    BY <2>1
  <2> QED
    BY <2>2 DEF n
<1> QED
  BY <1>3, <1>4, <1>6, Zenon DEF s

\* The entries of pages, in order, each with its place.
EntriesOK(e, pages, v) ==
  /\ e \in Seq(Marked) /\ Len(e) = Len(FlattenSeq(pages)) /\ FlattenSeq(pages) \in Seq(Entry)
  /\ \A j \in 1..Len(e) :
       /\ e[j].entry = FlattenSeq(pages)[j] /\ e[j].at.value = v
       /\ e[j].at.offset \in 1..Len(pages[e[j].at.page + 1])
       /\ e[j].at.page + 1 \in 1..Len(pages)
       /\ e[j].left = Len(pages[e[j].at.page + 1]) - e[j].at.offset
  /\ \A j, l \in 1..Len(e) : j < l => Before(e[j].at, e[l].at)

\* Entries gives them.
LEMMA EntriesAre ==
  ASSUME NEW pages \in Seq(Seq(Entry)), NEW v \in Nat
  PROVE  EntriesOK(FlattenSeq(Lines(pages, v)), pages, v)
<1> DEFINE s == Lines(pages, v)
           e == FlattenSeq(s)
<1>1. /\ s \in Seq(Seq(Marked)) /\ Len(s) = Len(pages)
      /\ \A p \in 1..Len(pages) :
           /\ Len(s[p]) = Len(pages[p]) /\ Len(pages[p]) \in Nat
           /\ \A o \in 1..Len(pages[p]) :
                /\ s[p][o].entry = pages[p][o]
                /\ s[p][o].left = Len(pages[p]) - o
                /\ s[p][o].at = At(v, p - 1, o)
  BY LinesAre, Zenon
<1>2. Len(pages) \in Nat
  OBVIOUS
<1> HIDE DEF s
<1>3. /\ Len(e) = Len(FlattenSeq(pages)) /\ \A a \in 1..Len(e) : Parallel(s, pages, a)
  BY <1>1, FlattenParallel, Zenon
<1>4. e \in Seq(Marked) /\ FlattenSeq(pages) \in Seq(Entry)
  BY <1>1, FlattenType, Zenon
<1>5. ASSUME NEW p \in 1..Len(pages), NEW o \in 1..Len(pages[p])
      PROVE  /\ s[p][o].entry = pages[p][o]
             /\ s[p][o].left = Len(pages[p]) - o
             /\ s[p][o].at.value = v /\ s[p][o].at.page = p - 1 /\ s[p][o].at.offset = o
             /\ s[p][o].at.page + 1 = p
  <2>1. /\ s[p][o].entry = pages[p][o] /\ s[p][o].left = Len(pages[p]) - o
        /\ s[p][o].at = At(v, p - 1, o)
    BY <1>1, Zenon
  <2>2. At(v, p - 1, o).value = v /\ At(v, p - 1, o).page = p - 1 /\ At(v, p - 1, o).offset = o
    BY DEF At
  <2>3. (p - 1) + 1 = p
    BY <1>2
  <2> QED
    BY <2>1, <2>2, <2>3, Zenon
<1>6. ASSUME NEW j \in 1..Len(e)
      PROVE  /\ e[j].entry = FlattenSeq(pages)[j] /\ e[j].at.value = v
             /\ e[j].at.offset \in 1..Len(pages[e[j].at.page + 1])
             /\ e[j].at.page + 1 \in 1..Len(pages)
             /\ e[j].left = Len(pages[e[j].at.page + 1]) - e[j].at.offset
  <2>1. PICK p \in 1..Len(s) : \E o \in 1..Len(s[p]) : e[j] = s[p][o] /\ FlattenSeq(pages)[j] = pages[p][o]
    BY <1>3, Zenon DEF Parallel
  <2>2. PICK o \in 1..Len(s[p]) : e[j] = s[p][o] /\ FlattenSeq(pages)[j] = pages[p][o]
    BY <2>1
  <2>3. p \in 1..Len(pages) /\ o \in 1..Len(pages[p])
    BY <1>1, <2>1, <2>2, Zenon
  <2> DEFINE x == s[p][o]
  <2>4. /\ x.entry = pages[p][o] /\ x.left = Len(pages[p]) - o
        /\ x.at.value = v /\ x.at.offset = o /\ x.at.page + 1 = p
    BY <1>5, <2>3, Zenon
  <2>5. e[j] = x /\ FlattenSeq(pages)[j] = pages[p][o]
    BY <2>2, Zenon
  <2> HIDE DEF e, x
  <2> QED
    BY <2>3, <2>4, <2>5
<1>7. ASSUME NEW j \in 1..Len(e), NEW l \in 1..Len(e), j < l
      PROVE  Before(e[j].at, e[l].at)
  <2>0. Comes(s, j) /\ Comes(s, l)
    BY <1>1, AllCome, Zenon
  <2>1. PICK p \in 1..Len(s) : \E o \in 1..Len(s[p]) : j = Len(Flat(s, p - 1)) + o /\ e[j] = s[p][o]
    BY <2>0, Zenon DEF Comes
  <2>2. PICK o \in 1..Len(s[p]) : j = Len(Flat(s, p - 1)) + o /\ e[j] = s[p][o]
    BY <2>1
  <2>3. PICK q \in 1..Len(s) : \E u \in 1..Len(s[q]) : l = Len(Flat(s, q - 1)) + u /\ e[l] = s[q][u]
    BY <2>0, Zenon DEF Comes
  <2>4. PICK u \in 1..Len(s[q]) : l = Len(Flat(s, q - 1)) + u /\ e[l] = s[q][u]
    BY <2>3
  <2>5. p < q \/ (p = q /\ o < u)
    <3>1. Len(Flat(s, p - 1)) + o < Len(Flat(s, q - 1)) + u
      BY <1>7, <2>2, <2>4, Zenon
    <3> QED
      BY <1>1, <3>1, FlattenOrder, Zenon
  <2>6. p \in 1..Len(pages) /\ o \in 1..Len(pages[p]) /\ q \in 1..Len(pages) /\ u \in 1..Len(pages[q])
    BY <1>1, <2>1, <2>2, <2>3, <2>4, Zenon
  <2>7. e[j].at.page = p - 1 /\ e[j].at.offset = o /\ e[l].at.page = q - 1 /\ e[l].at.offset = u
    <3>1. s[p][o].at.page = p - 1 /\ s[p][o].at.offset = o
      BY <1>5, <2>6, Zenon
    <3>2. s[q][u].at.page = q - 1 /\ s[q][u].at.offset = u
      BY <1>5, <2>6, Zenon
    <3> QED
      BY <2>2, <2>4, <3>1, <3>2, Zenon
  <2>8. p - 1 < q - 1 \/ (p - 1 = q - 1 /\ o < u)
    BY <1>2, <2>5, <2>6
  <2> HIDE DEF e
  <2> QED
    BY <2>7, <2>8, Zenon DEF Before
<1> QED
  BY <1>3, <1>4, <1>6, <1>7, Zenon DEF EntriesOK, s

\* Values with page headers are read, others are not.
LEMMA EntriesRead ==
  ASSUME NEW value \in Stored, NEW v \in Nat
  PROVE  /\ value.pages \in Seq(Seq(Entry)) /\ Entries(value, v) \in Seq(Marked)
         /\ Readable(value) \in Seq(Seq(Entry))
         /\ value.headed => Readable(value) = value.pages /\ Entries(value, v) = FlattenSeq(Lines(value.pages, v))
         /\ ~value.headed => Readable(value) = <<>> /\ Entries(value, v) = <<>>
<1>1. value.pages \in Seq(Seq(Entry))
  <2> DEFINE P == Seq(Seq(Entry))
  <2>1. <<>> \in P
    OBVIOUS
  <2> HIDE DEF P
  <2>2. \/ \E f \in Files : \E pages \in P : value = Data(f, pages)
        \/ \E f \in Files : value = MetaValue(f)
    BY DEF Stored, P
  <2>3. CASE \E f \in Files : \E pages \in P : value = Data(f, pages)
    <3>1. PICK f \in Files, pages \in P : value = Data(f, pages)
      BY <2>3
    <3>2. Data(f, pages).pages = pages
      BY ValueParts, Zenon
    <3> QED
      BY <3>1, <3>2 DEF P
  <2>4. CASE \E f \in Files : value = MetaValue(f)
    <3>1. PICK f \in Files : value = MetaValue(f)
      BY <2>4
    <3>2. MetaValue(f).pages = <<>>
      BY ValueParts, Zenon
    <3> QED
      BY <2>1, <3>1, <3>2 DEF P
  <2> QED
    BY <2>2, <2>3, <2>4
<1>2. CASE value.headed
  <2> DEFINE pages == value.pages
  <2>1. Readable(value) = pages
    BY <1>2, Zenon DEF Readable
  <2>2. DOMAIN pages = 1..Len(pages) /\ \A p \in 1..Len(pages) : DOMAIN pages[p] = 1..Len(pages[p])
    <3> DEFINE P == Seq(Entry)
    <3>1. pages \in Seq(P)
      BY <1>1
    <3> HIDE DEF pages, P
    <3>2. DOMAIN pages = 1..Len(pages) /\ \A p \in 1..Len(pages) : pages[p] \in P
      BY <3>1
    <3> QED
      BY <3>2 DEF P
  <2> HIDE DEF pages
  <2>3. \A p \in 1..Len(pages) :
          [o \in DOMAIN pages[p] |-> [at |-> At(v, p - 1, o), entry |-> pages[p][o], left |-> Len(pages[p]) - o]]
            = Line(pages[p], v, p)
    BY <2>2, Zenon DEF Line
  <2>4. [p \in DOMAIN pages |->
           [o \in DOMAIN pages[p] |->
             [at |-> At(v, p - 1, o), entry |-> pages[p][o], left |-> Len(pages[p]) - o]]]
          = Lines(pages, v)
    BY <2>2, <2>3, Zenon DEF Lines
  <2>5. Entries(value, v) = FlattenSeq(Lines(pages, v))
    BY <2>1, <2>4, Zenon DEF Entries
  <2>6. Lines(pages, v) \in Seq(Seq(Marked))
    BY <1>1, LinesAre, Zenon DEF pages
  <2>7. FlattenSeq(Lines(pages, v)) \in Seq(Marked)
    BY <2>6, FlattenType, Zenon
  <2> QED
    BY <1>1, <1>2, <2>1, <2>5, <2>7, Zenon DEF pages
<1>3. CASE ~value.headed
  <2>1. Readable(value) = <<>>
    BY <1>3, Zenon DEF Readable
  <2> DEFINE empty == <<>>
             l == [p \in DOMAIN empty |->
                    [o \in DOMAIN empty[p] |->
                      [at |-> At(v, p - 1, o), entry |-> empty[p][o], left |-> Len(empty[p]) - o]]]
  <2>2. Entries(value, v) = FlattenSeq(l)
    BY <2>1, Zenon DEF Entries
  <2>3. l = <<>>
    OBVIOUS
  <2>4. FlattenSeq(<<>>) = <<>>
    BY DEF FlattenSeq
  <2>5. <<>> \in Seq(Marked) /\ <<>> \in Seq(Seq(Entry))
    OBVIOUS
  <2> QED
    BY <1>1, <1>3, <2>1, <2>2, <2>3, <2>4, <2>5, Zenon
<1> QED
  BY <1>2, <1>3, Zenon

\* The entries of all values of a column.
EntryLists(f, c) == [v \in 1..Len(Cut(f, c)) |-> Entries(Cut(f, c)[v], v - 1)]
FileTape(f, c) == FlattenSeq(EntryLists(f, c))

\* Where an entry is among the values.
Placed(f, c, x) ==
  /\ x.at.value + 1 \in 1..Len(Cut(f, c))
  /\ x.at.page + 1 \in 1..Len(Cut(f, c)[x.at.value + 1].pages)
  /\ x.at.offset \in 1..Len(Cut(f, c)[x.at.value + 1].pages[x.at.page + 1])
  /\ x.left = Len(Cut(f, c)[x.at.value + 1].pages[x.at.page + 1]) - x.at.offset
Earlier(a, b) == a.value < b.value \/ (a.value = b.value /\ Before(a, b))
TapeIs(f, c) ==
  /\ FileTape(f, c) \in Seq(Marked) /\ Len(FileTape(f, c)) = RowsOf(f, c)
  /\ \A r \in 1..Len(FileTape(f, c)) :
       FileTape(f, c)[r].entry = <<f, c, r>> /\ Placed(f, c, FileTape(f, c)[r])
  /\ \A r, s \in 1..Len(FileTape(f, c)) : r < s => Earlier(FileTape(f, c)[r].at, FileTape(f, c)[s].at)

\* EntryLists is a sequence of sequences; of a file without page headers nothing is read.
LEMMA ListsAre ==
  ASSUME NEW f \in Files, NEW c \in Columns
  PROVE  /\ EntryLists(f, c) \in Seq(Seq(Marked)) /\ Len(EntryLists(f, c)) = Len(Cut(f, c))
         /\ \A v \in 1..Len(Cut(f, c)) :
              /\ EntryLists(f, c)[v] = Entries(Cut(f, c)[v], v - 1)
              /\ f \in Headers => EntriesOK(EntryLists(f, c)[v], Cut(f, c)[v].pages, v - 1)
         /\ f \notin Headers => FileTape(f, c) = <<>>
<1> DEFINE w == Cut(f, c)
           s == EntryLists(f, c)
           M == Seq(Marked)
<1>1. /\ w \in Seq(Stored) /\ Len(w) \in Nat
      /\ \A i \in 1..Len(w) : /\ w[i] = Data(f, w[i].pages)
                              /\ w[i].pages \in Seq(Seq(Entry))
  BY ColumnsCut, Zenon DEF CutIs
<1> HIDE DEF w
<1>2. \A v \in 1..Len(w) : v - 1 \in Nat /\ w[v] \in Stored
  BY <1>1
<1>3. \A v \in 1..Len(w) : Entries(w[v], v - 1) \in M
  BY <1>2, EntriesRead, Zenon
<1>4. s \in [1..Len(w) -> M] /\ \A v \in 1..Len(w) : s[v] = Entries(w[v], v - 1)
  BY <1>3, Zenon DEF EntryLists, w
<1> HIDE DEF s
<1>5. s \in Seq(M) /\ Len(s) = Len(w)
  <2> HIDE DEF M
  <2> QED
    BY <1>1, <1>4
<1>6. \A v \in 1..Len(w) : w[v].headed <=> f \in Headers
  <2> SUFFICES ASSUME NEW v \in 1..Len(w) PROVE w[v].headed <=> f \in Headers
    OBVIOUS
  <2>1. w[v] = Data(f, w[v].pages)
    BY <1>1, Zenon
  <2>2. Data(f, w[v].pages).headed <=> f \in Headers
    BY ValueParts, Zenon
  <2> QED
    BY <2>1, <2>2, Zenon
<1>7. ASSUME f \in Headers, NEW v \in 1..Len(w) PROVE EntriesOK(s[v], w[v].pages, v - 1)
  <2>1. s[v] = FlattenSeq(Lines(w[v].pages, v - 1))
    BY <1>2, <1>4, <1>6, <1>7, EntriesRead, Zenon
  <2>2. EntriesOK(FlattenSeq(Lines(w[v].pages, v - 1)), w[v].pages, v - 1)
    BY <1>1, <1>2, EntriesAre, Zenon
  <2> QED
    BY <2>1, <2>2, Zenon
<1>8. ASSUME f \notin Headers PROVE FileTape(f, c) = <<>>
  <2>1. \A v \in 1..Len(w) : s[v] = <<>>
    BY <1>2, <1>4, <1>6, <1>8, EntriesRead, Zenon
  <2>2. FlattenSeq(s) = <<>>
    BY <1>5, <2>1, FlattenNone, Zenon
  <2> QED
    BY <2>2, Zenon DEF FileTape, s
<1> QED
  BY <1>4, <1>5, <1>7, <1>8, Zenon DEF s, w

\* With page headers, they are the rows in order, each later than the one before.
LEMMA TapesAre ==
  ASSUME NEW f \in Headers, NEW c \in Columns
  PROVE  TapeIs(f, c)
<1> DEFINE w == Cut(f, c)
           g == CutPages(f, c)
           s == EntryLists(f, c)
           e == Each(g)
           t == FileTape(f, c)
           n == RowsOf(f, c)
<1>1. f \in Files
  BY ColumnNumbers
<1>2. /\ Len(w) \in Nat /\ \A i \in 1..Len(w) : g[i] = w[i].pages
      /\ g \in Seq(Seq(Seq(Entry))) /\ Len(g) = Len(w)
      /\ FlattenSeq(g) = AllPages(f, c)
  BY <1>1, ColumnsCut, Zenon DEF CutIs
<1>3. /\ s \in Seq(Seq(Marked)) /\ Len(s) = Len(w)
      /\ \A v \in 1..Len(w) : EntriesOK(s[v], w[v].pages, v - 1)
  BY <1>1, ListsAre, Zenon
<1>4. t = FlattenSeq(s)
  BY DEF FileTape
<1> HIDE DEF g, s, w, t
<1>5. /\ e \in Seq(Seq(Entry)) /\ Len(e) = Len(g) /\ \A i \in 1..Len(g) : e[i] = FlattenSeq(g[i])
      /\ FlattenSeq(FlattenSeq(g)) = FlattenSeq(e)
  BY <1>2, FlattenTwice, Zenon
<1> HIDE DEF e
<1>6. FlattenSeq(e) = FileRows(f, c, n) /\ n \in Nat
  BY <1>1, <1>2, <1>5, PagesHoldRows, PageEnds, Zenon
<1>7. Len(FlattenSeq(e)) = n /\ \A r \in 1..n : FlattenSeq(e)[r] = <<f, c, r>>
  <2> HIDE DEF n
  <2>1. Len(FileRows(f, c, n)) = n /\ \A r \in 1..n : FileRows(f, c, n)[r] = <<f, c, r>>
    BY <1>1, <1>6, FileRowsAre, Zenon
  <2> QED
    BY <1>1, <1>6, <2>1, Zenon
<1>8. \A v \in 1..Len(s) : Len(s[v]) = Len(e[v])
  BY <1>2, <1>3, <1>5, Zenon DEF EntriesOK
<1>9. /\ Len(t) = n /\ \A r \in 1..n : Parallel(s, e, r)
  BY <1>2, <1>3, <1>4, <1>5, <1>7, <1>8, FlattenParallel, Zenon
<1>10. t \in Seq(Marked)
  BY <1>3, <1>4, FlattenType, Zenon
<1>11. ASSUME NEW v \in 1..Len(s), NEW j \in 1..Len(s[v])
       PROVE  s[v][j].entry = e[v][j] /\ s[v][j].at.value = v - 1 /\ Placed(f, c, s[v][j])
  <2> DEFINE x == s[v][j]
             y == w[v].pages
  <2>1. v \in 1..Len(w) /\ EntriesOK(s[v], y, v - 1) /\ e[v] = FlattenSeq(y)
    BY <1>2, <1>3, <1>5, Zenon
  <2>2. /\ x.entry = FlattenSeq(y)[j] /\ x.at.value = v - 1
        /\ x.at.offset \in 1..Len(y[x.at.page + 1])
        /\ x.at.page + 1 \in 1..Len(y)
        /\ x.left = Len(y[x.at.page + 1]) - x.at.offset
    BY <2>1, Zenon DEF EntriesOK
  <2> HIDE DEF x, y
  <2>3. x.at.value + 1 = v
    BY <1>2, <2>1, <2>2
  <2>4. x.entry = e[v][j]
    BY <2>1, <2>2, Zenon
  <2>5. Placed(f, c, x)
    BY <2>1, <2>2, <2>3, Zenon DEF Placed, y, w
  <2> QED
    BY <2>2, <2>4, <2>5, Zenon DEF x
<1>12. ASSUME NEW r \in 1..n PROVE t[r].entry = <<f, c, r>> /\ Placed(f, c, t[r])
  <2>1. PICK v \in 1..Len(s) : \E j \in 1..Len(s[v]) : FlattenSeq(s)[r] = s[v][j] /\ FlattenSeq(e)[r] = e[v][j]
    BY <1>9, Zenon DEF Parallel
  <2>2. PICK j \in 1..Len(s[v]) : FlattenSeq(s)[r] = s[v][j] /\ FlattenSeq(e)[r] = e[v][j]
    BY <2>1
  <2>3. s[v][j].entry = e[v][j] /\ Placed(f, c, s[v][j])
    BY <1>11, Zenon
  <2> QED
    BY <1>4, <1>7, <2>2, <2>3, Zenon
<1>13. ASSUME NEW r \in 1..n, NEW q \in 1..n, r < q PROVE Earlier(t[r].at, t[q].at)
  <2>1. r \in 1..Len(FlattenSeq(s)) /\ q \in 1..Len(FlattenSeq(s))
    BY <1>4, <1>9, Zenon
  <2>2. PICK v \in 1..Len(s) : \E j \in 1..Len(s[v]) : r = Len(Flat(s, v - 1)) + j /\ FlattenSeq(s)[r] = s[v][j]
    BY <1>3, <2>1, FlattenWhere, Zenon
  <2>3. PICK j \in 1..Len(s[v]) : r = Len(Flat(s, v - 1)) + j /\ FlattenSeq(s)[r] = s[v][j]
    BY <2>2
  <2>4. PICK u \in 1..Len(s) : \E l \in 1..Len(s[u]) : q = Len(Flat(s, u - 1)) + l /\ FlattenSeq(s)[q] = s[u][l]
    BY <1>3, <2>1, FlattenWhere, Zenon
  <2>5. PICK l \in 1..Len(s[u]) : q = Len(Flat(s, u - 1)) + l /\ FlattenSeq(s)[q] = s[u][l]
    BY <2>4
  <2>6. v < u \/ (v = u /\ j < l)
    <3>1. Len(Flat(s, v - 1)) + j < Len(Flat(s, u - 1)) + l
      BY <1>13, <2>3, <2>5, Zenon
    <3> QED
      BY <1>3, <3>1, FlattenOrder, Zenon
  <2>7. s[v][j].at.value = v - 1 /\ s[u][l].at.value = u - 1
    BY <1>11, Zenon
  <2>8. v \in Int /\ u \in Int
    BY <1>2, <1>3
  <2>9. Earlier(s[v][j].at, s[u][l].at)
    <3>1. CASE v < u
      <4>1. v - 1 < u - 1
        BY <2>8, <3>1
      <4> QED
        BY <2>7, <4>1, Zenon DEF Earlier
    <3>2. CASE v = u /\ j < l
      <4>1. EntriesOK(s[v], w[v].pages, v - 1)
        BY <1>3, Zenon
      <4>2. Before(s[v][j].at, s[v][l].at)
        BY <3>2, <4>1, Zenon DEF EntriesOK
      <4> QED
        BY <2>7, <3>2, <4>2, Zenon DEF Earlier
    <3> QED
      BY <2>6, <3>1, <3>2
  <2> QED
    BY <1>4, <2>3, <2>5, <2>9, Zenon
<1> QED
  BY <1>9, <1>10, <1>12, <1>13, Zenon DEF TapeIs, t, n

\* Entries that a cursor at page p and offset o of value v has passed.
Passed(at, v, p, o) == at.value < v \/ (at.value = v /\ (at.page < p \/ (at.page = p /\ at.offset <= o)))

\* The cursor has passed the first d entries of column c and no others; when it
\* has an offset it is in the last page of its value that has entries.
Stands(f, c, d, v, p, o) ==
  /\ v < Len(Cut(f, c))
  /\ \A r \in 1..Len(FileTape(f, c)) :
       /\ Passed(FileTape(f, c)[r].at, v, p, o) <=> r <= d
       /\ o # 0 /\ FileTape(f, c)[r].at.value = v => FileTape(f, c)[r].at.page <= p

\* What OffsetsHold says of a column.
ShortPages(f, c) ==
  \A i \in 1..Len(Cut(f, c)) :
    \A p \in 1..Len(Cut(f, c)[i].pages) - 1 : Len(Cut(f, c)[i].pages[p]) <= 1

\* An entry's place.
LEMMA PlaceType ==
  ASSUME NEW f \in Headers, NEW c \in Columns, NEW r \in 1..Len(FileTape(f, c))
  PROVE  /\ FileTape(f, c)[r] \in Marked /\ Placed(f, c, FileTape(f, c)[r])
         /\ FileTape(f, c)[r].at.value \in Nat /\ FileTape(f, c)[r].at.page \in Nat
         /\ FileTape(f, c)[r].at.offset \in Nat /\ FileTape(f, c)[r].at.offset >= 1
         /\ FileTape(f, c)[r].left \in Nat /\ FileTape(f, c)[r].at.value < Len(Cut(f, c))
         /\ FileTape(f, c)[r].entry \in Entry /\ FileTape(f, c)[r].at \in Mark
<1> DEFINE t == FileTape(f, c)
           x == t[r]
<1>1. t \in Seq(Marked) /\ Placed(f, c, x)
  BY TapesAre, Zenon DEF TapeIs
<1> HIDE DEF t
<1>2. x \in Marked
  BY <1>1 DEF t
<1> HIDE DEF x
<1>3. x.at \in Mark /\ x.entry \in Entry /\ x.left \in Nat
  BY <1>2 DEF Marked
<1>4. x.at.value \in Nat /\ x.at.page \in Nat /\ x.at.offset \in Nat
  BY <1>3 DEF Mark
<1>5. x.at.value + 1 \in 1..Len(Cut(f, c)) /\ Len(Cut(f, c)) \in Nat
  <2>1. f \in Files
    BY ColumnNumbers
  <2> QED
    BY <1>1, <2>1, ColumnsCut, Zenon DEF Placed, CutIs
<1>6. x.at.offset >= 1
  <2> DEFINE l == Len(Cut(f, c)[x.at.value + 1].pages[x.at.page + 1])
  <2>1. x.at.offset \in 1..l
    BY <1>1, Zenon DEF Placed
  <2> HIDE DEF l
  <2> QED
    BY <2>1
<1>7. x.at.value < Len(Cut(f, c))
  BY <1>4, <1>5
<1> QED
  BY <1>1, <1>2, <1>3, <1>4, <1>6, <1>7, Zenon DEF x, t

\* At the beginning none has been passed.
LEMMA StandsAtStart ==
  ASSUME NEW f \in Files, NEW c \in Columns
  PROVE  Stands(f, c, 0, 0, 0, 0)
<1>1. 0 < Len(Cut(f, c))
  <2>1. Len(Cut(f, c)) \in Nat /\ Len(Cut(f, c)) >= 1
    BY ColumnsCut, Zenon DEF CutIs
  <2> QED
    BY <2>1
<1>2. ASSUME NEW r \in 1..Len(FileTape(f, c)) PROVE ~Passed(FileTape(f, c)[r].at, 0, 0, 0) /\ ~(r <= 0)
  <2>1. f \in Headers
    <3>1. CASE f \notin Headers
      <4>1. FileTape(f, c) = <<>>
        BY <3>1, ListsAre, Zenon
      <4> QED
        BY <4>1
    <3> QED
      BY <3>1
  <2> DEFINE at == FileTape(f, c)[r].at
  <2>2. at.value \in Nat /\ at.page \in Nat /\ at.offset \in Nat /\ at.offset >= 1
    BY <2>1, PlaceType, Zenon
  <2> HIDE DEF at
  <2>3. ~Passed(at, 0, 0, 0)
    BY <2>2 DEF Passed
  <2> QED
    BY <2>3 DEF at
<1> QED
  BY <1>1, <1>2 DEF Stands

\* Where a cursor stands that has moved on to x, from offset o of value v.
MovedOn(f, c, v, o, q, x) ==
  /\ x.left # 0 => Stands(f, c, q, x.at.value, x.at.page, x.at.offset)
  /\ x.left = 0 => Stands(f, c, q, x.at.value, x.at.page + 1, IF x.at.value = v THEN o ELSE 0)

\* It has passed x and nothing more.
LEMMA StandsOn ==
  ASSUME NEW f \in Headers, NEW c \in Columns, ShortPages(f, c), NEW d \in Nat,
         NEW v \in Nat, NEW p \in Nat, NEW o \in Nat, Stands(f, c, d, v, p, o),
         NEW q \in 1..Len(FileTape(f, c)), q > d, NEW x, x = FileTape(f, c)[q]
  PROVE  MovedOn(f, c, v, o, q, x)
<1> DEFINE t == FileTape(f, c)
           w == Cut(f, c)
           x1 == x.at.value
           x2 == x.at.page
           x3 == x.at.offset
           n == Len(w[x1 + 1].pages)
           l == Len(w[x1 + 1].pages[x2 + 1])
           oo == IF x1 = v THEN o ELSE 0
<1>1. TapeIs(f, c) /\ f \in Files
  BY TapesAre, ColumnNumbers
<1>2. /\ x1 \in Nat /\ x2 \in Nat /\ x3 \in Nat /\ x3 >= 1 /\ x.left \in Nat /\ x1 < Len(w) /\ Placed(f, c, x)
  BY PlaceType, Zenon
<1>3. /\ x1 + 1 \in 1..Len(w) /\ x2 + 1 \in 1..n /\ x3 \in 1..l /\ x.left = l - x3
  BY <1>2, Zenon DEF Placed
<1>4. n \in Nat /\ l \in Nat
  <2> DEFINE ps == w[x1 + 1].pages
             P == Seq(Entry)
  <2>1. ps \in Seq(P)
    BY <1>1, <1>3, ColumnsCut, Zenon DEF CutIs
  <2>2. x2 + 1 \in 1..Len(ps)
    BY <1>3
  <2>3. \A s \in P : Len(s) \in Nat
    OBVIOUS
  <2> HIDE DEF ps, P, x2
  <2>4. Len(ps) \in Nat /\ ps[x2 + 1] \in P
    BY <2>1, <2>2
  <2>5. Len(ps[x2 + 1]) \in Nat
    BY <2>3, <2>4, Zenon
  <2> QED
    BY <2>4, <2>5, Zenon DEF ps, x2
<1>5. x.left # 0 => x2 + 1 = n
  <2> SUFFICES ASSUME x.left # 0 PROVE x2 + 1 = n
    OBVIOUS
  <2>1. x2 + 1 \in 1..n - 1 => l <= 1
    BY <1>3, Zenon DEF ShortPages
  <2> HIDE DEF n, l, x2, x3, x1
  <2>2. l >= 2
    BY <1>2, <1>3, <1>4
  <2> QED
    BY <1>2, <1>3, <1>4, <2>1, <2>2
<1>6. x1 = v /\ o # 0 => p <= x2
  <2> SUFFICES ASSUME x1 = v, o # 0 PROVE p <= x2
    OBVIOUS
  <2>1. ~(q <= d)
    OBVIOUS
  <2>2. ~Passed(x.at, v, p, o)
    BY <2>1, Zenon DEF Stands
  <2> QED
    BY <1>2, <2>2 DEF Passed
<1>7. oo \in Nat
  OBVIOUS
<1>8. q \in Nat /\ d \in Nat
  <2>1. Len(t) \in Nat
    BY <1>1 DEF TapeIs
  <2> QED
    BY <2>1
<1>9. ASSUME NEW r \in 1..Len(t)
      PROVE  /\ x.left # 0 => /\ Passed(t[r].at, x1, x2, x3) <=> r <= q
                              /\ t[r].at.value = x1 => t[r].at.page <= x2
             /\ x.left = 0 => /\ Passed(t[r].at, x1, x2 + 1, oo) <=> r <= q
                              /\ oo # 0 /\ t[r].at.value = x1 => t[r].at.page <= x2 + 1
  <2> DEFINE y == t[r]
             a1 == y.at.value
             a2 == y.at.page
             a3 == y.at.offset
  <2>1. a1 \in Nat /\ a2 \in Nat /\ a3 \in Nat /\ a3 >= 1 /\ Placed(f, c, y)
    BY PlaceType, Zenon
  <2>2. /\ a1 = x1 => a2 + 1 <= n
        /\ a1 = x1 /\ a2 = x2 => a3 <= l
    <3>1. ASSUME a1 = x1 PROVE a2 + 1 \in 1..n
      BY <2>1, <3>1, Zenon DEF Placed
    <3>2. ASSUME a1 = x1, a2 = x2 PROVE a3 \in 1..l
      BY <2>1, <3>2, Zenon DEF Placed
    <3> HIDE DEF n, l, a1, a2, a3, x1, x2
    <3>3. a1 = x1 => a2 + 1 <= n
      BY <1>4, <3>1
    <3>4. a1 = x1 /\ a2 = x2 => a3 <= l
      BY <1>4, <3>2
    <3> QED
      BY <3>3, <3>4
  <2>3. /\ r < q => Earlier(y.at, x.at)
        /\ q < r => Earlier(x.at, y.at)
    BY <1>1, Zenon DEF TapeIs
  <2>4. r = q => y = x
    OBVIOUS
  <2>5. o # 0 /\ a1 = v => a2 <= p
    BY Zenon DEF Stands
  <2>6. /\ r < q => a1 < x1 \/ (a1 = x1 /\ (a2 < x2 \/ (a2 = x2 /\ a3 < x3)))
        /\ q < r => x1 < a1 \/ (x1 = a1 /\ (x2 < a2 \/ (x2 = a2 /\ x3 < a3)))
        /\ r = q => a1 = x1 /\ a2 = x2 /\ a3 = x3
    BY <2>3, <2>4, Zenon DEF Earlier, Before
  <2>7. r \in Nat
    OBVIOUS
  <2>8. oo # 0 => x1 = v /\ o # 0
    OBVIOUS
  <2> HIDE DEF n, l, a1, a2, a3, x1, x2, x3, y, t, oo
  <2>9. ASSUME x.left # 0
        PROVE  /\ (a1 < x1 \/ (a1 = x1 /\ (a2 < x2 \/ (a2 = x2 /\ a3 <= x3)))) <=> r <= q
               /\ a1 = x1 => a2 <= x2
    BY <1>2, <1>5, <1>8, <2>1, <2>2, <2>6, <2>7, <2>9
  <2>10. ASSUME x.left = 0
         PROVE  /\ (a1 < x1 \/ (a1 = x1 /\ (a2 < x2 + 1 \/ (a2 = x2 + 1 /\ a3 <= oo)))) <=> r <= q
                /\ oo # 0 /\ a1 = x1 => a2 <= x2 + 1
    <3>1. l = x3
      BY <1>2, <1>3, <1>4, <2>10
    <3>2. oo # 0 /\ a1 = x1 => a2 <= x2
      BY <1>2, <1>6, <2>1, <2>5, <2>8
    <3> QED
      BY <1>2, <1>7, <1>8, <2>1, <2>2, <2>6, <2>7, <3>1, <3>2
  <2>11. x.left # 0 => (Passed(y.at, x1, x2, x3) <=> r <= q)
    BY <2>9, Zenon DEF Passed, a1, a2, a3
  <2>12. x.left = 0 => (Passed(y.at, x1, x2 + 1, oo) <=> r <= q)
    BY <2>10, Zenon DEF Passed, a1, a2, a3
  <2> QED
    BY <2>9, <2>10, <2>11, <2>12, Zenon DEF y, a1, a2
<1>10. ASSUME x.left # 0 PROVE Stands(f, c, q, x1, x2, x3)
  BY <1>2, <1>9, <1>10, Zenon DEF Stands
<1>11. ASSUME x.left = 0 PROVE Stands(f, c, q, x1, x2 + 1, oo)
  BY <1>2, <1>9, <1>11, Zenon DEF Stands
<1> QED
  BY <1>10, <1>11, Zenon DEF MovedOn

\* Rows of the first v values of a column.
GivenOf(f, c, v) == Len(FlattenSeq(FlattenSeq([i \in 1..v |-> Cut(f, c)[i].pages])))

\* The next value has the rows behind them.
LEMMA NextRows ==
  ASSUME NEW f \in Files, NEW c \in Columns
  PROVE  /\ GivenOf(f, c, 0) = 0
         /\ \A v \in 0..Len(Cut(f, c)) : GivenOf(f, c, v) \in Nat /\ GivenOf(f, c, v) <= RowsOf(f, c)
         /\ \A v \in 1..Len(Cut(f, c)) :
              /\ FlattenSeq(Cut(f, c)[v].pages) \in Seq(Entry)
              /\ GivenOf(f, c, v) = GivenOf(f, c, v - 1) + Len(FlattenSeq(Cut(f, c)[v].pages))
              /\ \A r \in 1..Len(FlattenSeq(Cut(f, c)[v].pages)) :
                   FlattenSeq(Cut(f, c)[v].pages)[r] = <<f, c, GivenOf(f, c, v - 1) + r>>
<1> DEFINE w == Cut(f, c)
           g == CutPages(f, c)
           e == Each(g)
           n == RowsOf(f, c)
           P == Seq(Seq(Entry))
<1>1. /\ Len(w) \in Nat /\ \A i \in 1..Len(w) : g[i] = w[i].pages /\ w[i].pages \in P
      /\ g \in Seq(P) /\ Len(g) = Len(w)
      /\ FlattenSeq(g) = AllPages(f, c)
  BY ColumnsCut, Zenon DEF CutIs
<1>2. /\ e \in Seq(Seq(Entry)) /\ Len(e) = Len(g) /\ \A i \in 1..Len(g) : e[i] = FlattenSeq(g[i])
      /\ \A i \in 0..Len(g) : FlattenSeq(Flat(g, i)) = Flat(e, i)
      /\ FlattenSeq(FlattenSeq(g)) = FlattenSeq(e)
  BY <1>1, FlattenTwice, Zenon
<1> HIDE DEF e, g, w
<1>3. FlattenSeq(e) = FileRows(f, c, n) /\ n \in Nat
  BY <1>1, <1>2, PagesHoldRows, PageEnds, Zenon
<1>4. Len(FlattenSeq(e)) = n /\ \A r \in 1..n : FlattenSeq(e)[r] = <<f, c, r>>
  <2> HIDE DEF n
  <2>1. Len(FileRows(f, c, n)) = n /\ \A r \in 1..n : FileRows(f, c, n)[r] = <<f, c, r>>
    BY <1>3, FileRowsAre, Zenon
  <2> QED
    BY <1>3, <2>1, Zenon
<1>5. \A v \in 0..Len(w) : GivenOf(f, c, v) = Len(Flat(e, v))
  <2> SUFFICES ASSUME NEW v \in 0..Len(w) PROVE GivenOf(f, c, v) = Len(Flat(e, v))
    OBVIOUS
  <2> DEFINE h == [i \in 1..v |-> w[i].pages]
             y == SubSeq(g, 1, v)
  <2>1. v \in Nat /\ \A i \in 1..v : i \in 1..Len(w)
    BY <1>1
  <2>2. h \in [1..v -> P] /\ \A i \in 1..v : h[i] = w[i].pages
    BY <1>1, <2>1, Zenon
  <2> HIDE DEF h, P
  <2>3. h \in Seq(P) /\ Len(h) = v
    BY <2>1, <2>2
  <2>4. y \in Seq(P) /\ Len(y) = v /\ \A i \in 1..v : y[i] = g[i]
    BY <1>1, <2>1
  <2>5. h = y
    <3>1. \A i \in 1..v : h[i] = y[i]
      BY <1>1, <2>1, <2>2, <2>4, Zenon
    <3> HIDE DEF y
    <3>2. h \in Seq(P) /\ y \in Seq(P) /\ Len(h) = Len(y) /\ \A i \in 1..Len(h) : h[i] = y[i]
      BY <2>3, <2>4, <3>1, Zenon
    <3> QED
      BY <3>2, SameSequence, Zenon
  <2>6. FlattenSeq(h) = Flat(g, v)
    BY <2>5, Zenon DEF Flat, y
  <2>7. FlattenSeq(Flat(g, v)) = Flat(e, v)
    BY <1>1, <1>2, Zenon
  <2> QED
    BY <2>6, <2>7, Zenon DEF GivenOf, h, w
<1>6. /\ Flat(e, 0) = <<>> /\ \A i \in 0..Len(w) : Len(Flat(e, i)) \in Nat
      /\ \A i \in 1..Len(w) : Len(Flat(e, i)) = Len(Flat(e, i - 1)) + Len(e[i])
  BY <1>1, <1>2, FlatSteps, FlatLengths, Zenon
<1>7. \A i \in 0..Len(w) : Len(Flat(e, i)) <= n
  BY <1>1, <1>2, <1>4, FlatPrefix, Zenon
<1>8. GivenOf(f, c, 0) = 0
  <2>1. 0 \in 0..Len(w)
    BY <1>1
  <2> QED
    BY <1>5, <1>6, <2>1
<1>9. \A v \in 0..Len(w) : GivenOf(f, c, v) \in Nat /\ GivenOf(f, c, v) <= n
  BY <1>5, <1>6, <1>7, Zenon
<1>10. ASSUME NEW v \in 1..Len(w)
       PROVE  /\ FlattenSeq(w[v].pages) \in Seq(Entry)
              /\ GivenOf(f, c, v) = GivenOf(f, c, v - 1) + Len(FlattenSeq(w[v].pages))
              /\ \A r \in 1..Len(FlattenSeq(w[v].pages)) :
                   FlattenSeq(w[v].pages)[r] = <<f, c, GivenOf(f, c, v - 1) + r>>
  <2>1. v \in 0..Len(w) /\ v - 1 \in 0..Len(w) /\ v \in 1..Len(e)
    BY <1>1, <1>2
  <2>2. e[v] = FlattenSeq(w[v].pages)
    BY <1>1, <1>2, Zenon
  <2>3. e[v] \in Seq(Entry)
    BY <1>1, <2>2, FlattenType, Zenon
  <2>4. GivenOf(f, c, v) = GivenOf(f, c, v - 1) + Len(e[v])
    BY <1>5, <1>6, <2>1, Zenon
  <2>5. ASSUME NEW r \in 1..Len(e[v]) PROVE e[v][r] = <<f, c, GivenOf(f, c, v - 1) + r>>
    <3>1. /\ Len(Flat(e, v - 1)) + r \in 1..n
          /\ FlattenSeq(e)[Len(Flat(e, v - 1)) + r] = e[v][r]
      BY <1>2, <1>4, <2>1, FlattenAt, Zenon
    <3>2. Len(Flat(e, v - 1)) = GivenOf(f, c, v - 1)
      BY <1>5, <2>1, Zenon
    <3> QED
      BY <1>4, <3>1, <3>2, Zenon
  <2> QED
    BY <2>2, <2>3, <2>4, <2>5, Zenon
<1> QED
  BY <1>8, <1>9, <1>10, Zenon DEF w, n

\* Minimum and maximum of two numbers.
LEMMA TwoNumbers ==
  ASSUME NEW a \in Int, NEW b \in Int
  PROVE  /\ Min({a, b}) = IF a <= b THEN a ELSE b
         /\ Max({a, b}) = IF a <= b THEN b ELSE a
<1>1. Min({a, b}) = IF a <= b THEN a ELSE b
  BY DEF Min
<1>2. Max({a, b}) = IF a <= b THEN b ELSE a
  BY DEF Max
<1> QED
  BY <1>1, <1>2

-----------------------------------------------------------------------------
(* The array in the store, and what a batch reads of it. *)

\* An array is none, or begins with what the Divider made of its file; metadata is
\* where the Divider put it.
ArrayOK(array) ==
  \/ array = NoArray
  \/ /\ array.file \in Files /\ array.entries = Len(DivideFile(array.file))
     /\ array.values \in Seq(Stored) /\ array.entries <= Len(array.values)
     /\ \A i \in 1..array.entries : array.values[i] = DivideFile(array.file)[i]
     /\ \A i \in 1..Len(array.values) :
          array.values[i].meta # None => i = Len(DivideFile(array.values[i].meta))
StoreInv ==
  /\ store = [k \in Keys |-> store[k]]
  /\ \A k \in Keys : ArrayOK(store[k])

\* The parts of an array.
LEMMA ArrayParts ==
  ASSUME NEW k \in Keys, ArrayOK(store[k])
  PROVE  /\ store[k].values \in Seq(Stored) /\ store[k].entries \in Nat
         /\ store[k].entries <= Len(store[k].values) /\ store[k].file \in Files \cup {None}
         /\ store[k].file = None => store[k] = NoArray
         /\ store[k].entries # 0 => store[k].file \in Files
<1> DEFINE a == store[k]
<1>1. CASE a = NoArray
  <2>1. NoArray.values = <<>> /\ NoArray.entries = 0 /\ NoArray.file = None
    BY DEF NoArray
  <2>2. <<>> \in Seq(Stored) /\ Len(<<>>) = 0
    OBVIOUS
  <2> HIDE DEF a
  <2>3. a.values \in Seq(Stored) /\ a.entries = 0 /\ a.file = None /\ Len(a.values) = 0
    BY <1>1, <2>1, <2>2, Zenon
  <2> QED
    BY <1>1, <2>3 DEF a
<1>2. CASE a # NoArray
  <2>1. /\ a.file \in Files /\ a.entries = Len(DivideFile(a.file))
        /\ a.values \in Seq(Stored) /\ a.entries <= Len(a.values)
    BY <1>2, Zenon DEF ArrayOK
  <2>2. DivideFile(a.file) \in Seq(Stored)
    BY <2>1, FileDivided, Zenon DEF DivideIs
  <2> DEFINE d == DivideFile(a.file)
  <2> HIDE DEF a, d
  <2>3. Len(d) \in Nat
    BY <2>2 DEF d
  <2>4. a.entries \in Nat
    BY <2>1, <2>3, Zenon DEF d
  <2>5. a.file # None
    BY <2>1, ColumnNumbers, Zenon
  <2> QED
    BY <2>1, <2>4, <2>5, Zenon DEF a
<1> QED
  BY <1>1, <1>2, Zenon

\* Values of the array, and their entries.
ReadLists(n, k, c, upto) == [v \in 1..upto |-> Entries(store[k].values[n[c] + v], v - 1)]

TapeTyped(n, k, c, upto) ==
  /\ ReadLists(n, k, c, upto) \in Seq(Seq(Marked)) /\ Tape(n, k, c, upto) \in Seq(Marked)
  /\ upto \in Nat => Len(ReadLists(n, k, c, upto)) = upto
  /\ \A v \in 1..upto : ReadLists(n, k, c, upto)[v] = Entries(store[k].values[n[c] + v], v - 1)
  /\ Tape(n, k, c, upto) = FlattenSeq(ReadLists(n, k, c, upto))

\* They are lists of entries.
LEMMA TapeType ==
  ASSUME NEW k \in Keys, ArrayOK(store[k]), NEW n, NEW c, n[c] \in Nat,
         NEW upto \in Int, n[c] + upto <= store[k].entries
  PROVE  TapeTyped(n, k, c, upto)
<1> DEFINE s == ReadLists(n, k, c, upto)
           M == Seq(Marked)
           values == store[k].values
           entries == store[k].entries
           b == n[c]
<1>1. values \in Seq(Stored) /\ entries \in Nat /\ entries <= Len(values)
  BY ArrayParts, Zenon
<1>2. b \in Nat /\ b + upto <= entries
  OBVIOUS
<1> HIDE DEF values, entries, b, M
<1>3. ASSUME NEW v \in 1..upto PROVE Entries(values[b + v], v - 1) \in M
  <2>1. b + v \in 1..Len(values) /\ v - 1 \in Nat
    BY <1>1, <1>2
  <2>2. values[b + v] \in Stored
    BY <1>1, <2>1
  <2> QED
    BY <2>1, <2>2, EntriesRead, Zenon DEF M
<1>4. s \in [1..upto -> M] /\ \A v \in 1..upto : s[v] = Entries(values[b + v], v - 1)
  BY <1>3, Zenon DEF ReadLists, values, b
<1>5. Tape(n, k, c, upto) = FlattenSeq(s)
  BY Zenon DEF Tape, ReadLists
<1> HIDE DEF s
<1>6. s \in Seq(M) /\ (upto \in Nat => Len(s) = upto)
  <2>1. CASE upto \in Nat
    BY <1>4, <2>1
  <2>2. CASE upto \notin Nat
    <3>1. 1..upto = 1..0
      BY <2>2
    <3>2. s \in [1..0 -> M]
      BY <1>4, <3>1, Zenon
    <3> QED
      BY <2>2, <3>2
  <2> QED
    BY <2>1, <2>2
<1>7. FlattenSeq(s) \in M
  BY <1>6, FlattenType, Zenon DEF M
<1> QED
  BY <1>4, <1>5, <1>6, <1>7, Zenon DEF TapeTyped, s, M, values, b

\* Behind is what the cursor has passed.
LEMMA BehindIs ==
  ASSUME NEW c \in Columns, valueNo[c] \in Nat, pageNo[c] \in Nat, pageOffset[c] \in Nat,
         NEW at, at.value \in Nat, at.page \in Nat, at.offset \in Nat, at.offset >= 1
  PROVE  Behind(c, at) <=> Passed(at, valueNo[c], pageNo[c], pageOffset[c])
<1> DEFINE s == Start(c, at.value)
<1>1. CASE at.value = valueNo[c]
  <2>1. s.page = pageNo[c] /\ s.offset = pageOffset[c]
    BY <1>1 DEF Start, Cursor, At
  <2> HIDE DEF s
  <2> QED
    BY <1>1, <2>1 DEF Behind, Passed, s
<1>2. CASE at.value # valueNo[c]
  <2>1. s.page = 0 /\ s.offset = 0
    BY <1>2 DEF Start, At
  <2> HIDE DEF s
  <2> QED
    BY <1>2, <2>1 DEF Behind, Passed, s
<1> QED
  BY <1>1, <1>2

\* The entries ahead, and the cursor after them, have their types.
LEMMA CursorTypes ==
  ASSUME NEW c \in Columns, valueNo[c] \in Nat, pageNo[c] \in Nat, pageOffset[c] \in Nat
  PROVE  /\ Cursor(c) \in Mark
         /\ \A v \in Nat : Start(c, v) \in Mark
         /\ \A x \in Marked : StopAt(c, x) \in Mark
<1>1. \A v, p, o \in Nat : At(v, p, o) \in Mark
  BY DEF At, Mark
<1>2. Cursor(c) \in Mark
  BY <1>1, Zenon DEF Cursor
<1>3. \A v \in Nat : Start(c, v) \in Mark
  <2> SUFFICES ASSUME NEW v \in Nat PROVE Start(c, v) \in Mark
    OBVIOUS
  <2>1. At(v, 0, 0) \in Mark
    BY <1>1
  <2> QED
    BY <1>2, <2>1 DEF Start
<1>4. \A x \in Marked : StopAt(c, x) \in Mark
  <2> SUFFICES ASSUME NEW x \in Marked PROVE StopAt(c, x) \in Mark
    OBVIOUS
  <2>1. x.at \in Mark
    BY DEF Marked
  <2>2. x.at.value \in Nat /\ x.at.page \in Nat
    BY <2>1 DEF Mark
  <2>3. Start(c, x.at.value) \in Mark
    BY <1>3, <2>2, Zenon
  <2>4. Start(c, x.at.value).offset \in Nat /\ x.at.page + 1 \in Nat
    BY <2>2, <2>3 DEF Mark
  <2>5. At(x.at.value, x.at.page + 1, Start(c, x.at.value).offset) \in Mark
    BY <1>1, <2>2, <2>4, Zenon
  <2> QED
    BY <2>1, <2>5 DEF StopAt
<1> QED
  BY <1>2, <1>3, <1>4, Zenon

\* ReadColumn leaves a cursor.
LEMMA ReadType ==
  ASSUME NEW k \in Keys, ArrayOK(store[k]), NEW n, NEW c \in Columns, n[c] \in Nat,
         valueNo[c] \in Nat, pageNo[c] \in Nat, pageOffset[c] \in Nat,
         NEW rows \in Nat, NEW left \in Nat
  PROVE  ReadColumn(n, k, c, rows, left).cur \in Mark
<1> DEFINE upto == Min({valueNo[c] + left, store[k].entries - n[c]})
           ahead == Ahead(n, k, c, upto)
           tape == Tape(n, k, c, upto)
           R == ReadColumn(n, k, c, rows, left)
<1>1. store[k].entries \in Nat
  BY ArrayParts, Zenon
<1>2. upto \in Int /\ n[c] + upto <= store[k].entries
  <2> DEFINE a == valueNo[c] + left
             b == store[k].entries - n[c]
  <2>1. a \in Int /\ b \in Int
    BY <1>1
  <2>2. upto = IF a <= b THEN a ELSE b
    BY <2>1, TwoNumbers, Zenon
  <2> HIDE DEF upto
  <2> QED
    BY <1>1, <2>2
<1> HIDE DEF upto
<1>3. tape \in Seq(Marked)
  BY <1>2, TapeType, Zenon DEF TapeTyped
<1>4. ahead \in Seq(Marked)
  <2> DEFINE I == {i \in DOMAIN tape : ~Behind(c, tape[i].at)}
  <2>1. ahead = Select(tape, I)
    BY Zenon DEF Ahead
  <2> HIDE DEF tape, I
  <2>2. MarksAre(Marked, tape, I)
    BY <1>3, MarksType, Zenon
  <2> QED
    BY <2>1, <2>2, Zenon DEF MarksAre
<1> HIDE DEF ahead, tape
<1>5. CASE rows = 0
  <2>1. R.cur = Cursor(c)
    BY <1>5, Zenon DEF ReadColumn
  <2> QED
    BY <2>1, CursorTypes, Zenon
<1>6. CASE rows # 0 /\ rows > Len(ahead)
  <2>1. R.cur = Start(c, Max({valueNo[c], upto}))
    BY <1>6, Zenon DEF ReadColumn, upto, ahead
  <2>2. Max({valueNo[c], upto}) \in Nat
    <3> DEFINE a == valueNo[c]
    <3>1. a \in Int /\ upto \in Int
      BY <1>2
    <3>2. Max({a, upto}) = IF a <= upto THEN upto ELSE a
      BY <3>1, TwoNumbers, Zenon
    <3> QED
      BY <1>2, <3>2
  <2> QED
    BY <2>1, <2>2, CursorTypes, Zenon
<1>7. CASE rows # 0 /\ ~(rows > Len(ahead))
  <2>1. R.cur = StopAt(c, ahead[rows])
    BY <1>7, Zenon DEF ReadColumn, upto, ahead
  <2>2. ahead[rows] \in Marked
    BY <1>4, <1>7
  <2> QED
    BY <2>1, <2>2, CursorTypes, Zenon
<1> QED
  BY <1>5, <1>6, <1>7

\* What ReadColumn gives when it does not fail.
ReadIs(R, f, c, d, rows) ==
  /\ ~R.fails /\ Len(R.read) = rows /\ \A r \in 1..rows : R.read[r] = <<f, c, d + r>>
  /\ Stands(f, c, d + rows, R.cur.value, R.cur.page, R.cur.offset)

\* Of an array with page headers, the rows behind those that have been given, if the
\* column has as many.
LEMMA ReadOn ==
  ASSUME NEW k \in Keys, ArrayOK(store[k]), NEW f \in Headers, store[k].file = f,
         NEW c \in Columns, ShortPages(f, c),
         valueNo[c] \in Nat, pageNo[c] \in Nat, pageOffset[c] \in Nat,
         NEW rows \in Nat, rows # 0, NEW d \in Nat, d + rows <= RowsOf(f, c),
         Stands(f, c, d, valueNo[c], pageNo[c], pageOffset[c])
  PROVE  ReadIs(ReadColumn(Counts(f), k, c, rows, store[k].entries + 1), f, c, d, rows)
<1> DEFINE n == Counts(f)
           w == Cut(f, c)
           N == Len(w)
           entries == store[k].entries
           values == store[k].values
           upto == entries - n[c]
           s == ReadLists(n, k, c, upto)
           tape == Tape(n, k, c, upto)
           ahead == Ahead(n, k, c, upto)
           I == {i \in DOMAIN tape : ~Behind(c, tape[i].at)}
           t == FileTape(f, c)
           lists == EntryLists(f, c)
           R == ReadColumn(n, k, c, rows, entries + 1)
<1>1. f \in Files
  BY ColumnNumbers
<1>2. /\ entries \in Nat /\ values \in Seq(Stored) /\ entries = Len(DivideFile(f))
      /\ \A i \in 1..entries : values[i] = DivideFile(f)[i]
  <2>1. store[k] # NoArray
    <3>1. NoArray.file = None /\ f # None
      BY <1>1, ColumnNumbers, Zenon DEF NoArray
    <3> QED
      BY <3>1, Zenon
  <2> QED
    BY <2>1, ArrayParts, Zenon DEF ArrayOK
<1>3. N \in Nat /\ N >= 1
  BY <1>1, ColumnsCut, Zenon DEF CutIs
<1>4. n[c] \in Nat /\ n[c] + N <= upto + n[c] /\ upto \in Nat /\ N <= upto
      /\ \A i \in 1..N : n[c] + i \in 1..entries /\ DivideFile(f)[n[c] + i] = w[i]
  <2> DEFINE top == n[ColumnsNo + 1]
             b == n[c]
  <2>1. b \in Nat /\ entries = top + 1
    <3>1. c \in 1..ColumnsNo + 1
      BY ColumnNumbers
    <3> QED
      BY <1>1, <1>2, <3>1, FileDivided, Zenon DEF DivideIs
  <2>2. \A i \in 1..N : b + i \in 1..top /\ DivideFile(f)[b + i] = w[i]
    BY <1>1, FileDivided, Zenon DEF DivideIs
  <2>3. top \in Nat
    <3>1. ColumnsNo + 1 \in 1..ColumnsNo + 1
      BY ColumnNumbers
    <3> QED
      BY <1>1, <3>1, FileDivided, Zenon DEF DivideIs
  <2> HIDE DEF top, b, N, w
  <2>4. N \in 1..N
    BY <1>3
  <2>5. b + N <= top
    BY <1>3, <2>1, <2>2, <2>3, <2>4
  <2>6. \A i \in 1..N : b + i \in 1..entries
    BY <2>1, <2>2, <2>3
  <2>7. b + N <= (entries - b) + b /\ entries - b \in Nat /\ N <= entries - b
    BY <1>2, <1>3, <2>1, <2>3, <2>5
  <2> QED
    BY <2>1, <2>2, <2>6, <2>7, Zenon DEF b
<1>5. Min({valueNo[c] + (entries + 1), entries - n[c]}) = upto
  <2> DEFINE a == valueNo[c] + (entries + 1)
  <2>1. a \in Int /\ upto \in Int /\ ~(a <= upto)
    <3> DEFINE b == n[c]
               m == valueNo[c]
    <3>1. entries \in Nat /\ b \in Nat /\ m \in Nat
      BY <1>2, <1>4, Zenon
    <3>2. a = m + (entries + 1) /\ upto = entries - b
      OBVIOUS
    <3> HIDE DEF entries, b, m, a, upto
    <3> QED
      BY <3>1, <3>2
  <2>2. Min({a, upto}) = IF a <= upto THEN a ELSE upto
    BY <2>1, TwoNumbers, Zenon
  <2> QED
    BY <2>1, <2>2
<1>6. n[c] + upto <= entries /\ upto \in Int
  BY <1>2, <1>4
<1> HIDE DEF n, upto
<1>7. /\ s \in Seq(Seq(Marked)) /\ tape \in Seq(Marked) /\ Len(s) = upto
      /\ \A v \in 1..upto : s[v] = Entries(values[n[c] + v], v - 1)
      /\ tape = FlattenSeq(s)
  <2>1. TapeTyped(n, k, c, upto)
    BY <1>4, <1>6, TapeType, Zenon
  <2> QED
    BY <1>4, <2>1, Zenon DEF TapeTyped
<1>8. /\ lists \in Seq(Seq(Marked)) /\ Len(lists) = N
      /\ \A v \in 1..N : lists[v] = Entries(w[v], v - 1)
  BY <1>1, ListsAre, Zenon
<1>9. TapeIs(f, c) /\ t = FlattenSeq(lists)
  BY TapesAre, Zenon DEF FileTape
<1> DEFINE m == Len(t)
<1>10. m = RowsOf(f, c) /\ m \in Nat /\ d + rows <= m /\ t \in Seq(Marked)
  <2>1. t \in Seq(Marked) /\ m = RowsOf(f, c) /\ RowsOf(f, c) \in Nat
    BY <1>1, <1>9, PageEnds, Zenon DEF TapeIs
  <2> QED
    BY <2>1, Zenon
<1> HIDE DEF n, entries, values, upto, s, tape, ahead, t, lists, N, w
<1>11. m <= Len(tape) /\ \A a \in 1..m : tape[a] = t[a]
  <2>1. \A v \in 1..N : s[v] = lists[v]
    <3> SUFFICES ASSUME NEW v \in 1..N PROVE s[v] = lists[v]
      OBVIOUS
    <3>1. v \in 1..upto
      BY <1>3, <1>4
    <3>2. values[n[c] + v] = w[v]
      BY <1>2, <1>4, Zenon
    <3> QED
      BY <1>7, <1>8, <3>1, <3>2, Zenon
  <2>2. N <= Len(s) /\ N <= Len(lists)
    BY <1>3, <1>4, <1>7, <1>8
  <2>3. Flat(s, N) = Flat(lists, N)
    BY <1>3, <1>7, <1>8, <2>1, <2>2, FlatAgree, Zenon
  <2>4. Flat(lists, N) = t
    BY <1>8, <1>9, FlatSteps, Zenon
  <2>5. N \in 0..Len(s)
    BY <1>3, <1>4, <1>7
  <2>6. /\ Len(Flat(s, N)) <= Len(FlattenSeq(s))
        /\ \A a \in 1..Len(Flat(s, N)) : FlattenSeq(s)[a] = Flat(s, N)[a]
    BY <1>7, <2>5, FlatPrefix, Zenon
  <2> QED
    BY <1>7, <2>3, <2>4, <2>6, Zenon
<1>12. \A i \in 1..m : i \in I <=> i > d
  <2> SUFFICES ASSUME NEW i \in 1..m PROVE i \in I <=> i > d
    OBVIOUS
  <2>1. i \in DOMAIN tape
    <3>1. Len(tape) \in Nat /\ DOMAIN tape = 1..Len(tape)
      BY <1>7
    <3> QED
      BY <1>10, <1>11, <3>1
  <2> DEFINE at == t[i].at
  <2>2. at.value \in Nat /\ at.page \in Nat /\ at.offset \in Nat /\ at.offset >= 1
    BY PlaceType, Zenon DEF t
  <2>3. tape[i].at = at
    BY <1>11, Zenon
  <2>4. Behind(c, at) <=> Passed(at, valueNo[c], pageNo[c], pageOffset[c])
    BY <2>2, BehindIs, Zenon
  <2>5. Passed(at, valueNo[c], pageNo[c], pageOffset[c]) <=> i <= d
    BY Zenon DEF Stands, t
  <2>6. i \in I <=> ~(i <= d)
    BY <2>1, <2>3, <2>4, <2>5, Zenon
  <2> HIDE DEF I
  <2> QED
    BY <1>10, <2>6
<1>13. /\ m - d <= Len(ahead) /\ \A r \in 1..m - d : ahead[r] = tape[d + r]
  <2>1. ahead = Select(tape, I)
    BY Zenon DEF Ahead, ahead, tape
  <2> HIDE DEF I
  <2>2. m \in 0..Len(tape) /\ d \in 0..m
    <3>1. Len(tape) \in Nat
      BY <1>7
    <3> QED
      BY <1>10, <1>11, <3>1
  <2>3. /\ m - d <= Len(Select(tape, I)) /\ \A r \in 1..m - d : Select(tape, I)[r] = tape[d + r]
    BY <1>7, <1>12, <2>2, SelectFrom, Zenon
  <2> QED
    BY <2>1, <2>3, Zenon
<1>14. ahead \in Seq(Marked)
  <2>1. ahead = Select(tape, I)
    BY Zenon DEF Ahead, ahead, tape
  <2> HIDE DEF I
  <2>2. MarksAre(Marked, tape, I)
    BY <1>7, MarksType, Zenon
  <2> QED
    BY <2>1, <2>2, Zenon DEF MarksAre
<1>15. ~(rows > Len(ahead)) /\ \A r \in 1..rows : d + r \in 1..m /\ ahead[r] = t[d + r]
  <2>1. Len(ahead) \in Nat
    BY <1>14
  <2>2. \A r \in 1..rows : r \in 1..m - d /\ d + r \in 1..m
    BY <1>10
  <2>3. \A r \in 1..rows : ahead[r] = t[d + r]
    BY <1>11, <1>13, <2>2, Zenon
  <2>4. ~(rows > Len(ahead))
    BY <1>10, <1>13, <2>1
  <2> QED
    BY <2>2, <2>3, <2>4, Zenon
<1> DEFINE x == ahead[rows]
           q == d + rows
<1>16. rows \in 1..rows /\ q \in 1..m /\ q > d /\ x = t[q]
  <2>1. rows \in 1..rows /\ q > d
    OBVIOUS
  <2> QED
    BY <1>15, <2>1, Zenon
<1>17. ~R.fails
  BY <1>5, <1>15, Zenon DEF ReadColumn, ahead, n, entries
<1>18. R.cur = StopAt(c, x) /\ R.read = [r \in 1..rows |-> ahead[r].entry]
  <2>1. R.cur = StopAt(c, x)
    BY <1>5, <1>15, Zenon DEF ReadColumn, ahead, n, entries
  <2>2. R.read = [r \in 1..rows |-> ahead[r].entry]
    BY <1>5, <1>15, Zenon DEF ReadColumn, ahead, n, entries
  <2> QED
    BY <2>1, <2>2, Zenon
<1> HIDE DEF q, x, R
<1>19. Len(R.read) = rows /\ \A r \in 1..rows : R.read[r] = <<f, c, d + r>>
  <2> DEFINE z == [r \in 1..rows |-> ahead[r].entry]
  <2>1. \A r \in 1..rows : z[r] = <<f, c, d + r>>
    <3> SUFFICES ASSUME NEW r \in 1..rows PROVE z[r] = <<f, c, d + r>>
      OBVIOUS
    <3>1. ahead[r] = t[d + r] /\ d + r \in 1..m
      BY <1>15, Zenon
    <3>2. t[d + r].entry = <<f, c, d + r>>
      BY <1>9, <3>1, Zenon DEF TapeIs, t
    <3> QED
      BY <3>1, <3>2, Zenon
  <2>2. Len(z) = rows
    OBVIOUS
  <2> HIDE DEF z
  <2>3. R.read = z
    BY <1>18 DEF z
  <2> QED
    BY <2>1, <2>2, <2>3, Zenon
<1>20. Stands(f, c, q, R.cur.value, R.cur.page, R.cur.offset)
  <2>1. /\ x.left # 0 => Stands(f, c, q, x.at.value, x.at.page, x.at.offset)
        /\ x.left = 0 => Stands(f, c, q, x.at.value, x.at.page + 1, IF x.at.value = valueNo[c] THEN pageOffset[c] ELSE 0)
    <3>1. q \in 1..Len(FileTape(f, c)) /\ x = FileTape(f, c)[q] /\ q > d
      BY <1>16 DEF t
    <3>2. MovedOn(f, c, valueNo[c], pageOffset[c], q, x)
      BY <3>1, StandsOn, Zenon
    <3> QED
      BY <3>2, Zenon DEF MovedOn
  <2>2. CASE x.left # 0
    <3>1. R.cur = x.at
      BY <1>18, <2>2, Zenon DEF StopAt
    <3> QED
      BY <2>1, <2>2, <3>1, Zenon
  <2>3. CASE x.left = 0
    <3> DEFINE o == Start(c, x.at.value).offset
               p == x.at.page + 1
    <3>1. R.cur = At(x.at.value, p, o)
      BY <1>18, <2>3, Zenon DEF StopAt
    <3>2. o = IF x.at.value = valueNo[c] THEN pageOffset[c] ELSE 0
      BY DEF Start, Cursor, At
    <3> HIDE DEF o, p
    <3>3. R.cur.value = x.at.value /\ R.cur.page = p /\ R.cur.offset = o
      BY <3>1 DEF At
    <3> QED
      BY <2>1, <2>3, <3>2, <3>3, Zenon DEF p
  <2> QED
    BY <2>2, <2>3
<1> QED
  BY <1>17, <1>19, <1>20, Zenon DEF ReadIs, R, q, n, entries

-----------------------------------------------------------------------------
(* The inductive invariant. *)

\* What is cached belongs together.
CacheInv ==
  /\ dir \in Nat /\ counts \in [1..ColumnsNo + 1 -> Nat] /\ meta \in Files \cup {None}
  /\ meta # None => dir = Len(DivideFile(meta)) /\ counts = Counts(meta)
ColumnsInv ==
  /\ enabled \subseteq Columns /\ output \subseteq Columns /\ filters \subseteq Columns
  /\ Range(perm) \subseteq 1..ColumnsNo /\ Len(perm) % 3 = 0
  /\ mode \in {"running", "panicked", "hung"}
CursorInv == valueNo \in [Columns -> Nat] /\ pageNo \in [Columns -> Nat] /\ pageOffset \in [Columns -> Nat]

\* The rows that batches of file f have given, and where the columns stand then: the
\* first column in front of a value, the others behind the same row.
Given(f) == GivenOf(f, First, valueNo[First])
GivenRows(f, n) == [r \in 1..n |-> [c \in enabled |-> <<f, c, r>>]]
Reading(f) ==
  /\ valueNo[First] <= Len(Cut(f, First)) /\ pageNo[First] = 0 /\ pageOffset[First] = 0
  /\ \A c \in Others : Stands(f, c, Given(f), valueNo[c], pageNo[c], pageOffset[c])
  /\ \A c \in Columns \ enabled : valueNo[c] = 0 /\ pageNo[c] = 0 /\ pageOffset[c] = 0
  /\ f \in Headers => gathered = Kept(GivenRows(f, Given(f)))
BatchInv ==
  /\ IsFiniteSet(sources) /\ sources \subseteq Files /\ (sources # {} => enabled # {})
  /\ clean /\ sources = {} => valueNo = Zero /\ pageNo = Zero /\ pageOffset = Zero /\ gathered = <<>>
  /\ \A f \in Files : clean /\ sources = {f} /\ OffsetsHold(f) => Reading(f)
Inv == StoreInv /\ CacheInv /\ ColumnsInv /\ CursorInv /\ BatchInv

\* Metadata that belongs together.
MetaOK(m) ==
  /\ m.dir \in Nat /\ m.counts \in [1..ColumnsNo + 1 -> Nat] /\ m.meta \in Files \cup {None}
  /\ m.meta # None => m.dir = Len(DivideFile(m.meta)) /\ m.counts = Counts(m.meta)
  /\ m.outcome = "found" => m.meta # None

\* The counts, and the length of what the Divider makes.
LEMMA CountsAre ==
  ASSUME NEW f \in Files
  PROVE  Counts(f) \in [1..ColumnsNo + 1 -> Nat] /\ Len(DivideFile(f)) \in Nat /\ Len(DivideFile(f)) # 0
<1>1. \A c \in 1..ColumnsNo + 1 : Counts(f)[c] \in Nat
  BY FileDivided, Zenon DEF DivideIs
<1>2. Counts(f) = [c \in 1..ColumnsNo + 1 |-> Counts(f)[c]]
  BY Zenon DEF Counts
<1>3. Counts(f) \in [1..ColumnsNo + 1 -> Nat]
  BY <1>1, <1>2, Zenon
<1>4. Len(DivideFile(f)) = Counts(f)[ColumnsNo + 1] + 1 /\ ColumnsNo + 1 \in 1..ColumnsNo + 1
  <2>1. Len(DivideFile(f)) = Counts(f)[ColumnsNo + 1] + 1
    BY FileDivided, Zenon DEF DivideIs
  <2> QED
    BY <2>1, ColumnNumbers
<1>5. Counts(f)[ColumnsNo + 1] \in Nat
  BY <1>1, <1>4, Zenon
<1>6. Len(DivideFile(f)) \in Nat /\ Len(DivideFile(f)) # 0
  <2> DEFINE a == Counts(f)[ColumnsNo + 1]
             b == Len(DivideFile(f))
  <2>1. b = a + 1 /\ a \in Nat
    BY <1>4, <1>5, Zenon
  <2> HIDE DEF a, b
  <2>2. b \in Nat /\ b # 0
    BY <2>1
  <2> QED
    BY <2>2 DEF b
<1> QED
  BY <1>3, <1>6, Zenon

\* A stored value that is metadata is what the Divider made of its file.
LEMMA StoredMeta ==
  ASSUME NEW value \in Stored, value.meta # None
  PROVE  value.meta \in Files /\ value.counts = Counts(value.meta)
<1> DEFINE P == Seq(Seq(Entry))
<1> HIDE DEF P
<1>1. \/ \E f \in Files : \E pages \in P : value = Data(f, pages)
      \/ \E f \in Files : value = MetaValue(f)
  BY DEF Stored, P
<1>2. ~ \E f \in Files : \E pages \in P : value = Data(f, pages)
  <2> SUFFICES ASSUME NEW f \in Files, NEW pages \in P, value = Data(f, pages) PROVE FALSE
    OBVIOUS
  <2>1. Data(f, pages).meta = None
    BY ValueParts, Zenon
  <2> QED
    BY <2>1, Zenon
<1>3. PICK f \in Files : value = MetaValue(f)
  BY <1>1, <1>2
<1>4. MetaValue(f).meta = f /\ MetaValue(f).counts = Counts(f)
  BY ValueParts, Zenon
<1> QED
  BY <1>3, <1>4, Zenon

\* GetMetaData's metadata belongs together.
LEMMA MetaDataOK ==
  ASSUME StoreInv, CacheInv, NEW k \in Keys, NEW bad
  PROVE  MetaOK(MetaData(k, bad))
<1> DEFINE entries == IF dir # 0 THEN dir ELSE IF bad = 1 THEN 0 ELSE store[k].entries
           value == store[k].values[entries]
           m == MetaData(k, bad)
           none == [outcome |-> "none", dir |-> 0, meta |-> meta, counts |-> counts]
           error == [outcome |-> "error", dir |-> entries, meta |-> meta, counts |-> counts]
           found == [outcome |-> "found", dir |-> entries, meta |-> value.meta, counts |-> value.counts]
<1>1. /\ store[k].values \in Seq(Stored) /\ store[k].entries \in Nat /\ ArrayOK(store[k])
  BY ArrayParts, Zenon DEF StoreInv
<1>2. dir \in Nat /\ counts \in [1..ColumnsNo + 1 -> Nat] /\ meta \in Files \cup {None}
      /\ (meta # None => dir = Len(DivideFile(meta)) /\ counts = Counts(meta))
  BY DEF CacheInv
<1>3. entries \in Nat
  BY <1>1, <1>2
<1>4. meta # None => entries = dir /\ dir # 0
  <2> SUFFICES ASSUME meta # None PROVE entries = dir /\ dir # 0
    OBVIOUS
  <2>1. meta \in Files
    BY <1>2
  <2>2. dir # 0
    BY <1>2, <2>1, CountsAre, Zenon
  <2> QED
    BY <2>2
<1>5. m = none \/ m = error \/ (m = found /\ entries # 0 /\ ~(entries > Len(store[k].values)) /\ value.meta # None)
  BY Zenon DEF MetaData
<1>6. entries = 0 \/ m # none
  <2>1. error.outcome = "error" /\ found.outcome = "found" /\ none.outcome = "none"
    BY Zenon
  <2>2. "error" # "none" /\ "found" # "none"
    OBVIOUS
  <2>3. entries # 0 => m = error \/ m = found
    BY Zenon DEF MetaData
  <2> QED
    BY <2>1, <2>2, <2>3, Zenon
<1> HIDE DEF m, entries, value
<1>7. CASE m = none
  <2>1. meta = None
    BY <1>4, <1>6, <1>7
  <2>2. m.outcome = "none" /\ m.dir = 0 /\ m.meta = meta /\ m.counts = counts
    BY <1>7
  <2> QED
    BY <1>2, <2>1, <2>2 DEF MetaOK, m
<1>8. CASE m = error
  <2>1. m.outcome = "error" /\ m.dir = entries /\ m.meta = meta /\ m.counts = counts
    BY <1>8
  <2> QED
    BY <1>2, <1>3, <1>4, <2>1 DEF MetaOK, m
<1>9. CASE m = found /\ entries # 0 /\ ~(entries > Len(store[k].values)) /\ value.meta # None
  <2>1. m.outcome = "found" /\ m.dir = entries /\ m.meta = value.meta /\ m.counts = value.counts
    BY <1>9
  <2>2. entries \in 1..Len(store[k].values)
    BY <1>1, <1>3, <1>9
  <2>3. value \in Stored
    BY <1>1, <2>2 DEF value
  <2>4. value.meta \in Files /\ value.counts = Counts(value.meta)
    BY <1>9, <2>3, StoredMeta, Zenon
  <2>5. entries = Len(DivideFile(value.meta))
    <3>1. store[k] # NoArray
      <4>1. NoArray.values = <<>>
        BY DEF NoArray
      <4>2. store[k].values # <<>>
        BY <2>2
      <4> QED
        BY <4>1, <4>2
    <3> QED
      BY <1>1, <1>9, <2>2, <3>1, Zenon DEF ArrayOK, value
  <2>6. Counts(value.meta) \in [1..ColumnsNo + 1 -> Nat]
    BY <2>4, CountsAre, Zenon
  <2> QED
    <3>1. m.meta \in Files \cup {None} /\ m.meta # None
      BY <1>9, <2>1, <2>4
    <3>2. m.dir \in Nat /\ m.counts \in [1..ColumnsNo + 1 -> Nat]
      BY <1>3, <2>1, <2>4, <2>6
    <3>3. m.dir = Len(DivideFile(m.meta)) /\ m.counts = Counts(m.meta)
      BY <2>1, <2>4, <2>5, Zenon
    <3> QED
      BY <3>1, <3>2, <3>3, Zenon DEF MetaOK, m
<1> QED
  BY <1>5, <1>7, <1>8, <1>9

\* So does every call's.
LEMMA PreparedOK ==
  ASSUME StoreInv, CacheInv, NEW k \in Keys, NEW bad
  PROVE  MetaOK(Prepared(k, bad))
<1>1. CASE meta # None
  <2>1. Prepared(k, bad) = Cached
    BY <1>1 DEF Prepared
  <2>2. Cached.outcome = "found" /\ Cached.dir = dir /\ Cached.meta = meta /\ Cached.counts = counts
    BY DEF Cached
  <2>3. MetaOK(Cached)
    BY <1>1, <2>2 DEF MetaOK, CacheInv
  <2> QED
    BY <2>1, <2>3
<1>2. CASE meta = None
  BY <1>2, MetaDataOK DEF Prepared
<1> QED
  BY <1>1, <1>2

\* Keeping it keeps the invariant.
LEMMA CacheKept ==
  ASSUME NEW m, MetaOK(m), Keeps(m)
  PROVE  CacheInv'
BY DEF MetaOK, Keeps, CacheInv

\* An array stored over another one.
LEMMA OverOK ==
  ASSUME NEW array, ArrayOK(array), array.values \in Seq(Stored), NEW f \in Files
  PROVE  ArrayOK(Over(array, f))
<1> DEFINE new == DivideFile(f)
           n == Len(new)
           old == array.values
           rest == SubSeq(old, n + 1, Len(old))
           values == new \o rest
           over == Over(array, f)
<1>1. /\ new \in Seq(Stored) /\ n \in Nat /\ n # 0
  BY FileDivided, CountsAre, Zenon DEF DivideIs
<1>2. over = [entries |-> n, file |-> f, values |-> values]
  BY DEF Over
<1>3. over.entries = n /\ over.file = f /\ over.values = values
  BY <1>2
<1> HIDE DEF new, over, old
<1>4. old \in Seq(Stored)
  BY DEF old
<1>5. /\ rest \in Seq(Stored) /\ Len(rest) = IF n + 1 <= Len(old) THEN Len(old) - n ELSE 0
      /\ \A i \in 1..Len(rest) : n + i \in 1..Len(old) /\ rest[i] = old[n + i]
  BY <1>1, <1>4
<1> HIDE DEF rest
<1>6. n = Len(new) /\ Len(rest) \in Nat
  BY <1>5
<1> HIDE DEF n
<1>7. /\ values \in Seq(Stored) /\ Len(values) = n + Len(rest) /\ n <= Len(values)
      /\ \A i \in 1..n : values[i] = new[i]
      /\ \A i \in 1..Len(rest) : values[n + i] = rest[i]
  BY <1>1, <1>5, <1>6
<1> HIDE DEF values
<1>8. ASSUME NEW i \in 1..Len(values), values[i].meta # None
      PROVE  i = Len(DivideFile(values[i].meta))
  <2>1. CASE i <= n
    <3>1. i \in 1..n /\ values[i] = new[i]
      BY <1>7, <2>1
    <3>2. CASE i = n
      <4>1. new[n] = MetaValue(f)
        BY <1>6, FileDivided, Zenon DEF DivideIs, new
      <4>2. values[i].meta = f
        BY <3>1, <3>2, <4>1, ValueParts, Zenon
      <4> QED
        BY <1>6, <3>2, <4>2 DEF new
    <3>3. CASE i # n
      <4>1. i \in 1..Counts(f)[ColumnsNo + 1]
        <5> DEFINE top == Counts(f)[ColumnsNo + 1]
        <5>1. n = top + 1 /\ top \in Nat
          <6>1. ColumnsNo + 1 \in 1..ColumnsNo + 1
            BY ColumnNumbers
          <6> QED
            BY <1>6, <6>1, FileDivided, Zenon DEF DivideIs, new
        <5> HIDE DEF top
        <5>2. i \in 1..top
          BY <3>1, <3>3, <5>1
        <5> QED
          BY <5>2 DEF top
      <4>2. PICK c \in Columns : \E j \in 1..Len(Cut(f, c)) : new[i] = Cut(f, c)[j]
        BY <4>1, FileDivided, Zenon DEF DivideIs, new
      <4>3. PICK j \in 1..Len(Cut(f, c)) : new[i] = Cut(f, c)[j]
        BY <4>2
      <4>4. Cut(f, c)[j] = Data(f, Cut(f, c)[j].pages)
        BY ColumnsCut, Zenon DEF CutIs
      <4>5. Data(f, Cut(f, c)[j].pages).meta = None
        BY ValueParts, Zenon
      <4>6. values[i].meta = None
        BY <3>1, <4>3, <4>4, <4>5, Zenon
      <4> QED
        BY <1>8, <4>6
    <3> QED
      BY <3>2, <3>3
  <2>2. CASE ~(i <= n)
    <3> DEFINE j == i - n
    <3>1. j \in 1..Len(rest) /\ n + j = i
      BY <1>1, <1>6, <1>7, <2>2
    <3> HIDE DEF j
    <3>2. i \in 1..Len(old) /\ values[i] = old[i]
      BY <1>5, <1>7, <3>1, Zenon
    <3>3. array # NoArray
      <4>1. NoArray.values = <<>>
        BY DEF NoArray
      <4>2. old # <<>>
        BY <3>2
      <4> QED
        BY <4>1, <4>2 DEF old
    <3> QED
      BY <1>8, <3>2, <3>3, Zenon DEF ArrayOK, old
  <2> QED
    BY <2>1, <2>2
<1> QED
  BY <1>3, <1>6, <1>7, <1>8, Zenon DEF ArrayOK, over, new

\* The first column is enabled.
LEMMA FirstIs ==
  ASSUME enabled \subseteq Columns, enabled # {}
  PROVE  First \in enabled /\ First \in Columns
<1>1. enabled \in SUBSET Nat
  BY ColumnNumbers
<1>2. \E i \in enabled : \A j \in enabled : i <= j
  BY <1>1, FirstOf, Zenon
<1>3. First \in enabled
  BY <1>2 DEF First, Min
<1> QED
  BY <1>3

\* In front of the first value of every column nothing has been given.
LEMMA ReadingAtStart ==
  ASSUME NEW f \in Files, ColumnsInv, enabled # {},
         valueNo = Zero, pageNo = Zero, pageOffset = Zero, gathered = <<>>
  PROVE  Reading(f)
<1>1. First \in Columns /\ First \in enabled /\ enabled \subseteq Columns
  BY FirstIs DEF ColumnsInv
<1>2. \A c \in Columns : valueNo[c] = 0 /\ pageNo[c] = 0 /\ pageOffset[c] = 0
  BY DEF Zero
<1>3. Given(f) = 0
  <2>1. GivenOf(f, First, 0) = 0
    BY <1>1, NextRows, Zenon
  <2> QED
    BY <1>1, <1>2, <2>1, Zenon DEF Given
<1>4. \A c \in Others : Stands(f, c, Given(f), valueNo[c], pageNo[c], pageOffset[c])
  <2> SUFFICES ASSUME NEW c \in Others PROVE Stands(f, c, Given(f), valueNo[c], pageNo[c], pageOffset[c])
    OBVIOUS
  <2>1. c \in Columns
    BY <1>1 DEF Others
  <2>2. Stands(f, c, 0, 0, 0, 0)
    BY <2>1, StandsAtStart, Zenon
  <2> QED
    BY <1>2, <1>3, <2>1, <2>2, Zenon
<1>5. valueNo[First] <= Len(Cut(f, First))
  <2>1. Len(Cut(f, First)) \in Nat
    BY <1>1, ColumnsCut, Zenon DEF CutIs
  <2>2. valueNo[First] = 0
    BY <1>1, <1>2, Zenon
  <2> QED
    BY <2>1, <2>2
<1>6. gathered = Kept(GivenRows(f, Given(f)))
  <2>1. GivenRows(f, 0) = <<>>
    <3>1. 1..0 = {}
      OBVIOUS
    <3> QED
      BY <3>1 DEF GivenRows
  <2>2. Kept(<<>>) = <<>>
    <3> DEFINE I == {r \in DOMAIN <<>> : \A c \in filters \cap DOMAIN <<>>[r] : <<>>[r][c][3] \in Filtered[c]}
    <3>1. Kept(<<>>) = Select(<<>>, I)
      BY Zenon DEF Kept
    <3>2. <<>> \in Seq({0}) /\ Len(<<>>) = 0
      OBVIOUS
    <3> HIDE DEF I
    <3>3. MarksAre({0}, <<>>, I)
      BY <3>2, MarksType, Zenon
    <3>4. /\ Marks(<<>>, I) \in Seq(Seq({0})) /\ Len(Marks(<<>>, I)) = 0
          /\ Select(<<>>, I) = FlattenSeq(Marks(<<>>, I))
      BY <3>2, <3>3, Zenon DEF MarksAre
    <3>5. Marks(<<>>, I) = <<>>
      <4> DEFINE Y == Seq({0})
                 z == Marks(<<>>, I)
      <4>1. z \in Seq(Y) /\ Len(z) = 0
        BY <3>4
      <4> HIDE DEF Y, z
      <4>2. z = <<>>
        BY <4>1
      <4> QED
        BY <4>2 DEF z
    <3>6. FlattenSeq(<<>>) = <<>>
      BY DEF FlattenSeq
    <3> QED
      BY <3>1, <3>4, <3>5, <3>6, Zenon
  <2> QED
    BY <1>3, <2>1, <2>2, Zenon
<1> QED
  BY <1>1, <1>2, <1>4, <1>5, <1>6, Zenon DEF Reading

\* When batches read f next, this is where they are.
LEMMA ReadingNow ==
  ASSUME NEW f \in Files, ColumnsInv, BatchInv, enabled # {}, clean, sources \subseteq {f}, OffsetsHold(f)
  PROVE  Reading(f)
<1>1. CASE sources = {}
  BY <1>1, ReadingAtStart DEF BatchInv
<1>2. CASE sources = {f}
  BY <1>2 DEF BatchInv
<1> QED
  BY <1>1, <1>2

\* Rows that are kept: one part after the other.
LEMMA KeptConcat ==
  ASSUME NEW X, NEW a \in Seq(X), NEW b \in Seq(X)
  PROVE  Kept(a \o b) = Kept(a) \o Kept(b)
<1> DEFINE In(s) == {r \in DOMAIN s : \A c \in filters \cap DOMAIN s[r] : s[r][c][3] \in Filtered[c]}
           w == a \o b
<1>1. /\ w \in Seq(X) /\ Len(w) = Len(a) + Len(b) /\ Len(a) \in Nat /\ Len(b) \in Nat
      /\ \A i \in 1..Len(a) : w[i] = a[i]
      /\ \A j \in 1..Len(b) : w[Len(a) + j] = b[j]
      /\ DOMAIN w = 1..Len(w) /\ DOMAIN a = 1..Len(a) /\ DOMAIN b = 1..Len(b)
  OBVIOUS
<1> HIDE DEF w
<1>2. \A i \in 1..Len(a) : i \in In(w) <=> i \in In(a)
  <2> SUFFICES ASSUME NEW i \in 1..Len(a) PROVE i \in In(w) <=> i \in In(a)
    OBVIOUS
  <2>1. i \in DOMAIN w /\ i \in DOMAIN a
    BY <1>1
  <2>2. w[i] = a[i]
    BY <1>1, Zenon
  <2> QED
    BY <2>1, <2>2, Zenon
<1>3. \A j \in 1..Len(b) : Len(a) + j \in In(w) <=> j \in In(b)
  <2> SUFFICES ASSUME NEW j \in 1..Len(b) PROVE Len(a) + j \in In(w) <=> j \in In(b)
    OBVIOUS
  <2>1. Len(a) + j \in DOMAIN w /\ j \in DOMAIN b
    BY <1>1
  <2>2. w[Len(a) + j] = b[j]
    BY <1>1, Zenon
  <2> QED
    BY <2>1, <2>2, Zenon
<1>4. Kept(w) = Select(w, In(w)) /\ Kept(a) = Select(a, In(a)) /\ Kept(b) = Select(b, In(b))
  BY Zenon DEF Kept
<1> DEFINE I == In(a)
           J == In(b)
           K == In(w)
<1>5. /\ \A i \in 1..Len(a) : i \in K <=> i \in I
      /\ \A j \in 1..Len(b) : Len(a) + j \in K <=> j \in J
      /\ Kept(w) = Select(w, K) /\ Kept(a) = Select(a, I) /\ Kept(b) = Select(b, J)
  BY <1>2, <1>3, <1>4, Zenon
<1> HIDE DEF I, J, K
<1>6. Select(a \o b, K) = Select(a, I) \o Select(b, J)
  <2>1. InParts(a, b, I, J, K)
    BY <1>5, Zenon DEF InParts
  <2>2. \A A, B, C : InParts(a, b, A, B, C) => Select(a \o b, C) = Select(a, A) \o Select(b, B)
    BY SelectConcat
  <2> QED
    BY <2>1, <2>2, Zenon
<1> QED
  BY <1>5, <1>6, Zenon DEF w

\* What OffsetsHold says of a column that is read from inside a value.
LEMMA OffsetsShort ==
  ASSUME NEW f \in Files, OffsetsHold(f), enabled \subseteq Columns, NEW c \in Others
  PROVE  ShortPages(f, c)
<1>1. c \in enabled /\ c # First /\ c \in Columns
  BY DEF Others
<1>2. DOMAIN Cut(f, c) = 1..Len(Cut(f, c))
  <2> DEFINE w == Cut(f, c)
  <2>1. w \in Seq(Stored)
    BY <1>1, ColumnsCut, Zenon DEF CutIs
  <2> HIDE DEF w
  <2>2. DOMAIN w = 1..Len(w)
    BY <2>1
  <2> QED
    BY <2>2 DEF w
<1>3. \A i \in DOMAIN ColumnValues[f][c] :
        \A p \in 1..Len(ColumnValues[f][c][i].pages) - 1 : Len(ColumnValues[f][c][i].pages[p]) <= 1
  BY <1>1, Zenon DEF OffsetsHold
<1> QED
  BY <1>2, <1>3, Zenon DEF ShortPages, Cut

\* The value of the first column that a batch begins with.
FirstValue(k, n) == store[k].values[FirstIndex(n)]

\* It is there, in a file's array, and what it holds is read.
LEMMA FirstValueIs ==
  ASSUME Inv, NEW k \in Keys, NEW n \in [1..ColumnsNo + 1 -> Nat], enabled # {},
         FirstIndex(n) <= store[k].entries
  PROVE  /\ FirstValue(k, n) \in Stored /\ store[k].file \in Files /\ ArrayOK(store[k])
         /\ FlattenSeq(Readable(FirstValue(k, n))) \in Seq(Entry)
<1>1. ArrayOK(store[k])
  BY DEF Inv, StoreInv
<1>2. /\ store[k].values \in Seq(Stored) /\ store[k].entries \in Nat
      /\ store[k].entries <= Len(store[k].values)
      /\ store[k].entries # 0 => store[k].file \in Files
  BY <1>1, ArrayParts, Zenon
<1>3. First \in Columns
  BY FirstIs DEF Inv, ColumnsInv
<1>4. n[First] \in Nat /\ valueNo[First] \in Nat
  <2>1. First \in 1..ColumnsNo + 1
    BY <1>3, ColumnNumbers
  <2> QED
    BY <1>3, <2>1 DEF Inv, CursorInv
<1>5. FirstIndex(n) \in Nat /\ FirstIndex(n) >= 1
  BY <1>4 DEF FirstIndex
<1>6. FirstIndex(n) \in 1..Len(store[k].values) /\ store[k].entries # 0
  BY <1>2, <1>5
<1>7. FirstValue(k, n) \in Stored
  BY <1>2, <1>6 DEF FirstValue
<1>8. Readable(FirstValue(k, n)) \in Seq(Seq(Entry))
  BY <1>7, EntriesRead, Zenon
<1>9. FlattenSeq(Readable(FirstValue(k, n))) \in Seq(Entry)
  BY <1>8, FlattenType, Zenon
<1> QED
  BY <1>1, <1>2, <1>6, <1>7, <1>9, Zenon

\* The parts of a batch.
Reads(k, n, rows, stop, got) ==
  [c \in Others |-> ReadColumn(n, k, c, rows, IF c = stop THEN got ELSE store[k].entries + 1)]
Batch(k, m, stop, got, first, reads) ==
  /\ m = Prepared(k, 0) /\ stop \in {0} \cup Others /\ got \in 0..MaxRead
  /\ m.outcome = "found" /\ FirstLeft(m.counts) /\ FirstIndex(m.counts) <= store[k].entries
  /\ first = FlattenSeq(Readable(FirstValue(k, m.counts)))
  /\ reads = Reads(k, m.counts, Len(first), stop, got)
  /\ stop # 0 => reads[stop].fails
  /\ valueNo' = [c \in Columns |-> Moved(reads)[c].value]
  /\ pageNo' = [c \in Columns |-> Moved(reads)[c].page]
  /\ pageOffset' = [c \in Columns |-> Moved(reads)[c].offset]
Failed(reads) == clean' = FALSE /\ gathered' = gathered /\ sources' = sources
Gives(k, m, first, reads) ==
  /\ \A c \in Others : ~reads[c].fails
  /\ gathered' = gathered \o Kept(Rows(first, reads))
  /\ sources' = sources \cup {store[k].file, m.meta}
  /\ clean' = clean

\* GetRowBatch in these parts.
LEMMA BatchParts ==
  ASSUME NEW k \in Keys, GetRowBatch(k)
  PROVE  /\ enabled # {} /\ UNCHANGED <<store, columns, perm, permFor, mode>>
         /\ \E m, stop, got, first, reads :
              /\ Batch(k, m, stop, got, first, reads) /\ Keeps(m)
              /\ Failed(reads) \/ Gives(k, m, first, reads)
<1>1. enabled # {} /\ UNCHANGED <<store, columns, perm, permFor, mode>>
  BY Zenon DEF GetRowBatch
<1>2. PICK m \in {Prepared(k, 0)} :
     /\ m.outcome = "found" /\ FirstLeft(m.counts) /\ FirstIndex(m.counts) <= store[k].entries
     /\ Keeps(m)
     /\ \E stop \in {0} \cup Others, got \in 0..MaxRead :
        \E first \in {FlattenSeq(Readable(store[k].values[FirstIndex(m.counts)]))} :
        \E reads \in {[c \in Others |->
               ReadColumn(m.counts, k, c, Len(first), IF c = stop THEN got ELSE store[k].entries + 1)]} :
        \E moved \in {Moved(reads)} :
          /\ IF stop = 0 THEN got = 0 /\ UNCHANGED failures
             ELSE reads[stop].fails /\ failures < MaxFailures /\ failures' = failures + 1
          /\ valueNo' = [c \in Columns |-> moved[c].value]
          /\ pageNo' = [c \in Columns |-> moved[c].page]
          /\ pageOffset' = [c \in Columns |-> moved[c].offset]
          /\ IF \E c \in Others : reads[c].fails
             THEN last' = Returns("error") /\ clean' = FALSE /\ UNCHANGED <<gathered, sources>>
             ELSE /\ gathered' = gathered \o Kept(Rows(first, reads))
                  /\ sources' = sources \cup {store[k].file, m.meta}
                  /\ last' = Returns("rows")
                  /\ UNCHANGED clean
  BY Zenon DEF GetRowBatch
<1>3. PICK stop \in {0} \cup Others, got \in 0..MaxRead :
        \E first \in {FlattenSeq(Readable(store[k].values[FirstIndex(m.counts)]))} :
        \E reads \in {[c \in Others |->
               ReadColumn(m.counts, k, c, Len(first), IF c = stop THEN got ELSE store[k].entries + 1)]} :
        \E moved \in {Moved(reads)} :
          /\ IF stop = 0 THEN got = 0 /\ UNCHANGED failures
             ELSE reads[stop].fails /\ failures < MaxFailures /\ failures' = failures + 1
          /\ valueNo' = [c \in Columns |-> moved[c].value]
          /\ pageNo' = [c \in Columns |-> moved[c].page]
          /\ pageOffset' = [c \in Columns |-> moved[c].offset]
          /\ IF \E c \in Others : reads[c].fails
             THEN last' = Returns("error") /\ clean' = FALSE /\ UNCHANGED <<gathered, sources>>
             ELSE /\ gathered' = gathered \o Kept(Rows(first, reads))
                  /\ sources' = sources \cup {store[k].file, m.meta}
                  /\ last' = Returns("rows")
                  /\ UNCHANGED clean
  BY <1>2, Zenon
<1> DEFINE first == FlattenSeq(Readable(FirstValue(k, m.counts)))
           reads == Reads(k, m.counts, Len(first), stop, got)
<1>4. /\ IF stop = 0 THEN got = 0 /\ UNCHANGED failures
         ELSE reads[stop].fails /\ failures < MaxFailures /\ failures' = failures + 1
      /\ valueNo' = [c \in Columns |-> Moved(reads)[c].value]
      /\ pageNo' = [c \in Columns |-> Moved(reads)[c].page]
      /\ pageOffset' = [c \in Columns |-> Moved(reads)[c].offset]
      /\ IF \E c \in Others : reads[c].fails
         THEN last' = Returns("error") /\ clean' = FALSE /\ UNCHANGED <<gathered, sources>>
         ELSE /\ gathered' = gathered \o Kept(Rows(first, reads))
              /\ sources' = sources \cup {store[k].file, m.meta}
              /\ last' = Returns("rows")
              /\ UNCHANGED clean
  BY <1>3, Zenon DEF Reads, FirstValue
<1> HIDE DEF reads
<1>5. Failed(reads) \/ Gives(k, m, first, reads)
  BY <1>4, Zenon DEF Failed, Gives
<1>6. Batch(k, m, stop, got, first, reads)
  BY <1>2, <1>4, Zenon DEF Batch, reads
<1> QED
  BY <1>1, <1>2, <1>5, <1>6, Zenon

\* A batch leaves cursors.
LEMMA BatchCursors ==
  ASSUME Inv, NEW k \in Keys, enabled # {}, NEW m, NEW stop, NEW got, NEW first, NEW reads,
         Batch(k, m, stop, got, first, reads)
  PROVE  /\ CursorInv' /\ MetaOK(m) /\ m.meta \in Files /\ store[k].file \in Files
         /\ first \in Seq(Entry) /\ First \in Columns
<1>1. MetaOK(m) /\ m.outcome = "found"
  BY PreparedOK, Zenon DEF Inv, Batch
<1>2. m.meta \in Files /\ m.counts \in [1..ColumnsNo + 1 -> Nat]
  BY <1>1 DEF MetaOK
<1>3. FirstIndex(m.counts) <= store[k].entries /\ first = FlattenSeq(Readable(FirstValue(k, m.counts)))
  BY Zenon DEF Batch
<1>4. store[k].file \in Files /\ ArrayOK(store[k]) /\ first \in Seq(Entry)
  BY <1>2, <1>3, FirstValueIs, Zenon
<1>5. First \in Columns
  BY FirstIs DEF Inv, ColumnsInv
<1>6. \A c \in Columns : valueNo[c] \in Nat /\ pageNo[c] \in Nat /\ pageOffset[c] \in Nat
  BY DEF Inv, CursorInv
<1> DEFINE cur(c) == Moved(reads)[c]
<1>7. \A c \in Others : reads[c].cur \in Mark
  <2> SUFFICES ASSUME NEW c \in Others PROVE reads[c].cur \in Mark
    OBVIOUS
  <2> DEFINE left == IF c = stop THEN got ELSE store[k].entries + 1
             rows == Len(first)
  <2>1. c \in Columns
    BY DEF Others, Inv, ColumnsInv
  <2>2. reads[c] = ReadColumn(m.counts, k, c, rows, left)
    BY Zenon DEF Batch, Reads
  <2>3. left \in Nat
    <3>1. store[k].entries \in Nat
      BY <1>4, ArrayParts, Zenon
    <3>2. got \in 0..MaxRead
      BY Zenon DEF Batch
    <3>3. MaxRead \in Nat
      BY SizeAssumption
    <3> QED
      BY <3>1, <3>2, <3>3
  <2>4. rows \in Nat
    BY <1>4
  <2>5. m.counts[c] \in Nat
    <3>1. c \in 1..ColumnsNo + 1
      BY <2>1, ColumnNumbers
    <3> QED
      BY <1>2, <3>1
  <2> HIDE DEF left, rows
  <2>6. ReadColumn(m.counts, k, c, rows, left).cur \in Mark
    BY <1>4, <1>6, <2>1, <2>3, <2>4, <2>5, ReadType, Zenon
  <2> QED
    BY <2>2, <2>6, Zenon
<1>8. \A c \in Columns : Cursor(c) \in Mark
  BY <1>6, CursorTypes, Zenon
<1>9. \A c \in Columns : [Cursor(c) EXCEPT !.value = @ + 1] \in Mark
  BY <1>8 DEF Mark
<1>10. \A c \in Columns : cur(c) \in Mark
  <2> SUFFICES ASSUME NEW c \in Columns PROVE cur(c) \in Mark
    OBVIOUS
  <2>1. \/ cur(c) = [Cursor(c) EXCEPT !.value = @ + 1]
        \/ c \in Others /\ cur(c) = reads[c].cur
        \/ cur(c) = Cursor(c)
    BY Zenon DEF Moved
  <2> HIDE DEF cur
  <2> QED
    BY <1>7, <1>8, <1>9, <2>1, Zenon
<1>11. /\ valueNo' = [c \in Columns |-> cur(c).value]
       /\ pageNo' = [c \in Columns |-> cur(c).page]
       /\ pageOffset' = [c \in Columns |-> cur(c).offset]
  BY Zenon DEF Batch
<1> HIDE DEF cur
<1>12. \A c \in Columns : cur(c).value \in Nat /\ cur(c).page \in Nat /\ cur(c).offset \in Nat
  BY <1>10 DEF Mark
<1>13. CursorInv'
  BY <1>11, <1>12 DEF CursorInv
<1> QED
  BY <1>1, <1>2, <1>4, <1>5, <1>13, Zenon

\* Without page headers nothing is read, and wherever the cursor stands, it has
\* passed all.
LEMMA StandsAnywhere ==
  ASSUME NEW f \in Files, f \notin Headers, NEW c \in Columns, NEW d, NEW e, NEW v, NEW p, NEW o,
         Stands(f, c, d, v, p, o)
  PROVE  Stands(f, c, e, v, p, o)
<1>1. FileTape(f, c) = <<>>
  BY ListsAre, Zenon
<1>2. ~ \E r \in 1..Len(FileTape(f, c)) : TRUE
  BY <1>1
<1> QED
  BY <1>2, Zenon DEF Stands

\* The first column's next value, of a batch of file f.
FirstRows(f, first) ==
  /\ valueNo[First] + 1 <= Len(Cut(f, First))
  /\ f \notin Headers => first = <<>>
  /\ f \in Headers =>
       /\ GivenOf(f, First, valueNo[First] + 1) = Given(f) + Len(first)
       /\ Given(f) \in Nat /\ Given(f) + Len(first) <= RowsOf(f, 1)
       /\ \A r \in 1..Len(first) : first[r] = <<f, First, Given(f) + r>>

\* A batch begins with it.
LEMMA FirstRead ==
  ASSUME Inv, NEW k \in Keys, enabled # {}, NEW m, NEW stop, NEW got, NEW first, NEW reads,
         Batch(k, m, stop, got, first, reads), NEW f \in Files, m.meta = f, store[k].file = f
  PROVE  FirstRows(f, first) /\ m.counts = Counts(f)
<1> DEFINE n == Counts(f)
           c == First
           v == valueNo[c]
           w == Cut(f, c)
           N == Len(w)
           value == FirstValue(k, n)
<1>1. MetaOK(m) /\ c \in Columns
  BY BatchCursors, Zenon
<1>2. m.counts = n
  BY <1>1, ColumnNumbers DEF MetaOK
<1>3. /\ FirstLeft(n) /\ FirstIndex(n) <= store[k].entries
      /\ first = FlattenSeq(Readable(value))
  BY <1>2, Zenon DEF Batch
<1>4. /\ ArrayOK(store[k]) /\ store[k] # NoArray
  <2>1. ArrayOK(store[k])
    BY DEF Inv, StoreInv
  <2>2. NoArray.file = None /\ f # None
    BY ColumnNumbers, Zenon DEF NoArray
  <2> QED
    BY <2>1, <2>2, Zenon
<1>5. /\ store[k].entries = Len(DivideFile(f))
      /\ \A i \in 1..store[k].entries : store[k].values[i] = DivideFile(f)[i]
  BY <1>4, Zenon DEF ArrayOK
<1>6. /\ N \in Nat /\ \A i \in 1..N : /\ w[i] = Data(f, w[i].pages)
                                     /\ n[c] + i \in 1..n[ColumnsNo + 1]
                                     /\ DivideFile(f)[n[c] + i] = w[i]
  BY <1>1, ColumnsCut, FileDivided, Zenon DEF CutIs, DivideIs
<1>7. n[c + 1] = n[c] + N /\ n[c] \in Nat /\ v \in Nat
      /\ store[k].entries = n[ColumnsNo + 1] + 1 /\ n[ColumnsNo + 1] \in Nat
  <2>1. c \in 1..ColumnsNo + 1 /\ ColumnsNo + 1 \in 1..ColumnsNo + 1
    BY <1>1, ColumnNumbers
  <2>2. v \in Nat
    BY <1>1 DEF Inv, CursorInv
  <2> QED
    BY <1>1, <1>5, <2>1, <2>2, FileDivided, Zenon DEF DivideIs
<1>8. v + 1 \in 1..N
  <2> DEFINE a == n[c]
             b == n[c + 1]
  <2>1. v < b - a
    BY <1>3, Zenon DEF FirstLeft, InColumn
  <2>2. b = a + N /\ a \in Nat
    BY <1>7, Zenon
  <2> HIDE DEF a, b, N, v
  <2>3. v + 1 \in 1..N
    BY <1>6, <1>7, <2>1, <2>2
  <2> QED
    BY <2>3
<1>9. value = w[v + 1]
  <2>1. n[c] + (v + 1) \in 1..store[k].entries /\ FirstIndex(n) = n[c] + (v + 1)
    <3> DEFINE a == n[c]
               top == n[ColumnsNo + 1]
               i == a + (v + 1)
               all == store[k].entries
    <3>1. i \in 1..top /\ all = top + 1 /\ top \in Nat
      BY <1>6, <1>7, <1>8, Zenon
    <3>2. FirstIndex(n) = a + v + 1 /\ a \in Nat
      BY <1>7, Zenon DEF FirstIndex
    <3> HIDE DEF top, all, i
    <3>3. i \in 1..all
      BY <3>1
    <3> HIDE DEF a, v
    <3>4. FirstIndex(n) = i
      BY <1>7, <3>2 DEF i
    <3> QED
      BY <3>3, <3>4, Zenon DEF i, all, a, v
  <2>2. store[k].values[n[c] + (v + 1)] = DivideFile(f)[n[c] + (v + 1)]
    BY <1>5, <2>1, Zenon
  <2> QED
    BY <1>6, <1>8, <2>1, <2>2, Zenon DEF FirstValue
<1>10. value.pages = w[v + 1].pages /\ (value.headed <=> f \in Headers)
  <2>1. w[v + 1] = Data(f, w[v + 1].pages)
    BY <1>6, <1>8, Zenon
  <2>2. Data(f, w[v + 1].pages).headed <=> f \in Headers
    BY ValueParts, Zenon
  <2> QED
    BY <1>9, <2>1, <2>2, Zenon
<1>11. f \notin Headers => first = <<>>
  <2> SUFFICES ASSUME f \notin Headers PROVE first = <<>>
    OBVIOUS
  <2>1. Readable(value) = <<>>
    BY <1>10, Zenon DEF Readable
  <2>2. FlattenSeq(<<>>) = <<>>
    BY DEF FlattenSeq
  <2> QED
    BY <1>3, <2>1, <2>2, Zenon
<1>12. ASSUME f \in Headers
       PROVE  /\ GivenOf(f, c, v + 1) = Given(f) + Len(first)
              /\ Given(f) \in Nat /\ Given(f) + Len(first) <= RowsOf(f, 1)
              /\ \A r \in 1..Len(first) : first[r] = <<f, c, Given(f) + r>>
  <2>1. first = FlattenSeq(w[v + 1].pages)
    <3>1. Readable(value) = value.pages
      BY <1>10, <1>12, Zenon DEF Readable
    <3> QED
      BY <1>3, <1>10, <3>1, Zenon
  <2>2. v + 1 - 1 = v /\ v \in 0..N /\ v + 1 \in 0..N
    BY <1>6, <1>7, <1>8
  <2>3. /\ GivenOf(f, c, v + 1) = GivenOf(f, c, v) + Len(first)
        /\ \A r \in 1..Len(first) : first[r] = <<f, c, GivenOf(f, c, v) + r>>
        /\ GivenOf(f, c, v) \in Nat /\ GivenOf(f, c, v + 1) <= RowsOf(f, c)
    <3> DEFINE q == v + 1
    <3>1. q \in 1..N /\ q - 1 = v
      BY <1>8, <2>2
    <3>2. first = FlattenSeq(w[q].pages)
      BY <2>1
    <3> HIDE DEF q
    <3>3. /\ GivenOf(f, c, q) = GivenOf(f, c, q - 1) + Len(first)
          /\ \A r \in 1..Len(first) : first[r] = <<f, c, GivenOf(f, c, q - 1) + r>>
      BY <1>1, <3>1, <3>2, NextRows, Zenon
    <3>4. GivenOf(f, c, v) \in Nat /\ GivenOf(f, c, v + 1) <= RowsOf(f, c)
      BY <1>1, <2>2, NextRows, Zenon
    <3>5. q = v + 1
      BY DEF q
    <3> QED
      BY <3>1, <3>3, <3>4, <3>5, Zenon
  <2>4. RowsOf(f, c) = RowsOf(f, 1)
    BY <1>1, PageAssumption, Zenon
  <2>5. Given(f) = GivenOf(f, c, v)
    BY Zenon DEF Given
  <2> QED
    BY <2>3, <2>4, <2>5, Zenon
<1>13. v + 1 <= N
  BY <1>6, <1>8
<1>14. FirstRows(f, first)
  BY <1>11, <1>12, <1>13, Zenon DEF FirstRows
<1> QED
  BY <1>2, <1>14

\* The rows that a batch of f gives, and where it leaves the columns.
ReadsOn(f, first, reads) ==
  /\ FirstRows(f, first)
  /\ f \in Headers => \A c \in Others : \A r \in 1..Len(first) : reads[c].read[r] = <<f, c, Given(f) + r>>
  /\ \A c \in Others :
       Stands(f, c, GivenOf(f, First, valueNo[First] + 1),
              reads[c].cur.value, reads[c].cur.page, reads[c].cur.offset)

\* A batch that does not fail reads on.
LEMMA BatchReads ==
  ASSUME Inv, NEW k \in Keys, enabled # {}, NEW m, NEW stop, NEW got, NEW first, NEW reads,
         Batch(k, m, stop, got, first, reads), NEW f \in Files, m.meta = f, store[k].file = f,
         \A c \in Others : ~reads[c].fails, OffsetsHold(f), Reading(f)
  PROVE  ReadsOn(f, first, reads)
<1> DEFINE n == Counts(f)
           rows == Len(first)
           d == Given(f)
           e == GivenOf(f, First, valueNo[First] + 1)
           left == store[k].entries + 1
<1>1. FirstRows(f, first) /\ m.counts = n
  BY FirstRead, Zenon
<1>2. first \in Seq(Entry) /\ enabled \subseteq Columns
  BY BatchCursors DEF Inv, ColumnsInv
<1>3. rows \in Nat
  BY <1>2
<1>4. ArrayOK(store[k]) /\ f # None
  BY ColumnNumbers DEF Inv, StoreInv
<1>5. f \in Headers => /\ e = d + rows /\ d \in Nat /\ d + rows <= RowsOf(f, 1)
  BY <1>1, Zenon DEF FirstRows
<1>6. f \notin Headers => rows = 0
  <2>1. f \notin Headers => first = <<>>
    BY <1>1, Zenon DEF FirstRows
  <2> QED
    BY <2>1
<1> HIDE DEF rows, d, e, n, left
<1>7. ASSUME NEW c \in Others
      PROVE  /\ f \in Headers => \A r \in 1..rows : reads[c].read[r] = <<f, c, d + r>>
             /\ Stands(f, c, e, reads[c].cur.value, reads[c].cur.page, reads[c].cur.offset)
  <2>1. c \in Columns /\ c # 0
    <3>1. c \in Columns
      BY <1>2 DEF Others
    <3> QED
      BY <3>1, ColumnNumbers
  <2>2. reads[c] = ReadColumn(n, k, c, rows, left)
    <3>1. stop # c
      BY <2>1, Zenon DEF Batch
    <3>2. reads = Reads(k, m.counts, Len(first), stop, got)
      BY Zenon DEF Batch
    <3>3. reads[c] = ReadColumn(m.counts, k, c, Len(first), IF c = stop THEN got ELSE store[k].entries + 1)
      BY <3>2, Zenon DEF Reads
    <3> QED
      BY <1>1, <3>1, <3>3, Zenon DEF rows, left
  <2>3. Stands(f, c, d, valueNo[c], pageNo[c], pageOffset[c])
    BY Zenon DEF Reading, d
  <2>4. valueNo[c] \in Nat /\ pageNo[c] \in Nat /\ pageOffset[c] \in Nat
    BY <2>1 DEF Inv, CursorInv
  <2>5. CASE rows = 0
    <3>1. reads[c].cur = Cursor(c)
      <4>1. ReadColumn(n, k, c, rows, left).cur = Cursor(c)
        BY <2>5, Zenon DEF ReadColumn
      <4> QED
        BY <2>2, <4>1, Zenon
    <3>2. Cursor(c).value = valueNo[c] /\ Cursor(c).page = pageNo[c] /\ Cursor(c).offset = pageOffset[c]
      BY DEF Cursor, At
    <3>3. Stands(f, c, e, valueNo[c], pageNo[c], pageOffset[c])
      <4>1. CASE f \in Headers
        <5>1. e = d
          BY <1>5, <2>5, <4>1
        <5> QED
          BY <2>3, <5>1, Zenon
      <4>2. CASE f \notin Headers
        BY <2>1, <2>3, <4>2, StandsAnywhere, Zenon
      <4> QED
        BY <4>1, <4>2, Zenon
    <3>4. ~ \E r \in 1..rows : TRUE
      BY <2>5
    <3> QED
      BY <3>1, <3>2, <3>3, <3>4, Zenon
  <2>6. CASE rows # 0
    <3>1. f \in Headers
      BY <1>6, <2>6, Zenon
    <3>2. ShortPages(f, c)
      BY <1>2, OffsetsShort, Zenon
    <3>3. RowsOf(f, c) = RowsOf(f, 1)
      BY <2>1, PageAssumption, Zenon
    <3>4. d \in Nat /\ d + rows <= RowsOf(f, c) /\ e = d + rows
      BY <1>5, <3>1, <3>3, Zenon
    <3>5. ReadIs(ReadColumn(Counts(f), k, c, rows, store[k].entries + 1), f, c, d, rows)
      BY <1>3, <1>4, <2>1, <2>3, <2>4, <2>6, <3>1, <3>2, <3>4, ReadOn, Zenon
    <3>6. ReadIs(reads[c], f, c, d, rows)
      BY <2>2, <3>5, Zenon DEF n, left
    <3> QED
      BY <3>4, <3>6, Zenon DEF ReadIs
  <2> QED
    BY <2>5, <2>6, Zenon
<1> QED
  BY <1>1, <1>7, Zenon DEF ReadsOn, rows, d, e

\* One sequence after the other.
LEMMA ConcatIs ==
  ASSUME NEW X, NEW a \in Seq(X), NEW b \in Seq(X)
  PROVE  /\ a \o b \in Seq(X) /\ Len(a \o b) = Len(a) + Len(b)
         /\ \A r \in 1..Len(a) : (a \o b)[r] = a[r]
         /\ \A r \in 1..Len(b) : (a \o b)[Len(a) + r] = b[r]
OBVIOUS

\* The rows that follow those that have been given.
LEMMA RowsFollow ==
  ASSUME NEW f \in Files, NEW d \in Nat, NEW first \in Seq(Entry), NEW reads,
         enabled \subseteq Columns, First \in enabled,
         \A r \in 1..Len(first) : first[r] = <<f, First, d + r>>,
         \A c \in Others : \A r \in 1..Len(first) : reads[c].read[r] = <<f, c, d + r>>
  PROVE  Kept(GivenRows(f, d + Len(first))) = Kept(GivenRows(f, d)) \o Kept(Rows(first, reads))
<1> DEFINE X == [enabled -> Entry]
           n == Len(first)
           Y(r) == [c \in enabled |-> <<f, c, r>>]
           a == GivenRows(f, d)
           b == Rows(first, reads)
           w == GivenRows(f, d + n)
<1>1. n \in Nat /\ DOMAIN first = 1..n
  OBVIOUS
<1>2. \A r \in Nat : Y(r) \in X
  <2> SUFFICES ASSUME NEW r \in Nat PROVE Y(r) \in X
    OBVIOUS
  <2>1. \A c \in enabled : <<f, c, r>> \in Entry
    BY DEF Entry
  <2> QED
    BY <2>1, Zenon
<1>3. ASSUME NEW r \in 1..n
      PROVE  [c \in enabled |-> IF c = First THEN first[r] ELSE reads[c].read[r]] = Y(d + r)
  <2>1. ASSUME NEW c \in enabled
        PROVE  (IF c = First THEN first[r] ELSE reads[c].read[r]) = <<f, c, d + r>>
    <3>1. CASE c = First
      <4>1. first[r] = <<f, First, d + r>>
        BY Zenon
      <4> QED
        BY <3>1, <4>1, Zenon
    <3>2. CASE c # First
      <4>1. c \in Others
        BY <3>2 DEF Others
      <4>2. reads[c].read[r] = <<f, c, d + r>>
        BY <4>1, Zenon
      <4> QED
        BY <3>2, <4>2, Zenon
    <3> QED
      BY <3>1, <3>2, Zenon
  <2> QED
    BY <2>1, Zenon
<1>4. a = [r \in 1..d |-> Y(r)] /\ w = [r \in 1..d + n |-> Y(r)]
  BY Zenon DEF GivenRows
<1>5. b = [r \in 1..n |-> Y(d + r)]
  <2>1. b = [r \in 1..n |-> [c \in enabled |-> IF c = First THEN first[r] ELSE reads[c].read[r]]]
    BY <1>1, Zenon DEF Rows
  <2> QED
    BY <1>3, <2>1, Zenon
<1> HIDE DEF X, Y, a, b, w, n
<1>6. a \in Seq(X) /\ Len(a) = d /\ \A r \in 1..d : a[r] = Y(r)
  BY <1>2, <1>4
<1>7. w \in Seq(X) /\ Len(w) = d + n /\ \A r \in 1..d + n : w[r] = Y(r)
  BY <1>1, <1>2, <1>4
<1>8. b \in Seq(X) /\ Len(b) = n /\ \A r \in 1..n : b[r] = Y(d + r)
  <2>1. \A r \in 1..n : Y(d + r) \in X
    <3>1. \A r \in 1..n : d + r \in Nat
      BY <1>1
    <3> QED
      BY <1>2, <3>1, Zenon
  <2> QED
    BY <1>1, <1>5, <2>1
<1>9. w = a \o b
  <2> DEFINE z == a \o b
  <2>1. /\ z \in Seq(X) /\ Len(z) = d + n
        /\ \A r \in 1..d : z[r] = a[r]
        /\ \A r \in 1..n : z[d + r] = b[r]
    <3>1. a \in Seq(X) /\ Len(a) = d /\ b \in Seq(X) /\ Len(b) = n
      BY <1>6, <1>8, Zenon
    <3>2. a \in Seq(X) /\ b \in Seq(X)
      BY <3>1, Zenon
    <3>3. /\ z \in Seq(X) /\ Len(z) = Len(a) + Len(b)
          /\ \A r \in 1..Len(a) : z[r] = a[r]
          /\ \A r \in 1..Len(b) : z[Len(a) + r] = b[r]
      BY <3>2, ConcatIs
    <3> QED
      BY <3>1, <3>3, Zenon
  <2>2. \A r \in 1..d : z[r] = Y(r)
    BY <1>6, <2>1, Zenon
  <2>3. \A r \in 1..n : z[d + r] = Y(d + r)
    BY <1>8, <2>1, Zenon
  <2> HIDE DEF z
  <2>4. ASSUME NEW r \in 1..d + n PROVE z[r] = Y(r)
    <3>1. CASE r \in 1..d
      BY <2>2, <3>1, Zenon
    <3>2. CASE r \notin 1..d
      <4>1. r - d \in 1..n /\ d + (r - d) = r
        BY <1>1, <3>2
      <4> QED
        BY <2>3, <4>1, Zenon
    <3> QED
      BY <3>1, <3>2, Zenon
  <2>5. w = z
    <3>1. \A r \in 1..Len(w) : w[r] = z[r]
      BY <1>7, <2>4, Zenon
    <3> QED
      BY <1>7, <2>1, <3>1, SameSequence, Zenon
  <2> QED
    BY <2>5 DEF z
<1>10. Kept(a \o b) = Kept(a) \o Kept(b)
  BY <1>6, <1>8, KeptConcat, Zenon
<1> QED
  BY <1>9, <1>10, Zenon DEF a, b, w, n

\* Kept rows of a file, for the columns and filters as they are.
KeptBy(F, rows) == Select(rows, {r \in DOMAIN rows : \A c \in F \cap DOMAIN rows[r] : rows[r][c][3] \in Filtered[c]})
RowsFor(E, f, n) == [r \in 1..n |-> [c \in E |-> <<f, c, r>>]]
ReadingFor(f, E, F, first, others, value, page, offset, rows) ==
  /\ value[first] <= Len(Cut(f, first)) /\ page[first] = 0 /\ offset[first] = 0
  /\ \A c \in others : Stands(f, c, GivenOf(f, first, value[first]), value[c], page[c], offset[c])
  /\ \A c \in Columns \ E : value[c] = 0 /\ page[c] = 0 /\ offset[c] = 0
  /\ f \in Headers => rows = KeptBy(F, RowsFor(E, f, GivenOf(f, first, value[first])))

\* The same, written with everything it depends on.
LEMMA ReadingIs ==
  ASSUME NEW f
  PROVE  /\ Reading(f) <=> ReadingFor(f, enabled, filters, First, Others, valueNo, pageNo, pageOffset, gathered)
         /\ Reading(f)' <=> ReadingFor(f, enabled', filters', First', Others', valueNo', pageNo', pageOffset', gathered')
BY Zenon DEF Reading, ReadingFor, Given, Kept, KeptBy, GivenRows, RowsFor

\* While the columns stay, so does where they are read from.
LEMMA FirstStays ==
  ASSUME enabled' = enabled
  PROVE  First' = First /\ Others' = Others /\ \A f : OffsetsHold(f)' <=> OffsetsHold(f)
<1>1. First' = First /\ Others' = Others
  BY Zenon DEF First, Others
<1> QED
  BY <1>1, Zenon DEF OffsetsHold

\* Where a batch that does not fail leaves the cursors.
LEMMA BatchMoves ==
  ASSUME NEW k, NEW m, NEW stop, NEW got, NEW first, NEW reads, Batch(k, m, stop, got, first, reads),
         enabled \subseteq Columns, First \in enabled, \A c \in Others : ~reads[c].fails
  PROVE  /\ valueNo'[First] = valueNo[First] + 1 /\ pageNo'[First] = pageNo[First]
         /\ pageOffset'[First] = pageOffset[First]
         /\ \A c \in Others : /\ valueNo'[c] = reads[c].cur.value /\ pageNo'[c] = reads[c].cur.page
                              /\ pageOffset'[c] = reads[c].cur.offset
         /\ \A c \in Columns \ enabled : /\ valueNo'[c] = valueNo[c] /\ pageNo'[c] = pageNo[c]
                                         /\ pageOffset'[c] = pageOffset[c]
<1> DEFINE cur(c) == Moved(reads)[c]
<1>1. \A c \in Columns : valueNo'[c] = cur(c).value /\ pageNo'[c] = cur(c).page /\ pageOffset'[c] = cur(c).offset
  BY Zenon DEF Batch
<1>2. \A c : Cursor(c).value = valueNo[c] /\ Cursor(c).page = pageNo[c] /\ Cursor(c).offset = pageOffset[c]
  BY DEF Cursor, At
<1>3. First \in Columns
  OBVIOUS
<1>4. cur(First) = [Cursor(First) EXCEPT !.value = @ + 1]
  BY <1>3, Zenon DEF Moved
<1>5. \A c \in Others : c \in Columns /\ cur(c) = reads[c].cur
  <2> SUFFICES ASSUME NEW c \in Others PROVE c \in Columns /\ cur(c) = reads[c].cur
    OBVIOUS
  <2>1. c \in Columns /\ c # First
    BY DEF Others
  <2> QED
    BY <2>1, Zenon DEF Moved
<1>6. \A c \in Columns \ enabled : cur(c) = Cursor(c)
  <2> SUFFICES ASSUME NEW c \in Columns \ enabled PROVE cur(c) = Cursor(c)
    OBVIOUS
  <2>1. c \in Columns /\ c # First /\ c \notin Others
    BY DEF Others
  <2> QED
    BY <2>1, Zenon DEF Moved
<1> HIDE DEF cur
<1>7. /\ cur(First).value = valueNo[First] + 1 /\ cur(First).page = pageNo[First]
      /\ cur(First).offset = pageOffset[First]
  BY <1>4 DEF Cursor, At
<1>8. \A c \in Columns \ enabled : c \in Columns
  OBVIOUS
<1>9. /\ valueNo'[First] = valueNo[First] + 1 /\ pageNo'[First] = pageNo[First]
      /\ pageOffset'[First] = pageOffset[First]
  BY <1>1, <1>3, <1>7, Zenon
<1>10. \A c \in Others : /\ valueNo'[c] = reads[c].cur.value /\ pageNo'[c] = reads[c].cur.page
                          /\ pageOffset'[c] = reads[c].cur.offset
  BY <1>1, <1>5, Zenon
<1>11. \A c \in Columns \ enabled : /\ valueNo'[c] = valueNo[c] /\ pageNo'[c] = pageNo[c]
                                     /\ pageOffset'[c] = pageOffset[c]
  BY <1>1, <1>2, <1>6, <1>8, Zenon
<1> QED
  BY <1>9, <1>10, <1>11, Zenon

\* After a batch of f that does not fail, the columns are where its next one begins.
LEMMA BatchReading ==
  ASSUME Inv, NEW k \in Keys, enabled # {}, NEW m, NEW stop, NEW got, NEW first, NEW reads,
         Batch(k, m, stop, got, first, reads), Gives(k, m, first, reads), UNCHANGED columns,
         NEW f \in Files, m.meta = f, store[k].file = f, OffsetsHold(f), Reading(f)
  PROVE  Reading(f)'
<1> DEFINE v == valueNo[First]
           d == Given(f)
           e == GivenOf(f, First, v + 1)
           rows == Len(first)
<1>1. \A c \in Others : ~reads[c].fails
  BY Zenon DEF Gives
<1>2. ReadsOn(f, first, reads)
  BY <1>1, BatchReads, Zenon
<1>3. FirstRows(f, first)
  BY <1>2, Zenon DEF ReadsOn
<1>4. enabled' = enabled /\ filters' = filters /\ First' = First /\ Others' = Others
  <2>1. enabled' = enabled /\ filters' = filters
    BY DEF columns
  <2> QED
    BY <2>1, FirstStays, Zenon
<1>5. enabled \subseteq Columns /\ First \in enabled
  BY FirstIs DEF Inv, ColumnsInv
<1>6. /\ valueNo'[First] = v + 1 /\ pageNo'[First] = 0 /\ pageOffset'[First] = 0
      /\ \A c \in Others : /\ valueNo'[c] = reads[c].cur.value /\ pageNo'[c] = reads[c].cur.page
                           /\ pageOffset'[c] = reads[c].cur.offset
      /\ \A c \in Columns \ enabled : valueNo'[c] = 0 /\ pageNo'[c] = 0 /\ pageOffset'[c] = 0
  <2>1. /\ pageNo[First] = 0 /\ pageOffset[First] = 0
        /\ \A c \in Columns \ enabled : valueNo[c] = 0 /\ pageNo[c] = 0 /\ pageOffset[c] = 0
    BY Zenon DEF Reading
  <2>2. /\ valueNo'[First] = valueNo[First] + 1 /\ pageNo'[First] = pageNo[First]
        /\ pageOffset'[First] = pageOffset[First]
        /\ \A c \in Others : /\ valueNo'[c] = reads[c].cur.value /\ pageNo'[c] = reads[c].cur.page
                             /\ pageOffset'[c] = reads[c].cur.offset
        /\ \A c \in Columns \ enabled : /\ valueNo'[c] = valueNo[c] /\ pageNo'[c] = pageNo[c]
                                        /\ pageOffset'[c] = pageOffset[c]
    BY <1>1, <1>5, BatchMoves, Zenon
  <2> QED
    BY <2>1, <2>2, Zenon
<1>7. v + 1 <= Len(Cut(f, First))
  BY <1>3, Zenon DEF FirstRows
<1>8. \A c \in Others : Stands(f, c, e, valueNo'[c], pageNo'[c], pageOffset'[c])
  <2> SUFFICES ASSUME NEW c \in Others PROVE Stands(f, c, e, valueNo'[c], pageNo'[c], pageOffset'[c])
    OBVIOUS
  <2>1. Stands(f, c, e, reads[c].cur.value, reads[c].cur.page, reads[c].cur.offset)
    BY <1>2, Zenon DEF ReadsOn
  <2> QED
    BY <1>6, <2>1, Zenon
<1>9. ASSUME f \in Headers PROVE gathered' = KeptBy(filters, RowsFor(enabled, f, e))
  <2>1. e = d + rows /\ d \in Nat /\ \A r \in 1..rows : first[r] = <<f, First, d + r>>
    BY <1>3, <1>9, Zenon DEF FirstRows
  <2>2. \A c \in Others : \A r \in 1..rows : reads[c].read[r] = <<f, c, d + r>>
    BY <1>2, <1>9, Zenon DEF ReadsOn
  <2>3. first \in Seq(Entry)
    BY BatchCursors, Zenon
  <2> HIDE DEF d
  <2>4. Kept(GivenRows(f, d + rows)) = Kept(GivenRows(f, d)) \o Kept(Rows(first, reads))
    BY <1>5, <2>1, <2>2, <2>3, RowsFollow, Zenon
  <2>5. gathered = Kept(GivenRows(f, d))
    BY <1>9, Zenon DEF Reading, d
  <2>6. gathered' = gathered \o Kept(Rows(first, reads))
    BY Zenon DEF Gives
  <2>7. gathered' = Kept(GivenRows(f, d + rows))
    BY <2>4, <2>5, <2>6, Zenon
  <2> HIDE DEF e, rows
  <2>8. gathered' = Kept(GivenRows(f, e))
    BY <2>1, <2>7, Zenon
  <2> QED
    BY <2>8, Zenon DEF Kept, GivenRows, KeptBy, RowsFor
<1>10. ReadingFor(f, enabled, filters, First, Others, valueNo', pageNo', pageOffset', gathered')
  BY <1>6, <1>7, <1>8, <1>9, Zenon DEF ReadingFor
<1>11. ReadingFor(f, enabled', filters', First', Others', valueNo', pageNo', pageOffset', gathered')
  BY <1>4, <1>10, Zenon
<1> QED
  BY <1>11, ReadingIs, Zenon

\* A batch keeps the invariant.
LEMMA BatchKeeps ==
  ASSUME Inv, NEW k \in Keys, GetRowBatch(k)
  PROVE  CacheInv' /\ CursorInv' /\ BatchInv'
<1>1. /\ enabled # {} /\ UNCHANGED columns /\ enabled' = enabled
      /\ \E m, stop, got, first, reads :
           /\ Batch(k, m, stop, got, first, reads) /\ Keeps(m)
           /\ Failed(reads) \/ Gives(k, m, first, reads)
  BY BatchParts, Zenon DEF columns
<1>2. PICK m, stop, got, first, reads :
           /\ Batch(k, m, stop, got, first, reads) /\ Keeps(m)
           /\ Failed(reads) \/ Gives(k, m, first, reads)
  BY <1>1, Zenon
<1>3. CursorInv' /\ MetaOK(m) /\ m.meta \in Files /\ store[k].file \in Files
  BY <1>1, <1>2, BatchCursors, Zenon
<1>4. CacheInv'
  BY <1>2, <1>3, CacheKept, Zenon
<1>5. BatchInv /\ ColumnsInv
  BY DEF Inv
<1>6. CASE Failed(reads)
  <2>1. clean' = FALSE /\ sources' = sources
    BY <1>6, Zenon DEF Failed
  <2> QED
    BY <1>1, <1>3, <1>4, <1>5, <2>1, Zenon DEF BatchInv
<1>7. CASE Gives(k, m, first, reads)
  <2>1. sources' = sources \cup {store[k].file, m.meta} /\ clean' = clean
    BY <1>7, Zenon DEF Gives
  <2>2. IsFiniteSet(sources') /\ sources' \subseteq Files /\ sources' # {}
    <3>1. sources \subseteq Files /\ IsFiniteSet(sources)
      BY <1>5 DEF BatchInv
    <3>2. sources' \subseteq Files /\ sources' # {} /\ sources' = (sources \cup {store[k].file}) \cup {m.meta}
      BY <1>3, <2>1, <3>1
    <3>3. IsFiniteSet((sources \cup {store[k].file}) \cup {m.meta})
      BY <3>1, FS_AddElement, Zenon
    <3> QED
      BY <3>2, <3>3, Zenon
  <2>3. ASSUME NEW f \in Files, clean', sources' = {f}, OffsetsHold(f)' PROVE Reading(f)'
    <3>1. clean /\ OffsetsHold(f)
      BY <1>1, <2>1, <2>3, FirstStays, Zenon
    <3>2. sources \subseteq {f} /\ store[k].file = f /\ m.meta = f
      BY <2>1, <2>3
    <3>3. Reading(f)
      BY <1>1, <1>5, <3>1, <3>2, ReadingNow, Zenon
    <3> QED
      BY <1>1, <1>2, <1>7, <3>1, <3>2, <3>3, BatchReading, Zenon
  <2>4. BatchInv'
    BY <1>1, <2>2, <2>3, Zenon DEF BatchInv
  <2> QED
    BY <1>3, <1>4, <2>4
<1> QED
  BY <1>2, <1>6, <1>7

\* A cursor set back.
LEMMA CursorsReset ==
  ASSUME resetOffsets
  PROVE  CursorInv' /\ BatchInv'
<1>1. valueNo' = Zero /\ pageNo' = Zero /\ pageOffset' = Zero /\ gathered' = <<>> /\ sources' = {} /\ clean' = TRUE
  BY Zenon DEF resetOffsets
<1>2. CursorInv'
  BY <1>1 DEF CursorInv, Zero
<1>3. IsFiniteSet({}) /\ {} \subseteq Files /\ \A f : {} # {f}
  BY FS_EmptySet
<1>4. Zero' = Zero
  BY DEF Zero
<1>5. BatchInv'
  BY <1>1, <1>3, <1>4, Zenon DEF BatchInv
<1> QED
  BY <1>2, <1>5

\* A step that leaves columns, cursors and history alone.
LEMMA BatchStays ==
  ASSUME BatchInv, UNCHANGED columns, UNCHANGED pageNo, UNCHANGED pageOffset, UNCHANGED gathered, UNCHANGED sources,
         clean' => clean /\ valueNo' = valueNo
  PROVE  BatchInv'
<1>1. enabled' = enabled /\ filters' = filters /\ First' = First /\ Others' = Others
      /\ \A f : OffsetsHold(f)' <=> OffsetsHold(f)
  BY FirstStays, Zenon DEF columns
<1>2. ASSUME NEW f \in Files, clean', sources' = {f}, OffsetsHold(f)' PROVE Reading(f)'
  <2>1. Reading(f) /\ valueNo' = valueNo
    BY <1>1, <1>2, Zenon DEF BatchInv
  <2>2. ReadingFor(f, enabled', filters', First', Others', valueNo', pageNo', pageOffset', gathered')
    BY <1>1, <2>1, ReadingIs, Zenon
  <2> QED
    BY <2>2, ReadingIs, Zenon
<1>3. clean' /\ sources' = {} => valueNo' = Zero' /\ pageNo' = Zero' /\ pageOffset' = Zero' /\ gathered' = <<>>
  <2>1. Zero' = Zero
    BY DEF Zero
  <2> QED
    BY <2>1, Zenon DEF BatchInv
<1>4. IsFiniteSet(sources') /\ sources' \subseteq Files /\ (sources' # {} => enabled' # {})
  BY <1>1, Zenon DEF BatchInv
<1> QED
  BY <1>2, <1>3, <1>4, Zenon DEF BatchInv

\* GetPerturbedRows at most sets cursors back or forth.
LEMMA PerturbParts ==
  ASSUME Inv, NEW k \in Keys, GetPerturbedRows(k)
  PROVE  /\ CacheInv' /\ CursorInv' /\ mode' \in {"running", "panicked", "hung"}
         /\ clean' => clean /\ valueNo' = valueNo
<1>1. UNCHANGED pageNo /\ UNCHANGED pageOffset /\ clean' = (clean /\ valueNo' = valueNo)
  BY Zenon DEF GetPerturbedRows
<1>2. PICK bad \in 0..3 : \E m \in {Prepared(k, bad)} :
       /\ Keeps(m)
       /\ \/ m.outcome = "error" /\ UNCHANGED <<valueNo, mode>>
          \/ m.outcome = "none" /\ UNCHANGED <<valueNo, mode>>
          \/ mode' = "panicked" /\ UNCHANGED valueNo
          \/ m.outcome = "found" /\ Perturb(k, m.counts, bad = 3)
  BY Zenon DEF GetPerturbedRows
<1>3. PICK m : /\ m = Prepared(k, bad) /\ Keeps(m)
               /\ \/ UNCHANGED <<valueNo, mode>>
                  \/ mode' = "panicked" /\ UNCHANGED valueNo
                  \/ m.outcome = "found" /\ Perturb(k, m.counts, bad = 3)
  BY <1>2, Zenon
<1>4. CacheInv'
  BY <1>3, PreparedOK, CacheKept, Zenon DEF Inv
<1>5. CursorInv /\ mode \in {"running", "panicked", "hung"}
  BY DEF Inv, ColumnsInv
<1> DEFINE back == [c \in Columns |-> IF c \in Involved THEN 0 ELSE valueNo[c]]
           next == AfterKeys(m.counts)
<1>6. valueNo' \in [Columns -> Nat] /\ mode' \in {"running", "panicked", "hung"}
  <2>1. back \in [Columns -> Nat]
    BY <1>5 DEF CursorInv
  <2>2. next \in [Columns -> Nat]
    BY <1>5 DEF CursorInv, AfterKeys
  <2>3. CASE UNCHANGED <<valueNo, mode>>
    BY <1>5, <2>3 DEF CursorInv
  <2>4. CASE mode' = "panicked" /\ UNCHANGED valueNo
    BY <1>5, <2>4 DEF CursorInv
  <2>5. CASE Perturb(k, m.counts, bad = 3)
    <3>1. (valueNo' = next \/ valueNo' = back) /\ (mode' = mode \/ mode' = "panicked")
      BY <2>5, Zenon DEF Perturb
    <3> HIDE DEF next, back
    <3> QED
      BY <1>5, <2>1, <2>2, <3>1
  <2> QED
    BY <1>3, <2>3, <2>4, <2>5
<1>7. CursorInv'
  BY <1>1, <1>5, <1>6 DEF CursorInv
<1>8. clean' => clean /\ valueNo' = valueNo
  BY <1>1, Zenon
<1> QED
  BY <1>4, <1>6, <1>7, <1>8

\* The numbers of some of the columns are no more than there are columns.
LEMMA InOrderLength ==
  ASSUME NEW cs
  PROVE  InOrder(cs) \in Seq(Columns) /\ Len(InOrder(cs)) \in Nat /\ Len(InOrder(cs)) <= ColumnsNo
<1> DEFINE s == [c \in 1..ColumnsNo |-> c]
           z == Marks(s, cs)
           N == ColumnsNo
<1>1. Columns = 1..N /\ N \in Nat
  BY ColumnNumbers, Zenon
<1>2. InOrder(cs) = Select(s, cs)
  BY Zenon DEF InOrder
<1> HIDE DEF N
<1>3. s \in Seq(Columns) /\ Len(s) = N
  <2>1. s = [c \in 1..N |-> c]
    BY Zenon DEF N
  <2> HIDE DEF s
  <2> QED
    BY <1>1, <2>1
<1> HIDE DEF s
<1>4. MarksAre(Columns, s, cs)
  BY <1>3, MarksType, Zenon
<1>5. /\ z \in Seq(Seq(Columns)) /\ Len(z) = N /\ \A i \in 1..N : z[i] = IF i \in cs THEN <<s[i]>> ELSE <<>>
      /\ InOrder(cs) = FlattenSeq(z) /\ InOrder(cs) \in Seq(Columns)
  BY <1>2, <1>3, <1>4, Zenon DEF MarksAre
<1> HIDE DEF z
<1>6. \A i \in 1..Len(z) : Len(z[i]) <= 1
  <2> SUFFICES ASSUME NEW i \in 1..N PROVE Len(z[i]) <= 1
    BY <1>5
  <2>1. z[i] = <<s[i]>> \/ z[i] = <<>>
    BY <1>5, Zenon
  <2>2. Len(<<s[i]>>) = 1 /\ Len(<<>>) = 0
    OBVIOUS
  <2> DEFINE x == Len(z[i])
  <2>3. x = 1 \/ x = 0
    BY <2>1, <2>2, Zenon
  <2> HIDE DEF x
  <2>4. x <= 1
    BY <2>3
  <2> QED
    BY <2>4 DEF x
<1>7. Flat(z, N) = FlattenSeq(z) /\ N \in 0..Len(z)
  <2>1. Flat(z, Len(z)) = FlattenSeq(z)
    BY <1>5, FlatSteps, Zenon
  <2>2. N \in 0..Len(z)
    BY <1>1, <1>5
  <2> QED
    BY <1>5, <2>1, <2>2, Zenon
<1>8. Len(Flat(z, N)) <= N
  BY <1>5, <1>6, <1>7, FlattenAtMost, Zenon
<1>9. Len(InOrder(cs)) <= N
  BY <1>5, <1>7, <1>8, Zenon
<1>10. Len(InOrder(cs)) \in Nat
  <2> DEFINE x == InOrder(cs)
  <2>1. x \in Seq(Columns)
    BY <1>5, Zenon
  <2> HIDE DEF x
  <2> QED
    BY <2>1 DEF x
<1> QED
  BY <1>5, <1>9, <1>10, Zenon DEF N

\* A new permutation.
LEMMA PermutationIs ==
  ASSUME NEW n \in Nat, n <= ColumnsNo, NEW p \in Permutations3(n)
  PROVE  Range(p) \subseteq 1..ColumnsNo /\ Len(p) % 3 = 0
<1> DEFINE length == IF n % 3 = 0 THEN n ELSE n + 3 - (n % 3)
<1>1. p \in [1..length -> 1..n]
  BY Zenon DEF Permutations3
<1>2. length \in Nat /\ length % 3 = 0
  BY SMT
<1> HIDE DEF length
<1>3. Len(p) = length
  BY <1>1, <1>2
<1>4. Range(p) \subseteq 1..n
  BY <1>1 DEF Range
<1>5. 1..n \subseteq 1..ColumnsNo
  BY ColumnNumbers
<1> QED
  BY <1>2, <1>3, <1>4, <1>5

\* The first states.
LEMMA InitInv ==
  ASSUME Init
  PROVE  Inv
<1>1. StoreInv
  <2>1. store \in [Keys -> {NoArray} \cup {Over(NoArray, f) : f \in Headers}]
    BY Zenon DEF Init
  <2>2. NoArray.values = <<>> /\ <<>> \in Seq(Stored)
    BY DEF NoArray
  <2>3. \A f \in Headers : ArrayOK(Over(NoArray, f))
    <3>1. ArrayOK(NoArray)
      BY Zenon DEF ArrayOK
    <3>2. Headers \subseteq Files
      BY ColumnNumbers
    <3> QED
      BY <2>2, <3>1, <3>2, OverOK
  <2>4. \A a \in {NoArray} \cup {Over(NoArray, f) : f \in Headers} : ArrayOK(a)
    <3>1. ArrayOK(NoArray)
      BY Zenon DEF ArrayOK
    <3> DEFINE A(f) == Over(NoArray, f)
               OK(a) == ArrayOK(a)
    <3>2. OK(NoArray) /\ \A f \in Headers : OK(A(f))
      BY <2>3, <3>1
    <3> HIDE DEF A, OK
    <3>3. \A a \in {NoArray} \cup {A(f) : f \in Headers} : OK(a)
      BY <3>2
    <3> QED
      BY <3>3 DEF A, OK
  <2> DEFINE T == {NoArray} \cup {Over(NoArray, f) : f \in Headers}
  <2> HIDE DEF T
  <2>5. store = [k \in Keys |-> store[k]] /\ \A k \in Keys : store[k] \in T
    BY <2>1, Zenon DEF T
  <2> QED
    BY <2>4, <2>5, Zenon DEF StoreInv, T
<1>2. CacheInv
  <2>1. dir = 0 /\ meta = None /\ counts = NoCounts
    BY Zenon DEF Init
  <2> QED
    BY <2>1 DEF CacheInv, NoCounts
<1>3. ColumnsInv
  <2>1. enabled = Columns /\ output = {} /\ filters = {} /\ perm = <<>> /\ mode = "running"
    BY Zenon DEF Init
  <2>2. Range(<<>>) = {} /\ Len(<<>>) = 0 /\ 0 % 3 = 0
    BY DEF Range
  <2> QED
    BY <2>1, <2>2 DEF ColumnsInv
<1>4. valueNo = Zero /\ pageNo = Zero /\ pageOffset = Zero /\ gathered = <<>> /\ sources = {}
  BY Zenon DEF Init
<1>5. CursorInv
  BY <1>4 DEF CursorInv, Zero
<1>6. IsFiniteSet({}) /\ {} \subseteq Files /\ \A f : {} # {f}
  BY FS_EmptySet
<1>7. BatchInv
  BY <1>4, <1>6, Zenon DEF BatchInv
<1> QED
  BY <1>1, <1>2, <1>3, <1>5, <1>7 DEF Inv

\* Every step keeps the invariant.
LEMMA StepInv ==
  ASSUME Inv, [Next]_vars
  PROVE  Inv'
<1>1. StoreInv /\ CacheInv /\ ColumnsInv /\ CursorInv /\ BatchInv
  BY DEF Inv
<1>2. ASSUME UNCHANGED store PROVE StoreInv'
  BY <1>1, <1>2, Zenon DEF StoreInv, ArrayOK
<1>3. ASSUME UNCHANGED cache PROVE CacheInv'
  BY <1>1, <1>3, Zenon DEF CacheInv, cache
<1>4. ASSUME UNCHANGED columns, UNCHANGED perm, mode' \in {"running", "panicked", "hung"} PROVE ColumnsInv'
  BY <1>1, <1>4 DEF ColumnsInv, columns
<1>5. ASSUME UNCHANGED cursor PROVE CursorInv' /\ UNCHANGED pageNo /\ UNCHANGED pageOffset /\ UNCHANGED valueNo
  BY <1>1, <1>5 DEF CursorInv, cursor
<1>6. ASSUME UNCHANGED columns, UNCHANGED cursor, UNCHANGED history PROVE BatchInv'
  <2>1. /\ UNCHANGED pageNo /\ UNCHANGED pageOffset /\ UNCHANGED gathered /\ UNCHANGED sources
        /\ clean' => clean /\ valueNo' = valueNo
    BY <1>6, Zenon DEF cursor, history
  <2> QED
    BY <1>1, <1>6, <2>1, BatchStays, Zenon
<1>7. mode \in {"running", "panicked", "hung"}
  BY <1>1 DEF ColumnsInv
<1>8. CASE SetColumns
  <2>1. /\ enabled' \subseteq Columns /\ output' \subseteq Columns /\ filters' \subseteq Columns
    BY <1>1, <1>8 DEF SetColumns, ColumnsInv
  <2>2. resetOffsets /\ UNCHANGED store /\ UNCHANGED cache /\ perm' = perm /\ mode' = mode
    BY <1>8, Zenon DEF SetColumns
  <2>3. ColumnsInv'
    BY <1>1, <2>1, <2>2 DEF ColumnsInv
  <2> QED
    BY <1>2, <1>3, <2>2, <2>3, CursorsReset, Zenon DEF Inv
<1>9. CASE SetParquetSchema
  <2>1. /\ enabled' = Columns /\ output' = {} /\ filters' = {} /\ dir' = 0 /\ meta' = None
        /\ counts' = NoCounts /\ perm' = <<>> /\ resetOffsets /\ UNCHANGED store /\ mode' = mode
    BY <1>9, Zenon DEF SetParquetSchema
  <2>2. Range(<<>>) = {} /\ Len(<<>>) = 0 /\ 0 % 3 = 0
    BY DEF Range
  <2>3. ColumnsInv'
    BY <1>7, <2>1, <2>2 DEF ColumnsInv
  <2>4. CacheInv'
    BY <2>1 DEF CacheInv, NoCounts
  <2> QED
    BY <1>2, <2>1, <2>3, <2>4, CursorsReset, Zenon DEF Inv
<1>10. CASE SetRotationMatrix
  <2> DEFINE n == Len(Perturbed)
  <2>1. n \in Nat /\ n <= ColumnsNo
    BY InOrderLength, Zenon DEF Perturbed
  <2>2. UNCHANGED store /\ UNCHANGED columns /\ UNCHANGED cursor /\ UNCHANGED cache /\ UNCHANGED history
    BY <1>10, Zenon DEF SetRotationMatrix
  <2>3. \/ mode' = "hung" /\ perm' = perm
        \/ mode' = mode /\ perm' \in Permutations3(n)
    BY <1>10, Zenon DEF SetRotationMatrix
  <2> HIDE DEF n
  <2>4. Range(perm') \subseteq 1..ColumnsNo /\ Len(perm') % 3 = 0
    <3>1. CASE perm' = perm
      BY <1>1, <3>1 DEF ColumnsInv
    <3>2. CASE perm' \in Permutations3(n)
      <4>1. PICK p : p = perm' /\ p \in Permutations3(n)
        BY <3>2, Zenon
      <4>2. Range(p) \subseteq 1..ColumnsNo /\ Len(p) % 3 = 0
        BY <2>1, <4>1, PermutationIs, Zenon
      <4> QED
        BY <4>1, <4>2, Zenon
    <3> QED
      BY <2>3, <3>1, <3>2, Zenon
  <2>5. ColumnsInv'
    BY <1>1, <2>2, <2>3, <2>4 DEF ColumnsInv, columns
  <2> QED
    BY <1>2, <1>3, <1>5, <1>6, <2>2, <2>5, Zenon DEF Inv
<1>11. ASSUME NEW k \in Keys, StoreFile(k) PROVE Inv'
  <2>1. PICK f \in Files \ Headers : store' = [store EXCEPT ![k] = Over(store[k], f)]
    BY <1>11, Zenon DEF StoreFile
  <2>2. UNCHANGED columns /\ UNCHANGED cursor /\ UNCHANGED cache /\ UNCHANGED history /\ perm' = perm /\ mode' = mode
    BY <1>11, Zenon DEF StoreFile
  <2>3. f \in Files
    OBVIOUS
  <2>4. ArrayOK(store[k])
    BY <1>1 DEF StoreInv
  <2>5. store[k].values \in Seq(Stored)
    BY <2>4, ArrayParts, Zenon
  <2>6. ArrayOK(Over(store[k], f))
    BY <2>3, <2>4, <2>5, OverOK, Zenon
  <2>7. store = [j \in Keys |-> store[j]] /\ \A j \in Keys : ArrayOK(store[j])
    BY <1>1, Zenon DEF StoreInv
  <2>8. store' = [j \in Keys |-> IF j = k THEN Over(store[k], f) ELSE store[j]]
    BY <2>1, <2>7
  <2> DEFINE new == [j \in Keys |-> IF j = k THEN Over(store[k], f) ELSE store[j]]
  <2>9. new = [j \in Keys |-> new[j]] /\ \A j \in Keys : ArrayOK(new[j])
    BY <2>6, <2>7, Zenon
  <2> HIDE DEF new
  <2>10. store' = new
    BY <2>8, Zenon DEF new
  <2>11. StoreInv'
    BY <2>9, <2>10, Zenon DEF StoreInv, ArrayOK
  <2>12. ColumnsInv'
    BY <1>4, <1>7, <2>2, Zenon
  <2> QED
    BY <1>3, <1>5, <1>6, <2>2, <2>11, <2>12, Zenon DEF Inv
<1>12. ASSUME NEW k \in Keys, GetMetaData(k) PROVE Inv'
  <2>1. PICK bad \in 0..2 : Keeps(MetaData(k, bad))
    BY <1>12, Zenon DEF GetMetaData
  <2>2. UNCHANGED store /\ UNCHANGED columns /\ UNCHANGED cursor /\ UNCHANGED history /\ perm' = perm /\ mode' = mode
    BY <1>12, Zenon DEF GetMetaData
  <2>3. CacheInv'
    BY <1>1, <2>1, MetaDataOK, CacheKept, Zenon
  <2>4. ColumnsInv'
    BY <1>4, <1>7, <2>2, Zenon
  <2> QED
    BY <1>2, <1>5, <1>6, <2>2, <2>3, <2>4, Zenon DEF Inv
<1>13. ASSUME NEW k \in Keys, GetPerturbedRows(k) PROVE Inv'
  <2>1. /\ CacheInv' /\ CursorInv' /\ mode' \in {"running", "panicked", "hung"}
        /\ clean' => clean /\ valueNo' = valueNo
    BY <1>13, PerturbParts, Zenon
  <2>2. /\ UNCHANGED store /\ UNCHANGED columns /\ UNCHANGED pageNo /\ UNCHANGED pageOffset
        /\ UNCHANGED gathered /\ UNCHANGED sources /\ UNCHANGED perm
    BY <1>13, Zenon DEF GetPerturbedRows
  <2>3. BatchInv'
    BY <1>1, <2>1, <2>2, BatchStays, Zenon
  <2> QED
    BY <1>2, <1>4, <2>1, <2>2, <2>3, Zenon DEF Inv
<1>14. ASSUME NEW k \in Keys, NoBatch(k) PROVE Inv'
  <2>1. PICK bad \in 0..3 : Keeps(Prepared(k, bad))
    BY <1>14, Zenon DEF NoBatch
  <2>2. UNCHANGED store /\ UNCHANGED columns /\ UNCHANGED cursor /\ UNCHANGED history /\ perm' = perm
    BY <1>14, Zenon DEF NoBatch
  <2>3. mode' \in {"running", "panicked", "hung"}
    <3>1. mode' = mode \/ mode' = "panicked"
      BY <1>14, Zenon DEF NoBatch
    <3> QED
      BY <1>7, <3>1
  <2>4. CacheInv'
    BY <1>1, <2>1, PreparedOK, CacheKept, Zenon
  <2>5. ColumnsInv'
    BY <1>4, <2>2, <2>3, Zenon
  <2> QED
    BY <1>2, <1>5, <1>6, <2>2, <2>4, <2>5, Zenon DEF Inv
<1>15. ASSUME NEW k \in Keys, GetRowBatch(k) PROVE Inv'
  <2>1. UNCHANGED store /\ UNCHANGED columns /\ perm' = perm /\ mode' = mode
    BY <1>15, Zenon DEF GetRowBatch
  <2>2. ColumnsInv'
    BY <1>4, <1>7, <2>1, Zenon
  <2> QED
    BY <1>2, <1>15, <2>1, <2>2, BatchKeeps, Zenon DEF Inv
<1>16. CASE UNCHANGED vars
  <2>1. UNCHANGED store /\ UNCHANGED columns /\ UNCHANGED cursor /\ UNCHANGED cache /\ UNCHANGED history
        /\ perm' = perm /\ mode' = mode
    BY <1>16, Zenon DEF vars
  <2>2. ColumnsInv'
    BY <1>4, <1>7, <2>1, Zenon
  <2> QED
    BY <1>2, <1>3, <1>5, <1>6, <2>1, <2>2, Zenon DEF Inv
<1> QED
  BY <1>8, <1>9, <1>10, <1>11, <1>12, <1>13, <1>14, <1>15, <1>16, Zenon DEF Next

\* The invariant.
THEOREM StoreIsInv == Spec => []Inv
<1>1. Init => Inv
  BY InitInv
<1>2. Inv /\ [Next]_vars => Inv'
  BY StepInv
<1> QED
  BY <1>1, <1>2, PTL DEF Spec

\* TypeOK: what is cached belongs together, and the cursors stay in their columns
\* while no call fails and no page of several rows is followed by another one in
\* its value (processor.go 665-858).
THEOREM CursorsStay == Spec => []TypeOK
<1>1. ASSUME Inv PROVE TypeOK
  <2>1. StoreInv /\ CacheInv /\ ColumnsInv /\ CursorInv /\ BatchInv
    BY <1>1 DEF Inv
  <2>2. \A k \in Keys : store[k].file \in Files \cup {None} /\ store[k].entries <= Len(store[k].values)
    BY <2>1, ArrayParts, Zenon DEF StoreInv
  <2>3. /\ enabled \subseteq Columns /\ output \subseteq Columns /\ filters \subseteq Columns
        /\ Range(perm) \subseteq 1..ColumnsNo /\ Len(perm) % 3 = 0
        /\ mode \in {"running", "panicked", "hung"}
    BY <2>1 DEF ColumnsInv
  <2>4. meta \in Files \cup {None} /\ (meta # None => dir = Len(DivideFile(meta)) /\ counts = Counts(meta))
    BY <2>1, Zenon DEF CacheInv
  <2>5. \A c \in Columns : {valueNo[c], pageNo[c], pageOffset[c]} \subseteq Nat
    BY <2>1 DEF CursorInv
  <2>6. ASSUME clean, meta # None, sources \subseteq {meta}, OffsetsHold(meta), NEW c \in Columns
        PROVE  /\ valueNo[c] <= InColumn(counts, c)
               /\ pageOffset[c] # 0 => valueNo[c] < InColumn(counts, c)
    <3> DEFINE N == Len(Cut(meta, c))
               v == valueNo[c]
    <3>1. meta \in Files /\ counts = Counts(meta)
      BY <2>4, <2>6
    <3>2. N \in Nat /\ counts[c + 1] = counts[c] + N /\ counts[c] \in Nat
      <4>1. c \in 1..ColumnsNo + 1
        BY ColumnNumbers
      <4> QED
        BY <3>1, <4>1, ColumnsCut, FileDivided, Zenon DEF CutIs, DivideIs
    <3>3. InColumn(counts, c) = N
      <4> DEFINE a == counts[c]
                 b == counts[c + 1]
      <4>1. InColumn(counts, c) = b - a
        BY Zenon DEF InColumn
      <4>2. b = a + N /\ a \in Nat
        BY <3>2, Zenon
      <4> HIDE DEF a, b, N
      <4>3. b - a = N
        BY <3>2, <4>2
      <4> QED
        BY <4>1, <4>3, Zenon
    <3>4. v \in Nat
      BY <2>1 DEF CursorInv
    <3>5. (v = 0 /\ pageOffset[c] = 0) \/ (v <= N /\ pageOffset[c] = 0) \/ v < N
      <4>1. CASE enabled = {}
        <5>1. valueNo = Zero /\ pageOffset = Zero
          BY <2>1, <2>6, <4>1, Zenon DEF BatchInv
        <5> QED
          BY <5>1 DEF Zero
      <4>2. CASE enabled # {}
        <5>1. Reading(meta)
          BY <2>1, <2>6, <3>1, <4>2, ReadingNow, Zenon
        <5>2. CASE c = First
          BY <5>1, <5>2, Zenon DEF Reading
        <5>3. CASE c \notin enabled
          BY <5>1, <5>3 DEF Reading
        <5>4. CASE c # First /\ c \in enabled
          <6>1. c \in Others
            BY <5>4 DEF Others
          <6> QED
            BY <5>1, <6>1, Zenon DEF Reading, Stands
        <5> QED
          BY <5>2, <5>3, <5>4
      <4> QED
        BY <4>1, <4>2
    <3> HIDE DEF N
    <3>6. v <= N /\ (pageOffset[c] # 0 => v < N)
      BY <3>2, <3>4, <3>5
    <3> QED
      BY <3>3, <3>6, Zenon
  <2> QED
    BY <2>2, <2>3, <2>4, <2>5, <2>6, Zenon DEF TypeOK
<1> QED
  BY <1>1, StoreIsInv, PTL

\* RowsLineUp: the batches since the cursors were set back are the file's rows in
\* order, none missing, none twice, each with entries of one row (processor.go
\* 636-858), for all files, however their columns are cut into values.
THEOREM BatchesAreRows == Spec => []RowsLineUp
<1>1. ASSUME Inv PROVE RowsLineUp
  <2> DEFINE f == CHOOSE g \in sources : TRUE
             n == Len(FlattenSeq(FlattenSeq([i \in 1..valueNo[First] |-> ColumnValues[f][First][i].pages])))
  <2>1. SUFFICES ASSUME clean, Cardinality(sources) = 1, sources \subseteq Headers, OffsetsHold(f)
                 PROVE  gathered = Kept([r \in 1..n |-> [c \in enabled |-> <<f, c, r>>]])
    BY Zenon DEF RowsLineUp
  <2>2. BatchInv /\ ColumnsInv /\ IsFiniteSet(sources)
    BY <1>1 DEF Inv, BatchInv
  <2>3. PICK g : sources = {g}
    BY <2>1, <2>2, FS_Singleton, Zenon
  <2>4. f = g
    BY <2>3
  <2> HIDE DEF f
  <2>5. f \in Files /\ f \in Headers /\ sources = {f}
    BY <2>1, <2>3, <2>4, ColumnNumbers
  <2>6. Reading(f)
    BY <2>1, <2>2, <2>5, Zenon DEF BatchInv
  <2>7. gathered = Kept(GivenRows(f, Given(f)))
    BY <2>5, <2>6, Zenon DEF Reading
  <2>8. Given(f) = n
    BY Zenon DEF Given, GivenOf, Cut
  <2> QED
    BY <2>7, <2>8, Zenon DEF GivenRows
<1> QED
  BY <1>1, StoreIsInv, PTL

-----------------------------------------------------------------------------
(* All columns at once: what is asked for and where the answers are placed. *)

\* Only one of the sequences has elements.
LEMMA FlattenOnly ==
  ASSUME NEW S, NEW s \in Seq(Seq(S)), NEW h \in 1..Len(s), \A i \in 1..Len(s) : i # h => s[i] = <<>>
  PROVE  FlattenSeq(s) = s[h]
<1> DEFINE G == {i \in 0..Len(s) : Flat(s, i) = IF i < h THEN <<>> ELSE s[h]}
           n == Len(s)
<1>1. n \in Nat /\ h \in 1..n /\ \A i \in 1..n : s[i] \in Seq(S) /\ i - 1 \in 0..n
  OBVIOUS
<1>2. /\ Flat(s, 0) = <<>> /\ \A i \in 0..n : Flat(s, i) \in Seq(S)
      /\ \A i \in 1..n : Flat(s, i) = Flat(s, i - 1) \o s[i]
      /\ Flat(s, n) = FlattenSeq(s)
  BY FlatSteps, Zenon
<1>3. 0 \in G
  <2>1. 0 \in 0..n /\ 0 < h
    BY <1>1
  <2> QED
    BY <1>2, <2>1, Zenon
<1>4. ASSUME NEW i \in 1..n, i - 1 \in G PROVE i \in G
  <2>1. Flat(s, i) = Flat(s, i - 1) \o s[i] /\ Flat(s, i - 1) = IF i - 1 < h THEN <<>> ELSE s[h]
    BY <1>2, <1>4, Zenon
  <2>2. i \in 0..n
    BY <1>1
  <2>3. CASE i < h
    <3>1. i - 1 < h /\ i # h
      BY <1>1, <2>3
    <3>2. Flat(s, i - 1) = <<>> /\ s[i] = <<>>
      BY <2>1, <3>1, Zenon
    <3>3. <<>> \o <<>> = <<>>
      OBVIOUS
    <3> QED
      BY <2>1, <2>2, <2>3, <3>2, <3>3, Zenon
  <2>4. CASE i = h
    <3>1. i - 1 < h /\ ~(i < h)
      BY <1>1, <2>4
    <3>2. Flat(s, i - 1) = <<>>
      BY <2>1, <3>1, Zenon
    <3>3. <<>> \o s[i] = s[i]
      BY <1>1
    <3> QED
      BY <2>1, <2>2, <2>4, <3>1, <3>2, <3>3, Zenon
  <2>5. CASE i > h
    <3>1. ~(i - 1 < h) /\ ~(i < h) /\ i # h
      BY <1>1, <2>5
    <3>2. Flat(s, i - 1) = s[h] /\ s[i] = <<>>
      BY <2>1, <3>1, Zenon
    <3>3. s[h] \o <<>> = s[h]
      BY <1>1
    <3> QED
      BY <2>1, <2>2, <3>1, <3>2, <3>3, Zenon
  <2> QED
    BY <1>1, <2>3, <2>4, <2>5
<1> HIDE DEF G
<1>5. \A i \in 0..n : i \in G
  BY <1>1, <1>3, <1>4, EveryStep
<1>6. n \in 0..n /\ ~(n < h)
  BY <1>1
<1>7. n \in G
  BY <1>5, <1>6, Zenon
<1> QED
  BY <1>2, <1>6, <1>7 DEF G

\* What is placed in c: of every answer its pages, if its slot is c's.
Picked(pg, k, s, c) == [a \in DOMAIN s |-> IF s[a] = c THEN pg[k[a]] ELSE <<>>]
Got(pg, k, s, c) == FlattenSeq(Picked(pg, k, s, c))
PickedIs(X, pg, k, s, c) ==
  /\ Picked(pg, k, s, c) \in Seq(Seq(X)) /\ Len(Picked(pg, k, s, c)) = Len(s) /\ Len(s) \in Nat
  /\ \A a \in 1..Len(s) : Picked(pg, k, s, c)[a] = IF s[a] = c THEN pg[k[a]] ELSE <<>>
  /\ Got(pg, k, s, c) \in Seq(X)

\* It is a sequence of sequences.
LEMMA PickedType ==
  ASSUME NEW K, NEW X, NEW pg \in [K -> Seq(X)], NEW C, NEW k \in Seq(K), NEW s \in Seq(C), Len(k) = Len(s), NEW c
  PROVE  PickedIs(X, pg, k, s, c)
<1> DEFINE n == Len(s)
           Y == Seq(X)
           w == Picked(pg, k, s, c)
<1>1. n \in Nat /\ DOMAIN s = 1..n /\ \A a \in 1..n : k[a] \in K
  OBVIOUS
<1>2. <<>> \in Y
  OBVIOUS
<1> HIDE DEF Y
<1>3. \A a \in 1..n : (IF s[a] = c THEN pg[k[a]] ELSE <<>>) \in Y
  <2>1. \A x \in K : pg[x] \in Y
    BY DEF Y
  <2> QED
    BY <1>1, <1>2, <2>1, Zenon
<1>4. w = [a \in 1..n |-> IF s[a] = c THEN pg[k[a]] ELSE <<>>]
  BY <1>1, Zenon DEF Picked
<1>5. w \in [1..n -> Y] /\ \A a \in 1..n : w[a] = IF s[a] = c THEN pg[k[a]] ELSE <<>>
  BY <1>3, <1>4, Zenon
<1> HIDE DEF w, n
<1>6. w \in Seq(Y) /\ Len(w) = n
  BY <1>1, <1>5
<1>7. FlattenSeq(w) \in Seq(X)
  BY <1>6, FlattenType, Zenon DEF Y
<1> QED
  BY <1>1, <1>5, <1>6, <1>7, Zenon DEF PickedIs, Got, w, n, Y

\* What is known of two sequences, one after the other.
Joined(X, a, b) ==
  /\ a \o b \in Seq(X) /\ Len(a \o b) = Len(a) + Len(b)
  /\ \A r \in 1..Len(a) : (a \o b)[r] = a[r]
  /\ \A r \in 1..Len(b) : (a \o b)[Len(a) + r] = b[r]

\* It is known of every two.
LEMMA JoinedAre ==
  ASSUME NEW X, NEW a \in Seq(X), NEW b \in Seq(X)
  PROVE  Joined(X, a, b)
BY ConcatIs DEF Joined

\* What two lists give, one after the other.
TwoGot(pg, k, s, l, t, c) == Got(pg, k \o l, s \o t, c) = Got(pg, k, s, c) \o Got(pg, l, t, c)

\* They give what each of them gives.
LEMMA TwoAreGot ==
  ASSUME NEW K, NEW X, NEW pg \in [K -> Seq(X)], NEW C, NEW c,
         NEW k \in Seq(K), NEW s \in Seq(C), Len(k) = Len(s),
         NEW l \in Seq(K), NEW t \in Seq(C), Len(l) = Len(t)
  PROVE  TwoGot(pg, k, s, l, t, c)
<1> DEFINE p == Picked(pg, k, s, c)
           q == Picked(pg, l, t, c)
           w == Picked(pg, k \o l, s \o t, c)
           m == Len(s)
           n == Len(t)
           Y == Seq(X)
<1>1. /\ k \o l \in Seq(K) /\ Len(k \o l) = m + n /\ \A r \in 1..m : (k \o l)[r] = k[r]
      /\ \A r \in 1..n : (k \o l)[m + r] = l[r]
  <2>1. /\ k \o l \in Seq(K) /\ Len(k \o l) = Len(k) + Len(l) /\ \A r \in 1..Len(k) : (k \o l)[r] = k[r]
        /\ \A r \in 1..Len(l) : (k \o l)[Len(k) + r] = l[r]
    <3>1. Joined(K, k, l)
      BY JoinedAre, Zenon
    <3> QED
      BY <3>1, Zenon DEF Joined
  <2> QED
    BY <2>1, Zenon
<1>2. /\ s \o t \in Seq(C) /\ Len(s \o t) = m + n /\ \A r \in 1..m : (s \o t)[r] = s[r]
      /\ \A r \in 1..n : (s \o t)[m + r] = t[r]
      /\ m \in Nat /\ n \in Nat
  BY ConcatIs
<1>3. PickedIs(X, pg, k, s, c) /\ PickedIs(X, pg, l, t, c) /\ PickedIs(X, pg, k \o l, s \o t, c)
  <2>1. PickedIs(X, pg, k, s, c) /\ PickedIs(X, pg, l, t, c)
    BY PickedType, Zenon
  <2>2. PickedIs(X, pg, k \o l, s \o t, c)
    BY <1>1, <1>2, PickedType, Zenon
  <2> QED
    BY <2>1, <2>2
<1>4. /\ p \in Seq(Y) /\ Len(p) = m /\ \A a \in 1..m : p[a] = IF s[a] = c THEN pg[k[a]] ELSE <<>>
  BY <1>3, Zenon DEF PickedIs
<1>5. /\ q \in Seq(Y) /\ Len(q) = n /\ \A a \in 1..n : q[a] = IF t[a] = c THEN pg[l[a]] ELSE <<>>
  BY <1>3, Zenon DEF PickedIs
<1>6. /\ w \in Seq(Y) /\ Len(w) = m + n
      /\ \A a \in 1..m + n : w[a] = IF (s \o t)[a] = c THEN pg[(k \o l)[a]] ELSE <<>>
  BY <1>2, <1>3, Zenon DEF PickedIs
<1> HIDE DEF p, q, w, Y
<1>7. w = p \o q
  <2> DEFINE z == p \o q
  <2>1. /\ z \in Seq(Y) /\ Len(z) = Len(p) + Len(q) /\ \A a \in 1..Len(p) : z[a] = p[a]
        /\ \A a \in 1..Len(q) : z[Len(p) + a] = q[a]
    <3>1. Joined(Y, p, q)
      BY <1>4, <1>5, JoinedAre, Zenon
    <3> QED
      BY <3>1, Zenon DEF Joined
  <2>2. Len(z) = m + n /\ (\A a \in 1..m : z[a] = p[a]) /\ \A a \in 1..n : z[m + a] = q[a]
    BY <1>4, <1>5, <2>1, Zenon
  <2> HIDE DEF z, m, n
  <2>3. ASSUME NEW a \in 1..m + n PROVE w[a] = z[a]
    <3>1. CASE a \in 1..m
      <4>1. (s \o t)[a] = s[a] /\ (k \o l)[a] = k[a]
        BY <1>1, <1>2, <3>1, Zenon
      <4> QED
        BY <1>4, <1>6, <2>2, <3>1, <4>1, Zenon
    <3>2. CASE a \notin 1..m
      <4>1. PICK b \in 1..n : a = m + b
        <5>1. a - m \in 1..n /\ a = m + (a - m)
          <6>1. m \in Nat /\ n \in Nat
            BY <1>2, Zenon
          <6> QED
            BY <3>2, <6>1
        <5> QED
          BY <5>1
      <4>2. (s \o t)[a] = t[b] /\ (k \o l)[a] = l[b] /\ z[a] = q[b]
        BY <1>1, <1>2, <2>2, <4>1, Zenon
      <4> QED
        BY <1>5, <1>6, <4>2, Zenon
    <3> QED
      BY <3>1, <3>2, Zenon
  <2>4. w = z
    <3>1. \A a \in 1..Len(w) : w[a] = z[a]
      BY <1>6, <2>3, Zenon
    <3>2. w \in Seq(Y) /\ z \in Seq(Y) /\ Len(w) = Len(z)
      BY <1>6, <2>1, <2>2, Zenon
    <3> QED
      BY <3>1, <3>2, SameSequence, Zenon
  <2> QED
    BY <2>4 DEF z
<1>8. FlattenSeq(p \o q) = FlattenSeq(p) \o FlattenSeq(q)
  BY <1>4, <1>5, FlattenConcat, Zenon DEF Y
<1> QED
  BY <1>7, <1>8, Zenon DEF TwoGot, Got, p, q, w

\* Of many lists, one after the other.
EachGot(pg, kk, ss, c) == [i \in 1..Len(kk) |-> Got(pg, kk[i], ss[i], c)]
ManyGot(X, pg, kk, ss, c) ==
  /\ EachGot(pg, kk, ss, c) \in Seq(Seq(X)) /\ Len(EachGot(pg, kk, ss, c)) = Len(kk)
  /\ \A i \in 1..Len(kk) : EachGot(pg, kk, ss, c)[i] = Got(pg, kk[i], ss[i], c)
  /\ Len(FlattenSeq(kk)) = Len(FlattenSeq(ss))
  /\ Got(pg, FlattenSeq(kk), FlattenSeq(ss), c) = FlattenSeq(EachGot(pg, kk, ss, c))

\* It is what they give, one after the other.
LEMMA GotFlatten ==
  ASSUME NEW K, NEW X, NEW pg \in [K -> Seq(X)], NEW C, NEW c,
         NEW kk \in Seq(Seq(K)), NEW ss \in Seq(Seq(C)), Len(kk) = Len(ss),
         \A i \in 1..Len(kk) : Len(kk[i]) = Len(ss[i])
  PROVE  ManyGot(X, pg, kk, ss, c)
<1> DEFINE Y == Seq(X)
           n == Len(kk)
           e == EachGot(pg, kk, ss, c)
           k(i) == Flat(kk, i)
           s(i) == Flat(ss, i)
           G == {i \in 0..n : Len(k(i)) = Len(s(i)) /\ Got(pg, k(i), s(i), c) = Flat(e, i)}
<1>1. n \in Nat /\ \A i \in 1..n : kk[i] \in Seq(K) /\ ss[i] \in Seq(C) /\ i \in 0..n /\ i - 1 \in 0..n
  OBVIOUS
<1>2. \A i \in 1..n : Got(pg, kk[i], ss[i], c) \in Y
  <2> SUFFICES ASSUME NEW i \in 1..n PROVE Got(pg, kk[i], ss[i], c) \in Y
    OBVIOUS
  <2>1. PickedIs(X, pg, kk[i], ss[i], c)
    BY <1>1, PickedType, Zenon
  <2> QED
    BY <2>1, Zenon DEF PickedIs
<1>3. e \in Seq(Y) /\ Len(e) = n /\ \A i \in 1..n : e[i] = Got(pg, kk[i], ss[i], c)
  <2>1. e \in [1..n -> Y] /\ \A i \in 1..n : e[i] = Got(pg, kk[i], ss[i], c)
    BY <1>2, Zenon DEF EachGot
  <2> HIDE DEF e, Y, n
  <2>2. e \in Seq(Y) /\ Len(e) = n
    <3>1. e \in [1..n -> Y]
      BY <2>1, Zenon
    <3> QED
      BY <1>1, <3>1
  <2> QED
    BY <2>1, <2>2, Zenon
<1> HIDE DEF e
<1>4. /\ k(0) = <<>> /\ \A i \in 0..n : k(i) \in Seq(K)
      /\ \A i \in 1..n : k(i) = k(i - 1) \o kk[i]
      /\ k(n) = FlattenSeq(kk)
  BY FlatSteps, Zenon
<1>5. /\ s(0) = <<>> /\ \A i \in 0..n : s(i) \in Seq(C)
      /\ \A i \in 1..n : s(i) = s(i - 1) \o ss[i]
      /\ s(n) = FlattenSeq(ss)
  <2>1. Len(ss) = n
    OBVIOUS
  <2> QED
    BY <2>1, FlatSteps, Zenon
<1>6. /\ Flat(e, 0) = <<>> /\ \A i \in 1..n : Flat(e, i) = Flat(e, i - 1) \o e[i]
      /\ Flat(e, n) = FlattenSeq(e)
  BY <1>3, FlatSteps, Zenon DEF Y
<1>7. 0 \in G
  <2>1. <<>> \in Seq(K) /\ <<>> \in Seq(C) /\ Len(<<>>) = 0 /\ 0 \in 0..n
    BY <1>1
  <2>2. PickedIs(X, pg, <<>>, <<>>, c)
    BY <2>1, PickedType, Zenon
  <2> DEFINE w == Picked(pg, <<>>, <<>>, c)
             x == Seq(X)
  <2>3. w \in Seq(x) /\ Len(w) = 0
    BY <2>1, <2>2, Zenon DEF PickedIs
  <2> HIDE DEF w, x
  <2>4. w = <<>>
    BY <2>3
  <2>5. FlattenSeq(<<>>) = <<>>
    BY DEF FlattenSeq
  <2>6. Got(pg, <<>>, <<>>, c) = <<>>
    BY <2>4, <2>5, Zenon DEF Got, w
  <2> QED
    BY <1>4, <1>5, <1>6, <2>1, <2>6, Zenon
<1>8. ASSUME NEW i \in 1..n, i - 1 \in G PROVE i \in G
  <2>1. i \in 0..n /\ i - 1 \in 0..n /\ kk[i] \in Seq(K) /\ ss[i] \in Seq(C)
    BY <1>1, Zenon
  <2>2. /\ k(i - 1) \in Seq(K) /\ s(i - 1) \in Seq(C) /\ Len(k(i - 1)) = Len(s(i - 1))
        /\ Got(pg, k(i - 1), s(i - 1), c) = Flat(e, i - 1)
    BY <1>4, <1>5, <1>8, <2>1, Zenon
  <2>3. Len(kk[i]) = Len(ss[i])
    BY Zenon
  <2> DEFINE a == k(i - 1)
             b == s(i - 1)
             l == kk[i]
             t == ss[i]
  <2> HIDE DEF k, s, G
  <2>4. Got(pg, a \o l, b \o t, c) = Got(pg, a, b, c) \o Got(pg, l, t, c)
    <3>1. a \in Seq(K) /\ b \in Seq(C) /\ Len(a) = Len(b) /\ l \in Seq(K) /\ t \in Seq(C) /\ Len(l) = Len(t)
      BY <2>1, <2>2, <2>3, Zenon
    <3>2. TwoGot(pg, a, b, l, t, c)
      BY <3>1, TwoAreGot, Zenon
    <3> QED
      BY <3>2, Zenon DEF TwoGot
  <2>5. k(i) = a \o l /\ s(i) = b \o t
    BY <1>4, <1>5, Zenon
  <2>6. Got(pg, k(i), s(i), c) = Flat(e, i)
    BY <1>3, <1>6, <2>2, <2>4, <2>5, Zenon
  <2>7. Len(k(i)) = Len(s(i))
    <3>1. Len(a \o l) = Len(a) + Len(l) /\ Len(b \o t) = Len(b) + Len(t)
      <4>1. Joined(K, a, l) /\ Joined(C, b, t)
        BY <2>1, <2>2, JoinedAre, Zenon
      <4> QED
        BY <4>1, Zenon DEF Joined
    <3> QED
      BY <2>2, <2>3, <2>5, <3>1, Zenon
  <2> QED
    BY <2>1, <2>6, <2>7, Zenon DEF G
<1> HIDE DEF G
<1>9. \A i \in 0..n : i \in G
  BY <1>1, <1>7, <1>8, EveryStep
<1>10. n \in 0..n
  BY <1>1
<1>11. n \in G
  BY <1>9, <1>10, Zenon
<1>12. Len(k(n)) = Len(s(n)) /\ Got(pg, k(n), s(n), c) = Flat(e, n)
  BY <1>11, Zenon DEF G
<1> HIDE DEF k, s
<1>13. Len(FlattenSeq(kk)) = Len(FlattenSeq(ss)) /\ Got(pg, FlattenSeq(kk), FlattenSeq(ss), c) = FlattenSeq(e)
  BY <1>4, <1>5, <1>6, <1>12, Zenon
<1> QED
  BY <1>3, <1>13, Zenon DEF ManyGot, e, Y, n

\* What is placed in c: nothing, and one answer's pages.
NoneGot(pg, k, s, c) == Got(pg, k, s, c) = <<>>
OneGot(pg, k, s, c, h) == Got(pg, k, s, c) = pg[k[h]]

\* Without a slot of c it is nothing.
LEMMA GotNone ==
  ASSUME NEW K, NEW X, NEW pg \in [K -> Seq(X)], NEW C, NEW k \in Seq(K), NEW s \in Seq(C), Len(k) = Len(s),
         NEW c, \A a \in 1..Len(s) : s[a] # c
  PROVE  NoneGot(pg, k, s, c)
<1> DEFINE w == Picked(pg, k, s, c)
<1>1. PickedIs(X, pg, k, s, c)
  BY PickedType, Zenon
<1>2. /\ w \in Seq(Seq(X)) /\ Len(w) = Len(s)
      /\ \A a \in 1..Len(s) : w[a] = IF s[a] = c THEN pg[k[a]] ELSE <<>>
  BY <1>1, Zenon DEF PickedIs
<1> HIDE DEF w
<1>3. \A a \in 1..Len(w) : w[a] = <<>>
  BY <1>2, Zenon
<1>4. FlattenSeq(w) = <<>>
  BY <1>2, <1>3, FlattenNone, Zenon
<1> QED
  BY <1>4, Zenon DEF NoneGot, Got, w

\* With one slot of c the answer's pages are.
LEMMA GotOne ==
  ASSUME NEW K, NEW X, NEW pg \in [K -> Seq(X)], NEW C, NEW k \in Seq(K), NEW s \in Seq(C), Len(k) = Len(s),
         NEW c, NEW h \in 1..Len(s), s[h] = c, \A a \in 1..Len(s) : a # h => s[a] # c
  PROVE  OneGot(pg, k, s, c, h)
<1> DEFINE w == Picked(pg, k, s, c)
<1>1. PickedIs(X, pg, k, s, c)
  BY PickedType, Zenon
<1>2. /\ w \in Seq(Seq(X)) /\ Len(w) = Len(s)
      /\ \A a \in 1..Len(s) : w[a] = IF s[a] = c THEN pg[k[a]] ELSE <<>>
  BY <1>1, Zenon DEF PickedIs
<1> HIDE DEF w
<1>3. \A a \in 1..Len(w) : a # h => w[a] = <<>>
  BY <1>2, Zenon
<1>4. h \in 1..Len(w) /\ w[h] = pg[k[h]]
  BY <1>2, Zenon
<1>5. FlattenSeq(w) = w[h]
  BY <1>2, <1>3, <1>4, FlattenOnly, Zenon
<1> QED
  BY <1>4, <1>5, Zenon DEF OneGot, Got, w

\* Where the columns are in InOrder's sequence.
Ordered(cs) ==
  /\ InOrder(cs) \in Seq(Columns) /\ Len(InOrder(cs)) \in Nat
  /\ \A a \in 1..Len(InOrder(cs)) : InOrder(cs)[a] \in cs
  /\ \A c \in cs : \E a \in 1..Len(InOrder(cs)) : InOrder(cs)[a] = c
  /\ \A a, b \in 1..Len(InOrder(cs)) : InOrder(cs)[a] = InOrder(cs)[b] => a = b

\* Each of them once.
LEMMA InOrderIs ==
  ASSUME NEW cs \in SUBSET Columns
  PROVE  Ordered(cs)
<1> DEFINE s == [c \in 1..ColumnsNo |-> c]
           z == Marks(s, cs)
           N == ColumnsNo
           x == InOrder(cs)
<1>1. Columns = 1..N /\ N \in Nat
  BY ColumnNumbers, Zenon
<1>2. x = Select(s, cs) /\ x \in Seq(Columns) /\ Len(x) \in Nat
  BY InOrderLength, Zenon DEF InOrder
<1> HIDE DEF N, x
<1>3. s \in Seq(Columns) /\ Len(s) = N /\ \A c \in 1..N : s[c] = c
  <2>1. s = [c \in 1..N |-> c]
    BY Zenon DEF N
  <2> HIDE DEF s
  <2> QED
    BY <1>1, <2>1
<1> HIDE DEF s
<1>4. MarksAre(Columns, s, cs)
  BY <1>3, MarksType, Zenon
<1>5. /\ z \in Seq(Seq(Columns)) /\ Len(z) = N /\ \A i \in 1..N : z[i] = IF i \in cs THEN <<s[i]>> ELSE <<>>
      /\ x = FlattenSeq(z)
  BY <1>2, <1>3, <1>4, Zenon DEF MarksAre
<1> HIDE DEF z
<1>6. \A i \in 1..N : /\ i \in cs => z[i] = <<i>>
                      /\ i \notin cs => z[i] = <<>>
  BY <1>3, <1>5, Zenon
<1>7. Len(<<>>) = 0 /\ \A i : Len(<<i>>) = 1 /\ <<i>>[1] = i
  OBVIOUS
<1>8. ASSUME NEW a \in 1..Len(x)
      PROVE  \E i \in cs : x[a] = i /\ a = Len(Flat(z, i - 1)) + 1
  <2>1. Comes(z, a)
    BY <1>5, AllCome, Zenon
  <2>2. PICK i \in 1..Len(z) : \E j \in 1..Len(z[i]) : a = Len(Flat(z, i - 1)) + j /\ x[a] = z[i][j]
    BY <1>5, <2>1, Zenon DEF Comes
  <2>3. PICK j \in 1..Len(z[i]) : a = Len(Flat(z, i - 1)) + j /\ x[a] = z[i][j]
    BY <2>2
  <2>4. i \in cs
    <3>1. CASE i \notin cs
      <4>1. Len(z[i]) = 0
        BY <1>5, <1>6, <1>7, <3>1, Zenon
      <4> DEFINE l == Len(z[i])
      <4>2. j \in 1..l /\ l = 0
        BY <4>1, Zenon
      <4> HIDE DEF l
      <4> QED
        BY <4>2
    <3> QED
      BY <3>1
  <2>5. z[i] = <<i>> /\ Len(z[i]) = 1
    BY <1>5, <1>6, <1>7, <2>4, Zenon
  <2>6. j = 1
    <3> DEFINE l == Len(z[i])
    <3>1. j \in 1..l /\ l = 1
      BY <2>5, Zenon
    <3> HIDE DEF l
    <3> QED
      BY <3>1
  <2>7. x[a] = i
    BY <1>7, <2>3, <2>5, <2>6, Zenon
  <2> QED
    BY <2>3, <2>4, <2>6, <2>7, Zenon
<1>9. \A a \in 1..Len(x) : x[a] \in cs
  BY <1>8, Zenon
<1>10. ASSUME NEW a \in 1..Len(x), NEW b \in 1..Len(x), x[a] = x[b] PROVE a = b
  BY <1>8, <1>10, Zenon
<1>11. ASSUME NEW c \in cs PROVE \E a \in 1..Len(x) : x[a] = c
  <2>1. c \in 1..Len(z)
    BY <1>1, <1>5
  <2>2. z[c] = <<c>>
    BY <1>5, <1>6, <2>1, Zenon
  <2>3. 1 \in 1..Len(z[c]) /\ z[c][1] = c
    <3>1. Len(z[c]) = 1 /\ z[c][1] = c /\ 1 \in 1..1
      BY <1>7, <2>2
    <3> QED
      BY <3>1, Zenon
  <2>4. /\ Len(Flat(z, c - 1)) + 1 \in 1..Len(x)
        /\ x[Len(Flat(z, c - 1)) + 1] = z[c][1]
    <3>1. z \in Seq(Seq(Columns)) /\ 1 \in 1..Len(z[c])
      BY <1>5, <2>3, Zenon
    <3>2. /\ Len(Flat(z, c - 1)) + 1 \in 1..Len(FlattenSeq(z))
          /\ FlattenSeq(z)[Len(Flat(z, c - 1)) + 1] = z[c][1]
      BY <2>1, <3>1, FlattenAt
    <3> QED
      BY <1>5, <3>2, Zenon
  <2> QED
    BY <2>3, <2>4, Zenon
<1> QED
  BY <1>2, <1>9, <1>10, <1>11, Zenon DEF Ordered, x

\* What is known of a permutation for n columns: its first n positions hold each of
\* them once, and there are threes of positions.
Permutes(p, n) ==
  /\ Len(p) \in Nat /\ n <= Len(p) /\ Len(p) < n + 3 /\ Len(p) % 3 = 0
  /\ Range(p) \subseteq 1..n /\ \A i \in 1..Len(p) : p[i] \in 1..n
  /\ \A q \in 1..n : \E i \in 1..n : p[i] = q
  /\ \A i, j \in 1..n : p[i] = p[j] => i = j

\* SetRotationMatrix makes such ones.
LEMMA Permuted ==
  ASSUME NEW n \in Nat, NEW p \in Permutations3(n)
  PROVE  Permutes(p, n)
<1> DEFINE length == IF n % 3 = 0 THEN n ELSE n + 3 - (n % 3)
           s == SubSeq(p, 1, n)
<1>1. p \in [1..length -> 1..n] /\ s \in Shuffles
  BY Zenon DEF Permutations3
<1>2. length \in Nat /\ length % 3 = 0 /\ n <= length /\ length < n + 3
  BY SMT
<1>3. /\ s \in Seq(1..Len(s))
      /\ \A q \in 1..Len(s) : \E i \in 1..Len(s) : s[i] = q
      /\ \A i, j \in 1..Len(s) : s[i] = s[j] => i = j
  BY <1>1, ShuffleAssumption, Zenon
<1> HIDE DEF length
<1>4. Len(p) = length /\ p \in Seq(1..n) /\ \A i \in 1..length : p[i] \in 1..n
  BY <1>1, <1>2
<1>5. Len(s) = n /\ \A i \in 1..n : s[i] = p[i]
  BY <1>2, <1>4
<1> HIDE DEF s
<1>6. /\ \A q \in 1..n : \E i \in 1..n : p[i] = q
      /\ \A i, j \in 1..n : p[i] = p[j] => i = j
  <2>1. /\ \A q \in 1..n : \E i \in 1..n : s[i] = q
        /\ \A i, j \in 1..n : s[i] = s[j] => i = j
    BY <1>3, <1>5, Zenon
  <2>2. ASSUME NEW q \in 1..n PROVE \E i \in 1..n : p[i] = q
    <3>1. PICK i \in 1..n : s[i] = q
      BY <2>1, Zenon
    <3> QED
      BY <1>5, <3>1, Zenon
  <2>3. ASSUME NEW i \in 1..n, NEW j \in 1..n, p[i] = p[j] PROVE i = j
    <3>1. s[i] = p[i] /\ s[j] = p[j]
      BY <1>5, Zenon
    <3>2. s[i] = s[j]
      BY <2>3, <3>1, Zenon
    <3> QED
      BY <2>1, <3>2, Zenon
  <2> QED
    BY <2>2, <2>3, Zenon
<1>7. Range(p) \subseteq 1..n
  BY <1>1 DEF Range
<1> QED
  BY <1>2, <1>4, <1>6, <1>7, Zenon DEF Permutes

\* The permutation is one of the columns that were perturbed when it was made.
PermInv == \/ perm = <<>> /\ permFor = <<>>
           \/ Len(permFor) \in Nat /\ perm \in Permutations3(Len(permFor))

\* It stays so.
LEMMA PermIsInv == Spec => []PermInv
<1>1. Init => PermInv
  BY Zenon DEF Init, PermInv
<1>2. ASSUME PermInv, [Next]_vars PROVE PermInv'
  <2>1. CASE perm' = perm /\ permFor' = permFor
    BY <1>2, <2>1, Zenon DEF PermInv
  <2>2. CASE SetParquetSchema
    BY <2>2, Zenon DEF SetParquetSchema, PermInv
  <2>3. CASE SetRotationMatrix
    <3>1. Len(Perturbed) \in Nat
      BY InOrderLength, Zenon DEF Perturbed
    <3>2. CASE perm' \in Permutations3(Len(Perturbed)) /\ permFor' = Perturbed
      BY <3>1, <3>2, Zenon DEF PermInv
    <3> QED
      BY <2>1, <2>3, <3>2, Zenon DEF SetRotationMatrix
  <2>4. \/ perm' = perm /\ permFor' = permFor
        \/ SetParquetSchema
        \/ SetRotationMatrix
    <3>1. CASE UNCHANGED vars
      BY <3>1, Zenon DEF vars
    <3>2. CASE SetColumns
      BY <3>2, Zenon DEF SetColumns
    <3>3. ASSUME NEW k \in Keys, StoreFile(k) PROVE perm' = perm /\ permFor' = permFor
      BY <3>3, Zenon DEF StoreFile
    <3>4. ASSUME NEW k \in Keys, GetMetaData(k) PROVE perm' = perm /\ permFor' = permFor
      BY <3>4, Zenon DEF GetMetaData
    <3>5. ASSUME NEW k \in Keys, GetPerturbedRows(k) PROVE perm' = perm /\ permFor' = permFor
      BY <3>5, Zenon DEF GetPerturbedRows
    <3>6. ASSUME NEW k \in Keys, NoBatch(k) PROVE perm' = perm /\ permFor' = permFor
      BY <3>6, Zenon DEF NoBatch
    <3>7. ASSUME NEW k \in Keys, GetRowBatch(k) PROVE perm' = perm /\ permFor' = permFor
      BY <3>7, Zenon DEF GetRowBatch
    <3> QED
      BY <1>2, <3>1, <3>2, <3>3, <3>4, <3>5, <3>6, <3>7, Zenon DEF Next
  <2> QED
    BY <2>1, <2>2, <2>3, <2>4
<1> QED
  BY <1>1, <1>2, PTL DEF Spec

\* The groups of three: every perturbed column has one position of its own in them.
Position(g, j) == 3 * (g - 1) + j
GroupsAre ==
  /\ Groups \in Nat /\ Fits
  /\ \A g \in 1..Groups : \A j \in 1..3 : Group(g)[j] \in enabled \ output
  /\ \A c \in enabled \ output : \E g \in 1..Groups : \E j \in 1..3 : Own(Position(g, j)) /\ Group(g)[j] = c
  /\ \A g, h \in 1..Groups : \A j, l \in 1..3 :
       Own(Position(g, j)) /\ Own(Position(h, l)) /\ Group(g)[j] = Group(h)[l] => g = h /\ j = l

\* Numbers in threes.
LEMMA Threes ==
  ASSUME NEW length \in Nat, length % 3 = 0
  PROVE  /\ length \div 3 \in Nat
         /\ \A g \in 1..length \div 3 : \A j \in 1..3 : Position(g, j) \in 1..length
         /\ \A i \in 1..length : \E g \in 1..length \div 3 : \E j \in 1..3 : i = Position(g, j)
         /\ \A g, h \in Int : \A j, l \in 1..3 : Position(g, j) = Position(h, l) => g = h /\ j = l
<1> DEFINE n == length \div 3
<1>1. n \in Nat /\ length = 3 * n
  BY SMT
<1> HIDE DEF n
<1>2. ASSUME NEW g \in 1..n, NEW j \in 1..3 PROVE Position(g, j) \in 1..length
  BY <1>1 DEF Position
<1>3. ASSUME NEW i \in 1..length PROVE \E g \in 1..n : \E j \in 1..3 : i = Position(g, j)
  <2> DEFINE g == (i - 1) \div 3 + 1
             j == ((i - 1) % 3) + 1
  <2>1. i - 1 = 3 * ((i - 1) \div 3) + ((i - 1) % 3) /\ (i - 1) % 3 \in 0..2 /\ (i - 1) \div 3 \in Nat
    BY SMT
  <2>2. g \in 1..n /\ j \in 1..3 /\ i = 3 * (g - 1) + j
    BY <1>1, <2>1
  <2> HIDE DEF g, j
  <2> QED
    BY <2>2, Zenon DEF Position
<1>4. ASSUME NEW g \in Int, NEW h \in Int, NEW j \in 1..3, NEW l \in 1..3, Position(g, j) = Position(h, l)
      PROVE  g = h /\ j = l
  BY <1>4 DEF Position
<1> QED
  BY <1>1, <1>2, <1>3, <1>4, Zenon DEF n

\* The groups are so when the permutation was made for the perturbed columns.
LEMMA GroupsAreSo ==
  ASSUME PermInv, permFor = Perturbed, enabled \subseteq Columns
  PROVE  GroupsAre
<1> DEFINE P == Perturbed
           n == Len(P)
           cs == enabled \ output
<1>1. Ordered(cs) /\ P = InOrder(cs)
  <2>1. cs \in SUBSET Columns
    OBVIOUS
  <2> QED
    BY <2>1, InOrderIs, Zenon DEF Perturbed
<1>2. /\ P \in Seq(Columns) /\ n \in Nat
      /\ \A a \in 1..n : P[a] \in cs
      /\ \A c \in cs : \E a \in 1..n : P[a] = c
      /\ \A a, b \in 1..n : P[a] = P[b] => a = b
  BY <1>1, Zenon DEF Ordered
<1>3. CASE P = <<>>
  <2>1. Groups = 0 /\ Fits
    BY <1>3, Zenon DEF Groups, Fits
  <2>2. ~ \E g \in 1..0 : TRUE
    OBVIOUS
  <2>3. n = 0
    BY <1>3
  <2>4. ~ \E c \in cs : TRUE
    BY <1>2, <2>2, <2>3, Zenon
  <2>5. 0 \in Nat
    OBVIOUS
  <2> QED
    BY <2>1, <2>2, <2>4, <2>5, Zenon DEF GroupsAre
<1>4. CASE P # <<>>
  <2>1. perm \in Permutations3(n)
    BY <1>4, Zenon DEF PermInv
  <2>2. Permutes(perm, n)
    BY <1>2, <2>1, Permuted, Zenon
  <2> DEFINE m == Len(perm)
  <2>3. /\ m \in Nat /\ n <= m /\ m % 3 = 0
        /\ \A i \in 1..m : perm[i] \in 1..n
        /\ \A q \in 1..n : \E i \in 1..n : perm[i] = q
        /\ \A i, j \in 1..n : perm[i] = perm[j] => i = j
    BY <2>2, Zenon DEF Permutes
  <2>4. Groups = m \div 3
    BY <1>4, Zenon DEF Groups
  <2> HIDE DEF m, P
  <2>5. /\ Groups \in Nat
        /\ \A g \in 1..Groups : \A j \in 1..3 : Position(g, j) \in 1..m
        /\ \A i \in 1..m : \E g \in 1..Groups : \E j \in 1..3 : i = Position(g, j)
        /\ \A g, h \in Int : \A j, l \in 1..3 : Position(g, j) = Position(h, l) => g = h /\ j = l
    <3> DEFINE d == m \div 3
    <3>1. /\ d \in Nat
          /\ \A g \in 1..d : \A j \in 1..3 : Position(g, j) \in 1..m
          /\ \A i \in 1..m : \E g \in 1..d : \E j \in 1..3 : i = Position(g, j)
          /\ \A g, h \in Int : \A j, l \in 1..3 : Position(g, j) = Position(h, l) => g = h /\ j = l
      BY <2>3, Threes, Zenon
    <3> HIDE DEF d
    <3>2. Groups = d
      BY <2>4, Zenon DEF d
    <3> QED
      BY <3>1, <3>2, Zenon
  <2>6. \A g : \A j \in 1..3 : Group(g)[j] = P[perm[Position(g, j)]]
    BY Zenon DEF Group, Position, P
  <2>7. Fits
    <3>1. Range(perm) \subseteq 1..n
      BY <2>2, Zenon DEF Permutes
    <3>2. \A p \in 1..n : p <= n
      BY <1>2
    <3>3. \A p \in Range(perm) : p <= n
      BY <3>1, <3>2
    <3> QED
      BY <3>3, Zenon DEF Fits, P
  <2>8. ASSUME NEW g \in 1..Groups, NEW j \in 1..3 PROVE Group(g)[j] \in cs
    <3>1. perm[Position(g, j)] \in 1..n
      BY <2>3, <2>5, Zenon
    <3>2. P[perm[Position(g, j)]] \in cs
      BY <1>2, <3>1, Zenon DEF P
    <3> QED
      BY <2>6, <3>2, Zenon
  <2>9. ASSUME NEW c \in cs PROVE \E g \in 1..Groups : \E j \in 1..3 : Own(Position(g, j)) /\ Group(g)[j] = c
    <3>1. PICK a \in 1..n : P[a] = c
      BY <1>2, Zenon DEF P
    <3>2. PICK i \in 1..n : perm[i] = a
      BY <2>3, Zenon
    <3>3. i \in 1..m /\ i <= n
      <4>1. n \in Nat /\ m \in Nat /\ n <= m
        BY <1>2, <2>3, Zenon DEF P
      <4> HIDE DEF n
      <4> QED
        BY <4>1
    <3>4. PICK g \in 1..Groups : \E j \in 1..3 : i = Position(g, j)
      BY <2>5, <3>3, Zenon
    <3>5. PICK j \in 1..3 : i = Position(g, j)
      BY <3>4, Zenon
    <3>6. Own(Position(g, j))
      BY <3>3, <3>5, Zenon DEF Own, P
    <3>7. Group(g)[j] = c
      BY <2>6, <3>1, <3>2, <3>5, Zenon
    <3> QED
      BY <3>6, <3>7, Zenon
  <2>10. ASSUME NEW g \in 1..Groups, NEW h \in 1..Groups, NEW j \in 1..3, NEW l \in 1..3,
                Own(Position(g, j)), Own(Position(h, l)), Group(g)[j] = Group(h)[l]
         PROVE  g = h /\ j = l
    <3> DEFINE a == Position(g, j)
               b == Position(h, l)
    <3>1. a \in 1..m /\ b \in 1..m /\ a <= n /\ b <= n
      BY <2>5, <2>10, Zenon DEF Own, P
    <3>2. P[perm[a]] = P[perm[b]]
      BY <2>6, <2>10, Zenon
    <3>3. perm[a] \in 1..n /\ perm[b] \in 1..n
      BY <2>3, <3>1, Zenon
    <3>4. perm[a] = perm[b]
      <4>1. \A x, y \in 1..n : P[x] = P[y] => x = y
        BY <1>2, Zenon DEF P
      <4> HIDE DEF a, b, n
      <4> QED
        BY <3>2, <3>3, <4>1, Zenon
    <3> HIDE DEF a, b
    <3>5. a \in 1..n /\ b \in 1..n
      BY <1>2, <3>1
    <3>6. a = b
      BY <2>3, <3>4, <3>5, Zenon
    <3>7. g \in Int /\ h \in Int
      OBVIOUS
    <3>8. Position(g, j) = Position(h, l)
      BY <3>6, Zenon DEF a, b
    <3> QED
      BY <3>7, <3>8 DEF Position
  <2> QED
    BY <2>5, <2>7, <2>8, <2>9, <2>10, Zenon DEF GroupsAre
<1> QED
  BY <1>3, <1>4

\* The pages of an array's values, by their numbers.
Top(f) == Counts(f)[ColumnsNo + 1]
PagesIn(k, f) == [x \in 1..Top(f) |-> store[k].values[x].pages]
PagesAre(k, f) ==
  /\ Top(f) \in Nat /\ PagesIn(k, f) \in [1..Top(f) -> Seq(Seq(Entry))]
  /\ \A c \in Columns :
       /\ Counts(f)[c] \in Nat /\ InColumn(Counts(f), c) = Len(Cut(f, c)) /\ Len(Cut(f, c)) \in Nat
       /\ \A t \in 1..Len(Cut(f, c)) : /\ Counts(f)[c] + t \in 1..Top(f)
                                      /\ PagesIn(k, f)[Counts(f)[c] + t] = CutPages(f, c)[t]
  /\ \A x \in 1..Top(f) : /\ PagesIn(k, f)[x] = store[k].values[x].pages
                          /\ f \notin Headers => ~Misread(store[k].values[x])

\* A column of the counts is as long as the column is.
LEMMA InColumnIs ==
  ASSUME NEW f \in Files, NEW c \in Columns
  PROVE  Counts(f)[c] \in Nat /\ InColumn(Counts(f), c) = Len(Cut(f, c)) /\ Len(Cut(f, c)) \in Nat
<1> DEFINE a == Counts(f)[c]
           b == Counts(f)[c + 1]
           n == Len(Cut(f, c))
<1>1. c \in 1..ColumnsNo + 1
  BY ColumnNumbers
<1>2. n \in Nat /\ b = a + n /\ a \in Nat
  BY <1>1, ColumnsCut, FileDivided, Zenon DEF CutIs, DivideIs
<1>3. InColumn(Counts(f), c) = b - a
  BY Zenon DEF InColumn
<1> HIDE DEF a, b, n
<1>4. b - a = n
  BY <1>2
<1> QED
  BY <1>2, <1>3, <1>4, Zenon DEF a, b, n

\* In the array of a file they are the pages of its columns.
LEMMA PagesThere ==
  ASSUME NEW k \in Keys, ArrayOK(store[k]), NEW f \in Files, store[k].file = f
  PROVE  PagesAre(k, f)
<1> DEFINE values == store[k].values
           n == Counts(f)
           top == Top(f)
           pg == PagesIn(k, f)
<1>1. store[k] # NoArray
  <2>1. NoArray.file = None /\ f # None
    BY ColumnNumbers, Zenon DEF NoArray
  <2> QED
    BY <2>1, Zenon
<1>2. /\ store[k].entries = Len(DivideFile(f))
      /\ \A i \in 1..store[k].entries : values[i] = DivideFile(f)[i]
  BY <1>1, Zenon DEF ArrayOK
<1>3. top \in Nat /\ Len(DivideFile(f)) = top + 1
  <2>1. ColumnsNo + 1 \in 1..ColumnsNo + 1
    BY ColumnNumbers
  <2> QED
    BY <2>1, FileDivided, Zenon DEF DivideIs, Top
<1>4. \A x \in 1..top : values[x] = DivideFile(f)[x]
  <2> SUFFICES ASSUME NEW x \in 1..top PROVE values[x] = DivideFile(f)[x]
    OBVIOUS
  <2> HIDE DEF top
  <2>1. x \in 1..top + 1
    BY <1>3
  <2> QED
    BY <1>2, <1>3, <2>1, Zenon
<1>5. ASSUME NEW c \in Columns, NEW t \in 1..Len(Cut(f, c))
      PROVE  /\ n[c] + t \in 1..top /\ DivideFile(f)[n[c] + t] = Cut(f, c)[t]
             /\ Cut(f, c)[t] = Data(f, Cut(f, c)[t].pages) /\ Cut(f, c)[t].pages \in Seq(Seq(Entry))
             /\ CutPages(f, c)[t] = Cut(f, c)[t].pages
  BY ColumnsCut, FileDivided, Zenon DEF CutIs, DivideIs, Top
<1>6. ASSUME NEW x \in 1..top
      PROVE  values[x].pages \in Seq(Seq(Entry)) /\ (f \notin Headers => ~Misread(values[x]))
  <2>1. PICK c \in Columns : \E t \in 1..Len(Cut(f, c)) : DivideFile(f)[x] = Cut(f, c)[t]
    BY FileDivided, Zenon DEF DivideIs, Top
  <2>2. PICK t \in 1..Len(Cut(f, c)) : DivideFile(f)[x] = Cut(f, c)[t]
    BY <2>1, Zenon
  <2>3. values[x] = Cut(f, c)[t]
    BY <1>4, <2>2, Zenon
  <2>4. values[x].pages \in Seq(Seq(Entry))
    BY <1>5, <2>3, Zenon
  <2>5. (Cut(f, c)[t].headed <=> f \in Headers) /\ Cut(f, c)[t].meta = None
    <3> DEFINE p == Cut(f, c)[t].pages
    <3>1. Cut(f, c)[t] = Data(f, p)
      BY <1>5, Zenon
    <3>2. (Data(f, p).headed <=> f \in Headers) /\ Data(f, p).meta = None
      BY ValueParts, Zenon
    <3> HIDE DEF p
    <3> QED
      BY <3>1, <3>2, Zenon
  <2>6. (values[x].headed <=> f \in Headers) /\ values[x].meta = None
    BY <2>3, <2>5, Zenon
  <2> QED
    BY <2>4, <2>6, Zenon DEF Misread
<1>7. pg \in [1..top -> Seq(Seq(Entry))] /\ \A x \in 1..top : pg[x] = values[x].pages
  BY <1>6, Zenon DEF PagesIn
<1>8. ASSUME NEW c \in Columns, NEW t \in 1..Len(Cut(f, c))
      PROVE  n[c] + t \in 1..top /\ pg[n[c] + t] = CutPages(f, c)[t]
  <2>1. n[c] + t \in 1..top
    BY <1>5, Zenon
  <2>2. values[n[c] + t] = Cut(f, c)[t]
    BY <1>4, <1>5, <2>1, Zenon
  <2>3. pg[n[c] + t] = values[n[c] + t].pages
    BY <1>7, <2>1, Zenon
  <2>4. CutPages(f, c)[t] = Cut(f, c)[t].pages
    BY <1>5, Zenon
  <2> QED
    BY <2>1, <2>2, <2>3, <2>4, Zenon
<1> QED
  BY <1>3, <1>6, <1>7, <1>8, InColumnIs, Zenon DEF PagesAre

\* What is known of the keys of a list and the columns they are for: they are there,
\* and so are the pages of column c that come of them.
Lists(k, f, keys, slots) ==
  /\ keys \in Seq(1..Top(f)) /\ slots \in Seq(Columns \cup {0}) /\ Len(keys) = Len(slots)
Gotten(k, f, keys, slots, c) == Got(PagesIn(k, f), keys, slots, c)
Pages(f, c) == FlattenSeq(CutPages(f, c))

\* An output column.
LEMMA OutputsAre ==
  ASSUME NEW k \in Keys, NEW f \in Files, PagesAre(k, f), valueNo = Zero, AfterKeys(Counts(f)) = Zero,
         NEW e \in Columns
  PROVE  LET keys == OutputKeys(Counts(f), e)
             slots == OutputSlots(Counts(f), e)
         IN  /\ Lists(k, f, keys, slots)
             /\ \A c \in Columns : Gotten(k, f, keys, slots, c) = IF c = e THEN Pages(f, c) ELSE <<>>
<1> DEFINE n == Counts(f)
           b == n[e]
           m == Len(Cut(f, e))
           keys == OutputKeys(n, e)
           slots == OutputSlots(n, e)
           C == Columns \cup {0}
           K == 1..Top(f)
           pg == PagesIn(k, f)
           X == Seq(Entry)
<1>1. /\ b \in Nat /\ InColumn(n, e) = m /\ m \in Nat /\ pg \in [K -> Seq(X)]
      /\ \A t \in 1..m : b + t \in K /\ pg[b + t] = CutPages(f, e)[t]
  BY Zenon DEF PagesAre
<1>2. valueNo[e] = 0 /\ AfterKeys(n)[e] = 0
  BY Zenon DEF Zero
<1>3. keys = [t \in 1..m |-> b + t] /\ slots = [t \in 1..m |-> e]
  <2>1. m - 0 = m /\ b + 0 = b
    BY <1>1
  <2> QED
    BY <1>1, <1>2, <2>1, Zenon DEF OutputKeys, OutputSlots
<1> HIDE DEF b, m, keys, slots, pg, X, K, n
<1>4. /\ keys \in Seq(K) /\ slots \in Seq(C) /\ Len(keys) = m /\ Len(slots) = m
      /\ \A t \in 1..m : keys[t] = b + t /\ slots[t] = e
  <2>1. e \in C
    BY Zenon DEF C
  <2> HIDE DEF C
  <2>2. m \in Nat /\ \A t \in 1..m : b + t \in K
    BY <1>1, Zenon
  <2>3. keys \in Seq(K) /\ Len(keys) = m /\ \A t \in 1..m : keys[t] = b + t
    BY <1>3, <2>2
  <2>4. slots \in Seq(C) /\ Len(slots) = m /\ \A t \in 1..m : slots[t] = e
    BY <1>3, <2>1, <2>2
  <2> QED
    BY <2>3, <2>4, Zenon
<1> HIDE DEF C
<1>5. Lists(k, f, keys, slots)
  BY <1>4, Zenon DEF Lists, C, K
<1>6. ASSUME NEW c \in Columns, c # e PROVE Got(pg, keys, slots, c) = <<>>
  <2>1. \A a \in 1..Len(slots) : slots[a] # c
    BY <1>4, <1>6, Zenon
  <2>2. Len(keys) = Len(slots)
    BY <1>4, Zenon
  <2>3. pg \in [K -> Seq(X)] /\ keys \in Seq(K) /\ slots \in Seq(C)
    BY <1>1, <1>4, Zenon
  <2> HIDE DEF Got
  <2>4. NoneGot(pg, keys, slots, c)
    BY <2>1, <2>2, <2>3, GotNone, Zenon
  <2> QED
    BY <2>4, Zenon DEF NoneGot
<1>7. Got(pg, keys, slots, e) = Pages(f, e)
  <2> DEFINE w == Picked(pg, keys, slots, e)
             g == CutPages(f, e)
  <2>1. PickedIs(X, pg, keys, slots, e)
    <3>1. Len(keys) = Len(slots)
      BY <1>4, Zenon
    <3> QED
      BY <1>1, <1>4, <3>1, PickedType, Zenon
  <2>2. /\ w \in Seq(Seq(X)) /\ Len(w) = m
        /\ \A a \in 1..m : w[a] = IF slots[a] = e THEN pg[keys[a]] ELSE <<>>
    BY <1>4, <2>1, Zenon DEF PickedIs
  <2>3. \A a \in 1..m : w[a] = g[a]
    BY <1>1, <1>4, <2>2, Zenon
  <2>4. g \in Seq(Seq(X)) /\ Len(g) = m
    BY ColumnsCut, Zenon DEF CutIs, X, m
  <2> HIDE DEF w, g
  <2>5. w = g
    <3> DEFINE Q == Seq(X)
    <3>1. w \in Seq(Q) /\ g \in Seq(Q) /\ Len(w) = Len(g) /\ \A a \in 1..Len(w) : w[a] = g[a]
      BY <2>2, <2>3, <2>4, Zenon
    <3> HIDE DEF Q
    <3> QED
      BY <3>1, SameSequence, Zenon
  <2> QED
    BY <2>5, Zenon DEF Got, Pages, w, g
<1>8. \A c \in Columns : Gotten(k, f, keys, slots, c) = IF c = e THEN Pages(f, c) ELSE <<>>
  BY <1>6, <1>7, Zenon DEF Gotten, pg
<1> QED
  BY <1>5, <1>8, Zenon DEF keys, slots, n

\* The columns of a group and its number of rounds: as many as each of them has values.
RoundsAre(f, g, R) ==
  /\ R \in Nat /\ Rounds(Counts(f), g, Zero) = R
  /\ \A j \in 1..3 : Group(g)[j] \in Columns /\ InColumn(Counts(f), Group(g)[j]) = R

\* They are so when the columns of the group have equally many values.
LEMMA RoundsAreSo ==
  ASSUME NEW f \in Files, GroupsAre, enabled \subseteq Columns, NEW g \in 1..Groups,
         Cardinality({InColumn(Counts(f), c) : c \in Range(Group(g))}) = 1
  PROVE  \E R : RoundsAre(f, g, R)
<1> DEFINE n == Counts(f)
           G == Group(g)
           T(c) == InColumn(n, c)
           S == {T(c) : c \in Range(G)}
<1>1. \A j \in 1..3 : G[j] \in Columns
  <2>1. enabled \ output \subseteq Columns
    OBVIOUS
  <2>2. \A j \in 1..3 : G[j] \in enabled \ output
    BY Zenon DEF GroupsAre
  <2> QED
    BY <2>1, <2>2, Zenon
<1>2. \A c : c \in Range(G) <=> \E j \in 1..3 : c = G[j]
  <2>1. DOMAIN G = 1..3
    BY Zenon DEF Group
  <2> HIDE DEF G
  <2> QED
    BY <2>1, Zenon DEF Range
<1>3. \A c \in Columns : T(c) \in Nat
  BY InColumnIs, Zenon
<1>4. Cardinality(S) = 1
  OBVIOUS
<1> HIDE DEF G, T, n
<1>5. S = {T(G[1]), T(G[2]), T(G[3])}
  <2>1. \A x : x \in S <=> \E j \in 1..3 : x = T(G[j])
    BY <1>2, Zenon
  <2> HIDE DEF S
  <2>2. \A j : j \in 1..3 <=> j = 1 \/ j = 2 \/ j = 3
    OBVIOUS
  <2>3. \A x : x \in S <=> x = T(G[1]) \/ x = T(G[2]) \/ x = T(G[3])
    BY <2>1, <2>2, Zenon
  <2> QED
    BY <2>3
<1>6. PICK R : S = {R}
  <2> DEFINE A == {T(G[1])}
             B == A \cup {T(G[2])}
             D == B \cup {T(G[3])}
  <2>1. IsFiniteSet(A)
    BY FS_Singleton, Zenon
  <2>2. IsFiniteSet(B)
    BY <2>1, FS_AddElement, Zenon
  <2>3. IsFiniteSet(D)
    BY <2>2, FS_AddElement, Zenon
  <2>4. D = S
    BY <1>5
  <2> HIDE DEF S, D
  <2>5. IsFiniteSet(S)
    BY <2>3, <2>4, Zenon
  <2> QED
    BY <1>4, <2>5, FS_Singleton, Zenon
<1>7. \A j \in 1..3 : T(G[j]) = R
  <2>1. \A j \in 1..3 : T(G[j]) \in S
    BY <1>2, Zenon
  <2> HIDE DEF S
  <2> QED
    BY <1>6, <2>1
<1>8. R \in Nat
  <2>1. T(G[1]) = R /\ T(G[1]) \in Nat
    BY <1>1, <1>3, <1>7
  <2> QED
    BY <2>1, Zenon
<1>9. Rounds(n, g, Zero) = R
  <2> DEFINE Z == {T(c) - Zero[c] : c \in Range(G)}
  <2>1. \A j \in 1..3 : T(G[j]) - Zero[G[j]] = R
    <3> SUFFICES ASSUME NEW j \in 1..3 PROVE T(G[j]) - Zero[G[j]] = R
      OBVIOUS
    <3>1. Zero[G[j]] = 0 /\ T(G[j]) = R
      BY <1>1, <1>7, Zenon DEF Zero
    <3> QED
      BY <1>8, <3>1
  <2>2. \A x : x \in Z <=> x = R
    <3> DEFINE U(c) == T(c) - Zero[c]
    <3>1. \A x : x \in Z <=> \E j \in 1..3 : x = T(G[j]) - Zero[G[j]]
      <4>1. Z = {U(c) : c \in Range(G)}
        BY Zenon
      <4> HIDE DEF U, Z
      <4>2. \A x : x \in Z <=> \E j \in 1..3 : x = U(G[j])
        BY <1>2, <4>1, Zenon
      <4> QED
        BY <4>2, Zenon DEF U
    <3>2. 1 \in 1..3
      OBVIOUS
    <3> QED
      BY <2>1, <3>1, <3>2, Zenon
  <2>3. Rounds(n, g, Zero) = Min(Z)
    BY Zenon DEF Rounds, T, G
  <2> HIDE DEF Z
  <2>4. Z = {R}
    BY <2>2
  <2>5. Min({R}) = R
    BY <1>8 DEF Min
  <2> QED
    BY <2>3, <2>4, <2>5, Zenon
<1> QED
  BY <1>1, <1>7, <1>8, <1>9, Zenon DEF RoundsAre, G, T, n

\* A function on the first numbers is a sequence.
LEMMA FunctionIsSeq ==
  ASSUME NEW X, NEW m \in Nat, NEW s \in [1..m -> X]
  PROVE  s \in Seq(X) /\ Len(s) = m
OBVIOUS

\* What is asked for in a round of a group, and where the answers are placed.
KeyRow(f, g, t) == [j \in 1..3 |-> Counts(f)[Group(g)[j]] + Zero[Group(g)[j]] + t]
SlotRow(g) == [j \in 1..3 |-> IF Own(3 * (g - 1) + j) THEN Group(g)[j] ELSE 0]
KeyRows(f, g, R) == [t \in 1..R |-> KeyRow(f, g, t)]
SlotRows(g, R) == [t \in 1..R |-> SlotRow(g)]
RowsAsked(f, g, R) ==
  /\ GroupKeys(Counts(f), g) = FlattenSeq(KeyRows(f, g, R))
  /\ GroupSlots(Counts(f), g) = FlattenSeq(SlotRows(g, R))
  /\ KeyRows(f, g, R) \in Seq(Seq(1..Top(f))) /\ Len(KeyRows(f, g, R)) = R
  /\ SlotRows(g, R) \in Seq(Seq(Columns \cup {0})) /\ Len(SlotRows(g, R)) = R
  /\ \A t \in 1..R : /\ KeyRows(f, g, R)[t] \in Seq(1..Top(f)) /\ Len(KeyRows(f, g, R)[t]) = 3
                     /\ SlotRows(g, R)[t] \in Seq(Columns \cup {0}) /\ Len(SlotRows(g, R)[t]) = 3
                     /\ \A j \in 1..3 :
                          /\ KeyRows(f, g, R)[t][j] = Counts(f)[Group(g)[j]] + t
                          /\ SlotRows(g, R)[t][j] = IF Own(Position(g, j)) THEN Group(g)[j] ELSE 0

\* With the cursors at 0 they are rounds of three.
LEMMA RowsAskedFor ==
  ASSUME NEW k \in Keys, NEW f \in Files, PagesAre(k, f), valueNo = Zero, AfterKeys(Counts(f)) = Zero,
         NEW g \in 1..Groups, NEW R, RoundsAre(f, g, R)
  PROVE  RowsAsked(f, g, R)
<1> DEFINE n == Counts(f)
           G == Group(g)
           C == Columns \cup {0}
           K == 1..Top(f)
           kk == KeyRows(f, g, R)
           ss == SlotRows(g, R)
           s == SlotRow(g)
<1>1. FromAt(g) = Zero
  <2>1. \A c \in Columns : valueNo[c] = 0
    BY Zenon DEF Zero
  <2> QED
    BY <2>1, Zenon DEF FromAt, Zero
<1>2. R \in Nat /\ Rounds(n, g, Zero) = R /\ \A j \in 1..3 : G[j] \in Columns /\ InColumn(n, G[j]) = R
  BY Zenon DEF RoundsAre
<1>3. GroupKeys(n, g) = FlattenSeq(kk) /\ GroupSlots(n, g) = FlattenSeq(ss)
  <2>1. GroupKeys(n, g) = FlattenSeq(kk)
    BY <1>1, <1>2, Zenon DEF GroupKeys, KeyRows, KeyRow
  <2>2. GroupSlots(n, g) = FlattenSeq(ss)
    BY <1>2, Zenon DEF GroupSlots, SlotRows, SlotRow
  <2> QED
    BY <2>1, <2>2
<1>4. \A j \in 1..3 : s[j] = IF Own(Position(g, j)) THEN G[j] ELSE 0
  BY Zenon DEF SlotRow, Position
<1>5. s \in Seq(C) /\ Len(s) = 3
  <2>1. \A j \in 1..3 : G[j] \in C
    BY <1>2
  <2>2. 0 \in C
    OBVIOUS
  <2> HIDE DEF C, G
  <2>3. \A j \in 1..3 : (IF Own(Position(g, j)) THEN G[j] ELSE 0) \in C
    BY <2>1, <2>2, Zenon
  <2>4. s \in [1..3 -> C]
    BY <2>3, Zenon DEF SlotRow, Position, G
  <2>5. 3 \in Nat
    OBVIOUS
  <2> QED
    BY <2>4, <2>5, FunctionIsSeq, Zenon
<1>6. ASSUME NEW t \in 1..R
      PROVE  /\ KeyRow(f, g, t) \in Seq(K) /\ Len(KeyRow(f, g, t)) = 3
             /\ \A j \in 1..3 : KeyRow(f, g, t)[j] = n[G[j]] + t
  <2> DEFINE r == KeyRow(f, g, t)
  <2>1. ASSUME NEW j \in 1..3 PROVE r[j] = n[G[j]] + t /\ r[j] \in K
    <3> DEFINE c == G[j]
    <3>1. c \in Columns /\ InColumn(n, c) = R
      BY <1>2
    <3> HIDE DEF c
    <3>2. Zero[c] = 0 /\ n[c] \in Nat /\ InColumn(n, c) = Len(Cut(f, c))
      BY <3>1, Zenon DEF Zero, PagesAre
    <3>3. t \in 1..Len(Cut(f, c))
      BY <3>1, <3>2, Zenon
    <3>4. n[c] + t \in K
      BY <3>1, <3>3, Zenon DEF PagesAre
    <3>5. r[j] = n[c] + Zero[c] + t
      BY Zenon DEF KeyRow, c
    <3> DEFINE x == n[c]
    <3>6. x \in Nat /\ r[j] = x + 0 + t
      BY <3>2, <3>5, Zenon
    <3> HIDE DEF x, r
    <3>7. r[j] = x + t
      BY <3>6
    <3> QED
      BY <3>4, <3>7, Zenon DEF x, c
  <2>2. r = [j \in 1..3 |-> r[j]]
    BY Zenon DEF KeyRow
  <2> HIDE DEF r, K
  <2>3. r \in [1..3 -> K]
    BY <2>1, <2>2, Zenon
  <2>4. 3 \in Nat
    OBVIOUS
  <2>5. r \in Seq(K) /\ Len(r) = 3
    BY <2>3, <2>4, FunctionIsSeq, Zenon
  <2> QED
    BY <2>1, <2>5, Zenon DEF r
<1>7. /\ kk \in [1..R -> Seq(K)] /\ \A t \in 1..R : kk[t] = KeyRow(f, g, t)
  BY <1>6, Zenon DEF KeyRows
<1>8. /\ ss \in [1..R -> Seq(C)] /\ \A t \in 1..R : ss[t] = s
  BY <1>5, Zenon DEF SlotRows
<1>9. kk \in Seq(Seq(K)) /\ Len(kk) = R
  <2> DEFINE Y == Seq(K)
  <2>1. kk \in [1..R -> Y] /\ R \in Nat
    BY <1>2, <1>7, Zenon
  <2> HIDE DEF Y, kk
  <2>2. kk \in Seq(Y) /\ Len(kk) = R
    BY <2>1
  <2> QED
    BY <2>2, Zenon DEF Y
<1>10. ss \in Seq(Seq(C)) /\ Len(ss) = R
  <2> DEFINE Y == Seq(C)
  <2>1. ss \in [1..R -> Y] /\ R \in Nat
    BY <1>2, <1>8, Zenon
  <2> HIDE DEF Y, ss
  <2>2. ss \in Seq(Y) /\ Len(ss) = R
    BY <2>1
  <2> QED
    BY <2>2, Zenon DEF Y
<1>11. ASSUME NEW t \in 1..R
       PROVE /\ kk[t] \in Seq(K) /\ Len(kk[t]) = 3 /\ ss[t] \in Seq(C) /\ Len(ss[t]) = 3
             /\ \A j \in 1..3 : /\ kk[t][j] = n[G[j]] + t
                                /\ ss[t][j] = IF Own(Position(g, j)) THEN G[j] ELSE 0
  <2>1. kk[t] \in Seq(K) /\ Len(kk[t]) = 3 /\ \A j \in 1..3 : kk[t][j] = n[G[j]] + t
    BY <1>6, <1>7, Zenon
  <2>2. ss[t] \in Seq(C) /\ Len(ss[t]) = 3 /\ \A j \in 1..3 : ss[t][j] = IF Own(Position(g, j)) THEN G[j] ELSE 0
    BY <1>4, <1>5, <1>8, Zenon
  <2> QED
    BY <2>1, <2>2, Zenon
<1> QED
  BY <1>3, <1>9, <1>10, <1>11, Zenon DEF RowsAsked

\* What a group gives: the columns it perturbs their pages, the others nothing.
GroupGives(k, f, g) ==
  LET keys == GroupKeys(Counts(f), g)
      slots == GroupSlots(Counts(f), g)
  IN /\ Lists(k, f, keys, slots)
     /\ \A c \in Columns : \A j \in 1..3 :
          Own(Position(g, j)) /\ Group(g)[j] = c => Gotten(k, f, keys, slots, c) = Pages(f, c)
     /\ \A c \in Columns : (\A j \in 1..3 : ~(Own(Position(g, j)) /\ Group(g)[j] = c))
          => Gotten(k, f, keys, slots, c) = <<>>

\* Every group does.
LEMMA GroupsGive ==
  ASSUME NEW k \in Keys, NEW f \in Files, PagesAre(k, f), valueNo = Zero, AfterKeys(Counts(f)) = Zero,
         GroupsAre, NEW g \in 1..Groups, NEW R, RoundsAre(f, g, R)
  PROVE  GroupGives(k, f, g)
<1> DEFINE n == Counts(f)
           G == Group(g)
           C == Columns \cup {0}
           K == 1..Top(f)
           X == Seq(Entry)
           pg == PagesIn(k, f)
           kk == KeyRows(f, g, R)
           ss == SlotRows(g, R)
           keys == GroupKeys(n, g)
           slots == GroupSlots(n, g)
           e(c) == EachGot(pg, kk, ss, c)
<1>1. RowsAsked(f, g, R)
  BY RowsAskedFor, Zenon
<1>2. /\ keys = FlattenSeq(kk) /\ slots = FlattenSeq(ss)
      /\ kk \in Seq(Seq(K)) /\ Len(kk) = R /\ ss \in Seq(Seq(C)) /\ Len(ss) = R
  BY <1>1, Zenon DEF RowsAsked
<1>3. \A t \in 1..R : /\ kk[t] \in Seq(K) /\ Len(kk[t]) = 3 /\ ss[t] \in Seq(C) /\ Len(ss[t]) = 3
                      /\ \A j \in 1..3 : /\ kk[t][j] = n[G[j]] + t
                                         /\ ss[t][j] = IF Own(Position(g, j)) THEN G[j] ELSE 0
  BY <1>1, Zenon DEF RowsAsked
<1>4. pg \in [K -> Seq(X)]
  BY Zenon DEF PagesAre
<1>5. R \in Nat /\ \A j \in 1..3 : G[j] \in Columns /\ InColumn(n, G[j]) = R
  BY Zenon DEF RoundsAre
<1>6. 0 \notin Columns
  BY ColumnNumbers
<1> HIDE DEF G, C, K, X, pg, kk, ss, n, keys, slots
<1>7. ASSUME NEW c \in Columns
      PROVE  /\ e(c) \in Seq(Seq(X)) /\ Len(e(c)) = R
             /\ \A t \in 1..R : e(c)[t] = Got(pg, kk[t], ss[t], c)
             /\ Len(keys) = Len(slots) /\ Got(pg, keys, slots, c) = FlattenSeq(e(c))
  <2>1. Len(kk) = Len(ss) /\ \A t \in 1..Len(kk) : Len(kk[t]) = Len(ss[t])
    BY <1>2, <1>3, Zenon
  <2>2. ManyGot(X, pg, kk, ss, c)
    BY <1>2, <1>4, <2>1, GotFlatten, Zenon
  <2> QED
    BY <1>2, <2>2, Zenon DEF ManyGot
<1> HIDE DEF e
<1>8. Lists(k, f, keys, slots)
  <2>1. keys \in Seq(K) /\ slots \in Seq(C)
    BY <1>2, FlattenType, Zenon
  <2>2. Len(keys) = Len(slots)
    BY <1>7, ColumnNumbers, Zenon
  <2> QED
    BY <2>1, <2>2, Zenon DEF Lists, K, C
<1>9. ASSUME NEW c \in Columns, NEW j \in 1..3, Own(Position(g, j)), G[j] = c
      PROVE  Got(pg, keys, slots, c) = Pages(f, c)
  <2> DEFINE p == CutPages(f, c)
  <2>1. p \in Seq(Seq(X)) /\ Len(p) = R
    <3>1. Len(p) = Len(Cut(f, c)) /\ p \in Seq(Seq(X))
      BY ColumnsCut, Zenon DEF CutIs, X
    <3>2. InColumn(n, c) = Len(Cut(f, c)) /\ InColumn(n, c) = R
      BY <1>5, <1>9, Zenon DEF PagesAre, n
    <3> QED
      BY <3>1, <3>2, Zenon
  <2>2. ASSUME NEW t \in 1..R PROVE e(c)[t] = p[t]
    <3> DEFINE q == kk[t]
               s == ss[t]
    <3>1. q \in Seq(K) /\ s \in Seq(C) /\ Len(q) = 3 /\ Len(s) = 3
      BY <1>3, Zenon
    <3>2. s[j] = c /\ q[j] = n[c] + t
      BY <1>3, <1>9, Zenon
    <3>3. ASSUME NEW a \in 1..3, a # j PROVE s[a] # c
      <4>1. CASE Own(Position(g, a))
        <5>1. G[a] # c
          BY <1>9, <3>3, <4>1, Zenon DEF GroupsAre, G
        <5> QED
          BY <1>3, <4>1, <5>1, Zenon
      <4>2. CASE ~Own(Position(g, a))
        <5>1. s[a] = 0
          BY <1>3, <4>2, Zenon
        <5> QED
          BY <1>6, <5>1, Zenon
      <4> QED
        BY <4>1, <4>2, Zenon
    <3>4. OneGot(pg, q, s, c, j)
      <4>1. Len(q) = Len(s) /\ j \in 1..Len(s) /\ \A a \in 1..Len(s) : a # j => s[a] # c
        BY <3>1, <3>3, Zenon
      <4> HIDE DEF q, s
      <4> QED
        BY <1>4, <3>1, <3>2, <4>1, GotOne, Zenon
    <3>5. Got(pg, q, s, c) = pg[n[c] + t]
      BY <3>2, <3>4, Zenon DEF OneGot
    <3>6. t \in 1..Len(Cut(f, c))
      <4>1. InColumn(n, c) = Len(Cut(f, c)) /\ InColumn(n, c) = R
        BY <1>5, <1>9, Zenon DEF PagesAre, n
      <4> QED
        BY <4>1, Zenon
    <3>7. pg[n[c] + t] = p[t]
      BY <3>6, Zenon DEF PagesAre, n, pg
    <3> QED
      BY <1>7, <3>5, <3>7, Zenon
  <2> HIDE DEF p
  <2>3. e(c) = p
    <3> DEFINE Y == Seq(X)
               x == e(c)
    <3>1. x \in Seq(Y) /\ p \in Seq(Y) /\ Len(x) = Len(p) /\ \A t \in 1..Len(x) : x[t] = p[t]
      BY <1>7, <2>1, <2>2, Zenon
    <3> HIDE DEF Y, x
    <3>2. x = p
      BY <3>1, SameSequence, Zenon
    <3> QED
      BY <3>2, Zenon DEF x
  <2> QED
    BY <1>7, <2>3, Zenon DEF Pages, p
<1>10. ASSUME NEW c \in Columns, \A j \in 1..3 : ~(Own(Position(g, j)) /\ G[j] = c)
       PROVE  Got(pg, keys, slots, c) = <<>>
  <2>1. ASSUME NEW t \in 1..R PROVE e(c)[t] = <<>>
    <3> DEFINE q == kk[t]
               s == ss[t]
    <3>1. q \in Seq(K) /\ s \in Seq(C) /\ Len(q) = 3 /\ Len(s) = 3
      BY <1>3, Zenon
    <3>2. ASSUME NEW a \in 1..3 PROVE s[a] # c
      <4>1. CASE Own(Position(g, a))
        <5>1. s[a] = G[a] /\ G[a] # c
          BY <1>3, <1>10, <4>1, Zenon
        <5> QED
          BY <5>1, Zenon
      <4>2. CASE ~Own(Position(g, a))
        <5>1. s[a] = 0
          BY <1>3, <4>2, Zenon
        <5> QED
          BY <1>6, <5>1, Zenon
      <4> QED
        BY <4>1, <4>2, Zenon
    <3>3. NoneGot(pg, q, s, c)
      <4>1. Len(q) = Len(s) /\ \A a \in 1..Len(s) : s[a] # c
        BY <3>1, <3>2, Zenon
      <4> HIDE DEF q, s
      <4> QED
        BY <1>4, <3>1, <4>1, GotNone, Zenon
    <3> QED
      BY <1>7, <3>3, Zenon DEF NoneGot
  <2> DEFINE x == e(c)
  <2>2. x \in Seq(Seq(X)) /\ \A t \in 1..Len(x) : x[t] = <<>>
    BY <1>7, <2>1, Zenon
  <2> HIDE DEF x
  <2>3. FlattenSeq(x) = <<>>
    BY <2>2, FlattenNone, Zenon
  <2> QED
    BY <1>7, <2>3, Zenon DEF x
<1> QED
  BY <1>8, <1>9, <1>10, Zenon DEF GroupGives, Gotten, pg, keys, slots, n, G

\* Lists one after the other: what they give when at most one gives something.
ListsJoined(k, f, m, kk, ss) ==
  /\ Lists(k, f, FlattenSeq(kk), FlattenSeq(ss))
  /\ \A c \in Columns : \A h \in 1..m :
       (\A i \in 1..m : i # h => Gotten(k, f, kk[i], ss[i], c) = <<>>)
         => Gotten(k, f, FlattenSeq(kk), FlattenSeq(ss), c) = Gotten(k, f, kk[h], ss[h], c)
  /\ \A c \in Columns :
       (\A i \in 1..m : Gotten(k, f, kk[i], ss[i], c) = <<>>)
         => Gotten(k, f, FlattenSeq(kk), FlattenSeq(ss), c) = <<>>

\* It is what that one gives.
LEMMA ListsJoin ==
  ASSUME NEW k \in Keys, NEW f \in Files, PagesAre(k, f), NEW m \in Nat, NEW kk, NEW ss,
         kk = [i \in 1..m |-> kk[i]], ss = [i \in 1..m |-> ss[i]],
         \A i \in 1..m : Lists(k, f, kk[i], ss[i])
  PROVE  ListsJoined(k, f, m, kk, ss)
<1> DEFINE C == Columns \cup {0}
           K == 1..Top(f)
           X == Seq(Entry)
           Y == Seq(K)
           Z == Seq(C)
           pg == PagesIn(k, f)
           keys == FlattenSeq(kk)
           slots == FlattenSeq(ss)
           e(c) == EachGot(pg, kk, ss, c)
<1>1. pg \in [K -> Seq(X)]
  BY Zenon DEF PagesAre
<1>2. \A i \in 1..m : kk[i] \in Y /\ ss[i] \in Z /\ Len(kk[i]) = Len(ss[i])
  BY Zenon DEF Lists
<1> HIDE DEF C, K, X, Y, Z, pg
<1>3. kk \in Seq(Y) /\ ss \in Seq(Z) /\ Len(kk) = m /\ Len(ss) = m
  <2>1. kk \in [1..m -> Y] /\ ss \in [1..m -> Z]
    BY <1>2, Zenon
  <2> QED
    BY <2>1, FunctionIsSeq, Zenon
<1>4. ASSUME NEW c \in Columns
      PROVE  /\ e(c) \in Seq(Seq(X)) /\ Len(e(c)) = m
             /\ \A i \in 1..m : e(c)[i] = Gotten(k, f, kk[i], ss[i], c)
             /\ Len(keys) = Len(slots) /\ Gotten(k, f, keys, slots, c) = FlattenSeq(e(c))
  <2>1. kk \in Seq(Seq(K)) /\ ss \in Seq(Seq(C)) /\ Len(kk) = Len(ss)
    BY <1>3, Zenon DEF Y, Z
  <2>2. \A i \in 1..Len(kk) : Len(kk[i]) = Len(ss[i])
    BY <1>2, <1>3, Zenon
  <2>3. ManyGot(X, pg, kk, ss, c)
    BY <1>1, <2>1, <2>2, GotFlatten, Zenon
  <2> QED
    BY <1>3, <2>3, Zenon DEF ManyGot, Gotten, pg
<1> HIDE DEF e
<1>5. Lists(k, f, keys, slots)
  <2>1. keys \in Seq(K) /\ slots \in Seq(C)
    BY <1>3, FlattenType, Zenon DEF Y, Z
  <2>2. Len(keys) = Len(slots)
    BY <1>4, ColumnNumbers, Zenon
  <2> QED
    BY <2>1, <2>2, Zenon DEF Lists, K, C
<1>6. ASSUME NEW c \in Columns, NEW h \in 1..m, \A i \in 1..m : i # h => Gotten(k, f, kk[i], ss[i], c) = <<>>
      PROVE  Gotten(k, f, keys, slots, c) = Gotten(k, f, kk[h], ss[h], c)
  <2> DEFINE x == e(c)
  <2>1. x \in Seq(Seq(X)) /\ h \in 1..Len(x) /\ \A i \in 1..Len(x) : i # h => x[i] = <<>>
    BY <1>4, <1>6, Zenon
  <2>2. x[h] = Gotten(k, f, kk[h], ss[h], c) /\ Gotten(k, f, keys, slots, c) = FlattenSeq(x)
    BY <1>4, Zenon
  <2> HIDE DEF x
  <2>3. FlattenSeq(x) = x[h]
    BY <2>1, FlattenOnly, Zenon
  <2> QED
    BY <2>2, <2>3, Zenon
<1>7. ASSUME NEW c \in Columns, \A i \in 1..m : Gotten(k, f, kk[i], ss[i], c) = <<>>
      PROVE  Gotten(k, f, keys, slots, c) = <<>>
  <2> DEFINE x == e(c)
  <2>1. x \in Seq(Seq(X)) /\ \A i \in 1..Len(x) : x[i] = <<>>
    BY <1>4, <1>7, Zenon
  <2>2. Gotten(k, f, keys, slots, c) = FlattenSeq(x)
    BY <1>4, Zenon
  <2> HIDE DEF x
  <2>3. FlattenSeq(x) = <<>>
    BY <2>1, FlattenNone, Zenon
  <2> QED
    BY <2>2, <2>3, Zenon
<1> QED
  BY <1>5, <1>6, <1>7, Zenon DEF ListsJoined

\* The groups' keys and slots, and the output columns': of the columns cs they give
\* the pages, of the others nothing.
GivesPages(k, f, keys, slots, cs) ==
  /\ Lists(k, f, keys, slots)
  /\ \A c \in Columns : Gotten(k, f, keys, slots, c) = IF c \in cs THEN Pages(f, c) ELSE <<>>
GroupKeyLists(n) == [g \in 1..Groups |-> GroupKeys(n, g)]
GroupSlotLists(n) == [g \in 1..Groups |-> GroupSlots(n, g)]
OutputKeyLists(n) == [i \in DOMAIN Outputs |-> OutputKeys(n, Outputs[i])]
OutputSlotLists(n) == [i \in DOMAIN Outputs |-> OutputSlots(n, Outputs[i])]

\* The columns of a group have equally many values.
EvenGroups(n) == \A g \in 1..Groups : Cardinality({InColumn(n, c) : c \in Range(Group(g))}) = 1

\* All groups give every perturbed column.
LEMMA AllGroups ==
  ASSUME NEW k \in Keys, NEW f \in Files, PagesAre(k, f), valueNo = Zero, AfterKeys(Counts(f)) = Zero,
         GroupsAre, enabled \subseteq Columns, EvenGroups(Counts(f))
  PROVE  GivesPages(k, f, FlattenSeq(GroupKeyLists(Counts(f))), FlattenSeq(GroupSlotLists(Counts(f))), enabled \ output)
<1> DEFINE n == Counts(f)
           kk == GroupKeyLists(n)
           ss == GroupSlotLists(n)
           cs == enabled \ output
           keys == FlattenSeq(kk)
           slots == FlattenSeq(ss)
           m == Groups
<1>1. /\ m \in Nat
      /\ \A c \in cs : \E g \in 1..m : \E j \in 1..3 : Own(Position(g, j)) /\ Group(g)[j] = c
      /\ \A g \in 1..m : \A j \in 1..3 : Group(g)[j] \in cs
      /\ \A g, h \in 1..m : \A j, l \in 1..3 :
           Own(Position(g, j)) /\ Own(Position(h, l)) /\ Group(g)[j] = Group(h)[l] => g = h /\ j = l
  BY Zenon DEF GroupsAre
<1>2. ASSUME NEW g \in 1..m PROVE GroupGives(k, f, g)
  <2>1. Cardinality({InColumn(n, c) : c \in Range(Group(g))}) = 1
    BY Zenon DEF EvenGroups
  <2>2. PICK R : RoundsAre(f, g, R)
    BY <2>1, RoundsAreSo, Zenon
  <2> QED
    BY <2>2, GroupsGive, Zenon
<1>3. \A g \in 1..m : kk[g] = GroupKeys(n, g) /\ ss[g] = GroupSlots(n, g)
  BY Zenon DEF GroupKeyLists, GroupSlotLists
<1>4. kk = [g \in 1..m |-> kk[g]] /\ ss = [g \in 1..m |-> ss[g]]
  BY Zenon DEF GroupKeyLists, GroupSlotLists
<1> HIDE DEF kk, ss, m, cs
<1>5. ASSUME NEW g \in 1..m
      PROVE  /\ Lists(k, f, kk[g], ss[g])
             /\ \A c \in Columns : \A j \in 1..3 :
                  Own(Position(g, j)) /\ Group(g)[j] = c => Gotten(k, f, kk[g], ss[g], c) = Pages(f, c)
             /\ \A c \in Columns : (\A j \in 1..3 : ~(Own(Position(g, j)) /\ Group(g)[j] = c))
                  => Gotten(k, f, kk[g], ss[g], c) = <<>>
  <2> DEFINE u == GroupKeys(n, g)
             v == GroupSlots(n, g)
  <2>1. /\ Lists(k, f, u, v)
        /\ \A c \in Columns : \A j \in 1..3 :
             Own(Position(g, j)) /\ Group(g)[j] = c => Gotten(k, f, u, v, c) = Pages(f, c)
        /\ \A c \in Columns : (\A j \in 1..3 : ~(Own(Position(g, j)) /\ Group(g)[j] = c))
             => Gotten(k, f, u, v, c) = <<>>
    BY <1>2, Zenon DEF GroupGives
  <2>2. kk[g] = u /\ ss[g] = v
    BY <1>3, Zenon
  <2> HIDE DEF u, v
  <2> QED
    BY <2>1, <2>2, Zenon
<1>6. ListsJoined(k, f, m, kk, ss)
  BY <1>1, <1>4, <1>5, ListsJoin, Zenon
<1>7. ASSUME NEW c \in Columns, c \in cs PROVE Gotten(k, f, keys, slots, c) = Pages(f, c)
  <2>1. PICK g \in 1..m : \E j \in 1..3 : Own(Position(g, j)) /\ Group(g)[j] = c
    BY <1>1, <1>7, Zenon
  <2>2. PICK j \in 1..3 : Own(Position(g, j)) /\ Group(g)[j] = c
    BY <2>1, Zenon
  <2>3. ASSUME NEW h \in 1..m, h # g PROVE Gotten(k, f, kk[h], ss[h], c) = <<>>
    <3>1. \A l \in 1..3 : ~(Own(Position(h, l)) /\ Group(h)[l] = c)
      BY <1>1, <2>2, <2>3, Zenon
    <3> QED
      BY <1>5, <3>1, Zenon
  <2>4. Gotten(k, f, keys, slots, c) = Gotten(k, f, kk[g], ss[g], c)
    BY <1>6, <2>3, Zenon DEF ListsJoined
  <2>5. Gotten(k, f, kk[g], ss[g], c) = Pages(f, c)
    BY <1>5, <2>2, Zenon
  <2> QED
    BY <2>4, <2>5, Zenon
<1>8. ASSUME NEW c \in Columns, c \notin cs PROVE Gotten(k, f, keys, slots, c) = <<>>
  <2>1. ASSUME NEW g \in 1..m PROVE Gotten(k, f, kk[g], ss[g], c) = <<>>
    <3>1. \A j \in 1..3 : Group(g)[j] # c
      <4> SUFFICES ASSUME NEW j \in 1..3, Group(g)[j] = c PROVE FALSE
        BY Zenon
      <4>1. Group(g)[j] \in cs
        BY <1>1, Zenon
      <4> QED
        BY <1>8, <4>1, Zenon
    <3> QED
      BY <1>5, <3>1, Zenon
  <2> QED
    BY <1>6, <2>1, Zenon DEF ListsJoined
<1>9. Lists(k, f, keys, slots)
  BY <1>6, Zenon DEF ListsJoined
<1> QED
  BY <1>7, <1>8, <1>9, Zenon DEF GivesPages, kk, ss, cs

\* The output columns.
LEMMA AllOutputs ==
  ASSUME NEW k \in Keys, NEW f \in Files, PagesAre(k, f), valueNo = Zero, AfterKeys(Counts(f)) = Zero,
         enabled \subseteq Columns
  PROVE  GivesPages(k, f, FlattenSeq(OutputKeyLists(Counts(f))), FlattenSeq(OutputSlotLists(Counts(f))),
                enabled \cap output)
<1> DEFINE n == Counts(f)
           kk == OutputKeyLists(n)
           ss == OutputSlotLists(n)
           cs == enabled \cap output
           keys == FlattenSeq(kk)
           slots == FlattenSeq(ss)
           o == Outputs
           m == Len(o)
<1>1. Ordered(cs) /\ o = InOrder(cs)
  <2>1. cs \in SUBSET Columns
    OBVIOUS
  <2> QED
    BY <2>1, InOrderIs, Zenon DEF Outputs
<1>2. /\ o \in Seq(Columns) /\ m \in Nat
      /\ \A a \in 1..m : o[a] \in cs
      /\ \A c \in cs : \E a \in 1..m : o[a] = c
      /\ \A a, b \in 1..m : o[a] = o[b] => a = b
  BY <1>1, Zenon DEF Ordered
<1>3. DOMAIN o = 1..m /\ \A a \in 1..m : o[a] \in Columns
  <2> HIDE DEF o
  <2> QED
    BY <1>2
<1>4. \A i \in 1..m : kk[i] = OutputKeys(n, o[i]) /\ ss[i] = OutputSlots(n, o[i])
  BY <1>3, Zenon DEF OutputKeyLists, OutputSlotLists
<1>5. kk = [i \in 1..m |-> kk[i]] /\ ss = [i \in 1..m |-> ss[i]]
  BY <1>3, Zenon DEF OutputKeyLists, OutputSlotLists
<1> HIDE DEF kk, ss, m, cs, o
<1>6. ASSUME NEW i \in 1..m
      PROVE  /\ Lists(k, f, kk[i], ss[i])
             /\ \A c \in Columns : Gotten(k, f, kk[i], ss[i], c) = IF c = o[i] THEN Pages(f, c) ELSE <<>>
  <2> DEFINE e == o[i]
  <2>1. e \in Columns
    BY <1>3, Zenon
  <2>2. kk[i] = OutputKeys(n, e) /\ ss[i] = OutputSlots(n, e)
    BY <1>4, Zenon
  <2> HIDE DEF e
  <2>3. /\ Lists(k, f, OutputKeys(n, e), OutputSlots(n, e))
        /\ \A c \in Columns : Gotten(k, f, OutputKeys(n, e), OutputSlots(n, e), c) = IF c = e THEN Pages(f, c) ELSE <<>>
    BY <2>1, OutputsAre, Zenon
  <2> QED
    BY <2>2, <2>3, Zenon DEF e
<1>7. ListsJoined(k, f, m, kk, ss)
  BY <1>2, <1>5, <1>6, ListsJoin, Zenon
<1>8. ASSUME NEW c \in Columns, c \in cs PROVE Gotten(k, f, keys, slots, c) = Pages(f, c)
  <2>1. PICK a \in 1..m : o[a] = c
    BY <1>2, <1>8, Zenon
  <2>2. ASSUME NEW i \in 1..m, i # a PROVE Gotten(k, f, kk[i], ss[i], c) = <<>>
    <3>1. o[i] # c
      BY <1>2, <2>1, <2>2, Zenon
    <3> QED
      BY <1>6, <3>1, Zenon
  <2>3. Gotten(k, f, keys, slots, c) = Gotten(k, f, kk[a], ss[a], c)
    BY <1>7, <2>2, Zenon DEF ListsJoined
  <2>4. Gotten(k, f, kk[a], ss[a], c) = Pages(f, c)
    BY <1>6, <2>1, Zenon
  <2> QED
    BY <2>3, <2>4, Zenon
<1>9. ASSUME NEW c \in Columns, c \notin cs PROVE Gotten(k, f, keys, slots, c) = <<>>
  <2>1. ASSUME NEW i \in 1..m PROVE Gotten(k, f, kk[i], ss[i], c) = <<>>
    <3>1. o[i] # c
      BY <1>2, <1>9, Zenon
    <3> QED
      BY <1>6, <3>1, Zenon
  <2> QED
    BY <1>7, <2>1, Zenon DEF ListsJoined
<1>10. Lists(k, f, keys, slots)
  BY <1>7, Zenon DEF ListsJoined
<1> QED
  BY <1>8, <1>9, <1>10, Zenon DEF GivesPages, kk, ss, cs

\* Everything asked for gives every enabled column's pages.
LEMMA AllIsGiven ==
  ASSUME NEW k \in Keys, NEW f \in Files, PagesAre(k, f), valueNo = Zero, AfterKeys(Counts(f)) = Zero,
         GroupsAre, enabled \subseteq Columns, EvenGroups(Counts(f))
  PROVE  GivesPages(k, f, AskedKeys(Counts(f)), Slots(Counts(f)), enabled)
<1> DEFINE n == Counts(f)
           a == FlattenSeq(GroupKeyLists(n))
           s == FlattenSeq(GroupSlotLists(n))
           b == FlattenSeq(OutputKeyLists(n))
           t == FlattenSeq(OutputSlotLists(n))
           C == Columns \cup {0}
           K == 1..Top(f)
           X == Seq(Entry)
           pg == PagesIn(k, f)
<1>1. AskedKeys(n) = a \o b /\ Slots(n) = s \o t
  BY Zenon DEF AskedKeys, Slots, GroupKeyLists, GroupSlotLists, OutputKeyLists, OutputSlotLists
<1>2. GivesPages(k, f, a, s, enabled \ output)
  BY AllGroups, Zenon
<1>3. GivesPages(k, f, b, t, enabled \cap output)
  BY AllOutputs, Zenon
<1> HIDE DEF a, b, s, t, n
<1>4. /\ a \in Seq(K) /\ s \in Seq(C) /\ Len(a) = Len(s)
      /\ \A c \in Columns : Gotten(k, f, a, s, c) = IF c \in enabled \ output THEN Pages(f, c) ELSE <<>>
  BY <1>2, Zenon DEF GivesPages, Lists
<1>5. /\ b \in Seq(K) /\ t \in Seq(C) /\ Len(b) = Len(t)
      /\ \A c \in Columns : Gotten(k, f, b, t, c) = IF c \in enabled \cap output THEN Pages(f, c) ELSE <<>>
  BY <1>3, Zenon DEF GivesPages, Lists
<1>6. pg \in [K -> Seq(X)]
  BY Zenon DEF PagesAre
<1>7. \A c \in Columns : Pages(f, c) \in Seq(X)
  <2> SUFFICES ASSUME NEW c \in Columns PROVE Pages(f, c) \in Seq(X)
    OBVIOUS
  <2>1. CutPages(f, c) \in Seq(Seq(X))
    BY ColumnsCut, Zenon DEF CutIs
  <2> HIDE DEF X
  <2> QED
    BY <2>1, FlattenType, Zenon DEF Pages
<1> HIDE DEF C, K, X, pg
<1>8. Lists(k, f, a \o b, s \o t)
  <2>1. Joined(K, a, b) /\ Joined(C, s, t)
    BY <1>4, <1>5, JoinedAre, Zenon
  <2>2. /\ a \o b \in Seq(K) /\ s \o t \in Seq(C)
        /\ Len(a \o b) = Len(a) + Len(b) /\ Len(s \o t) = Len(s) + Len(t)
    BY <2>1, Zenon DEF Joined
  <2>3. Len(a \o b) = Len(s \o t)
    BY <1>4, <1>5, <2>2, Zenon
  <2> QED
    BY <2>2, <2>3, Zenon DEF Lists, K, C
<1>9. ASSUME NEW c \in Columns
      PROVE  Gotten(k, f, a \o b, s \o t, c) = IF c \in enabled THEN Pages(f, c) ELSE <<>>
  <2> DEFINE p == Gotten(k, f, a, s, c)
             q == Gotten(k, f, b, t, c)
             P == Pages(f, c)
  <2>1. TwoGot(pg, a, s, b, t, c)
    BY <1>4, <1>5, <1>6, TwoAreGot, Zenon
  <2>2. Gotten(k, f, a \o b, s \o t, c) = p \o q
    BY <2>1, Zenon DEF TwoGot, Gotten, pg
  <2>3. /\ p = IF c \in enabled \ output THEN P ELSE <<>>
        /\ q = IF c \in enabled \cap output THEN P ELSE <<>>
    BY <1>4, <1>5, Zenon
  <2>4. P \in Seq(X)
    BY <1>7, Zenon
  <2> HIDE DEF p, q, P
  <2>5. P \o <<>> = P /\ <<>> \o P = P /\ <<>> \o <<>> = <<>>
    BY <2>4
  <2>6. CASE c \in enabled /\ c \notin output
    <3>1. c \in enabled \ output /\ c \notin enabled \cap output
      BY <2>6
    <3> QED
      BY <2>2, <2>3, <2>5, <2>6, <3>1, Zenon DEF P
  <2>7. CASE c \in enabled /\ c \in output
    <3>1. c \notin enabled \ output /\ c \in enabled \cap output
      BY <2>7
    <3> QED
      BY <2>2, <2>3, <2>5, <2>7, <3>1, Zenon DEF P
  <2>8. CASE c \notin enabled
    <3>1. c \notin enabled \ output /\ c \notin enabled \cap output
      BY <2>8
    <3> QED
      BY <2>2, <2>3, <2>5, <2>8, <3>1, Zenon
  <2> QED
    BY <2>6, <2>7, <2>8, Zenon
<1> QED
  BY <1>1, <1>8, <1>9, Zenon DEF GivesPages, n

\* A file's pages, one after the other, are its rows.
LEMMA PagesAreRows ==
  ASSUME NEW f \in Files, NEW c \in Columns
  PROVE  FlattenSeq(Pages(f, c)) = [r \in 1..RowsOf(f, c) |-> <<f, c, r>>]
<1>1. Pages(f, c) = AllPages(f, c)
  BY ColumnsCut, Zenon DEF CutIs, Pages
<1> QED
  BY <1>1, PagesHoldRows, Zenon DEF FileRows

\* What is placed in the columns.
WholeColumns(k, f, n) ==
  \A c \in Columns :
    Column(store[k].values, AskedKeys(n), Slots(n), c)
      = IF c \in enabled THEN [r \in 1..RowsOf(f, c) |-> <<f, c, r>>] ELSE <<>>

\* The call gives the columns whole.
LEMMA ColumnsWhole ==
  ASSUME NEW k \in Keys, NEW f \in Files, PagesAre(k, f), GivesPages(k, f, AskedKeys(Counts(f)), Slots(Counts(f)), enabled)
  PROVE  WholeColumns(k, f, Counts(f))
<1> DEFINE n == Counts(f)
           keys == AskedKeys(n)
           slots == Slots(n)
           values == store[k].values
           pg == PagesIn(k, f)
           K == 1..Top(f)
<1> SUFFICES ASSUME NEW c \in Columns
             PROVE  Column(values, keys, slots, c)
                      = IF c \in enabled THEN [r \in 1..RowsOf(f, c) |-> <<f, c, r>>] ELSE <<>>
  BY Zenon DEF WholeColumns
<1>1. /\ keys \in Seq(K) /\ slots \in Seq(Columns \cup {0}) /\ Len(keys) = Len(slots)
      /\ Gotten(k, f, keys, slots, c) = IF c \in enabled THEN Pages(f, c) ELSE <<>>
  BY Zenon DEF GivesPages, Lists
<1>2. \A x \in K : pg[x] = values[x].pages
  BY Zenon DEF PagesAre
<1> HIDE DEF keys, slots, values, pg, K, n
<1>3. \A a \in DOMAIN slots : keys[a] \in K
  BY <1>1
<1>4. \A a \in DOMAIN slots : pg[keys[a]] = values[keys[a]].pages
  BY <1>2, <1>3, Zenon
<1>5. Column(values, keys, slots, c) = FlattenSeq(Gotten(k, f, keys, slots, c))
  <2>1. [a \in DOMAIN slots |-> IF slots[a] = c THEN values[keys[a]].pages ELSE <<>>] = Picked(pg, keys, slots, c)
    BY <1>4, Zenon DEF Picked
  <2> QED
    BY <2>1, Zenon DEF Column, Gotten, Got, pg
<1>6. FlattenSeq(<<>>) = <<>>
  BY DEF FlattenSeq
<1>7. FlattenSeq(Pages(f, c)) = [r \in 1..RowsOf(f, c) |-> <<f, c, r>>]
  BY PagesAreRows, Zenon
<1>8. CASE c \in enabled
  BY <1>1, <1>5, <1>7, <1>8, Zenon
<1>9. CASE c \notin enabled
  BY <1>1, <1>5, <1>6, <1>9, Zenon
<1> QED
  BY <1>8, <1>9, Zenon

\* PerturbedComplete, of the values it is about.
CompleteFor(relied, how, given, f, E) ==
  relied =>
    /\ how = "running"
    /\ given.kind = "perturbed" =>
         \A c \in Columns :
           given.cols[c] = IF c \in E THEN [r \in 1..RowsOf(f, c) |-> <<f, c, r>>] ELSE <<>>

\* A call that gets all it relies on: it does not panic, and gives the columns whole.
LEMMA PerturbWhole ==
  ASSUME NEW k \in Keys, NEW f \in Files, PagesAre(k, f), GivesPages(k, f, AskedKeys(Counts(f)), Slots(Counts(f)), enabled),
         f \notin Headers, NEW fails \in BOOLEAN, Perturb(k, Counts(f), fails)
  PROVE  mode' = mode /\ CompleteFor(TRUE, "running", last', f, enabled)
<1> DEFINE n == Counts(f)
           keys == AskedKeys(n)
           slots == Slots(n)
           given == [c \in Columns |-> Column(store[k].values, keys, slots, c)]
           K == 1..Top(f)
<1>1. keys \in Seq(K) /\ slots \in Seq(Columns \cup {0}) /\ Len(keys) = Len(slots)
  BY Zenon DEF GivesPages, Lists
<1>2. \A x \in K : ~Misread(store[k].values[x])
  BY Zenon DEF PagesAre
<1>3. \/ last' = Returns("error") /\ UNCHANGED mode
      \/ Len(slots) > Len(keys) \/ \E i \in DOMAIN keys : Misread(store[k].values[keys[i]])
      \/ last' = [Returns("perturbed") EXCEPT !.cols = given] /\ UNCHANGED mode
  BY Zenon DEF Perturb
<1>4. WholeColumns(k, f, n)
  BY ColumnsWhole, Zenon
<1>5. \A c \in Columns : given[c] = IF c \in enabled THEN [r \in 1..RowsOf(f, c) |-> <<f, c, r>>] ELSE <<>>
  BY <1>4, Zenon DEF WholeColumns
<1>6. ~(Len(slots) > Len(keys)) /\ \A i \in DOMAIN keys : keys[i] \in K
  <2> HIDE DEF keys, slots, K
  <2>1. Len(slots) \in Nat
    BY <1>1
  <2>2. ~(Len(slots) > Len(keys))
    <3> DEFINE a == Len(slots)
    <3>1. Len(keys) = a /\ a \in Nat
      BY <1>1, <2>1, Zenon
    <3> HIDE DEF a
    <3>2. ~(a > a)
      BY <3>1
    <3> QED
      BY <3>1, <3>2, Zenon DEF a
  <2>3. \A i \in DOMAIN keys : keys[i] \in K
    BY <1>1
  <2> QED
    BY <2>2, <2>3
<1> HIDE DEF keys, slots, K, given, n
<1>7. \/ last' = Returns("error") /\ UNCHANGED mode
      \/ last' = [Returns("perturbed") EXCEPT !.cols = given] /\ UNCHANGED mode
  BY <1>2, <1>3, <1>6, Zenon
<1>8. CASE last' = Returns("error") /\ UNCHANGED mode
  <2>1. Returns("error").kind = "error" /\ "error" # "perturbed"
    BY DEF Returns
  <2>2. last'.kind # "perturbed"
    BY <1>8, <2>1, Zenon
  <2> QED
    BY <1>8, <2>2, Zenon DEF CompleteFor
<1>9. CASE last' = [Returns("perturbed") EXCEPT !.cols = given] /\ UNCHANGED mode
  <2>1. last'.cols = given
    BY <1>9 DEF Returns
  <2> QED
    BY <1>5, <1>9, <2>1, Zenon DEF CompleteFor
<1> QED
  BY <1>7, <1>8, <1>9

\* So is every call.
LEMMA PerturbComplete ==
  ASSUME Inv, PermInv, NEW k \in Keys, GetPerturbedRows(k)
  PROVE  CompleteFor(reliedOn', mode', last', meta', enabled')
<1> SUFFICES ASSUME reliedOn' PROVE CompleteFor(TRUE, mode', last', meta', enabled')
  BY Zenon DEF CompleteFor
<1>1. mode = "running" /\ enabled' = enabled
  BY Zenon DEF GetPerturbedRows, Call, columns
<1>2. PICK bad \in 0..3 : \E m \in {Prepared(k, bad)} :
       /\ Keeps(m) /\ reliedOn' = Sound(m, k)
       /\ \/ m.outcome = "error"
          \/ m.outcome = "none"
          \/ ~Fits
          \/ Perturb(k, m.counts, bad = 3)
  BY Zenon DEF GetPerturbedRows
<1>3. PICK m : /\ m = Prepared(k, bad) /\ Keeps(m) /\ Sound(m, k)
               /\ m.outcome = "error" \/ m.outcome = "none" \/ ~Fits \/ Perturb(k, m.counts, bad = 3)
  BY <1>2, Zenon
<1> DEFINE f == m.meta
<1>4. /\ m.outcome = "found" /\ valueNo = Zero /\ store[k].file = f /\ f \notin Headers
      /\ permFor = Perturbed
      /\ \A g \in 1..Groups : Cardinality({InColumn(m.counts, c) : c \in Range(Group(g))}) = 1
  BY <1>3, Zenon DEF Sound
<1>5. StoreInv /\ CacheInv /\ ColumnsInv
  BY Zenon DEF Inv
<1>6. f \in Files /\ m.counts = Counts(f)
  <2>1. MetaOK(m)
    BY <1>3, <1>5, PreparedOK, Zenon
  <2>2. m.meta # None /\ m.meta \in Files \cup {None} /\ (m.meta # None => m.counts = Counts(m.meta))
    BY <1>4, <2>1, Zenon DEF MetaOK
  <2> QED
    BY <2>2
<1>7. meta' = f
  BY <1>3, Zenon DEF Keeps
<1> HIDE DEF f
<1>8. PagesAre(k, f)
  <2>1. ArrayOK(store[k])
    BY <1>5, Zenon DEF StoreInv
  <2> QED
    BY <1>4, <1>6, <2>1, PagesThere, Zenon
<1>9. GroupsAre /\ enabled \subseteq Columns
  <2>1. enabled \subseteq Columns
    BY <1>5, Zenon DEF ColumnsInv
  <2> QED
    BY <1>4, <2>1, GroupsAreSo, Zenon
<1>10. Fits
  BY <1>9, Zenon DEF GroupsAre
<1>11. AfterKeys(Counts(f)) = Zero
  <2>1. \A c \in Columns : valueNo[c] = 0
    BY <1>4, Zenon DEF Zero
  <2> QED
    BY <2>1, Zenon DEF AfterKeys, Zero
<1>12. EvenGroups(Counts(f))
  BY <1>4, <1>6, Zenon DEF EvenGroups
<1>13. GivesPages(k, f, AskedKeys(Counts(f)), Slots(Counts(f)), enabled)
  BY <1>4, <1>6, <1>8, <1>9, <1>11, <1>12, AllIsGiven, Zenon
<1>14. Perturb(k, Counts(f), bad = 3)
  <2>1. "found" # "error" /\ "found" # "none"
    OBVIOUS
  <2> QED
    BY <1>3, <1>4, <1>6, <1>10, <2>1, Zenon
<1>15. mode' = mode /\ CompleteFor(TRUE, "running", last', f, enabled)
  <2>1. (bad = 3) \in BOOLEAN
    OBVIOUS
  <2> QED
    BY <1>4, <1>6, <1>8, <1>13, <1>14, <2>1, PerturbWhole, Zenon
<1> QED
  BY <1>1, <1>7, <1>15, Zenon

\* PerturbedComplete: a call that perturbs the rows, with all it relies on, gives
\* every enabled column whole and in order, and the others nothing (processor.go
\* 335-452), however the columns are cut into values and grouped in threes.
THEOREM ColumnsComeWhole == Spec => []PerturbedComplete
<1> DEFINE All == CompleteFor(reliedOn, mode, last, meta, enabled)
<1>1. Init => All
  BY Zenon DEF Init, CompleteFor
<1>2. ASSUME Inv, PermInv, All, [Next]_vars PROVE All'
  <2>1. CASE reliedOn' = FALSE
    BY <2>1, Zenon DEF CompleteFor
  <2>2. ASSUME NEW k \in Keys, GetPerturbedRows(k) PROVE All'
    BY <1>2, <2>2, PerturbComplete, Zenon
  <2>3. CASE UNCHANGED vars
    <3>1. /\ reliedOn' = reliedOn /\ mode' = mode /\ last' = last /\ meta' = meta /\ enabled' = enabled
      BY <2>3, Zenon DEF vars, columns, cache
    <3>2. CompleteFor(reliedOn, mode, last, meta, enabled)
      BY <1>2, Zenon
    <3> QED
      BY <3>1, <3>2, Zenon
  <2>4. \/ reliedOn' = FALSE
        \/ \E k \in Keys : GetPerturbedRows(k)
        \/ UNCHANGED vars
    <3>1. CASE SetColumns
      BY <3>1, Zenon DEF SetColumns
    <3>2. CASE SetParquetSchema
      BY <3>2, Zenon DEF SetParquetSchema
    <3>3. CASE SetRotationMatrix
      BY <3>3, Zenon DEF SetRotationMatrix
    <3>4. ASSUME NEW k \in Keys, StoreFile(k) PROVE reliedOn' = FALSE
      BY <3>4, Zenon DEF StoreFile
    <3>5. ASSUME NEW k \in Keys, GetMetaData(k) PROVE reliedOn' = FALSE
      BY <3>5, Zenon DEF GetMetaData
    <3>6. ASSUME NEW k \in Keys, NoBatch(k) PROVE reliedOn' = FALSE
      BY <3>6, Zenon DEF NoBatch
    <3>7. ASSUME NEW k \in Keys, GetRowBatch(k) PROVE reliedOn' = FALSE
      BY <3>7, Zenon DEF GetRowBatch
    <3> QED
      BY <1>2, <3>1, <3>2, <3>3, <3>4, <3>5, <3>6, <3>7, Zenon DEF Next
  <2> QED
    BY <2>1, <2>2, <2>3, <2>4, Zenon
<1>3. All => PerturbedComplete
  BY Zenon DEF CompleteFor, PerturbedComplete
<1> HIDE DEF All
<1> QED
  BY <1>1, <1>2, <1>3, StoreIsInv, PermIsInv, PTL DEF Spec
=============================================================================

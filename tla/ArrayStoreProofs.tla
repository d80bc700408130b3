--------------------------- MODULE ArrayStoreProofs ---------------------------
(***************************************************************************)
(* Theorems about ArrayStore, for every number of users, of workers and of   *)
(* elements, with values of any number of pages: what ArraySetN has stored   *)
(* when it returns nil, what the calls of the users read of it, what is left *)
(* of an array after ArrayDelete, and that ArraySetN does not come to a stop. *)
(***************************************************************************)
EXTENDS ArrayStore, FiniteSetTheorems, WellFoundedInduction, TLAPS

-----------------------------------------------------------------------------
(* The inductive invariants. *)

Stored == Values \cup {None}
RequestType ==
  [op : {"get", "getcond", "set", "delete", "flush"}, elem : 0..Elsewhere, page : PageNumbers,
   value : Stored]
CallType == [op : AllOps, idx : Positions, clean : BOOLEAN, settled : BOOLEAN, writes : Nat]

\* The types of what is under way and stored, of the calls, and of ArraySetN.
NetType ==
  /\ store \in [0..N -> [PageNumbers -> Stored]]
  /\ conn \in [Procs -> {"none", "open", "stuck"}]
  /\ todo \in [Procs -> Seq(RequestType)]
  /\ bulk \in [Procs -> BOOLEAN] /\ failed \in [Procs -> BOOLEAN]
  /\ got \in [Procs -> Seq(Stored)]

UserType ==
  /\ pc \in [Users -> {"idle", "dir", "elem", "last", "batch", "look", "erase"}]
  /\ call \in [Users -> CallType]
  /\ dir \in [Users -> Seq(0..Elsewhere)]
  /\ out = [u \in Users |-> out[u]]
  /\ k \in [Users -> 1..N + 2]
  /\ suc \in [Users -> BOOLEAN]
  /\ result \in [Users -> {"none", "nil", "error", "value", "true", "false"}]
  /\ failures \in Nat /\ refusals \in Nat /\ writes \in Nat

SetType ==
  /\ spc \in {"idle", "queue", "add", "wait", "returned", "panicked"} /\ nextJob \in 1..N + 2
  /\ jobs \in Seq(0..N) /\ sres \in {"none", "nil", "error"}
  /\ wpc \in [Workers -> {"new", "reportConnect", "loop", "setting", "report", "done", "gone"}]
  /\ errs \in 0..N + 1 /\ wg \in Nat

\* Where a call is: what it has asked for and what its loop has left.
Count(u) == Len(got[u]) + Len(todo[u])
CallShape(u) ==
  /\ pc[u] = "idle" => todo[u] = <<>>
  /\ failed[u] => todo[u] = <<>>
  /\ pc[u] = "dir" => call[u].op \in DirFirst /\ k[u] = 1
  /\ pc[u] = "dir" /\ call[u].idx # 1 => call[u].op \notin Batched \cup {"ArrayGet", "ArrayDelete"}
  /\ pc[u] = "elem" => call[u].op = "ArrayGet" /\ Len(dir[u]) = N /\ k[u] \in 1..N
  /\ pc[u] = "batch" =>
       /\ call[u].op \in Batched /\ Len(dir[u]) = N /\ k[u] \in 1..N
       /\ ~failed[u] => Count(u) = Len(Batch(u, dir[u], k[u]))
  /\ pc[u] = "last" => call[u].op \notin {"ArrayGet", "ArrayDelete"} \cup Batched
  /\ pc[u] \in {"look", "erase"} =>
       \/ call[u].op = "ArraySetElem" /\ call[u].idx \in 1..N /\ k[u] = 1
       \/ call[u].op = "ArrayDelete" /\ Len(dir[u]) \in {1, N + 1} /\ k[u] \in 1..Len(dir[u])
  /\ pc[u] \in {"dir", "elem", "look"} /\ ~failed[u] => Count(u) = 1
  /\ pc[u] = "last" /\ call[u].op = "ArrayGetElem" /\ ~failed[u] => Count(u) = 1
  /\ pc[u] # "idle" /\ call[u].op \notin Destructive =>
       \A i \in 1..Len(todo[u]) : todo[u][i].op \in {"get", "getcond"}

ShapeInv == \A u \in Users : CallShape(u)

\* wg counts the jobs in the channel and in the hands of the workers, but for the one
\* that was sent and is not yet added.
Busy == {w \in Workers : wpc[w] \in {"setting", "report", "done"}}
Sent == IF spc = "add" THEN 1 ELSE 0
JobInv ==
  /\ wg <= nextJob - 1 /\ Len(jobs) <= N + 1
  /\ spc \in {"idle", "queue", "add"} => nextJob \in 1..N + 1
  /\ spc = "idle" => nextJob = 1 /\ errs = 0
  /\ spc \in {"wait", "returned"} => nextJob = N + 2
  /\ spc \in {"idle", "panicked"} => \A w \in Workers : wpc[w] = "gone"
  /\ spc = "returned" => wg = 0
  /\ sres # "none" => spc \in {"returned", "panicked"}
  /\ IsFiniteSet(Busy)
  /\ spc # "panicked" => wg + Sent = Len(jobs) + Cardinality(Busy)

\* Workers set elements as they are; while nobody writes, users only read.
Owes(w) ==
  /\ \A i \in 1..Len(todo[w]) :
       todo[w][i].op = "set" /\ todo[w][i].elem \in 0..N /\ todo[w][i].value = Element(todo[w][i].elem)
  /\ todo[w] # <<>> => wpc[w] = "setting"
WritesOnly == \A w \in Workers : Owes(w)
NobodyWrites == writes = 0 => \A u \in Users : pc[u] = "idle" \/ call[u].op \notin Destructive

\* The job of an element, one more than the number of those before it.
JobOf(e) == IF e = Directory THEN N + 1 ELSE e
Coming(e, pg) ==
  \E w \in Workers : \E i \in 1..Len(todo[w]) : todo[w][i].elem = e /\ todo[w][i].page = pg
\* An error is in the channel or will be.
Unhappy ==
  errs > 0 \/ \E w \in Workers : wpc[w] = "report" \/ (wpc[w] = "setting" /\ failed[w])
PagesStored ==
  \A e \in 0..N : \A pg \in 0..PagesOf(Element(e)) - 1 :
    \/ store[e][pg] = Element(e)
    \/ JobOf(e) > nextJob - 1 + Sent
    \/ \E i \in 1..Len(jobs) : jobs[i] = e
    \/ Coming(e, pg)
StoreInv ==
  /\ WritesOnly /\ NobodyWrites
  /\ spc \in {"idle", "queue", "add", "wait"} /\ writes = 0 /\ refusals = 0 => Unhappy \/ PagesStored
  /\ NilMeansStored

\* What the j-th request of a call that only reads has asked for.
AskedFor(u, j) ==
  CASE pc[u] = "dir" -> Directory
    [] pc[u] = "elem" -> k[u]
    [] pc[u] = "batch" -> k[u] + j - 1
    [] OTHER -> call[u].idx
Reading(u) == pc[u] \in {"dir", "elem", "batch"} \/ (pc[u] = "last" /\ call[u].op = "ArrayGetElem")
InOrder(u) == Len(dir[u]) = N /\ \A i \in 1..N : dir[u][i] = i
ReadSoFar(u) == \A i \in 1..k[u] - 1 : out[u][i] = Element(i)
ReadsRight(u) ==
  /\ Reading(u) /\ ~failed[u] =>
       /\ \A j \in 1..Len(got[u]) : got[u][j] = Element(AskedFor(u, j))
       /\ \A j \in 1..Len(todo[u]) :
            todo[u][j] = Request("get", AskedFor(u, Len(got[u]) + j), 0, None)
  /\ pc[u] = "dir" => out[u] = <<>>
  /\ pc[u] = "elem" => InOrder(u) /\ out[u] \in Seq(Stored) /\ Len(out[u]) = k[u] - 1 /\ ReadSoFar(u)
  /\ pc[u] = "batch" => InOrder(u) /\ out[u] \in [1..N -> Stored] /\ ReadSoFar(u)
  /\ pc[u] = "batch" => \E m \in Nat : k[u] = m * SizeOf(u) + 1
  /\ pc[u] = "last" /\ call[u].op = "ArrayGetElem" => call[u].idx \in 1..N
EndsRight(u) ==
  /\ call[u].op \in {"ArrayGet"} \cup Batched /\ result[u] # "error" =>
       result[u] = "value" /\ out[u] = [i \in 1..N |-> Element(i)]
  /\ call[u].op = "ArrayGetElem" /\ result[u] # "error" => out[u] = <<Element(call[u].idx)>>
  /\ result[u] = "error" =>
       \/ failures > 0 \/ call[u].idx > N
       \/ call[u].op \in Batched /\ SizeOf(u) % GroupSize # 0
Clean(u) == call[u].clean /\ writes = 0 /\ refusals = 0
RightCall(u) == Clean(u) => ReadsRight(u) /\ (pc[u] = "idle" => EndsRight(u))
ReadInv ==
  /\ \A u \in Users : call[u].clean => sres = "nil"
  /\ \A u \in Users : failed[u] => failures > 0
  /\ \A u \in Users : RightCall(u)

\* A call of ArrayDelete that has had the array for itself.
Alone(u) == call[u].op = "ArrayDelete" /\ call[u].settled /\ call[u].writes = writes
GoneBefore(u) ==
  /\ \A i \in 1..k[u] - 1 : dir[u][i] \in 0..N /\ store[dir[u][i]][0] = None
  /\ \A i, j \in 1..k[u] - 1 : dir[u][i] = dir[u][j] => i = j
DirOf(u) ==
  \/ dir[u] = <<Directory>> /\ store[Directory][0] = None
  \/ Len(dir[u]) = N + 1 /\ dir[u][N + 1] = Directory /\ \A i \in 1..N : dir[u][i] = i
  \/ Len(dir[u]) = N + 1 /\ dir[u][N + 1] = Directory /\ dir[u][1] = Directory
     /\ \A i \in 2..N : dir[u][i] = Elsewhere
KeyValue(u) == Lookup(Key(u), 0)
DeletesRight(u) ==
  /\ pc[u] = "dir" /\ ~failed[u] =>
       /\ \A j \in 1..Len(got[u]) : got[u][j] = store[Directory][0]
       /\ \A j \in 1..Len(todo[u]) : todo[u][j] = Request("get", Directory, 0, None)
  /\ pc[u] = "dir" => suc[u]
  /\ pc[u] = "look" /\ ~failed[u] =>
       /\ \A j \in 1..Len(got[u]) : got[u][j] = KeyValue(u)
       /\ \A j \in 1..Len(todo[u]) : todo[u][j] = Request("get", Key(u), 0, None)
  /\ pc[u] \in {"look", "erase"} => DirOf(u) /\ (suc[u] => GoneBefore(u))
  /\ pc[u] = "erase" =>
       /\ Key(u) \in 0..N
       /\ \A i \in 1..Len(todo[u]) : todo[u][i].op = "delete"
       /\ suc[u] => \A i \in 1..k[u] - 1 : dir[u][i] # Key(u)
       /\ Len(dir[u]) = N + 1
       /\ ~failed[u] =>
            \/ store[Key(u)][0] = None
            \/ \E i \in 1..Len(todo[u]) : todo[u][i].elem = Key(u) /\ todo[u][i].page = 0
OthersRead(u) == \A v \in Users \ {u} : pc[v] = "idle" \/ call[v].op \notin Destructive
AllDeleted(u) == pc[u] = "idle" /\ result[u] = "true" => \A e \in 0..N : store[e][0] = None
AloneCall(u) ==
  Alone(u) => spc = "returned" /\ OthersRead(u) /\ DeletesRight(u) /\ AllDeleted(u)
DeleteInv ==
  /\ \A u \in Users : call[u].writes <= writes
  /\ \A u \in Users : AloneCall(u)

Typed == NetType /\ UserType /\ SetType

-----------------------------------------------------------------------------
(* Values and requests. *)

\* What the assumptions on the constants say of each.
LEMMA Sizes ==
  /\ N \in Nat /\ N >= 1 /\ LastPage \in Nat /\ BatchSize \in Nat /\ BatchSize >= 1
  /\ Pages \in [1..N -> 1..LastPage + 1] /\ Lead \in [1..N -> 0..LastPage]
  /\ MaxPages \in Nat /\ Users \cap Workers = {}
BY SizeAssumption, ProcAssumption

\* A sequence given by its elements.
LEMMA SequenceOf ==
  ASSUME NEW n \in Nat, NEW S, NEW s \in [1..n -> S]
  PROVE  s \in Seq(S) /\ Len(s) = n
OBVIOUS

\* The values that are ever written.
LEMMA ValueTypes ==
  /\ \A i \in 0..N : Element(i) \in Values /\ Replacement(i) \in Values /\ Counted(i) \in Values
  /\ \A i \in 0..N : JobValue(i) = Element(i)
<1>1. \A i \in 0..N : Element(i) \in Values /\ Replacement(i) \in Values /\ Counted(i) \in Values
  <2> 0 \in 0..1 /\ 1 \in 0..1
    OBVIOUS
  <2> QED
    BY DEF Element, Replacement, Counted, Values
<1>2. \A i \in 0..N : JobValue(i) = Element(i)
  BY DEF JobValue
<1> QED
  BY <1>1, <1>2

\* How many pages a value has, and how many Delete takes it to have.
LEMMA PageCounts ==
  ASSUME NEW v \in Stored
  PROVE  PagesOf(v) \in 1..LastPage + 1 /\ LeadOf(v) \in PageNumbers
<1>1. v \in [elem : 0..N + 2, gen : 0..1, counted : BOOLEAN]
  <2>1. 0..N \subseteq 0..N + 2 /\ N + 2 \in 0..N + 2 /\ 0 \in 0..1
    BY Sizes
  <2>2. CASE v \in Values
    BY <2>1, <2>2 DEF Values
  <2>3. CASE v = None
    BY <2>1, <2>3 DEF None
  <2> QED
    BY <2>2, <2>3 DEF Stored
<1>2. v.elem \in 1..N => Pages[v.elem] \in 1..LastPage + 1 /\ Lead[v.elem] \in 0..LastPage
  BY Sizes
<1>3. PagesOf(v) \in 1..LastPage + 1
  BY <1>1, <1>2, Sizes DEF PagesOf
<1>4. CASE v.counted
  <2>1. LeadOf(v) = PagesOf(v) - 1
    BY <1>4 DEF LeadOf
  <2> QED
    BY <1>3, <2>1, Sizes DEF PageNumbers
<1>5. CASE ~v.counted /\ v.elem \in 1..N
  <2>1. LeadOf(v) = Lead[v.elem]
    BY <1>5 DEF LeadOf
  <2> QED
    BY <1>2, <1>3, <1>5, <2>1 DEF PageNumbers
<1>6. CASE ~v.counted /\ v.elem \notin 1..N
  <2>1. LeadOf(v) = 0
    BY <1>6 DEF LeadOf
  <2> QED
    BY <1>3, <2>1, Sizes DEF PageNumbers
<1> QED
  BY <1>1, <1>4, <1>5, <1>6

\* A request for a key and a page is one.
LEMMA RequestTypes ==
  ASSUME NEW op \in {"get", "getcond", "set", "delete", "flush"}, NEW e \in 0..Elsewhere,
         NEW pg \in PageNumbers, NEW v \in Stored
  PROVE  /\ Request(op, e, pg, v) \in RequestType
         /\ Request(op, e, pg, v).op = op /\ Request(op, e, pg, v).elem = e
         /\ Request(op, e, pg, v).page = pg /\ Request(op, e, pg, v).value = v
BY DEF Request, RequestType

\* What set sends.
LEMMA SetRequestsAre ==
  ASSUME NEW v \in Values
  PROVE  /\ SetRequests(v) \in Seq(RequestType) /\ SetRequests(v) # <<>>
         /\ Len(SetRequests(v)) = PagesOf(v)
         /\ \A j \in 1..PagesOf(v) :
              /\ SetRequests(v)[j].op = "set" /\ SetRequests(v)[j].elem = v.elem
              /\ SetRequests(v)[j].page = j - 1 /\ SetRequests(v)[j].value = v
<1>1. v \in Stored /\ v.elem \in 0..N /\ 0..N \subseteq 0..Elsewhere
  BY Sizes DEF Stored, Values, Elsewhere
<1>2. PagesOf(v) \in 1..LastPage + 1 /\ PagesOf(v) \in Nat /\ PagesOf(v) # 0
  BY <1>1, PageCounts, Sizes
<1>3. \A j \in 1..PagesOf(v) : j - 1 \in PageNumbers
  BY <1>2, Sizes DEF PageNumbers
<1>4. \A j \in 1..PagesOf(v) :
        LET r == Request("set", v.elem, j - 1, v) IN
        r \in RequestType /\ r.op = "set" /\ r.elem = v.elem /\ r.page = j - 1 /\ r.value = v
  BY <1>1, <1>3, RequestTypes
<1> QED
  BY <1>2, <1>4 DEF SetRequests

\* What Delete sends for key e when it has read v there.
LEMMA DeleteRequestsAre ==
  ASSUME NEW v \in Stored, NEW e \in 0..Elsewhere
  PROVE  /\ DeleteRequests(e, v) \in Seq(RequestType) /\ DeleteRequests(e, v) # <<>>
         /\ Len(DeleteRequests(e, v)) >= 1
         /\ \A j \in 1..Len(DeleteRequests(e, v)) : DeleteRequests(e, v)[j].op = "delete"
         /\ DeleteRequests(e, v)[1].elem = e /\ DeleteRequests(e, v)[1].page = 0
<1>1. LeadOf(v) \in PageNumbers
  BY PageCounts
<1>2. LeadOf(v) + 1 \in Nat /\ LeadOf(v) + 1 >= 1
  BY <1>1, Sizes DEF PageNumbers
<1>3. \A j \in 1..LeadOf(v) + 1 : j - 1 \in PageNumbers
  BY <1>1, Sizes DEF PageNumbers
<1>4. \A j \in 1..LeadOf(v) + 1 :
        LET r == Request("delete", e, j - 1, v) IN
        r \in RequestType /\ r.op = "delete" /\ r.elem = e /\ r.page = j - 1
  BY <1>3, RequestTypes
<1> QED
  BY <1>2, <1>4 DEF DeleteRequests

\* A set of numbers that is not empty has a first one.
LEMMA FirstNumber ==
  ASSUME NEW S \in SUBSET Nat, S # {}
  PROVE  \E i \in S : \A j \in S : i <= j
<1>1. PICK i \in S : \A j \in S : <<j, i>> \notin OpToRel(<, Nat)
  BY NatLessThanWellFounded, WFMin, Zenon
<1>2. \A j \in S : ~(j < i)
  BY <1>1 DEF OpToRel
<1>3. \A j \in S : j \in Nat /\ i \in Nat
  OBVIOUS
<1> QED
  BY <1>2, <1>3

\* f is what the definition of FlattenSeq computes from the first n sequences of s.
Flattens(f, s, n) == f = [i \in 1..n |-> IF i = 1 THEN s[i] ELSE f[i - 1] \o s[i]]

\* There is such a function for every n.
LEMMA FlatFunction ==
  ASSUME NEW S, NEW s \in Seq(Seq(S)), NEW n \in 0..Len(s)
  PROVE  \E f \in [1..n -> Seq(S)] : Flattens(f, s, n)
<1> DEFINE Has(m) == \E f \in [1..m -> Seq(S)] : Flattens(f, s, m)
           bad == {m \in 0..Len(s) : ~Has(m)}
<1>1. SUFFICES ASSUME bad # {} PROVE FALSE
  OBVIOUS
<1>2. PICK m \in bad : \A j \in bad : m <= j
  <2>1. bad \in SUBSET Nat
    OBVIOUS
  <2> QED
    BY <1>1, <2>1, FirstNumber, Zenon
<1>3. m \in 0..Len(s) /\ Len(s) \in Nat
  OBVIOUS
<1>4. CASE m = 0
  <2> DEFINE f == [i \in 1..0 |-> <<>>]
  <2>1. 1..0 = {}
    OBVIOUS
  <2>2. f \in [1..0 -> Seq(S)] /\ Flattens(f, s, 0)
    BY <2>1 DEF Flattens
  <2> QED
    BY <1>2, <1>4, <2>2
<1>5. CASE m # 0
  <2>1. m - 1 \in 0..Len(s) /\ ~(m <= m - 1)
    BY <1>3, <1>5
  <2>2. Has(m - 1)
    BY <1>2, <2>1
  <2>3. PICK f \in [1..(m - 1) -> Seq(S)] : Flattens(f, s, m - 1)
    BY <2>2
  <2> DEFINE new == IF m = 1 THEN s[m] ELSE f[m - 1] \o s[m]
             g == [i \in 1..m |-> IF i < m THEN f[i] ELSE new]
  <2>4. \A i \in 1..m : s[i] \in Seq(S)
    BY <1>3
  <2>5. \A i \in 1..m : i < m => i \in 1..(m - 1) /\ f[i] \in Seq(S)
    BY <1>3
  <2>6. m # 1 => m - 1 \in 1..(m - 1)
    BY <1>3, <1>5
  <2>7. m # 1 => f[m - 1] \in Seq(S)
    BY <2>3, <2>6
  <2>8. m \in 1..m
    BY <1>3, <1>5
  <2>9. new \in Seq(S)
    BY <2>4, <2>7, <2>8
  <2> HIDE DEF new
  <2>10. g \in [1..m -> Seq(S)]
    BY <2>5, <2>9
  <2>11. \A i \in 1..m : g[i] = IF i = 1 THEN s[i] ELSE g[i - 1] \o s[i]
    <3> SUFFICES ASSUME NEW i \in 1..m PROVE g[i] = IF i = 1 THEN s[i] ELSE g[i - 1] \o s[i]
      OBVIOUS
    <3>1. i # 1 => i - 1 \in 1..m /\ i - 1 < m
      BY <1>3
    <3>2. i # 1 => g[i - 1] = f[i - 1]
      BY <3>1
    <3>3. CASE i < m
      <4>1. f[i] = IF i = 1 THEN s[i] ELSE f[i - 1] \o s[i]
        BY <2>3, <2>5, <3>3, Zenon DEF Flattens
      <4>2. g[i] = f[i]
        BY <3>3
      <4> QED
        BY <3>2, <4>1, <4>2, Zenon
    <3>4. CASE i = m
      <4>1. g[i] = new
        BY <1>3, <3>4
      <4> QED
        BY <3>2, <3>4, <4>1, Zenon DEF new
    <3> QED
      BY <1>3, <3>3, <3>4
  <2>12. Flattens(g, s, m)
    <3> HIDE DEF g
    <3>1. g = [i \in 1..m |-> g[i]]
      BY <2>10
    <3> QED
      BY <2>11, <3>1, Zenon DEF Flattens
  <2> QED
    BY <1>2, <2>10, <2>12
<1> QED
  BY <1>4, <1>5

\* FlattenSeq keeps the type of the elements.
LEMMA FlattenType ==
  ASSUME NEW S, NEW s \in Seq(Seq(S)), s # <<>>
  PROVE  FlattenSeq(s) \in Seq(S)
<1> DEFINE f == CHOOSE f : f = [i \in 1..Len(s) |-> IF i = 1 THEN s[i] ELSE f[i - 1] \o s[i]]
<1>1. Len(s) \in 0..Len(s) /\ Len(s) # 0 /\ Len(s) \in Nat /\ Len(s) \in 1..Len(s)
  OBVIOUS
<1>2. PICK h \in [1..Len(s) -> Seq(S)] : Flattens(h, s, Len(s))
  BY <1>1, FlatFunction
<1>3. h = [i \in 1..Len(s) |-> IF i = 1 THEN s[i] ELSE h[i - 1] \o s[i]]
  BY <1>2 DEF Flattens
<1>4. f = [i \in 1..Len(s) |-> IF i = 1 THEN s[i] ELSE f[i - 1] \o s[i]]
  BY <1>3, Zenon
<1>5. FlattenSeq(s) = f[Len(s)]
  BY <1>1, Zenon DEF FlattenSeq
<1> HIDE DEF f
<1> DEFINE bad == {i \in 1..Len(s) : f[i] \notin Seq(S)}
<1>6. CASE bad = {}
  BY <1>1, <1>5, <1>6
<1>7. CASE bad # {}
  <2>1. PICK i \in bad : \A j \in bad : i <= j
    <3>1. bad \in SUBSET Nat
      OBVIOUS
    <3> QED
      BY <1>7, <3>1, FirstNumber, Zenon
  <2>2. i \in 1..Len(s) /\ s[i] \in Seq(S)
    OBVIOUS
  <2>3. i # 1 => i - 1 \in 1..Len(s) /\ ~(i <= i - 1)
    BY <2>2
  <2>4. i # 1 => f[i - 1] \in Seq(S)
    BY <2>1, <2>3
  <2>5. f[i] = IF i = 1 THEN s[i] ELSE f[i - 1] \o s[i]
    BY <1>4, <2>2, Zenon
  <2>6. f[i] \in Seq(S)
    BY <2>2, <2>4, <2>5
  <2> QED
    BY <2>6
<1> QED
  BY <1>6, <1>7

\* What BatchSet sends.
LEMMA BatchRequestsType == BatchRequests \in Seq(RequestType)
<1> DEFINE s == [i \in 1..N + 1 |-> SetRequests(ArraySetValues[i])]
<1>1. \A i \in 1..N + 1 : ArraySetValues[i] \in Values
  <2> SUFFICES ASSUME NEW i \in 1..N + 1 PROVE ArraySetValues[i] \in Values
    OBVIOUS
  <2>1. (IF i <= N THEN i ELSE Directory) \in 0..N
    BY Sizes DEF Directory
  <2> QED
    BY <2>1, ValueTypes DEF ArraySetValues
<1>2. \A i \in 1..N + 1 : SetRequests(ArraySetValues[i]) \in Seq(RequestType)
  BY <1>1, SetRequestsAre
<1>3. s \in Seq(Seq(RequestType)) /\ s # <<>>
  <2>1. s \in [1..N + 1 -> Seq(RequestType)] /\ N + 1 \in Nat /\ N + 1 # 0
    BY <1>2, Sizes
  <2> HIDE DEF s
  <2>2. s \in Seq(Seq(RequestType)) /\ Len(s) = N + 1
    BY <2>1, SequenceOf
  <2> QED
    BY <2>1, <2>2
<1> HIDE DEF s
<1>4. FlattenSeq(s) \in Seq(RequestType)
  BY <1>3, FlattenType
<1> QED
  BY <1>4 DEF BatchRequests, s

\* The indexes in a directory, and what ArrayDelete deletes.
LEMMA EntriesAre ==
  ASSUME NEW v \in Stored
  PROVE  /\ Entries(v) \in Seq(0..Elsewhere) /\ Len(Entries(v)) \in {0, N}
         /\ (Entries(v) = <<>>) <=> (v = None)
         /\ Entries(v) # <<>> <=> Len(Entries(v)) = N
         /\ v # None /\ ~v.counted => \A i \in 1..N : Entries(v)[i] = i
         /\ v # None /\ v.counted =>
              Entries(v)[1] = Directory /\ \A i \in 2..N : Entries(v)[i] = Elsewhere
<1>1. CASE v = None
  BY <1>1, Sizes DEF Entries
<1>2. CASE v # None
  <2>1. \A i \in 1..N : i \in 0..Elsewhere /\ Directory \in 0..Elsewhere /\ Elsewhere \in 0..Elsewhere
    BY Sizes DEF Directory, Elsewhere
  <2> DEFINE s == [i \in 1..N |-> IF ~v.counted THEN i ELSE IF i = 1 THEN Directory ELSE Elsewhere]
  <2>2. Entries(v) = s
    BY <1>2 DEF Entries
  <2>3. s \in Seq(0..Elsewhere) /\ Len(s) = N /\ s # <<>>
    <3>1. s \in [1..N -> 0..Elsewhere]
      BY <2>1
    <3> HIDE DEF s
    <3>2. s \in Seq(0..Elsewhere) /\ Len(s) = N
      BY <3>1, Sizes, SequenceOf
    <3> QED
      BY <3>2, Sizes
  <2>4. ~v.counted => \A i \in 1..N : s[i] = i
    OBVIOUS
  <2>5. v.counted => s[1] = Directory /\ \A i \in 2..N : s[i] = Elsewhere
    BY Sizes
  <2> QED
    BY <1>2, <2>2, <2>3, <2>4, <2>5, Sizes
<1> QED
  BY <1>1, <1>2

-----------------------------------------------------------------------------
(* The steps of the users: types, and where the calls are. *)

NetSame(p) == todo'[p] = todo[p] /\ got'[p] = got[p] /\ failed'[p] = failed[p]
CallSame(u) ==
  /\ pc'[u] = pc[u] /\ call'[u] = call[u] /\ dir'[u] = dir[u] /\ out'[u] = out[u]
  /\ k'[u] = k[u] /\ suc'[u] = suc[u] /\ result'[u] = result[u]

\* A step of user u's call that leaves everything else alone.
UserStep(u) ==
  /\ NetType' /\ UserType'
  /\ store' = store
  /\ \A p \in Procs \ {u} : NetSame(p)
  /\ \A v \in Users \ {u} : CallSame(v)
  /\ UNCHANGED <<setter, pool, failures, refusals>>

\* A process is a user or a worker, never both.
LEMMA ProcTypes ==
  /\ \A u \in Users : u \in Procs /\ u \notin Workers
  /\ \A w \in Workers : w \in Procs /\ w \notin Users
BY ProcAssumption DEF Procs

\* Requests are written.
LEMMA SentNet ==
  ASSUME NetType, NEW p \in Procs, NEW rs \in Seq(RequestType), Send(p, rs) \/ SendBulk(p, rs)
  PROVE  /\ NetType' /\ store' = store /\ conn' = conn
         /\ todo'[p] = rs /\ got'[p] = <<>> /\ failed'[p] = FALSE
         /\ \A q \in Procs \ {p} : NetSame(q)
<1>1. /\ todo' = [todo EXCEPT ![p] = rs] /\ got' = [got EXCEPT ![p] = <<>>]
      /\ failed' = [failed EXCEPT ![p] = FALSE] /\ store' = store /\ conn' = conn
      /\ \E b \in BOOLEAN : bulk' = [bulk EXCEPT ![p] = b]
  BY DEF Send, SendBulk
<1>2. <<>> \in Seq(Stored)
  OBVIOUS
<1>3. NetType'
  BY <1>1, <1>2 DEF NetType
<1> QED
  BY <1>1, <1>3 DEF NetType, NetSame

\* Nothing is written.
LEMMA SilentNet ==
  ASSUME NetType, UNCHANGED net
  PROVE  /\ NetType' /\ store' = store /\ conn' = conn
         /\ \A q \in Procs : NetSame(q)
BY DEF net, NetType, NetSame

\* A call ends, or goes on with requests rs.
Ended(u, kind) ==
  /\ UserStep(u) /\ writes' = writes
  /\ pc'[u] = "idle" /\ result'[u] = kind /\ todo'[u] = <<>> /\ failed'[u] = failed[u]
  /\ call'[u] = call[u]
Asked(u, label, rs) ==
  /\ UserStep(u)
  /\ pc'[u] = label /\ todo'[u] = rs /\ got'[u] = <<>> /\ failed'[u] = FALSE

\* A call that has ended asks for nothing.
LEMMA EndedShape ==
  ASSUME NEW u \in Users, NEW kind, Ended(u, kind)
  PROVE  CallShape(u)'
BY DEF Ended, CallShape, Destructive

\* The call ends with what it has.
LEMMA FinishStep ==
  ASSUME NetType, UserType, NEW u \in Users, todo[u] = <<>>,
         NEW kind \in {"nil", "error", "value", "true", "false"}, Finish(u, kind),
         UNCHANGED net, UNCHANGED <<call, dir>>, UNCHANGED <<setter, pool, bounds>>,
         out' = [out EXCEPT ![u] = out'[u]],
         k' = [k EXCEPT ![u] = k'[u]], k'[u] \in 1..N + 2,
         suc' = [suc EXCEPT ![u] = suc'[u]], suc'[u] \in BOOLEAN
  PROVE  Ended(u, kind)
<1>1. UserType'
  BY DEF UserType, Finish, bounds
<1>2. \A v \in Users \ {u} : CallSame(v)
  BY DEF UserType, Finish, CallSame
<1>3. NetType' /\ store' = store /\ \A p \in Procs : NetSame(p)
  BY SilentNet
<1>4. todo'[u] = <<>> /\ failed'[u] = failed[u]
  BY <1>3, ProcTypes DEF NetSame
<1>5. pc'[u] = "idle" /\ result'[u] = kind /\ call'[u] = call[u] /\ writes' = writes
  BY DEF Finish, UserType, bounds
<1> QED
  BY <1>1, <1>2, <1>3, <1>4, <1>5 DEF Ended, UserStep, bounds

\* Done ends the call and leaves what it has read and where it is.
LEMMA DoneStep ==
  ASSUME NetType, UserType, NEW u \in Users, todo[u] = <<>>,
         NEW kind \in {"nil", "error", "value", "true", "false"}, Done(u, kind),
         UNCHANGED <<setter, pool, bounds>>
  PROVE  Ended(u, kind) /\ out'[u] = out[u] /\ k'[u] = k[u] /\ suc'[u] = suc[u] /\ dir'[u] = dir[u]
<1>1. out' = out /\ k' = k /\ suc' = suc /\ dir' = dir /\ UNCHANGED net /\ UNCHANGED <<call, dir>> /\ Finish(u, kind)
  BY DEF Done
<1>2. /\ out' = [out EXCEPT ![u] = out'[u]] /\ k' = [k EXCEPT ![u] = k'[u]] /\ k'[u] \in 1..N + 2
      /\ suc' = [suc EXCEPT ![u] = suc'[u]] /\ suc'[u] \in BOOLEAN
  BY <1>1 DEF UserType
<1> QED
  BY <1>1, <1>2, FinishStep

\* The call goes on with requests.
LEMMA AskStep ==
  ASSUME NetType, UserType, NEW u \in Users, NEW rs \in Seq(RequestType),
         Send(u, rs) \/ SendBulk(u, rs),
         NEW label \in {"dir", "elem", "last", "batch", "look", "erase"}, Goto(u, label),
         UNCHANGED call, UNCHANGED <<setter, pool, bounds>>,
         dir' = [dir EXCEPT ![u] = dir'[u]], dir'[u] \in Seq(0..Elsewhere),
         out' = [out EXCEPT ![u] = out'[u]],
         k' = [k EXCEPT ![u] = k'[u]], k'[u] \in 1..N + 2,
         suc' = [suc EXCEPT ![u] = suc'[u]], suc'[u] \in BOOLEAN
  PROVE  Asked(u, label, rs) /\ writes' = writes /\ call'[u] = call[u]
<1>1. UserType'
  BY DEF UserType, Goto, Label, bounds
<1>2. \A v \in Users \ {u} : CallSame(v)
  BY DEF UserType, Goto, Label, CallSame
<1>3. /\ NetType' /\ store' = store /\ \A p \in Procs \ {u} : NetSame(p)
      /\ todo'[u] = rs /\ got'[u] = <<>> /\ failed'[u] = FALSE
  BY SentNet, ProcTypes
<1>4. pc'[u] = label /\ call'[u] = call[u] /\ writes' = writes
  BY DEF Goto, Label, UserType, bounds
<1> QED
  BY <1>1, <1>2, <1>3, <1>4 DEF Asked, UserStep, bounds

-----------------------------------------------------------------------------
(* The calls, step by step. *)

\* The answer to a call's single request, once it has returned.
LEMMA ValueIs ==
  ASSUME NetType, NEW u \in Users, CallShape(u), Returned(u),
         pc[u] \in {"dir", "elem", "look"} \/ (pc[u] = "last" /\ call[u].op = "ArrayGetElem")
  PROVE  /\ todo[u] = <<>> /\ ~failed[u] /\ Len(got[u]) = 1
         /\ Value(u) \in Stored /\ Value(u) = got[u][1]
<1>1. got[u] \in Seq(Stored) /\ todo[u] = <<>> /\ ~failed[u]
  BY ProcTypes DEF NetType, Returned
<1>2. Len(got[u]) = 1
  BY <1>1 DEF CallShape, Count
<1> QED
  BY <1>1, <1>2 DEF Value

\* An element of a sequence is of its type.
LEMMA ElementOf ==
  ASSUME NEW S, NEW s \in Seq(S), NEW i \in 1..Len(s)
  PROVE  s[i] \in S
OBVIOUS

\* The directory's key alone, or those of all elements before it.
LEMMA KeyCount ==
  ASSUME NEW n \in {1, N + 1}
  PROVE  n \in Nat /\ 1 \in 1..n /\ n <= N + 1 /\ \A i \in 1..n : i + 1 \in 1..N + 2
<1>1. CASE n = 1
  BY <1>1, Sizes
<1>2. CASE n = N + 1
  BY <1>2, Sizes
<1> QED
  BY <1>1, <1>2

\* A single request is a sequence of requests.
LEMMA OneGet ==
  ASSUME NEW e \in 0..Elsewhere, NEW op \in {"get", "getcond", "flush"}
  PROVE  <<Request(op, e, 0, None)>> \in Seq(RequestType)
<1>1. 0 \in PageNumbers /\ None \in Stored
  BY Sizes DEF PageNumbers, Stored
<1>2. Request(op, e, 0, None) \in RequestType
  BY <1>1, RequestTypes
<1> QED
  BY <1>2

\* A batch has at least one key.
LEMMA SizeOfType == ASSUME NEW u PROVE SizeOf(u) \in Nat /\ SizeOf(u) >= 1
BY Sizes DEF SizeOf

\* One request has been written, or several.
LEMMA OneAsked ==
  ASSUME NEW u, NEW op, NEW rs \in Seq(RequestType), todo'[u] = rs, got'[u] = <<>>,
         Len(rs) = 1, rs[1].op = op
  PROVE  Count(u)' = 1 /\ \A i \in 1..Len(todo'[u]) : todo'[u][i].op = op
<1>1. Len(got'[u]) = 0 /\ Len(todo'[u]) = 1
  OBVIOUS
<1>2. Count(u)' = 1
  BY <1>1 DEF Count
<1>3. \A i \in 1..1 : i = 1
  OBVIOUS
<1> QED
  BY <1>1, <1>2, <1>3

\* Requests asked are all still to be answered.
LEMMA SomeAsked ==
  ASSUME NEW u, NEW rs \in Seq(RequestType), todo'[u] = rs, got'[u] = <<>>
  PROVE  Count(u)' = Len(rs)
<1>1. Len(got'[u]) = 0 /\ Len(todo'[u]) = Len(rs) /\ Len(rs) \in Nat
  OBVIOUS
<1> QED
  BY <1>1 DEF Count

\* A batch of keys, and the requests for it.
AskedBatch(b) == [j \in 1..Len(b) |-> Request("get", b[j], 0, None)]
\* A batch of keys: not empty, full unless it holds the last key.
LEMMA BatchIs ==
  ASSUME NEW u, NEW d \in Seq(0..Elsewhere), Len(d) = N, NEW i \in 1..N
  PROVE  LET b == Batch(u, d, i) IN
         /\ Len(b) \in Nat /\ Len(b) >= 1 /\ Len(b) <= N - i + 1 /\ Len(b) <= SizeOf(u)
         /\ Len(b) = SizeOf(u) \/ Len(b) = N - i + 1
         /\ \A j \in 1..Len(b) : b[j] = d[i + j - 1] /\ b[j] \in 0..Elsewhere
         /\ AskedBatch(b) \in Seq(RequestType) /\ Len(AskedBatch(b)) = Len(b)
<1> DEFINE last == IF i + SizeOf(u) - 1 <= N THEN i + SizeOf(u) - 1 ELSE N
           b == Batch(u, d, i)
<1>1. last \in 1..N /\ i <= last /\ last - i + 1 <= SizeOf(u) /\ (last = N \/ last - i + 1 = SizeOf(u))
  <2>1. SizeOf(u) \in Nat /\ SizeOf(u) >= 1
    BY SizeOfType
  <2> HIDE DEF last
  <2>2. CASE i + SizeOf(u) - 1 <= N
    <3>1. last = i + SizeOf(u) - 1
      BY <2>2 DEF last
    <3>2. \A n \in Nat : n >= 1 /\ i + n - 1 <= N =>
            i + n - 1 \in 1..N /\ i <= i + n - 1 /\ (i + n - 1) - i + 1 = n
      BY Sizes
    <3> QED
      BY <2>1, <2>2, <3>1, <3>2
  <2>3. CASE ~(i + SizeOf(u) - 1 <= N)
    <3>1. last = N
      BY <2>3 DEF last
    <3>2. \A n \in Nat : ~(i + n - 1 <= N) => N \in 1..N /\ i <= N /\ N - i + 1 <= n
      BY Sizes
    <3> QED
      BY <2>1, <2>3, <3>1, <3>2
  <2> QED
    BY <2>2, <2>3
<1>2. b = SubSeq(d, i, last)
  BY DEF Batch
<1> HIDE DEF last, b
<1>3. Len(b) = last - i + 1 /\ \A j \in 1..Len(b) : b[j] = d[i + j - 1]
  BY <1>1, <1>2, Sizes
<1>4. \A j \in 1..Len(b) : i + j - 1 \in 1..N
  BY <1>1, <1>3, Sizes
<1>5. \A j \in 1..Len(b) : b[j] \in 0..Elsewhere
  <2>1. \A x \in 1..N : d[x] \in 0..Elsewhere
    BY ElementOf
  <2> QED
    BY <1>3, <1>4, <2>1
<1>6. Len(b) \in Nat
  BY <1>1, <1>3, Sizes
<1>7. \A j \in 1..Len(b) : Request("get", b[j], 0, None) \in RequestType
  <2>1. 0 \in PageNumbers /\ None \in Stored
    BY Sizes DEF PageNumbers, Stored
  <2> QED
    BY <1>5, <2>1, RequestTypes
<1>8. AskedBatch(b) \in [1..Len(b) -> RequestType]
  BY <1>7 DEF AskedBatch
<1>9. AskedBatch(b) \in Seq(RequestType) /\ Len(AskedBatch(b)) = Len(b)
  BY <1>6, <1>8, SequenceOf
<1>10. /\ Len(b) >= 1 /\ Len(b) <= N - i + 1 /\ Len(b) <= SizeOf(u)
       /\ Len(b) = SizeOf(u) \/ Len(b) = N - i + 1
  <2>1. last \in Nat /\ i \in Nat /\ last <= N
    BY <1>1, Sizes
  <2>2. SizeOf(u) \in Nat
    BY SizeOfType
  <2> QED
    BY <1>1, <1>3, <2>1, <2>2, Sizes
<1>11. \A j \in 1..Len(b) : b[j] = d[i + j - 1] /\ b[j] \in 0..Elsewhere
  BY <1>3, <1>5
<1> QED
  BY <1>6, <1>9, <1>10, <1>11, Zenon DEF b

\* Raise ends a call whose request failed in an error.
LEMMA RaiseStep ==
  ASSUME NetType, UserType, NEW u \in Users, CallShape(u), Raise(u)
  PROVE  Ended(u, "error") /\ failed[u]
<1>1. todo[u] = <<>> /\ failed[u] /\ Done(u, "error") /\ UNCHANGED <<setter, pool, bounds>>
  BY DEF Raise, CallShape
<1> QED
  BY <1>1, DoneStep

\* NoElement ends the call with nil or an error.
LEMMA NoElementStep ==
  ASSUME NetType, UserType, NEW u \in Users, CallShape(u), NoElement(u)
  PROVE  \E kind \in {"nil", "error"} : Ended(u, kind) /\ Done(u, kind)
<1>1. todo[u] = <<>> /\ UNCHANGED <<setter, pool, bounds>>
  BY DEF NoElement, DirIs, Returned
<1>2. Done(u, "nil") \/ Done(u, "error")
  BY Zenon DEF NoElement
<1> QED
  BY <1>1, <1>2, DoneStep

\* FirstElement asks for the element of the call's index.
LEMMA FirstElementStep ==
  ASSUME NetType, UserType, NEW u \in Users, CallShape(u), FirstElement(u)
  PROVE  LET label == IF call[u].op = "ArrayGet" THEN "elem" ELSE "last" IN
         /\ Asked(u, label, <<Request("get", DirRead(u)[call[u].idx], 0, None)>>)
         /\ call'[u] = call[u] /\ writes' = writes
         /\ dir'[u] = DirRead(u) /\ k'[u] = k[u] /\ out'[u] = out[u] /\ suc'[u] = suc[u]
         /\ CallShape(u)'
<1> DEFINE label == IF call[u].op = "ArrayGet" THEN "elem" ELSE "last"
           rs == <<Request("get", DirRead(u)[call[u].idx], 0, None)>>
<1>1. /\ pc[u] = "dir" /\ call[u].op \in {"ArrayGet", "ArrayGetElem"} /\ Returned(u)
      /\ call[u].idx <= Len(DirRead(u))
      /\ dir' = [dir EXCEPT ![u] = DirRead(u)] /\ Send(u, rs) /\ Goto(u, label)
      /\ UNCHANGED <<call, out, k, suc>> /\ UNCHANGED <<setter, pool, bounds>>
  BY DEF FirstElement, DirIs, Get
<1>2. /\ DirRead(u) \in Seq(0..Elsewhere) /\ Len(DirRead(u)) \in {0, N}
  BY <1>1, ValueIs, EntriesAre DEF DirRead
<1>3. call[u].idx \in 1..N /\ Len(DirRead(u)) = N
  BY <1>1, <1>2, Sizes DEF UserType, CallType, Positions
<1>4. DirRead(u)[call[u].idx] \in 0..Elsewhere
  BY <1>2, <1>3, ElementOf
<1>5. rs \in Seq(RequestType) /\ Len(rs) = 1 /\ rs[1].op = "get"
  BY <1>4, OneGet DEF Request
<1>6. label \in {"dir", "elem", "last", "batch", "look", "erase"}
  OBVIOUS
<1> HIDE DEF rs, label
<1>7. /\ dir' = [dir EXCEPT ![u] = dir'[u]] /\ dir'[u] = DirRead(u)
      /\ out' = [out EXCEPT ![u] = out'[u]] /\ out'[u] = out[u]
      /\ k' = [k EXCEPT ![u] = k'[u]] /\ k'[u] = k[u] /\ k[u] \in 1..N + 2
      /\ suc' = [suc EXCEPT ![u] = suc'[u]] /\ suc'[u] = suc[u] /\ suc[u] \in BOOLEAN
  BY <1>1 DEF UserType
<1>8. Asked(u, label, rs) /\ writes' = writes /\ call'[u] = call[u]
  <2>1. UNCHANGED call /\ dir'[u] \in Seq(0..Elsewhere) /\ k'[u] \in 1..N + 2 /\ suc'[u] \in BOOLEAN
    BY <1>1, <1>2, <1>7
  <2> QED
    BY <1>1, <1>5, <1>6, <1>7, <2>1, AskStep, Zenon
<1>9. k[u] = 1
  BY <1>1 DEF CallShape
<1>10. CallShape(u)'
  <2>1. /\ pc'[u] = label /\ todo'[u] = rs /\ got'[u] = <<>> /\ failed'[u] = FALSE
        /\ call'[u] = call[u] /\ Len(dir'[u]) = N /\ k'[u] = 1
    BY <1>3, <1>7, <1>8, <1>9 DEF Asked
  <2>2. Count(u)' = 1 /\ \A i \in 1..Len(todo'[u]) : todo'[u][i].op = "get"
    BY <1>5, <2>1, OneAsked
  <2>3. CASE call[u].op = "ArrayGet"
    <3>1. label = "elem"
      BY <2>3 DEF label
    <3> QED
      BY <2>1, <2>2, <2>3, <3>1, Sizes DEF CallShape
  <2>4. CASE call[u].op = "ArrayGetElem"
    <3>1. label = "last"
      BY <2>4 DEF label
    <3> QED
      BY <2>1, <2>2, <2>4, <3>1, Sizes DEF CallShape, Batched
  <2> QED
    BY <1>1, <2>3, <2>4
<1> QED
  BY <1>7, <1>8, <1>10 DEF rs, label

\* NextElement keeps the answer and asks for the next element or ends.
LEMMA NextElementStep ==
  ASSUME NetType, UserType, NEW u \in Users, CallShape(u), NextElement(u)
  PROVE  /\ call'[u] = call[u] /\ dir'[u] = dir[u] /\ writes' = writes
         /\ out'[u] = Append(out[u], Value(u)) /\ k'[u] = k[u] + 1
         /\ \/ k[u] = N /\ Ended(u, "value")
            \/ /\ k[u] < N /\ k[u] + 1 \in 1..N
               /\ Asked(u, "elem", <<Request("get", dir[u][k[u] + 1], 0, None)>>)
         /\ CallShape(u)'
<1> DEFINE rs == <<Request("get", dir[u][k[u] + 1], 0, None)>>
<1>1. /\ pc[u] = "elem" /\ Returned(u)
      /\ out' = [out EXCEPT ![u] = Append(@, Value(u))] /\ k' = [k EXCEPT ![u] = @ + 1]
      /\ IF k[u] < Len(dir[u]) THEN Send(u, rs) /\ UNCHANGED <<pc, result>>
                               ELSE Finish(u, "value") /\ UNCHANGED net
      /\ UNCHANGED <<call, dir, suc>> /\ UNCHANGED <<setter, pool, bounds>>
  BY DEF NextElement, Get
<1>2. todo[u] = <<>> /\ k[u] \in 1..N /\ Len(dir[u]) = N /\ call[u].op = "ArrayGet"
  BY <1>1 DEF CallShape, Returned
<1>3. /\ out'[u] = Append(out[u], Value(u)) /\ out' = [out EXCEPT ![u] = out'[u]]
      /\ k'[u] = k[u] + 1 /\ k' = [k EXCEPT ![u] = k'[u]] /\ k'[u] \in 1..N + 2
      /\ suc' = [suc EXCEPT ![u] = suc'[u]] /\ suc'[u] \in BOOLEAN
      /\ dir' = [dir EXCEPT ![u] = dir'[u]] /\ dir'[u] = dir[u] /\ dir'[u] \in Seq(0..Elsewhere)
      /\ UNCHANGED call /\ UNCHANGED <<call, dir>> /\ call'[u] = call[u] /\ writes' = writes
  <2>1. /\ out'[u] = Append(out[u], Value(u)) /\ out' = [out EXCEPT ![u] = out'[u]]
        /\ k'[u] = k[u] + 1 /\ k' = [k EXCEPT ![u] = k'[u]]
        /\ suc' = [suc EXCEPT ![u] = suc'[u]] /\ suc'[u] \in BOOLEAN
        /\ dir' = [dir EXCEPT ![u] = dir'[u]] /\ dir'[u] = dir[u] /\ dir'[u] \in Seq(0..Elsewhere)
        /\ call' = call /\ writes' = writes
    BY <1>1 DEF UserType, bounds
  <2>2. k[u] + 1 \in 1..N + 2
    BY <1>2, Sizes
  <2> QED
    BY <1>1, <2>1, <2>2
<1>4. CASE k[u] < N
  <2>1. k[u] + 1 \in 1..N
    BY <1>2, <1>4, Sizes
  <2>2. dir[u][k[u] + 1] \in 0..Elsewhere
    BY <1>2, <1>3, <2>1, ElementOf
  <2>3. rs \in Seq(RequestType) /\ Len(rs) = 1 /\ rs[1].op = "get"
    BY <2>2, OneGet DEF Request
  <2> HIDE DEF rs
  <2>4. Send(u, rs) /\ Goto(u, "elem")
    <3>1. Send(u, rs) /\ pc' = pc /\ result' = result
      BY <1>1, <1>2, <1>4
    <3>2. pc' = [pc EXCEPT ![u] = "elem"]
      BY <1>1, <3>1 DEF UserType
    <3> QED
      BY <3>1, <3>2 DEF Goto, Label
  <2>5. "elem" \in {"dir", "elem", "last", "batch", "look", "erase"}
    OBVIOUS
  <2>6. Asked(u, "elem", rs)
    BY <1>1, <1>3, <2>3, <2>4, <2>5, AskStep, Zenon
  <2>7. Count(u)' = 1 /\ \A i \in 1..Len(todo'[u]) : todo'[u][i].op = "get"
    BY <2>3, <2>6, OneAsked DEF Asked
  <2>8. CallShape(u)'
    BY <1>2, <1>3, <2>1, <2>6, <2>7 DEF CallShape, Asked
  <2> QED
    BY <1>3, <1>4, <2>1, <2>6, <2>8 DEF rs
<1>5. CASE ~(k[u] < N)
  <2>1. Finish(u, "value") /\ UNCHANGED net /\ k[u] = N
    BY <1>1, <1>2, <1>5, Sizes
  <2>2. "value" \in {"nil", "error", "value", "true", "false"}
    OBVIOUS
  <2>3. Ended(u, "value")
    BY <1>1, <1>2, <1>3, <2>1, <2>2, FinishStep, Zenon
  <2> QED
    BY <1>3, <2>1, <2>3, EndedShape
<1> QED
  BY <1>4, <1>5

\* LastAnswer ends the call with the answer.
LEMMA LastAnswerStep ==
  ASSUME NetType, UserType, NEW u \in Users, CallShape(u), LastAnswer(u)
  PROVE  /\ Ended(u, IF call[u].op \in {"GetCond", "GetWithCheckpoint", "ArrayGetElem"}
                     THEN "value" ELSE "nil")
         /\ out'[u] = <<Value(u)>>
<1> DEFINE kind == IF call[u].op \in {"GetCond", "GetWithCheckpoint", "ArrayGetElem"}
                   THEN "value" ELSE "nil"
<1>1. /\ todo[u] = <<>> /\ out' = [out EXCEPT ![u] = <<Value(u)>>] /\ Finish(u, kind)
      /\ UNCHANGED net /\ UNCHANGED <<call, dir>> /\ UNCHANGED <<k, suc>>
      /\ UNCHANGED <<setter, pool, bounds>>
  BY DEF LastAnswer, Returned
<1>2. kind \in {"nil", "error", "value", "true", "false"}
  OBVIOUS
<1> HIDE DEF kind
<1>3. /\ out'[u] = <<Value(u)>> /\ out' = [out EXCEPT ![u] = out'[u]]
      /\ k' = [k EXCEPT ![u] = k'[u]] /\ k'[u] \in 1..N + 2
      /\ suc' = [suc EXCEPT ![u] = suc'[u]] /\ suc'[u] \in BOOLEAN
  BY <1>1 DEF UserType
<1>4. Ended(u, kind)
  BY <1>1, <1>2, <1>3, FinishStep, Zenon
<1> QED
  BY <1>3, <1>4 DEF kind

\* FirstBatch asks for the first batch of keys.
LEMMA FirstBatchStep ==
  ASSUME NetType, UserType, NEW u \in Users, CallShape(u), FirstBatch(u)
  PROVE  /\ Asked(u, "batch", AskedBatch(Batch(u, DirRead(u), 1)))
         /\ call'[u] = call[u] /\ writes' = writes /\ k[u] = 1 /\ k'[u] = 1
         /\ dir'[u] = DirRead(u) /\ Len(DirRead(u)) = N /\ out'[u] = [i \in 1..N |-> None]
         /\ CallShape(u)'
<1> DEFINE rs == AskedBatch(Batch(u, DirRead(u), 1))
<1>1. /\ pc[u] = "dir" /\ call[u].op \in Batched /\ Returned(u)
      /\ DirRead(u) # <<>>
      /\ dir' = [dir EXCEPT ![u] = DirRead(u)] /\ SendBulk(u, rs) /\ Goto(u, "batch")
      /\ out' = [out EXCEPT ![u] = [i \in 1..N |-> None]]
      /\ UNCHANGED <<call, k, suc>> /\ UNCHANGED <<setter, pool, bounds>>
  BY DEF FirstBatch, DirIs, AskBatch, AskedBatch
<1>2. DirRead(u) \in Seq(0..Elsewhere) /\ Len(DirRead(u)) = N
  BY <1>1, ValueIs, EntriesAre DEF DirRead
<1>3. 1 \in 1..N /\ k[u] = 1
  BY <1>1, Sizes DEF CallShape
<1>4. rs \in Seq(RequestType) /\ Len(rs) = Len(Batch(u, DirRead(u), 1))
  BY <1>2, <1>3, BatchIs
<1>5. \A i \in 1..Len(rs) : rs[i].op = "get"
  <2>1. \A i \in 1..Len(Batch(u, DirRead(u), 1)) : rs[i].op = "get"
    BY DEF AskedBatch, Request
  <2> QED
    BY <1>4, <2>1
<1>6. "batch" \in {"dir", "elem", "last", "batch", "look", "erase"}
  OBVIOUS
<1> HIDE DEF rs
<1>7. /\ dir' = [dir EXCEPT ![u] = dir'[u]] /\ dir'[u] = DirRead(u) /\ dir'[u] \in Seq(0..Elsewhere)
      /\ out' = [out EXCEPT ![u] = out'[u]] /\ out'[u] = [i \in 1..N |-> None]
      /\ k' = [k EXCEPT ![u] = k'[u]] /\ k'[u] = 1 /\ k'[u] \in 1..N + 2
      /\ suc' = [suc EXCEPT ![u] = suc'[u]] /\ suc'[u] \in BOOLEAN
      /\ UNCHANGED call
  BY <1>1, <1>2, <1>3 DEF UserType
<1>8. Asked(u, "batch", rs) /\ writes' = writes /\ call'[u] = call[u]
  BY <1>1, <1>4, <1>6, <1>7, AskStep, Zenon
<1>9. Count(u)' = Len(rs)
  BY <1>4, <1>8, SomeAsked DEF Asked
<1>10. Batch(u, dir[u], k[u])' = Batch(u, DirRead(u), 1)
  BY <1>7, <1>8 DEF Batch, SizeOf
<1>11. CallShape(u)'
  <2>1. call'[u].op \in Batched /\ Len(dir'[u]) = N /\ k'[u] \in 1..N /\ failed'[u] = FALSE /\ pc'[u] = "batch"
    BY <1>1, <1>2, <1>3, <1>7, <1>8 DEF Asked
  <2>2. Count(u)' = Len(Batch(u, dir[u], k[u])')
    BY <1>4, <1>9, <1>10, Zenon
  <2>3. \A i \in 1..Len(todo'[u]) : todo'[u][i].op = "get"
    BY <1>5, <1>8 DEF Asked
  <2> QED
    BY <2>1, <2>2, <2>3 DEF CallShape
<1> QED
  BY <1>2, <1>3, <1>7, <1>8, <1>11 DEF rs

\* The batch that has been answered.
Taken(u) == k[u] + Len(got[u]) - 1
Filled(u) ==
  [i \in 1..N |->
     IF \E j \in 1..Len(got[u]) : Place(SizeOf(u), Taken(u), j, Len(got[u])) = i
     THEN got[u][CHOOSE j \in 1..Len(got[u]) : Place(SizeOf(u), Taken(u), j, Len(got[u])) = i]
     ELSE out[u][i]]

\* When a batch has returned there is an answer for each of its keys.
LEMMA BatchAnswered ==
  ASSUME NetType, UserType, NEW u \in Users, CallShape(u), pc[u] = "batch", Returned(u)
  PROVE  /\ todo[u] = <<>> /\ ~failed[u] /\ got[u] \in Seq(Stored)
         /\ Len(got[u]) = Len(Batch(u, dir[u], k[u])) /\ Len(got[u]) \in Nat
         /\ k[u] \in 1..N /\ Len(dir[u]) = N /\ dir[u] \in Seq(0..Elsewhere)
         /\ Taken(u) \in 1..N
         /\ Len(got[u]) = SizeOf(u) \/ (Len(got[u]) < SizeOf(u) /\ Taken(u) = N)
<1>1. todo[u] = <<>> /\ ~failed[u] /\ got[u] \in Seq(Stored) /\ dir[u] \in Seq(0..Elsewhere)
  BY ProcTypes DEF Returned, NetType, UserType
<1>2. k[u] \in 1..N /\ Len(dir[u]) = N /\ Count(u) = Len(Batch(u, dir[u], k[u]))
  BY <1>1 DEF CallShape
<1>3. Count(u) = Len(got[u]) /\ Len(got[u]) \in Nat
  BY <1>1 DEF Count
<1>4. /\ Len(got[u]) >= 1 /\ Len(got[u]) <= N - k[u] + 1 /\ Len(got[u]) <= SizeOf(u)
      /\ Len(got[u]) = SizeOf(u) \/ Len(got[u]) = N - k[u] + 1
  BY <1>1, <1>2, <1>3, BatchIs
<1>5. SizeOf(u) \in Nat
  BY SizeOfType
<1>6. Taken(u) \in 1..N /\ (Len(got[u]) = N - k[u] + 1 => Taken(u) = N)
  <2>1. \A a \in 1..N, l \in Nat :
          l >= 1 /\ l <= N - a + 1 => a + l - 1 \in 1..N /\ (l = N - a + 1 => a + l - 1 = N)
    BY Sizes
  <2> QED
    BY <1>2, <1>3, <1>4, <2>1 DEF Taken
<1> QED
  BY <1>1, <1>2, <1>3, <1>4, <1>5, <1>6

\* NextBatch places the answers and asks for the next batch, or ends.
LEMMA NextBatchStep ==
  ASSUME NetType, UserType, NEW u \in Users, CallShape(u), NextBatch(u)
  PROVE  /\ call'[u] = call[u] /\ writes' = writes
         /\ \/ Ended(u, "error") /\ \E j \in 1..Len(got[u]) : got[u][j] = None
            \/ /\ out'[u] = Filled(u) /\ dir'[u] = dir[u] /\ k'[u] = Taken(u) + 1
               /\ \/ Ended(u, "value") /\ Taken(u) = N
                  \/ /\ Taken(u) + 1 \in 1..N
                     /\ Asked(u, "batch", AskedBatch(Batch(u, dir[u], Taken(u) + 1)))
         /\ CallShape(u)'
<1>1. pc[u] = "batch" /\ Returned(u) /\ UNCHANGED <<setter, pool, bounds>>
  BY DEF NextBatch
<1>2. /\ todo[u] = <<>> /\ ~failed[u] /\ got[u] \in Seq(Stored)
      /\ k[u] \in 1..N /\ Len(dir[u]) = N /\ dir[u] \in Seq(0..Elsewhere)
      /\ Taken(u) \in 1..N /\ call[u].op \in Batched
  BY <1>1, BatchAnswered DEF CallShape
<1>3. CASE None \in ToSet(got[u])
  <2>1. Done(u, "error")
    BY <1>3 DEF NextBatch
  <2>2. "error" \in {"nil", "error", "value", "true", "false"}
    OBVIOUS
  <2>3. Ended(u, "error")
    BY <1>1, <1>2, <2>1, <2>2, DoneStep, Zenon
  <2>4. \E j \in 1..Len(got[u]) : got[u][j] = None
    BY <1>2, <1>3 DEF ToSet
  <2> QED
    BY <2>3, <2>4, EndedShape DEF Ended
<1>4. CASE None \notin ToSet(got[u])
  <2> DEFINE rs == AskedBatch(Batch(u, dir[u], Taken(u) + 1))
  <2>1. /\ out' = [out EXCEPT ![u] = Filled(u)] /\ k' = [k EXCEPT ![u] = Taken(u) + 1]
        /\ IF Taken(u) < N THEN SendBulk(u, rs) /\ UNCHANGED <<pc, result>>
                           ELSE Finish(u, "value") /\ UNCHANGED net
        /\ UNCHANGED <<call, dir, suc>>
    <3>1. out' = [out EXCEPT ![u] = Filled(u)]
      <4> DEFINE len == Len(got[u])
                 taken == k[u] + len - 1
                 place == [j \in 1..len |-> Place(SizeOf(u), taken, j, len)]
                 new(o) == [i \in 1..N |-> IF \E j \in 1..len : place[j] = i
                                           THEN got[u][CHOOSE j \in 1..len : place[j] = i]
                                           ELSE o[i]]
      <4>1. out' = [out EXCEPT ![u] = new(@)]
        BY <1>4 DEF NextBatch
      <4>2. \A j \in 1..len : place[j] = Place(SizeOf(u), Taken(u), j, len)
        BY DEF Taken
      <4>3. \A i \in 1..N :
              (CHOOSE j \in 1..len : place[j] = i)
                = (CHOOSE j \in 1..len : Place(SizeOf(u), Taken(u), j, len) = i)
        <5> HIDE DEF place, len
        <5> QED
          BY <4>2
      <4>4. new(out[u]) = Filled(u)
        <5> HIDE DEF place
        <5> QED
          BY <4>2, <4>3 DEF Filled
      <4> QED
        BY <4>1, <4>4
    <3>2. k' = [k EXCEPT ![u] = Taken(u) + 1]
      BY <1>4 DEF NextBatch, Taken
    <3>3. IF Taken(u) < N THEN SendBulk(u, rs) /\ UNCHANGED <<pc, result>>
                          ELSE Finish(u, "value") /\ UNCHANGED net
      BY <1>2, <1>4 DEF NextBatch, Taken, AskBatch, AskedBatch
    <3>4. UNCHANGED <<call, dir, suc>>
      BY <1>4 DEF NextBatch
    <3> QED
      BY <3>1, <3>2, <3>3, <3>4
  <2>2. /\ out'[u] = Filled(u) /\ out' = [out EXCEPT ![u] = out'[u]]
        /\ k'[u] = Taken(u) + 1 /\ k' = [k EXCEPT ![u] = k'[u]]
        /\ suc' = [suc EXCEPT ![u] = suc'[u]] /\ suc'[u] \in BOOLEAN
        /\ dir' = [dir EXCEPT ![u] = dir'[u]] /\ dir'[u] = dir[u] /\ dir'[u] \in Seq(0..Elsewhere)
        /\ UNCHANGED call /\ UNCHANGED <<call, dir>> /\ call'[u] = call[u] /\ writes' = writes
    BY <1>1, <2>1 DEF UserType, bounds
  <2>3. k'[u] \in 1..N + 2
    <3>1. \A x \in 1..N : x + 1 \in 1..N + 2
      BY Sizes
    <3> QED
      BY <1>2, <2>2, <3>1
  <2>4. CASE Taken(u) < N
    <3>1. Taken(u) + 1 \in 1..N
      BY <1>2, <2>4, Sizes
    <3>2. rs \in Seq(RequestType) /\ Len(rs) = Len(Batch(u, dir[u], Taken(u) + 1))
      BY <1>2, <3>1, BatchIs
    <3>3. \A i \in 1..Len(rs) : rs[i].op = "get"
      <4>1. \A i \in 1..Len(Batch(u, dir[u], Taken(u) + 1)) : rs[i].op = "get"
        BY DEF AskedBatch, Request
      <4> QED
        BY <3>2, <4>1
    <3> HIDE DEF rs
    <3>4. SendBulk(u, rs) /\ Goto(u, "batch")
      <4>1. SendBulk(u, rs) /\ pc' = pc /\ result' = result
        BY <2>1, <2>4
      <4>2. pc' = [pc EXCEPT ![u] = "batch"]
        BY <1>1, <4>1 DEF UserType
      <4> QED
        BY <4>1, <4>2 DEF Goto, Label
    <3>5. "batch" \in {"dir", "elem", "last", "batch", "look", "erase"}
      OBVIOUS
    <3>6. Asked(u, "batch", rs)
      BY <1>1, <2>2, <2>3, <3>2, <3>4, <3>5, AskStep, Zenon
    <3>7. Count(u)' = Len(rs)
      BY <3>2, <3>6, SomeAsked DEF Asked
    <3>8. Batch(u, dir[u], k[u])' = Batch(u, dir[u], Taken(u) + 1)
      BY <2>2 DEF Batch, SizeOf
    <3>9. CallShape(u)'
      <4>1. call'[u].op \in Batched /\ Len(dir'[u]) = N /\ k'[u] \in 1..N /\ failed'[u] = FALSE /\ pc'[u] = "batch"
        BY <1>2, <2>2, <3>1, <3>6 DEF Asked
      <4>2. Count(u)' = Len(Batch(u, dir[u], k[u])')
        BY <3>2, <3>7, <3>8, Zenon
      <4>3. \A i \in 1..Len(todo'[u]) : todo'[u][i].op = "get"
        BY <3>3, <3>6 DEF Asked
      <4> QED
        BY <4>1, <4>2, <4>3 DEF CallShape
    <3> QED
      BY <2>2, <3>1, <3>6, <3>9 DEF rs
  <2>5. CASE ~(Taken(u) < N)
    <3>1. Finish(u, "value") /\ UNCHANGED net /\ Taken(u) = N
      BY <1>2, <2>1, <2>5, Sizes
    <3>2. "value" \in {"nil", "error", "value", "true", "false"}
      OBVIOUS
    <3>3. Ended(u, "value")
      BY <1>1, <1>2, <2>2, <2>3, <3>1, <3>2, FinishStep, Zenon
    <3> QED
      BY <2>2, <3>1, <3>3, EndedShape
  <2> QED
    BY <2>4, <2>5
<1> QED
  BY <1>3, <1>4

\* FirstLook asks for the element that is to be replaced.
LEMMA FirstLookStep ==
  ASSUME NetType, UserType, NEW u \in Users, CallShape(u), FirstLook(u)
  PROVE  /\ Asked(u, "look", <<Request("get", call[u].idx, 0, None)>>)
         /\ call'[u] = call[u] /\ writes' = writes /\ call[u].op = "ArraySetElem"
         /\ CallShape(u)'
<1> DEFINE rs == <<Request("get", call[u].idx, 0, None)>>
<1>1. /\ pc[u] = "dir" /\ call[u].op = "ArraySetElem" /\ Returned(u)
      /\ call[u].idx <= Len(DirRead(u)) /\ Send(u, rs) /\ Goto(u, "look")
      /\ UNCHANGED <<call, dir, out, k, suc>> /\ UNCHANGED <<setter, pool, bounds>>
  BY DEF FirstLook, DirIs, Get
<1>2. Len(DirRead(u)) \in {0, N}
  BY <1>1, ValueIs, EntriesAre DEF DirRead
<1>3. call[u].idx \in 1..N
  BY <1>1, <1>2, Sizes DEF UserType, CallType, Positions
<1>4. rs \in Seq(RequestType) /\ Len(rs) = 1 /\ rs[1].op = "get"
  <2>1. call[u].idx \in 0..Elsewhere
    BY <1>3, Sizes DEF Elsewhere
  <2> QED
    BY <2>1, OneGet DEF Request
<1>5. "look" \in {"dir", "elem", "last", "batch", "look", "erase"}
  OBVIOUS
<1> HIDE DEF rs
<1>6. /\ dir' = [dir EXCEPT ![u] = dir'[u]] /\ dir'[u] \in Seq(0..Elsewhere)
      /\ out' = [out EXCEPT ![u] = out'[u]]
      /\ k' = [k EXCEPT ![u] = k'[u]] /\ k'[u] = k[u] /\ k'[u] \in 1..N + 2
      /\ suc' = [suc EXCEPT ![u] = suc'[u]] /\ suc'[u] \in BOOLEAN
      /\ UNCHANGED call
  BY <1>1 DEF UserType
<1>7. Asked(u, "look", rs) /\ writes' = writes /\ call'[u] = call[u]
  BY <1>1, <1>4, <1>5, <1>6, AskStep, Zenon
<1>8. Count(u)' = 1
  BY <1>4, <1>7, OneAsked DEF Asked
<1>9. k'[u] = 1
  BY <1>1, <1>6 DEF CallShape
<1>10. CallShape(u)'
  BY <1>1, <1>3, <1>7, <1>8, <1>9 DEF CallShape, Asked, Destructive
<1> QED
  BY <1>1, <1>7, <1>10 DEF rs

\* The keys that ArrayDelete deletes.
LEMMA KeysAre ==
  ASSUME NEW v \in Stored
  PROVE  LET d == KeysOf(Entries(v)) IN
         /\ d \in Seq(0..Elsewhere) /\ Len(d) \in {1, N + 1}
         /\ v = None => d = <<Directory>>
         /\ v # None => Len(d) = N + 1 /\ \A i \in 1..N : d[i] = Entries(v)[i]
         /\ d[Len(d)] = Directory
<1>1. Entries(v) \in Seq(0..Elsewhere) /\ Len(Entries(v)) \in {0, N} /\ (v = None <=> Entries(v) = <<>>)
      /\ (v # None => Len(Entries(v)) = N)
  BY EntriesAre
<1>2. Directory \in 0..Elsewhere
  BY Sizes DEF Directory, Elsewhere
<1> DEFINE d == Entries(v) \o <<Directory>>
<1>3. /\ d \in Seq(0..Elsewhere) /\ Len(d) = Len(Entries(v)) + 1 /\ d[Len(d)] = Directory
      /\ \A i \in 1..Len(Entries(v)) : d[i] = Entries(v)[i]
  BY <1>1, <1>2
<1>4. v = None => d = <<Directory>>
  BY <1>1
<1>5. KeysOf(Entries(v)) = d
  BY DEF KeysOf
<1> HIDE DEF d
<1> QED
  BY <1>1, <1>3, <1>4, <1>5

\* FirstDelete asks for the first key to delete.
LEMMA FirstDeleteStep ==
  ASSUME NetType, UserType, NEW u \in Users, CallShape(u), FirstDelete(u)
  PROVE  /\ Asked(u, "look", <<Request("get", KeysOf(DirRead(u))[1], 0, None)>>)
         /\ call'[u] = call[u] /\ writes' = writes /\ call[u].op = "ArrayDelete"
         /\ dir'[u] = KeysOf(DirRead(u)) /\ k'[u] = 1 /\ suc'[u] = suc[u] /\ pc[u] = "dir"
         /\ Value(u) \in Stored /\ Value(u) = got[u][1] /\ Len(got[u]) = 1 /\ ~failed[u]
         /\ CallShape(u)'
<1> DEFINE rs == <<Request("get", KeysOf(DirRead(u))[1], 0, None)>>
<1>1. /\ pc[u] = "dir" /\ call[u].op = "ArrayDelete" /\ Returned(u)
      /\ dir' = [dir EXCEPT ![u] = KeysOf(DirRead(u))] /\ Send(u, rs) /\ Goto(u, "look")
      /\ UNCHANGED <<call, out, k, suc>> /\ UNCHANGED <<setter, pool, bounds>>
  BY DEF FirstDelete, DirIs, Get
<1>2. /\ Value(u) \in Stored /\ Value(u) = got[u][1] /\ Len(got[u]) = 1 /\ ~failed[u]
      /\ KeysOf(DirRead(u)) \in Seq(0..Elsewhere) /\ Len(KeysOf(DirRead(u))) \in {1, N + 1}
  BY <1>1, ValueIs, KeysAre DEF DirRead
<1>3. KeysOf(DirRead(u))[1] \in 0..Elsewhere
  <2>1. 1 \in 1..Len(KeysOf(DirRead(u)))
    BY <1>2, KeyCount
  <2> QED
    BY <1>2, <2>1, ElementOf
<1>4. rs \in Seq(RequestType) /\ Len(rs) = 1 /\ rs[1].op = "get"
  BY <1>3, OneGet DEF Request
<1>5. "look" \in {"dir", "elem", "last", "batch", "look", "erase"}
  OBVIOUS
<1> HIDE DEF rs
<1>6. /\ dir' = [dir EXCEPT ![u] = dir'[u]] /\ dir'[u] = KeysOf(DirRead(u)) /\ dir'[u] \in Seq(0..Elsewhere)
      /\ out' = [out EXCEPT ![u] = out'[u]]
      /\ k' = [k EXCEPT ![u] = k'[u]] /\ k'[u] = k[u] /\ k'[u] \in 1..N + 2
      /\ suc' = [suc EXCEPT ![u] = suc'[u]] /\ suc'[u] = suc[u] /\ suc'[u] \in BOOLEAN
      /\ UNCHANGED call
  BY <1>1, <1>2 DEF UserType
<1>7. Asked(u, "look", rs) /\ writes' = writes /\ call'[u] = call[u]
  BY <1>1, <1>4, <1>5, <1>6, AskStep, Zenon
<1>8. Count(u)' = 1
  BY <1>4, <1>7, OneAsked DEF Asked
<1>9. k'[u] = 1
  BY <1>1, <1>6 DEF CallShape
<1>10. CallShape(u)'
  <2>1. Len(dir'[u]) \in {1, N + 1} /\ k'[u] \in 1..Len(dir'[u])
    BY <1>2, <1>6, <1>9, Sizes
  <2> QED
    BY <1>1, <1>7, <1>8, <2>1 DEF CallShape, Asked, Destructive
<1> QED
  BY <1>1, <1>2, <1>6, <1>7, <1>9, <1>10 DEF rs

\* The key that Delete is at.
LEMMA KeyType ==
  ASSUME UserType, NEW u \in Users, CallShape(u), pc[u] \in {"look", "erase"}
  PROVE  Key(u) \in 0..Elsewhere
<1>1. CASE call[u].op = "ArraySetElem"
  BY <1>1, Sizes DEF CallShape, Key, Elsewhere
<1>2. CASE call[u].op = "ArrayDelete"
  <2>1. k[u] \in 1..Len(dir[u]) /\ dir[u] \in Seq(0..Elsewhere)
    BY <1>2 DEF CallShape, UserType
  <2>2. dir[u][k[u]] \in 0..Elsewhere
    BY <2>1, ElementOf
  <2> QED
    BY <1>2, <2>2 DEF Key
<1> QED
  BY <1>1, <1>2 DEF CallShape

\* Erase asks for the pages of the value it has found to be deleted.
LEMMA EraseStep ==
  ASSUME NetType, UserType, NEW u \in Users, CallShape(u), Erase(u)
  PROVE  /\ Asked(u, "erase", DeleteRequests(Key(u), Value(u)))
         /\ call'[u] = call[u] /\ writes' = writes /\ pc[u] = "look" /\ ~failed[u]
         /\ dir'[u] = dir[u] /\ k'[u] = k[u] /\ suc'[u] = suc[u]
         /\ Value(u) \in Stored /\ Value(u) # None /\ Value(u) = got[u][1] /\ Len(got[u]) = 1
         /\ CallShape(u)'
<1> DEFINE rs == DeleteRequests(Key(u), Value(u))
<1>1. /\ pc[u] = "look" /\ Returned(u) /\ Value(u) # None
      /\ SendBulk(u, rs) /\ Goto(u, "erase")
      /\ UNCHANGED <<call, dir, out, k, suc>> /\ UNCHANGED <<setter, pool, bounds>>
  BY DEF Erase
<1>2. Value(u) \in Stored /\ Value(u) = got[u][1] /\ Len(got[u]) = 1 /\ ~failed[u]
  BY <1>1, ValueIs
<1>3. rs \in Seq(RequestType)
  BY <1>1, <1>2, KeyType, DeleteRequestsAre
<1>4. "erase" \in {"dir", "elem", "last", "batch", "look", "erase"}
  OBVIOUS
<1> HIDE DEF rs
<1>5. /\ dir' = [dir EXCEPT ![u] = dir'[u]] /\ dir'[u] = dir[u] /\ dir'[u] \in Seq(0..Elsewhere)
      /\ out' = [out EXCEPT ![u] = out'[u]]
      /\ k' = [k EXCEPT ![u] = k'[u]] /\ k'[u] = k[u] /\ k'[u] \in 1..N + 2
      /\ suc' = [suc EXCEPT ![u] = suc'[u]] /\ suc'[u] = suc[u] /\ suc'[u] \in BOOLEAN
      /\ UNCHANGED call
  BY <1>1 DEF UserType
<1>6. Asked(u, "erase", rs) /\ writes' = writes /\ call'[u] = call[u]
  BY <1>1, <1>3, <1>4, <1>5, AskStep, Zenon
<1>7. CallShape(u)'
  <2>1. call[u].op \in {"ArraySetElem", "ArrayDelete"}
    BY <1>1 DEF CallShape
  <2> QED
    BY <1>1, <1>5, <1>6, <2>1 DEF CallShape, Asked, Destructive
<1> QED
  BY <1>1, <1>2, <1>5, <1>6, <1>7 DEF rs

\* ReplaceElement writes the new value of the element.
LEMMA ReplaceElementStep ==
  ASSUME NetType, UserType, NEW u \in Users, CallShape(u), ReplaceElement(u)
  PROVE  /\ Asked(u, "last", SetRequests(Replacement(call[u].idx)))
         /\ call'[u] = call[u] /\ writes' = writes /\ call[u].op = "ArraySetElem"
         /\ pc[u] # "idle"
         /\ CallShape(u)'
<1> DEFINE rs == SetRequests(Replacement(call[u].idx))
<1>1. /\ pc[u] \in {"look", "erase"} /\ call[u].op = "ArraySetElem"
      /\ SendBulk(u, rs) /\ Goto(u, "last")
      /\ UNCHANGED <<call, dir, out, k, suc>> /\ UNCHANGED <<setter, pool, bounds>>
  BY DEF ReplaceElement, Deleted
<1>2. call[u].idx \in 0..N
  BY <1>1, Sizes DEF CallShape
<1>3. rs \in Seq(RequestType)
  BY <1>2, ValueTypes, SetRequestsAre
<1>4. "last" \in {"dir", "elem", "last", "batch", "look", "erase"}
  OBVIOUS
<1> HIDE DEF rs
<1>5. /\ dir' = [dir EXCEPT ![u] = dir'[u]] /\ dir'[u] \in Seq(0..Elsewhere)
      /\ out' = [out EXCEPT ![u] = out'[u]]
      /\ k' = [k EXCEPT ![u] = k'[u]] /\ k'[u] \in 1..N + 2
      /\ suc' = [suc EXCEPT ![u] = suc'[u]] /\ suc'[u] \in BOOLEAN
      /\ UNCHANGED call
  BY <1>1 DEF UserType
<1>6. Asked(u, "last", rs) /\ writes' = writes /\ call'[u] = call[u]
  BY <1>1, <1>3, <1>4, <1>5, AskStep, Zenon
<1>7. CallShape(u)'
  BY <1>1, <1>6 DEF CallShape, Asked, Destructive, Batched
<1> QED
  BY <1>1, <1>6, <1>7 DEF rs

\* The loop of ArrayDelete goes on after this key.
AllGone(u) == suc[u] /\ pc[u] = "erase"
MoreKeys(u) == k[u] < Len(dir[u]) - 1 \/ (k[u] = Len(dir[u]) - 1 /\ AllGone(u))

\* NextDelete looks for the next key or ends.
LEMMA NextDeleteStep ==
  ASSUME NetType, UserType, NEW u \in Users, CallShape(u), NextDelete(u)
  PROVE  /\ call'[u] = call[u] /\ writes' = writes /\ call[u].op = "ArrayDelete"
         /\ pc[u] \in {"look", "erase"} /\ Returned(u) /\ todo[u] = <<>> /\ ~failed[u]
         /\ dir'[u] = dir[u] /\ k'[u] = k[u] + 1 /\ suc'[u] = AllGone(u)
         /\ \/ ~MoreKeys(u) /\ Ended(u, IF AllGone(u) THEN "true" ELSE "false")
            \/ /\ MoreKeys(u) /\ k[u] + 1 \in 1..Len(dir[u])
               /\ Asked(u, "look", <<Request("get", dir[u][k[u] + 1], 0, None)>>)
         /\ CallShape(u)'
<1> DEFINE rs == <<Request("get", dir[u][k[u] + 1], 0, None)>>
<1>1. /\ Deleted(u) /\ call[u].op = "ArrayDelete"
      /\ suc' = [suc EXCEPT ![u] = AllGone(u)] /\ k' = [k EXCEPT ![u] = @ + 1]
      /\ IF MoreKeys(u) THEN Send(u, rs) /\ Goto(u, "look")
         ELSE Finish(u, IF AllGone(u) THEN "true" ELSE "false") /\ UNCHANGED net
      /\ UNCHANGED <<call, dir, out>> /\ UNCHANGED <<setter, pool, bounds>>
  BY DEF NextDelete, Get, AllGone, MoreKeys
<1>2. pc[u] \in {"look", "erase"} /\ Returned(u) /\ todo[u] = <<>> /\ ~failed[u]
  BY <1>1 DEF Deleted, Returned
<1>3. Len(dir[u]) \in {1, N + 1} /\ k[u] \in 1..Len(dir[u])
  BY <1>1, <1>2 DEF CallShape
<1>4. /\ dir' = [dir EXCEPT ![u] = dir'[u]] /\ dir'[u] = dir[u] /\ dir'[u] \in Seq(0..Elsewhere)
      /\ out' = [out EXCEPT ![u] = out'[u]]
      /\ k' = [k EXCEPT ![u] = k'[u]] /\ k'[u] = k[u] + 1
      /\ suc' = [suc EXCEPT ![u] = suc'[u]] /\ suc'[u] = AllGone(u) /\ suc'[u] \in BOOLEAN
      /\ UNCHANGED call /\ UNCHANGED <<call, dir>> /\ call'[u] = call[u] /\ writes' = writes
  BY <1>1 DEF UserType, bounds, AllGone
<1>5. k'[u] \in 1..N + 2
  <2>1. \A i \in 1..Len(dir[u]) : i + 1 \in 1..N + 2
    BY <1>3, KeyCount
  <2> QED
    BY <1>3, <1>4, <2>1
<1>6. CASE MoreKeys(u)
  <2>1. k[u] + 1 \in 1..Len(dir[u])
    <3>1. k[u] < Len(dir[u]) - 1 \/ k[u] = Len(dir[u]) - 1
      BY <1>6, Zenon DEF MoreKeys
    <3>2. Len(dir[u]) \in Nat
      BY <1>3, KeyCount
    <3>3. \A n \in Nat : \A i \in 1..n : i < n - 1 \/ i = n - 1 => i + 1 \in 1..n
      OBVIOUS
    <3> QED
      BY <1>3, <3>1, <3>2, <3>3
  <2>2. dir[u][k[u] + 1] \in 0..Elsewhere
    BY <1>4, <2>1, ElementOf
  <2>3. rs \in Seq(RequestType) /\ Len(rs) = 1 /\ rs[1].op = "get"
    BY <2>2, OneGet DEF Request
  <2>4. "look" \in {"dir", "elem", "last", "batch", "look", "erase"}
    OBVIOUS
  <2> HIDE DEF rs
  <2>5. Send(u, rs) /\ Goto(u, "look")
    BY <1>1, <1>6
  <2>6. Asked(u, "look", rs)
    BY <1>1, <1>4, <1>5, <2>3, <2>4, <2>5, AskStep, Zenon
  <2>7. Count(u)' = 1
    BY <2>3, <2>6, OneAsked DEF Asked
  <2>8. CallShape(u)'
    <3>1. Len(dir'[u]) \in {1, N + 1} /\ k'[u] \in 1..Len(dir'[u])
      BY <1>3, <1>4, <2>1
    <3> QED
      BY <1>1, <1>4, <2>6, <2>7, <3>1 DEF CallShape, Asked, Destructive
  <2> QED
    BY <1>1, <1>2, <1>4, <1>6, <2>1, <2>6, <2>8 DEF rs
<1>7. CASE ~MoreKeys(u)
  <2> DEFINE kind == IF AllGone(u) THEN "true" ELSE "false"
  <2>1. Finish(u, kind) /\ UNCHANGED net
    BY <1>1, <1>7
  <2>2. kind \in {"nil", "error", "value", "true", "false"}
    OBVIOUS
  <2> HIDE DEF kind
  <2>3. Ended(u, kind)
    BY <1>1, <1>2, <1>4, <1>5, <2>1, <2>2, FinishStep, Zenon
  <2> QED
    BY <1>1, <1>2, <1>4, <1>7, <2>3, EndedShape DEF kind
<1> QED
  BY <1>6, <1>7

\* What a call asks for when it begins.
Starts(u, op, label, rs) ==
  /\ rs \in Seq(RequestType)
  /\ op \in DirFirst => label = "dir" /\ rs = <<Request("get", Directory, 0, None)>>
  /\ op \notin DirFirst => label = "last"
  /\ op \notin Destructive => Len(rs) = 1 /\ rs[1].op \in {"get", "getcond"}

\* Whatever call begins, it asks for something.
LEMMA StartTypes ==
  ASSUME NEW u \in Users, NEW op \in CallOps, NEW i \in Positions,
         i # 1 => op \in {"ArrayGetElem", "ArraySetElem"},
         CASE op \in DirFirst -> GetArrayDir(u)
           [] op = "GetCond" -> GetCond(u, i)
           [] op = "GetWithCheckpoint" -> GetWithCheckpoint(u, i)
           [] op = "Init" -> Flush(u)
           [] op = "ArraySet" -> ArraySet(u)
  PROVE  \E label \in {"dir", "last"}, rs \in Seq(RequestType) :
           Starts(u, op, label, rs) /\ Label(u, label) /\ (Send(u, rs) \/ SendBulk(u, rs))
<1>1. op \in AllOps
  BY CallAssumption
<1>2. CASE op \in DirFirst
  <2> DEFINE rs == <<Request("get", Directory, 0, None)>>
  <2>1. Label(u, "dir") /\ Send(u, rs)
    BY <1>2 DEF GetArrayDir, DirFirst, Batched
  <2>2. Directory \in 0..Elsewhere
    BY Sizes DEF Directory, Elsewhere
  <2>3. rs \in Seq(RequestType) /\ Len(rs) = 1 /\ rs[1].op = "get"
    BY <2>2, OneGet DEF Request
  <2>4. Starts(u, op, "dir", rs)
    BY <1>2, <2>3 DEF Starts
  <2> HIDE DEF rs
  <2> QED
    BY <2>1, <2>3, <2>4
<1>3. CASE op = "GetCond"
  <2> DEFINE rs == <<Request("getcond", i, 0, None)>>
  <2>1. Label(u, "last") /\ Send(u, rs)
    BY <1>3 DEF GetCond, DirFirst, Batched
  <2>2. i \in 0..Elsewhere
    BY Sizes DEF Positions, Elsewhere
  <2>3. rs \in Seq(RequestType) /\ Len(rs) = 1 /\ rs[1].op = "getcond"
    BY <2>2, OneGet DEF Request
  <2>4. Starts(u, op, "last", rs)
    BY <1>3, <2>3 DEF Starts, DirFirst, Batched
  <2> HIDE DEF rs
  <2> QED
    BY <2>1, <2>3, <2>4
<1>4. CASE op = "GetWithCheckpoint"
  <2> DEFINE rs == <<Request("get", i, 0, None)>>
  <2>1. Label(u, "last") /\ Send(u, rs)
    BY <1>4 DEF GetWithCheckpoint, DirFirst, Batched
  <2>2. i \in 0..Elsewhere
    BY Sizes DEF Positions, Elsewhere
  <2>3. rs \in Seq(RequestType) /\ Len(rs) = 1 /\ rs[1].op = "get"
    BY <2>2, OneGet DEF Request
  <2>4. Starts(u, op, "last", rs)
    BY <1>4, <2>3 DEF Starts, DirFirst, Batched
  <2> HIDE DEF rs
  <2> QED
    BY <2>1, <2>3, <2>4
<1>5. CASE op = "Init"
  <2> DEFINE rs == <<Request("flush", 0, 0, None)>>
  <2>1. Label(u, "last") /\ Send(u, rs)
    BY <1>5 DEF Flush, DirFirst, Batched
  <2>2. 0 \in 0..Elsewhere
    BY Sizes DEF Elsewhere
  <2>3. rs \in Seq(RequestType)
    BY <2>2, OneGet
  <2>4. Starts(u, op, "last", rs)
    BY <1>5, <2>3 DEF Starts, DirFirst, Batched, Destructive
  <2> HIDE DEF rs
  <2> QED
    BY <2>1, <2>3, <2>4
<1>6. CASE op = "ArraySet"
  <2>1. Label(u, "last") /\ SendBulk(u, BatchRequests)
    BY <1>6 DEF ArraySet, DirFirst, Batched
  <2>2. BatchRequests \in Seq(RequestType)
    BY BatchRequestsType
  <2>3. Starts(u, op, "last", BatchRequests)
    BY <1>6, <2>2 DEF Starts, DirFirst, Batched, Destructive
  <2> QED
    BY <2>1, <2>2, <2>3
<1> QED
  BY <1>1, <1>2, <1>3, <1>4, <1>5, <1>6 DEF AllOps

Begun(u, op, i, label, rs) ==
  /\ pc[u] = "idle" /\ (i # 1 => op \in {"ArrayGetElem", "ArraySetElem"})
  /\ Starts(u, op, label, rs) /\ Asked(u, label, rs)
  /\ writes' = writes + (IF op \in Destructive THEN 1 ELSE 0)
  /\ call'[u].op = op /\ call'[u].idx = i /\ call'[u].writes = writes'
  /\ call'[u].clean <=> (sres = "nil" /\ writes = 0)
  /\ call'[u].settled <=> (spc = "returned" /\ AllIdle)
  /\ k'[u] = 1 /\ suc'[u] = TRUE /\ result'[u] = "none" /\ out'[u] = <<>>

\* A call begins at its first label with its first requests.
LEMMA BeginStep ==
  ASSUME NetType, UserType, NEW u \in Users, CallShape(u), Begin(u)
  PROVE  /\ CallShape(u)'
         /\ \E op \in AllOps, i \in Positions, label \in {"dir", "last"}, rs \in Seq(RequestType) :
              Begun(u, op, i, label, rs)
<1>1. PICK op \in CallOps, i \in Positions :
        /\ i # 1 => op \in {"ArrayGetElem", "ArraySetElem"}
        /\ writes' = writes + (IF op \in Destructive THEN 1 ELSE 0)
        /\ call' = [call EXCEPT ![u] = [op |-> op, idx |-> i, writes |-> writes',
                                        clean |-> (sres = "nil" /\ writes = 0),
                                        settled |-> (spc = "returned" /\ AllIdle)]]
        /\ CASE op \in DirFirst -> GetArrayDir(u)
             [] op = "GetCond" -> GetCond(u, i)
             [] op = "GetWithCheckpoint" -> GetWithCheckpoint(u, i)
             [] op = "Init" -> Flush(u)
             [] op = "ArraySet" -> ArraySet(u)
  BY DEF Begin
<1>2. /\ pc[u] = "idle"
      /\ out' = [out EXCEPT ![u] = <<>>] /\ dir' = [dir EXCEPT ![u] = <<>>]
      /\ k' = [k EXCEPT ![u] = 1] /\ suc' = [suc EXCEPT ![u] = TRUE]
      /\ result' = [result EXCEPT ![u] = "none"]
      /\ UNCHANGED <<setter, pool, failures, refusals>>
  BY DEF Begin
<1>3. PICK label \in {"dir", "last"}, rs \in Seq(RequestType) :
        Starts(u, op, label, rs) /\ Label(u, label) /\ (Send(u, rs) \/ SendBulk(u, rs))
  BY <1>1, StartTypes
<1> DEFINE c == [op |-> op, idx |-> i, writes |-> writes',
                 clean |-> (sres = "nil" /\ writes = 0),
                 settled |-> (spc = "returned" /\ AllIdle)]
<1>4. op \in AllOps
  BY CallAssumption
<1>5. writes' \in Nat
  <2>1. writes \in Nat
    BY DEF UserType
  <2> QED
    BY <1>1, <2>1
<1>6. c \in CallType
  BY <1>4, <1>5, Zenon DEF CallType
<1>7. /\ c.op = op /\ c.idx = i /\ c.writes = writes'
      /\ c.clean = (sres = "nil" /\ writes = 0)
      /\ c.settled = (spc = "returned" /\ AllIdle)
  BY Zenon
<1> HIDE DEF c
<1>8. pc' = [pc EXCEPT ![u] = label] /\ call' = [call EXCEPT ![u] = c]
  BY <1>1, <1>3 DEF Label, c
<1>9. UserType'
  <2>1. <<>> \in Seq(0..Elsewhere) /\ 1 \in 1..N + 2
    BY Sizes
  <2> QED
    BY <1>2, <1>5, <1>6, <1>8, <2>1 DEF UserType
<1>10. \A v \in Users \ {u} : CallSame(v)
  BY <1>2, <1>8 DEF UserType, CallSame
<1>11. /\ NetType' /\ store' = store /\ \A p \in Procs \ {u} : NetSame(p)
       /\ todo'[u] = rs /\ got'[u] = <<>> /\ failed'[u] = FALSE
  BY <1>3, SentNet, ProcTypes
<1>12. /\ pc'[u] = label /\ call'[u] = c /\ k'[u] = 1 /\ suc'[u] = TRUE /\ result'[u] = "none"
       /\ out'[u] = <<>>
  BY <1>2, <1>8 DEF UserType
<1>13. Asked(u, label, rs)
  BY <1>2, <1>9, <1>10, <1>11, <1>12 DEF Asked, UserStep
<1>14. CallShape(u)'
  <2>1. op \notin Destructive => Count(u)' = 1 /\ \A j \in 1..Len(todo'[u]) : todo'[u][j].op \in {"get", "getcond"}
    <3>1. CASE op \in Destructive
      BY <3>1
    <3>2. CASE op \notin Destructive
      <4>1. Len(rs) = 1 /\ rs[1].op \in {"get", "getcond"}
        BY <1>3, <3>2 DEF Starts
      <4> QED
        BY <1>11, <4>1, OneAsked
    <3> QED
      BY <3>1, <3>2
  <2>2. label = "dir" => Count(u)' = 1
    <3>1. CASE label = "dir"
      <4>1. Len(rs) = 1 /\ rs[1].op = "get"
        BY <1>3, <1>4, <3>1 DEF Starts, Request
      <4> QED
        BY <1>11, <4>1, OneAsked
    <3> QED
      BY <3>1
  <2>3. CASE label = "dir"
    <3>1. op \in DirFirst
      BY <1>3, <2>3 DEF Starts
    <3>2. i # 1 => op \notin Batched \cup {"ArrayGet", "ArrayDelete"}
      BY <1>1 DEF Batched
    <3> QED
      BY <1>7, <1>11, <1>12, <2>1, <2>2, <2>3, <3>1, <3>2 DEF CallShape
  <2>4. CASE label = "last"
    <3>1. op \notin DirFirst
      BY <1>3, <2>4 DEF Starts
    <3>2. op \notin {"ArrayGet", "ArrayDelete", "ArrayGetElem"} \cup Batched
      BY <3>1 DEF DirFirst
    <3> QED
      BY <1>7, <1>11, <1>12, <2>1, <2>4, <3>2 DEF CallShape
  <2> QED
    BY <2>3, <2>4
<1>15. Begun(u, op, i, label, rs)
  BY <1>1, <1>2, <1>3, <1>7, <1>12, <1>13, Zenon DEF Begun
<1> QED
  BY <1>4, <1>14, <1>15

-----------------------------------------------------------------------------
(* The net and ArraySetN: types, and the counting of the jobs. *)

\* A request changes the store to a store.
LEMMA AppliedType ==
  ASSUME NetType, NEW r \in RequestType
  PROVE  Applied(store, r) \in [0..N -> [PageNumbers -> Stored]]
<1>1. store \in [0..N -> [PageNumbers -> Stored]] /\ r.value \in Stored /\ None \in Stored
  BY DEF NetType, RequestType, Stored
<1>2. [store EXCEPT ![r.elem][r.page] = r.value] \in [0..N -> [PageNumbers -> Stored]]
  BY <1>1
<1>3. [store EXCEPT ![r.elem][r.page] = None] \in [0..N -> [PageNumbers -> Stored]]
  BY <1>1
<1>4. [e \in 0..N |-> [pg \in PageNumbers |-> None]] \in [0..N -> [PageNumbers -> Stored]]
  BY <1>1
<1>5. \/ Applied(store, r) = [store EXCEPT ![r.elem][r.page] = r.value]
      \/ Applied(store, r) = [store EXCEPT ![r.elem][r.page] = None]
      \/ Applied(store, r) = [e \in 0..N |-> [pg \in PageNumbers |-> None]]
      \/ Applied(store, r) = store
  <2>1. CASE r.op = "set"
    BY <2>1, Zenon DEF Applied
  <2>2. CASE r.op = "delete" /\ r.elem \in 0..N
    BY <2>2 DEF Applied
  <2>3. CASE r.op = "flush"
    BY <2>3 DEF Applied
  <2>4. CASE r.op # "set" /\ ~(r.op = "delete" /\ r.elem \in 0..N) /\ r.op # "flush"
    BY <2>4 DEF Applied
  <2> QED
    BY <2>1, <2>2, <2>3, <2>4
<1> QED
  BY <1>1, <1>2, <1>3, <1>4, <1>5

\* An answer is a stored value, that of the key for a get.
LEMMA AnswerTypes ==
  ASSUME NetType, NEW r \in RequestType, NEW a \in Answers(r)
  PROVE  a \in Stored /\ (r.op = "get" => a = Lookup(r.elem, r.page))
<1>1. Lookup(r.elem, r.page) \in Stored /\ None \in Stored
  BY DEF Lookup, NetType, Stored
<1>2. CASE r.op = "get"
  BY <1>1, <1>2 DEF Answers
<1>3. CASE r.op = "getcond"
  BY <1>1, <1>3 DEF Answers
<1>4. CASE r.op \notin {"get", "getcond"}
  BY <1>1, <1>4 DEF Answers
<1> QED
  BY <1>2, <1>3, <1>4

\* A request on its way and the ones behind it.
LEMMA HeadTail ==
  ASSUME NEW S, NEW s \in Seq(S), s # <<>>
  PROVE  /\ Head(s) = s[1] /\ s[1] \in S /\ Len(s) >= 1 /\ 1 \in 1..Len(s)
         /\ Tail(s) \in Seq(S) /\ Len(Tail(s)) = Len(s) - 1 /\ Len(s) \in Nat
         /\ \A i \in 1..Len(Tail(s)) : i + 1 \in 1..Len(s) /\ Tail(s)[i] = s[i + 1]
OBVIOUS

\* The first request of p is done with, with result a.
Served(p, a) ==
  /\ NetType' /\ todo[p] # <<>> /\ a \in Stored
  /\ todo'[p] = Tail(todo[p]) /\ got'[p] = Append(got[p], a) /\ failed'[p] = failed[p]
  /\ \A q \in Procs \ {p} : NetSame(q)
  /\ UNCHANGED <<user, setter, pool, calls, failures, writes>>

\* An answer takes the first request away and applies it.
LEMMA AnsweredStep ==
  ASSUME NetType, NEW p \in Procs, Answered(p)
  PROVE  /\ \E a \in Stored : /\ Served(p, a)
                              /\ todo[p][1].op = "get" => a = Lookup(todo[p][1].elem, todo[p][1].page)
         /\ store' = Applied(store, todo[p][1]) /\ todo[p][1] \in RequestType
         /\ refusals' = refusals
<1>1. todo[p] \in Seq(RequestType) /\ todo[p] # <<>>
  BY DEF Answered, NetType
<1>2. Head(todo[p]) = todo[p][1] /\ todo[p][1] \in RequestType /\ Tail(todo[p]) \in Seq(RequestType)
  BY <1>1, HeadTail
<1>3. /\ store' = Applied(store, todo[p][1]) /\ todo' = [todo EXCEPT ![p] = Tail(@)]
      /\ UNCHANGED <<conn, bulk, failed, user, setter, pool, bounds>>
  BY <1>2 DEF Answered
<1>4. PICK a \in Answers(todo[p][1]) : got' = [got EXCEPT ![p] = Append(@, a)]
  BY <1>2 DEF Answered
<1>5. a \in Stored /\ (todo[p][1].op = "get" => a = Lookup(todo[p][1].elem, todo[p][1].page))
  BY <1>2, AnswerTypes
<1>6. NetType'
  <2>1. store' \in [0..N -> [PageNumbers -> Stored]]
    BY <1>2, <1>3, AppliedType
  <2>2. Append(got[p], a) \in Seq(Stored)
    BY <1>5 DEF NetType
  <2> QED
    BY <1>2, <1>3, <1>4, <2>1, <2>2 DEF NetType
<1>7. Served(p, a)
  BY <1>1, <1>3, <1>4, <1>5, <1>6 DEF Served, NetType, NetSame, bounds
<1> QED
  BY <1>2, <1>3, <1>5, <1>7 DEF bounds

\* A refused set changes nothing in the store.
LEMMA RefusedStep ==
  ASSUME NetType, UserType, NEW p \in Procs, Refused(p)
  PROVE  /\ Served(p, None) /\ store' = store /\ refusals' = refusals + 1
         /\ todo[p][1].op = "set"
<1>1. todo[p] \in Seq(RequestType) /\ todo[p] # <<>>
  BY DEF Refused, NetType
<1>2. Head(todo[p]) = todo[p][1] /\ Tail(todo[p]) \in Seq(RequestType)
  BY <1>1, HeadTail
<1>3. /\ todo[p][1].op = "set" /\ store' = store /\ todo' = [todo EXCEPT ![p] = Tail(@)]
      /\ refusals' = refusals + 1 /\ got' = [got EXCEPT ![p] = Append(@, None)]
      /\ UNCHANGED <<store, conn, bulk, failed, user, setter, pool, calls, failures, writes>>
  BY <1>2 DEF Refused
<1>4. None \in Stored
  BY DEF Stored
<1>5. NetType'
  <2>1. Append(got[p], None) \in Seq(Stored)
    BY <1>4 DEF NetType
  <2> QED
    BY <1>2, <1>3, <2>1 DEF NetType
<1>6. Served(p, None)
  BY <1>1, <1>3, <1>4, <1>5 DEF Served, NetType, NetSame
<1> QED
  BY <1>3, <1>6

\* The request of p fails.
Broken(p) ==
  /\ NetType' /\ todo[p] # <<>> /\ todo[p][1] \in RequestType
  /\ store' = store \/ store' = Applied(store, todo[p][1])
  /\ todo'[p] = <<>> /\ failed'[p] = TRUE /\ got'[p] = got[p]
  /\ \A q \in Procs \ {p} : NetSame(q)
  /\ failures' = failures + 1
  /\ UNCHANGED <<user, setter, pool, calls, refusals, writes>>

\* A failed request breaks the call, applied or not.
LEMMA FailedStep ==
  ASSUME NetType, NEW p \in Procs, Failed(p)
  PROVE  Broken(p)
<1>1. todo[p] \in Seq(RequestType) /\ todo[p] # <<>>
  BY DEF Failed, NetType
<1>2. Head(todo[p]) = todo[p][1] /\ todo[p][1] \in RequestType
  BY <1>1, HeadTail
<1>3. /\ failures' = failures + 1
      /\ store' \in {store, Applied(store, todo[p][1])}
      /\ failed' = [failed EXCEPT ![p] = TRUE]
      /\ todo' = [todo EXCEPT ![p] = <<>>]
      /\ conn' = IF bulk[p] THEN [conn EXCEPT ![p] = "stuck"] ELSE conn
      /\ UNCHANGED <<bulk, got, user, setter, pool, calls, refusals, writes>>
  BY <1>2 DEF Failed
<1>4. NetType'
  <2>1. store' \in [0..N -> [PageNumbers -> Stored]]
    BY <1>2, <1>3, AppliedType DEF NetType
  <2>2. <<>> \in Seq(RequestType)
    OBVIOUS
  <2>3. conn' \in [Procs -> {"none", "open", "stuck"}]
    BY <1>3 DEF NetType
  <2> QED
    BY <1>3, <2>1, <2>2, <2>3 DEF NetType
<1> QED
  BY <1>1, <1>2, <1>3, <1>4 DEF Broken, NetType, NetSame

\* Where the calls are when a request is done with or fails.
LEMMA SameShape ==
  ASSUME NEW u \in Users, CallShape(u), CallSame(u), NetSame(u)
  PROVE  CallShape(u)'
<1>1. Batch(u, dir[u], k[u])' = Batch(u, dir[u], k[u]) /\ Count(u)' = Count(u)
  BY DEF CallSame, NetSame, Batch, SizeOf, Count
<1> QED
  BY <1>1 DEF CallShape, CallSame, NetSame

\* Steps that leave the users' variables leave every call.
LEMMA UserUnchanged ==
  ASSUME UNCHANGED user
  PROVE  \A u : CallSame(u)
BY DEF user, CallSame

\* An answer keeps every call in its shape.
LEMMA ServedShape ==
  ASSUME NetType, UserType, NEW p \in Procs, NEW a, Served(p, a), refusals' \in Nat, ShapeInv
  PROVE  ShapeInv' /\ UserType'
<1>1. UserType'
  BY DEF Served, UserType, user
<1>2. \A u : CallSame(u)
  BY UserUnchanged DEF Served
<1>3. SUFFICES ASSUME NEW u \in Users PROVE CallShape(u)'
  BY <1>1 DEF ShapeInv
<1>4. CallShape(u)
  BY DEF ShapeInv
<1>5. CASE u # p
  BY <1>2, <1>4, <1>5, ProcTypes, SameShape DEF Served
<1>6. CASE u = p
  <2>1. todo[u] \in Seq(RequestType) /\ todo[u] # <<>> /\ got[u] \in Seq(Stored) /\ a \in Stored
    BY <1>6 DEF NetType, Served
  <2>9. todo'[u] = Tail(todo[u])
    BY <1>6 DEF Served
  <2>2. /\ Len(todo'[u]) = Len(todo[u]) - 1 /\ Len(todo[u]) \in Nat
        /\ \A i \in 1..Len(todo'[u]) : i + 1 \in 1..Len(todo[u]) /\ todo'[u][i] = todo[u][i + 1]
    <3> DEFINE s == todo[u]
    <3>1. s \in Seq(RequestType) /\ s # <<>>
      BY <2>1
    <3>2. /\ Len(Tail(s)) = Len(s) - 1 /\ Len(s) \in Nat
          /\ \A i \in 1..Len(Tail(s)) : i + 1 \in 1..Len(s) /\ Tail(s)[i] = s[i + 1]
      <4> HIDE DEF s
      <4> QED
        BY <3>1, HeadTail
    <3> QED
      BY <2>9, <3>2
  <2>3. Len(got'[u]) = Len(got[u]) + 1 /\ Len(got[u]) \in Nat
    BY <1>6, <2>1 DEF Served
  <2>4. Count(u)' = Count(u)
    <3>1. \A m, n \in Nat : (m + 1) + (n - 1) = m + n
      OBVIOUS
    <3>2. Len(got'[u]) + Len(todo'[u]) = (Len(got[u]) + 1) + (Len(todo[u]) - 1)
      BY <2>2, <2>3
    <3> QED
      BY <2>2, <2>3, <3>1, <3>2, Zenon DEF Count
  <2>5. Batch(u, dir[u], k[u])' = Batch(u, dir[u], k[u])
    BY <1>2 DEF CallSame, Batch, SizeOf
  <2>6. (\A i \in 1..Len(todo[u]) : todo[u][i].op \in {"get", "getcond"}) =>
          \A i \in 1..Len(todo'[u]) : todo'[u][i].op \in {"get", "getcond"}
    BY <2>2
  <2>7. failed'[u] = failed[u] /\ ~failed[u] /\ pc[u] # "idle"
    BY <1>4, <1>6, <2>1 DEF Served, CallShape
  <2>8. CallSame(u)
    BY <1>2
  <2> QED
    BY <1>4, <2>4, <2>5, <2>6, <2>7, <2>8 DEF CallShape, CallSame
<1> QED
  BY <1>5, <1>6

\* A failure keeps every call in its shape.
LEMMA BrokenShape ==
  ASSUME NetType, UserType, NEW p \in Procs, Broken(p), ShapeInv
  PROVE  ShapeInv' /\ UserType'
<1>1. UserType'
  BY DEF Broken, UserType, user
<1>2. \A u : CallSame(u)
  BY UserUnchanged DEF Broken
<1>3. SUFFICES ASSUME NEW u \in Users PROVE CallShape(u)'
  BY <1>1 DEF ShapeInv
<1>4. CallShape(u)
  BY DEF ShapeInv
<1>5. CASE u # p
  BY <1>2, <1>4, <1>5, ProcTypes, SameShape DEF Broken
<1>6. CASE u = p
  <2>1. todo'[u] = <<>> /\ failed'[u] = TRUE /\ CallSame(u)
    BY <1>2, <1>6 DEF Broken
  <2>2. \A i \in 1..Len(todo'[u]) : FALSE
    BY <2>1
  <2> QED
    BY <1>4, <2>1, <2>2 DEF CallShape, CallSame
<1> QED
  BY <1>5, <1>6

-----------------------------------------------------------------------------
(* ArraySetN and its workers: the counting of the jobs. *)

\* Nobody but the workers is concerned.
Inside ==
  /\ NetType' /\ UNCHANGED user /\ \A u \in Users : NetSame(u)
  /\ failures' \in Nat /\ UNCHANGED <<calls, refusals, writes>>

\* A step of ArraySetN keeps every call in its shape.
LEMMA InsideShape ==
  ASSUME UserType, ShapeInv, Inside
  PROVE  ShapeInv' /\ UserType'
<1>1. UserType'
  BY DEF Inside, UserType, user
<1>2. \A u : CallSame(u)
  BY UserUnchanged DEF Inside
<1>3. ASSUME NEW u \in Users PROVE CallShape(u)'
  BY <1>2, SameShape DEF Inside, ShapeInv
<1> QED
  BY <1>1, <1>3 DEF ShapeInv

\* A step that only moves ArraySetN's own variables is one of them.
LEMMA QuietInside ==
  ASSUME NetType, UserType, UNCHANGED net, UNCHANGED user, UNCHANGED bounds
  PROVE  Inside
<1>1. NetType' /\ \A q \in Procs : NetSame(q)
  BY SilentNet
<1> QED
  BY <1>1, ProcTypes DEF Inside, UserType, bounds

\* Worker w goes to label.
LEMMA BusyStep ==
  ASSUME SetType, NEW w \in Workers, NEW label, WorkerGoto(w, label), IsFiniteSet(Busy)
  PROVE  /\ IsFiniteSet(Busy') /\ Cardinality(Busy) \in Nat /\ Cardinality(Busy') \in Nat
         /\ (wpc[w] \in {"setting", "report", "done"}) = (label \in {"setting", "report", "done"}) =>
              Cardinality(Busy') = Cardinality(Busy)
         /\ wpc[w] \notin {"setting", "report", "done"} /\ label \in {"setting", "report", "done"} =>
              Cardinality(Busy') = Cardinality(Busy) + 1
         /\ wpc[w] \in {"setting", "report", "done"} /\ label \notin {"setting", "report", "done"} =>
              Cardinality(Busy') = Cardinality(Busy) - 1
<1>1. /\ wpc'[w] = label /\ \A v \in Workers \ {w} : wpc'[v] = wpc[v]
  BY DEF WorkerGoto, SetType
<1>2. Busy' = IF label \in {"setting", "report", "done"} THEN Busy \cup {w} ELSE Busy \ {w}
  BY <1>1 DEF Busy
<1>3. w \in Busy <=> wpc[w] \in {"setting", "report", "done"}
  BY DEF Busy
<1>4. /\ IsFiniteSet(Busy \cup {w})
      /\ Cardinality(Busy \cup {w}) = IF w \in Busy THEN Cardinality(Busy) ELSE Cardinality(Busy) + 1
  BY FS_AddElement
<1>5. /\ IsFiniteSet(Busy \ {w})
      /\ Cardinality(Busy \ {w}) = IF w \in Busy THEN Cardinality(Busy) - 1 ELSE Cardinality(Busy)
  BY FS_RemoveElement
<1>6. IsFiniteSet(Busy')
  BY <1>2, <1>4, <1>5
<1>7. Cardinality(Busy) \in Nat /\ Cardinality(Busy') \in Nat
  BY <1>6, FS_CardinalityType
<1> QED
  BY <1>2, <1>3, <1>4, <1>5, <1>6, <1>7

\* The counting goes on when a worker moves.
LEMMA WorkerCounts ==
  ASSUME SetType, JobInv, NEW w \in Workers, NEW label \in {"loop", "reportConnect", "setting", "report", "done", "gone"},
         WorkerGoto(w, label), wpc[w] # "gone", UNCHANGED <<spc, nextJob, sres>>,
         jobs' \in Seq(0..N), wg' \in Nat, errs' \in 0..N + 1, wg' <= wg, Len(jobs') <= Len(jobs),
         wg' - Len(jobs') = wg - Len(jobs) + Cardinality(Busy') - Cardinality(Busy)
  PROVE  SetType' /\ JobInv'
<1>1. SetType'
  BY DEF SetType, WorkerGoto
<1>2. spc \notin {"idle", "panicked"}
  BY DEF JobInv
<1>3. /\ wg \in Nat /\ Len(jobs) \in Nat /\ Len(jobs') \in Nat /\ nextJob \in 1..N + 2
      /\ IsFiniteSet(Busy) /\ Sent' = Sent /\ Sent \in 0..1
  BY DEF SetType, JobInv, Sent
<1>4. wg + Sent = Len(jobs) + Cardinality(Busy)
  BY <1>2 DEF JobInv
<1>5. IsFiniteSet(Busy') /\ Cardinality(Busy) \in Nat /\ Cardinality(Busy') \in Nat
  BY <1>3, BusyStep
<1>6. wg' + Sent' = Len(jobs') + Cardinality(Busy')
  <2>1. PICK a \in Nat, b \in Nat, e \in Nat : a = wg' /\ b = Len(jobs') /\ e = Cardinality(Busy')
    BY <1>3, <1>5
  <2>2. PICK c \in Nat, d \in Nat, f \in Nat, s \in Nat :
          c = wg /\ d = Len(jobs) /\ f = Cardinality(Busy) /\ s = Sent
    <3>1. wg \in Nat /\ Len(jobs) \in Nat /\ Cardinality(Busy) \in Nat /\ Sent \in Nat
      BY <1>3, <1>5
    <3> QED
      BY <3>1, Zenon
  <2>3. a - b = c - d + e - f /\ c + s = d + f
    BY <1>4, <2>1, <2>2, Zenon
  <2>4. a + s = b + e
    BY <2>3
  <2> QED
    BY <1>3, <2>1, <2>2, <2>4, Zenon
<1>7. wg' <= nextJob - 1 /\ Len(jobs') <= N + 1
  BY <1>3, Sizes DEF JobInv
<1>8. spc = "returned" => wg' = 0
  BY <1>3 DEF JobInv
<1> QED
  BY <1>1, <1>2, <1>5, <1>6, <1>7, <1>8 DEF JobInv

\* A worker connects, or has an error to report.
LEMMA ConnectStep ==
  ASSUME Typed, JobInv, NEW w \in Workers, Connect(w)
  PROVE  /\ Inside /\ SetType' /\ JobInv' /\ store' = store
         /\ todo' = todo /\ failed' = failed /\ UNCHANGED <<setter, wg, errs>>
         /\ wpc[w] = "new" /\ \E label \in {"loop", "reportConnect"} : WorkerGoto(w, label)
<1>1. /\ wpc[w] = "new" /\ UNCHANGED <<store, todo, bulk, got, failed, user, setter, wg, errs>>
      /\ UNCHANGED <<calls, refusals, writes>>
      /\ conn' = conn \/ conn' = [conn EXCEPT ![w] = "open"]
      /\ failures' = failures \/ failures' = failures + 1
  BY DEF Connect
<1>2. PICK label \in {"loop", "reportConnect"} : WorkerGoto(w, label)
  BY DEF Connect
<1>3. NetType' /\ failures' \in Nat
  BY <1>1, ProcTypes DEF Typed, NetType, UserType
<1>4. Inside
  BY <1>1, <1>3 DEF Inside, NetSame
<1>5. SetType /\ jobs \in Seq(0..N) /\ wg \in Nat /\ errs \in 0..N + 1 /\ IsFiniteSet(Busy)
  BY DEF Typed, SetType, JobInv
<1>6. Cardinality(Busy') = Cardinality(Busy) /\ Cardinality(Busy) \in Nat
  BY <1>1, <1>2, <1>5, BusyStep
<1>7. UNCHANGED <<spc, nextJob, sres>> /\ jobs' = jobs /\ wg' = wg /\ errs' = errs
  BY <1>1 DEF setter
<1>8. SetType' /\ JobInv'
  BY <1>1, <1>2, <1>5, <1>6, <1>7, WorkerCounts
<1> QED
  BY <1>1, <1>2, <1>4, <1>8

\* Set at worker w: an error at once, or the requests of the value.
LEMMA TakeStep ==
  ASSUME Typed, JobInv, NEW w \in Workers, Take(w)
  PROVE  /\ Inside /\ SetType' /\ JobInv' /\ store' = store
         /\ jobs # <<>> /\ jobs[1] \in 0..N /\ jobs' = Tail(jobs) /\ wpc[w] = "loop"
         /\ \A q \in Procs \ {w} : NetSame(q)
         /\ \/ WorkerGoto(w, "report") /\ todo'[w] = todo[w]
            \/ /\ WorkerGoto(w, "setting") /\ todo'[w] = SetRequests(Element(jobs[1]))
               /\ failed'[w] = FALSE
         /\ UNCHANGED <<spc, nextJob, sres, wg, errs>>
<1>1. /\ wpc[w] = "loop" /\ jobs # <<>> /\ jobs' = Tail(jobs)
      /\ UNCHANGED <<spc, nextJob, sres, user, wg, errs, bounds>>
  BY DEF Take
<1>2. jobs \in Seq(0..N) /\ NetType /\ UserType /\ SetType /\ w \in Procs /\ w \notin Users
  BY ProcTypes DEF Typed, SetType
<1>3. /\ Head(jobs) = jobs[1] /\ jobs[1] \in 0..N /\ Tail(jobs) \in Seq(0..N)
      /\ Len(Tail(jobs)) = Len(jobs) - 1 /\ Len(jobs) \in Nat /\ Len(jobs) >= 1
  BY <1>1, <1>2, HeadTail
<1>4. JobValue(jobs[1]) = Element(jobs[1]) /\ Element(jobs[1]) \in Values
  BY <1>3, ValueTypes
<1>5. \/ WorkerGoto(w, "report") /\ UNCHANGED net
      \/ WorkerGoto(w, "setting") /\ SendBulk(w, SetRequests(Element(jobs[1])))
  BY <1>3, <1>4 DEF Take
<1>6. SetRequests(Element(jobs[1])) \in Seq(RequestType)
  BY <1>4, SetRequestsAre
<1>7. /\ NetType' /\ store' = store /\ \A q \in Procs \ {w} : NetSame(q)
      /\ \/ WorkerGoto(w, "report") /\ todo'[w] = todo[w]
         \/ /\ WorkerGoto(w, "setting") /\ todo'[w] = SetRequests(Element(jobs[1]))
            /\ failed'[w] = FALSE
  <2>1. CASE WorkerGoto(w, "report") /\ UNCHANGED net
    <3>1. NetType' /\ store' = store /\ \A q \in Procs : NetSame(q)
      BY <1>2, <2>1, SilentNet
    <3> QED
      BY <1>2, <2>1, <3>1 DEF NetSame
  <2>2. CASE WorkerGoto(w, "setting") /\ SendBulk(w, SetRequests(Element(jobs[1])))
    <3>1. /\ NetType' /\ store' = store /\ todo'[w] = SetRequests(Element(jobs[1]))
          /\ failed'[w] = FALSE /\ \A q \in Procs \ {w} : NetSame(q)
      BY <1>2, <1>6, <2>2, SentNet
    <3> QED
      BY <2>2, <3>1
  <2> QED
    BY <1>5, <2>1, <2>2
<1>8. Inside
  BY <1>1, <1>2, <1>7, ProcTypes DEF Inside, UserType, bounds
<1>9. PICK label \in {"report", "setting"} : WorkerGoto(w, label)
  BY <1>5
<1>10. wg \in Nat /\ errs \in 0..N + 1 /\ IsFiniteSet(Busy)
  BY <1>2 DEF SetType, JobInv
<1>11. Cardinality(Busy') = Cardinality(Busy) + 1 /\ Cardinality(Busy) \in Nat
  BY <1>1, <1>2, <1>9, <1>10, BusyStep
<1>12. /\ UNCHANGED <<spc, nextJob, sres>> /\ jobs' \in Seq(0..N) /\ wg' = wg /\ errs' = errs
       /\ Len(jobs') <= Len(jobs)
       /\ wg' - Len(jobs') = wg - Len(jobs) + Cardinality(Busy') - Cardinality(Busy)
  BY <1>1, <1>3, <1>10, <1>11
<1>13. SetType' /\ JobInv'
  <2>1. wg' \in Nat /\ errs' \in 0..N + 1 /\ wg' <= wg /\ wpc[w] # "gone"
    BY <1>1, <1>10, <1>12
  <2> QED
    BY <1>2, <1>9, <1>12, <2>1, WorkerCounts
<1> QED
  BY <1>1, <1>3, <1>7, <1>8, <1>13

\* A worker's Set has returned.
LEMMA SetReturnsStep ==
  ASSUME Typed, JobInv, NEW w \in Workers, SetReturns(w)
  PROVE  /\ Inside /\ SetType' /\ JobInv' /\ store' = store /\ UNCHANGED net
         /\ wpc[w] = "setting" /\ todo[w] = <<>> /\ UNCHANGED <<setter, wg, errs>>
         /\ (failed[w] /\ WorkerGoto(w, "report")) \/ (~failed[w] /\ WorkerGoto(w, "done"))
<1>1. /\ wpc[w] = "setting" /\ todo[w] = <<>>
      /\ UNCHANGED net /\ UNCHANGED user /\ UNCHANGED bounds /\ UNCHANGED <<setter, wg, errs>>
  BY DEF SetReturns
<1>2. Inside
  BY <1>1, QuietInside DEF Typed
<1>3. (failed[w] /\ WorkerGoto(w, "report")) \/ (~failed[w] /\ WorkerGoto(w, "done"))
  BY Zenon DEF SetReturns
<1>4. PICK label \in {"report", "done"} : WorkerGoto(w, label)
  BY <1>3
<1>5. SetType /\ jobs \in Seq(0..N) /\ wg \in Nat /\ errs \in 0..N + 1 /\ IsFiniteSet(Busy)
  BY DEF Typed, SetType, JobInv
<1>6. Cardinality(Busy') = Cardinality(Busy) /\ Cardinality(Busy) \in Nat
  BY <1>1, <1>4, <1>5, BusyStep
<1>7. UNCHANGED <<spc, nextJob, sres>> /\ jobs' = jobs /\ wg' = wg /\ errs' = errs
  BY <1>1 DEF setter
<1>8. SetType' /\ JobInv'
  BY <1>1, <1>4, <1>5, <1>6, <1>7, WorkerCounts
<1> QED
  BY <1>1, <1>2, <1>3, <1>8 DEF net

\* A worker has room in the channel for its error.
LEMMA ReportStep ==
  ASSUME Typed, JobInv, NEW w \in Workers, Report(w)
  PROVE  /\ Inside /\ SetType' /\ JobInv' /\ UNCHANGED net
         /\ wpc[w] \in {"report", "reportConnect"} /\ errs' = errs + 1 /\ UNCHANGED <<setter, wg>>
         /\ \E label \in {"done", "loop"} : WorkerGoto(w, label)
<1>1. /\ wpc[w] \in {"report", "reportConnect"} /\ errs < Capacity /\ errs' = errs + 1
      /\ UNCHANGED net /\ UNCHANGED user /\ UNCHANGED bounds /\ UNCHANGED <<setter, wg>>
  BY DEF Report
<1>2. Inside
  BY <1>1, QuietInside DEF Typed
<1>3. (wpc[w] = "report" /\ WorkerGoto(w, "done")) \/ (wpc[w] = "reportConnect" /\ WorkerGoto(w, "loop"))
  BY <1>1 DEF Report
<1>4. PICK label \in {"done", "loop"} :
        WorkerGoto(w, label) /\ (label = "done" <=> wpc[w] = "report")
  BY <1>3
<1>5. SetType /\ jobs \in Seq(0..N) /\ wg \in Nat /\ errs' \in 0..N + 1 /\ IsFiniteSet(Busy)
  BY <1>1, Sizes DEF Typed, SetType, JobInv, Capacity
<1>6. Cardinality(Busy') = Cardinality(Busy) /\ Cardinality(Busy) \in Nat
  BY <1>1, <1>4, <1>5, BusyStep
<1>7. UNCHANGED <<spc, nextJob, sres>> /\ jobs' = jobs /\ wg' = wg
  BY <1>1 DEF setter
<1>8. SetType' /\ JobInv'
  BY <1>1, <1>4, <1>5, <1>6, <1>7, WorkerCounts
<1> QED
  BY <1>1, <1>2, <1>4, <1>8

\* A worker takes its job off the wait group.
LEMMA DoneJobStep ==
  ASSUME Typed, JobInv, NEW w \in Workers, DoneJob(w)
  PROVE  /\ Inside /\ SetType' /\ JobInv' /\ UNCHANGED net /\ UNCHANGED <<setter, errs>>
         /\ wpc[w] = "done" /\ WorkerGoto(w, "loop")
<1>1. /\ wpc[w] = "done" /\ wg > 0 /\ wg' = wg - 1 /\ WorkerGoto(w, "loop")
      /\ UNCHANGED net /\ UNCHANGED user /\ UNCHANGED bounds /\ UNCHANGED <<setter, errs>>
  BY DEF DoneJob
<1>2. Inside
  BY <1>1, QuietInside DEF Typed
<1>5. SetType /\ jobs \in Seq(0..N) /\ wg \in Nat /\ errs \in 0..N + 1 /\ IsFiniteSet(Busy)
  BY DEF Typed, SetType, JobInv
<1>6. /\ Cardinality(Busy') = Cardinality(Busy) - 1 /\ Cardinality(Busy) \in Nat
      /\ Cardinality(Busy') \in Nat
  BY <1>1, <1>5, BusyStep
<1>7. /\ UNCHANGED <<spc, nextJob, sres>> /\ jobs' = jobs /\ errs' = errs
      /\ wg' \in Nat /\ wg' <= wg
      /\ wg' - Len(jobs') = wg - Len(jobs) + Cardinality(Busy') - Cardinality(Busy)
  BY <1>1, <1>5, <1>6 DEF setter
<1>8. SetType' /\ JobInv'
  BY <1>1, <1>5, <1>7, WorkerCounts
<1> QED
  BY <1>1, <1>2, <1>8

\* A worker leaves when there are no jobs left.
LEMMA ExitStep ==
  ASSUME Typed, JobInv, NEW w \in Workers, Exit(w)
  PROVE  /\ Inside /\ SetType' /\ JobInv' /\ store' = store
         /\ todo' = todo /\ failed' = failed /\ UNCHANGED <<setter, wg, errs>>
         /\ wpc[w] = "loop" /\ WorkerGoto(w, "gone")
<1>1. /\ wpc[w] = "loop" /\ UNCHANGED <<store, todo, bulk, got, failed, user, setter, wg, errs>>
      /\ UNCHANGED bounds /\ conn' = [conn EXCEPT ![w] = "none"] /\ WorkerGoto(w, "gone")
  BY DEF Exit
<1>3. NetType' /\ UNCHANGED <<calls, refusals, writes>> /\ failures' \in Nat
  BY <1>1, ProcTypes DEF Typed, NetType, UserType, bounds
<1>4. Inside
  BY <1>1, <1>3 DEF Inside, NetSame
<1>5. SetType /\ jobs \in Seq(0..N) /\ wg \in Nat /\ errs \in 0..N + 1 /\ IsFiniteSet(Busy)
  BY DEF Typed, SetType, JobInv
<1>6. Cardinality(Busy') = Cardinality(Busy) /\ Cardinality(Busy) \in Nat
  BY <1>1, <1>5, BusyStep
<1>7. UNCHANGED <<spc, nextJob, sres>> /\ jobs' = jobs /\ wg' = wg /\ errs' = errs
  BY <1>1 DEF setter
<1>8. SetType' /\ JobInv'
  BY <1>1, <1>5, <1>6, <1>7, WorkerCounts
<1> QED
  BY <1>1, <1>4, <1>8

\* The whole program ends.
LEMMA PanicStep ==
  ASSUME Typed, JobInv, NEW w \in Workers, Panic(w)
  PROVE  /\ Inside /\ SetType' /\ JobInv' /\ store' = store /\ spc' = "panicked"
         /\ \A v \in Workers : todo'[v] = <<>> /\ wpc'[v] = "gone"
         /\ UNCHANGED <<nextJob, jobs, sres, wg, errs>> /\ wpc[w] = "done" /\ wg = 0
<1>1. /\ wpc[w] = "done" /\ wg = 0 /\ spc' = "panicked" /\ wpc' = [v \in Workers |-> "gone"]
      /\ todo' = [p \in Procs |-> IF p \in Workers THEN <<>> ELSE todo[p]]
      /\ conn' = [p \in Procs |-> IF p \in Workers THEN "none" ELSE conn[p]]
      /\ UNCHANGED <<store, bulk, got, failed, user, nextJob, jobs, sres, wg, errs>>
      /\ UNCHANGED bounds
  BY DEF Panic
<1>2. NetType' /\ UNCHANGED <<calls, refusals, writes>> /\ failures' \in Nat
  <2>1. <<>> \in Seq(RequestType)
    OBVIOUS
  <2>2. todo' \in [Procs -> Seq(RequestType)] /\ conn' \in [Procs -> {"none", "open", "stuck"}]
    BY <1>1, <2>1 DEF Typed, NetType
  <2> QED
    BY <1>1, <2>2 DEF Typed, NetType, UserType, bounds
<1>3. \A u \in Users : NetSame(u)
  BY <1>1, ProcTypes DEF NetSame
<1>4. Inside
  BY <1>1, <1>2, <1>3 DEF Inside
<1>5. SetType'
  BY <1>1 DEF Typed, SetType
<1>6. Busy' = {}
  BY <1>1 DEF Busy
<1>7. JobInv'
  <2>1. IsFiniteSet({})
    BY FS_EmptySet
  <2> QED
    BY <1>1, <1>6, <2>1 DEF JobInv
<1> QED
  BY <1>1, <1>4, <1>5, <1>7, ProcTypes

\* The steps of ArraySetN itself; the wait group's counting holds after each.
LEMMA SetterStep ==
  ASSUME Typed, JobInv, Setter
  PROVE  /\ Inside /\ SetType' /\ JobInv' /\ UNCHANGED net /\ UNCHANGED bounds
         /\ \/ /\ spc = "idle" /\ spc' = "queue" /\ wpc' = [w \in Workers |-> "new"]
               /\ UNCHANGED <<nextJob, jobs, sres, wg, errs>>
            \/ /\ spc = "queue" /\ spc' = "add" /\ nextJob \in 1..N + 1
               /\ jobs' = Append(jobs, IF nextJob <= N THEN nextJob ELSE Directory)
               /\ UNCHANGED <<nextJob, sres, wg, errs, wpc>>
            \/ /\ spc = "add" /\ spc' \in {"queue", "wait"} /\ nextJob' = nextJob + 1
               /\ UNCHANGED <<jobs, sres, errs, wpc>>
            \/ /\ spc = "wait" /\ wg = 0 /\ spc' = "returned"
               /\ sres' = (IF errs > 0 THEN "error" ELSE "nil")
               /\ UNCHANGED <<nextJob, jobs, wg, errs, wpc>>
<1>1. UNCHANGED net /\ UNCHANGED user /\ UNCHANGED bounds
  BY DEF Setter, BeginSet, Push, AddJob, ReturnSet
<1>2. Inside
  BY <1>1, QuietInside DEF Typed
<1>3. /\ SetType /\ jobs \in Seq(0..N) /\ Len(jobs) \in Nat /\ wg \in Nat /\ nextJob \in 1..N + 2
      /\ IsFiniteSet(Busy) /\ Cardinality(Busy) \in Nat
  BY FS_CardinalityType DEF Typed, SetType, JobInv
<1>4. CASE BeginSet
  <2>1. /\ spc = "idle" /\ spc' = "queue" /\ wpc' = [w \in Workers |-> "new"]
        /\ UNCHANGED <<nextJob, jobs, sres, wg, errs>>
    BY <1>4 DEF BeginSet
  <2>2. Busy = {} /\ Busy' = {}
    BY <2>1 DEF Busy, JobInv
  <2>3. SetType'
    BY <1>3, <2>1 DEF SetType
  <2>4. JobInv'
    BY <1>3, <2>1, <2>2 DEF JobInv, Sent
  <2> QED
    BY <1>1, <1>2, <2>1, <2>3, <2>4
<1>5. CASE Push
  <2>1. /\ spc = "queue" /\ spc' = "add"
        /\ jobs' = Append(jobs, IF nextJob <= N THEN nextJob ELSE Directory)
        /\ UNCHANGED <<nextJob, sres, wg, errs, wpc>>
    BY <1>5 DEF Push, pool
  <2>2. (IF nextJob <= N THEN nextJob ELSE Directory) \in 0..N /\ nextJob \in 1..N + 1
    BY <1>3, <2>1, Sizes DEF Directory, JobInv
  <2>3. jobs' \in Seq(0..N) /\ Len(jobs') = Len(jobs) + 1
    BY <1>3, <2>1, <2>2
  <2>4. SetType'
    BY <1>3, <2>1, <2>3 DEF SetType
  <2>5. Busy' = Busy
    BY <2>1 DEF Busy
  <2>6. wg + 0 = Len(jobs) + Cardinality(Busy) /\ wg <= nextJob - 1
    BY <2>1 DEF JobInv, Sent
  <2>7. Len(jobs') <= N + 1 /\ wg + 1 = Len(jobs') + Cardinality(Busy)
    <3>1. \A a, l, c, j \in Nat : a + 0 = l + c /\ a <= j - 1 /\ j <= N + 1 =>
            l + 1 <= N + 1 /\ a + 1 = (l + 1) + c
      BY Sizes
    <3>2. nextJob \in Nat /\ nextJob <= N + 1
      BY <2>2, Sizes
    <3>3. Len(jobs) + 1 <= N + 1 /\ wg + 1 = (Len(jobs) + 1) + Cardinality(Busy)
      BY <1>3, <2>6, <3>1, <3>2
    <3> QED
      BY <2>3, <3>3, Zenon
  <2>8. Sent' = 1 /\ wg' = wg
    BY <2>1 DEF Sent
  <2>9. JobInv'
    BY <1>3, <2>1, <2>2, <2>5, <2>7, <2>8 DEF JobInv
  <2> QED
    BY <1>1, <1>2, <2>1, <2>2, <2>4, <2>9
<1>6. CASE AddJob
  <2>1. /\ spc = "add" /\ nextJob' = nextJob + 1 /\ wg' = wg + 1
        /\ spc' = IF nextJob = N + 1 THEN "wait" ELSE "queue"
        /\ UNCHANGED <<jobs, sres, errs, wpc>>
    BY <1>6 DEF AddJob
  <2>2. nextJob \in 1..N + 1 /\ wg <= nextJob - 1 /\ wg + 1 = Len(jobs) + Cardinality(Busy)
    BY <2>1 DEF JobInv, Sent
  <2>3. nextJob' \in 1..N + 2 /\ wg' \in Nat /\ wg' <= nextJob' - 1 /\ spc' \in {"queue", "wait"}
        /\ (spc' = "queue" => nextJob' \in 1..N + 1) /\ (spc' = "wait" => nextJob' = N + 2)
    BY <1>3, <2>1, <2>2, Sizes
  <2>4. SetType'
    BY <1>3, <2>1, <2>3 DEF SetType
  <2>5. Busy' = Busy
    BY <2>1 DEF Busy
  <2>6. Sent' = 0
    BY <2>3 DEF Sent
  <2>7. wg' + Sent' = Len(jobs') + Cardinality(Busy')
    BY <1>3, <2>1, <2>2, <2>5, <2>6
  <2>8. JobInv'
    BY <1>3, <2>1, <2>3, <2>5, <2>7 DEF JobInv
  <2> QED
    BY <1>1, <1>2, <2>1, <2>3, <2>4, <2>8
<1>7. CASE ReturnSet
  <2>1. /\ spc = "wait" /\ wg = 0 /\ spc' = "returned" /\ sres' = (IF errs > 0 THEN "error" ELSE "nil")
        /\ UNCHANGED <<nextJob, jobs, wg, errs, wpc>>
    BY <1>7 DEF ReturnSet, pool
  <2>2. SetType'
    BY <1>3, <2>1 DEF SetType
  <2>3. Busy' = Busy
    BY <2>1 DEF Busy
  <2>4. JobInv'
    BY <1>3, <2>1, <2>3 DEF JobInv, Sent
  <2> QED
    BY <1>1, <1>2, <2>1, <2>2, <2>4
<1> QED
  BY <1>4, <1>5, <1>6, <1>7 DEF Setter

-----------------------------------------------------------------------------
(* The types, the shapes of the calls and the counting of the jobs hold. *)

\* The steps of the calls that start nothing.
Continues(u) ==
  \/ Raise(u) \/ NoElement(u) \/ FirstElement(u) \/ NextElement(u) \/ LastAnswer(u) \/ FirstBatch(u)
  \/ NextBatch(u) \/ FirstLook(u) \/ FirstDelete(u) \/ Erase(u) \/ ReplaceElement(u) \/ NextDelete(u)

\* A call that goes on stays in its shape and keeps what it began with.
LEMMA ContinueStep ==
  ASSUME NetType, UserType, NEW u \in Users, CallShape(u), Continues(u)
  PROVE  /\ CallShape(u)' /\ call'[u] = call[u] /\ writes' = writes
         /\ \/ \E kind : Ended(u, kind)
            \/ \E label, rs : Asked(u, label, rs)
<1>1. CASE Raise(u)
  BY <1>1, RaiseStep, EndedShape DEF Ended
<1>2. CASE NoElement(u)
  BY <1>2, NoElementStep, EndedShape DEF Ended
<1>3. CASE FirstElement(u)
  BY <1>3, FirstElementStep
<1>4. CASE NextElement(u)
  BY <1>4, NextElementStep
<1>5. CASE LastAnswer(u)
  BY <1>5, LastAnswerStep, EndedShape DEF Ended
<1>6. CASE FirstBatch(u)
  BY <1>6, FirstBatchStep
<1>7. CASE NextBatch(u)
  BY <1>7, NextBatchStep
<1>8. CASE FirstLook(u)
  BY <1>8, FirstLookStep
<1>9. CASE FirstDelete(u)
  BY <1>9, FirstDeleteStep
<1>10. CASE Erase(u)
  BY <1>10, EraseStep
<1>11. CASE ReplaceElement(u)
  BY <1>11, ReplaceElementStep
<1>12. CASE NextDelete(u)
  BY <1>12, NextDeleteStep
<1> QED
  BY <1>1, <1>2, <1>3, <1>4, <1>5, <1>6, <1>7, <1>8, <1>9, <1>10, <1>11, <1>12 DEF Continues

\* The step of a call keeps types, shapes and counting.
LEMMA UserTypes ==
  ASSUME Typed, ShapeInv, JobInv, NEW u \in Users, UserStep(u), CallShape(u)'
  PROVE  Typed' /\ ShapeInv' /\ JobInv'
<1>1. NetType' /\ UserType' /\ UNCHANGED setter /\ UNCHANGED pool
  BY DEF UserStep
<1>2. SetType' /\ JobInv'
  BY <1>1 DEF Typed, SetType, JobInv, Busy, Sent, setter, pool
<1>3. ASSUME NEW v \in Users PROVE CallShape(v)'
  <2>1. CASE v # u
    BY <2>1, ProcTypes, SameShape DEF UserStep, ShapeInv
  <2> QED
    BY <2>1
<1> QED
  BY <1>1, <1>2, <1>3 DEF Typed, ShapeInv

\* The end of a request keeps types, shapes and counting.
LEMMA NetTypes ==
  ASSUME Typed, ShapeInv, JobInv, NEW p \in Procs, Answered(p) \/ Refused(p) \/ Failed(p)
  PROVE  Typed' /\ ShapeInv' /\ JobInv'
<1>1. NetType /\ UserType /\ refusals \in Nat
  BY DEF Typed, UserType
<1>2. NetType' /\ ShapeInv' /\ UserType' /\ UNCHANGED setter /\ UNCHANGED pool
  <2>1. CASE Answered(p)
    <3>1. PICK a : Served(p, a)
      BY <1>1, <2>1, AnsweredStep
    <3>2. refusals' \in Nat
      BY <1>1, <2>1, AnsweredStep
    <3> QED
      BY <1>1, <3>1, <3>2, ServedShape DEF Served
  <2>2. CASE Refused(p)
    <3>1. Served(p, None) /\ refusals' \in Nat
      BY <1>1, <2>2, RefusedStep
    <3> QED
      BY <1>1, <3>1, ServedShape DEF Served
  <2>3. CASE Failed(p)
    <3>1. Broken(p)
      BY <1>1, <2>3, FailedStep
    <3> QED
      BY <1>1, <3>1, BrokenShape DEF Broken
  <2> QED
    BY <2>1, <2>2, <2>3
<1>3. SetType' /\ JobInv'
  BY <1>2 DEF Typed, SetType, JobInv, Busy, Sent, setter, pool
<1> QED
  BY <1>2, <1>3 DEF Typed

\* The step of ArraySetN or of a worker keeps types and shapes.
LEMMA InsideTypes ==
  ASSUME Typed, ShapeInv, JobInv, Setter \/ \E w \in Workers : Worker(w)
  PROVE  Typed' /\ ShapeInv' /\ JobInv' /\ Inside
<1>1. Inside /\ SetType' /\ JobInv'
  <2>1. CASE Setter
    BY <2>1, SetterStep
  <2>2. CASE \E w \in Workers : Worker(w)
    <3>1. PICK w \in Workers : Worker(w)
      BY <2>2
    <3> QED
      BY <3>1, ConnectStep, TakeStep, SetReturnsStep, ReportStep, DoneJobStep, PanicStep, ExitStep
      DEF Worker
  <2> QED
    BY <2>1, <2>2
<1>2. ShapeInv' /\ UserType'
  BY <1>1, InsideShape DEF Typed
<1> QED
  BY <1>1, <1>2 DEF Typed, Inside

\* A step that changes nothing keeps types, shapes and counting.
LEMMA StuttersTypes ==
  ASSUME Typed, ShapeInv, JobInv, UNCHANGED vars
  PROVE  Typed' /\ ShapeInv' /\ JobInv'
<1>1. /\ UNCHANGED net /\ UNCHANGED user /\ UNCHANGED bounds /\ UNCHANGED setter /\ UNCHANGED pool
  BY DEF vars
<1>2. Inside
  BY <1>1, QuietInside DEF Typed
<1>3. SetType' /\ JobInv'
  BY <1>1 DEF Typed, SetType, JobInv, Busy, Sent, setter, pool
<1> QED
  BY <1>2, <1>3, InsideShape DEF Typed, Inside

\* Types, shapes and counting are inductive.
LEMMA NextTypes ==
  ASSUME Typed, ShapeInv, JobInv, [Next]_vars
  PROVE  Typed' /\ ShapeInv' /\ JobInv'
<1>1. ASSUME NEW p \in Procs, Answered(p) \/ Refused(p) \/ Failed(p)
      PROVE  Typed' /\ ShapeInv' /\ JobInv'
  BY <1>1, NetTypes
<1>2. ASSUME NEW u \in Users, Begin(u)
      PROVE  Typed' /\ ShapeInv' /\ JobInv'
  BY <1>2, BeginStep, UserTypes DEF Typed, ShapeInv, Begun, Asked
<1>3. ASSUME NEW u \in Users, Continues(u)
      PROVE  Typed' /\ ShapeInv' /\ JobInv'
  <2>1. UserStep(u) /\ CallShape(u)'
    BY <1>3, ContinueStep DEF Typed, ShapeInv, Asked, Ended
  <2> QED
    BY <2>1, UserTypes
<1>4. CASE Setter \/ \E w \in Workers : Worker(w)
  BY <1>4, InsideTypes
<1>5. CASE UNCHANGED vars
  BY <1>5, StuttersTypes
<1> QED
  BY <1>1, <1>2, <1>3, <1>4, <1>5 DEF Next, Continues

\* Types, shapes and counting hold at the start.
LEMMA InitTypes ==
  ASSUME Init
  PROVE  Typed /\ ShapeInv /\ JobInv
<1>1. NetType
  <2>1. None \in Stored /\ <<>> \in Seq(RequestType) /\ <<>> \in Seq(Stored)
    BY DEF Stored
  <2> QED
    BY <2>1 DEF Init, NetType
<1>2. UserType
  <2>1. NoCall \in CallType
    BY Sizes DEF NoCall, CallType, AllOps, Positions
  <2>2. <<>> \in Seq(0..Elsewhere) /\ 1 \in 1..N + 2
    BY Sizes
  <2> QED
    BY <2>1, <2>2 DEF Init, UserType
<1>3. SetType
  <2>1. <<>> \in Seq(0..N)
    OBVIOUS
  <2> QED
    BY <2>1, Sizes DEF Init, SetType
<1>4. ShapeInv
  <2> SUFFICES ASSUME NEW u \in Users PROVE CallShape(u)
    BY DEF ShapeInv
  <2>1. pc[u] = "idle" /\ todo[u] = <<>> /\ ~failed[u]
    BY ProcTypes DEF Init
  <2> QED
    BY <2>1 DEF CallShape
<1>5. JobInv
  <2>1. Busy = {}
    BY DEF Init, Busy
  <2> QED
    BY <2>1, FS_EmptySet, Sizes DEF Init, JobInv, Sent
<1> QED
  BY <1>1, <1>2, <1>3, <1>4, <1>5 DEF Typed

\* The types: among others, that no call asks for a key that no array has, and the wait
\* group and the channel of errors of ArraySetN stay within the number of the jobs.
THEOREM ArrayTypes == Spec => []TypeOK
<1>1. Typed /\ ShapeInv /\ JobInv /\ [Next]_vars => (Typed /\ ShapeInv /\ JobInv)'
  BY NextTypes
<1>2. Typed /\ ShapeInv /\ JobInv => TypeOK
  <2> SUFFICES ASSUME Typed, ShapeInv, JobInv PROVE TypeOK
    OBVIOUS
  <2>1. \A e \in 0..N, pg \in PageNumbers : store[e][pg] \in Values \cup {None}
    BY DEF Typed, NetType, Stored
  <2>2. \A p \in Procs : ToSet(got[p]) \subseteq Values \cup {None}
    <3> SUFFICES ASSUME NEW p \in Procs, NEW x \in ToSet(got[p]) PROVE x \in Stored
      BY DEF Stored
    <3>1. got[p] \in Seq(Stored) /\ DOMAIN got[p] = 1..Len(got[p])
      BY DEF Typed, NetType
    <3>2. PICK i \in 1..Len(got[p]) : x = got[p][i]
      BY <3>1 DEF ToSet
    <3> QED
      BY <3>1, <3>2, ElementOf
  <2>3. \A p \in Procs : \A i \in DOMAIN todo[p] :
          todo[p][i].page \in PageNumbers /\ todo[p][i].elem \in 0..Elsewhere
    <3> SUFFICES ASSUME NEW p \in Procs, NEW i \in DOMAIN todo[p]
                 PROVE  todo[p][i].page \in PageNumbers /\ todo[p][i].elem \in 0..Elsewhere
      OBVIOUS
    <3>1. todo[p] \in Seq(RequestType) /\ DOMAIN todo[p] = 1..Len(todo[p])
      BY DEF Typed, NetType
    <3>2. todo[p][i] \in RequestType
      BY <3>1, ElementOf
    <3> QED
      BY <3>2 DEF RequestType
  <2>4. wg \in 0..N + 1 /\ Len(jobs) <= N + 1 /\ errs \in 0..N + 1
    BY Sizes DEF Typed, SetType, JobInv
  <2> QED
    BY <2>1, <2>2, <2>3, <2>4 DEF Typed, NetType, UserType, SetType, TypeOK
<1> QED
  BY <1>1, <1>2, InitTypes, PTL DEF Spec

-----------------------------------------------------------------------------
(* What ArraySetN has stored. *)

\* The pages of an element are pages.
LEMMA PageOf ==
  ASSUME NEW e \in 0..N
  PROVE  /\ Element(e) \in Values /\ PagesOf(Element(e)) \in 1..LastPage + 1
         /\ Element(e).elem = e
         /\ \A pg \in 0..PagesOf(Element(e)) - 1 : pg \in PageNumbers /\ pg + 1 \in 1..PagesOf(Element(e))
<1>1. Element(e) \in Values
  BY ValueTypes
<1>2. PagesOf(Element(e)) \in 1..LastPage + 1
  BY <1>1, PageCounts DEF Stored
<1>3. Element(e).elem = e
  BY DEF Element
<1>4. \A n \in 1..LastPage + 1 : \A pg \in 0..n - 1 : pg \in PageNumbers /\ pg + 1 \in 1..n
  BY Sizes DEF PageNumbers
<1> QED
  BY <1>1, <1>2, <1>3, <1>4

\* A user's request changes nothing while nobody writes.
LEMMA UsersOnlyRead ==
  ASSUME Typed, ShapeInv, NobodyWrites, writes = 0, NEW u \in Users, todo[u] # <<>>
  PROVE  todo[u][1] \in RequestType /\ Applied(store, todo[u][1]) = store
<1>1. todo[u] \in Seq(RequestType)
  BY ProcTypes DEF Typed, NetType
<1>2. todo[u][1] \in RequestType /\ 1 \in 1..Len(todo[u])
  BY <1>1, HeadTail
<1>3. pc[u] # "idle" /\ call[u].op \notin Destructive
  BY DEF ShapeInv, CallShape, NobodyWrites
<1>4. todo[u][1].op \in {"get", "getcond"}
  BY <1>2, <1>3 DEF ShapeInv, CallShape
<1> QED
  BY <1>2, <1>4 DEF Applied

\* A worker's request stores a page of its element.
LEMMA WorkersStore ==
  ASSUME Typed, NEW w \in Workers, Owes(w), todo[w] # <<>>
  PROVE  /\ todo[w][1].op = "set" /\ todo[w][1].elem \in 0..N /\ todo[w][1].page \in PageNumbers
         /\ wpc[w] = "setting"
         /\ \A e \in 0..N, pg \in PageNumbers :
              Applied(store, todo[w][1])[e][pg] =
                IF e = todo[w][1].elem /\ pg = todo[w][1].page THEN Element(e) ELSE store[e][pg]
<1>1. todo[w] \in Seq(RequestType)
  BY ProcTypes DEF Typed, NetType
<1>2. todo[w][1] \in RequestType /\ 1 \in 1..Len(todo[w])
  BY <1>1, HeadTail
<1> DEFINE r == todo[w][1]
<1>3. r.op = "set" /\ r.elem \in 0..N /\ r.value = Element(r.elem) /\ r.page \in PageNumbers
  BY <1>2 DEF Owes, RequestType
<1>4. Applied(store, r) = [store EXCEPT ![r.elem][r.page] = Element(r.elem)]
  BY <1>3, Zenon DEF Applied
<1>5. store \in [0..N -> [PageNumbers -> Stored]]
  BY DEF Typed, NetType
<1> HIDE DEF r
<1>6. \A e \in 0..N, pg \in PageNumbers :
        Applied(store, r)[e][pg] =
          IF e = r.elem /\ pg = r.page THEN Element(e) ELSE store[e][pg]
  BY <1>3, <1>4, <1>5
<1> QED
  BY <1>3, <1>6 DEF Owes, r

\* Requests that are served leave those of the others behind.
LEMMA OwesServed ==
  ASSUME NEW w \in Workers, Owes(w), wpc' = wpc,
         \/ todo'[w] = <<>>
         \/ \A i \in 1..Len(todo'[w]) : i + 1 \in 1..Len(todo[w]) /\ todo'[w][i] = todo[w][i + 1],
         todo[w] # <<>>
  PROVE  Owes(w)'
<1>1. CASE todo'[w] = <<>>
  BY <1>1 DEF Owes
<1>2. CASE \A i \in 1..Len(todo'[w]) : i + 1 \in 1..Len(todo[w]) /\ todo'[w][i] = todo[w][i + 1]
  BY <1>2 DEF Owes
<1> QED
  BY <1>1, <1>2

\* What a worker owes does not change with the others.
LEMMA OwesSame ==
  ASSUME NEW w \in Workers, Owes(w), todo'[w] = todo[w], wpc'[w] = wpc[w] \/ todo[w] = <<>>
  PROVE  Owes(w)'
BY DEF Owes

\* Steps that concern neither the workers nor what they have stored.
LEMMA StoreBeside ==
  ASSUME StoreInv, \A w \in Workers : NetSame(w), UNCHANGED setter, UNCHANGED pool, NobodyWrites',
         writes' = 0 /\ refusals' = 0 => writes = 0 /\ refusals = 0 /\ store' = store
  PROVE  StoreInv'
<1>1. /\ UNCHANGED <<spc, nextJob, jobs, sres>> /\ UNCHANGED <<wg, errs, wpc>>
  BY DEF setter, pool
<1>2. \A w \in Workers : todo'[w] = todo[w] /\ failed'[w] = failed[w]
  BY DEF NetSame
<1>3. WritesOnly'
  BY <1>1, <1>2, OwesSame DEF StoreInv, WritesOnly
<1>4. Unhappy' = Unhappy
  BY <1>1, <1>2 DEF Unhappy
<1>5. \A e, pg : Coming(e, pg)' <=> Coming(e, pg)
  BY <1>2 DEF Coming
<1>6. store' = store /\ PagesStored => PagesStored'
  BY <1>1, <1>5 DEF PagesStored, Sent
<1>7. spc' \in {"idle", "queue", "add", "wait"} /\ writes' = 0 /\ refusals' = 0 => Unhappy' \/ PagesStored'
  BY <1>1, <1>4, <1>6 DEF StoreInv
<1>8. NilMeansStored'
  BY <1>1 DEF StoreInv, NilMeansStored
<1> QED
  BY <1>3, <1>7, <1>8 DEF StoreInv

\* Only a call under way goes on.
LEMMA ContinuesBusy ==
  ASSUME NEW u \in Users, Continues(u)
  PROVE  pc[u] # "idle"
BY DEF Continues, Raise, NoElement, FirstElement, NextElement, LastAnswer, FirstBatch, NextBatch,
       FirstLook, FirstDelete, Erase, ReplaceElement, NextDelete, DirIs, Deleted

\* The step of a call keeps what ArraySetN has stored known.
LEMMA StoreUser ==
  ASSUME Typed, ShapeInv, StoreInv, NEW u \in Users, Begin(u) \/ Continues(u)
  PROVE  StoreInv'
<1>0. NetType /\ UserType /\ CallShape(u)
  BY DEF Typed, ShapeInv
<1>1. /\ UserStep(u)
      /\ writes' = 0 => /\ writes = 0
                        /\ pc'[u] = "idle" \/ call'[u].op \notin Destructive
  <2>1. CASE Begin(u)
    <3>3. PICK op \in AllOps, i \in Positions, label \in {"dir", "last"}, rs \in Seq(RequestType) :
            Begun(u, op, i, label, rs)
      BY <1>0, <2>1, BeginStep
    <3>1. /\ UserStep(u) /\ writes' = writes + (IF op \in Destructive THEN 1 ELSE 0)
          /\ call'[u].op = op
      BY <3>3 DEF Begun, Asked
    <3>2. writes \in Nat
      BY <1>0 DEF UserType
    <3> QED
      BY <3>1, <3>2
  <2>2. CASE Continues(u)
    <3>1. UserStep(u) /\ call'[u] = call[u] /\ writes' = writes
      BY <1>0, <2>2, ContinueStep DEF Asked, Ended
    <3>2. pc[u] # "idle"
      BY <2>2, ContinuesBusy
    <3> QED
      BY <3>1, <3>2 DEF StoreInv, NobodyWrites
  <2> QED
    BY <2>1, <2>2
<1>2. NobodyWrites'
  BY <1>1 DEF UserStep, CallSame, StoreInv, NobodyWrites
<1>3. /\ \A w \in Workers : NetSame(w) /\ UNCHANGED setter /\ UNCHANGED pool /\ store' = store
      /\ refusals' = refusals
  BY <1>1, ProcTypes DEF UserStep
<1>4. \A w \in Workers : NetSame(w)
  BY <1>1, ProcTypes DEF UserStep
<1>5. UNCHANGED setter /\ UNCHANGED pool /\ store' = store /\ refusals' = refusals
  BY <1>1 DEF UserStep
<1> QED
  BY <1>1, <1>2, <1>4, <1>5, StoreBeside

\* A page is stored: of the elements none gets worse.
LEMMA StoreServed ==
  ASSUME Typed, StoreInv, NEW w \in Workers, todo[w] # <<>>,
         todo'[w] = Tail(todo[w]) \/ todo'[w] = <<>>, \A q \in Workers \ {w} : NetSame(q),
         UNCHANGED setter, UNCHANGED pool, UNCHANGED user, UNCHANGED writes,
         \/ refusals' # 0
         \/ refusals' = refusals /\ failed'[w] = TRUE
            /\ (store' = store \/ store' = Applied(store, todo[w][1]))
         \/ refusals' = refusals /\ failed'[w] = failed[w] /\ todo'[w] = Tail(todo[w])
            /\ store' = Applied(store, todo[w][1])
  PROVE  StoreInv'
<1>1. /\ UNCHANGED <<spc, nextJob, jobs, sres>> /\ UNCHANGED <<wg, errs, wpc>>
  BY DEF setter, pool
<1>2. \A q \in Workers \ {w} : todo'[q] = todo[q] /\ failed'[q] = failed[q]
  BY DEF NetSame
<1>3. Owes(w)
  BY DEF StoreInv, WritesOnly
<1>4. /\ todo[w][1].op = "set" /\ todo[w][1].elem \in 0..N /\ todo[w][1].page \in PageNumbers
      /\ wpc[w] = "setting"
      /\ \A e \in 0..N, pg \in PageNumbers :
           Applied(store, todo[w][1])[e][pg] =
             IF e = todo[w][1].elem /\ pg = todo[w][1].page THEN Element(e) ELSE store[e][pg]
  BY <1>3, WorkersStore
<1>5. /\ todo[w] \in Seq(RequestType) /\ Len(todo[w]) \in Nat
      /\ Len(Tail(todo[w])) = Len(todo[w]) - 1
      /\ \A i \in 1..Len(Tail(todo[w])) : i + 1 \in 1..Len(todo[w]) /\ Tail(todo[w])[i] = todo[w][i + 1]
  <2>1. todo[w] \in Seq(RequestType)
    BY ProcTypes DEF Typed, NetType
  <2> QED
    BY <2>1, HeadTail
<1>6. \/ todo'[w] = <<>>
      \/ \A i \in 1..Len(todo'[w]) : i + 1 \in 1..Len(todo[w]) /\ todo'[w][i] = todo[w][i + 1]
  BY <1>5
<1>7. WritesOnly'
  <2>1. Owes(w)'
    BY <1>1, <1>3, <1>6, OwesServed
  <2>2. \A q \in Workers \ {w} : Owes(q)'
    BY <1>1, <1>2, OwesSame DEF StoreInv, WritesOnly
  <2> QED
    BY <2>1, <2>2 DEF WritesOnly
<1>8. NobodyWrites'
  BY DEF StoreInv, NobodyWrites, user
<1>9. refusals' = 0 =>
        /\ refusals = 0
        /\ \A e \in 0..N, pg \in PageNumbers : store[e][pg] = Element(e) => store'[e][pg] = Element(e)
  BY <1>4
<1>10. NilMeansStored'
  <2> SUFFICES ASSUME sres' = "nil", writes' = 0, refusals' = 0, NEW e \in 0..N,
                      NEW pg \in 0..PagesOf(Element(e)) - 1
               PROVE  store'[e][pg] = Element(e)
    BY DEF NilMeansStored
  <2>1. store[e][pg] = Element(e)
    BY <1>1, <1>9 DEF StoreInv, NilMeansStored
  <2> QED
    BY <1>9, <2>1, PageOf
<1>11. spc' \in {"idle", "queue", "add", "wait"} /\ writes' = 0 /\ refusals' = 0 => Unhappy' \/ PagesStored'
  <2> SUFFICES ASSUME spc \in {"idle", "queue", "add", "wait"}, writes = 0, refusals' = 0, ~Unhappy'
               PROVE  PagesStored'
    BY <1>1
  <2>1. /\ refusals = 0 /\ ~failed'[w] /\ store' = Applied(store, todo[w][1])
        /\ todo'[w] = Tail(todo[w]) /\ failed'[w] = failed[w]
    BY <1>1, <1>4 DEF Unhappy
  <2>2. ~Unhappy
    BY <1>1, <1>2, <2>1 DEF Unhappy
  <2>3. PagesStored
    BY <2>1, <2>2 DEF StoreInv
  <2> SUFFICES ASSUME NEW e \in 0..N, NEW pg \in 0..PagesOf(Element(e)) - 1
               PROVE  \/ store'[e][pg] = Element(e)
                      \/ JobOf(e) > nextJob - 1 + Sent
                      \/ \E i \in 1..Len(jobs) : jobs[i] = e
                      \/ Coming(e, pg)'
    BY <1>1 DEF PagesStored, Sent
  <2>4. pg \in PageNumbers
    BY PageOf
  <2>5. ASSUME Coming(e, pg)
        PROVE  store'[e][pg] = Element(e) \/ Coming(e, pg)'
    <3>1. PICK v \in Workers : \E i \in 1..Len(todo[v]) : todo[v][i].elem = e /\ todo[v][i].page = pg
      BY <2>5 DEF Coming
    <3>2. PICK i \in 1..Len(todo[v]) : todo[v][i].elem = e /\ todo[v][i].page = pg
      BY <3>1
    <3>3. CASE v # w
      BY <1>2, <3>2, <3>3 DEF Coming
    <3>4. CASE v = w /\ i = 1
      BY <1>4, <2>1, <2>4, <3>2, <3>4
    <3>5. CASE v = w /\ i # 1
      <4>1. i - 1 \in 1..Len(todo'[w]) /\ todo'[w][i - 1] = todo[w][i]
        BY <1>5, <2>1, <3>2, <3>5
      <4> QED
        BY <3>2, <3>5, <4>1 DEF Coming
    <3> QED
      BY <3>3, <3>4, <3>5
  <2>6. \/ store[e][pg] = Element(e)
        \/ JobOf(e) > nextJob - 1 + Sent
        \/ \E i \in 1..Len(jobs) : jobs[i] = e
        \/ Coming(e, pg)
    BY <2>3 DEF PagesStored
  <2> QED
    BY <1>9, <2>4, <2>5, <2>6
<1> QED
  BY <1>7, <1>8, <1>10, <1>11 DEF StoreInv

\* The end of a request keeps what ArraySetN has stored known.
LEMMA StoreNet ==
  ASSUME Typed, ShapeInv, StoreInv, NEW p \in Procs, Answered(p) \/ Refused(p) \/ Failed(p)
  PROVE  StoreInv'
<1>1. NetType /\ UserType /\ refusals \in Nat /\ todo[p] # <<>>
  BY DEF Typed, UserType, Answered, Refused, Failed
<1>2. /\ \A q \in Procs \ {p} : NetSame(q)
      /\ UNCHANGED setter /\ UNCHANGED pool /\ UNCHANGED user /\ UNCHANGED writes
      /\ todo'[p] = Tail(todo[p]) \/ todo'[p] = <<>>
      /\ \/ refusals' # 0
         \/ refusals' = refusals /\ failed'[p] = TRUE
            /\ (store' = store \/ store' = Applied(store, todo[p][1]))
         \/ refusals' = refusals /\ failed'[p] = failed[p] /\ todo'[p] = Tail(todo[p])
            /\ store' = Applied(store, todo[p][1])
  <2>1. CASE Answered(p)
    <3>1. PICK a : Served(p, a)
      BY <1>1, <2>1, AnsweredStep
    <3>2. store' = Applied(store, todo[p][1]) /\ refusals' = refusals
      BY <1>1, <2>1, AnsweredStep
    <3> QED
      BY <3>1, <3>2 DEF Served
  <2>2. CASE Refused(p)
    <3>1. Served(p, None) /\ refusals' = refusals + 1
      BY <1>1, <2>2, RefusedStep
    <3> QED
      BY <1>1, <3>1 DEF Served
  <2>3. CASE Failed(p)
    <3>1. Broken(p)
      BY <1>1, <2>3, FailedStep
    <3> QED
      BY <3>1 DEF Broken
  <2> QED
    BY <2>1, <2>2, <2>3
<1>3. CASE p \in Workers
  <2>1. \A q \in Workers \ {p} : NetSame(q)
    BY <1>2, ProcTypes
  <2> QED
    BY <1>1, <1>2, <1>3, <2>1, StoreServed
<1>4. CASE p \in Users
  <2>1. \A w \in Workers : NetSame(w)
    BY <1>2, <1>4, ProcTypes
  <2>2. NobodyWrites /\ NobodyWrites'
    BY <1>2 DEF StoreInv, NobodyWrites, user
  <2>3. writes = 0 => Applied(store, todo[p][1]) = store
    BY <1>1, <1>4, <2>2, UsersOnlyRead
  <2>4. writes' = 0 /\ refusals' = 0 => writes = 0 /\ refusals = 0 /\ store' = store
    BY <1>2, <2>3
  <2> QED
    BY <1>2, <2>1, <2>2, <2>4, StoreBeside
<1> QED
  BY <1>3, <1>4 DEF Procs

\* Steps of ArraySetN itself and of its workers: nothing is stored, and what has been
\* asked of the others is still asked.
LEMMA StoreSetter ==
  ASSUME Typed, JobInv, StoreInv, Setter
  PROVE  StoreInv'
<1>1. /\ UNCHANGED net /\ UNCHANGED bounds /\ UNCHANGED user
      /\ \/ /\ spc = "idle" /\ spc' = "queue" /\ wpc' = [w \in Workers |-> "new"]
            /\ UNCHANGED <<nextJob, jobs, sres, wg, errs>>
         \/ /\ spc = "queue" /\ spc' = "add" /\ nextJob \in 1..N + 1
            /\ jobs' = Append(jobs, IF nextJob <= N THEN nextJob ELSE Directory)
            /\ UNCHANGED <<nextJob, sres, wg, errs, wpc>>
         \/ /\ spc = "add" /\ spc' \in {"queue", "wait"} /\ nextJob' = nextJob + 1
            /\ UNCHANGED <<jobs, sres, errs, wpc>>
         \/ /\ spc = "wait" /\ wg = 0 /\ spc' = "returned"
            /\ sres' = (IF errs > 0 THEN "error" ELSE "nil")
            /\ UNCHANGED <<nextJob, jobs, wg, errs, wpc>>
  BY SetterStep DEF Inside
<1>2. /\ store' = store /\ todo' = todo /\ failed' = failed /\ writes' = writes
      /\ refusals' = refusals /\ pc' = pc /\ call' = call
  BY <1>1 DEF net, bounds, user
<1>3. NobodyWrites'
  BY <1>2 DEF StoreInv, NobodyWrites
<1>4. \A e, pg : Coming(e, pg)' <=> Coming(e, pg)
  BY <1>2 DEF Coming
<1>5. jobs \in Seq(0..N) /\ nextJob \in 1..N + 2 /\ Len(jobs) \in Nat /\ errs \in Nat /\ wg \in Nat
  BY DEF Typed, SetType
<1>6. spc # "idle" => wpc' = wpc
  BY <1>1
<1>7. WritesOnly'
  <2> SUFFICES ASSUME NEW w \in Workers PROVE Owes(w)'
    BY DEF WritesOnly
  <2>1. Owes(w)
    BY DEF StoreInv, WritesOnly
  <2>2. spc = "idle" => todo[w] = <<>>
    BY <2>1 DEF Owes, JobInv
  <2> QED
    BY <1>2, <1>6, <2>1, <2>2, OwesSame
<1>8. spc' # "returned" => NilMeansStored'
  BY <1>1, <1>2 DEF NilMeansStored, JobInv
<1>9. CASE spc = "idle"
  <2>1. Sent' = Sent /\ UNCHANGED <<nextJob, jobs, sres, errs>>
    BY <1>1, <1>9 DEF Sent
  <2>2. ~Unhappy
    BY <1>9 DEF Unhappy, JobInv
  <2>3. writes = 0 /\ refusals = 0 => PagesStored
    BY <1>9, <2>2 DEF StoreInv
  <2>4. PagesStored => PagesStored'
    BY <1>2, <1>4, <2>1 DEF PagesStored
  <2> QED
    BY <1>1, <1>2, <1>3, <1>7, <1>8, <1>9, <2>3, <2>4 DEF StoreInv
<1>10. CASE spc = "queue"
  <2>1. Sent = 0 /\ Sent' = 1 /\ nextJob' = nextJob /\ sres' = sres /\ Unhappy' = Unhappy
    BY <1>1, <1>2, <1>10 DEF Sent, Unhappy
  <2>2. ASSUME PagesStored, NEW e \in 0..N, NEW pg \in 0..PagesOf(Element(e)) - 1
        PROVE  \/ store'[e][pg] = Element(e)
               \/ JobOf(e) > nextJob' - 1 + Sent'
               \/ \E i \in 1..Len(jobs') : jobs'[i] = e
               \/ Coming(e, pg)'
    <3>1. \/ store[e][pg] = Element(e)
          \/ JobOf(e) > nextJob - 1
          \/ \E i \in 1..Len(jobs) : jobs[i] = e
          \/ Coming(e, pg)
      BY <1>5, <2>1, <2>2 DEF PagesStored
    <3> DEFINE new == IF nextJob <= N THEN nextJob ELSE Directory
    <3>2. jobs' = Append(jobs, new) /\ new \in 0..N /\ nextJob \in 1..N + 1
      BY <1>1, <1>10, Sizes DEF Directory
    <3>3. /\ Len(jobs') = Len(jobs) + 1 /\ jobs'[Len(jobs) + 1] = new
          /\ \A i \in 1..Len(jobs) : jobs'[i] = jobs[i] /\ i \in 1..Len(jobs')
          /\ Len(jobs) + 1 \in 1..Len(jobs')
      <4> HIDE DEF new
      <4> QED
        BY <1>5, <3>2
    <3>4. JobOf(e) = nextJob => new = e
      BY <1>5, Sizes DEF JobOf, Directory
    <3>5. JobOf(e) \in Nat /\ (JobOf(e) > nextJob - 1 => JobOf(e) = nextJob \/ JobOf(e) > nextJob)
      BY <1>5, Sizes DEF JobOf
    <3>6. CASE JobOf(e) = nextJob
      BY <3>3, <3>4, <3>6
    <3>7. CASE JobOf(e) > nextJob
      BY <1>5, <2>1, <3>5, <3>7
    <3>8. CASE \E i \in 1..Len(jobs) : jobs[i] = e
      BY <3>3, <3>8
    <3> QED
      BY <1>2, <1>4, <3>1, <3>5, <3>6, <3>7, <3>8
  <2>3. PagesStored => PagesStored'
    BY <2>2 DEF PagesStored
  <2> QED
    BY <1>1, <1>2, <1>3, <1>7, <1>8, <1>10, <2>1, <2>3 DEF StoreInv
<1>11. CASE spc = "add"
  <2>1. /\ Sent = 1 /\ Sent' = 0 /\ nextJob' - 1 + Sent' = nextJob - 1 + Sent
        /\ sres' = sres /\ jobs' = jobs /\ Unhappy' = Unhappy
    BY <1>1, <1>2, <1>5, <1>11 DEF Sent, Unhappy
  <2>2. PagesStored => PagesStored'
    BY <1>2, <1>4, <2>1 DEF PagesStored
  <2> QED
    BY <1>1, <1>2, <1>3, <1>7, <1>8, <1>11, <2>1, <2>2 DEF StoreInv
<1>12. CASE spc = "wait"
  <2>1. wg = 0 /\ spc' = "returned" /\ sres' = (IF errs > 0 THEN "error" ELSE "nil")
    BY <1>1, <1>12
  <2>2. Len(jobs) = 0 /\ Busy = {} /\ nextJob = N + 2 /\ Sent = 0
    <3>1. IsFiniteSet(Busy) /\ Cardinality(Busy) \in Nat
      BY FS_CardinalityType DEF JobInv
    <3>2. 0 = Len(jobs) + Cardinality(Busy) /\ nextJob = N + 2 /\ Sent = 0
      BY <1>12, <2>1 DEF JobInv, Sent
    <3> QED
      BY <1>5, <3>1, <3>2, FS_EmptySet
  <2>3. ~(errs > 0) => ~Unhappy
    BY <2>2 DEF Unhappy, Busy
  <2>4. ASSUME NEW e \in 0..N, NEW pg PROVE ~Coming(e, pg)
    <3> SUFFICES ASSUME NEW w \in Workers, todo[w] # <<>> PROVE FALSE
      <4>1. \A w \in Workers : todo[w] = <<>> => \A i \in 1..Len(todo[w]) : FALSE
        OBVIOUS
      <4> QED
        BY <4>1 DEF Coming
    <3> QED
      BY <2>2 DEF StoreInv, WritesOnly, Owes, Busy
  <2>5. ASSUME sres' = "nil", writes = 0, refusals = 0, NEW e \in 0..N,
               NEW pg \in 0..PagesOf(Element(e)) - 1
        PROVE  store[e][pg] = Element(e)
    <3>1. PagesStored
      BY <1>12, <2>1, <2>3, <2>5 DEF StoreInv
    <3>2. \A i \in 1..Len(jobs) : FALSE
      BY <2>2
    <3>3. ~(JobOf(e) > nextJob - 1 + Sent)
      BY <2>2, Sizes DEF JobOf
    <3> QED
      BY <2>4, <3>1, <3>2, <3>3 DEF PagesStored
  <2>6. NilMeansStored'
    BY <1>2, <2>5 DEF NilMeansStored
  <2> QED
    BY <1>3, <1>7, <2>1, <2>6 DEF StoreInv
<1> QED
  BY <1>1, <1>9, <1>10, <1>11, <1>12

\* A worker moves and nothing new is asked: errors do not get lost.
LEMMA StoreMoves ==
  ASSUME Typed, JobInv, StoreInv, NEW w \in Workers, NEW label, WorkerGoto(w, label), Inside,
         store' = store, todo' = todo, failed' = failed, UNCHANGED setter, errs' \in Nat, errs' >= errs,
         todo[w] = <<>>,
         (wpc[w] = "report" \/ (wpc[w] = "setting" /\ failed[w])) => label = "report" \/ errs' > 0
  PROVE  StoreInv'
<1>1. UNCHANGED <<spc, nextJob, jobs, sres>> /\ UNCHANGED <<refusals, writes>> /\ UNCHANGED user
  BY DEF setter, Inside
<1>2. wpc'[w] = label /\ \A v \in Workers \ {w} : wpc'[v] = wpc[v]
  BY DEF WorkerGoto, Typed, SetType
<1>3. errs \in Nat
  BY DEF Typed, SetType
<1>4. WritesOnly'
  <2> SUFFICES ASSUME NEW v \in Workers PROVE Owes(v)'
    BY DEF WritesOnly
  <2> QED
    BY <1>2, OwesSame DEF StoreInv, WritesOnly
<1>5. NobodyWrites'
  BY <1>1 DEF StoreInv, NobodyWrites, user
<1>6. Unhappy => Unhappy'
  BY <1>2, <1>3 DEF Unhappy
<1>7. \A e, pg : Coming(e, pg)' <=> Coming(e, pg)
  BY DEF Coming
<1>8. PagesStored => PagesStored'
  BY <1>1, <1>7 DEF PagesStored, Sent
<1>9. NilMeansStored'
  BY <1>1 DEF StoreInv, NilMeansStored
<1> QED
  BY <1>1, <1>4, <1>5, <1>6, <1>8, <1>9 DEF StoreInv

\* A job is taken: the error is on its way, or every page of the element is.
LEMMA StoreTake ==
  ASSUME Typed, JobInv, StoreInv, NEW w \in Workers, Take(w)
  PROVE  StoreInv'
<1>1. /\ Inside /\ store' = store /\ jobs # <<>> /\ jobs[1] \in 0..N /\ jobs' = Tail(jobs)
      /\ wpc[w] = "loop" /\ \A q \in Procs \ {w} : NetSame(q)
      /\ UNCHANGED <<spc, nextJob, sres, wg, errs>>
  BY TakeStep
<1>2. \/ WorkerGoto(w, "report") /\ todo'[w] = todo[w]
      \/ /\ WorkerGoto(w, "setting") /\ todo'[w] = SetRequests(Element(jobs[1]))
         /\ failed'[w] = FALSE
  BY TakeStep
<1>3. \A v \in Workers \ {w} : todo'[v] = todo[v] /\ failed'[v] = failed[v] /\ wpc'[v] = wpc[v]
  <2>1. \A v \in Workers \ {w} : wpc'[v] = wpc[v]
    BY <1>2 DEF WorkerGoto, Typed, SetType
  <2>2. \A v \in Workers \ {w} : v \in Procs \ {w}
    BY ProcTypes
  <2> QED
    BY <1>1, <2>1, <2>2 DEF NetSame
<1>4. todo[w] = <<>> /\ \A i \in 1..Len(todo[w]) : FALSE
  <2>1. todo[w] = <<>>
    BY <1>1 DEF StoreInv, WritesOnly, Owes
  <2> QED
    BY <2>1
<1>5. UNCHANGED <<refusals, writes>> /\ UNCHANGED user /\ Sent' = Sent
  BY <1>1 DEF Inside, Sent
<1> DEFINE e0 == jobs[1]
           rs == SetRequests(Element(e0))
<1>6. /\ rs # <<>> /\ Len(rs) = PagesOf(Element(e0))
      /\ \A j \in 1..PagesOf(Element(e0)) :
           /\ rs[j].op = "set" /\ rs[j].elem = e0 /\ rs[j].page = j - 1 /\ rs[j].value = Element(e0)
      /\ \A pg \in 0..PagesOf(Element(e0)) - 1 : pg + 1 \in 1..PagesOf(Element(e0))
      /\ e0 \in 0..N
  BY <1>1, PageOf, SetRequestsAre, Zenon
<1> HIDE DEF rs, e0
<1>7. WritesOnly'
  <2>1. Owes(w)'
    <3>1. CASE WorkerGoto(w, "report") /\ todo'[w] = todo[w]
      BY <1>4, <3>1, OwesSame DEF StoreInv, WritesOnly
    <3>2. CASE WorkerGoto(w, "setting") /\ todo'[w] = SetRequests(Element(jobs[1]))
      <4>1. wpc'[w] = "setting"
        BY <3>2 DEF WorkerGoto, Typed, SetType
      <4>2. todo'[w] = rs
        BY <3>2 DEF rs, e0
      <4> QED
        BY <1>6, <4>1, <4>2 DEF Owes
    <3> QED
      BY <1>2, <3>1, <3>2
  <2>2. \A v \in Workers \ {w} : Owes(v)'
    BY <1>3, OwesSame DEF StoreInv, WritesOnly
  <2> QED
    BY <2>1, <2>2 DEF WritesOnly
<1>8. NobodyWrites'
  BY <1>5 DEF StoreInv, NobodyWrites, user
<1>9. NilMeansStored'
  BY <1>1, <1>5 DEF StoreInv, NilMeansStored
<1>10. Unhappy => Unhappy'
  BY <1>1, <1>3 DEF Unhappy
<1>11. WorkerGoto(w, "report") => Unhappy'
  BY DEF Unhappy, WorkerGoto, Typed, SetType
<1>12. ASSUME WorkerGoto(w, "setting"), todo'[w] = SetRequests(Element(jobs[1])), PagesStored
       PROVE  PagesStored'
  <2>1. todo'[w] = rs
    BY <1>12 DEF rs, e0
  <2>2. jobs \in Seq(0..N) /\ jobs # <<>>
    BY <1>1 DEF Typed, SetType
  <2>3. /\ Len(jobs') = Len(jobs) - 1 /\ Len(jobs) \in Nat
        /\ \A i \in 1..Len(jobs') : i + 1 \in 1..Len(jobs) /\ jobs'[i] = jobs[i + 1]
    BY <1>1, <2>2, HeadTail
  <2> SUFFICES ASSUME NEW e \in 0..N, NEW pg \in 0..PagesOf(Element(e)) - 1
               PROVE  \/ store[e][pg] = Element(e)
                      \/ JobOf(e) > nextJob - 1 + Sent
                      \/ \E i \in 1..Len(jobs') : jobs'[i] = e
                      \/ Coming(e, pg)'
    BY <1>1, <1>5 DEF PagesStored
  <2>4. \/ store[e][pg] = Element(e)
        \/ JobOf(e) > nextJob - 1 + Sent
        \/ \E i \in 1..Len(jobs) : jobs[i] = e
        \/ Coming(e, pg)
    BY <1>12 DEF PagesStored
  <2>5. Coming(e, pg) => Coming(e, pg)'
    <3> SUFFICES ASSUME NEW v \in Workers, NEW i \in 1..Len(todo[v]),
                        todo[v][i].elem = e /\ todo[v][i].page = pg
                 PROVE  Coming(e, pg)'
      BY DEF Coming
    <3>1. v # w
      BY <1>4
    <3> QED
      BY <1>3, <3>1 DEF Coming
  <2>6. ASSUME NEW i \in 1..Len(jobs), jobs[i] = e
        PROVE  (\E j \in 1..Len(jobs') : jobs'[j] = e) \/ Coming(e, pg)'
    <3>1. CASE i = 1
      <4>1. e = e0
        BY <2>6, <3>1 DEF e0
      <4>2. pg + 1 \in 1..Len(rs) /\ rs[pg + 1].elem = e /\ rs[pg + 1].page = pg
        <5>1. pg + 1 \in 1..PagesOf(Element(e0)) /\ pg \in Int
          BY <1>6, <4>1
        <5>2. (pg + 1) - 1 = pg
          BY <5>1
        <5> QED
          BY <1>6, <4>1, <5>1, <5>2
      <4> QED
        BY <2>1, <4>2 DEF Coming
    <3>2. CASE i # 1
      <4>1. i - 1 \in 1..Len(jobs') /\ (i - 1) + 1 = i
        BY <2>3, <3>2
      <4> QED
        BY <2>3, <2>6, <4>1
    <3> QED
      BY <3>1, <3>2
  <2> QED
    BY <2>4, <2>5, <2>6
<1> QED
  BY <1>1, <1>2, <1>5, <1>7, <1>8, <1>9, <1>10, <1>11, <1>12 DEF StoreInv

\* The step of a worker keeps what ArraySetN has stored known.
LEMMA StoreWorker ==
  ASSUME Typed, JobInv, StoreInv, NEW w \in Workers, Worker(w)
  PROVE  StoreInv'
<1>1. errs \in Nat /\ (wpc[w] # "setting" => todo[w] = <<>>)
  BY DEF Typed, SetType, StoreInv, WritesOnly, Owes
<1>2. CASE Connect(w)
  <2>1. PICK label \in {"loop", "reportConnect"} : WorkerGoto(w, label)
    BY <1>2, ConnectStep
  <2>2. /\ Inside /\ store' = store /\ todo' = todo /\ failed' = failed /\ UNCHANGED setter
        /\ errs' = errs /\ wpc[w] = "new"
    BY <1>2, ConnectStep
  <2> QED
    BY <1>1, <2>1, <2>2, StoreMoves
<1>3. CASE Take(w)
  BY <1>3, StoreTake
<1>4. CASE SetReturns(w)
  <2>1. /\ Inside /\ UNCHANGED net /\ wpc[w] = "setting" /\ todo[w] = <<>> /\ UNCHANGED setter
        /\ errs' = errs
    BY <1>4, SetReturnsStep
  <2>2. (failed[w] /\ WorkerGoto(w, "report")) \/ (~failed[w] /\ WorkerGoto(w, "done"))
    BY <1>4, SetReturnsStep
  <2>3. store' = store /\ todo' = todo /\ failed' = failed
    BY <2>1 DEF net
  <2>4. errs' \in Nat /\ errs' >= errs
    BY <1>1, <2>1
  <2>5. CASE failed[w] /\ WorkerGoto(w, "report")
    BY <2>1, <2>3, <2>4, <2>5, StoreMoves
  <2>6. CASE ~failed[w] /\ WorkerGoto(w, "done")
    BY <2>1, <2>3, <2>4, <2>6, StoreMoves
  <2> QED
    BY <2>2, <2>5, <2>6
<1>5. CASE Report(w)
  <2>1. PICK label \in {"done", "loop"} : WorkerGoto(w, label)
    BY <1>5, ReportStep
  <2>2. /\ Inside /\ UNCHANGED net /\ UNCHANGED setter /\ errs' = errs + 1
        /\ wpc[w] \in {"report", "reportConnect"}
    BY <1>5, ReportStep
  <2>3. store' = store /\ todo' = todo /\ failed' = failed
    BY <2>2 DEF net
  <2>4. errs' \in Nat /\ errs' >= errs /\ errs' > 0 /\ todo[w] = <<>>
    BY <1>1, <2>2
  <2> QED
    BY <2>1, <2>2, <2>3, <2>4, StoreMoves
<1>6. CASE DoneJob(w)
  <2>1. /\ Inside /\ UNCHANGED net /\ UNCHANGED setter /\ errs' = errs /\ wpc[w] = "done"
        /\ WorkerGoto(w, "loop")
    BY <1>6, DoneJobStep
  <2>2. store' = store /\ todo' = todo /\ failed' = failed
    BY <2>1 DEF net
  <2> QED
    BY <1>1, <2>1, <2>2, StoreMoves
<1>7. CASE Panic(w)
  <2>1. /\ Inside /\ store' = store /\ spc' = "panicked" /\ sres' = sres
        /\ \A v \in Workers : todo'[v] = <<>> /\ wpc'[v] = "gone"
    BY <1>7, PanicStep
  <2>2. WritesOnly'
    <3>1. \A v \in Workers : \A i \in 1..Len(todo'[v]) : FALSE
      BY <2>1
    <3> QED
      BY <2>1, <3>1 DEF WritesOnly, Owes
  <2>3. UNCHANGED <<refusals, writes>> /\ UNCHANGED user
    BY <2>1 DEF Inside
  <2>4. NobodyWrites' /\ NilMeansStored'
    BY <2>1, <2>3 DEF StoreInv, NobodyWrites, NilMeansStored, user
  <2> QED
    BY <2>1, <2>2, <2>4 DEF StoreInv
<1>8. CASE Exit(w)
  <2>1. /\ Inside /\ store' = store /\ todo' = todo /\ failed' = failed /\ UNCHANGED setter
        /\ errs' = errs /\ wpc[w] = "loop" /\ WorkerGoto(w, "gone")
    BY <1>8, ExitStep
  <2> QED
    BY <1>1, <2>1, StoreMoves
<1> QED
  BY <1>2, <1>3, <1>4, <1>5, <1>6, <1>7, <1>8 DEF Worker

\* StoreInv is inductive with the types, the shapes and the counting.
LEMMA NextStore ==
  ASSUME Typed, ShapeInv, JobInv, StoreInv, [Next]_vars
  PROVE  StoreInv'
<1>1. ASSUME NEW p \in Procs, Answered(p) \/ Refused(p) \/ Failed(p) PROVE StoreInv'
  BY <1>1, StoreNet
<1>2. ASSUME NEW u \in Users, Begin(u) \/ Continues(u) PROVE StoreInv'
  BY <1>2, StoreUser
<1>3. CASE Setter
  BY <1>3, StoreSetter
<1>4. ASSUME NEW w \in Workers, Worker(w) PROVE StoreInv'
  BY <1>4, StoreWorker
<1>5. CASE UNCHANGED vars
  <2>1. /\ UNCHANGED net /\ UNCHANGED setter /\ UNCHANGED pool /\ UNCHANGED user
        /\ UNCHANGED bounds
    BY <1>5 DEF vars
  <2>2. \A w \in Workers : NetSame(w)
    BY <2>1 DEF net, NetSame
  <2>3. store' = store /\ writes' = writes /\ refusals' = refusals
    BY <2>1 DEF net, bounds
  <2>4. NobodyWrites'
    BY <2>1, <2>3 DEF StoreInv, NobodyWrites, user
  <2> QED
    BY <2>1, <2>2, <2>3, <2>4, StoreBeside
<1> QED
  BY <1>1, <1>2, <1>3, <1>4, <1>5 DEF Next, Continues

\* Before ArraySetN every job is still to come.
LEMMA InitStore ==
  ASSUME Init
  PROVE  StoreInv
<1>1. \A w \in Workers : todo[w] = <<>> /\ wpc[w] = "gone"
  BY ProcTypes DEF Init
<1>2. WritesOnly
  <2>1. \A w \in Workers : \A i \in 1..Len(todo[w]) : FALSE
    BY <1>1
  <2> QED
    BY <1>1, <2>1 DEF WritesOnly, Owes
<1>3. NobodyWrites /\ NilMeansStored
  BY DEF Init, NobodyWrites, NilMeansStored
<1>4. PagesStored
  <2>1. \A e \in 0..N : JobOf(e) > nextJob - 1 + Sent
    BY Sizes DEF Init, Sent, JobOf, Directory
  <2> QED
    BY <2>1 DEF PagesStored
<1> QED
  BY <1>2, <1>3, <1>4 DEF StoreInv

\* ArraySetN returns nil only when every page of every element and of the directory is
\* stored, with any number of workers and whichever of their requests fail: a job is in
\* the channel, with a worker whose requests hold the pages that are missing, or an
\* error is or will be in the channel before wg.Wait returns.
THEOREM ArrayNilMeansStored == Spec => []NilMeansStored
<1> DEFINE Inv == Typed /\ ShapeInv /\ JobInv /\ StoreInv
<1>1. Inv /\ [Next]_vars => Inv'
  BY NextTypes, NextStore
<1>2. Init => Inv
  BY InitTypes, InitStore
<1>3. Inv => NilMeansStored
  BY DEF StoreInv
<1> QED
  BY <1>1, <1>2, <1>3, PTL DEF Spec

-----------------------------------------------------------------------------
(* ArraySetN never waits for nobody. *)

\* A worker at a place where it does not wait, or waits for something that is there or
\* that the node can still send: a job or the end of the jobs, the answers, room for an
\* error.
Ready(w) ==
  \/ wpc[w] \in {"new", "done"}
  \/ wpc[w] = "loop" /\ (jobs # <<>> \/ nextJob = N + 2)
  \/ wpc[w] = "setting" /\ (todo[w] = <<>> \/ conn[w] = "open")
  \/ wpc[w] \in {"report", "reportConnect"} /\ errs < Capacity

SetterReady == spc \in {"queue", "add"} \/ (spc = "wait" /\ wg = 0)

\* GoesOn with the guards of the steps in the place of ENABLED.
SetGoesOn ==
  spc \in {"queue", "add", "wait"} => SetterReady \/ \E w \in Workers : Ready(w) \/ Blocked(w)

\* A worker is gone only when all jobs have been handed out, and what a worker has asked
\* for it has asked for on a connection.
GoneInv ==
  /\ spc \in {"queue", "add", "wait"} => \A w \in Workers : wpc[w] = "gone" => jobs = <<>> /\ nextJob = N + 2
  /\ \A w \in Workers : todo[w] # <<>> => conn[w] # "none"

\* Users use their own connections.
LEMMA UserConn ==
  ASSUME NEW u \in Users, Begin(u) \/ Continues(u)
  PROVE  conn' = conn
<1> USE DEF Send, SendBulk, Get, Done, net
<1>1. CASE Begin(u)
  <2>1. PICK op \in CallOps, i \in Positions :
          CASE op \in DirFirst -> GetArrayDir(u)
            [] op = "GetCond" -> GetCond(u, i)
            [] op = "GetWithCheckpoint" -> GetWithCheckpoint(u, i)
            [] op = "Init" -> Flush(u)
            [] op = "ArraySet" -> ArraySet(u)
    BY <1>1, Zenon DEF Begin
  <2>2. GetArrayDir(u) \/ GetCond(u, i) \/ GetWithCheckpoint(u, i) \/ Flush(u) \/ ArraySet(u)
    BY <2>1, CallAssumption DEF AllOps, DirFirst, Batched
  <2> QED
    BY <2>2 DEF GetArrayDir, GetCond, GetWithCheckpoint, Flush, ArraySet
<1>2. CASE Raise(u) \/ NoElement(u)
  BY <1>2 DEF Raise, NoElement
<1>3. CASE FirstElement(u) \/ NextElement(u)
  BY <1>3 DEF FirstElement, NextElement
<1>4. CASE LastAnswer(u) \/ FirstBatch(u)
  BY <1>4 DEF LastAnswer, FirstBatch, AskBatch
<1>5. CASE NextBatch(u)
  <2>1. CASE None \in ToSet(got[u])
    BY <1>5, <2>1 DEF NextBatch
  <2>2. CASE None \notin ToSet(got[u])
    <3>1. \/ AskBatch(u, dir[u], (k[u] + Len(got[u]) - 1) + 1)
          \/ UNCHANGED net
      BY <1>5, <2>2, Zenon DEF NextBatch
    <3> QED
      BY <3>1 DEF AskBatch
  <2> QED
    BY <2>1, <2>2
<1>6. CASE FirstLook(u) \/ FirstDelete(u)
  BY <1>6 DEF FirstLook, FirstDelete
<1>7. CASE Erase(u) \/ ReplaceElement(u)
  BY <1>7 DEF Erase, ReplaceElement
<1>8. CASE NextDelete(u)
  BY <1>8 DEF NextDelete
<1> QED
  BY <1>1, <1>2, <1>3, <1>4, <1>5, <1>6, <1>7, <1>8 DEF Continues

\* The users' steps.
LEMMA GoneUser ==
  ASSUME Typed, ShapeInv, JobInv, GoneInv, NEW u \in Users, Begin(u) \/ Continues(u)
  PROVE  GoneInv'
<1>1. UserStep(u)
  BY BeginStep, ContinueStep DEF Typed, ShapeInv, Begun, Asked, Ended
<1>2. conn' = conn
  BY UserConn
<1>3. \A w \in Workers : todo'[w] = todo[w]
  BY <1>1, ProcTypes DEF UserStep, NetSame
<1> QED
  BY <1>1, <1>2, <1>3 DEF UserStep, GoneInv, setter, pool

\* The end of a request: a connection that fails is there still.
LEMMA GoneNet ==
  ASSUME Typed, GoneInv, NEW p \in Procs, Answered(p) \/ Refused(p) \/ Failed(p)
  PROVE  GoneInv'
<1>1. UNCHANGED setter /\ UNCHANGED pool
  BY DEF Answered, Refused, Failed
<1>2. ASSUME NEW w \in Workers, todo'[w] # <<>>
      PROVE  todo[w] # <<>> /\ conn'[w] = conn[w]
  <2>1. CASE Answered(p) \/ Refused(p)
    <3>1. todo' = [todo EXCEPT ![p] = Tail(@)] /\ conn' = conn /\ todo[p] # <<>>
      BY <2>1 DEF Answered, Refused
    <3> QED
      BY <1>2, <3>1, ProcTypes DEF Typed, NetType
  <2>2. CASE Failed(p)
    <3>1. /\ todo' = [todo EXCEPT ![p] = <<>>]
          /\ conn' = [conn EXCEPT ![p] = "stuck"] \/ conn' = conn
      BY <2>2 DEF Failed
    <3> QED
      BY <1>2, <3>1, ProcTypes DEF Typed, NetType
  <2> QED
    BY <2>1, <2>2
<1> QED
  BY <1>1, <1>2 DEF GoneInv, setter, pool

\* ArraySetN's own steps: the workers begin when there is no job yet, and no job is sent
\* after the last.
LEMMA GoneSetter ==
  ASSUME Typed, JobInv, GoneInv, Setter
  PROVE  GoneInv'
<1>1. \A w \in Workers : todo'[w] # <<>> => conn'[w] # "none"
  BY SetterStep DEF GoneInv, net
<1>2. CASE spc = "idle" /\ wpc' = [w \in Workers |-> "new"]
  BY <1>1, <1>2 DEF GoneInv
<1>3. CASE spc \in {"queue", "add"} /\ wpc' = wpc
  <2>1. nextJob # N + 2
    BY <1>3, Sizes DEF JobInv
  <2>2. \A w \in Workers : wpc[w] # "gone"
    BY <1>3, <2>1 DEF GoneInv
  <2> QED
    BY <1>1, <1>3, <2>2 DEF GoneInv
<1>4. CASE spc' = "returned"
  BY <1>1, <1>4 DEF GoneInv
<1> QED
  BY <1>2, <1>3, <1>4, SetterStep

\* The workers' steps.
LEMMA GoneWorker ==
  ASSUME Typed, JobInv, WritesOnly, GoneInv, NEW w \in Workers, Worker(w)
  PROVE  GoneInv'
<1> DEFINE Stays(label) ==
      /\ WorkerGoto(w, label) /\ label # "gone" /\ wpc[w] # "gone" /\ UNCHANGED <<spc, nextJob>>
      /\ jobs = <<>> => jobs' = <<>>
<1>1. wpc \in [Workers -> {"new", "reportConnect", "loop", "setting", "report", "done", "gone"}]
  BY DEF Typed, SetType
<1>2. conn \in [Procs -> {"none", "open", "stuck"}] /\ todo \in [Procs -> Seq(RequestType)]
      /\ Workers \subseteq Procs
  BY ProcTypes DEF Typed, NetType
<1>3. ASSUME NEW label, Stays(label), \A v \in Workers : todo'[v] # <<>> => conn'[v] # "none"
      PROVE  GoneInv'
  <2>1. \A v \in Workers : wpc'[v] = "gone" => wpc[v] = "gone"
    BY <1>1, <1>3 DEF WorkerGoto
  <2> QED
    BY <1>3, <2>1 DEF GoneInv
<1> HIDE DEF Stays
<1>4. CASE Connect(w)
  <2>1. \E label \in {"loop", "reportConnect"} : Stays(label)
    BY <1>4 DEF Connect, Stays, setter
  <2>2. todo' = todo /\ (conn' = conn \/ conn' = [conn EXCEPT ![w] = "open"])
    BY <1>4 DEF Connect
  <2>3. \A v \in Workers : todo'[v] # <<>> => conn'[v] # "none"
    BY <1>2, <2>2 DEF GoneInv
  <2> QED
    BY <1>3, <2>1, <2>3
<1>5. CASE Take(w)
  <2>1. /\ wpc[w] = "loop" /\ jobs # <<>> /\ UNCHANGED <<spc, nextJob>>
        /\ \/ WorkerGoto(w, "report") /\ UNCHANGED net
           \/ /\ WorkerGoto(w, "setting") /\ SendBulk(w, SetRequests(JobValue(Head(jobs))))
              /\ conn[w] # "none"
    BY <1>5 DEF Take
  <2>2. \E label \in {"report", "setting"} : Stays(label)
    BY <2>1 DEF Stays
  <2>3. \A v \in Workers : todo'[v] # <<>> => conn'[v] # "none"
    <3>1. CASE UNCHANGED net
      BY <3>1 DEF GoneInv, net
    <3>2. CASE SendBulk(w, SetRequests(JobValue(Head(jobs)))) /\ conn[w] # "none"
      <4>1. conn' = conn /\ \A v \in Workers \ {w} : todo'[v] = todo[v]
        BY <1>2, <3>2 DEF SendBulk
      <4> QED
        BY <3>2, <4>1 DEF GoneInv
    <3> QED
      BY <2>1, <3>1, <3>2
  <2> QED
    BY <1>3, <2>2, <2>3
<1>6. CASE SetReturns(w) \/ Report(w) \/ DoneJob(w)
  <2>1. \E label \in {"report", "done", "loop"} : Stays(label)
    BY <1>6 DEF SetReturns, Report, DoneJob, Stays, setter
  <2>2. \A v \in Workers : todo'[v] # <<>> => conn'[v] # "none"
    BY <1>6 DEF SetReturns, Report, DoneJob, GoneInv, net
  <2> QED
    BY <1>3, <2>1, <2>2
<1>7. CASE Panic(w)
  BY <1>7, PanicStep DEF GoneInv
<1>8. CASE Exit(w)
  <2>1. /\ wpc[w] = "loop" /\ jobs = <<>> /\ nextJob = N + 2 /\ UNCHANGED <<spc, nextJob, jobs, todo>>
        /\ conn' = [conn EXCEPT ![w] = "none"]
    BY <1>8 DEF Exit, setter
  <2>2. todo[w] = <<>>
    BY <2>1 DEF WritesOnly, Owes
  <2>3. \A v \in Workers : todo'[v] # <<>> => conn'[v] # "none"
    BY <1>2, <2>1, <2>2 DEF GoneInv
  <2> QED
    BY <2>1, <2>3 DEF GoneInv
<1> QED
  BY <1>4, <1>5, <1>6, <1>7, <1>8 DEF Worker

\* While ArraySetN has not returned, it can go on, or one of its workers can, or waits
\* for ever at a connection that is locked for good or for room in the channel of errors
\* (array_ops.go 59-121), with any number of workers and elements: the wait group counts
\* no job that is neither in the channel nor with a worker, and no worker leaves before
\* the last job has been taken.
THEOREM ArraySetGoesOn == Spec => []SetGoesOn
<1> DEFINE Inv == Typed /\ ShapeInv /\ JobInv /\ StoreInv /\ GoneInv
<1>1. Inv /\ [Next]_vars => Inv'
  <2> SUFFICES ASSUME Inv, [Next]_vars PROVE GoneInv'
    BY NextTypes, NextStore
  <2>1. CASE UNCHANGED vars
    BY <2>1 DEF vars, net, setter, pool, GoneInv
  <2>2. WritesOnly
    BY DEF StoreInv
  <2> QED
    BY <2>1, <2>2, GoneUser, GoneNet, GoneSetter, GoneWorker DEF Next, Continues
<1>2. Init => Inv
  <2> SUFFICES ASSUME Init PROVE GoneInv
    BY InitTypes, InitStore
  <2> QED
    BY ProcTypes DEF Init, GoneInv
<1>3. Inv => SetGoesOn
  <2> SUFFICES ASSUME Inv, spc = "wait", wg # 0
               PROVE  \E w \in Workers : Ready(w) \/ Blocked(w)
    BY DEF SetGoesOn, SetterReady
  <2>1. /\ wpc \in [Workers -> {"new", "reportConnect", "loop", "setting", "report", "done", "gone"}]
        /\ conn \in [Procs -> {"none", "open", "stuck"}] /\ errs \in 0..N + 1 /\ nextJob = N + 2
        /\ Workers \subseteq Procs
    BY ProcTypes DEF Typed, NetType, SetType, JobInv
  <2>2. ASSUME NEW w \in Workers, wpc[w] # "gone" PROVE Ready(w) \/ Blocked(w)
    <3>1. errs < Capacity \/ errs = Capacity
      BY <2>1, Sizes DEF Capacity
    <3>2. todo[w] # <<>> => conn[w] \in {"open", "stuck"}
      BY <2>1 DEF GoneInv
    <3> QED
      BY <2>1, <2>2, <3>1, <3>2 DEF Ready, Blocked
  <2>3. \E w \in Workers : wpc[w] # "gone"
    <3> SUFFICES ASSUME \A w \in Workers : wpc[w] = "gone" PROVE FALSE
      OBVIOUS
    <3>1. jobs = <<>>
      BY ProcAssumption DEF GoneInv
    <3>2. Busy = {}
      BY DEF Busy
    <3>3. wg + 0 = Len(jobs) + Cardinality(Busy) /\ wg \in Nat
      BY DEF JobInv, Sent, Typed, SetType
    <3>4. Len(jobs) = 0 /\ Cardinality(Busy) = 0
      BY <3>1, <3>2, FS_EmptySet
    <3> QED
      BY <3>3, <3>4
  <2> QED
    BY <2>2, <2>3
<1> QED
  BY <1>1, <1>2, <1>3, PTL DEF Spec

-----------------------------------------------------------------------------
(* What the users read of an array that ArraySetN has stored. *)

\* Clean calls that end right are what ReadBack asks for.
LEMMA ReadBackIs == (\A u \in Users : RightCall(u)) => ReadBack
BY DEF RightCall, Clean, EndsRight, ReadBack

\* While nobody writes, the first pages of the elements and of the directory are there.
LEMMA CleanStore ==
  ASSUME StoreInv, ReadInv, NEW u \in Users, Clean(u)
  PROVE  \A e \in 0..N : Lookup(e, 0) = Element(e)
<1>1. sres = "nil" /\ writes = 0 /\ refusals = 0
  BY DEF Clean, ReadInv
<1>2. ASSUME NEW e \in 0..N PROVE Lookup(e, 0) = Element(e)
  <2>1. PagesOf(Element(e)) \in 1..LastPage + 1
    BY PageOf
  <2>2. 0 \in 0..PagesOf(Element(e)) - 1 /\ 0 \in PageNumbers
    BY <2>1, Sizes DEF PageNumbers
  <2> QED
    BY <1>1, <2>2 DEF StoreInv, NilMeansStored, Lookup
<1> QED
  BY <1>2

\* A call that is not disturbed.
LEMMA SameReads ==
  ASSUME NEW u \in Users, CallSame(u), NetSame(u), RightCall(u), Clean(u)' => Clean(u),
         failures > 0 => failures' > 0
  PROVE  RightCall(u)'
<1>1. /\ pc'[u] = pc[u] /\ call'[u] = call[u] /\ dir'[u] = dir[u] /\ out'[u] = out[u]
      /\ k'[u] = k[u] /\ result'[u] = result[u]
      /\ todo'[u] = todo[u] /\ got'[u] = got[u] /\ failed'[u] = failed[u]
  BY DEF CallSame, NetSame
<1>2. \A j : AskedFor(u, j)' = AskedFor(u, j)
  BY <1>1 DEF AskedFor
<1>3. SizeOf(u)' = SizeOf(u)
  BY <1>1 DEF SizeOf
<1>4. ReadsRight(u) => ReadsRight(u)'
  BY <1>1, <1>2, <1>3 DEF ReadsRight, Reading, InOrder, ReadSoFar
<1>5. EndsRight(u) => EndsRight(u)'
  BY <1>1, <1>3 DEF EndsRight
<1> QED
  BY <1>1, <1>4, <1>5 DEF RightCall

\* What a request of a reading call asks for is an element or the directory.
LEMMA AskedForType ==
  ASSUME Typed, ShapeInv, NEW u \in Users, ReadsRight(u), Reading(u), ~failed[u],
         NEW j \in 1..Count(u)
  PROVE  AskedFor(u, j) \in 0..N
<1>1. CallShape(u) /\ N \in Nat /\ N >= 1
  BY Sizes DEF ShapeInv
<1>2. CASE pc[u] = "dir"
  BY <1>1, <1>2 DEF AskedFor, Directory
<1>3. CASE pc[u] = "elem"
  <2>1. k[u] \in 1..N
    BY <1>1, <1>3 DEF CallShape
  <2> QED
    BY <1>1, <1>3, <2>1 DEF AskedFor
<1>4. CASE pc[u] = "batch"
  <2>1. k[u] \in 1..N /\ Len(dir[u]) = N /\ Count(u) = Len(Batch(u, dir[u], k[u]))
    BY <1>1, <1>4 DEF CallShape
  <2>2. dir[u] \in Seq(0..Elsewhere)
    BY DEF Typed, UserType
  <2>3. Len(Batch(u, dir[u], k[u])) <= N - k[u] + 1 /\ Len(Batch(u, dir[u], k[u])) \in Nat
    BY <2>1, <2>2, BatchIs
  <2>4. k[u] + j - 1 \in 0..N
    BY <1>1, <2>1, <2>3
  <2> QED
    BY <1>4, <2>4 DEF AskedFor
<1>5. CASE pc[u] = "last" /\ call[u].op = "ArrayGetElem"
  <2>1. call[u].idx \in 1..N
    BY <1>5 DEF ReadsRight
  <2> QED
    BY <1>1, <1>5, <2>1 DEF AskedFor
<1> QED
  BY <1>2, <1>3, <1>4, <1>5 DEF Reading

\* A request of a reading call is answered.
LEMMA ReadAnswered ==
  ASSUME Typed, ShapeInv, StoreInv, ReadInv, NEW u \in Users, Answered(u)
  PROVE  RightCall(u)'
<1>0. NetType /\ UserType /\ u \in Procs
  BY ProcTypes DEF Typed
<1>1. PICK a \in Stored : /\ Served(u, a)
                          /\ todo[u][1].op = "get" => a = Lookup(todo[u][1].elem, todo[u][1].page)
  BY <1>0, AnsweredStep
<1>2. refusals' = refusals
  BY <1>0, AnsweredStep
<1>3. /\ todo'[u] = Tail(todo[u]) /\ got'[u] = Append(got[u], a) /\ failed'[u] = failed[u]
      /\ todo[u] # <<>> /\ UNCHANGED user /\ failures' = failures /\ writes' = writes
  BY <1>1 DEF Served
<1>4. CallSame(u)
  BY <1>3, UserUnchanged
<1>5. todo[u] \in Seq(RequestType) /\ got[u] \in Seq(Stored)
  BY <1>0 DEF NetType
<1>6. /\ Len(todo[u]) \in Nat /\ Len(todo[u]) >= 1 /\ Len(todo'[u]) = Len(todo[u]) - 1
      /\ \A i \in 1..Len(todo'[u]) : i + 1 \in 1..Len(todo[u]) /\ todo'[u][i] = todo[u][i + 1]
  <2>1. /\ Len(todo[u]) \in Nat /\ Len(todo[u]) >= 1 /\ Len(Tail(todo[u])) = Len(todo[u]) - 1
        /\ \A i \in 1..Len(Tail(todo[u])) :
             i + 1 \in 1..Len(todo[u]) /\ Tail(todo[u])[i] = todo[u][i + 1]
    BY <1>3, <1>5, HeadTail
  <2> QED
    BY <1>3, <2>1
<1>7. /\ Len(got[u]) \in Nat /\ Len(got'[u]) = Len(got[u]) + 1 /\ got'[u][Len(got[u]) + 1] = a
      /\ \A j \in 1..Len(got[u]) : got'[u][j] = got[u][j]
  BY <1>1, <1>3, <1>5
<1>8. \A j : AskedFor(u, j)' = AskedFor(u, j)
  BY <1>4 DEF AskedFor, CallSame
<1>9. Clean(u)' => Clean(u)
  BY <1>2, <1>3, <1>4 DEF Clean, CallSame
<1>10. pc[u] # "idle"
  BY <1>3 DEF ShapeInv, CallShape
<1> SUFFICES ASSUME Clean(u) PROVE ReadsRight(u)'
  BY <1>4, <1>9, <1>10 DEF RightCall, CallSame
<1>11. ReadsRight(u)
  BY DEF ReadInv, RightCall
<1>12. ASSUME Reading(u), ~failed[u]
       PROVE  /\ \A j \in 1..Len(got'[u]) : got'[u][j] = Element(AskedFor(u, j))
              /\ \A j \in 1..Len(todo'[u]) :
                   todo'[u][j] = Request("get", AskedFor(u, Len(got'[u]) + j), 0, None)
  <2>1. /\ \A j \in 1..Len(got[u]) : got[u][j] = Element(AskedFor(u, j))
        /\ \A j \in 1..Len(todo[u]) :
             todo[u][j] = Request("get", AskedFor(u, Len(got[u]) + j), 0, None)
    BY <1>11, <1>12 DEF ReadsRight
  <2> DEFINE n == Len(got[u]) + 1
             e == AskedFor(u, n)
  <2>2. todo[u][1] = Request("get", e, 0, None)
    BY <1>6, <2>1
  <2>3. e \in 0..N
    <3>1. n \in 1..Count(u)
      <4>1. \A m, l \in Nat : l >= 1 => m + 1 \in 1..m + l
        OBVIOUS
      <4> QED
        BY <1>6, <1>7, <4>1, Zenon DEF Count
    <3> QED
      BY <1>11, <1>12, <3>1, AskedForType
  <2>4. a = Lookup(e, 0)
    BY <1>1, <2>2 DEF Request
  <2>5. a = Element(e)
    BY <2>3, <2>4, CleanStore
  <2>6. ASSUME NEW j \in 1..Len(got'[u]) PROVE got'[u][j] = Element(AskedFor(u, j))
    <3>1. j \in 1..Len(got[u]) \/ j = n
      BY <1>7
    <3> QED
      BY <1>7, <2>1, <2>5, <3>1
  <2>7. ASSUME NEW j \in 1..Len(todo'[u])
        PROVE  todo'[u][j] = Request("get", AskedFor(u, Len(got'[u]) + j), 0, None)
    <3>1. j + 1 \in 1..Len(todo[u]) /\ todo'[u][j] = todo[u][j + 1]
      BY <1>6
    <3>2. Len(got[u]) + (j + 1) = Len(got'[u]) + j
      <4>1. \A m \in Nat, l \in Int : m + (l + 1) = (m + 1) + l
        OBVIOUS
      <4>2. j \in Int
        OBVIOUS
      <4> QED
        BY <1>7, <4>1, <4>2, Zenon
    <3> QED
      BY <2>1, <3>1, <3>2
  <2> QED
    BY <2>6, <2>7
<1>13. SizeOf(u)' = SizeOf(u)
  BY <1>4 DEF SizeOf, CallSame
<1>14. /\ pc'[u] = pc[u] /\ call'[u] = call[u] /\ dir'[u] = dir[u] /\ out'[u] = out[u] /\ k'[u] = k[u]
  BY <1>4 DEF CallSame
<1> QED
  BY <1>3, <1>8, <1>11, <1>12, <1>13, <1>14 DEF ReadsRight, Reading, InOrder, ReadSoFar

\* The end of a request, of this call or another, keeps reads right.
LEMMA ReadNet ==
  ASSUME Typed, ShapeInv, StoreInv, ReadInv, NEW p \in Procs, Answered(p) \/ Refused(p) \/ Failed(p)
  PROVE  ReadInv'
<1>0. NetType /\ UserType /\ failures \in Nat /\ refusals \in Nat
  BY DEF Typed, UserType
<1>1. /\ UNCHANGED user /\ UNCHANGED setter /\ writes' = writes
      /\ \A q \in Procs \ {p} : NetSame(q)
      /\ refusals' = refusals \/ refusals' = refusals + 1
      /\ \/ failed'[p] = failed[p] /\ failures' = failures
         \/ failures' = failures + 1
  <2>1. CASE Answered(p)
    <3>1. PICK a : Served(p, a)
      BY <1>0, <2>1, AnsweredStep
    <3>2. refusals' = refusals
      BY <1>0, <2>1, AnsweredStep
    <3> QED
      BY <3>1, <3>2 DEF Served
  <2>2. CASE Refused(p)
    <3>1. Served(p, None) /\ refusals' = refusals + 1
      BY <1>0, <2>2, RefusedStep
    <3> QED
      BY <3>1 DEF Served
  <2>3. CASE Failed(p)
    <3>1. Broken(p)
      BY <1>0, <2>3, FailedStep
    <3> QED
      BY <3>1 DEF Broken
  <2> QED
    BY <2>1, <2>2, <2>3
<1>6. failures + 1 > 0 /\ refusals + 1 # 0 /\ (failures > 0 => failures' > 0)
  <2>1. failures + 1 > 0 /\ refusals + 1 # 0
    BY <1>0
  <2> QED
    BY <1>1, <2>1, Zenon
<1>2. \A u : CallSame(u)
  BY <1>1, UserUnchanged
<1>3. ASSUME NEW u \in Users PROVE call'[u].clean => sres' = "nil"
  BY <1>1 DEF ReadInv, user, setter
<1>4. ASSUME NEW u \in Users PROVE failed'[u] => failures' > 0
  <2>1. CASE u = p
    BY <1>1, <1>6, <2>1, Zenon DEF ReadInv
  <2>2. CASE u # p
    <3>1. failed'[u] = failed[u]
      BY <1>1, <2>2, ProcTypes DEF NetSame
    <3> QED
      BY <1>6, <3>1, Zenon DEF ReadInv
  <2> QED
    BY <2>1, <2>2
<1>5. ASSUME NEW u \in Users PROVE RightCall(u)'
  <2>1. CallSame(u) /\ RightCall(u)
    BY <1>2 DEF ReadInv
  <2>2. (Clean(u)' => Clean(u)) /\ (failures > 0 => failures' > 0)
    BY <1>1, <1>6, <2>1, Zenon DEF Clean, CallSame
  <2>3. CASE u # p
    <3>1. NetSame(u)
      BY <1>1, <2>3, ProcTypes
    <3> QED
      BY <2>1, <2>2, <3>1, SameReads
  <2>4. CASE u = p /\ Answered(p)
    BY <2>4, ReadAnswered
  <2>5. CASE u = p /\ Refused(p)
    <3>1. refusals' # 0
      BY <1>0, <2>5, RefusedStep
    <3> QED
      BY <3>1 DEF RightCall, Clean
  <2>6. CASE u = p /\ Failed(p)
    <3>1. failed'[u] = TRUE /\ todo[u] # <<>>
      BY <1>0, <2>6, FailedStep DEF Broken
    <3>2. pc[u] # "idle"
      BY <3>1 DEF ShapeInv, CallShape
    <3>3. SizeOf(u)' = SizeOf(u)
      BY <2>1 DEF SizeOf, CallSame
    <3>4. ReadsRight(u) => ReadsRight(u)'
      BY <2>1, <3>1, <3>3 DEF ReadsRight, CallSame, InOrder, ReadSoFar
    <3> QED
      BY <2>1, <2>2, <3>2, <3>4 DEF RightCall, CallSame
  <2> QED
    BY <2>3, <2>4, <2>5, <2>6
<1> QED
  BY <1>3, <1>4, <1>5 DEF ReadInv

\* The remainder by the size of the batches.
LEMMA Multiples ==
  ASSUME NEW n \in Nat, NEW a \in Int, NEW b \in Int, a < b
  PROVE  n * a + n <= n * b
<1>1. PICK d \in Nat : b = a + 1 + d
  <2>1. b - a - 1 \in Nat /\ b = a + 1 + (b - a - 1)
    OBVIOUS
  <2> QED
    BY <2>1
<1>2. n * b = n * a + n + n * d
  BY <1>1
<1>3. n * d >= 0 /\ n * d \in Int /\ n * a \in Int
  OBVIOUS
<1> QED
  BY <1>2, <1>3

\* What is left over whole batches.
LEMMA Remainder ==
  ASSUME NEW n \in Nat, n >= 1, NEW m \in Nat, NEW r \in 0..n - 1
  PROVE  (m * n + r) % n = r
<1> DEFINE q == (m * n + r) \div n
           s == (m * n + r) % n
<1>1. q \in Int /\ s \in 0..n - 1 /\ n * m + r = n * q + s
  OBVIOUS
<1> HIDE DEF q, s
<1>2. ~(q < m) /\ ~(m < q)
  BY <1>1, Multiples
<1>3. q = m
  BY <1>1, <1>2
<1>4. s = r
  BY <1>1, <1>3
<1> QED
  BY <1>4 DEF s

\* Gets have been asked for, nothing is answered yet.
LEMMA GetsAsked ==
  ASSUME NEW u, NEW rs \in Seq(RequestType), todo'[u] = rs, got'[u] = <<>>,
         \A j \in 1..Len(rs) : rs[j] = Request("get", AskedFor(u, j)', 0, None)
  PROVE  /\ \A j \in 1..Len(got'[u]) : got'[u][j] = Element(AskedFor(u, j)')
         /\ \A j \in 1..Len(todo'[u]) :
              todo'[u][j] = Request("get", AskedFor(u, Len(got[u]) + j)', 0, None)
<1>1. Len(got'[u]) = 0 /\ \A j \in 1..Len(got'[u]) : FALSE
  OBVIOUS
<1>2. \A j \in 1..Len(rs) : Len(got'[u]) + j = j
  BY <1>1
<1>3. ASSUME NEW j \in 1..Len(rs) PROVE AskedFor(u, Len(got[u]) + j)' = AskedFor(u, j)'
  BY <1>2 DEF AskedFor
<1> QED
  BY <1>1, <1>3

\* A single get asked is the first that the call has asked for.
LEMMA OneGetAsked ==
  ASSUME NEW u, NEW e \in 0..Elsewhere, todo'[u] = <<Request("get", e, 0, None)>>, got'[u] = <<>>,
         AskedFor(u, 1)' = e
  PROVE  /\ \A j \in 1..Len(got'[u]) : got'[u][j] = Element(AskedFor(u, j)')
         /\ \A j \in 1..Len(todo'[u]) :
              todo'[u][j] = Request("get", AskedFor(u, Len(got[u]) + j)', 0, None)
<1>1. <<Request("get", e, 0, None)>> \in Seq(RequestType)
  BY OneGet
<1>2. \A j \in 1..Len(<<Request("get", e, 0, None)>>) :
        <<Request("get", e, 0, None)>>[j] = Request("get", AskedFor(u, j)', 0, None)
  OBVIOUS
<1> QED
  BY <1>1, <1>2, GetsAsked

\* The directory that has been read.
LEMMA CleanDirectory ==
  ASSUME Typed, ShapeInv, StoreInv, ReadInv, NEW u \in Users, Clean(u), pc[u] = "dir", Returned(u)
  PROVE  /\ DirRead(u) # <<>> /\ Len(DirRead(u)) = N /\ \A i \in 1..N : DirRead(u)[i] = i
         /\ out[u] = <<>> /\ k[u] = 1 /\ DirRead(u) \in Seq(0..Elsewhere)
<1>1. NetType /\ CallShape(u)
  BY DEF Typed, ShapeInv
<1>2. ~failed[u] /\ Len(got[u]) = 1 /\ Value(u) = got[u][1] /\ Value(u) \in Stored
  BY <1>1, ValueIs
<1>3. ReadsRight(u)
  BY DEF ReadInv, RightCall
<1>4. Value(u) = Element(Directory)
  <2>1. got[u][1] = Element(AskedFor(u, 1))
    BY <1>2, <1>3 DEF ReadsRight, Reading
  <2> QED
    BY <1>2, <2>1 DEF AskedFor
<1>5. Value(u) # None /\ ~Value(u).counted
  BY <1>4, Sizes DEF Element, None, Directory
<1>6. DirRead(u) # <<>> /\ Len(DirRead(u)) = N /\ \A i \in 1..N : DirRead(u)[i] = i
  BY <1>2, <1>5, EntriesAre DEF DirRead
<1>7. DirRead(u) \in Seq(0..Elsewhere)
  BY <1>2, EntriesAre DEF DirRead
<1> QED
  BY <1>1, <1>3, <1>6, <1>7 DEF ReadsRight, CallShape

\* A call of a user that is at work: no other value is possible than the one expected.
LEMMA ReadNoElement ==
  ASSUME Typed, ShapeInv, StoreInv, ReadInv, NEW u \in Users, Clean(u), NoElement(u)
  PROVE  RightCall(u)'
<1>1. NetType /\ UserType /\ CallShape(u)
  BY DEF Typed, ShapeInv
<1>2. pc[u] = "dir" /\ Returned(u)
  BY DEF NoElement, DirIs
<1>3. DirRead(u) # <<>> /\ Len(DirRead(u)) = N
  BY <1>2, CleanDirectory
<1>4. /\ Done(u, "error")
      /\ call[u].idx > N \/ (call[u].op \in Batched /\ SizeOf(u) % GroupSize # 0)
  BY <1>3 DEF NoElement
<1>5. pc'[u] = "idle" /\ result'[u] = "error" /\ call'[u] = call[u]
  BY <1>1, <1>4 DEF Done, Finish, UserType
<1>6. SizeOf(u)' = SizeOf(u)
  BY <1>5 DEF SizeOf
<1>7. EndsRight(u)'
  BY <1>4, <1>5, <1>6 DEF EndsRight
<1>8. ReadsRight(u)'
  BY <1>5 DEF ReadsRight, Reading
<1> QED
  BY <1>7, <1>8 DEF RightCall

\* ArrayGet and ArrayGetElem ask for the element at the index.
LEMMA ReadFirstElement ==
  ASSUME Typed, ShapeInv, StoreInv, ReadInv, NEW u \in Users, Clean(u), FirstElement(u)
  PROVE  RightCall(u)'
<1>1. NetType /\ UserType /\ CallShape(u)
  BY DEF Typed, ShapeInv
<1>2. pc[u] = "dir" /\ Returned(u) /\ call[u].idx <= Len(DirRead(u)) /\ call[u].op \in {"ArrayGet", "ArrayGetElem"}
  BY DEF FirstElement, DirIs
<1>3. /\ Len(DirRead(u)) = N /\ \A i \in 1..N : DirRead(u)[i] = i
      /\ out[u] = <<>> /\ k[u] = 1 /\ DirRead(u) \in Seq(0..Elsewhere)
  BY <1>2, CleanDirectory
<1>4. /\ pc'[u] = IF call[u].op = "ArrayGet" THEN "elem" ELSE "last"
      /\ todo'[u] = <<Request("get", DirRead(u)[call[u].idx], 0, None)>> /\ got'[u] = <<>>
      /\ call'[u] = call[u] /\ dir'[u] = DirRead(u) /\ k'[u] = k[u] /\ out'[u] = out[u]
  BY <1>1, FirstElementStep DEF Asked
<1>5. call[u].idx \in 1..N /\ call[u].idx \in 0..Elsewhere /\ DirRead(u)[call[u].idx] = call[u].idx
  <2>1. call[u].idx \in 1..N
    BY <1>1, <1>2, <1>3, Sizes DEF UserType, CallType, Positions
  <2> QED
    BY <1>3, <2>1, Sizes DEF Elsewhere
<1>6. AskedFor(u, 1)' = call[u].idx
  <2>1. CASE call[u].op = "ArrayGet"
    <3>1. call[u].idx = 1
      BY <1>1, <1>2, <2>1 DEF CallShape
    <3> QED
      BY <1>3, <1>4, <2>1, <3>1 DEF AskedFor
  <2>2. CASE call[u].op # "ArrayGet"
    BY <1>4, <2>2 DEF AskedFor
  <2> QED
    BY <2>1, <2>2
<1>7. /\ \A j \in 1..Len(got'[u]) : got'[u][j] = Element(AskedFor(u, j)')
      /\ \A j \in 1..Len(todo'[u]) :
           todo'[u][j] = Request("get", AskedFor(u, Len(got[u]) + j)', 0, None)
  <2>1. todo'[u] = <<Request("get", call[u].idx, 0, None)>>
    BY <1>4, <1>5
  <2> QED
    BY <1>4, <1>5, <1>6, <2>1, OneGetAsked
<1>8. InOrder(u)'
  BY <1>3, <1>4 DEF InOrder
<1>9. out'[u] \in Seq(Stored) /\ Len(out'[u]) = k'[u] - 1 /\ ReadSoFar(u)'
  <2>1. <<>> \in Seq(Stored) /\ Len(<<>>) = 1 - 1 /\ \A i \in 1..1 - 1 : FALSE
    OBVIOUS
  <2> QED
    BY <1>3, <1>4, <2>1 DEF ReadSoFar
<1>10. pc'[u] \in {"elem", "last"}
  BY <1>4
<1> QED
  BY <1>4, <1>5, <1>7, <1>8, <1>9, <1>10 DEF RightCall, ReadsRight

\* ArrayGet appends the element that is next.
LEMMA ReadNextElement ==
  ASSUME Typed, ShapeInv, StoreInv, ReadInv, NEW u \in Users, Clean(u), NextElement(u)
  PROVE  RightCall(u)'
<1>1. NetType /\ UserType /\ CallShape(u)
  BY DEF Typed, ShapeInv
<1>2. pc[u] = "elem" /\ Returned(u)
  BY DEF NextElement
<1>3. ~failed[u] /\ Len(got[u]) = 1 /\ Value(u) = got[u][1] /\ Value(u) \in Stored
  BY <1>1, <1>2, ValueIs
<1>4. ReadsRight(u) /\ k[u] \in 1..N /\ call[u].op = "ArrayGet"
  BY <1>1, <1>2 DEF ReadInv, RightCall, CallShape
<1>5. Value(u) = Element(k[u])
  <2>1. got[u][1] = Element(AskedFor(u, 1))
    BY <1>2, <1>3, <1>4 DEF ReadsRight, Reading
  <2> QED
    BY <1>2, <1>3, <2>1 DEF AskedFor
<1>6. /\ InOrder(u) /\ out[u] \in Seq(Stored) /\ Len(out[u]) = k[u] - 1 /\ ReadSoFar(u)
  BY <1>2, <1>4 DEF ReadsRight
<1>7. /\ call'[u] = call[u] /\ dir'[u] = dir[u] /\ out'[u] = Append(out[u], Value(u)) /\ k'[u] = k[u] + 1
      /\ \/ k[u] = N /\ Ended(u, "value")
         \/ /\ k[u] < N /\ k[u] + 1 \in 1..N
            /\ Asked(u, "elem", <<Request("get", dir[u][k[u] + 1], 0, None)>>)
  BY <1>1, NextElementStep
<1>8. /\ out'[u] \in Seq(Stored) /\ Len(out'[u]) = k[u] /\ \A i \in 1..k[u] : out'[u][i] = Element(i)
  <2>1. out'[u] \in Seq(Stored) /\ Len(out'[u]) = k[u]
    BY <1>3, <1>4, <1>6, <1>7
  <2>2. ASSUME NEW i \in 1..k[u] PROVE out'[u][i] = Element(i)
    <3>1. CASE i = k[u]
      BY <1>4, <1>5, <1>6, <1>7, <3>1
    <3>2. CASE i # k[u]
      <4>1. i \in 1..k[u] - 1
        BY <1>4, <3>2
      <4>2. out[u][i] = Element(i)
        BY <1>6, <4>1 DEF ReadSoFar
      <4> QED
        BY <1>3, <1>6, <1>7, <4>1, <4>2
    <3> QED
      BY <3>1, <3>2
  <2> QED
    BY <2>1, <2>2
<1>9. CASE k[u] = N /\ Ended(u, "value")
  <2>1. out'[u] = [i \in 1..N |-> Element(i)]
    <3>1. out'[u] \in [1..N -> Stored] /\ \A i \in 1..N : out'[u][i] = Element(i)
      BY <1>8, <1>9
    <3> QED
      BY <3>1
  <2>2. pc'[u] = "idle" /\ result'[u] = "value"
    BY <1>9 DEF Ended
  <2>3. EndsRight(u)'
    BY <1>4, <1>7, <2>1, <2>2 DEF EndsRight
  <2> QED
    BY <2>2, <2>3 DEF RightCall, ReadsRight, Reading
<1>10. CASE k[u] + 1 \in 1..N /\ Asked(u, "elem", <<Request("get", dir[u][k[u] + 1], 0, None)>>)
  <2>1. pc'[u] = "elem" /\ todo'[u] = <<Request("get", dir[u][k[u] + 1], 0, None)>> /\ got'[u] = <<>>
    BY <1>10 DEF Asked
  <2>2. dir[u][k[u] + 1] = k[u] + 1
    BY <1>6, <1>10 DEF InOrder
  <2>3. AskedFor(u, 1)' = k[u] + 1 /\ k[u] + 1 \in 0..Elsewhere
    BY <1>7, <1>10, <2>1, Sizes DEF AskedFor, Elsewhere
  <2>4. /\ \A j \in 1..Len(got'[u]) : got'[u][j] = Element(AskedFor(u, j)')
        /\ \A j \in 1..Len(todo'[u]) :
             todo'[u][j] = Request("get", AskedFor(u, Len(got[u]) + j)', 0, None)
    BY <2>1, <2>2, <2>3, OneGetAsked
  <2>5. InOrder(u)'
    BY <1>6, <1>7 DEF InOrder
  <2>6. Len(out'[u]) = k'[u] - 1 /\ ReadSoFar(u)'
    <3>1. (k[u] + 1) - 1 = k[u]
      BY <1>4
    <3> QED
      BY <1>7, <1>8, <3>1 DEF ReadSoFar
  <2> QED
    BY <1>8, <2>1, <2>4, <2>5, <2>6 DEF RightCall, ReadsRight
<1> QED
  BY <1>7, <1>9, <1>10

\* ArrayGetElem ends with the element of its index.
LEMMA ReadLastAnswer ==
  ASSUME Typed, ShapeInv, StoreInv, ReadInv, NEW u \in Users, Clean(u), LastAnswer(u)
  PROVE  RightCall(u)'
<1>1. NetType /\ UserType /\ CallShape(u)
  BY DEF Typed, ShapeInv
<1>2. pc[u] = "last" /\ Returned(u)
  BY DEF LastAnswer
<1>3. /\ pc'[u] = "idle" /\ call'[u] = call[u] /\ out'[u] = <<Value(u)>>
      /\ result'[u] = IF call[u].op \in {"GetCond", "GetWithCheckpoint", "ArrayGetElem"} THEN "value" ELSE "nil"
  BY <1>1, LastAnswerStep DEF Ended
<1>4. result'[u] # "error" /\ call[u].op \notin {"ArrayGet", "ArrayDelete"} \cup Batched
  BY <1>1, <1>2, <1>3 DEF CallShape
<1>5. call[u].op = "ArrayGetElem" => Value(u) = Element(call[u].idx)
  <2> SUFFICES ASSUME call[u].op = "ArrayGetElem" PROVE Value(u) = Element(call[u].idx)
    OBVIOUS
  <2>1. ~failed[u] /\ Len(got[u]) = 1 /\ Value(u) = got[u][1]
    BY <1>1, <1>2, ValueIs
  <2>2. got[u][1] = Element(AskedFor(u, 1))
    BY <1>2, <2>1 DEF ReadInv, RightCall, ReadsRight, Reading
  <2> QED
    BY <1>2, <2>1, <2>2 DEF AskedFor
<1>6. EndsRight(u)'
  BY <1>3, <1>4, <1>5 DEF EndsRight
<1> QED
  BY <1>3, <1>6 DEF RightCall, ReadsRight, Reading

\* A batch holds the keys from the i-th.
LEMMA BatchElements ==
  ASSUME NEW u, NEW d \in Seq(0..Elsewhere), Len(d) = N, NEW i \in 1..N
  PROVE  \A j \in 1..Len(Batch(u, d, i)) : Batch(u, d, i)[j] = d[i + j - 1]
<1>1. \A j \in 1..Len(Batch(u, d, i)) :
        Batch(u, d, i)[j] = d[i + j - 1] /\ Batch(u, d, i)[j] \in 0..Elsewhere
  BY BatchIs, Zenon
<1> QED
  BY <1>1, Zenon

\* A batch has been asked for: the elements from the k-th.
LEMMA BatchGets ==
  ASSUME NEW u, NEW d \in Seq(0..Elsewhere), Len(d) = N, \A i \in 1..N : d[i] = i, NEW i \in 1..N,
         todo'[u] = AskedBatch(Batch(u, d, i)), got'[u] = <<>>, pc'[u] = "batch", k'[u] = i
  PROVE  /\ \A j \in 1..Len(got'[u]) : got'[u][j] = Element(AskedFor(u, j)')
         /\ \A j \in 1..Len(todo'[u]) :
              todo'[u][j] = Request("get", AskedFor(u, Len(got[u]) + j)', 0, None)
<1>0. PICK b : b = Batch(u, d, i)
  OBVIOUS
<1>5. /\ Len(b) \in Nat /\ Len(b) <= N - i + 1
      /\ AskedBatch(b) \in Seq(RequestType) /\ Len(AskedBatch(b)) = Len(b)
  BY <1>0, BatchIs
<1>6. \A j \in 1..Len(b) : b[j] = d[i + j - 1]
  <2>1. \A j \in 1..Len(Batch(u, d, i)) : Batch(u, d, i)[j] = d[i + j - 1]
    BY BatchElements
  <2> QED
    BY <1>0, <2>1, Zenon
<1>1. /\ Len(b) \in Nat /\ Len(b) <= N - i + 1
      /\ \A j \in 1..Len(b) : b[j] = d[i + j - 1]
      /\ AskedBatch(b) \in Seq(RequestType) /\ Len(AskedBatch(b)) = Len(b)
  BY <1>5, <1>6
<1>2. ASSUME NEW j \in 1..Len(AskedBatch(b))
      PROVE  AskedBatch(b)[j] = Request("get", AskedFor(u, j)', 0, None)
  <2>1. j \in 1..Len(b) /\ i + j - 1 \in 1..N
    BY <1>1, Sizes
  <2>2. AskedBatch(b)[j] = Request("get", b[j], 0, None)
    BY <2>1 DEF AskedBatch
  <2>3. b[j] = i + j - 1
    BY <1>1, <2>1
  <2>4. AskedFor(u, j)' = i + j - 1
    BY DEF AskedFor
  <2> QED
    BY <2>2, <2>3, <2>4
<1>3. AskedBatch(b) \in Seq(RequestType) /\ todo'[u] = AskedBatch(b)
  BY <1>0, <1>1
<1> QED
  BY <1>2, <1>3, GetsAsked

\* The first batch asks for the elements from the first.
LEMMA ReadFirstBatch ==
  ASSUME Typed, ShapeInv, StoreInv, ReadInv, NEW u \in Users, Clean(u), FirstBatch(u)
  PROVE  RightCall(u)'
<1>1. NetType /\ UserType /\ CallShape(u)
  BY DEF Typed, ShapeInv
<1>2. pc[u] = "dir" /\ Returned(u)
  BY DEF FirstBatch, DirIs
<1>3. /\ Len(DirRead(u)) = N /\ \A i \in 1..N : DirRead(u)[i] = i /\ DirRead(u) \in Seq(0..Elsewhere)
  BY <1>2, CleanDirectory
<1>4. /\ pc'[u] = "batch" /\ todo'[u] = AskedBatch(Batch(u, DirRead(u), 1)) /\ got'[u] = <<>>
      /\ call'[u] = call[u] /\ k'[u] = 1 /\ dir'[u] = DirRead(u) /\ out'[u] = [i \in 1..N |-> None]
  BY <1>1, FirstBatchStep DEF Asked
<1>5. DirRead(u) \in Seq(0..Elsewhere) /\ 1 \in 1..N
  BY <1>2, CleanDirectory, Sizes
<1>6. /\ \A j \in 1..Len(got'[u]) : got'[u][j] = Element(AskedFor(u, j)')
      /\ \A j \in 1..Len(todo'[u]) :
           todo'[u][j] = Request("get", AskedFor(u, Len(got[u]) + j)', 0, None)
  <2> DEFINE d == DirRead(u)
  <2>1. d \in Seq(0..Elsewhere) /\ Len(d) = N /\ (\A i \in 1..N : d[i] = i) /\ todo'[u] = AskedBatch(Batch(u, d, 1))
    BY <1>3, <1>4, <1>5
  <2> HIDE DEF d
  <2> QED
    BY <1>4, <1>5, <2>1, BatchGets
<1>7. InOrder(u)'
  BY <1>3, <1>4 DEF InOrder
<1>8. out'[u] \in [1..N -> Stored] /\ ReadSoFar(u)'
  <2>1. None \in Stored /\ \A i \in 1..1 - 1 : FALSE
    BY DEF Stored
  <2> QED
    BY <1>4, <2>1 DEF ReadSoFar
<1>9. \E m \in Nat : k'[u] = m * SizeOf(u)' + 1
  <2>1. SizeOf(u)' = SizeOf(u) /\ SizeOf(u) \in Nat
    BY <1>4, SizeOfType DEF SizeOf
  <2>2. 1 = 0 * SizeOf(u) + 1
    BY <2>1
  <2> QED
    BY <1>4, <2>1, <2>2
<1> QED
  BY <1>4, <1>6, <1>7, <1>8, <1>9 DEF RightCall, ReadsRight

\* The results of a batch go where its elements are, whether the batch is full or not.
LEMMA PlaceIs ==
  ASSUME NEW n \in Nat, n >= 1, NEW m \in Nat, NEW len \in 1..n, NEW j \in 1..len
  PROVE  Place(n, m * n + len, j, len) = m * n + j
<1>1. m * n \in Nat
  OBVIOUS
<1>2. CASE len = n
  BY <1>1, <1>2 DEF Place
<1>3. CASE len # n
  <2>1. (m * n + len) % n = len
    BY <1>3, Remainder
  <2>2. Place(n, m * n + len, j, len) = m * n + len - ((m * n + len) % n) + j
    BY <1>3 DEF Place
  <2> QED
    BY <1>1, <2>1, <2>2
<1> QED
  BY <1>2, <1>3

\* The answers of a batch are placed where their elements are.
LEMMA ReadNextBatch ==
  ASSUME Typed, ShapeInv, StoreInv, ReadInv, NEW u \in Users, Clean(u), NextBatch(u)
  PROVE  RightCall(u)'
<1>1. NetType /\ UserType /\ CallShape(u)
  BY DEF Typed, ShapeInv
<1>2. pc[u] = "batch" /\ Returned(u)
  BY DEF NextBatch
<1> DEFINE len == Len(got[u])
           n == SizeOf(u)
<1>3. /\ todo[u] = <<>> /\ ~failed[u] /\ got[u] \in Seq(Stored) /\ len \in Nat
      /\ len = Len(Batch(u, dir[u], k[u]))
      /\ k[u] \in 1..N /\ Len(dir[u]) = N /\ dir[u] \in Seq(0..Elsewhere)
      /\ Taken(u) \in 1..N
  BY <1>1, <1>2, BatchAnswered
<1>4. len = n \/ (len < n /\ Taken(u) = N)
  BY <1>1, <1>2, BatchAnswered
<1>5. ReadsRight(u) /\ call[u].op \in Batched
  BY <1>1, <1>2 DEF ReadInv, RightCall, CallShape
<1>6. \A j \in 1..len : got[u][j] = Element(k[u] + j - 1)
  BY <1>2, <1>3, <1>5 DEF ReadsRight, Reading, AskedFor
<1>7. InOrder(u) /\ out[u] \in [1..N -> Stored] /\ ReadSoFar(u)
  BY <1>2, <1>5 DEF ReadsRight
<1>8. PICK m \in Nat : k[u] = m * n + 1
  BY <1>2, <1>5 DEF ReadsRight
<1>9. n \in Nat /\ n >= 1 /\ len >= 1 /\ m * n \in Nat
  <2>1. n \in Nat /\ n >= 1
    BY SizeOfType
  <2>2. len >= 1
    BY <1>3, BatchIs
  <2> QED
    BY <2>1, <2>2
<1> HIDE DEF n
<1>10. Taken(u) = m * n + len /\ len \in 1..n
  BY <1>3, <1>4, <1>8, <1>9 DEF Taken
<1>11. \A j \in 1..len : k[u] + j - 1 = m * n + j /\ k[u] + j - 1 \in 1..N
  <2>1. len <= N - k[u] + 1
    BY <1>3, BatchIs
  <2> QED
    BY <1>3, <1>8, <1>9, <2>1, Sizes
<1>12. ASSUME NEW j \in 1..len
       PROVE  Place(SizeOf(u), Taken(u), j, Len(got[u])) = k[u] + j - 1
  <2>1. Place(n, m * n + len, j, len) = m * n + j
    BY <1>9, <1>10, PlaceIs
  <2>2. k[u] + j - 1 = m * n + j
    BY <1>11
  <2> QED
    BY <1>10, <2>1, <2>2, Zenon DEF n
<1>13. ~ \E j \in 1..len : got[u][j] = None
  <2>1. \A i \in 1..N : Element(i) # None
    BY Sizes DEF Element, None
  <2> QED
    BY <1>6, <1>11, <2>1
<1>14. /\ call'[u] = call[u] /\ out'[u] = Filled(u) /\ dir'[u] = dir[u] /\ k'[u] = Taken(u) + 1
       /\ \/ Ended(u, "value") /\ Taken(u) = N
          \/ /\ Taken(u) + 1 \in 1..N
             /\ Asked(u, "batch", AskedBatch(Batch(u, dir[u], Taken(u) + 1)))
  BY <1>1, <1>13, NextBatchStep
<1>15. \A i \in 1..Taken(u) : out'[u][i] = Element(i)
  <2> SUFFICES ASSUME NEW i \in 1..Taken(u) PROVE Filled(u)[i] = Element(i)
    BY <1>14
  <2>1. i \in 1..N /\ k[u] \in Nat
    BY <1>3, Sizes
  <2>2. CASE i \in 1..k[u] - 1
    <3>1. ~ \E j \in 1..len : Place(SizeOf(u), Taken(u), j, Len(got[u])) = i
      BY <1>3, <1>12, <2>2
    <3>2. Filled(u)[i] = out[u][i]
      BY <2>1, <3>1 DEF Filled
    <3> QED
      BY <1>7, <2>2, <3>2 DEF ReadSoFar
  <2>3. CASE ~(i \in 1..k[u] - 1)
    <3>1. i - k[u] + 1 \in 1..len /\ k[u] + (i - k[u] + 1) - 1 = i
      BY <1>3, <2>1, <2>3 DEF Taken
    <3>2. \E j \in 1..len : Place(SizeOf(u), Taken(u), j, Len(got[u])) = i
      BY <1>12, <3>1
    <3>3. PICK j \in 1..len :
            Place(SizeOf(u), Taken(u), j, Len(got[u])) = i /\ Filled(u)[i] = got[u][j]
      BY <2>1, <3>2 DEF Filled
    <3>4. k[u] + j - 1 = i
      BY <1>12, <3>3
    <3> QED
      BY <1>6, <3>3, <3>4
  <2> QED
    BY <2>2, <2>3
<1>16. out'[u] \in [1..N -> Stored]
  <2>1. ASSUME NEW i \in 1..N PROVE Filled(u)[i] \in Stored
    <3>1. \A j \in 1..len : got[u][j] \in Stored
      BY <1>3, ElementOf
    <3>2. CASE \E j \in 1..len : Place(SizeOf(u), Taken(u), j, Len(got[u])) = i
      <4>1. PICK j \in 1..len : Filled(u)[i] = got[u][j]
        BY <3>2 DEF Filled
      <4> QED
        BY <3>1, <4>1
    <3>3. CASE ~ \E j \in 1..len : Place(SizeOf(u), Taken(u), j, Len(got[u])) = i
      BY <1>7, <3>3 DEF Filled
    <3> QED
      BY <3>2, <3>3
  <2>2. Filled(u) = [i \in 1..N |-> Filled(u)[i]]
    BY DEF Filled
  <2> QED
    BY <1>14, <2>1, <2>2
<1>17. CASE Ended(u, "value") /\ Taken(u) = N
  <2>1. out'[u] = [i \in 1..N |-> Element(i)]
    BY <1>15, <1>16, <1>17
  <2>2. pc'[u] = "idle" /\ result'[u] = "value"
    BY <1>17 DEF Ended
  <2>3. call[u].op # "ArrayGetElem"
    BY <1>5 DEF Batched
  <2>4. EndsRight(u)'
    BY <1>14, <2>1, <2>2, <2>3 DEF EndsRight
  <2> QED
    BY <2>2, <2>4 DEF RightCall, ReadsRight, Reading
<1>18. CASE Taken(u) + 1 \in 1..N /\ Asked(u, "batch", AskedBatch(Batch(u, dir[u], Taken(u) + 1)))
  <2>1. /\ pc'[u] = "batch" /\ got'[u] = <<>>
        /\ todo'[u] = AskedBatch(Batch(u, dir[u], Taken(u) + 1))
    BY <1>18 DEF Asked
  <2>2. PICK i \in 1..N : i = Taken(u) + 1
    BY <1>18
  <2>3. PICK d : d = dir[u]
    OBVIOUS
  <2>4. /\ \A j \in 1..Len(got'[u]) : got'[u][j] = Element(AskedFor(u, j)')
        /\ \A j \in 1..Len(todo'[u]) :
             todo'[u][j] = Request("get", AskedFor(u, Len(got[u]) + j)', 0, None)
    <3>1. d \in Seq(0..Elsewhere) /\ Len(d) = N /\ (\A x \in 1..N : d[x] = x)
          /\ todo'[u] = AskedBatch(Batch(u, d, i)) /\ k'[u] = i
      BY <1>3, <1>7, <1>14, <2>1, <2>2, <2>3 DEF InOrder
    <3> QED
      BY <2>1, <3>1, BatchGets
  <2>5. InOrder(u)'
    BY <1>7, <1>14 DEF InOrder
  <2>6. ReadSoFar(u)'
    <3>1. (Taken(u) + 1) - 1 = Taken(u)
      BY <1>3
    <3> QED
      BY <1>14, <1>15, <3>1 DEF ReadSoFar
  <2>7. \E x \in Nat : k'[u] = x * SizeOf(u)' + 1
    <3>1. SizeOf(u)' = n
      BY <1>14 DEF SizeOf, n
    <3>2. len = n
      BY <1>3, <1>4, <1>18, Sizes
    <3>3. Taken(u) + 1 = (m + 1) * n + 1
      BY <1>9, <1>10, <3>2
    <3> QED
      BY <1>14, <3>1, <3>3
  <2> QED
    BY <1>16, <2>1, <2>4, <2>5, <2>6, <2>7 DEF RightCall, ReadsRight
<1> QED
  BY <1>14, <1>17, <1>18

\* Calls that write or delete are not clean.
LEMMA DestructiveSteps ==
  ASSUME Typed, ShapeInv, NEW u \in Users,
         FirstLook(u) \/ FirstDelete(u) \/ Erase(u) \/ ReplaceElement(u) \/ NextDelete(u)
  PROVE  call[u].op \in Destructive /\ pc[u] # "idle"
<1>1. pc[u] # "idle" /\ CallShape(u)
  <2>1. Continues(u)
    BY DEF Continues
  <2> QED
    BY <2>1, ContinuesBusy DEF ShapeInv
<1>2. CASE FirstLook(u) \/ FirstDelete(u) \/ ReplaceElement(u) \/ NextDelete(u)
  BY <1>1, <1>2 DEF FirstLook, FirstDelete, ReplaceElement, NextDelete, DirIs, Destructive
<1>3. CASE Erase(u)
  <2>1. pc[u] = "look"
    BY <1>3 DEF Erase
  <2> QED
    BY <1>1, <2>1 DEF CallShape, Destructive
<1> QED
  BY <1>1, <1>2, <1>3

\* A clean call that goes on reads right.
LEMMA ReadContinues ==
  ASSUME Typed, ShapeInv, StoreInv, ReadInv, NEW u \in Users, Continues(u)
  PROVE  RightCall(u)'
<1>1. NetType /\ UserType /\ CallShape(u)
  BY DEF Typed, ShapeInv
<1>2. UserStep(u) /\ call'[u] = call[u] /\ writes' = writes
  BY <1>1, ContinueStep DEF Asked, Ended
<1>3. Clean(u)' => Clean(u)
  BY <1>2 DEF Clean, UserStep
<1> SUFFICES ASSUME Clean(u) PROVE RightCall(u)'
  BY <1>3 DEF RightCall
<1>4. CASE Raise(u)
  <2>1. Ended(u, "error") /\ failed[u]
    BY <1>1, <1>4, RaiseStep
  <2>2. pc'[u] = "idle" /\ result'[u] = "error" /\ failures' = failures
    BY <2>1 DEF Ended, UserStep
  <2>3. failures > 0
    BY <2>1 DEF ReadInv
  <2>4. EndsRight(u)'
    BY <2>2, <2>3 DEF EndsRight
  <2> QED
    BY <2>2, <2>4 DEF RightCall, ReadsRight, Reading
<1>5. CASE NoElement(u)
  BY <1>5, ReadNoElement
<1>6. CASE FirstElement(u)
  BY <1>6, ReadFirstElement
<1>7. CASE NextElement(u)
  BY <1>7, ReadNextElement
<1>8. CASE LastAnswer(u)
  BY <1>8, ReadLastAnswer
<1>9. CASE FirstBatch(u)
  BY <1>9, ReadFirstBatch
<1>10. CASE NextBatch(u)
  BY <1>10, ReadNextBatch
<1>11. CASE FirstLook(u) \/ FirstDelete(u) \/ Erase(u) \/ ReplaceElement(u) \/ NextDelete(u)
  <2>1. call[u].op \in Destructive /\ pc[u] # "idle"
    BY <1>11, DestructiveSteps
  <2> QED
    BY <2>1 DEF StoreInv, NobodyWrites, Clean
<1> QED
  BY <1>4, <1>5, <1>6, <1>7, <1>8, <1>9, <1>10, <1>11 DEF Continues

\* A call that begins has read nothing yet.
LEMMA ReadBegin ==
  ASSUME Typed, ShapeInv, StoreInv, ReadInv, NEW u \in Users, Begin(u)
  PROVE  RightCall(u)'
<1>1. NetType /\ UserType /\ CallShape(u)
  BY DEF Typed, ShapeInv
<1>2. PICK op \in AllOps, i \in Positions, label \in {"dir", "last"}, rs \in Seq(RequestType) :
        Begun(u, op, i, label, rs)
  BY <1>1, BeginStep
<1>3. /\ pc'[u] = label /\ todo'[u] = rs /\ got'[u] = <<>> /\ out'[u] = <<>> /\ call'[u].op = op
      /\ Starts(u, op, label, rs)
  BY <1>2 DEF Begun, Asked
<1>4. CASE label = "dir"
  <2>1. op \in DirFirst
    BY <1>3, <1>4 DEF Starts
  <2>2. todo'[u] = <<Request("get", Directory, 0, None)>>
    BY <1>3, <2>1 DEF Starts
  <2>3. AskedFor(u, 1)' = Directory /\ Directory \in 0..Elsewhere
    BY <1>3, <1>4, Sizes DEF AskedFor, Directory, Elsewhere
  <2>4. /\ \A j \in 1..Len(got'[u]) : got'[u][j] = Element(AskedFor(u, j)')
        /\ \A j \in 1..Len(todo'[u]) :
             todo'[u][j] = Request("get", AskedFor(u, Len(got[u]) + j)', 0, None)
    BY <1>3, <2>2, <2>3, OneGetAsked
  <2> QED
    BY <1>3, <1>4, <2>4 DEF RightCall, ReadsRight
<1>5. CASE label = "last"
  <2>1. op # "ArrayGetElem"
    BY <1>3, <1>5 DEF Starts, DirFirst
  <2> QED
    BY <1>3, <1>5, <2>1 DEF RightCall, ReadsRight, Reading
<1> QED
  BY <1>4, <1>5

\* The step of a call keeps all clean calls right.
LEMMA ReadUser ==
  ASSUME Typed, ShapeInv, StoreInv, ReadInv, NEW u \in Users, Begin(u) \/ Continues(u)
  PROVE  ReadInv'
<1>1. NetType /\ UserType /\ CallShape(u) /\ writes \in Nat
  BY DEF Typed, ShapeInv, UserType
<1>2. /\ writes' = 0 => writes = 0
      /\ call'[u].clean => sres = "nil"
  <2>1. CASE Begin(u)
    <3>1. PICK op \in AllOps, i \in Positions, label \in {"dir", "last"}, rs \in Seq(RequestType) :
            Begun(u, op, i, label, rs)
      BY <1>1, <2>1, BeginStep
    <3>2. /\ writes' = writes + (IF op \in Destructive THEN 1 ELSE 0)
          /\ call'[u].clean => sres = "nil"
      BY <3>1, Zenon DEF Begun
    <3>3. writes' = 0 => writes = 0
      BY <1>1, <3>2
    <3> QED
      BY <3>2, <3>3
  <2>2. CASE Continues(u)
    <3>1. call'[u] = call[u] /\ writes' = writes
      BY <1>1, <2>2, ContinueStep
    <3> QED
      BY <3>1 DEF ReadInv
  <2> QED
    BY <2>1, <2>2
<1>3. UserStep(u) /\ (failed'[u] = FALSE \/ failed'[u] = failed[u])
  <2>1. CASE Begin(u)
    BY <1>1, <2>1, BeginStep DEF Begun, Asked
  <2>2. CASE Continues(u)
    BY <1>1, <2>2, ContinueStep DEF Ended, Asked
  <2> QED
    BY <2>1, <2>2
<1>4. sres' = sres /\ failures' = failures /\ refusals' = refusals
  BY <1>3 DEF UserStep, setter
<1>5. \A v \in Users \ {u} : CallSame(v) /\ NetSame(v)
  BY <1>3, ProcTypes DEF UserStep
<1>6. ASSUME NEW v \in Users PROVE call'[v].clean => sres' = "nil"
  BY <1>2, <1>4, <1>5 DEF ReadInv, CallSame
<1>7. ASSUME NEW v \in Users PROVE failed'[v] => failures' > 0
  BY <1>3, <1>4, <1>5 DEF ReadInv, NetSame
<1>8. ASSUME NEW v \in Users PROVE RightCall(v)'
  <2>1. CASE v = u
    BY <2>1, ReadBegin, ReadContinues
  <2>2. CASE v # u
    <3>1. CallSame(v) /\ NetSame(v) /\ RightCall(v)
      BY <1>5, <2>2 DEF ReadInv
    <3>2. (Clean(v)' => Clean(v)) /\ (failures > 0 => failures' > 0)
      BY <1>2, <1>4, <3>1 DEF Clean, CallSame
    <3> QED
      BY <3>1, <3>2, SameReads
  <2> QED
    BY <2>1, <2>2
<1> QED
  BY <1>6, <1>7, <1>8 DEF ReadInv

\* The step of ArraySetN or of a worker keeps all clean calls right.
LEMMA ReadInside ==
  ASSUME Typed, ReadInv, Inside, (\A u \in Users : ~call[u].clean) \/ sres' = sres, failures' >= failures
  PROVE  ReadInv'
<1>1. UNCHANGED user /\ UNCHANGED <<refusals, writes>> /\ \A u \in Users : NetSame(u)
  BY DEF Inside
<1>2. \A u : CallSame(u)
  BY <1>1, UserUnchanged
<1>3. failures \in Nat /\ failures' \in Nat /\ (failures > 0 => failures' > 0)
  BY DEF Typed, UserType, Inside
<1>4. ASSUME NEW u \in Users
      PROVE  (call'[u].clean => sres' = "nil") /\ (failed'[u] => failures' > 0)
  BY <1>1, <1>2, <1>3 DEF ReadInv, CallSame, NetSame
<1>5. ASSUME NEW u \in Users PROVE RightCall(u)'
  <2>1. CallSame(u) /\ NetSame(u) /\ RightCall(u)
    BY <1>1, <1>2 DEF ReadInv
  <2>2. Clean(u)' => Clean(u)
    BY <1>1, <2>1 DEF Clean, CallSame
  <2> QED
    BY <1>3, <2>1, <2>2, SameReads
<1> QED
  BY <1>4, <1>5 DEF ReadInv

\* ReadInv is inductive with the invariants before it.
LEMMA NextRead ==
  ASSUME Typed, ShapeInv, JobInv, StoreInv, ReadInv, [Next]_vars
  PROVE  ReadInv'
<1>0. failures \in Nat /\ NetType /\ UserType
  BY DEF Typed, UserType
<1>1. ASSUME NEW p \in Procs, Answered(p) \/ Refused(p) \/ Failed(p) PROVE ReadInv'
  BY <1>1, ReadNet
<1>2. ASSUME NEW u \in Users, Begin(u) \/ Continues(u) PROVE ReadInv'
  BY <1>2, ReadUser
<1>3. CASE Setter
  <2>1. Inside /\ failures' = failures
    BY <1>3, SetterStep DEF bounds
  <2>2. spc = "wait" \/ sres' = sres
    BY <1>3, SetterStep
  <2>3. (\A u \in Users : ~call[u].clean) \/ sres' = sres
    BY <2>2 DEF ReadInv, JobInv
  <2> QED
    BY <1>0, <2>1, <2>3, ReadInside
<1>4. ASSUME NEW w \in Workers, Worker(w) PROVE ReadInv'
  <2>1. Inside
    BY <1>4, ConnectStep, TakeStep, SetReturnsStep, ReportStep, DoneJobStep, PanicStep, ExitStep DEF Worker
  <2>2. sres' = sres /\ (failures' = failures \/ failures' = failures + 1)
    BY <1>4 DEF Worker, Connect, Take, SetReturns, Report, DoneJob, Panic, Exit, setter, bounds
  <2>3. failures' >= failures
    BY <1>0, <2>2
  <2> QED
    BY <2>1, <2>2, <2>3, ReadInside
<1>5. CASE UNCHANGED vars
  <2>1. UNCHANGED net /\ UNCHANGED user /\ UNCHANGED bounds /\ UNCHANGED setter
    BY <1>5 DEF vars
  <2>2. Inside /\ sres' = sres /\ failures' = failures
    BY <1>0, <2>1, QuietInside DEF setter, bounds
  <2> QED
    BY <1>0, <2>2, ReadInside
<1> QED
  BY <1>1, <1>2, <1>3, <1>4, <1>5 DEF Next, Continues

\* No call is clean before ArraySetN has returned.
LEMMA InitRead ==
  ASSUME Init
  PROVE  ReadInv
<1>1. \A u \in Users : ~call[u].clean /\ ~failed[u]
  BY ProcTypes DEF Init, NoCall
<1> QED
  BY <1>1 DEF ReadInv, RightCall, Clean

\* A call that begins after ArraySetN has returned nil finds every element at its place
\* while nobody writes or deletes, in batches of any size: what it has been answered so
\* far are the elements from the first, and the rest of a batch goes behind the full ones.
THEOREM ArrayReadBack == Spec => []ReadBack
<1> DEFINE Inv == Typed /\ ShapeInv /\ JobInv /\ StoreInv /\ ReadInv
<1>1. Inv /\ [Next]_vars => Inv'
  BY NextTypes, NextStore, NextRead
<1>2. Init => Inv
  BY InitTypes, InitStore, InitRead
<1>3. Inv => ReadBack
  BY ReadBackIs DEF ReadInv
<1> QED
  BY <1>1, <1>2, <1>3, PTL DEF Spec

-----------------------------------------------------------------------------
(* What ArrayDelete leaves of the array. *)

\* Calls that delete right are what DeletedIsGone asks for.
LEMMA DeletedIsGoneIs == (\A u \in Users : AloneCall(u)) => DeletedIsGone
BY DEF AloneCall, Alone, AllDeleted, DeletedIsGone

\* After ArraySetN has returned its workers ask for nothing.
LEMMA WorkersRest ==
  ASSUME Typed, JobInv, StoreInv, spc = "returned", NEW w \in Workers
  PROVE  todo[w] = <<>> /\ wpc[w] \notin {"setting", "report", "done"} /\ jobs = <<>>
<1>1. IsFiniteSet(Busy) /\ Cardinality(Busy) \in Nat
  BY FS_CardinalityType DEF JobInv
<1>2. 0 = Len(jobs) + Cardinality(Busy) /\ Len(jobs) \in Nat /\ jobs \in Seq(0..N)
  BY DEF JobInv, Sent, Typed, SetType
<1>3. Busy = {} /\ jobs = <<>>
  BY <1>1, <1>2, FS_EmptySet
<1> QED
  BY <1>3 DEF StoreInv, WritesOnly, Owes, Busy

\* While ArrayDelete has the array for itself, only its own requests change it.
LEMMA StoreFixed ==
  ASSUME Typed, ShapeInv, JobInv, StoreInv, NEW u \in Users, spc = "returned", OthersRead(u),
         NEW p \in Procs, p # u, Answered(p) \/ Refused(p) \/ Failed(p)
  PROVE  store' = store
<1>1. NetType /\ UserType /\ todo[p] # <<>>
  BY DEF Typed, Answered, Refused, Failed
<1>2. p \in Users
  BY <1>1, WorkersRest DEF Procs
<1>3. pc[p] # "idle" /\ call[p].op \notin Destructive
  BY <1>1, <1>2 DEF ShapeInv, CallShape, OthersRead
<1>4. todo[p] \in Seq(RequestType)
  BY <1>1 DEF NetType
<1>5. todo[p][1] \in RequestType /\ 1 \in 1..Len(todo[p])
  BY <1>1, <1>4, HeadTail
<1>6. todo[p][1].op \in {"get", "getcond"}
  BY <1>2, <1>3, <1>5 DEF ShapeInv, CallShape
<1>7. Applied(store, todo[p][1]) = store
  BY <1>6 DEF Applied
<1>8. CASE Answered(p)
  BY <1>1, <1>7, <1>8, AnsweredStep
<1>9. CASE Refused(p)
  BY <1>1, <1>9, RefusedStep
<1>10. CASE Failed(p)
  BY <1>1, <1>7, <1>10, FailedStep DEF Broken
<1> QED
  BY <1>8, <1>9, <1>10

\* Nothing that is gone comes back by a delete.
LEMMA DeleteOnlyTakes ==
  ASSUME NetType, NEW r \in RequestType, r.op = "delete"
  PROVE  /\ \A e \in 0..N : store[e][0] = None => Applied(store, r)[e][0] = None
         /\ r.elem \in 0..N /\ r.page = 0 => Applied(store, r)[r.elem][0] = None
<1>1. store \in [0..N -> [PageNumbers -> Stored]] /\ 0 \in PageNumbers /\ r.page \in PageNumbers
  BY Sizes DEF NetType, RequestType, PageNumbers
<1>2. CASE r.elem \in 0..N
  <2>1. Applied(store, r) = [store EXCEPT ![r.elem][r.page] = None]
    BY <1>2 DEF Applied
  <2> QED
    BY <1>1, <1>2, <2>1
<1>3. CASE r.elem \notin 0..N
  <2>1. Applied(store, r) = store
    BY <1>3 DEF Applied
  <2> QED
    BY <1>1, <1>3, <2>1
<1> QED
  BY <1>2, <1>3

\* A get leaves the store.
LEMMA GetTakesNothing ==
  ASSUME NEW r, r.op = "get"
  PROVE  Applied(store, r) = store
BY DEF Applied

\* A call of ArrayDelete that is not disturbed.
LEMMA SameDeletes ==
  ASSUME NEW u \in Users, CallSame(u), NetSame(u), AloneCall(u), Alone(u)' => Alone(u),
         Alone(u) => (OthersRead(u))' /\ store' = store /\ (spc = "returned" => spc' = "returned")
  PROVE  AloneCall(u)'
<1> SUFFICES ASSUME Alone(u)
             PROVE  spc' = "returned" /\ DeletesRight(u)' /\ AllDeleted(u)'
  BY DEF AloneCall
<1>1. /\ pc'[u] = pc[u] /\ call'[u] = call[u] /\ dir'[u] = dir[u]
      /\ k'[u] = k[u] /\ result'[u] = result[u] /\ suc'[u] = suc[u]
      /\ todo'[u] = todo[u] /\ got'[u] = got[u] /\ failed'[u] = failed[u] /\ store' = store
  BY DEF CallSame, NetSame
<1>2. Key(u)' = Key(u)
  BY <1>1 DEF Key
<1>3. KeyValue(u)' = KeyValue(u)
  BY <1>1 DEF KeyValue, Key, Lookup
<1>4. (DirOf(u)' <=> DirOf(u)) /\ (GoneBefore(u)' <=> GoneBefore(u))
  BY <1>1 DEF DirOf, GoneBefore
<1>5. DeletesRight(u) => DeletesRight(u)'
  BY <1>1, <1>2, <1>3, <1>4 DEF DeletesRight
<1>6. AllDeleted(u) => AllDeleted(u)'
  BY <1>1 DEF AllDeleted
<1> QED
  BY <1>5, <1>6 DEF AloneCall

\* ArrayDelete has the directory, a key's value or its deletes under way.
LEMMA DeletePlaces ==
  ASSUME ShapeInv, NEW u \in Users, Alone(u)
  PROVE  pc[u] \notin {"elem", "batch", "last"}
BY DEF ShapeInv, CallShape, Alone, Batched

\* An answer, or an error, to ArrayDelete's own request.
LEMMA DeleteServed ==
  ASSUME Typed, ShapeInv, DeleteInv, NEW u \in Users, Answered(u) \/ Refused(u) \/ Failed(u), Alone(u)
  PROVE  AloneCall(u)'
<1>0. NetType /\ UserType /\ u \in Procs /\ CallShape(u)
  BY ProcTypes DEF Typed, ShapeInv
<1>1. todo[u] # <<>> /\ todo[u] \in Seq(RequestType)
  BY <1>0 DEF Answered, Refused, Failed, NetType
<1>2. /\ todo[u][1] \in RequestType /\ 1 \in 1..Len(todo[u]) /\ Len(todo[u]) \in Nat
      /\ Len(Tail(todo[u])) = Len(todo[u]) - 1
      /\ \A i \in 1..Len(Tail(todo[u])) : i + 1 \in 1..Len(todo[u]) /\ Tail(todo[u])[i] = todo[u][i + 1]
  BY <1>1, HeadTail
<1>3. spc = "returned" /\ OthersRead(u) /\ DeletesRight(u)
  BY DEF DeleteInv, AloneCall
<1>4. pc[u] \in {"dir", "look", "erase"} /\ ~failed[u]
  BY <1>0, <1>1, DeletePlaces DEF CallShape, UserType
<1>5. /\ pc[u] \in {"dir", "look"} => todo[u][1].op = "get"
      /\ pc[u] = "dir" => todo[u][1] = Request("get", Directory, 0, None)
      /\ pc[u] = "look" => todo[u][1] = Request("get", Key(u), 0, None)
      /\ pc[u] = "erase" => todo[u][1].op = "delete"
  BY <1>2, <1>3, <1>4 DEF DeletesRight, Request
<1>6. ~Refused(u)
  <2>1. Refused(u) => todo[u][1].op = "set"
    BY <1>0, RefusedStep
  <2> QED
    BY <1>4, <1>5, <2>1
<1>7. /\ UNCHANGED user /\ UNCHANGED setter /\ UNCHANGED writes
      /\ \/ Broken(u)
         \/ /\ store' = Applied(store, todo[u][1]) /\ failed'[u] = failed[u]
            /\ todo'[u] = Tail(todo[u])
            /\ \E a \in Stored : /\ got'[u] = Append(got[u], a)
                                 /\ todo[u][1].op = "get" => a = Lookup(todo[u][1].elem, todo[u][1].page)
  <2>1. CASE Answered(u)
    BY <1>0, <2>1, AnsweredStep DEF Served
  <2>2. CASE Failed(u)
    <3>1. Broken(u)
      BY <1>0, <2>2, FailedStep
    <3> QED
      BY <3>1 DEF Broken
  <2> QED
    BY <1>6, <2>1, <2>2
<1>8. CallSame(u)
  BY <1>7, UserUnchanged
<1>9. /\ pc'[u] = pc[u] /\ call'[u] = call[u] /\ dir'[u] = dir[u] /\ k'[u] = k[u]
      /\ suc'[u] = suc[u] /\ spc' = spc
  BY <1>7, <1>8 DEF CallSame, setter
<1>10. OthersRead(u)' /\ Key(u)' = Key(u)
  BY <1>3, <1>7, <1>9 DEF OthersRead, user, Key
<1>11. /\ pc[u] \in {"dir", "look"} => store' = store
       /\ \A e \in 0..N : store[e][0] = None => store'[e][0] = None
       /\ pc[u] = "erase" /\ ~failed'[u] /\ todo[u][1].elem \in 0..N /\ todo[u][1].page = 0 =>
            store'[todo[u][1].elem][0] = None
  <2>1. store' = store \/ store' = Applied(store, todo[u][1])
    BY <1>7 DEF Broken
  <2>2. CASE pc[u] \in {"dir", "look"}
    <3>1. Applied(store, todo[u][1]) = store
      BY <1>5, <2>2, GetTakesNothing
    <3> QED
      BY <2>1, <2>2, <3>1
  <2>3. CASE pc[u] = "erase"
    <3>1. /\ \A e \in 0..N : store[e][0] = None => Applied(store, todo[u][1])[e][0] = None
          /\ todo[u][1].elem \in 0..N /\ todo[u][1].page = 0 =>
               Applied(store, todo[u][1])[todo[u][1].elem][0] = None
      BY <1>0, <1>2, <1>5, <2>3, DeleteOnlyTakes
    <3>2. ~failed'[u] => store' = Applied(store, todo[u][1])
      BY <1>7 DEF Broken
    <3> QED
      BY <2>1, <2>3, <3>1, <3>2
  <2> QED
    BY <1>4, <2>2, <2>3
<1>12. DirOf(u) => DirOf(u)'
  <2>1. Directory \in 0..N
    BY Sizes DEF Directory
  <2>2. store[Directory][0] = None => store'[Directory][0] = None
    BY <1>11, <2>1
  <2> QED
    BY <1>9, <2>2 DEF DirOf
<1>13. GoneBefore(u) => GoneBefore(u)'
  BY <1>9, <1>11 DEF GoneBefore
<1>14. ~failed'[u] =>
         /\ Len(got[u]) \in Nat /\ Len(got'[u]) = Len(got[u]) + 1
         /\ \A j \in 1..Len(got'[u]) :
              IF j \in 1..Len(got[u]) THEN got'[u][j] = got[u][j]
              ELSE todo[u][1].op = "get" => got'[u][j] = Lookup(todo[u][1].elem, todo[u][1].page)
         /\ \A j \in 1..Len(todo'[u]) : j + 1 \in 1..Len(todo[u]) /\ todo'[u][j] = todo[u][j + 1]
  <2> SUFFICES ASSUME ~failed'[u]
               PROVE  /\ Len(got[u]) \in Nat /\ Len(got'[u]) = Len(got[u]) + 1
                      /\ \A j \in 1..Len(got'[u]) :
                           IF j \in 1..Len(got[u]) THEN got'[u][j] = got[u][j]
                           ELSE todo[u][1].op = "get" =>
                                  got'[u][j] = Lookup(todo[u][1].elem, todo[u][1].page)
                      /\ \A j \in 1..Len(todo'[u]) :
                           j + 1 \in 1..Len(todo[u]) /\ todo'[u][j] = todo[u][j + 1]
    OBVIOUS
  <2>1. PICK a \in Stored : /\ got'[u] = Append(got[u], a) /\ todo'[u] = Tail(todo[u])
                            /\ todo[u][1].op = "get" => a = Lookup(todo[u][1].elem, todo[u][1].page)
    BY <1>7 DEF Broken
  <2>2. got[u] \in Seq(Stored) /\ Len(got[u]) \in Nat
    BY <1>0 DEF NetType
  <2>3. Len(got'[u]) = Len(got[u]) + 1 /\ got'[u][Len(got[u]) + 1] = a
        /\ \A j \in 1..Len(got[u]) : got'[u][j] = got[u][j]
    BY <2>1, <2>2
  <2>4. ASSUME NEW j \in 1..Len(got'[u]), j \notin 1..Len(got[u]) PROVE j = Len(got[u]) + 1
    BY <2>2, <2>3, <2>4
  <2> QED
    BY <1>2, <2>1, <2>2, <2>3, <2>4
<1>15. CASE pc[u] = "dir"
  <2>1. ASSUME ~failed'[u]
        PROVE  /\ \A j \in 1..Len(got'[u]) : got'[u][j] = store'[Directory][0]
               /\ \A j \in 1..Len(todo'[u]) : todo'[u][j] = Request("get", Directory, 0, None)
    <3>1. Lookup(todo[u][1].elem, todo[u][1].page) = store[Directory][0] /\ todo[u][1].op = "get"
      BY <1>5, <1>15, Sizes DEF Lookup, Request, Directory, PageNumbers
    <3>2. /\ \A j \in 1..Len(got[u]) : got[u][j] = store[Directory][0]
          /\ \A j \in 1..Len(todo[u]) : todo[u][j] = Request("get", Directory, 0, None)
      BY <1>3, <1>4, <1>15 DEF DeletesRight
    <3> QED
      BY <1>11, <1>14, <1>15, <2>1, <3>1, <3>2
  <2>2. suc'[u]
    BY <1>3, <1>9, <1>15 DEF DeletesRight
  <2>3. DeletesRight(u)'
    BY <1>9, <1>15, <2>1, <2>2 DEF DeletesRight
  <2> QED
    BY <1>3, <1>9, <1>10, <1>15, <2>3 DEF AloneCall, AllDeleted
<1>16. CASE pc[u] = "look"
  <2>1. ASSUME ~failed'[u]
        PROVE  /\ \A j \in 1..Len(got'[u]) : got'[u][j] = KeyValue(u)
               /\ \A j \in 1..Len(todo'[u]) : todo'[u][j] = Request("get", Key(u), 0, None)
    <3>1. Lookup(todo[u][1].elem, todo[u][1].page) = KeyValue(u) /\ todo[u][1].op = "get"
      BY <1>5, <1>16 DEF Request, KeyValue
    <3>2. /\ \A j \in 1..Len(got[u]) : got[u][j] = KeyValue(u)
          /\ \A j \in 1..Len(todo[u]) : todo[u][j] = Request("get", Key(u), 0, None)
      BY <1>3, <1>4, <1>16 DEF DeletesRight
    <3> QED
      BY <1>14, <1>16, <2>1, <3>1, <3>2
  <2>2. KeyValue(u)' = KeyValue(u)
    <3>1. store' = store
      BY <1>11, <1>16
    <3> QED
      BY <1>9, <3>1 DEF KeyValue, Key, Lookup
  <2>3. DirOf(u)' /\ (suc'[u] => GoneBefore(u)')
    BY <1>3, <1>9, <1>12, <1>13, <1>16 DEF DeletesRight
  <2>4. DeletesRight(u)'
    BY <1>9, <1>10, <1>16, <2>1, <2>2, <2>3 DEF DeletesRight
  <2> QED
    BY <1>3, <1>9, <1>10, <1>16, <2>4 DEF AloneCall, AllDeleted
<1>17. CASE pc[u] = "erase"
  <2>1. /\ Key(u) \in 0..N /\ Len(dir[u]) = N + 1
        /\ \A i \in 1..Len(todo[u]) : todo[u][i].op = "delete"
        /\ suc[u] => \A i \in 1..k[u] - 1 : dir[u][i] # Key(u)
        /\ \/ store[Key(u)][0] = None
           \/ \E i \in 1..Len(todo[u]) : todo[u][i].elem = Key(u) /\ todo[u][i].page = 0
    BY <1>3, <1>4, <1>17 DEF DeletesRight
  <2>2. \A i \in 1..Len(todo'[u]) : todo'[u][i].op = "delete"
    <3>1. CASE Broken(u)
      <4>1. todo'[u] = <<>> /\ \A i \in 1..Len(<<>>) : FALSE
        BY <3>1 DEF Broken
      <4> QED
        BY <4>1
    <3>2. CASE ~Broken(u)
      <4>1. todo'[u] = Tail(todo[u])
        BY <1>7, <3>2
      <4> QED
        BY <1>2, <2>1, <4>1
    <3> QED
      BY <3>1, <3>2
  <2>3. ASSUME ~failed'[u]
        PROVE  \/ store'[Key(u)][0] = None
               \/ \E i \in 1..Len(todo'[u]) : todo'[u][i].elem = Key(u) /\ todo'[u][i].page = 0
    <3>1. CASE store[Key(u)][0] = None
      BY <1>11, <2>1, <3>1
    <3>2. CASE \E i \in 1..Len(todo[u]) : todo[u][i].elem = Key(u) /\ todo[u][i].page = 0
      <4>1. PICK i \in 1..Len(todo[u]) : todo[u][i].elem = Key(u) /\ todo[u][i].page = 0
        BY <3>2
      <4>2. CASE i = 1
        BY <1>11, <1>17, <2>1, <2>3, <4>1, <4>2
      <4>3. CASE i # 1
        <5>1. todo'[u] = Tail(todo[u])
          BY <1>7, <2>3 DEF Broken
        <5>2. i - 1 \in 1..Len(todo'[u]) /\ (i - 1) + 1 = i
          BY <1>2, <4>3, <5>1
        <5> QED
          BY <1>14, <2>3, <4>1, <5>2
      <4> QED
        BY <4>2, <4>3
    <3> QED
      BY <2>1, <3>1, <3>2
  <2>4. DirOf(u)' /\ (suc'[u] => GoneBefore(u)')
    BY <1>3, <1>9, <1>12, <1>13, <1>17 DEF DeletesRight
  <2>5. DeletesRight(u)'
    BY <1>9, <1>10, <1>17, <2>1, <2>2, <2>3, <2>4 DEF DeletesRight
  <2> QED
    BY <1>3, <1>9, <1>10, <1>17, <2>5 DEF AloneCall, AllDeleted
<1> QED
  BY <1>4, <1>15, <1>16, <1>17

\* A call of ArrayDelete that begins while every other call is idle.
LEMMA DeleteBegin ==
  ASSUME Typed, ShapeInv, DeleteInv, NEW u \in Users, Begin(u), Alone(u)'
  PROVE  AloneCall(u)'
<1>1. NetType /\ UserType /\ CallShape(u)
  BY DEF Typed, ShapeInv
<1>2. PICK op \in AllOps, i \in Positions, label \in {"dir", "last"}, rs \in Seq(RequestType) :
        Begun(u, op, i, label, rs)
  BY <1>1, BeginStep
<1>3. /\ pc'[u] = label /\ todo'[u] = rs /\ got'[u] = <<>> /\ call'[u].op = op /\ suc'[u] = TRUE
      /\ Starts(u, op, label, rs) /\ (call'[u].settled => spc = "returned" /\ AllIdle)
      /\ UserStep(u)
  BY <1>2, Zenon DEF Begun, Asked
<1>4. op = "ArrayDelete" /\ spc = "returned" /\ AllIdle
  BY <1>3, Zenon DEF Alone
<1>5. label = "dir" /\ todo'[u] = <<Request("get", Directory, 0, None)>>
  BY <1>3, <1>4 DEF Starts, DirFirst
<1>6. OthersRead(u)'
  <2>1. \A v \in Users \ {u} : pc'[v] = pc[v]
    BY <1>3 DEF UserStep, CallSame
  <2> QED
    BY <1>4, <2>1 DEF AllIdle, OthersRead
<1>7. /\ \A j \in 1..Len(got'[u]) : FALSE
      /\ \A j \in 1..Len(todo'[u]) : todo'[u][j] = Request("get", Directory, 0, None)
  BY <1>3, <1>5
<1>8. DeletesRight(u)'
  BY <1>3, <1>5, <1>7 DEF DeletesRight
<1>9. spc' = "returned" /\ AllDeleted(u)'
  BY <1>3, <1>4, <1>5 DEF UserStep, setter, AllDeleted
<1> QED
  BY <1>6, <1>8, <1>9 DEF AloneCall

\* A key is looked up.
LEMMA LookAsked ==
  ASSUME NEW u \in Users, NEW e \in 0..Elsewhere, Asked(u, "look", <<Request("get", e, 0, None)>>),
         Key(u)' = e, DirOf(u)', suc'[u] => GoneBefore(u)'
  PROVE  DeletesRight(u)'
<1>1. /\ pc'[u] = "look" /\ got'[u] = <<>> /\ todo'[u] = <<Request("get", e, 0, None)>>
  BY DEF Asked
<1>2. /\ \A j \in 1..Len(got'[u]) : FALSE
      /\ \A j \in 1..Len(todo'[u]) : todo'[u][j] = Request("get", e, 0, None)
  BY <1>1
<1> QED
  BY <1>1, <1>2 DEF DeletesRight

\* The keys to delete are those of the directory that is stored.
LEMMA DeleteFirst ==
  ASSUME Typed, ShapeInv, DeleteInv, NEW u \in Users, FirstDelete(u), Alone(u)
  PROVE  DeletesRight(u)' /\ pc'[u] # "idle"
<1>1. NetType /\ UserType /\ CallShape(u)
  BY DEF Typed, ShapeInv
<1>2. /\ Asked(u, "look", <<Request("get", KeysOf(DirRead(u))[1], 0, None)>>)
      /\ call'[u] = call[u] /\ call[u].op = "ArrayDelete"
      /\ dir'[u] = KeysOf(DirRead(u)) /\ k'[u] = 1 /\ pc[u] = "dir"
      /\ Value(u) \in Stored /\ Value(u) = got[u][1] /\ Len(got[u]) = 1 /\ ~failed[u]
  BY <1>1, FirstDeleteStep
<1>3. Value(u) = store[Directory][0]
  BY <1>2 DEF DeleteInv, AloneCall, DeletesRight
<1>4. store' = store /\ pc'[u] = "look"
  BY <1>2 DEF Asked, UserStep
<1> DEFINE d == KeysOf(Entries(Value(u)))
<1>5. dir'[u] = d
  BY <1>2 DEF DirRead
<1>6. /\ d \in Seq(0..Elsewhere) /\ Len(d) \in {1, N + 1}
      /\ Value(u) = None => d = <<Directory>>
      /\ Value(u) # None => Len(d) = N + 1 /\ \A i \in 1..N : d[i] = Entries(Value(u))[i]
      /\ d[Len(d)] = Directory
  BY <1>2, KeysAre
<1> HIDE DEF d
<1>7. DirOf(u)'
  <2>1. CASE Value(u) = None
    BY <1>3, <1>4, <1>5, <1>6, <2>1 DEF DirOf
  <2>2. CASE Value(u) # None /\ ~Value(u).counted
    <3>1. \A i \in 1..N : d[i] = i
      BY <1>2, <1>6, <2>2, EntriesAre
    <3> QED
      BY <1>5, <1>6, <2>2, <3>1 DEF DirOf
  <2>3. CASE Value(u) # None /\ Value(u).counted
    <3>1. d[1] = Directory /\ \A i \in 2..N : d[i] = Elsewhere
      <4>1. Entries(Value(u))[1] = Directory /\ \A i \in 2..N : Entries(Value(u))[i] = Elsewhere
        BY <1>2, <2>3, EntriesAre
      <4>2. \A i \in 1..N : d[i] = Entries(Value(u))[i]
        BY <1>6, <2>3
      <4>3. 1 \in 1..N /\ \A i \in 2..N : i \in 1..N
        BY Sizes
      <4> QED
        BY <4>1, <4>2, <4>3
    <3> QED
      BY <1>5, <1>6, <2>3, <3>1 DEF DirOf
  <2> QED
    BY <2>1, <2>2, <2>3
<1>8. GoneBefore(u)'
  <2>1. \A i \in 1..1 - 1 : FALSE
    OBVIOUS
  <2> QED
    BY <1>2, <2>1 DEF GoneBefore
<1>9. Key(u)' = d[1] /\ d[1] \in 0..Elsewhere
  <2>1. 1 \in 1..Len(d)
    <3>1. Len(d) = 1 \/ Len(d) = N + 1
      BY <1>6
    <3>2. CASE Len(d) = 1
      BY <3>2
    <3>3. CASE Len(d) = N + 1
      <4>1. 1 \in 1..N + 1
        BY Sizes
      <4> QED
        BY <3>3, <4>1
    <3> QED
      BY <3>1, <3>2, <3>3
  <2> QED
    BY <1>2, <1>5, <1>6, <2>1, ElementOf DEF Key
<1>10. Asked(u, "look", <<Request("get", d[1], 0, None)>>)
  BY <1>2, <1>5
<1> QED
  BY <1>4, <1>7, <1>8, <1>9, <1>10, LookAsked

\* The value that is to be erased is stored, so it is a key not met before.
LEMMA DeleteErase ==
  ASSUME Typed, ShapeInv, DeleteInv, NEW u \in Users, Erase(u), Alone(u)
  PROVE  DeletesRight(u)' /\ pc'[u] # "idle"
<1>1. NetType /\ UserType /\ CallShape(u)
  BY DEF Typed, ShapeInv
<1>2. /\ Asked(u, "erase", DeleteRequests(Key(u), Value(u)))
      /\ call'[u] = call[u] /\ pc[u] = "look" /\ ~failed[u]
      /\ dir'[u] = dir[u] /\ k'[u] = k[u] /\ suc'[u] = suc[u]
      /\ Value(u) \in Stored /\ Value(u) # None /\ Value(u) = got[u][1] /\ Len(got[u]) = 1
  BY <1>1, EraseStep
<1>3. Value(u) = KeyValue(u) /\ DirOf(u) /\ (suc[u] => GoneBefore(u))
  BY <1>2 DEF DeleteInv, AloneCall, DeletesRight
<1>4. /\ pc'[u] = "erase" /\ todo'[u] = DeleteRequests(Key(u), Value(u)) /\ store' = store
  BY <1>2 DEF Asked, UserStep
<1>5. Key(u) \in 0..N /\ store[Key(u)][0] # None
  BY <1>2, <1>3, Sizes DEF KeyValue, Lookup
<1>6. call[u].op = "ArrayDelete" /\ Key(u) = dir[u][k[u]] /\ k[u] \in 1..Len(dir[u])
  BY <1>1, <1>2 DEF Alone, Key, CallShape
<1>7. Len(dir[u]) = N + 1
  <2>1. CASE dir[u] = <<Directory>> /\ store[Directory][0] = None
    <3>1. Key(u) = Directory
      BY <1>6, <2>1
    <3> QED
      BY <1>5, <2>1, <3>1
  <2> QED
    BY <1>3, <2>1 DEF DirOf
<1>8. Key(u)' = Key(u)
  BY <1>2 DEF Key
<1>9. /\ \A j \in 1..Len(todo'[u]) : todo'[u][j].op = "delete"
      /\ 1 \in 1..Len(todo'[u]) /\ todo'[u][1].elem = Key(u) /\ todo'[u][1].page = 0
  <2>1. Key(u) \in 0..Elsewhere
    BY <1>5, Sizes DEF Elsewhere
  <2>2. /\ DeleteRequests(Key(u), Value(u)) \in Seq(RequestType)
        /\ Len(DeleteRequests(Key(u), Value(u))) >= 1
        /\ \A j \in 1..Len(DeleteRequests(Key(u), Value(u))) : DeleteRequests(Key(u), Value(u))[j].op = "delete"
        /\ DeleteRequests(Key(u), Value(u))[1].elem = Key(u)
        /\ DeleteRequests(Key(u), Value(u))[1].page = 0
    BY <1>2, <2>1, DeleteRequestsAre
  <2> QED
    BY <1>4, <2>2
<1>10. suc[u] => \A i \in 1..k[u] - 1 : dir[u][i] # Key(u)
  BY <1>3, <1>5 DEF GoneBefore
<1>11. DirOf(u)' /\ (suc[u] => GoneBefore(u)')
  BY <1>2, <1>3, <1>4 DEF DirOf, GoneBefore
<1> QED
  BY <1>2, <1>4, <1>5, <1>7, <1>8, <1>9, <1>10, <1>11 DEF DeletesRight

\* The key is gone, or true is out of reach.
LEMMA DeleteNext ==
  ASSUME Typed, ShapeInv, DeleteInv, NEW u \in Users, NextDelete(u), Alone(u)
  PROVE  DeletesRight(u)' /\ AllDeleted(u)'
<1>1. NetType /\ UserType /\ CallShape(u)
  BY DEF Typed, ShapeInv
<1>2. /\ call'[u] = call[u] /\ call[u].op = "ArrayDelete"
      /\ pc[u] \in {"look", "erase"} /\ todo[u] = <<>> /\ ~failed[u]
      /\ dir'[u] = dir[u] /\ k'[u] = k[u] + 1 /\ suc'[u] = AllGone(u)
      /\ \/ ~MoreKeys(u) /\ Ended(u, IF AllGone(u) THEN "true" ELSE "false")
         \/ /\ MoreKeys(u) /\ k[u] + 1 \in 1..Len(dir[u])
            /\ Asked(u, "look", <<Request("get", dir[u][k[u] + 1], 0, None)>>)
  BY <1>1, NextDeleteStep
<1>3. DirOf(u) /\ (suc[u] => GoneBefore(u)) /\ k[u] \in 1..Len(dir[u]) /\ Len(dir[u]) \in Nat
  <2>1. DirOf(u) /\ (suc[u] => GoneBefore(u))
    BY <1>2 DEF DeleteInv, AloneCall, DeletesRight
  <2>2. Len(dir[u]) \in {1, N + 1} /\ k[u] \in 1..Len(dir[u])
    BY <1>1, <1>2 DEF CallShape
  <2> QED
    BY <2>1, <2>2, Sizes
<1>4. store' = store
  BY <1>2 DEF Ended, Asked, UserStep
<1>5. DirOf(u)'
  BY <1>2, <1>3, <1>4 DEF DirOf
<1>6. \A i \in 1..Len(todo[u]) : FALSE
  BY <1>2
<1>7. AllGone(u) =>
        /\ Len(dir[u]) = N + 1
        /\ \A i \in 1..k[u] : dir[u][i] \in 0..N /\ store[dir[u][i]][0] = None
        /\ \A i, j \in 1..k[u] : dir[u][i] = dir[u][j] => i = j
  <2> SUFFICES ASSUME AllGone(u)
               PROVE  /\ Len(dir[u]) = N + 1
                      /\ \A i \in 1..k[u] : dir[u][i] \in 0..N /\ store[dir[u][i]][0] = None
                      /\ \A i, j \in 1..k[u] : dir[u][i] = dir[u][j] => i = j
    OBVIOUS
  <2>1. suc[u] /\ pc[u] = "erase"
    BY DEF AllGone
  <2>2. /\ Key(u) \in 0..N /\ Len(dir[u]) = N + 1 /\ store[Key(u)][0] = None
        /\ \A i \in 1..k[u] - 1 : dir[u][i] # Key(u)
    BY <1>2, <1>6, <2>1 DEF DeleteInv, AloneCall, DeletesRight
  <2>3. Key(u) = dir[u][k[u]]
    BY <1>2 DEF Key
  <2>4. \A i \in 1..k[u] : i = k[u] \/ i \in 1..k[u] - 1
    BY <1>3
  <2>5. GoneBefore(u)
    BY <1>3, <2>1
  <2> QED
    BY <2>2, <2>3, <2>4, <2>5 DEF GoneBefore
<1>8. suc'[u] => GoneBefore(u)'
  <2>1. (k[u] + 1) - 1 = k[u]
    BY <1>3
  <2>2. suc'[u] => AllGone(u)
    BY <1>2, Zenon
  <2> QED
    BY <1>2, <1>4, <1>7, <2>1, <2>2 DEF GoneBefore
<1>9. CASE MoreKeys(u) /\ k[u] + 1 \in 1..Len(dir[u]) /\ Asked(u, "look", <<Request("get", dir[u][k[u] + 1], 0, None)>>)
  <2>1. dir[u][k[u] + 1] \in 0..Elsewhere
    BY <1>1, <1>9, ElementOf DEF UserType
  <2>2. Key(u)' = dir[u][k[u] + 1]
    BY <1>2 DEF Key
  <2>3. pc'[u] = "look"
    BY <1>9 DEF Asked
  <2>4. DeletesRight(u)'
    BY <1>5, <1>8, <1>9, <2>1, <2>2, LookAsked
  <2> QED
    BY <2>3, <2>4 DEF AllDeleted
<1>10. CASE ~MoreKeys(u) /\ Ended(u, IF AllGone(u) THEN "true" ELSE "false")
  <2>1. pc'[u] = "idle" /\ result'[u] = IF AllGone(u) THEN "true" ELSE "false"
    BY <1>10 DEF Ended
  <2>2. DeletesRight(u)'
    BY <2>1 DEF DeletesRight
  <2>3. ASSUME AllGone(u), NEW e \in 0..N PROVE store[e][0] = None
    <3>1. k[u] = Len(dir[u]) /\ Len(dir[u]) = N + 1
      BY <1>3, <1>7, <1>10, <2>3 DEF MoreKeys
    <3>2. /\ \A i \in 1..N + 1 : store[dir[u][i]][0] = None
          /\ \A i, j \in 1..N + 1 : dir[u][i] = dir[u][j] => i = j
      BY <1>7, <2>3, <3>1
    <3>3. 1 \in 1..N + 1 /\ N + 1 \in 1..N + 1 /\ N + 1 # 1
      BY Sizes
    <3>4. dir[u][N + 1] = Directory /\ \A i \in 1..N : dir[u][i] = i
      <4>1. dir[u] # <<Directory>>
        BY <3>1, <3>3
      <4> QED
        BY <1>3, <3>2, <3>3, <4>1 DEF DirOf
    <3>5. e = Directory \/ e \in 1..N
      BY Sizes DEF Directory
    <3>6. \A i \in 1..N : i \in 1..N + 1
      BY Sizes
    <3> QED
      BY <3>2, <3>3, <3>4, <3>5, <3>6
  <2>4. result'[u] = "true" => AllGone(u)
    BY <2>1
  <2> QED
    BY <1>4, <2>2, <2>3, <2>4 DEF AllDeleted
<1> QED
  BY <1>2, <1>9, <1>10

\* ArrayDelete takes no step of another call.
LEMMA DeleteSteps ==
  ASSUME ShapeInv, NEW u \in Users, Alone(u), Continues(u)
  PROVE  Raise(u) \/ NoElement(u) \/ FirstDelete(u) \/ Erase(u) \/ NextDelete(u)
<1>1. pc[u] \notin {"elem", "batch", "last"} /\ call[u].op = "ArrayDelete"
  BY DeletePlaces DEF Alone
<1>2. ~FirstElement(u) /\ ~FirstBatch(u) /\ ~FirstLook(u)
  BY <1>1 DEF FirstElement, FirstBatch, FirstLook, DirIs, Batched
<1>3. ~NextElement(u) /\ ~LastAnswer(u) /\ ~NextBatch(u)
  BY <1>1 DEF NextElement, LastAnswer, NextBatch
<1>4. ~ReplaceElement(u)
  BY <1>1 DEF ReplaceElement
<1> QED
  BY <1>2, <1>3, <1>4 DEF Continues

\* A call of ArrayDelete that goes on and has the array for itself.
LEMMA DeleteContinues ==
  ASSUME Typed, ShapeInv, DeleteInv, NEW u \in Users, Continues(u), Alone(u)
  PROVE  AloneCall(u)'
<1>1. NetType /\ UserType /\ CallShape(u)
  BY DEF Typed, ShapeInv
<1>2. spc = "returned" /\ OthersRead(u)
  BY DEF DeleteInv, AloneCall
<1>3. UserStep(u)
  BY <1>1, ContinueStep DEF Ended, Asked
<1>4. spc' = "returned"
  BY <1>2, <1>3 DEF UserStep, setter
<1>5. OthersRead(u)'
  BY <1>2, <1>3 DEF OthersRead, UserStep, CallSame
<1>6. DeletesRight(u)' /\ AllDeleted(u)'
  <2>1. ASSUME NEW kind, kind # "true", Ended(u, kind) PROVE DeletesRight(u)' /\ AllDeleted(u)'
    BY <2>1 DEF Ended, DeletesRight, AllDeleted
  <2>2. CASE Raise(u)
    BY <1>1, <2>1, <2>2, RaiseStep
  <2>3. CASE NoElement(u)
    BY <1>1, <2>1, <2>3, NoElementStep
  <2>4. CASE FirstDelete(u)
    BY <2>4, DeleteFirst DEF AllDeleted
  <2>5. CASE Erase(u)
    BY <2>5, DeleteErase DEF AllDeleted
  <2>6. CASE NextDelete(u)
    BY <2>6, DeleteNext
  <2> QED
    BY <2>2, <2>3, <2>4, <2>5, <2>6, DeleteSteps
<1> QED
  BY <1>4, <1>5, <1>6 DEF AloneCall

\* How a step of a call changes the count of the writes.
LEMMA WritesGrow ==
  ASSUME Typed, ShapeInv, DeleteInv, NEW u \in Users, Begin(u) \/ Continues(u)
  PROVE  /\ UserStep(u) /\ writes \in Nat /\ writes' \in Nat /\ writes' >= writes
         /\ call'[u].writes <= writes'
         /\ writes' = writes => pc'[u] = "idle" \/ call'[u].op \notin Destructive
                                \/ (pc[u] # "idle" /\ call'[u] = call[u])
<1>1. NetType /\ UserType /\ CallShape(u) /\ writes \in Nat
  BY DEF Typed, ShapeInv, UserType
<1>2. CASE Begin(u)
  <2>1. PICK op \in AllOps, i \in Positions, label \in {"dir", "last"}, rs \in Seq(RequestType) :
          Begun(u, op, i, label, rs)
    BY <1>1, <1>2, BeginStep
  <2>2. /\ UserStep(u) /\ writes' = writes + (IF op \in Destructive THEN 1 ELSE 0)
        /\ call'[u].op = op /\ call'[u].writes = writes'
    BY <2>1, Zenon DEF Begun, Asked
  <2> QED
    BY <1>1, <2>2
<1>3. CASE Continues(u)
  <2>1. UserStep(u) /\ call'[u] = call[u] /\ writes' = writes
    BY <1>1, <1>3, ContinueStep DEF Ended, Asked
  <2>2. pc[u] # "idle"
    BY <1>3, ContinuesBusy
  <2>3. call[u].writes <= writes
    BY DEF DeleteInv
  <2> QED
    BY <1>1, <2>1, <2>2, <2>3
<1> QED
  BY <1>2, <1>3

\* A step of one call, for the calls of ArrayDelete of all.
LEMMA DeleteUser ==
  ASSUME Typed, ShapeInv, JobInv, StoreInv, DeleteInv, NEW u \in Users, Begin(u) \/ Continues(u)
  PROVE  DeleteInv'
<1>1. /\ UserStep(u) /\ writes \in Nat /\ writes' \in Nat /\ writes' >= writes
      /\ call'[u].writes <= writes'
      /\ writes' = writes => pc'[u] = "idle" \/ call'[u].op \notin Destructive
                             \/ (pc[u] # "idle" /\ call'[u] = call[u])
  BY WritesGrow
<1>2. \A v \in Users \ {u} : CallSame(v) /\ NetSame(v)
  BY <1>1, ProcTypes DEF UserStep
<1>3. store' = store /\ spc' = spc
  BY <1>1 DEF UserStep, setter
<1>4. \A v \in Users : call[v].writes \in Nat /\ call[v].writes <= writes
  BY DEF Typed, UserType, CallType, DeleteInv
<1>5. ASSUME NEW v \in Users PROVE call'[v].writes <= writes'
  <2>1. CASE v = u
    BY <1>1, <2>1
  <2>2. CASE v # u
    <3>1. call'[v] = call[v] /\ call[v].writes <= writes /\ call[v].writes \in Nat
      BY <1>2, <1>4, <2>2 DEF CallSame
    <3>2. \A a, b, c \in Nat : a <= b /\ c >= b => a <= c
      OBVIOUS
    <3>3. call[v].writes <= writes'
      BY <1>1, <3>1, <3>2
    <3> QED
      BY <3>1, <3>3
  <2> QED
    BY <2>1, <2>2
<1>6. ASSUME NEW v \in Users PROVE AloneCall(v)'
  <2>1. CASE v = u
    <3>1. CASE Begin(u)
      <4>1. CASE Alone(u)'
        BY <2>1, <3>1, <4>1, DeleteBegin
      <4>2. CASE ~(Alone(u)')
        BY <2>1, <4>2 DEF AloneCall
      <4> QED
        BY <4>1, <4>2
    <3>2. CASE Continues(u)
      <4>1. call'[u] = call[u] /\ writes' = writes
        BY <3>2, ContinueStep DEF Typed, ShapeInv
      <4>2. Alone(u)' <=> Alone(u)
        BY <4>1 DEF Alone
      <4>3. CASE Alone(u)
        BY <2>1, <3>2, <4>3, DeleteContinues
      <4>4. CASE ~Alone(u)
        BY <2>1, <4>2, <4>4 DEF AloneCall
      <4> QED
        BY <4>3, <4>4
    <3> QED
      BY <3>1, <3>2
  <2>2. CASE v # u
    <3>1. CASE ~(Alone(v)')
      BY <3>1 DEF AloneCall
    <3>2. CASE Alone(v)'
      <4>1. call'[v] = call[v] /\ CallSame(v) /\ NetSame(v)
        BY <1>2, <2>2 DEF CallSame
      <4>2. call[v].writes = writes' /\ call[v].op = "ArrayDelete" /\ call[v].settled
        BY <3>2, <4>1 DEF Alone
      <4>3. writes' = writes
        <5>1. \A a, b, c \in Nat : a <= b /\ c >= b /\ a = c => c = b
          OBVIOUS
        <5> QED
          BY <1>1, <1>4, <4>2, <5>1
      <4>4. Alone(v)
        BY <4>2, <4>3 DEF Alone
      <4>5. AloneCall(v) /\ OthersRead(v) /\ spc = "returned"
        BY <4>4 DEF DeleteInv, AloneCall
      <4>6. pc'[u] = "idle" \/ call'[u].op \notin Destructive
        <5>1. pc[u] = "idle" \/ call[u].op \notin Destructive
          BY <2>2, <4>5 DEF OthersRead
        <5> QED
          BY <1>1, <4>3, <5>1
      <4>7. (OthersRead(v))'
        <5>1. ASSUME NEW x \in Users \ {v} PROVE pc'[x] = "idle" \/ call'[x].op \notin Destructive
          <6>1. CASE x = u
            BY <4>6, <6>1
          <6>2. CASE x # u
            BY <1>2, <4>5, <6>2 DEF OthersRead, CallSame
          <6> QED
            BY <6>1, <6>2
        <5> QED
          BY <5>1 DEF OthersRead
      <4> QED
        BY <1>3, <4>1, <4>4, <4>5, <4>7, SameDeletes
    <3> QED
      BY <3>1, <3>2
  <2> QED
    BY <2>1, <2>2
<1> QED
  BY <1>5, <1>6 DEF DeleteInv

\* Steps that leave the users as they are.
LEMMA DeleteBeside ==
  ASSUME Typed, DeleteInv, UNCHANGED user, writes' = writes, NEW u \in Users, NetSame(u),
         Alone(u) => store' = store /\ (spc = "returned" => spc' = "returned")
  PROVE  AloneCall(u)'
<1>1. \A v : CallSame(v)
  BY UserUnchanged
<1>2. Alone(u)' => Alone(u)
  BY DEF Alone, user
<1>3. Alone(u) => (OthersRead(u))'
  BY DEF DeleteInv, AloneCall, OthersRead, user
<1> QED
  BY <1>1, <1>2, <1>3, SameDeletes DEF DeleteInv

\* The end of a request, for the calls of ArrayDelete of all.
LEMMA DeleteNet ==
  ASSUME Typed, ShapeInv, JobInv, StoreInv, DeleteInv, NEW p \in Procs,
         Answered(p) \/ Refused(p) \/ Failed(p)
  PROVE  DeleteInv'
<1>0. NetType /\ UserType
  BY DEF Typed
<1>1. /\ UNCHANGED user /\ UNCHANGED setter /\ writes' = writes
      /\ \A q \in Procs \ {p} : NetSame(q)
  <2>1. CASE Answered(p)
    <3>1. PICK a : Served(p, a)
      BY <1>0, <2>1, AnsweredStep
    <3> QED
      BY <3>1 DEF Served
  <2>2. CASE Refused(p)
    <3>1. Served(p, None)
      BY <1>0, <2>2, RefusedStep
    <3> QED
      BY <3>1 DEF Served
  <2>3. CASE Failed(p)
    <3>1. Broken(p)
      BY <1>0, <2>3, FailedStep
    <3> QED
      BY <3>1 DEF Broken
  <2> QED
    BY <2>1, <2>2, <2>3
<1>2. \A u \in Users : call'[u].writes <= writes'
  BY <1>1 DEF DeleteInv, user
<1>3. spc' = spc
  BY <1>1 DEF setter
<1>4. ASSUME NEW u \in Users PROVE AloneCall(u)'
  <2>1. CASE u = p
    <3>1. Alone(u)' <=> Alone(u)
      BY <1>1 DEF Alone, user
    <3>2. CASE Alone(u)
      BY <2>1, <3>2, DeleteServed
    <3>3. CASE ~Alone(u)
      BY <3>1, <3>3 DEF AloneCall
    <3> QED
      BY <3>2, <3>3
  <2>2. CASE u # p
    <3>1. NetSame(u)
      BY <1>1, <2>2, ProcTypes
    <3>2. Alone(u) => store' = store
      <4> SUFFICES ASSUME Alone(u) PROVE store' = store
        OBVIOUS
      <4>1. spc = "returned" /\ OthersRead(u)
        BY DEF DeleteInv, AloneCall
      <4> QED
        BY <2>2, <4>1, StoreFixed
    <3> QED
      BY <1>1, <1>3, <3>1, <3>2, DeleteBeside
  <2> QED
    BY <2>1, <2>2
<1> QED
  BY <1>2, <1>4 DEF DeleteInv

\* A step of ArraySetN or of a worker leaves ArrayDelete's calls alone.
LEMMA DeleteInside ==
  ASSUME Typed, DeleteInv, Inside, store' = store, spc = "returned" => spc' = "returned"
  PROVE  DeleteInv'
<1>1. UNCHANGED user /\ writes' = writes /\ \A u \in Users : NetSame(u)
  BY DEF Inside
<1>2. \A u \in Users : call'[u].writes <= writes'
  BY <1>1 DEF DeleteInv, user
<1>3. ASSUME NEW u \in Users PROVE AloneCall(u)'
  BY <1>1, DeleteBeside
<1> QED
  BY <1>2, <1>3 DEF DeleteInv

\* DeleteInv is inductive with the types, the shapes, the counting and StoreInv.
LEMMA NextGone ==
  ASSUME Typed, ShapeInv, JobInv, StoreInv, DeleteInv, [Next]_vars
  PROVE  DeleteInv'
<1>1. ASSUME NEW p \in Procs, Answered(p) \/ Refused(p) \/ Failed(p) PROVE DeleteInv'
  BY <1>1, DeleteNet
<1>2. ASSUME NEW u \in Users, Begin(u) \/ Continues(u) PROVE DeleteInv'
  BY <1>2, DeleteUser
<1>3. CASE Setter
  <2>1. Inside /\ store' = store /\ spc # "returned"
    BY <1>3, SetterStep DEF net
  <2> QED
    BY <2>1, DeleteInside
<1>4. ASSUME NEW w \in Workers, Worker(w) PROVE DeleteInv'
  <2>1. Inside /\ store' = store
    BY <1>4, ConnectStep, TakeStep, SetReturnsStep, ReportStep, DoneJobStep, PanicStep, ExitStep DEF Worker, net
  <2>2. spc' = spc \/ Panic(w)
    BY <1>4 DEF Worker, Connect, Take, SetReturns, Report, DoneJob, Exit, setter
  <2>3. Panic(w) => spc # "returned"
    BY PanicStep, WorkersRest
  <2> QED
    BY <2>1, <2>2, <2>3, DeleteInside
<1>5. CASE UNCHANGED vars
  <2>1. UNCHANGED net /\ UNCHANGED user /\ UNCHANGED bounds /\ UNCHANGED setter
    BY <1>5 DEF vars
  <2>2. Inside /\ store' = store /\ spc' = spc
    BY <2>1, QuietInside DEF setter, net, Typed
  <2> QED
    BY <2>2, DeleteInside
<1> QED
  BY <1>1, <1>2, <1>3, <1>4, <1>5 DEF Next, Continues

\* No call of ArrayDelete is under way at the start.
LEMMA InitDelete ==
  ASSUME Init
  PROVE  DeleteInv
<1>1. \A u \in Users : ~call[u].settled /\ call[u].writes = 0 /\ writes = 0
  BY DEF Init, NoCall
<1> QED
  BY <1>1 DEF DeleteInv, AloneCall, Alone

\* When ArrayDelete returns true every element and the directory are gone, for an array of
\* any length and values of any number of pages: while nobody else writes or deletes, the
\* keys before the one it is at are gone, and it ends with true only after the last, the
\* directory's, which it reaches only when no key before was missing.
THEOREM ArrayDeletedIsGone == Spec => []DeletedIsGone
<1> DEFINE Inv == Typed /\ ShapeInv /\ JobInv /\ StoreInv /\ DeleteInv
<1>1. Inv /\ [Next]_vars => Inv'
  BY NextTypes, NextStore, NextGone
<1>2. Init => Inv
  BY InitTypes, InitStore, InitDelete
<1>3. Inv => DeletedIsGone
  BY DeletedIsGoneIs DEF DeleteInv
<1> QED
  BY <1>1, <1>2, <1>3, PTL DEF Spec

=============================================================================

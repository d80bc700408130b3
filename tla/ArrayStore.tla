------------------------------ MODULE ArrayStore ------------------------------
(***************************************************************************)
(* Arrays in the store, as the Go client library keeps them                 *)
(* (sw/multes_client_library_priv/ops): element i of an array is a value of *)
(* its own under the key (i, array), the directory of the array is the value *)
(* under (0, array), and a value longer than a packet is cut into pages.     *)
(* ArraySetN stores an array with a pool of workers that have a connection   *)
(* each; clients with connections of their own use the array meanwhile.      *)
(*                                                                         *)
(* One array is modelled.  A value is named by its element, its generation   *)
(* (1 when ArraySetElem wrote it) and whether BatchSet put the number of     *)
(* pages before it.  Abstracted: keys that are too long (refused before      *)
(* anything is sent), values shorter than two bytes, arrays whose directory  *)
(* exceeds a page or that have 256 elements or more.                        *)
(***************************************************************************)
EXTENDS Integers, Sequences, SequencesExt, FiniteSets

CONSTANTS
  Users,        \* clients with a connection of their own
  Workers,      \* the np workers of ArraySetN
  N,            \* elements of the array
  Pages,        \* per element: pages of its value
  Lead,         \* per element: the number its value's first two bytes form
  LastPage,     \* the largest page number (1<<(idxLen*8) - 1)
  MaxPages,     \* pages a value may have (1<<(idxLen*8))
  BatchSize,    \* n of GetBulkN
  GroupSize,    \* perturbedGroupSize
  CallOps,      \* the calls the users make
  MaxCalls,     \* bound: calls of the users
  MaxFailures,  \* bound: requests and connects that fail
  MaxRefusals   \* bound: sets the node refuses

ASSUME ProcAssumption == Users \cap Workers = {} /\ Workers # {}
ASSUME SizeAssumption ==
  /\ {N, MaxPages, BatchSize, GroupSize} \subseteq Nat \ {0}
  /\ {MaxCalls, MaxFailures, MaxRefusals, LastPage} \subseteq Nat
  /\ Pages \in [1..N -> 1..LastPage + 1] /\ Lead \in [1..N -> 0..LastPage]

VARIABLES
  store,     \* per element (0 is the directory) and page: what is stored
  conn,      \* per process: its connection "none", "open" or "stuck"
  todo,      \* per process: requests of its Send or SendBulk still to be answered
  bulk,      \* per process: it is a SendBulk
  got,       \* per process: the results of the answered requests
  failed,    \* per process: the Send or SendBulk returned an error
  pc, call, dir, out, k, suc, result,         \* the users' calls
  spc, nextJob, jobs, wg, errs, sres,  \* ArraySetN
  wpc,       \* its workers
  calls, failures, refusals,
  writes     \* history: calls begun that write or delete

net == <<store, conn, todo, bulk, got, failed>>
user == <<pc, call, dir, out, k, suc, result>>
setter == <<spc, nextJob, jobs, sres>>
pool == <<wg, errs, wpc>>
bounds == <<calls, failures, refusals, writes>>
vars == <<net, user, setter, pool, bounds>>

Procs == Users \cup Workers
Directory == 0
Elsewhere == N + 1             \* an index no element of the array has
None == [elem |-> N + 2, gen |-> 0, counted |-> FALSE]
Values == [elem : 0..N, gen : 0..1, counted : BOOLEAN]
PageNumbers == 0..LastPage

-----------------------------------------------------------------------------
(* Values and keys *)

\* numOps of set: the packets a value is cut into.
PagesOf(v) == IF v.elem \in 1..N /\ v.gen = 0 THEN Pages[v.elem] ELSE 1

Request(op, e, pg, v) == [op |-> op, elem |-> e, page |-> pg, value |-> v]

\* set: one request for every page, in a SendBulk.
SetRequests(v) == [j \in 1..PagesOf(v) |-> Request("set", v.elem, j - 1, v)]

\* The number of further pages Delete takes from the first two bytes of page 0.
\* Only BatchSet writes it there; set leaves the first bytes of the value.
LeadOf(v) ==
  CASE v.counted -> PagesOf(v) - 1
    [] ~v.counted /\ v.elem \in 1..N -> Lead[v.elem]
    [] OTHER -> 0

DeleteRequests(e, v) == [j \in 1..LeadOf(v) + 1 |-> Request("delete", e, j - 1, v)]

\* dirVal: the indexes in the directory.  After BatchSet they are read two bytes
\* too early: the index 0, then multiples of 256.
Entries(v) ==
  IF v = None THEN <<>>
  ELSE [i \in 1..N |-> IF ~v.counted THEN i ELSE IF i = 1 THEN Directory ELSE Elsewhere]

Element(i) == [elem |-> i, gen |-> 0, counted |-> FALSE]
Replacement(i) == [elem |-> i, gen |-> 1, counted |-> FALSE]
Counted(i) == [elem |-> i, gen |-> 0, counted |-> TRUE]

\* ArraySet: the elements, then the directory, in one BatchSet.
ArraySetValues == [i \in 1..N + 1 |-> Counted(IF i <= N THEN i ELSE Directory)]
BatchRequests == FlattenSeq([i \in 1..N + 1 |-> SetRequests(ArraySetValues[i])])

Lookup(e, pg) == IF e \in 0..N /\ pg \in PageNumbers THEN store[e][pg] ELSE None

-----------------------------------------------------------------------------
(* Requests on a connection *)

Send(p, requests) ==
  /\ todo' = [todo EXCEPT ![p] = requests]
  /\ bulk' = [bulk EXCEPT ![p] = FALSE]
  /\ got' = [got EXCEPT ![p] = <<>>]
  /\ failed' = [failed EXCEPT ![p] = FALSE]
  /\ UNCHANGED <<store, conn>>

SendBulk(p, requests) ==
  /\ todo' = [todo EXCEPT ![p] = requests]
  /\ bulk' = [bulk EXCEPT ![p] = TRUE]
  /\ got' = [got EXCEPT ![p] = <<>>]
  /\ failed' = [failed EXCEPT ![p] = FALSE]
  /\ UNCHANGED <<store, conn>>

\* What the node does with stored pages s for a request.
Applied(s, r) ==
  CASE r.op = "set" -> [s EXCEPT ![r.elem][r.page] = r.value]
    [] r.op = "delete" /\ r.elem \in 0..N -> [s EXCEPT ![r.elem][r.page] = None]
    [] r.op = "flush" -> [e \in 0..N |-> [pg \in PageNumbers |-> None]]
    [] OTHER -> s

\* A conditional get has no result when the value does not match.
Answers(r) ==
  CASE r.op = "get" -> {Lookup(r.elem, r.page)}
    [] r.op = "getcond" -> {Lookup(r.elem, r.page), None}
    [] OTHER -> {None}

Answered(p) ==
  /\ todo[p] # <<>> /\ conn[p] = "open"
  /\ LET r == Head(todo[p]) IN
     /\ store' = Applied(store, r)
     /\ \E a \in Answers(r) : got' = [got EXCEPT ![p] = Append(@, a)]
  /\ todo' = [todo EXCEPT ![p] = Tail(@)]
  /\ UNCHANGED <<conn, bulk, failed, user, setter, pool, bounds>>

\* The node stores nothing and says so; SimpleResHandler compares the opcode only.
Refused(p) ==
  /\ todo[p] # <<>> /\ conn[p] = "open" /\ refusals < MaxRefusals
  /\ Head(todo[p]).op = "set"
  /\ refusals' = refusals + 1
  /\ got' = [got EXCEPT ![p] = Append(@, None)]
  /\ todo' = [todo EXCEPT ![p] = Tail(@)]
  /\ UNCHANGED <<store, conn, bulk, failed, user, setter, pool, calls, failures, writes>>

\* A time-out or a malformed answer; the node may have served the request, and serves
\* none of the rest (those that it serves before the error are Answered: nobody looks
\* at results after an error).  A SendBulk returns with the mutex locked: nothing is
\* sent on the connection again.
Failed(p) ==
  /\ todo[p] # <<>> /\ conn[p] = "open" /\ failures < MaxFailures
  /\ failures' = failures + 1
  /\ store' \in {store, Applied(store, Head(todo[p]))}
  /\ failed' = [failed EXCEPT ![p] = TRUE]
  /\ todo' = [todo EXCEPT ![p] = <<>>]
  /\ conn' = IF bulk[p] THEN [conn EXCEPT ![p] = "stuck"] ELSE conn
  /\ UNCHANGED <<bulk, got, user, setter, pool, calls, refusals, writes>>

\* Process p has all answers of its Send or SendBulk, or the error.
Returned(p) == todo[p] = <<>> /\ ~failed[p]
Value(p) == got[p][1]

-----------------------------------------------------------------------------
(* The calls of a user *)

Positions == 1..N + 1     \* idx of the calls, one more than the code's

Finish(u, kind) ==
  /\ pc' = [pc EXCEPT ![u] = "idle"]
  /\ result' = [result EXCEPT ![u] = kind]

\* The call ends without a further request.
Done(u, kind) ==
  /\ Finish(u, kind)
  /\ UNCHANGED <<net, call, dir, out, k, suc>>

Destructive == {"ArraySet", "ArraySetElem", "ArrayDelete", "Init"}
Batched == {"GetBulkN", "GetPerturbed"}
DirFirst == {"ArrayGet", "ArrayGetElem", "ArraySetElem", "ArrayDelete"} \cup Batched
AllOps == DirFirst \cup {"GetCond", "GetWithCheckpoint", "Init", "ArraySet"}

ASSUME CallAssumption == CallOps \subseteq AllOps

Label(u, label) == pc' = [pc EXCEPT ![u] = label]
GetArrayDir(u) == Label(u, "dir") /\ Send(u, <<Request("get", Directory, 0, None)>>)
GetCond(u, i) == Label(u, "last") /\ Send(u, <<Request("getcond", i, 0, None)>>)
GetWithCheckpoint(u, i) == Label(u, "last") /\ Send(u, <<Request("get", i, 0, None)>>)
Flush(u) == Label(u, "last") /\ Send(u, <<Request("flush", 0, 0, None)>>)
ArraySet(u) == Label(u, "last") /\ SendBulk(u, BatchRequests)

AllIdle == (\A u \in Users : pc[u] = "idle") /\ \A w \in Workers : todo[w] = <<>>

\* clean and settled are history: ArraySetN had returned nil, or had ended, and
\* nobody else was or had been at the array.
Begin(u) ==
  /\ pc[u] = "idle" /\ calls < MaxCalls
  /\ calls' = calls + 1
  /\ \E op \in CallOps, i \in Positions :
       /\ i # 1 => op \in {"ArrayGetElem", "ArraySetElem"}
       /\ writes' = writes + (IF op \in Destructive THEN 1 ELSE 0)
       /\ call' = [call EXCEPT ![u] = [op |-> op, idx |-> i, writes |-> writes',
                                       clean |-> sres = "nil" /\ writes = 0,
                                       settled |-> spc = "returned" /\ AllIdle]]
       /\ CASE op \in DirFirst -> GetArrayDir(u)
            [] op = "GetCond" -> GetCond(u, i)
            [] op = "GetWithCheckpoint" -> GetWithCheckpoint(u, i)
            [] op = "Init" -> Flush(u)
            [] op = "ArraySet" -> ArraySet(u)
  /\ out' = [out EXCEPT ![u] = <<>>]
  /\ dir' = [dir EXCEPT ![u] = <<>>]
  /\ k' = [k EXCEPT ![u] = 1]
  /\ suc' = [suc EXCEPT ![u] = TRUE]
  /\ result' = [result EXCEPT ![u] = "none"]
  /\ UNCHANGED <<setter, pool, failures, refusals>>

Raise(u) ==
  /\ pc[u] # "idle" /\ failed[u]
  /\ Done(u, "error")
  /\ UNCHANGED <<setter, pool, bounds>>

Goto(u, label) == Label(u, label) /\ UNCHANGED result
Get(u, e) == Send(u, <<Request("get", e, 0, None)>>)
DirIs(u, ops) == pc[u] = "dir" /\ call[u].op \in ops /\ Returned(u)
DirRead(u) == Entries(Value(u))

\* GetBulkN asks for n values at a time, GetPerturbed for all.
SizeOf(u) == IF call[u].op = "GetBulkN" THEN BatchSize ELSE N

\* GetArrayDir has no directory, the index is outside of it, or the values to be
\* perturbed do not come in whole groups.
NoElement(u) ==
  /\ DirIs(u, DirFirst)
  /\ \/ DirRead(u) = <<>> /\ call[u].op \in {"ArrayGet", "ArraySetElem"} /\ Done(u, "nil")
     \/ DirRead(u) = <<>> /\ call[u].op \in {"ArrayGetElem"} \cup Batched /\ Done(u, "error")
     \/ /\ DirRead(u) # <<>> /\ call[u].op \in {"ArrayGetElem", "ArraySetElem"}
        /\ call[u].idx > Len(DirRead(u))
        /\ Done(u, "error")
     \/ /\ call[u].op \in Batched /\ SizeOf(u) % GroupSize # 0
        /\ Done(u, "error")
  /\ UNCHANGED <<setter, pool, bounds>>

\* ArrayGetElem, and ArrayGet's first element.
FirstElement(u) ==
  /\ DirIs(u, {"ArrayGet", "ArrayGetElem"}) /\ call[u].idx <= Len(DirRead(u))
  /\ dir' = [dir EXCEPT ![u] = DirRead(u)]
  /\ Get(u, DirRead(u)[call[u].idx])
  /\ Goto(u, IF call[u].op = "ArrayGet" THEN "elem" ELSE "last")
  /\ UNCHANGED <<call, out, k, suc, setter, pool, bounds>>

\* The loop of ArrayGet.
NextElement(u) ==
  /\ pc[u] = "elem" /\ Returned(u)
  /\ out' = [out EXCEPT ![u] = Append(@, Value(u))]
  /\ k' = [k EXCEPT ![u] = @ + 1]
  /\ IF k[u] < Len(dir[u])
     THEN Get(u, dir[u][k[u] + 1]) /\ UNCHANGED <<pc, result>>
     ELSE Finish(u, "value") /\ UNCHANGED net
  /\ UNCHANGED <<call, dir, suc, setter, pool, bounds>>

\* The only or the last request of a call has been answered.
LastAnswer(u) ==
  /\ pc[u] = "last" /\ Returned(u)
  /\ out' = [out EXCEPT ![u] = <<Value(u)>>]
  /\ Finish(u, IF call[u].op \in {"GetCond", "GetWithCheckpoint", "ArrayGetElem"} THEN "value" ELSE "nil")
  /\ UNCHANGED <<net, call, dir, k, suc, setter, pool, bounds>>

\* The keys from the i-th: a batch of them or the rest.
Batch(u, d, i) == SubSeq(d, i, IF i + SizeOf(u) - 1 <= Len(d) THEN i + SizeOf(u) - 1 ELSE Len(d))
AskBatch(u, d, i) ==
  LET b == Batch(u, d, i) IN SendBulk(u, [j \in 1..Len(b) |-> Request("get", b[j], 0, None)])

FirstBatch(u) ==
  /\ DirIs(u, Batched) /\ DirRead(u) # <<>> /\ SizeOf(u) % GroupSize = 0
  /\ dir' = [dir EXCEPT ![u] = DirRead(u)]
  /\ out' = [out EXCEPT ![u] = [i \in 1..N |-> None]]
  /\ AskBatch(u, DirRead(u), 1)
  /\ Goto(u, "batch")
  /\ UNCHANGED <<call, k, suc, setter, pool, bounds>>

\* Mutated: the rest is put behind a full batch, as the full batches are.
PlaceLikeFull(n, taken, j, len) == taken - n + j
\* Where the j-th result of a batch of len goes (n when it is full) goes when taken keys
\* have been asked for.
Place(n, taken, j, len) == IF len = n THEN taken - n + j ELSE taken - (taken % n) + j

NextBatch(u) ==
  LET len == Len(got[u])
      taken == k[u] + len - 1
      place == [j \in 1..len |-> Place(SizeOf(u), taken, j, len)]
  IN
  /\ pc[u] = "batch" /\ Returned(u)
  /\ IF None \in ToSet(got[u]) THEN Done(u, "error")
     ELSE /\ out' = [out EXCEPT ![u] =
                [i \in 1..N |-> IF \E j \in 1..len : place[j] = i
                                THEN got[u][CHOOSE j \in 1..len : place[j] = i]
                                ELSE @[i]]]
          /\ k' = [k EXCEPT ![u] = taken + 1]
          /\ IF taken < Len(dir[u])
             THEN AskBatch(u, dir[u], taken + 1) /\ UNCHANGED <<pc, result>>
             ELSE Finish(u, "value") /\ UNCHANGED net
          /\ UNCHANGED <<call, dir, suc>>
  /\ UNCHANGED <<setter, pool, bounds>>

(* Delete: a get, then a request for every page the value's first bytes call for *)

\* ArraySetElem deletes the old value of the element first.
FirstLook(u) ==
  /\ DirIs(u, {"ArraySetElem"}) /\ call[u].idx <= Len(DirRead(u))
  /\ Get(u, call[u].idx)
  /\ Goto(u, "look")
  /\ UNCHANGED <<call, dir, out, k, suc, setter, pool, bounds>>

\* Mutated: the last entry of the directory is left out.
KeysOfShort(d) == SubSeq(d, 1, Len(d) - 1) \o <<Directory>>
\* What ArrayDelete deletes: the elements, the directory last.
KeysOf(d) == d \o <<Directory>>

FirstDelete(u) ==
  /\ DirIs(u, {"ArrayDelete"})
  /\ dir' = [dir EXCEPT ![u] = KeysOf(DirRead(u))]
  /\ Get(u, KeysOf(DirRead(u))[1])
  /\ Goto(u, "look")
  /\ UNCHANGED <<call, out, k, suc, setter, pool, bounds>>

Key(u) == IF call[u].op = "ArrayDelete" THEN dir[u][k[u]] ELSE call[u].idx

Erase(u) ==
  /\ pc[u] = "look" /\ Returned(u) /\ Value(u) # None
  /\ SendBulk(u, DeleteRequests(Key(u), Value(u)))
  /\ Goto(u, "erase")
  /\ UNCHANGED <<call, dir, out, k, suc, setter, pool, bounds>>

\* Delete has returned: nil for an absent value, else after the deletes.
Deleted(u) == Returned(u) /\ (pc[u] = "erase" \/ (pc[u] = "look" /\ Value(u) = None))

ReplaceElement(u) ==
  /\ Deleted(u) /\ call[u].op = "ArraySetElem"
  /\ SendBulk(u, SetRequests(Replacement(call[u].idx)))
  /\ Goto(u, "last")
  /\ UNCHANGED <<call, dir, out, k, suc, setter, pool, bounds>>

\* The loop of ArrayDelete; the directory is kept when an element was missing.
NextDelete(u) ==
  LET all == suc[u] /\ pc[u] = "erase"
      last == Len(dir[u])
  IN
  /\ Deleted(u) /\ call[u].op = "ArrayDelete"
  /\ suc' = [suc EXCEPT ![u] = all]
  /\ k' = [k EXCEPT ![u] = @ + 1]
  /\ IF k[u] < last - 1 \/ (k[u] = last - 1 /\ all)
     THEN Get(u, dir[u][k[u] + 1]) /\ Goto(u, "look")
     ELSE Finish(u, IF all THEN "true" ELSE "false") /\ UNCHANGED net
  /\ UNCHANGED <<call, dir, out, setter, pool, bounds>>

-----------------------------------------------------------------------------
(* ArraySetN *)

\* Mutated: the channel of errors has room for one more.
CapacityMore == N + 2
\* Of the channel of errors.
Capacity == N + 1
JobValue(i) == IF i = Directory THEN Element(Directory) ELSE Element(i)

Push ==
  /\ spc = "queue"
  /\ jobs' = Append(jobs, IF nextJob <= N THEN nextJob ELSE Directory)
  /\ spc' = "add"
  /\ UNCHANGED <<nextJob, sres, net, user, pool, bounds>>

\* Mutated: the directory's job is not added to the wait group.
AddJobButLast ==
  /\ spc = "add"
  /\ wg' = IF nextJob = N + 1 THEN wg ELSE wg + 1
  /\ nextJob' = nextJob + 1
  /\ spc' = IF nextJob = N + 1 THEN "wait" ELSE "queue"
  /\ UNCHANGED <<jobs, sres, errs, wpc, net, user, bounds>>
\* wg.Add(1) comes after the job was sent.
AddJob ==
  /\ spc = "add"
  /\ wg' = wg + 1
  /\ nextJob' = nextJob + 1
  /\ spc' = IF nextJob = N + 1 THEN "wait" ELSE "queue"
  /\ UNCHANGED <<jobs, sres, errs, wpc, net, user, bounds>>

\* wg.Wait, then one error if there is one.
ReturnSet ==
  /\ spc = "wait" /\ wg = 0
  /\ spc' = "returned"
  /\ sres' = IF errs > 0 THEN "error" ELSE "nil"
  /\ UNCHANGED <<nextJob, jobs, net, user, pool, bounds>>

BeginSet ==
  /\ spc = "idle"
  /\ spc' = "queue"
  /\ wpc' = [w \in Workers |-> "new"]
  /\ UNCHANGED <<nextJob, jobs, sres, wg, errs, net, user, bounds>>

Setter == BeginSet \/ Push \/ AddJob \/ ReturnSet

(* Its workers *)

WorkerGoto(w, label) == wpc' = [wpc EXCEPT ![w] = label]

Connect(w) ==
  /\ wpc[w] = "new"
  /\ \/ /\ conn' = [conn EXCEPT ![w] = "open"]
        /\ WorkerGoto(w, "loop")
        /\ UNCHANGED failures
     \/ /\ failures < MaxFailures
        /\ failures' = failures + 1
        /\ WorkerGoto(w, "reportConnect")
        /\ UNCHANGED conn
  /\ UNCHANGED <<store, todo, bulk, got, failed, user, setter, wg, errs,
                 calls, refusals, writes>>

\* Set: a value with too many pages or a connection that was never opened is an
\* error at once.
Take(w) ==
  /\ wpc[w] = "loop" /\ jobs # <<>>
  /\ jobs' = Tail(jobs)
  /\ IF PagesOf(JobValue(Head(jobs))) > MaxPages \/ conn[w] = "none"
     THEN WorkerGoto(w, "report") /\ UNCHANGED net
     ELSE WorkerGoto(w, "setting") /\ SendBulk(w, SetRequests(JobValue(Head(jobs))))
  /\ UNCHANGED <<spc, nextJob, sres, user, wg, errs, bounds>>

SetReturns(w) ==
  /\ wpc[w] = "setting" /\ todo[w] = <<>>
  /\ WorkerGoto(w, IF failed[w] THEN "report" ELSE "done")
  /\ UNCHANGED <<net, user, setter, wg, errs, bounds>>

\* Mutated: the worker goes on to its next job without wg.Done.
ReportNotDone(w) ==
  /\ wpc[w] \in {"report", "reportConnect"} /\ errs < Capacity
  /\ errs' = errs + 1
  /\ WorkerGoto(w, "loop")
  /\ UNCHANGED <<net, user, setter, wg, bounds>>
\* errors <- err waits while the channel is full.
Report(w) ==
  /\ wpc[w] \in {"report", "reportConnect"} /\ errs < Capacity
  /\ errs' = errs + 1
  /\ WorkerGoto(w, IF wpc[w] = "report" THEN "done" ELSE "loop")
  /\ UNCHANGED <<net, user, setter, wg, bounds>>

DoneJob(w) ==
  /\ wpc[w] = "done" /\ wg > 0
  /\ wg' = wg - 1
  /\ WorkerGoto(w, "loop")
  /\ UNCHANGED <<net, user, setter, errs, bounds>>

\* wg.Done before the job's wg.Add: a negative counter ends the whole program.
Panic(w) ==
  /\ wpc[w] = "done" /\ wg = 0
  /\ spc' = "panicked"
  /\ wpc' = [v \in Workers |-> "gone"]
  /\ todo' = [p \in Procs |-> IF p \in Workers THEN <<>> ELSE todo[p]]
  /\ conn' = [p \in Procs |-> IF p \in Workers THEN "none" ELSE conn[p]]
  /\ UNCHANGED <<store, bulk, got, failed, user, nextJob, jobs, sres, wg, errs, bounds>>

\* jobs is closed after the last one and empty: Disconnect.
Exit(w) ==
  /\ wpc[w] = "loop" /\ jobs = <<>> /\ nextJob = N + 2
  /\ WorkerGoto(w, "gone")
  /\ conn' = [conn EXCEPT ![w] = "none"]
  /\ UNCHANGED <<store, todo, bulk, got, failed, user, setter, wg, errs, bounds>>

Worker(w) == Connect(w) \/ Take(w) \/ SetReturns(w) \/ Report(w) \/ DoneJob(w) \/ Panic(w) \/ Exit(w)

-----------------------------------------------------------------------------
NoCall == [op |-> "Init", idx |-> 1, clean |-> FALSE, settled |-> FALSE, writes |-> 0]

Init ==
  /\ store = [e \in 0..N |-> [pg \in PageNumbers |-> None]]
  /\ conn = [p \in Procs |-> IF p \in Users THEN "open" ELSE "none"]
  /\ todo = [p \in Procs |-> <<>>] /\ got = [p \in Procs |-> <<>>]
  /\ bulk = [p \in Procs |-> FALSE] /\ failed = [p \in Procs |-> FALSE]
  /\ pc = [u \in Users |-> "idle"] /\ call = [u \in Users |-> NoCall]
  /\ dir = [u \in Users |-> <<>>] /\ out = [u \in Users |-> <<>>]
  /\ k = [u \in Users |-> 1] /\ suc = [u \in Users |-> TRUE] /\ result = [u \in Users |-> "none"]
  /\ spc = "idle" /\ nextJob = 1 /\ jobs = <<>> /\ sres = "none"
  /\ wg = 0 /\ errs = 0
  /\ wpc = [w \in Workers |-> "gone"]
  /\ calls = 0 /\ failures = 0 /\ refusals = 0 /\ writes = 0

Next ==
  \/ \E p \in Procs : Answered(p) \/ Refused(p) \/ Failed(p)
  \/ \E u \in Users :
       \/ Begin(u) \/ Raise(u) \/ NoElement(u) \/ FirstElement(u) \/ NextElement(u) \/ LastAnswer(u)
       \/ FirstBatch(u) \/ NextBatch(u) \/ FirstLook(u) \/ FirstDelete(u) \/ Erase(u)
       \/ ReplaceElement(u) \/ NextDelete(u)
  \/ Setter
  \/ \E w \in Workers : Worker(w)

Spec == Init /\ [][Next]_vars

-----------------------------------------------------------------------------
TypeOK ==
  /\ \A e \in 0..N, pg \in PageNumbers : store[e][pg] \in Values \cup {None}
  /\ conn \in [Procs -> {"none", "open", "stuck"}]
  /\ \A p \in Procs : ToSet(got[p]) \subseteq Values \cup {None}
  /\ \A p \in Procs : \A i \in DOMAIN todo[p] :
       todo[p][i].page \in PageNumbers /\ todo[p][i].elem \in 0..Elsewhere
  /\ pc \in [Users -> {"idle", "dir", "elem", "last", "batch", "look", "erase"}]
  /\ k \in [Users -> 1..N + 2]
  /\ result \in [Users -> {"none", "nil", "error", "value", "true", "false"}]
  /\ spc \in {"idle", "queue", "add", "wait", "returned", "panicked"} /\ nextJob \in 1..N + 2
  /\ sres \in {"none", "nil", "error"}
  /\ wpc \in [Workers -> {"new", "reportConnect", "loop", "setting", "report", "done", "gone"}]
  /\ errs \in 0..N + 1 /\ wg \in 0..N + 1 /\ Len(jobs) <= N + 1

\* ArraySetN returns nil only after every page of every element and the directory
\* have been stored, whichever worker failed at which request, unless the node
\* refused a set or somebody wrote or deleted meanwhile (array_ops.go 69-129: the
\* error is sent before wg.Done).
NilMeansStored ==
  sres = "nil" /\ writes = 0 /\ refusals = 0 =>
    \A e \in 0..N : \A pg \in 0..PagesOf(Element(e)) - 1 : store[e][pg] = Element(e)

\* A call that begins after ArraySetN has returned nil finds every element, each
\* at its place (ArrayGet, ArrayGetElem, GetBulkN), when nobody writes or deletes; it
\* ends in an error only for a failed request, an index outside of the array, or
\* values that do not come in whole groups.
ReadBack ==
  \A u \in Users :
    call[u].clean /\ writes = 0 /\ refusals = 0 /\ pc[u] = "idle" =>
      /\ call[u].op \in {"ArrayGet"} \cup Batched /\ result[u] # "error" =>
           result[u] = "value" /\ out[u] = [i \in 1..N |-> Element(i)]
      /\ call[u].op = "ArrayGetElem" /\ result[u] # "error" => out[u] = <<Element(call[u].idx)>>
      /\ result[u] = "error" =>
           \/ failures > 0 \/ call[u].idx > N
           \/ call[u].op \in Batched /\ SizeOf(u) % GroupSize # 0

\* When ArrayDelete returns true, Get finds neither the directory nor an element
\* of the array, unless another call wrote or deleted meanwhile (array_ops.go
\* 311-350: the directory goes last and only after every element).
DeletedIsGone ==
  \A u \in Users :
    call[u].op = "ArrayDelete" /\ call[u].settled /\ call[u].writes = writes /\ pc[u] = "idle"
      /\ result[u] = "true" =>
      \A e \in 0..N : store[e][0] = None

\* A worker that will never go on: its connection is locked for good, or the
\* channel of the errors is full.
Blocked(w) ==
  \/ wpc[w] = "setting" /\ conn[w] = "stuck" /\ todo[w] # <<>>
  \/ wpc[w] \in {"report", "reportConnect"} /\ errs = Capacity

\* While ArraySetN has not returned, it or one of its workers can go on, unless a
\* worker waits for ever at a locked connection or at the full channel of errors
\* (array_ops.go 59-121: wg.Done follows every job, failed or not).
GoesOn ==
  spc \in {"queue", "add", "wait"} =>
    \/ ENABLED (Push \/ AddJob \/ ReturnSet)
    \/ \E w \in Workers : ENABLED (Worker(w) \/ Answered(w)) \/ Blocked(w)

\* ArrayGet gets all elements of the array (array_ops.go 177) that ArraySet or
\* ArraySetN has stored without an error.
ArraySetReadBack ==
  \A u \in Users :
    call[u].op = "ArrayGet" /\ pc[u] = "idle" /\ result[u] = "value" =>
      \A i \in DOMAIN out[u] : out[u][i].elem \in {i, None.elem}
=============================================================================

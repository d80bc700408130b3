--------------------------- MODULE ClientConnection ---------------------------
(***************************************************************************)
(* One connection of the Go client library to the store                    *)
(* (sw/multes_client_library_priv/internal/network.go) that several         *)
(* goroutines use: Send for one operation, SendBulk for several, under the  *)
(* connection's mutex.  Requests and answers carry no number: an answer is  *)
(* taken for the answer to the operation that is being read for.  Only the  *)
(* opcode is compared.                                                      *)
(*                                                                         *)
(* Operations are numbered in the order in which they are written to the    *)
(* connection; an answer is named by the operation it answers.              *)
(***************************************************************************)
EXTENDS Integers, Sequences

CONSTANTS
  Callers, NoCaller,  \* the goroutines; NoCaller holds the free mutex
  OpCodes,            \* opcodes of operations
  BulkSize,           \* operations of a SendBulk
  UseBulk,            \* TRUE when the goroutines also call SendBulk
  MaxOps,             \* bound: operations the calls of a run ask for
  MaxTimeouts,        \* bound: reads that time out
  MaxWriteErrors,     \* bound: writes that fail
  MaxDrops            \* bound: requests the store throws away

ASSUME CallerAssumption == NoCaller \notin Callers /\ OpCodes # {}
ASSUME BoundAssumption ==
  /\ BulkSize \in Nat /\ BulkSize >= 1
  /\ UseBulk \in BOOLEAN
  /\ {MaxOps, MaxTimeouts, MaxWriteErrors, MaxDrops} \subseteq Nat

VARIABLES
  mutex,     \* the caller that has locked the connection, or NoCaller
  phase,     \* per caller: where its call is
  call,      \* per caller: its call [bulk, opcode, size]
  reading,   \* per caller: the operation it reads the answer for
  opcode,    \* the opcodes of the operations written, by number
  requests,  \* on their way to the store: operation numbers
  answers,   \* on their way back: operation numbers
  result,    \* per operation written: the answer it was given, 0 if none
  begun,     \* operations the calls asked for
  timeouts, writeErrors, drops  \* how many there were

faults == <<begun, timeouts, writeErrors, drops>>
vars == <<mutex, phase, call, reading, opcode, requests, answers, result, faults>>

Calls == [bulk : {FALSE}, opcode : OpCodes, size : {1}]
           \cup (IF UseBulk THEN [bulk : {TRUE}, opcode : OpCodes, size : {BulkSize}] ELSE {})
Phases == {"idle", "locking", "writing", "reading"}
Written == Len(opcode)

-----------------------------------------------------------------------------
\* Mutated: the lock is taken while another caller has it.
MutexFreeIgnored(c) == mutex # c
MutexFree(c) == mutex = NoCaller

\* SendBulk returns an error without unlocking; so does a Send that cannot write.
UnlocksOnError(c) == ~call[c].bulk

Begin(c) ==
  /\ phase[c] = "idle"
  /\ \E k \in Calls :
       /\ begun + k.size <= MaxOps
       /\ begun' = begun + k.size
       /\ call' = [call EXCEPT ![c] = k]
  /\ phase' = [phase EXCEPT ![c] = "locking"]
  /\ UNCHANGED <<mutex, reading, opcode, requests, answers, result, timeouts, writeErrors, drops>>

Lock(c) ==
  /\ phase[c] = "locking" /\ MutexFree(c)
  /\ mutex' = c
  /\ phase' = [phase EXCEPT ![c] = "writing"]
  /\ UNCHANGED <<call, reading, opcode, requests, answers, result, faults>>

\* Mutated: a bulk begins with a result for the first operation only.
UnansweredFirst(n) == <<0>>
\* The operations of a call before their answers are read: no Result.
Unanswered(n) == [i \in 1..n |-> 0]

\* All requests of the call are written and flushed before the first answer is
\* read.
Write(c) ==
  LET n == call[c].size IN
  /\ phase[c] = "writing"
  /\ opcode' = opcode \o [i \in 1..n |-> call[c].opcode]
  /\ requests' = requests \o [i \in 1..n |-> Written + i]
  /\ result' = result \o Unanswered(n)
  /\ reading' = [reading EXCEPT ![c] = Written + 1]
  /\ phase' = [phase EXCEPT ![c] = "reading"]
  /\ UNCHANGED <<mutex, call, answers, faults>>

\* An error from the write deadline, Write or Flush: return with the lock held.
WriteError(c) ==
  /\ phase[c] = "writing" /\ writeErrors < MaxWriteErrors
  /\ writeErrors' = writeErrors + 1
  /\ phase' = [phase EXCEPT ![c] = "idle"]
  /\ UNCHANGED <<mutex, call, reading, opcode, requests, answers, result, begun, timeouts, drops>>

ReturnError(c) ==
  /\ phase' = [phase EXCEPT ![c] = "idle"]
  /\ mutex' = IF UnlocksOnError(c) THEN NoCaller ELSE mutex
  /\ UNCHANGED <<reading, result>>

\* The last operation of the call: the one written last, for the lock is held.
LastOp == Written

\* SimpleResHandler and ValueResHandler compare the opcodes.
Accepts(a, i) == opcode[a] = opcode[i]

\* handleResponse takes the next answer, whatever operation it answers.
Read(c) ==
  /\ phase[c] = "reading" /\ answers # <<>>
  /\ answers' = Tail(answers)
  /\ LET i == reading[c] IN
     IF Accepts(Head(answers), i)
     THEN /\ result' = [result EXCEPT ![i] = Head(answers)]
          /\ IF i = LastOp
             THEN /\ phase' = [phase EXCEPT ![c] = "idle"]
                  /\ mutex' = NoCaller
                  /\ UNCHANGED reading
             ELSE reading' = [reading EXCEPT ![c] = i + 1] /\ UNCHANGED <<mutex, phase>>
     ELSE ReturnError(c)
  /\ UNCHANGED <<call, opcode, requests, faults>>

\* The read deadline passes before the next answer has come in; that answer may
\* be under way.
ReadTimeout(c) ==
  /\ phase[c] = "reading" /\ timeouts < MaxTimeouts
  /\ timeouts' = timeouts + 1
  /\ ReturnError(c)
  /\ UNCHANGED <<call, opcode, requests, answers, begun, writeErrors, drops>>

-----------------------------------------------------------------------------
(* The store: it answers the requests of a connection in order, or throws    *)
(* one away (muu_requestsplit).                                             *)

Answer ==
  /\ requests # <<>>
  /\ answers' = Append(answers, Head(requests))
  /\ requests' = Tail(requests)
  /\ UNCHANGED <<mutex, phase, call, reading, opcode, result, faults>>

Drop ==
  /\ requests # <<>> /\ drops < MaxDrops
  /\ requests' = Tail(requests)
  /\ drops' = drops + 1
  /\ UNCHANGED <<mutex, phase, call, reading, opcode, answers, result, begun, timeouts, writeErrors>>

-----------------------------------------------------------------------------
Init ==
  /\ mutex = NoCaller
  /\ phase = [c \in Callers |-> "idle"]
  /\ call \in [Callers -> {CHOOSE k \in Calls : TRUE}]
  /\ reading = [c \in Callers |-> 0]
  /\ opcode = <<>> /\ requests = <<>> /\ answers = <<>> /\ result = <<>>
  /\ begun = 0 /\ timeouts = 0 /\ writeErrors = 0 /\ drops = 0

Next ==
  \/ \E c \in Callers : Begin(c) \/ Lock(c) \/ Write(c) \/ WriteError(c) \/ Read(c) \/ ReadTimeout(c)
  \/ Answer \/ Drop

Spec == Init /\ [][Next]_vars

(* Go schedules every goroutine that can run, hands a mutex on to those that  *)
(* wait, and a read deadline passes.  Nothing is assumed of the store.        *)
Fairness ==
  \A c \in Callers :
    /\ SF_vars(Lock(c))
    /\ WF_vars(Write(c))
    /\ WF_vars(Read(c) \/ ReadTimeout(c))

FairSpec == Spec /\ Fairness

-----------------------------------------------------------------------------
TypeOK ==
  /\ mutex \in Callers \cup {NoCaller}
  /\ phase \in [Callers -> Phases]
  /\ call \in [Callers -> Calls]
  /\ reading \in [Callers -> Nat]
  /\ opcode \in Seq(OpCodes) /\ requests \in Seq(Nat) /\ answers \in Seq(Nat)
  /\ result \in Seq(Nat) /\ Len(result) = Written
  /\ {begun, timeouts, writeErrors, drops} \subseteq Nat

\* An operation is given no other operation's answer (Send 239: the next
\* answer on the connection is taken for the one to the request just written).
AnswerIsMine == \A i \in 1..Written : result[i] \in {0, i}

\* An operation is never given an answer from further back than there were reads
\* that timed out: a late answer stays in the stream (Send 239) and shifts what
\* later operations get by one, not more.  It is never given one from ahead,
\* except inside a bulk (SendBulk 331-347), of which the store threw requests
\* away, by one operation for each.
LagBounded ==
  LET ahead == IF UseBulk THEN drops ELSE 0 IN
  \A i \in 1..Written : result[i] # 0 => result[i] <= i + ahead /\ i - result[i] <= timeouts

\* While no read has timed out, what is under way belongs to the call that has
\* the lock, and a free connection is silent (Send and SendBulk 214-347: all
\* answers are read before the lock is given back).
SilentWhenFree ==
  timeouts = 0 /\ drops = 0 =>
    LET underWay == answers \o requests IN
    /\ mutex = NoCaller => underWay = <<>>
    /\ \A c \in Callers : phase[c] = "reading" =>
         underWay = [k \in 1..Len(underWay) |-> reading[c] + k - 1]

\* A call returns, with a result or an error, also when the store stays silent
\* (network.go 205-207: an error is returned when a timeout is reached).
EveryCallReturns == \A c \in Callers : phase[c] # "idle" ~> phase[c] = "idle"
=============================================================================

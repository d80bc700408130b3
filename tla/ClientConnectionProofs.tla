------------------------ MODULE ClientConnectionProofs ------------------------
(***************************************************************************)
(* Theorems about ClientConnection, for every set of callers and opcodes and *)
(* any number of timeouts, failed writes and lost requests.  The first part  *)
(* is about connections that are used with Send only, the second about       *)
(* connections used with SendBulk too, while nothing fails, and the third    *)
(* about how far an answer may be from its operation when something does.    *)
(***************************************************************************)
EXTENDS ClientConnection, TLAPS

\* Some call waits for its answer.
Waiting == \E c \in Callers : phase[c] = "reading"

\* The calls are calls of Send and only the holder of the lock uses the connection.
LockInv ==
  /\ call \in [Callers -> [bulk : {FALSE}, opcode : OpCodes, size : {1}]]
  /\ phase \in [Callers -> Phases]
  /\ reading \in [Callers -> Nat]
  /\ \A c \in Callers : phase[c] \in {"writing", "reading"} => mutex = c
  /\ \A c \in Callers : phase[c] = "reading" => reading[c] = Written /\ Written > 0

Rising(s) == \A i, j \in 1..Len(s) : i < j => s[i] < s[j]

\* How far back an operation can be whose answer is still under way: each
\* operation written since cost a timeout, and so did the last one unless it
\* still waits.
Slack == timeouts - (IF Waiting THEN 0 ELSE 1)

\* What is under way is in order and not later than the timeouts account for.
StreamInv ==
  /\ opcode \in Seq(OpCodes) /\ timeouts \in Nat
  /\ requests \in Seq(Nat) /\ answers \in Seq(Nat)
  /\ Rising(requests) /\ Rising(answers)
  /\ \A i \in 1..Len(answers), j \in 1..Len(requests) : answers[i] < requests[j]
  /\ \A i \in 1..Len(requests) : requests[i] \in 1..Written /\ Written - requests[i] <= Slack
  /\ \A i \in 1..Len(answers) : answers[i] \in 1..Written /\ Written - answers[i] <= Slack

LagWithoutBulk ==
  \A i \in 1..Written : result[i] # 0 => result[i] <= i /\ i - result[i] <= timeouts
ResultInv == result \in Seq(Nat) /\ Len(result) = Written /\ LagWithoutBulk

SendInv == LockInv /\ StreamInv /\ ResultInv

-----------------------------------------------------------------------------
\* The head and the tail of a sequence that is not empty.
LEMMA HeadTail ==
  ASSUME NEW S, NEW s \in Seq(S), s # <<>>
  PROVE  /\ Len(s) \in Nat /\ Len(s) > 0
         /\ Head(s) = s[1] /\ Head(s) \in S
         /\ Tail(s) \in Seq(S) /\ Len(Tail(s)) = Len(s) - 1
         /\ \A i \in 1..Len(Tail(s)) : Tail(s)[i] = s[i + 1]
OBVIOUS

\* A sequence followed by one element.
LEMMA FollowedByOne ==
  ASSUME NEW S, NEW s \in Seq(S), NEW x \in S
  PROVE  LET t == s \o <<x>> IN
         /\ t \in Seq(S) /\ Len(t) = Len(s) + 1
         /\ \A i \in 1..Len(s) : t[i] = s[i]
         /\ t[Len(s) + 1] = x
OBVIOUS

\* Initially nothing is under way.
LEMMA InitSendInv == ASSUME ~UseBulk PROVE Init => SendInv
<1> SUFFICES ASSUME Init PROVE SendInv
  OBVIOUS
<1>1. Calls = [bulk : {FALSE}, opcode : OpCodes, size : {1}]
  BY DEF Calls
<1>2. PICK o \in OpCodes : TRUE
  BY CallerAssumption
<1>3. [bulk |-> FALSE, opcode |-> o, size |-> 1] \in Calls
  BY <1>1
<1>4. (CHOOSE k \in Calls : TRUE) \in Calls
  BY <1>3
<1>5. call \in [Callers -> Calls]
  BY <1>4 DEF Init
<1>6. LockInv
  BY <1>1, <1>5 DEF Init, LockInv, Written, Phases
<1>7. ~Waiting
  BY DEF Init, Waiting
<1>8. StreamInv
  BY DEF Init, StreamInv, Rising
<1>9. ResultInv
  BY DEF Init, ResultInv, LagWithoutBulk, Written
<1> QED
  BY <1>6, <1>8, <1>9 DEF SendInv

-----------------------------------------------------------------------------
(* The caller's steps. *)

\* What is under way does not get later while the written operations, the
\* timeouts and the waiting call stay.
LEMMA StreamKept ==
  ASSUME StreamInv, UNCHANGED <<opcode, requests, answers, timeouts>>, Waiting' = Waiting
  PROVE  StreamInv'
BY DEF StreamInv, Rising, Slack, Written

\* What operations were given stays as late as it was.
LEMMA ResultKept ==
  ASSUME ResultInv, UNCHANGED <<opcode, result, timeouts>>
  PROVE  ResultInv'
BY DEF ResultInv, LagWithoutBulk, Written

\* A call begins: no lock, nothing under way.
LEMMA BeginStep ==
  ASSUME ~UseBulk, SendInv, NEW c \in Callers, Begin(c)
  PROVE  SendInv'
<1>1. LockInv'
  BY DEF SendInv, LockInv, Begin, Calls, Phases, Written
<1>2. Waiting' = Waiting
  BY DEF SendInv, LockInv, Begin, Waiting
<1> QED
  BY <1>1, <1>2, StreamKept, ResultKept DEF SendInv, Begin

\* The lock is taken only when no call has it.
LEMMA LockStep ==
  ASSUME SendInv, NEW c \in Callers, Lock(c)
  PROVE  SendInv'
<1>1. LockInv'
  BY CallerAssumption DEF SendInv, LockInv, Lock, MutexFree, Phases, Written
<1>2. Waiting' = Waiting
  BY DEF SendInv, LockInv, Lock, Waiting
<1> QED
  BY <1>1, <1>2, StreamKept, ResultKept DEF SendInv, Lock, faults

\* A write that fails leaves the lock taken.
LEMMA WriteErrorStep ==
  ASSUME SendInv, NEW c \in Callers, WriteError(c)
  PROVE  SendInv'
<1>1. LockInv'
  BY DEF SendInv, LockInv, WriteError, Phases, Written
<1>2. Waiting' = Waiting
  BY DEF SendInv, LockInv, WriteError, Waiting
<1> QED
  BY <1>1, <1>2, StreamKept, ResultKept DEF SendInv, WriteError

\* A write puts one operation behind all that is under way; as nothing waited
\* before and its caller waits now, the others are no later than they were.
LEMMA WriteStep ==
  ASSUME SendInv, NEW c \in Callers, Write(c)
  PROVE  SendInv'
<1> DEFINE w == Written + 1
<1>1. call[c].size = 1 /\ call[c].opcode \in OpCodes
  BY DEF SendInv, LockInv
<1>2. Written \in Nat /\ w \in Nat
  BY DEF SendInv, StreamInv, Written
<1>3. /\ [i \in 1..1 |-> call[c].opcode] = <<call[c].opcode>>
      /\ [i \in 1..1 |-> Written + i] = <<w>>
      /\ [i \in 1..1 |-> 0] = <<0>>
  BY <1>2
<1>4. /\ opcode' = opcode \o <<call[c].opcode>>
      /\ requests' = requests \o <<w>>
      /\ result' = result \o <<0>>
  BY <1>1, <1>3 DEF Write, Unanswered
<1>5. opcode' \in Seq(OpCodes) /\ Written' = w
  BY <1>1, <1>4, FollowedByOne DEF SendInv, StreamInv, Written
<1>6. /\ requests' \in Seq(Nat) /\ Len(requests') = Len(requests) + 1
      /\ \A i \in 1..Len(requests) : requests'[i] = requests[i]
      /\ requests'[Len(requests) + 1] = w
  BY <1>2, <1>4, FollowedByOne DEF SendInv, StreamInv
<1>7. /\ result' \in Seq(Nat) /\ Len(result') = Len(result) + 1
      /\ \A i \in 1..Len(result) : result'[i] = result[i]
      /\ result'[Len(result) + 1] = 0
  BY <1>4, FollowedByOne DEF SendInv, ResultInv
<1>8. mutex = c
  BY DEF SendInv, LockInv, Write, Unanswered
<1>9. ~Waiting /\ Waiting'
  BY <1>8 DEF SendInv, LockInv, Write, Unanswered, Waiting
<1>10. LockInv'
  <2>1. call' \in [Callers -> [bulk : {FALSE}, opcode : OpCodes, size : {1}]]
    BY DEF SendInv, LockInv, Write, Unanswered
  <2>2. phase' \in [Callers -> Phases] /\ reading' \in [Callers -> Nat]
    BY <1>2 DEF SendInv, LockInv, Write, Unanswered, Phases
  <2>3. \A d \in Callers : phase[d]' \in {"writing", "reading"} => mutex' = d
    BY <1>8 DEF SendInv, LockInv, Write, Unanswered
  <2>4. \A d \in Callers : phase[d]' = "reading" => d = c /\ reading[d]' = w
    BY <1>8 DEF SendInv, LockInv, Write, Unanswered
  <2> QED
    <3>1. Written' > 0
      BY <1>2, <1>5
    <3> QED
      BY <1>5, <2>1, <2>2, <2>3, <2>4, <3>1 DEF LockInv, Phases
<1>11. Slack' = Slack + 1 /\ Slack \in Int /\ Slack' >= 0
  BY <1>9 DEF Slack, Write, Unanswered, faults, SendInv, StreamInv
<1>12. /\ Rising(requests) /\ Rising(answers)
       /\ requests \in Seq(Nat) /\ answers \in Seq(Nat) /\ timeouts \in Nat
       /\ \A i \in 1..Len(answers), j \in 1..Len(requests) : answers[i] < requests[j]
       /\ \A i \in 1..Len(requests) : requests[i] \in 1..Written /\ Written - requests[i] <= Slack
       /\ \A i \in 1..Len(answers) : answers[i] \in 1..Written /\ Written - answers[i] <= Slack
  BY DEF SendInv, StreamInv
<1>13. answers' = answers /\ timeouts' = timeouts
  BY DEF Write, Unanswered, faults
<1>14. ASSUME NEW i \in 1..Len(requests')
       PROVE  (i \in 1..Len(requests) /\ requests'[i] = requests[i])
              \/ (i = Len(requests) + 1 /\ requests'[i] = w)
  <2>1. Len(requests) \in Nat
    BY <1>12
  <2>2. i \in 1..Len(requests) \/ i = Len(requests) + 1
    BY <1>6, <2>1
  <2> QED
    BY <1>6, <2>2
<1>15. StreamInv'
  <2>1. ASSUME NEW i \in 1..Len(requests')
        PROVE  requests'[i] \in 1..w /\ w - requests'[i] <= Slack'
    <3>1. CASE i \in 1..Len(requests) /\ requests'[i] = requests[i]
      <4>1. requests[i] \in 1..Written /\ Written - requests[i] <= Slack
        BY <1>12, <3>1
      <4> QED
        BY <1>2, <1>11, <3>1, <4>1, SMTT(30)
    <3>2. CASE requests'[i] = w
      BY <1>2, <1>11, <3>2, SMTT(30)
    <3> QED
      BY <1>14, <3>1, <3>2
  <2>2. Rising(requests)'
    <3>1. ASSUME NEW i \in 1..Len(requests'), NEW j \in 1..Len(requests'), i < j
          PROVE  requests'[i] < requests'[j]
      <4>1. Len(requests) \in Nat
        BY <1>12
      <4>2. i \in 1..Len(requests) /\ requests'[i] = requests[i]
        BY <1>6, <1>14, <3>1, <4>1
      <4>3. CASE j \in 1..Len(requests) /\ requests'[j] = requests[j]
        BY <1>12, <3>1, <4>2, <4>3 DEF Rising
      <4>4. CASE requests'[j] = w
        BY <1>2, <1>12, <4>2, <4>4
      <4> QED
        BY <1>14, <4>3, <4>4
    <3> QED
      BY <3>1 DEF Rising
  <2>3. \A i \in 1..Len(answers') : answers'[i] \in 1..w /\ w - answers'[i] <= Slack'
    BY <1>2, <1>11, <1>12, <1>13
  <2>4. ASSUME NEW i \in 1..Len(answers'), NEW j \in 1..Len(requests')
        PROVE  answers'[i] < requests'[j]
    <3>1. i \in 1..Len(answers) /\ answers'[i] = answers[i] /\ answers[i] \in 1..Written
      BY <1>12, <1>13
    <3>2. CASE j \in 1..Len(requests) /\ requests'[j] = requests[j]
      BY <1>12, <3>1, <3>2
    <3>3. CASE requests'[j] = w
      BY <1>2, <3>1, <3>3
    <3> QED
      BY <1>14, <3>2, <3>3
  <2> QED
    BY <1>5, <1>6, <1>12, <1>13, <2>1, <2>2, <2>3, <2>4 DEF StreamInv, Rising
<1>16. ResultInv'
  <2>1. result \in Seq(Nat) /\ Len(result) = Written /\ LagWithoutBulk
    BY DEF SendInv, ResultInv
  <2>2. \A i \in 1..w : i \in 1..Written \/ i = w
    BY <1>2
  <2>3. \A i \in 1..w : result'[i] # 0 => result'[i] <= i /\ i - result'[i] <= timeouts'
    BY <1>2, <1>7, <1>13, <2>1, <2>2 DEF LagWithoutBulk
  <2> QED
    BY <1>5, <1>7, <2>1, <2>3 DEF ResultInv, LagWithoutBulk
<1> QED
  BY <1>10, <1>15, <1>16 DEF SendInv

\* What a call that stops waiting leaves behind: the lock is free, nothing waits.
Returned(c) ==
  /\ phase[c] = "reading"
  /\ phase' = [phase EXCEPT ![c] = "idle"] /\ mutex' = NoCaller
  /\ UNCHANGED <<call, reading, opcode, requests>>

\* A Send that gives up returns its lock.
LEMMA ReturnErrorStep ==
  ASSUME SendInv, NEW c \in Callers, ReturnError(c)
  PROVE  phase' = [phase EXCEPT ![c] = "idle"] /\ mutex' = NoCaller
BY DEF ReturnError, UnlocksOnError, SendInv, LockInv

\* Only the call that gives the lock back was waiting.
LEMMA ReturnedStep ==
  ASSUME SendInv, NEW c \in Callers, Returned(c)
  PROVE  LockInv' /\ Waiting /\ ~Waiting'
<1>1. mutex = c
  BY DEF SendInv, LockInv, Returned
<1>2. \A d \in Callers : phase'[d] \notin {"writing", "reading"}
  BY <1>1 DEF SendInv, LockInv, Returned
<1>3. LockInv'
  BY <1>2 DEF SendInv, LockInv, Returned, Phases, Written
<1> QED
  BY <1>2, <1>3 DEF Waiting, Returned

\* An answer is taken: the first one under way, so all others are less late, and
\* it is given to the operation written last.
LEMMA ReadStep ==
  ASSUME SendInv, NEW c \in Callers, Read(c)
  PROVE  SendInv'
<1> DEFINE a == Head(answers)
<1>1. /\ opcode \in Seq(OpCodes) /\ timeouts \in Nat
      /\ requests \in Seq(Nat) /\ answers \in Seq(Nat)
      /\ Rising(requests) /\ Rising(answers)
      /\ \A i \in 1..Len(answers), j \in 1..Len(requests) : answers[i] < requests[j]
      /\ \A i \in 1..Len(requests) : requests[i] \in 1..Written /\ Written - requests[i] <= Slack
      /\ \A i \in 1..Len(answers) : answers[i] \in 1..Written /\ Written - answers[i] <= Slack
      /\ result \in Seq(Nat) /\ Len(result) = Written /\ LagWithoutBulk
  BY DEF SendInv, StreamInv, ResultInv
<1>2. reading[c] = Written /\ Written > 0 /\ Written \in Nat
  BY <1>1 DEF SendInv, LockInv, Read, Written
<1>3. /\ answers' = Tail(answers) /\ answers # <<>>
      /\ UNCHANGED <<call, opcode, requests, timeouts>>
      /\ Written' = Written
  BY DEF Read, faults, Written
<1>4. /\ Returned(c)
      /\ result' = result \/ result' = [result EXCEPT ![Written] = a]
  <2>1. CASE Accepts(a, Written)
    BY <1>2, <1>3, <2>1 DEF Read, Returned, LastOp
  <2>2. CASE ~Accepts(a, Written)
    BY <1>2, <1>3, <2>2, ReturnErrorStep DEF Read, Returned, ReturnError
  <2> QED
    BY <2>1, <2>2
<1>5. LockInv' /\ Waiting /\ ~Waiting'
  BY <1>4, ReturnedStep
<1>6. Slack' = Slack - 1 /\ Slack = timeouts
  BY <1>1, <1>3, <1>5 DEF Slack
<1>7. /\ Len(answers) \in Nat /\ 1 \in 1..Len(answers) /\ a = answers[1]
      /\ answers' \in Seq(Nat) /\ Len(answers') = Len(answers) - 1
      /\ \A k \in 1..Len(answers') : answers'[k] = answers[k + 1] /\ k + 1 \in 1..Len(answers)
  BY <1>1, <1>3, HeadTail
<1>8. a \in 1..Written /\ Written - a <= Slack
  BY <1>1, <1>7
<1>9. ASSUME NEW b \in 1..Written, a < b PROVE Written - b <= Slack'
  BY <1>1, <1>2, <1>6, <1>8, <1>9
<1>10. StreamInv'
  <2>1. ASSUME NEW k \in 1..Len(answers')
        PROVE  answers'[k] \in 1..Written' /\ Written' - answers'[k] <= Slack'
    <3>1. answers'[k] \in 1..Written /\ a < answers'[k]
      <4>1. answers'[k] = answers[k + 1] /\ k + 1 \in 1..Len(answers) /\ 1 < k + 1
        BY <1>7
      <4> QED
        BY <1>1, <1>7, <4>1 DEF Rising
    <3> QED
      BY <1>3, <1>9, <3>1
  <2>2. ASSUME NEW k \in 1..Len(requests')
        PROVE  requests'[k] \in 1..Written' /\ Written' - requests'[k] <= Slack'
    <3>1. requests[k] \in 1..Written /\ a < requests[k]
      BY <1>1, <1>3, <1>7
    <3> QED
      BY <1>3, <1>9, <3>1
  <2>3. Rising(answers)'
    <3>1. ASSUME NEW i \in 1..Len(answers'), NEW j \in 1..Len(answers'), i < j
          PROVE  answers'[i] < answers'[j]
      <4>1. answers'[i] = answers[i + 1] /\ i + 1 \in 1..Len(answers)
        BY <1>7
      <4>2. answers'[j] = answers[j + 1] /\ j + 1 \in 1..Len(answers)
        BY <1>7
      <4>3. i \in Int /\ j \in Int
        OBVIOUS
      <4>4. i + 1 < j + 1
        BY <3>1, <4>3
      <4> QED
        BY <1>1, <4>1, <4>2, <4>4 DEF Rising
    <3> QED
      BY <3>1 DEF Rising
  <2>4. ASSUME NEW i \in 1..Len(answers'), NEW j \in 1..Len(requests')
        PROVE  answers'[i] < requests'[j]
    BY <1>1, <1>3, <1>7
  <2> QED
    BY <1>1, <1>3, <1>7, <2>1, <2>2, <2>3, <2>4 DEF StreamInv, Rising
<1>11. ResultInv'
  <2>1. result' \in Seq(Nat) /\ Len(result') = Written'
    <3>1. CASE result' = result
      BY <1>1, <1>3, <3>1
    <3>2. CASE result' = [result EXCEPT ![Written] = a]
      <4>1. a \in Nat /\ result \in Seq(Nat) /\ Written \in 1..Len(result)
        BY <1>1, <1>2, <1>8
      <4>2. result' \in Seq(Nat) /\ Len(result') = Len(result)
        BY <3>2, <4>1
      <4> QED
        BY <1>1, <1>3, <4>2
    <3> QED
      BY <1>4, <3>1, <3>2
  <2>2. ASSUME NEW i \in 1..Written
        PROVE  result'[i] # 0 => result'[i] <= i /\ i - result'[i] <= timeouts
    <3>1. CASE result' = result
      BY <1>1, <3>1 DEF LagWithoutBulk
    <3>2. CASE result' = [result EXCEPT ![Written] = a]
      <4>1. CASE i = Written
        BY <1>1, <1>2, <1>6, <1>8, <3>2, <4>1
      <4>2. CASE i # Written
        BY <1>1, <3>2, <4>2 DEF LagWithoutBulk
      <4> QED
        BY <4>1, <4>2
    <3> QED
      BY <1>4, <3>1, <3>2
  <2> QED
    BY <1>3, <2>1, <2>2 DEF ResultInv, LagWithoutBulk
<1> QED
  BY <1>5, <1>10, <1>11 DEF SendInv

\* A read gives up: one more timeout makes room for the answer that may come.
LEMMA ReadTimeoutStep ==
  ASSUME SendInv, NEW c \in Callers, ReadTimeout(c)
  PROVE  SendInv'
<1>1. Returned(c) /\ timeouts' = timeouts + 1 /\ UNCHANGED <<opcode, requests, answers, result>>
  BY ReturnErrorStep DEF ReadTimeout, Returned, ReturnError
<1>2. LockInv' /\ Waiting /\ ~Waiting'
  BY <1>1, ReturnedStep
<1>3. Slack' = Slack /\ timeouts' \in Nat /\ timeouts \in Nat
  BY <1>1, <1>2 DEF Slack, SendInv, StreamInv
<1>4. StreamInv'
  BY <1>1, <1>3 DEF SendInv, StreamInv, Rising, Written
<1>5. ResultInv'
  <2>1. result \in Seq(Nat) /\ Len(result) = Written /\ Written' = Written
    BY <1>1 DEF SendInv, ResultInv, Written
  <2>2. ASSUME NEW i \in 1..Written, result[i] # 0
        PROVE  result[i] <= i /\ i - result[i] <= timeouts'
    BY <1>1, <1>3, <2>1, <2>2 DEF SendInv, ResultInv, LagWithoutBulk
  <2> QED
    BY <1>1, <2>1, <2>2 DEF ResultInv, LagWithoutBulk
<1> QED
  BY <1>2, <1>4, <1>5 DEF SendInv

-----------------------------------------------------------------------------
(* The store's steps: what is under way only moves on. *)

\* The first request becomes the last answer.
LEMMA AnswerStep == ASSUME SendInv, Answer PROVE SendInv'
<1> DEFINE r == Head(requests)
<1>1. /\ requests \in Seq(Nat) /\ answers \in Seq(Nat)
      /\ Rising(requests) /\ Rising(answers)
      /\ \A i \in 1..Len(answers), j \in 1..Len(requests) : answers[i] < requests[j]
      /\ \A i \in 1..Len(requests) : requests[i] \in 1..Written /\ Written - requests[i] <= Slack
      /\ \A i \in 1..Len(answers) : answers[i] \in 1..Written /\ Written - answers[i] <= Slack
  BY DEF SendInv, StreamInv
<1>2. /\ requests # <<>> /\ requests' = Tail(requests) /\ answers' = Append(answers, r)
      /\ UNCHANGED <<mutex, phase, call, reading, opcode, result, timeouts>>
      /\ Written' = Written /\ Slack' = Slack
  BY DEF Answer, faults, Written, Slack, Waiting
<1>3. LockInv' /\ ResultInv'
  BY <1>2, ResultKept DEF SendInv, LockInv, Phases
<1>4. /\ Len(requests) \in Nat /\ 1 \in 1..Len(requests) /\ r = requests[1] /\ r \in Nat
      /\ requests' \in Seq(Nat)
      /\ \A k \in 1..Len(requests') : requests'[k] = requests[k + 1] /\ k + 1 \in 1..Len(requests)
  BY <1>1, <1>2, HeadTail
<1>5. /\ answers' \in Seq(Nat) /\ Len(answers') = Len(answers) + 1 /\ Len(answers) \in Nat
      /\ answers'[Len(answers) + 1] = r
      /\ \A k \in 1..Len(answers) : answers'[k] = answers[k]
  BY <1>1, <1>2, <1>4
<1>6. ASSUME NEW k \in 1..Len(answers')
      PROVE  \/ k \in 1..Len(answers) /\ answers'[k] = answers[k]
             \/ k = Len(answers) + 1 /\ answers'[k] = r
  BY <1>5
<1>7. ASSUME NEW k \in 1..Len(answers')
      PROVE  answers'[k] \in 1..Written /\ Written - answers'[k] <= Slack
  BY <1>1, <1>4, <1>6
<1>8. Rising(answers)'
  <2>1. ASSUME NEW i \in 1..Len(answers'), NEW j \in 1..Len(answers'), i < j
        PROVE  answers'[i] < answers'[j]
    <3>1. i \in 1..Len(answers) /\ answers'[i] = answers[i]
      BY <1>5, <1>6, <2>1
    <3>2. CASE j \in 1..Len(answers) /\ answers'[j] = answers[j]
      BY <1>1, <2>1, <3>1, <3>2 DEF Rising
    <3>3. CASE answers'[j] = r
      BY <1>1, <1>4, <3>1, <3>3
    <3> QED
      BY <1>6, <3>2, <3>3
  <2> QED
    BY <2>1 DEF Rising
<1>9. Rising(requests)'
  <2>1. ASSUME NEW i \in 1..Len(requests'), NEW j \in 1..Len(requests'), i < j
        PROVE  requests'[i] < requests'[j]
    BY <1>1, <1>4, <2>1 DEF Rising
  <2> QED
    BY <2>1 DEF Rising
<1>10. ASSUME NEW i \in 1..Len(answers'), NEW j \in 1..Len(requests')
       PROVE  answers'[i] < requests'[j]
  <2>1. requests'[j] = requests[j + 1] /\ j + 1 \in 1..Len(requests) /\ 1 < j + 1
    BY <1>4
  <2>2. CASE i \in 1..Len(answers) /\ answers'[i] = answers[i]
    BY <1>1, <2>1, <2>2
  <2>3. CASE answers'[i] = r
    BY <1>1, <1>4, <2>1, <2>3 DEF Rising
  <2> QED
    BY <1>6, <2>2, <2>3
<1>11. StreamInv'
  <2>1. \A k \in 1..Len(requests') : requests'[k] \in 1..Written /\ Written - requests'[k] <= Slack
    BY <1>1, <1>4
  <2>2. opcode' \in Seq(OpCodes) /\ timeouts' \in Nat
    BY <1>2 DEF SendInv, StreamInv
  <2> QED
    BY <1>2, <1>4, <1>5, <1>7, <1>8, <1>9, <1>10, <2>1, <2>2 DEF StreamInv
<1> QED
  BY <1>3, <1>11 DEF SendInv

\* A request is gone; those after it stay in order.
LEMMA DropStep == ASSUME SendInv, Drop PROVE SendInv'
<1>1. /\ requests \in Seq(Nat) /\ Rising(requests) /\ requests # <<>>
      /\ requests' = Tail(requests)
      /\ UNCHANGED <<mutex, phase, call, reading, opcode, answers, result, timeouts>>
      /\ Written' = Written /\ Slack' = Slack
  BY DEF SendInv, StreamInv, Drop, Written, Slack, Waiting
<1>2. LockInv' /\ ResultInv'
  BY <1>1, ResultKept DEF SendInv, LockInv, Phases
<1>3. /\ requests' \in Seq(Nat)
      /\ \A k \in 1..Len(requests') : requests'[k] = requests[k + 1] /\ k + 1 \in 1..Len(requests)
  BY <1>1, HeadTail
<1>4. Rising(requests)'
  <2>1. ASSUME NEW i \in 1..Len(requests'), NEW j \in 1..Len(requests'), i < j
        PROVE  requests'[i] < requests'[j]
    BY <1>1, <1>3, <2>1 DEF Rising
  <2> QED
    BY <2>1 DEF Rising
<1>5. StreamInv'
  BY <1>1, <1>3, <1>4 DEF SendInv, StreamInv, Rising
<1> QED
  BY <1>2, <1>5 DEF SendInv

-----------------------------------------------------------------------------
\* Every step keeps the invariant.
LEMMA NextSendInv == ASSUME ~UseBulk PROVE SendInv /\ [Next]_vars => SendInv'
<1> SUFFICES ASSUME SendInv, [Next]_vars PROVE SendInv'
  OBVIOUS
<1>1. CASE UNCHANGED vars
  <2>1. Waiting' = Waiting /\ LockInv'
    BY <1>1 DEF vars, Waiting, SendInv, LockInv, Written, Phases
  <2> QED
    BY <1>1, <2>1, StreamKept, ResultKept DEF vars, faults, SendInv
<1>2. ASSUME NEW c \in Callers, Begin(c) \/ Lock(c) \/ Write(c) \/ WriteError(c)
      PROVE  SendInv'
  BY <1>2, BeginStep, LockStep, WriteStep, WriteErrorStep
<1>3. ASSUME NEW c \in Callers, Read(c) \/ ReadTimeout(c)
      PROVE  SendInv'
  BY <1>3, ReadStep, ReadTimeoutStep
<1> QED
  BY <1>1, <1>2, <1>3, AnswerStep, DropStep DEF Next

\* On a connection used with Send only, whatever the number of callers and of
\* failures, an operation is given an answer at most as many operations back as
\* there were timeouts, and never one from ahead (Send, network.go 208-244).
LEMMA SendLag == ~UseBulk => (Spec => []LagBounded)
<1> SUFFICES ASSUME ~UseBulk PROVE Spec => []LagBounded
  OBVIOUS
<1>1. SendInv => LagBounded
  BY DEF SendInv, ResultInv, LagWithoutBulk, LagBounded
<1> QED
  BY <1>1, InitSendInv, NextSendInv, PTL DEF Spec

\* As long as no read has timed out every operation is given its own answer,
\* whoever else uses the connection and whatever the store throws away.
THEOREM SendAnswers == ~UseBulk => (Spec => [](timeouts = 0 => AnswerIsMine))
<1> SUFFICES ASSUME ~UseBulk PROVE Spec => [](timeouts = 0 => AnswerIsMine)
  OBVIOUS
<1>1. SendInv => (timeouts = 0 => AnswerIsMine)
  <2> SUFFICES ASSUME SendInv, timeouts = 0, NEW i \in 1..Written PROVE result[i] \in {0, i}
    BY DEF AnswerIsMine
  <2>1. result[i] \in Nat /\ i \in Int
    BY DEF SendInv, ResultInv
  <2> QED
    BY <2>1 DEF SendInv, ResultInv, LagWithoutBulk
<1> QED
  BY <1>1, InitSendInv, NextSendInv, PTL DEF Spec

\* The connection is used by one caller at a time.
THEOREM SendExclusive ==
  ~UseBulk => (Spec => [](\A c, d \in Callers :
                            phase[c] = "reading" /\ phase[d] \in {"writing", "reading"} => c = d))
<1> SUFFICES ASSUME ~UseBulk
             PROVE  Spec => [](\A c, d \in Callers :
                       phase[c] = "reading" /\ phase[d] \in {"writing", "reading"} => c = d)
  OBVIOUS
<1>1. SendInv => \A c, d \in Callers :
         phase[c] = "reading" /\ phase[d] \in {"writing", "reading"} => c = d
  BY DEF SendInv, LockInv
<1> QED
  BY <1>1, InitSendInv, NextSendInv, PTL DEF Spec

-----------------------------------------------------------------------------
(* Calls of both kinds. *)

\* The types, and that only the holder of the lock uses the connection.
HolderInv ==
  /\ TypeOK
  /\ \A c \in Callers : phase[c] \in {"writing", "reading"} => mutex = c
  /\ \A c \in Callers : phase[c] = "reading" => reading[c] \in 1..Written

UnderWay == answers \o requests

\* As long as nothing has gone wrong, what is under way are the answers the one call
\* that reads still waits for, and every answer was given to its own operation.
QuietInv ==
  timeouts = 0 /\ drops = 0 =>
    /\ ~Waiting => UnderWay = <<>>
    /\ \A c \in Callers : phase[c] = "reading" =>
         /\ Len(UnderWay) = Written - reading[c] + 1
         /\ \A k \in 1..Len(UnderWay) : UnderWay[k] = reading[c] + k - 1
    /\ AnswerIsMine

BothInv == HolderInv /\ QuietInv

\* Two sequences put together.
LEMMA PutTogether ==
  ASSUME NEW S, NEW s \in Seq(S), NEW t \in Seq(S)
  PROVE  /\ s \o t \in Seq(S) /\ Len(s) \in Nat /\ Len(t) \in Nat
         /\ Len(s \o t) = Len(s) + Len(t)
OBVIOUS

\* The left part of two sequences put together.
LEMMA LeftPart ==
  ASSUME NEW S, NEW s \in Seq(S), NEW t \in Seq(S), NEW i \in 1..Len(s)
  PROVE  (s \o t)[i] = s[i]
OBVIOUS

\* The right part of two sequences put together.
LEMMA RightPart ==
  ASSUME NEW S, NEW s \in Seq(S), NEW t \in Seq(S), NEW i \in 1..Len(t)
  PROVE  (s \o t)[Len(s) + i] = t[i]
OBVIOUS

\* What the store answers stays under way.
LEMMA AnswerMoves ==
  ASSUME NEW S, NEW s \in Seq(S), NEW t \in Seq(S), t # <<>>
  PROVE  Append(s, Head(t)) \o Tail(t) = s \o t
<1>1. /\ Len(t) \in Nat /\ Len(t) > 0 /\ Head(t) = t[1] /\ Head(t) \in S
      /\ Tail(t) \in Seq(S) /\ Len(Tail(t)) = Len(t) - 1
      /\ \A i \in 1..Len(Tail(t)) : Tail(t)[i] = t[i + 1]
  BY HeadTail
<1> DEFINE a == Append(s, Head(t))  b == Tail(t)  x == a \o b  y == s \o t
<1>2. /\ a \in Seq(S) /\ Len(a) = Len(s) + 1 /\ a[Len(s) + 1] = t[1] /\ Len(s) \in Nat
      /\ \A i \in 1..Len(s) : a[i] = s[i]
  BY <1>1
<1>3. b \in Seq(S) /\ Len(b) = Len(t) - 1 /\ \A i \in 1..Len(b) : b[i] = t[i + 1]
  BY <1>1
<1> HIDE DEF a, b
<1>4. /\ x \in Seq(S) /\ Len(x) = Len(a) + Len(b)
      /\ \A i \in 1..Len(a) : x[i] = a[i]
      /\ \A i \in 1..Len(b) : x[Len(a) + i] = b[i]
  <2>1. a \in Seq(S) /\ b \in Seq(S)
    BY <1>2, <1>3
  <2>2. x \in Seq(S) /\ Len(x) = Len(a) + Len(b) /\ Len(a) \in Nat /\ Len(b) \in Nat
    BY <2>1, PutTogether, Zenon
  <2>3. \A i \in 1..Len(a) : x[i] = a[i]
    BY <2>1, LeftPart, Zenon
  <2>4. \A i \in 1..Len(b) : x[Len(a) + i] = b[i]
    BY <2>1, RightPart, Zenon
  <2> QED
    BY <2>2, <2>3, <2>4
<1>5. /\ y \in Seq(S) /\ Len(y) = Len(s) + Len(t)
      /\ \A i \in 1..Len(s) : y[i] = s[i]
      /\ \A i \in 1..Len(t) : y[Len(s) + i] = t[i]
  <2>1. s \in Seq(S) /\ t \in Seq(S)
    OBVIOUS
  <2>2. y \in Seq(S) /\ Len(y) = Len(s) + Len(t) /\ Len(s) \in Nat /\ Len(t) \in Nat
    BY <2>1, PutTogether, Zenon
  <2>3. \A i \in 1..Len(s) : y[i] = s[i]
    BY <2>1, LeftPart, Zenon
  <2>4. \A i \in 1..Len(t) : y[Len(s) + i] = t[i]
    BY <2>1, RightPart, Zenon
  <2> QED
    BY <2>2, <2>3, <2>4
<1> HIDE DEF x, y
<1>6. Len(x) = Len(y)
  BY <1>1, <1>2, <1>3, <1>4, <1>5
<1>7. ASSUME NEW i \in 1..Len(x) PROVE x[i] = y[i]
  <2>1. CASE i \in 1..Len(s)
    <3>1. i \in 1..Len(a)
      BY <1>2, <2>1
    <3> QED
      BY <1>2, <1>4, <1>5, <2>1, <3>1
  <2>2. CASE i = Len(s) + 1
    <3>1. i \in 1..Len(a) /\ 1 \in 1..Len(t)
      BY <1>1, <1>2, <2>2
    <3> QED
      BY <1>2, <1>4, <1>5, <2>2, <3>1
  <2>3. CASE i > Len(s) + 1
    <3> DEFINE j == i - (Len(s) + 1)
    <3>1. j \in 1..Len(b) /\ j + 1 \in 1..Len(t) /\ i = Len(a) + j /\ i = Len(s) + (j + 1)
      BY <1>1, <1>2, <1>3, <1>4, <2>3
    <3> HIDE DEF j
    <3>2. x[i] = b[j] /\ y[i] = t[j + 1]
      BY <1>4, <1>5, <3>1
    <3> QED
      BY <1>3, <3>1, <3>2
  <2> QED
    BY <1>2, <2>1, <2>2, <2>3
<1>8. x \in [1..Len(x) -> S] /\ y \in [1..Len(y) -> S]
  BY <1>4, <1>5
<1>9. x = y
  BY <1>6, <1>7, <1>8
<1> QED
  BY <1>9 DEF x, y, a, b

\* What a call takes is the first of what is under way.
LEMMA TakenFirst ==
  ASSUME NEW S, NEW s \in Seq(S), NEW t \in Seq(S), s # <<>>
  PROVE  /\ Len(s \o t) \in Nat /\ Len(s \o t) > 0 /\ (s \o t)[1] = Head(s)
         /\ Len(Tail(s) \o t) = Len(s \o t) - 1
         /\ \A i \in 1..Len(Tail(s) \o t) : (Tail(s) \o t)[i] = (s \o t)[i + 1]
<1> DEFINE r == Tail(s)
<1>1. /\ Len(s) \in Nat /\ Len(s) > 0 /\ Head(s) = s[1]
      /\ r \in Seq(S) /\ Len(r) = Len(s) - 1
      /\ \A i \in 1..Len(r) : r[i] = s[i + 1]
  BY HeadTail
<1> HIDE DEF r
<1> DEFINE x == s \o t  y == r \o t
<1>2. /\ Len(x) = Len(s) + Len(t) /\ Len(t) \in Nat
      /\ \A i \in 1..Len(s) : x[i] = s[i]
      /\ \A i \in 1..Len(t) : x[Len(s) + i] = t[i]
  <2>1. s \in Seq(S) /\ t \in Seq(S)
    OBVIOUS
  <2>2. x \in Seq(S) /\ Len(x) = Len(s) + Len(t) /\ Len(s) \in Nat /\ Len(t) \in Nat
    BY <2>1, PutTogether, Zenon
  <2>3. \A i \in 1..Len(s) : x[i] = s[i]
    BY <2>1, LeftPart, Zenon
  <2>4. \A i \in 1..Len(t) : x[Len(s) + i] = t[i]
    BY <2>1, RightPart, Zenon
  <2> QED
    BY <2>2, <2>3, <2>4
<1>3. /\ Len(y) = Len(r) + Len(t)
      /\ \A i \in 1..Len(r) : y[i] = r[i]
      /\ \A i \in 1..Len(t) : y[Len(r) + i] = t[i]
  <2>1. r \in Seq(S)
    BY <1>1
  <2>2. y \in Seq(S) /\ Len(y) = Len(r) + Len(t) /\ Len(r) \in Nat /\ Len(t) \in Nat
    BY <2>1, PutTogether, Zenon
  <2>3. \A i \in 1..Len(r) : y[i] = r[i]
    BY <2>1, LeftPart, Zenon
  <2>4. \A i \in 1..Len(t) : y[Len(r) + i] = t[i]
    BY <2>1, RightPart, Zenon
  <2> QED
    BY <2>2, <2>3, <2>4
<1> HIDE DEF x, y
<1>4. Len(x) \in Nat /\ Len(x) > 0 /\ x[1] = Head(s) /\ Len(y) = Len(x) - 1
  BY <1>1, <1>2, <1>3
<1>5. ASSUME NEW i \in 1..Len(y) PROVE y[i] = x[i + 1]
  <2>1. CASE i \in 1..Len(r)
    <3>1. i + 1 \in 1..Len(s)
      BY <1>1, <2>1
    <3> QED
      BY <1>1, <1>2, <1>3, <2>1, <3>1
  <2>2. CASE i > Len(r)
    <3> DEFINE j == i - Len(r)
    <3>1. j \in 1..Len(t) /\ i = Len(r) + j /\ i + 1 = Len(s) + j
      BY <1>1, <1>2, <1>3, <2>2
    <3> HIDE DEF j
    <3> QED
      BY <1>2, <1>3, <3>1
  <2> QED
    BY <1>1, <2>1, <2>2
<1> QED
  BY <1>4, <1>5 DEF x, y, r

\* The calls of both kinds.
LEMMA CallTypes ==
  /\ Calls # {}
  /\ \A k \in Calls : k.opcode \in OpCodes /\ k.size \in Nat /\ k.size >= 1
<1>1. PICK o \in OpCodes : TRUE
  BY CallerAssumption
<1>2. [bulk |-> FALSE, opcode |-> o, size |-> 1] \in Calls
  BY DEF Calls
<1>3. ASSUME NEW k \in Calls
      PROVE  k.opcode \in OpCodes /\ k.size \in Nat /\ k.size >= 1
  <2>1. CASE k \in [bulk : {FALSE}, opcode : OpCodes, size : {1}]
    BY <2>1
  <2>2. CASE k \in [bulk : {TRUE}, opcode : OpCodes, size : {BulkSize}]
    BY <2>2, BoundAssumption
  <2> QED
    BY <2>1, <2>2 DEF Calls
<1> QED
  BY <1>2, <1>3

\* At the start nobody has the lock and nothing is under way.
LEMMA InitBothInv == Init => BothInv
<1> SUFFICES ASSUME Init PROVE BothInv
  OBVIOUS
<1>1. (CHOOSE k \in Calls : TRUE) \in Calls
  BY CallTypes
<1>2. TypeOK
  BY <1>1 DEF Init, TypeOK, Phases, Written
<1>3. HolderInv
  BY <1>2 DEF Init, HolderInv
<1>4. <<>> \o <<>> = <<>>
  OBVIOUS
<1>5. QuietInv
  BY <1>4 DEF Init, QuietInv, Waiting, UnderWay, AnswerIsMine, Written
<1> QED
  BY <1>3, <1>5 DEF BothInv

\* Steps that write nothing and leave the calls that wait, what is under way and the
\* faults as they are.
LEMMA QuietKept ==
  ASSUME QuietInv, UNCHANGED <<opcode, requests, answers, result, timeouts, drops, reading>>,
         \A c \in Callers : phase'[c] = "reading" <=> phase[c] = "reading"
  PROVE  QuietInv'
<1>1. Waiting' = Waiting
  BY DEF Waiting
<1> QED
  BY <1>1 DEF QuietInv, UnderWay, AnswerIsMine, Written

\* A call begins, takes the lock, or fails to write.
LEMMA EarlySteps ==
  ASSUME BothInv, NEW c \in Callers, Begin(c) \/ Lock(c) \/ WriteError(c)
  PROVE  BothInv'
<1>1. /\ UNCHANGED <<opcode, requests, answers, result, timeouts, drops, reading>>
      /\ phase[c] \notin {"reading"}
      /\ \E p \in {"idle", "locking", "writing"} : phase' = [phase EXCEPT ![c] = p]
  BY DEF Begin, Lock, WriteError, faults
<1>2. phase \in [Callers -> Phases]
  BY DEF BothInv, HolderInv, TypeOK
<1>3. QuietInv'
  BY <1>1, <1>2, QuietKept DEF BothInv
<1>4. TypeOK'
  <2>1. {begun', timeouts', writeErrors', drops'} \subseteq Nat
    <3>1. \A k \in Calls : k.size \in Nat
      BY CallTypes
    <3> QED
      BY <3>1 DEF BothInv, HolderInv, TypeOK, Begin, Lock, WriteError, faults
  <2>2. call' \in [Callers -> Calls] /\ mutex' \in Callers \cup {NoCaller}
    BY DEF BothInv, HolderInv, TypeOK, Begin, Lock, WriteError
  <2>3. phase' \in [Callers -> Phases]
    BY <1>1, <1>2 DEF Phases
  <2> QED
    BY <1>1, <2>1, <2>2, <2>3 DEF BothInv, HolderInv, TypeOK, Written
<1>5. \A d \in Callers : phase'[d] \in {"writing", "reading"} => mutex' = d
  <2>1. CASE Lock(c)
    <3>1. mutex' = c /\ mutex = NoCaller /\ phase' = [phase EXCEPT ![c] = "writing"]
      BY <2>1 DEF Lock, MutexFree
    <3> QED
      BY <1>2, <3>1, CallerAssumption DEF BothInv, HolderInv
  <2>2. CASE Begin(c) \/ WriteError(c)
    <3>1. mutex' = mutex /\ \E p \in {"idle", "locking"} : phase' = [phase EXCEPT ![c] = p]
      BY <2>2 DEF Begin, WriteError
    <3> QED
      BY <1>2, <3>1 DEF BothInv, HolderInv
  <2> QED
    BY <2>1, <2>2
<1>6. \A d \in Callers : phase'[d] = "reading" => reading'[d] \in 1..Written'
  BY <1>1, <1>2 DEF BothInv, HolderInv, Written
<1> QED
  BY <1>3, <1>4, <1>5, <1>6 DEF BothInv, HolderInv

\* All the requests of a call are written while nothing else is under way.
LEMMA WriteBoth ==
  ASSUME BothInv, NEW c \in Callers, Write(c)
  PROVE  BothInv'
<1> DEFINE n == call[c].size
           ops == [i \in 1..n |-> call[c].opcode]
           ids == [i \in 1..n |-> Written + i]
           none == [i \in 1..n |-> 0]
<1>1. /\ phase[c] = "writing" /\ opcode' = opcode \o ops /\ requests' = requests \o ids
      /\ result' = result \o none
      /\ reading' = [reading EXCEPT ![c] = Written + 1]
      /\ phase' = [phase EXCEPT ![c] = "reading"]
      /\ UNCHANGED <<mutex, call, answers, begun, timeouts, writeErrors, drops>>
  BY DEF Write, Unanswered, faults
<1>2. TypeOK /\ mutex = c /\ Written \in Nat
  BY <1>1 DEF BothInv, HolderInv, TypeOK, Written
<1>3. n \in Nat /\ n >= 1 /\ call[c].opcode \in OpCodes
  BY <1>2, CallTypes DEF TypeOK
<1> HIDE DEF n
<1>4. /\ ops \in Seq(OpCodes) /\ Len(ops) = n
      /\ ids \in Seq(Nat) /\ Len(ids) = n /\ \A i \in 1..n : ids[i] = Written + i
      /\ none \in Seq(Nat) /\ Len(none) = n /\ \A i \in 1..n : none[i] = 0
  BY <1>2, <1>3
<1> HIDE DEF ops, ids, none
<1>5. opcode' \in Seq(OpCodes) /\ Written' = Written + n
  <2>1. opcode \in Seq(OpCodes) /\ ops \in Seq(OpCodes) /\ Len(ops) = n
    BY <1>2, <1>4 DEF TypeOK
  <2>2. opcode \o ops \in Seq(OpCodes) /\ Len(opcode \o ops) = Len(opcode) + Len(ops)
    BY <2>1, PutTogether, Zenon
  <2> QED
    BY <1>1, <2>1, <2>2 DEF Written
<1>6. requests' \in Seq(Nat)
  <2>1. requests \in Seq(Nat) /\ ids \in Seq(Nat)
    BY <1>2, <1>4 DEF TypeOK
  <2> QED
    BY <1>1, <2>1, PutTogether, Zenon
<1>7. /\ result' \in Seq(Nat) /\ Len(result') = Written + n
      /\ \A i \in 1..Written : result'[i] = result[i]
      /\ \A i \in 1..n : result'[Written + i] = 0
  <2>1. result \in Seq(Nat) /\ Len(result) = Written /\ none \in Seq(Nat) /\ Len(none) = n
    BY <1>2, <1>4 DEF TypeOK
  <2>2. result' \in Seq(Nat) /\ Len(result') = Len(result) + Len(none)
    BY <1>1, <2>1, PutTogether, Zenon
  <2>3. \A i \in 1..Len(result) : result'[i] = result[i]
    BY <1>1, <2>1, LeftPart, Zenon
  <2>4. \A i \in 1..Len(none) : result'[Len(result) + i] = none[i]
    BY <1>1, <2>1, RightPart, Zenon
  <2> QED
    BY <1>4, <2>1, <2>2, <2>3, <2>4
<1>8. TypeOK'
  BY <1>1, <1>2, <1>5, <1>6, <1>7 DEF TypeOK, Phases
<1>9. \A d \in Callers : phase'[d] \in {"writing", "reading"} => mutex' = d
  BY <1>1, <1>2 DEF TypeOK, BothInv, HolderInv
<1>10. \A d \in Callers : phase'[d] = "reading" => d = c /\ reading'[d] = Written + 1
  BY <1>1, <1>2 DEF TypeOK, BothInv, HolderInv
<1>11. HolderInv'
  <2>1. Written + 1 \in 1..Written'
    BY <1>2, <1>3, <1>5
  <2> QED
    BY <1>8, <1>9, <1>10, <2>1 DEF HolderInv
<1>12. QuietInv'
  <2> SUFFICES ASSUME timeouts = 0, drops = 0
               PROVE  /\ Waiting'
                      /\ \A d \in Callers : phase'[d] = "reading" =>
                           /\ Len(UnderWay') = Written' - reading'[d] + 1
                           /\ \A k \in 1..Len(UnderWay') : UnderWay'[k] = reading'[d] + k - 1
                      /\ AnswerIsMine'
    BY <1>1 DEF QuietInv
  <2>1. ~Waiting
    BY <1>1, <1>2 DEF Waiting, BothInv, HolderInv
  <2>2. answers \o requests = <<>> /\ AnswerIsMine
    BY <2>1 DEF BothInv, QuietInv, UnderWay
  <2>3. answers = <<>> /\ requests = <<>>
    <3>1. answers \in Seq(Nat) /\ requests \in Seq(Nat)
      BY <1>2 DEF TypeOK
    <3>2. /\ Len(answers \o requests) = Len(answers) + Len(requests)
          /\ Len(answers) \in Nat /\ Len(requests) \in Nat
      BY <3>1, PutTogether, Zenon
    <3> QED
      BY <2>2, <3>1, <3>2
  <2>4. UnderWay' = ids
    <3>1. <<>> \o (<<>> \o ids) = ids
      BY <1>4
    <3> QED
      BY <1>1, <2>3, <3>1 DEF UnderWay
  <2>5. Waiting'
    BY <1>1, <1>2 DEF Waiting, TypeOK
  <2>6. AnswerIsMine'
    <3> SUFFICES ASSUME NEW i \in 1..(Written + n) PROVE result'[i] \in {0, i}
      BY <1>5 DEF AnswerIsMine
    <3>1. CASE i \in 1..Written
      BY <1>7, <2>2, <3>1 DEF AnswerIsMine
    <3>2. CASE i \notin 1..Written
      <4>1. i - Written \in 1..n /\ Written + (i - Written) = i
        BY <1>2, <1>3, <3>2
      <4> QED
        BY <1>7, <4>1
    <3> QED
      BY <3>1, <3>2
  <2>7. \A k \in 1..n : ids[k] = (Written + 1) + k - 1
    BY <1>2, <1>3, <1>4
  <2>8. Len(ids) = (Written + n) - (Written + 1) + 1
    BY <1>2, <1>3, <1>4
  <2> QED
    BY <1>4, <1>5, <1>10, <2>4, <2>5, <2>6, <2>7, <2>8
<1> QED
  BY <1>11, <1>12 DEF BothInv

\* A call that gives up leaves the types and the lock as they should be.
LEMMA GiveUpHolder ==
  ASSUME HolderInv, NEW c \in Callers, phase[c] = "reading",
         phase' = [phase EXCEPT ![c] = "idle"], mutex' \in {mutex, NoCaller},
         UNCHANGED <<call, reading, opcode, requests>>,
         answers' \in Seq(Nat), result' \in Seq(Nat), Len(result') = Len(result),
         {begun', timeouts', writeErrors', drops'} \subseteq Nat
  PROVE  HolderInv'
<1>1. TypeOK'
  BY DEF HolderInv, TypeOK, Phases, Written
<1>2. \A d \in Callers : phase'[d] \in {"writing", "reading"} => d # c /\ phase[d] = phase'[d]
  BY DEF HolderInv, TypeOK
<1>3. \A d \in Callers : phase'[d] \in {"writing", "reading"} => FALSE
  BY <1>2 DEF HolderInv
<1> QED
  BY <1>1, <1>3 DEF HolderInv

\* An answer is taken.  As long as nothing has gone wrong it is the first of those
\* the call still waits for, so its own, and with the last one the call returns.
LEMMA ReadBoth ==
  ASSUME BothInv, NEW c \in Callers, Read(c)
  PROVE  BothInv'
<1> DEFINE a == Head(answers)  i == reading[c]  u == answers \o requests
           v == Tail(answers) \o requests
<1>1. /\ phase[c] = "reading" /\ answers # <<>> /\ answers' = Tail(answers)
      /\ UNCHANGED <<call, opcode, requests, begun, timeouts, writeErrors, drops>>
      /\ Written' = Written
  BY DEF Read, faults, Written
<1>2. TypeOK /\ HolderInv /\ i \in 1..Written /\ Written \in Nat /\ Len(result) = Written
      /\ answers \in Seq(Nat) /\ requests \in Seq(Nat) /\ result \in Seq(Nat)
      /\ phase \in [Callers -> Phases] /\ reading \in [Callers -> Nat]
  <2>1. HolderInv /\ TypeOK
    BY DEF BothInv, HolderInv
  <2>2. Written \in Nat
    BY <2>1 DEF TypeOK, Written
  <2>3. i \in 1..Written
    BY <1>1, <2>1 DEF HolderInv
  <2> QED
    BY <2>1, <2>2, <2>3 DEF TypeOK
<1>3. answers' \in Seq(Nat) /\ a \in Nat
  BY <1>1, <1>2, HeadTail
<1>4. {begun', timeouts', writeErrors', drops'} \subseteq Nat
  BY <1>1, <1>2 DEF TypeOK
<1>5. /\ Len(u) \in Nat /\ Len(u) > 0 /\ u[1] = a /\ Len(v) = Len(u) - 1
      /\ \A k \in 1..Len(v) : v[k] = u[k + 1]
  <2>1. answers \in Seq(Nat) /\ requests \in Seq(Nat) /\ answers # <<>>
    BY <1>1, <1>2
  <2> QED
    BY <2>1, TakenFirst, ZenonT(30)
<1>6. UnderWay = u /\ UnderWay' = v
  BY <1>1 DEF UnderWay
<1> HIDE DEF a, u, v
<1>7. ASSUME timeouts = 0, drops = 0
      PROVE  /\ Len(u) = Written - i + 1 /\ a = i /\ AnswerIsMine
             /\ \A k \in 1..Len(u) : u[k] = i + k - 1
  <2>1. /\ Len(u) = Written - i + 1 /\ AnswerIsMine
        /\ \A k \in 1..Len(u) : u[k] = i + k - 1
    BY <1>1, <1>6, <1>7 DEF BothInv, QuietInv
  <2>2. u[1] = i + 1 - 1
    BY <1>5, <2>1
  <2> QED
    BY <1>2, <1>5, <2>1, <2>2
<1>8. \A d \in Callers : phase[d] = "reading" => d = c
  BY <1>1, <1>2 DEF HolderInv
<1>9. CASE ~Accepts(a, i)
  <2>1. phase' = [phase EXCEPT ![c] = "idle"] /\ mutex' \in {mutex, NoCaller}
        /\ UNCHANGED <<reading, result>>
    BY <1>9 DEF Read, ReturnError, a
  <2>2. HolderInv'
    BY <1>1, <1>2, <1>3, <1>4, <2>1, GiveUpHolder
  <2>3. timeouts # 0 \/ drops # 0
    BY <1>7, <1>9 DEF Accepts
  <2> QED
    BY <1>1, <2>2, <2>3 DEF BothInv, QuietInv
<1>10. CASE Accepts(a, i)
  <2>1. result' = [result EXCEPT ![i] = a]
    BY <1>10 DEF Read, a
  <2>2. result' \in Seq(Nat) /\ Len(result') = Len(result)
    BY <1>2, <1>3, <2>1
  <2>3. ASSUME timeouts = 0, drops = 0 PROVE AnswerIsMine'
    <3> SUFFICES ASSUME NEW j \in 1..Written PROVE result'[j] \in {0, j}
      BY <1>1 DEF AnswerIsMine
    <3>1. result[j] \in {0, j} /\ a = i
      BY <1>7, <2>3 DEF AnswerIsMine
    <3>2. result'[j] = IF j = i THEN a ELSE result[j]
      BY <1>2, <2>1
    <3> QED
      BY <3>1, <3>2
  <2>4. CASE i = LastOp
    <3>1. phase' = [phase EXCEPT ![c] = "idle"] /\ mutex' = NoCaller /\ reading' = reading
      BY <1>10, <2>4 DEF Read, a
    <3>2. HolderInv'
      BY <1>1, <1>2, <1>3, <1>4, <2>2, <3>1, GiveUpHolder
    <3>3. \A d \in Callers : phase'[d] # "reading"
      BY <1>2, <1>8, <3>1
    <3>4. ASSUME timeouts = 0, drops = 0 PROVE UnderWay' = <<>>
      <4>1. Len(v) = 0
        <5>1. Len(u) = Written - i + 1
          BY <1>7, <3>4
        <5> QED
          BY <1>2, <1>5, <2>4, <5>1 DEF LastOp
      <4>2. v \in Seq(Nat)
        <5>1. Tail(answers) \in Seq(Nat)
          BY <1>1, <1>3
        <5> QED
          BY <1>2, <5>1, PutTogether, Zenon DEF v
      <4> QED
        BY <1>6, <4>1, <4>2
    <3> QED
      BY <1>1, <2>3, <3>2, <3>3, <3>4 DEF BothInv, QuietInv
  <2>5. CASE i # LastOp
    <3>1. reading' = [reading EXCEPT ![c] = i + 1] /\ UNCHANGED <<mutex, phase>>
      BY <1>10, <2>5 DEF Read, a
    <3>2. i + 1 \in 1..Written
      BY <1>2, <2>5 DEF LastOp
    <3>3. TypeOK'
      <4>1. reading' \in [Callers -> Nat]
        BY <1>2, <3>1, <3>2
      <4> QED
        BY <1>1, <1>2, <1>3, <1>4, <2>2, <3>1, <4>1 DEF TypeOK
    <3>4. reading'[c] = i + 1
      BY <1>2, <3>1
    <3>5. HolderInv'
      <4>1. \A d \in Callers : phase'[d] \in {"writing", "reading"} => mutex' = d
        BY <1>2, <3>1 DEF HolderInv
      <4>2. \A d \in Callers : phase'[d] = "reading" => reading'[d] \in 1..Written'
        BY <1>1, <1>8, <3>1, <3>2, <3>4
      <4> QED
        BY <3>3, <4>1, <4>2 DEF HolderInv
    <3>6. Waiting'
      BY <1>1, <3>1 DEF Waiting
    <3>7. ASSUME timeouts = 0, drops = 0
          PROVE  /\ Len(v) = Written - (i + 1) + 1
                 /\ \A k \in 1..Len(v) : v[k] = (i + 1) + k - 1
      <4>1. Len(v) = Written - (i + 1) + 1
        BY <1>2, <1>5, <1>7, <3>7
      <4>2. ASSUME NEW k \in 1..Len(v) PROVE v[k] = (i + 1) + k - 1
        <5>1. k + 1 \in 1..Len(u) /\ k \in Nat
          BY <1>2, <1>5, <4>1
        <5>2. u[k + 1] = i + (k + 1) - 1
          BY <1>7, <3>7, <5>1
        <5> QED
          BY <1>2, <1>5, <5>1, <5>2
      <4> QED
        BY <4>1, <4>2
    <3>8. QuietInv'
      <4> SUFFICES ASSUME timeouts = 0, drops = 0, NEW d \in Callers, phase'[d] = "reading"
                   PROVE  /\ Len(UnderWay') = Written' - reading'[d] + 1
                          /\ \A k \in 1..Len(UnderWay') : UnderWay'[k] = reading'[d] + k - 1
        BY <1>1, <2>3, <3>6 DEF QuietInv
      <4>1. d = c
        BY <1>8, <3>1
      <4> QED
        BY <1>1, <1>6, <3>4, <3>7, <4>1
    <3> QED
      BY <3>5, <3>8 DEF BothInv
  <2> QED
    BY <2>4, <2>5
<1> QED
  BY <1>9, <1>10

\* A read that times out; from then on the answer may come late.
LEMMA ReadTimeoutBoth ==
  ASSUME BothInv, NEW c \in Callers, ReadTimeout(c)
  PROVE  BothInv'
<1>1. /\ phase[c] = "reading" /\ phase' = [phase EXCEPT ![c] = "idle"]
      /\ mutex' \in {mutex, NoCaller} /\ timeouts' = timeouts + 1
      /\ UNCHANGED <<call, reading, opcode, requests, answers, result, begun, writeErrors, drops>>
  BY DEF ReadTimeout, ReturnError
<1>2. HolderInv /\ TypeOK
  BY DEF BothInv, HolderInv
<1>3. timeouts' \in Nat /\ timeouts' # 0 /\ {begun', timeouts', writeErrors', drops'} \subseteq Nat
  BY <1>1, <1>2 DEF TypeOK
<1>4. answers' \in Seq(Nat) /\ result' \in Seq(Nat) /\ Len(result') = Len(result)
  BY <1>1, <1>2 DEF TypeOK
<1>5. HolderInv'
  BY <1>1, <1>2, <1>3, <1>4, GiveUpHolder
<1> QED
  BY <1>3, <1>5 DEF BothInv, QuietInv

\* The store answers: the answer is under way as its request was.
LEMMA AnswerBoth ==
  ASSUME BothInv, Answer
  PROVE  BothInv'
<1>1. /\ requests # <<>> /\ answers' = Append(answers, Head(requests))
      /\ requests' = Tail(requests)
      /\ UNCHANGED <<mutex, phase, call, reading, opcode, result>>
      /\ UNCHANGED <<begun, timeouts, writeErrors, drops>>
  BY DEF Answer, faults
<1>2. TypeOK /\ requests \in Seq(Nat) /\ answers \in Seq(Nat)
  BY DEF BothInv, HolderInv, TypeOK
<1>3. requests' \in Seq(Nat) /\ answers' \in Seq(Nat)
  <2>1. Head(requests) \in Nat /\ Tail(requests) \in Seq(Nat)
    BY <1>1, <1>2, HeadTail
  <2> QED
    BY <1>1, <1>2, <2>1
<1>4. UnderWay' = UnderWay
  BY <1>1, <1>2, AnswerMoves, Zenon DEF UnderWay
<1>5. Waiting' = Waiting /\ Written' = Written
  BY <1>1 DEF Waiting, Written
<1>6. TypeOK'
  BY <1>1, <1>2, <1>3, <1>5 DEF TypeOK
<1>7. HolderInv'
  BY <1>1, <1>5, <1>6 DEF BothInv, HolderInv
<1>8. QuietInv'
  BY <1>1, <1>4, <1>5 DEF BothInv, QuietInv, AnswerIsMine
<1> QED
  BY <1>7, <1>8 DEF BothInv

\* The store throws a request away; from then on an answer is missing.
LEMMA DropBoth ==
  ASSUME BothInv, Drop
  PROVE  BothInv'
<1>1. /\ requests # <<>> /\ requests' = Tail(requests) /\ drops' = drops + 1
      /\ UNCHANGED <<mutex, phase, call, reading, opcode, answers, result>>
      /\ UNCHANGED <<begun, timeouts, writeErrors>>
  BY DEF Drop
<1>2. TypeOK /\ requests \in Seq(Nat) /\ drops \in Nat
  BY DEF BothInv, HolderInv, TypeOK
<1>3. requests' \in Seq(Nat) /\ drops' \in Nat /\ drops' # 0
  BY <1>1, <1>2, HeadTail
<1>4. TypeOK'
  BY <1>1, <1>2, <1>3 DEF TypeOK, Written
<1>5. HolderInv'
  BY <1>1, <1>4 DEF BothInv, HolderInv, Written
<1> QED
  BY <1>3, <1>5 DEF BothInv, QuietInv

\* Every step keeps the invariant, whichever calls the callers make.
LEMMA NextBothInv == BothInv /\ [Next]_vars => BothInv'
<1> SUFFICES ASSUME BothInv, [Next]_vars PROVE BothInv'
  OBVIOUS
<1>1. CASE UNCHANGED vars
  <2>1. UNCHANGED <<opcode, requests, answers, result, timeouts, drops, reading>> /\ phase' = phase
    BY <1>1 DEF vars, faults
  <2>2. QuietInv'
    BY <2>1, QuietKept DEF BothInv
  <2>3. TypeOK'
    BY <1>1 DEF vars, faults, BothInv, HolderInv, TypeOK, Written
  <2>4. HolderInv'
    BY <1>1, <2>3 DEF vars, BothInv, HolderInv, Written
  <2> QED
    BY <2>2, <2>4 DEF BothInv
<1>2. ASSUME NEW c \in Callers, Begin(c) \/ Lock(c) \/ WriteError(c)
      PROVE  BothInv'
  BY <1>2, EarlySteps
<1>3. ASSUME NEW c \in Callers, Write(c) \/ Read(c) \/ ReadTimeout(c)
      PROVE  BothInv'
  BY <1>3, WriteBoth, ReadBoth, ReadTimeoutBoth
<1> QED
  BY <1>1, <1>2, <1>3, AnswerBoth, DropBoth DEF Next

\* The state of a connection has its types whoever uses it, with Send or SendBulk
\* (network.go 208-347); a result is kept for every operation written.
THEOREM ConnectionTypes == Spec => []TypeOK
<1>1. BothInv => TypeOK
  BY DEF BothInv, HolderInv
<1> QED
  BY <1>1, InitBothInv, NextBothInv, PTL DEF Spec

\* While no read has timed out and the store has thrown nothing away, a free
\* connection is silent and what is under way belongs to the call that reads (Send and
\* SendBulk read all their answers before they give the lock back, network.go 214-347).
THEOREM SilentUnlessFault == Spec => []SilentWhenFree
<1>1. BothInv => SilentWhenFree
  <2> SUFFICES ASSUME BothInv, timeouts = 0, drops = 0
               PROVE  /\ mutex = NoCaller => answers \o requests = <<>>
                      /\ \A c \in Callers : phase[c] = "reading" =>
                           answers \o requests =
                             [k \in 1..Len(answers \o requests) |-> reading[c] + k - 1]
    BY DEF SilentWhenFree
  <2>1. mutex = NoCaller => ~Waiting
    BY CallerAssumption DEF BothInv, HolderInv, Waiting
  <2>2. ASSUME NEW c \in Callers, phase[c] = "reading"
        PROVE  answers \o requests = [k \in 1..Len(answers \o requests) |-> reading[c] + k - 1]
    <3> DEFINE u == answers \o requests
    <3>1. \A k \in 1..Len(u) : u[k] = reading[c] + k - 1
      BY <2>2 DEF BothInv, QuietInv, UnderWay
    <3>2. u \in Seq(Nat)
      <4>1. answers \in Seq(Nat) /\ requests \in Seq(Nat)
        BY DEF BothInv, HolderInv, TypeOK
      <4> QED
        BY <4>1, PutTogether, Zenon
    <3> HIDE DEF u
    <3>3. u = [k \in 1..Len(u) |-> u[k]]
      BY <3>2
    <3>4. u = [k \in 1..Len(u) |-> reading[c] + k - 1]
      BY <3>1, <3>3
    <3> QED
      BY <3>4 DEF u
  <2>3. ~Waiting => answers \o requests = <<>>
    BY DEF BothInv, QuietInv, UnderWay
  <2> QED
    BY <2>1, <2>2, <2>3
<1> QED
  BY <1>1, InitBothInv, NextBothInv, PTL DEF Spec

\* While no read has timed out and the store has thrown nothing away, every
\* operation is given its own answer, those of a bulk included (SendBulk 331-347 reads
\* the answers in the order of the requests).
THEOREM BulkAnswers == Spec => [](timeouts = 0 /\ drops = 0 => AnswerIsMine)
<1>1. BothInv => (timeouts = 0 /\ drops = 0 => AnswerIsMine)
  BY DEF BothInv, QuietInv
<1> QED
  BY <1>1, InitBothInv, NextBothInv, PTL DEF Spec

-----------------------------------------------------------------------------
(* Part three: how far behind or ahead of its operation an answer can be when *)
(* the callers use SendBulk too.                                             *)

\* A stream u of what is still to be taken from a connection: w operations were
\* written, n answers were taken, d requests thrown away.  The k-th answer under
\* way is that of the operation n + k, or of one up to d further on.
Placed(u, n, w, d) ==
  /\ Len(u) = w - n - d
  /\ \A k \in 1..Len(u) : n + k <= u[k] /\ u[k] <= n + k + d

LagWithDrops ==
  \A i \in 1..Written : result[i] # 0 => result[i] <= i + drops /\ i - result[i] <= timeouts

\* The lock can be had, or has been taken and nothing written yet.
Usable == mutex = NoCaller \/ \E c \in Callers : phase[c] = "writing"

\* Every operation before the one read for has taken an answer or cost a timeout; on
\* a connection that can be used that holds of all operations written.  A Send reads
\* for the operation written last.  A connection left locked stays as it is.
LagInv ==
  /\ LagWithDrops
  /\ \A c \in Callers : phase[c] = "reading" =>
       /\ Placed(UnderWay, reading[c] - 1 - timeouts, Written, drops)
       /\ UnlocksOnError(c) => reading[c] = Written
  /\ Usable => Placed(UnderWay, Written - timeouts, Written, drops)

AllInv == BothInv /\ LagInv

\* The first answer is taken.
LEMMA PlacedTaken ==
  ASSUME NEW u \in Seq(Nat), NEW v \in Seq(Nat), NEW n \in Int, NEW w \in Nat, NEW d \in Nat,
         Placed(u, n, w, d), Len(v) = Len(u) - 1,
         \A i \in 1..Len(v) : v[i] = u[i + 1]
  PROVE  Placed(v, n + 1, w, d)
<1>1. Len(u) \in Nat /\ Len(v) \in Nat
  OBVIOUS
<1>2. Len(u) = w - n - d /\ \A k \in 1..Len(u) : n + k <= u[k] /\ u[k] <= n + k + d
  BY DEF Placed
<1>3. Len(v) = w - (n + 1) - d
  BY <1>1, <1>2
<1>4. ASSUME NEW k \in 1..Len(v)
      PROVE  (n + 1) + k <= v[k] /\ v[k] <= (n + 1) + k + d
  <2>1. k + 1 \in 1..Len(u) /\ k \in Nat
    BY <1>1
  <2>2. n + (k + 1) <= u[k + 1] /\ u[k + 1] <= n + (k + 1) + d
    BY <1>2, <2>1
  <2>3. u[k + 1] \in Nat /\ v[k] = u[k + 1]
    BY <2>1
  <2> QED
    BY <2>1, <2>2, <2>3
<1> QED
  BY <1>3, <1>4 DEF Placed

\* One under way is thrown away.
LEMMA PlacedDropped ==
  ASSUME NEW u \in Seq(Nat), NEW v \in Seq(Nat), NEW n \in Int, NEW w \in Nat, NEW d \in Nat,
         Placed(u, n, w, d), Len(v) = Len(u) - 1,
         \A i \in 1..Len(v) : v[i] = u[i] \/ v[i] = u[i + 1]
  PROVE  Placed(v, n, w, d + 1)
<1>1. Len(u) \in Nat /\ Len(v) \in Nat /\ \A k \in 1..Len(u) : u[k] \in Nat
  OBVIOUS
<1>2. Len(u) = w - n - d /\ \A k \in 1..Len(u) : n + k <= u[k] /\ u[k] <= n + k + d
  BY DEF Placed
<1>3. Len(v) = w - n - (d + 1)
  BY <1>1, <1>2
<1>4. ASSUME NEW k \in 1..Len(v)
      PROVE  n + k <= v[k] /\ v[k] <= n + k + (d + 1)
  <2>1. k + 1 \in 1..Len(u) /\ k \in 1..Len(u) /\ k \in Nat
    BY <1>1
  <2>2. /\ n + (k + 1) <= u[k + 1] /\ u[k + 1] <= n + (k + 1) + d
        /\ n + k <= u[k] /\ u[k] <= n + k + d
    BY <1>2, <2>1
  <2>3. u[k + 1] \in Nat /\ u[k] \in Nat
    BY <1>1, <2>1
  <2>4. CASE v[k] = u[k]
    BY <2>1, <2>2, <2>3, <2>4
  <2>5. CASE v[k] = u[k + 1]
    BY <2>1, <2>2, <2>3, <2>5
  <2> QED
    BY <2>4, <2>5
<1> QED
  BY <1>3, <1>4 DEF Placed

\* The requests of a call are written behind what is under way.
LEMMA PlacedWritten ==
  ASSUME NEW u \in Seq(Nat), NEW t \in Seq(Nat), NEW n \in Int, NEW w \in Nat, NEW d \in Nat,
         Placed(u, n, w, d), \A i \in 1..Len(t) : t[i] = w + i
  PROVE  Placed(u \o t, n, w + Len(t), d)
<1> DEFINE x == u \o t
<1>1. x \in Seq(Nat) /\ Len(x) = Len(u) + Len(t) /\ Len(u) \in Nat /\ Len(t) \in Nat
  BY PutTogether, Zenon
<1>2. \A i \in 1..Len(u) : x[i] = u[i]
  BY LeftPart, Zenon
<1>3. \A i \in 1..Len(t) : x[Len(u) + i] = t[i]
  BY RightPart, Zenon
<1> HIDE DEF x
<1>4. Len(u) = w - n - d /\ \A k \in 1..Len(u) : n + k <= u[k] /\ u[k] <= n + k + d
  BY DEF Placed
<1>5. Len(x) = (w + Len(t)) - n - d
  BY <1>1, <1>4
<1>6. ASSUME NEW k \in 1..Len(x)
      PROVE  n + k <= x[k] /\ x[k] <= n + k + d
  <2>1. CASE k \in 1..Len(u)
    BY <1>2, <1>4, <2>1
  <2>2. CASE k \notin 1..Len(u)
    <3> DEFINE i == k - Len(u)
    <3>1. i \in 1..Len(t) /\ k = Len(u) + i
      BY <1>1, <2>2
    <3> HIDE DEF i
    <3>2. x[k] = w + i
      BY <1>3, <3>1
    <3> QED
      BY <1>1, <1>4, <3>1, <3>2
  <2> QED
    BY <2>1, <2>2
<1> QED
  BY <1>5, <1>6 DEF Placed, x

\* A request that is thrown away leaves a gap behind the answers.
LEMMA ThrownAway ==
  ASSUME NEW S, NEW s \in Seq(S), NEW t \in Seq(S), t # <<>>
  PROVE  /\ s \o Tail(t) \in Seq(S) /\ Len(s \o Tail(t)) = Len(s \o t) - 1
         /\ \A i \in 1..Len(s \o Tail(t)) :
              (s \o Tail(t))[i] = (s \o t)[i] \/ (s \o Tail(t))[i] = (s \o t)[i + 1]
<1> DEFINE r == Tail(t)
<1>1. /\ Len(t) \in Nat /\ Len(t) > 0
      /\ r \in Seq(S) /\ Len(r) = Len(t) - 1
      /\ \A i \in 1..Len(r) : r[i] = t[i + 1]
  BY HeadTail
<1> HIDE DEF r
<1> DEFINE x == s \o t  y == s \o r
<1>2. /\ Len(x) = Len(s) + Len(t) /\ Len(s) \in Nat
      /\ \A i \in 1..Len(s) : x[i] = s[i]
      /\ \A i \in 1..Len(t) : x[Len(s) + i] = t[i]
  <2>1. s \in Seq(S) /\ t \in Seq(S)
    OBVIOUS
  <2>2. x \in Seq(S) /\ Len(x) = Len(s) + Len(t) /\ Len(s) \in Nat /\ Len(t) \in Nat
    BY <2>1, PutTogether, Zenon
  <2>3. \A i \in 1..Len(s) : x[i] = s[i]
    BY <2>1, LeftPart, Zenon
  <2>4. \A i \in 1..Len(t) : x[Len(s) + i] = t[i]
    BY <2>1, RightPart, Zenon
  <2> QED
    BY <2>2, <2>3, <2>4
<1>3. /\ y \in Seq(S) /\ Len(y) = Len(s) + Len(r)
      /\ \A i \in 1..Len(s) : y[i] = s[i]
      /\ \A i \in 1..Len(r) : y[Len(s) + i] = r[i]
  <2>1. s \in Seq(S) /\ r \in Seq(S)
    BY <1>1
  <2>2. y \in Seq(S) /\ Len(y) = Len(s) + Len(r) /\ Len(s) \in Nat /\ Len(r) \in Nat
    BY <2>1, PutTogether, Zenon
  <2>3. \A i \in 1..Len(s) : y[i] = s[i]
    BY <2>1, LeftPart, Zenon
  <2>4. \A i \in 1..Len(r) : y[Len(s) + i] = r[i]
    BY <2>1, RightPart, Zenon
  <2> QED
    BY <2>2, <2>3, <2>4
<1> HIDE DEF x, y
<1>4. ASSUME NEW i \in 1..Len(y) PROVE y[i] = x[i] \/ y[i] = x[i + 1]
  <2>1. CASE i \in 1..Len(s)
    BY <1>2, <1>3, <2>1
  <2>2. CASE i \notin 1..Len(s)
    <3> DEFINE j == i - Len(s)
    <3>1. j \in 1..Len(r) /\ j + 1 \in 1..Len(t) /\ i = Len(s) + j /\ i + 1 = Len(s) + (j + 1)
      BY <1>1, <1>2, <1>3, <2>2
    <3> HIDE DEF j
    <3>2. y[i] = r[j] /\ x[i + 1] = t[j + 1]
      BY <1>2, <1>3, <3>1
    <3> QED
      BY <1>1, <3>1, <3>2
  <2> QED
    BY <2>1, <2>2
<1>5. Len(y) = Len(x) - 1
  BY <1>1, <1>2, <1>3
<1> QED
  BY <1>3, <1>4, <1>5 DEF x, y, r

\* Three sequences put together, in either way.
LEMMA ThreeParts ==
  ASSUME NEW S, NEW a \in Seq(S), NEW b \in Seq(S), NEW c \in Seq(S)
  PROVE  a \o (b \o c) = (a \o b) \o c
OBVIOUS

\* A Send asks for one operation.
LEMMA SendSize ==
  ASSUME HolderInv, NEW c \in Callers, UnlocksOnError(c)
  PROVE  call[c].size = 1
<1>1. call[c] \in Calls
  BY DEF HolderInv, TypeOK
<1>2. ~call[c].bulk
  BY DEF UnlocksOnError
<1>3. ASSUME call[c] \in [bulk : {TRUE}, opcode : OpCodes, size : {BulkSize}] PROVE FALSE
  <2>1. call[c].bulk = TRUE
    BY <1>3
  <2> QED
    BY <1>2, <2>1
<1>4. call[c] \in [bulk : {FALSE}, opcode : OpCodes, size : {1}]
  <2>1. \/ call[c] \in [bulk : {FALSE}, opcode : OpCodes, size : {1}]
        \/ call[c] \in [bulk : {TRUE}, opcode : OpCodes, size : {BulkSize}]
    BY <1>1 DEF Calls
  <2> QED
    BY <1>3, <2>1, Zenon
<1> QED
  BY <1>4

\* The types of what the lag is about.
LEMMA LagTypes ==
  ASSUME HolderInv
  PROVE  /\ Written \in Nat /\ drops \in Nat /\ timeouts \in Nat
         /\ answers \in Seq(Nat) /\ requests \in Seq(Nat) /\ UnderWay \in Seq(Nat)
         /\ result \in Seq(Nat) /\ Len(result) = Written
         /\ phase \in [Callers -> Phases] /\ reading \in [Callers -> Nat]
<1>1. answers \in Seq(Nat) /\ requests \in Seq(Nat)
  BY DEF HolderInv, TypeOK
<1>2. UnderWay \in Seq(Nat)
  BY <1>1, PutTogether, Zenon DEF UnderWay
<1>3. Written \in Nat
  BY DEF HolderInv, TypeOK, Written
<1> QED
  BY <1>1, <1>2, <1>3 DEF HolderInv, TypeOK

\* At the start nothing has been written.
LEMMA InitLagInv == Init => LagInv
<1> SUFFICES ASSUME Init PROVE LagInv
  OBVIOUS
<1>1. Written = 0 /\ drops = 0 /\ timeouts = 0
  BY DEF Init, Written
<1>2. UnderWay = <<>>
  <2>1. <<>> \o <<>> = <<>>
    OBVIOUS
  <2> QED
    BY <2>1 DEF Init, UnderWay
<1>3. Placed(UnderWay, Written - timeouts, Written, drops)
  BY <1>1, <1>2 DEF Placed
<1>4. LagWithDrops
  BY <1>1 DEF LagWithDrops
<1>5. \A c \in Callers : phase[c] # "reading"
  BY DEF Init
<1> QED
  BY <1>3, <1>4, <1>5 DEF LagInv

\* A call begins, takes the lock, or fails to write: nothing is written or read.
LEMMA EarlyLag ==
  ASSUME HolderInv, LagInv, NEW c \in Callers, Begin(c) \/ Lock(c) \/ WriteError(c)
  PROVE  LagInv'
<1>1. /\ UNCHANGED <<opcode, requests, answers, result, timeouts, drops, reading>>
      /\ phase[c] # "reading"
      /\ \E p \in {"idle", "locking", "writing"} : phase' = [phase EXCEPT ![c] = p]
      /\ \A d \in Callers : d # c => call'[d] = call[d]
  <2>1. call' = call \/ \E k \in Calls : call' = [call EXCEPT ![c] = k]
    BY DEF Begin, Lock, WriteError
  <2>2. \A d \in Callers : d # c => call'[d] = call[d]
    BY <2>1 DEF HolderInv, TypeOK
  <2> QED
    BY <2>2 DEF Begin, Lock, WriteError, faults
<1>2. Written' = Written /\ UnderWay' = UnderWay
  BY <1>1 DEF Written, UnderWay
<1>3. LagWithDrops'
  BY <1>1, <1>2 DEF LagInv, LagWithDrops
<1>4. ASSUME NEW d \in Callers, phase'[d] = "reading"
      PROVE  /\ Placed(UnderWay, reading[d] - 1 - timeouts, Written, drops)
             /\ UnlocksOnError(d)' => reading[d] = Written
  <2>1. d # c /\ phase[d] = "reading"
    BY <1>1, <1>4, LagTypes
  <2>2. call'[d] = call[d]
    BY <1>1, <2>1
  <2> QED
    BY <2>1, <2>2 DEF LagInv, UnlocksOnError
<1>5. Usable' => Usable
  <2>1. CASE Lock(c)
    BY <2>1 DEF Lock, MutexFree, Usable
  <2>2. CASE Begin(c) \/ WriteError(c)
    <3>1. mutex' = mutex /\ \E p \in {"idle", "locking"} : phase' = [phase EXCEPT ![c] = p]
      BY <2>2 DEF Begin, WriteError
    <3>2. \A d \in Callers : phase'[d] = "writing" => phase[d] = "writing"
      BY <3>1, LagTypes
    <3> QED
      BY <3>1, <3>2 DEF Usable
  <2> QED
    BY <2>1, <2>2
<1>6. Usable' => Placed(UnderWay, Written - timeouts, Written, drops)
  BY <1>5 DEF LagInv
<1> QED
  BY <1>1, <1>2, <1>3, <1>4, <1>6 DEF LagInv

\* A call writes behind what is under way; it reads for its first operation.
LEMMA WriteLag ==
  ASSUME HolderInv, LagInv, NEW c \in Callers, Write(c)
  PROVE  LagInv'
<1> DEFINE n == call[c].size
           ids == [i \in 1..n |-> Written + i]
           none == [i \in 1..n |-> 0]
           ops == [i \in 1..n |-> call[c].opcode]
<1>1. /\ phase[c] = "writing" /\ opcode' = opcode \o ops /\ requests' = requests \o ids
      /\ result' = result \o none
      /\ reading' = [reading EXCEPT ![c] = Written + 1]
      /\ phase' = [phase EXCEPT ![c] = "reading"]
      /\ UNCHANGED <<mutex, call, answers, timeouts, drops>>
  BY DEF Write, Unanswered, faults
<1>2. /\ Written \in Nat /\ drops \in Nat /\ timeouts \in Nat
      /\ answers \in Seq(Nat) /\ requests \in Seq(Nat) /\ UnderWay \in Seq(Nat)
      /\ result \in Seq(Nat) /\ Len(result) = Written
      /\ phase \in [Callers -> Phases] /\ reading \in [Callers -> Nat]
  BY LagTypes, Zenon
<1>3. call[c] \in Calls /\ opcode \in Seq(OpCodes)
  BY DEF HolderInv, TypeOK
<1>4. n \in Nat /\ n >= 1 /\ call[c].opcode \in OpCodes /\ (UnlocksOnError(c) => n = 1)
  <2>1. UnlocksOnError(c) => n = 1
    BY SendSize, Zenon
  <2> QED
    BY <1>3, <2>1, CallTypes
<1> HIDE DEF n
<1>5. /\ ids \in Seq(Nat) /\ Len(ids) = n /\ \A i \in 1..n : ids[i] = Written + i
      /\ none \in Seq(Nat) /\ Len(none) = n /\ \A i \in 1..n : none[i] = 0
      /\ ops \in Seq(OpCodes) /\ Len(ops) = n
  BY <1>2, <1>4
<1> HIDE DEF ids, none, ops
<1>6. Written' = Written + n
  <2>1. Len(opcode \o ops) = Len(opcode) + Len(ops)
    BY <1>3, <1>5, PutTogether, Zenon
  <2> QED
    BY <1>1, <1>5, <2>1 DEF Written
<1>7. /\ \A i \in 1..Written : result'[i] = result[i]
      /\ \A i \in 1..n : result'[Written + i] = 0
  <2>1. /\ result \in Seq(Nat) /\ Len(result) = Written /\ none \in Seq(Nat)
        /\ Len(none) = n /\ result' = result \o none
    BY <1>1, <1>2, <1>5
  <2>2. \A i \in 1..Len(result) : result'[i] = result[i]
    BY <2>1, LeftPart, Zenon
  <2>3. \A i \in 1..Len(none) : result'[Len(result) + i] = none[i]
    BY <2>1, RightPart, Zenon
  <2> QED
    BY <1>5, <2>1, <2>2, <2>3
<1>8. LagWithDrops'
  <2> SUFFICES ASSUME NEW i \in 1..(Written + n), result'[i] # 0
               PROVE  result'[i] <= i + drops /\ i - result'[i] <= timeouts
    BY <1>1, <1>6 DEF LagWithDrops
  <2>1. i \in 1..Written
    <3> SUFFICES ASSUME i \notin 1..Written PROVE FALSE
      OBVIOUS
    <3>1. i - Written \in 1..n /\ Written + (i - Written) = i
      BY <1>2, <1>4
    <3> QED
      BY <1>7, <3>1
  <2> QED
    BY <1>7, <2>1 DEF LagInv, LagWithDrops
<1>9. UnderWay' = UnderWay \o ids
  <2>1. answers \in Seq(Nat) /\ requests \in Seq(Nat) /\ ids \in Seq(Nat)
    BY <1>2, <1>5
  <2>2. answers \o (requests \o ids) = (answers \o requests) \o ids
    BY <2>1, ThreeParts
  <2> QED
    BY <1>1, <2>2 DEF UnderWay
<1>10. Usable /\ Placed(UnderWay, Written - timeouts, Written, drops)
  BY <1>1 DEF Usable, LagInv
<1>11. Placed(UnderWay', Written - timeouts, Written + n, drops)
  <2>1. Written - timeouts \in Int /\ \A i \in 1..Len(ids) : ids[i] = Written + i
    BY <1>2, <1>5
  <2>2. Placed(UnderWay \o ids, Written - timeouts, Written + Len(ids), drops)
    BY <1>2, <1>5, <1>10, <2>1, PlacedWritten, ZenonT(30)
  <2> QED
    BY <1>5, <1>9, <2>2
<1>12. \A d \in Callers : phase'[d] \in {"writing", "reading"} => d = c
  <2>1. \A d \in Callers : phase[d] \in {"writing", "reading"} => mutex = d
    BY DEF HolderInv
  <2> QED
    BY <1>1, <1>2, <2>1
<1>13. phase'[c] = "reading" /\ reading'[c] = Written + 1
  BY <1>1, <1>2
<1>14. (UnlocksOnError(c)' <=> UnlocksOnError(c))
  BY <1>1 DEF UnlocksOnError
<1>15. ASSUME NEW d \in Callers, phase'[d] = "reading"
       PROVE  /\ Placed(UnderWay', reading'[d] - 1 - timeouts, Written + n, drops)
              /\ UnlocksOnError(d)' => reading'[d] = Written + n
  <2>1. d = c
    BY <1>12, <1>15
  <2>2. reading'[d] - 1 - timeouts = Written - timeouts
    BY <1>2, <1>13, <2>1
  <2>3. UnlocksOnError(d)' => reading'[d] = Written + n
    BY <1>4, <1>13, <1>14, <2>1
  <2> QED
    BY <1>11, <2>2, <2>3
<1>16. ~Usable'
  <2>1. mutex = c
    BY <1>1 DEF HolderInv
  <2>2. \A d \in Callers : phase'[d] # "writing"
    BY <1>12, <1>13
  <2> QED
    BY <1>1, <2>1, <2>2, CallerAssumption DEF Usable
<1> QED
  BY <1>1, <1>6, <1>8, <1>15, <1>16 DEF LagInv

\* A call that gives up: a Send gives the lock back, and all operations written have
\* then been read for; a SendBulk keeps the lock, and nothing more is read.
LEMMA GiveUpLag ==
  ASSUME HolderInv, NEW c \in Callers, phase[c] = "reading", ReturnError(c), call' = call,
         opcode' = opcode, LagWithDrops',
         UnlocksOnError(c) => Placed(UnderWay', Written' - timeouts', Written', drops')
  PROVE  LagInv'
<1>1. phase' = [phase EXCEPT ![c] = "idle"]
  BY DEF ReturnError
<1>2. mutex = c /\ \A d \in Callers : phase[d] \in {"writing", "reading"} => mutex = d
  BY DEF HolderInv
<1>3. \A d \in Callers : phase'[d] \notin {"writing", "reading"}
  BY <1>1, <1>2, LagTypes
<1>4. Usable' => UnlocksOnError(c)
  BY <1>2, <1>3, CallerAssumption DEF Usable, ReturnError
<1> QED
  BY <1>3, <1>4 DEF LagInv

\* An answer is taken, whatever operation it answers: the first one under way, so it
\* answers the operation read for but for the timeouts behind and the losses ahead.
LEMMA ReadLag ==
  ASSUME HolderInv, LagInv, NEW c \in Callers, Read(c)
  PROVE  LagInv'
<1> DEFINE a == Head(answers)  i == reading[c]  u == answers \o requests
           v == Tail(answers) \o requests  n == reading[c] - 1 - timeouts
<1>1. /\ phase[c] = "reading" /\ answers # <<>> /\ answers' = Tail(answers)
      /\ UNCHANGED <<call, opcode, requests, timeouts, drops>>
      /\ Written' = Written
  BY DEF Read, faults, Written
<1>2. /\ Written \in Nat /\ drops \in Nat /\ timeouts \in Nat
      /\ answers \in Seq(Nat) /\ requests \in Seq(Nat)
      /\ result \in Seq(Nat) /\ Len(result) = Written
      /\ phase \in [Callers -> Phases] /\ reading \in [Callers -> Nat]
  BY LagTypes, Zenon
<1>3. i \in 1..Written /\ mutex = c
  BY <1>1 DEF HolderInv
<1>4. Tail(answers) \in Seq(Nat) /\ a \in Nat
  BY <1>1, <1>2, HeadTail
<1>5. u \in Seq(Nat) /\ v \in Seq(Nat)
  BY <1>2, <1>4, PutTogether, Zenon
<1>6. /\ Len(u) \in Nat /\ Len(u) > 0 /\ u[1] = a /\ Len(v) = Len(u) - 1
      /\ \A k \in 1..Len(v) : v[k] = u[k + 1]
  <2>1. answers \in Seq(Nat) /\ requests \in Seq(Nat) /\ answers # <<>>
    BY <1>1, <1>2
  <2> QED
    BY <2>1, TakenFirst, ZenonT(30)
<1>7. UnderWay = u /\ UnderWay' = v
  BY <1>1 DEF UnderWay
<1>8. n \in Int /\ n = i - 1 - timeouts
  BY <1>2, <1>3
<1>9. Placed(u, n, Written, drops) /\ (UnlocksOnError(c) => i = Written)
  BY <1>1, <1>7 DEF LagInv
<1> HIDE DEF a, u, v, n, i
<1>10. Placed(v, n + 1, Written, drops)
  BY <1>2, <1>5, <1>6, <1>8, <1>9, PlacedTaken
<1>11. a <= i + drops /\ i - a <= timeouts
  <2>1. 1 \in 1..Len(u)
    BY <1>6
  <2>2. n + 1 <= u[1] /\ u[1] <= n + 1 + drops
    BY <1>9, <2>1 DEF Placed
  <2> QED
    BY <1>2, <1>3, <1>4, <1>6, <1>8, <2>2
<1>12. n + 1 = i - timeouts
  BY <1>2, <1>3, <1>8
<1>13. CASE ~Accepts(a, i)
  <2>1. ReturnError(c)
    BY <1>13 DEF Read, a, i
  <2>2. LagWithDrops'
    <3>1. result' = result
      BY <2>1 DEF ReturnError
    <3> QED
      BY <1>1, <3>1 DEF LagInv, LagWithDrops
  <2>3. UnlocksOnError(c) => Placed(UnderWay', Written' - timeouts', Written', drops')
    BY <1>1, <1>7, <1>9, <1>10, <1>12
  <2> QED
    BY <1>1, <2>1, <2>2, <2>3, GiveUpLag
<1>14. CASE Accepts(a, i)
  <2>1. result' = [result EXCEPT ![i] = a]
    BY <1>14 DEF Read, a, i
  <2>2. LagWithDrops'
    <3> SUFFICES ASSUME NEW j \in 1..Written, result'[j] # 0
                 PROVE  result'[j] <= j + drops /\ j - result'[j] <= timeouts
      BY <1>1 DEF LagWithDrops
    <3>1. result'[j] = IF j = i THEN a ELSE result[j]
      BY <1>2, <2>1
    <3> QED
      BY <1>11, <3>1 DEF LagInv, LagWithDrops
  <2>3. \A d \in Callers : phase[d] \in {"writing", "reading"} => d = c
    BY <1>3 DEF HolderInv
  <2>4. CASE i = LastOp
    <3>1. phase' = [phase EXCEPT ![c] = "idle"]
      BY <1>14, <2>4 DEF Read, a, i
    <3>2. \A d \in Callers : phase'[d] # "reading"
      BY <1>2, <2>3, <3>1
    <3>3. Placed(UnderWay', Written - timeouts, Written, drops)
      BY <1>7, <1>10, <1>12, <2>4 DEF LastOp
    <3> QED
      BY <1>1, <2>2, <3>2, <3>3 DEF LagInv
  <2>5. CASE i # LastOp
    <3>1. reading' = [reading EXCEPT ![c] = i + 1] /\ UNCHANGED <<mutex, phase>>
      BY <1>14, <2>5 DEF Read, a, i
    <3>2. reading'[c] = i + 1
      BY <1>2, <3>1
    <3>3. ~Usable'
      <4>1. \A d \in Callers : phase[d] # "writing"
        BY <1>1, <2>3
      <4> QED
        BY <1>3, <3>1, <4>1, CallerAssumption DEF Usable
    <3>4. ASSUME NEW d \in Callers, phase'[d] = "reading"
          PROVE  /\ Placed(UnderWay', reading'[d] - 1 - timeouts, Written, drops)
                 /\ UnlocksOnError(d)' => reading'[d] = Written
      <4>1. d = c
        BY <2>3, <3>1, <3>4
      <4>2. reading'[d] - 1 - timeouts = n + 1
        BY <1>2, <1>3, <1>12, <3>2, <4>1
      <4>3. ~UnlocksOnError(c)
        BY <1>9, <2>5 DEF LastOp
      <4>4. ~UnlocksOnError(d)'
        BY <1>1, <4>1, <4>3 DEF UnlocksOnError
      <4> QED
        BY <1>7, <1>10, <4>2, <4>4
    <3> QED
      BY <1>1, <2>2, <3>3, <3>4 DEF LagInv
  <2> QED
    BY <2>4, <2>5
<1> QED
  BY <1>13, <1>14

\* A read that times out: the answer, if it comes, is one more behind.
LEMMA ReadTimeoutLag ==
  ASSUME HolderInv, LagInv, NEW c \in Callers, ReadTimeout(c)
  PROVE  LagInv'
<1>1. /\ phase[c] = "reading" /\ ReturnError(c) /\ timeouts' = timeouts + 1
      /\ UNCHANGED <<call, opcode, requests, answers, drops>>
      /\ result' = result
  BY DEF ReadTimeout, ReturnError
<1>2. Written' = Written /\ UnderWay' = UnderWay
  BY <1>1 DEF Written, UnderWay
<1>3. /\ Written \in Nat /\ drops \in Nat /\ timeouts \in Nat
      /\ result \in Seq(Nat) /\ Len(result) = Written
  BY LagTypes, Zenon
<1>4. LagWithDrops'
  <2> SUFFICES ASSUME NEW j \in 1..Written, result[j] # 0
               PROVE  result[j] <= j + drops /\ j - result[j] <= timeouts + 1
    BY <1>1, <1>2 DEF LagWithDrops
  <2>1. result[j] <= j + drops /\ j - result[j] <= timeouts /\ result[j] \in Nat
    BY <1>3 DEF LagInv, LagWithDrops
  <2> QED
    BY <1>3, <2>1
<1>5. ASSUME UnlocksOnError(c)
      PROVE  Placed(UnderWay', Written' - timeouts', Written', drops')
  <2>1. Placed(UnderWay, reading[c] - 1 - timeouts, Written, drops) /\ reading[c] = Written
    BY <1>1, <1>5 DEF LagInv
  <2>2. Written - 1 - timeouts = Written - (timeouts + 1)
    BY <1>3
  <2> QED
    BY <1>1, <1>2, <2>1, <2>2
<1> QED
  BY <1>1, <1>4, <1>5, GiveUpLag

\* The store answers: the answer is where its request was.
LEMMA AnswerLag ==
  ASSUME HolderInv, LagInv, Answer
  PROVE  LagInv'
<1>1. /\ requests # <<>> /\ answers' = Append(answers, Head(requests))
      /\ requests' = Tail(requests)
      /\ UNCHANGED <<mutex, phase, call, reading, opcode, result, timeouts, drops>>
  BY DEF Answer, faults
<1>2. answers \in Seq(Nat) /\ requests \in Seq(Nat)
  BY LagTypes, Zenon
<1>3. UnderWay' = UnderWay
  BY <1>1, <1>2, AnswerMoves, Zenon DEF UnderWay
<1> QED
  BY <1>1, <1>3 DEF LagInv, LagWithDrops, Usable, UnlocksOnError, Written

\* The store throws a request away: those behind it are one further on.
LEMMA DropLag ==
  ASSUME HolderInv, LagInv, Drop
  PROVE  LagInv'
<1> DEFINE u == answers \o requests  v == answers \o Tail(requests)
<1>1. /\ requests # <<>> /\ requests' = Tail(requests) /\ drops' = drops + 1
      /\ UNCHANGED <<mutex, phase, call, reading, opcode, answers, result, timeouts>>
  BY DEF Drop
<1>2. /\ Written \in Nat /\ drops \in Nat /\ timeouts \in Nat
      /\ answers \in Seq(Nat) /\ requests \in Seq(Nat)
      /\ result \in Seq(Nat) /\ Len(result) = Written /\ reading \in [Callers -> Nat]
  BY LagTypes, Zenon
<1>3. u \in Seq(Nat)
  BY <1>2, PutTogether, Zenon
<1>4. /\ v \in Seq(Nat) /\ Len(v) = Len(u) - 1
      /\ \A i \in 1..Len(v) : v[i] = u[i] \/ v[i] = u[i + 1]
  <2>1. answers \in Seq(Nat) /\ requests \in Seq(Nat) /\ requests # <<>>
    BY <1>1, <1>2
  <2> QED
    BY <2>1, ThrownAway, ZenonT(30)
<1>5. UnderWay = u /\ UnderWay' = v /\ Written' = Written
  BY <1>1 DEF UnderWay, Written
<1> HIDE DEF u, v
<1>6. ASSUME NEW n \in Int, Placed(u, n, Written, drops)
      PROVE  Placed(v, n, Written, drops')
  <2>1. Placed(v, n, Written, drops + 1)
    BY <1>2, <1>3, <1>4, <1>6, PlacedDropped
  <2> QED
    BY <1>1, <2>1
<1>7. LagWithDrops'
  <2> SUFFICES ASSUME NEW j \in 1..Written, result[j] # 0
               PROVE  result[j] <= j + (drops + 1) /\ j - result[j] <= timeouts
    BY <1>1, <1>5 DEF LagWithDrops
  <2>1. result[j] <= j + drops /\ j - result[j] <= timeouts /\ result[j] \in Nat
    BY <1>2 DEF LagInv, LagWithDrops
  <2> QED
    BY <1>2, <2>1
<1>8. ASSUME NEW d \in Callers, phase[d] = "reading"
      PROVE  /\ Placed(v, reading[d] - 1 - timeouts, Written, drops')
             /\ UnlocksOnError(d)' => reading[d] = Written
  <2>1. /\ Placed(u, reading[d] - 1 - timeouts, Written, drops)
        /\ UnlocksOnError(d) => reading[d] = Written
    BY <1>5, <1>8 DEF LagInv
  <2>2. reading[d] - 1 - timeouts \in Int
    BY <1>2
  <2> QED
    BY <1>1, <1>6, <2>1, <2>2 DEF UnlocksOnError
<1>9. Usable' => Placed(v, Written - timeouts, Written, drops')
  <2>1. Usable' => Usable
    BY <1>1 DEF Usable
  <2>2. Written - timeouts \in Int
    BY <1>2
  <2> QED
    BY <1>5, <1>6, <2>1, <2>2 DEF LagInv
<1> QED
  BY <1>1, <1>5, <1>7, <1>8, <1>9 DEF LagInv

\* Every step keeps where the answers are.
LEMMA NextAllInv == AllInv /\ [Next]_vars => AllInv'
<1> SUFFICES ASSUME AllInv, [Next]_vars PROVE AllInv'
  OBVIOUS
<1>1. BothInv'
  BY NextBothInv DEF AllInv
<1>2. HolderInv /\ LagInv
  BY DEF AllInv, BothInv
<1>3. CASE UNCHANGED vars
  <2>1. LagInv'
    BY <1>2, <1>3 DEF vars, faults, LagInv, LagWithDrops, Usable, UnlocksOnError, UnderWay, Written
  <2> QED
    BY <1>1, <2>1 DEF AllInv
<1>4. ASSUME NEW c \in Callers, Begin(c) \/ Lock(c) \/ WriteError(c) PROVE LagInv'
  BY <1>2, <1>4, EarlyLag
<1>5. ASSUME NEW c \in Callers, Write(c) \/ Read(c) \/ ReadTimeout(c) PROVE LagInv'
  BY <1>2, <1>5, WriteLag, ReadLag, ReadTimeoutLag
<1>6. CASE Answer \/ Drop
  <2>1. LagInv'
    BY <1>2, <1>6, AnswerLag, DropLag
  <2> QED
    BY <1>1, <2>1 DEF AllInv
<1> QED
  BY <1>1, <1>3, <1>4, <1>5, <1>6 DEF Next, AllInv

\* With Send and SendBulk on one connection an operation is given the answer of none
\* that is further back than reads timed out, nor further ahead than requests were
\* thrown away, and of none ahead when only Send is used (network.go 208-347: answers
\* are taken in the order they come in, a late one is taken by the next read, and a
\* SendBulk that gives up keeps the lock).
THEOREM LagIsBounded == Spec => []LagBounded
<1>1. CASE UseBulk
  <2>1. Init => AllInv
    BY InitBothInv, InitLagInv DEF AllInv
  <2>2. AllInv => LagBounded
    BY <1>1 DEF AllInv, LagInv, LagWithDrops, LagBounded
  <2> QED
    BY <2>1, <2>2, NextAllInv, PTL DEF Spec
<1>2. CASE ~UseBulk
  BY <1>2, SendLag
<1> QED
  BY <1>1, <1>2
=============================================================================

----------------------------- MODULE RequestSplit -----------------------------
(***************************************************************************)
(* The request splitter of a node (hw/src/muu/muu_requestsplit.v) and the   *)
(* three FIFOs behind it: it cuts the words that arrive from the network    *)
(* into a command (meta data), a key and the lines of a value.  A request   *)
(* that arrives while a FIFO is almost full is thrown away as a whole.      *)
(*                                                                         *)
(* One step is one clock cycle.  Requests are numbered as they arrive; a    *)
(* word of a value is <<request, position>>.  Requests are well formed:     *)
(* operations without a key carry no payload, and tlast is at the last word *)
(* the length field announces.  inready is left out: it is set in every     *)
(* state that takes words.                                                  *)
(***************************************************************************)
EXTENDS Integers, Sequences, SequencesExt

CONSTANTS
  Kinds,        \* the requests that are sent: [key : BOOLEAN, words : Nat]
  LineWords,    \* VALUE_WIDTH/64, words of a line
  FifoSlots,    \* entries at which a FIFO is almost full
  MaxRequests   \* bound: requests in a run

ASSUME KindAssumption ==
  \A k \in Kinds : k.key \in BOOLEAN /\ k.words \in Nat /\ (k.words > 0 => k.key)
ASSUME SizeAssumption ==
  /\ LineWords \in Nat \ {0}
  /\ FifoSlots \in Nat /\ FifoSlots >= 2
  /\ MaxRequests \in Nat

VARIABLES
  state,       \* state of the splitter
  sent,        \* the requests that have begun to arrive
  word,        \* words taken of the last of them
  left,        \* valleft, or throw_length_left
  pos,         \* partialpos: where the next value word goes in the line
  forceThrow,  \* force_throw
  meta, key,   \* output registers: the request whose part is valid, or 0
  line,        \* output register of the value
  metaFifo, keyFifo, valueFifo,
  accepted,    \* requests that were not thrown away
  lines        \* all lines that entered the value FIFO

registers == <<meta, key, line>>
fifos == <<metaFifo, keyFifo, valueFifo, lines>>
vars == <<state, sent, word, left, pos, forceThrow, registers, fifos, accepted>>

States == {"idle", "meta", "meta2", "key", "value", "dropFirst", "dropRest"}
Requests == 1..MaxRequests
Positions == 0..(LineWords - 1)
NoWord == <<0, 0>>
ClearLine == [valid |-> FALSE, last |-> FALSE, words |-> [p \in Positions |-> NoWord]]

Current == Len(sent)
Kind == sent[Current]
LoadLen(k) == (IF k.key THEN 1 ELSE 0) + k.words
Words(k) == LoadLen(k) + 2

-----------------------------------------------------------------------------
(* The FIFOs (nukv_fifogen): ready until almost full; what is offered when   *)
(* almost full is not written.                                              *)

Ready(fifo) == Len(fifo) < FifoSlots
OutReady == Ready(metaFifo) /\ Ready(keyFifo) /\ Ready(valueFifo)

Through(fifo, pop, push) == (IF pop THEN Tail(fifo) ELSE fifo) \o push

Fifos(popCommand, popLine) ==
  LET accept(fifo, valid, x) == IF valid /\ Ready(fifo) THEN <<x>> ELSE <<>>
      written == accept(valueFifo, line.valid, [last |-> line.last, words |-> line.words])
  IN
  /\ popCommand => metaFifo # <<>> /\ keyFifo # <<>>
  /\ popLine => valueFifo # <<>>
  /\ metaFifo' = Through(metaFifo, popCommand, accept(metaFifo, meta # 0, meta))
  /\ keyFifo' = Through(keyFifo, popCommand, accept(keyFifo, key # 0, key))
  /\ valueFifo' = Through(valueFifo, popLine, written)
  /\ lines' = lines \o written

\* The output registers after this clock edge if the state machine sets nothing.
MetaKept == IF Ready(metaFifo) THEN 0 ELSE meta
KeyKept == IF Ready(keyFifo) THEN 0 ELSE key
LineKept == IF line.valid /\ Ready(valueFifo)
            THEN [line EXCEPT !.valid = FALSE, !.last = FALSE] ELSE line
RegistersKept == meta' = MetaKept /\ key' = KeyKept /\ line' = LineKept

-----------------------------------------------------------------------------
(* The state machine.                                                       *)

\* readyfornew: a request may begin.
ReadyForNew == OutReady /\ Ready(valueFifo)

\* Mutated: words are taken whatever the FIFOs say.
TreadyUnchecked == TRUE
\* s_axis_tready outside ST_IDLE.
Tready == OutReady \/ forceThrow

\* Mutated: the request's header words are forgotten.
ThrowLengthShort(k) == LoadLen(k) - 1
\* The words to throw after the first, minus one.
ThrowLength(k) == LoadLen(k)

\* Mutated: only the keys that are in a request go out.
EmptyKeyNever(k) == FALSE
\* A command without payload goes out with an empty key.
EmptyKey(k) == LoadLen(k) = 0

\* Mutated: a line is complete one word too late.
LineFullLate(p) == p = LineWords
\* The word at p completes the line.
LineFull(p) == p = LineWords - 1

Wait == UNCHANGED <<state, sent, word, left, pos, forceThrow, accepted>> /\ RegistersKept

\* ST_IDLE: look at the first word of a request without taking it.
Idle ==
  /\ state = "idle" /\ Current < MaxRequests
  /\ \E k \in Kinds :
       /\ sent' = Append(sent, k)
       /\ IF ReadyForNew
          THEN /\ state' = "meta"
               /\ accepted' = Append(accepted, Current + 1)
               /\ UNCHANGED <<forceThrow, left>>
          ELSE /\ state' = "dropFirst"
               /\ forceThrow' = TRUE
               /\ left' = ThrowLength(k)
               /\ UNCHANGED accepted
  /\ word' = 0
  /\ RegistersKept
  /\ UNCHANGED pos

\* A word is offered and taken.
TakeWord ==
  /\ state # "idle" /\ Tready
  /\ word < Words(Kind) /\ word' = word + 1
  /\ UNCHANGED <<sent, forceThrow, accepted>>

Header ==
  /\ state \in {"meta", "dropFirst"} /\ TakeWord
  /\ state' = IF state = "meta" THEN "meta2" ELSE "dropRest"
  /\ RegistersKept
  /\ UNCHANGED <<left, pos>>

\* ST_META2: the command goes out.
Meta2 ==
  /\ state = "meta2" /\ TakeWord
  /\ meta' = Current
  /\ key' = IF EmptyKey(Kind) THEN Current ELSE KeyKept
  /\ state' = IF LoadLen(Kind) = 0 THEN "idle" ELSE "key"
  /\ line' = LineKept
  /\ UNCHANGED <<left, pos>>

Key ==
  /\ state = "key" /\ TakeWord
  /\ key' = Current
  /\ IF Kind.words > 0
     THEN state' = "value" /\ left' = Kind.words - 1 /\ pos' = 0
     ELSE state' = "idle" /\ UNCHANGED <<left, pos>>
  /\ meta' = MetaKept /\ line' = LineKept

\* ST_VALUE: the line goes out when it is full or the value ends.
Value ==
  /\ state = "value" /\ TakeWord
  /\ left' = left - 1
  /\ LET w == <<Current, Kind.words - left>>
         end == left = 0
         clear == IF pos = 0 THEN ClearLine.words ELSE line.words
     IN /\ line' = [valid |-> end \/ LineFull(pos) \/ LineKept.valid,
                    last |-> end \/ LineKept.last,
                    words |-> [clear EXCEPT ![pos] = w]]
        /\ state' = IF end THEN "idle" ELSE "value"
  /\ pos' = IF LineFull(pos) THEN 0 ELSE pos + 1
  /\ meta' = MetaKept /\ key' = KeyKept

DropRest ==
  /\ state = "dropRest" /\ TakeWord
  /\ left' = left - 1
  /\ state' = IF left = 0 THEN "idle" ELSE "dropRest"
  /\ RegistersKept
  /\ UNCHANGED pos

\* A clock edge: the FIFOs, and the state machine if a word is offered.
Cycle(offered, popCommand, popLine) ==
  /\ Fifos(popCommand, popLine)
  /\ \/ /\ offered
        /\ Idle \/ Header \/ Meta2 \/ Key \/ Value \/ DropRest
     \/ /\ ~offered \/ (state # "idle" /\ ~Tready)
        /\ Wait

-----------------------------------------------------------------------------
Init ==
  /\ state = "idle" /\ sent = <<>> /\ word = 0 /\ left = 0 /\ pos = 0
  /\ forceThrow = FALSE
  /\ meta = 0 /\ key = 0 /\ line = ClearLine
  /\ metaFifo = <<>> /\ keyFifo = <<>> /\ valueFifo = <<>>
  /\ accepted = <<>> /\ lines = <<>>

Next == \E offered, popCommand, popLine \in BOOLEAN : Cycle(offered, popCommand, popLine)

Spec == Init /\ [][Next]_vars

(* The clock runs, the network goes on with a request it has begun, and what *)
(* is behind the FIFOs takes what they offer.                               *)
Fairness ==
  /\ WF_vars(\E c, l \in BOOLEAN : Cycle(TRUE, c, l))
  /\ WF_vars(\E o, l \in BOOLEAN : Cycle(o, TRUE, l))
  /\ WF_vars(\E o, c \in BOOLEAN : Cycle(o, c, TRUE))

FairSpec == Spec /\ Fairness

-----------------------------------------------------------------------------
TypeOK ==
  /\ state \in States /\ sent \in Seq(Kinds) /\ Current <= MaxRequests
  /\ word \in Nat /\ left \in Int /\ pos \in Positions
  /\ forceThrow \in BOOLEAN
  /\ meta \in 0..MaxRequests /\ key \in 0..MaxRequests
  /\ metaFifo \in Seq(Requests) /\ keyFifo \in Seq(Requests) /\ accepted \in Seq(Requests)

\* The lines of a request's value, the last one marked.
Lines(r) ==
  LET n == sent[r].words
      count == (n + LineWords - 1) \div LineWords
  IN [i \in 1..count |->
       [last |-> i = count,
        words |-> [p \in Positions |->
                     LET w == (i - 1) * LineWords + p + 1 IN IF w <= n THEN <<r, w>> ELSE NoWord]]]

\* What enters the value FIFO is the values of the requests that were not thrown
\* away, in order and complete, when the splitter is done with them (ST_VALUE
\* 219-253 under the back-pressure of 84-95).
LinesIntact ==
  LET expected == FlattenSeq([i \in DOMAIN accepted |-> Lines(accepted[i])]) IN
  /\ IsPrefix(lines, expected)
  /\ state = "idle" /\ ~line.valid => lines = expected

\* The same as long as no request was thrown away: after the first one tready is
\* stuck at one (force_throw, 159, is never cleared).
IntactUntilThrown == ~forceThrow => LinesIntact

\* The command and the key that stand at the same place of their FIFOs, to be
\* taken together, are those of one request (top module 722-726), also after
\* requests were thrown away.
CommandsPaired ==
  \A i \in DOMAIN metaFifo \cap DOMAIN keyFifo : metaFifo[i] = keyFifo[i]

\* A request that has begun to arrive is taken to its end.
EveryRequestEnds == state # "idle" ~> state = "idle"
=============================================================================

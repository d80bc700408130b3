----------------------------- MODULE ParquetStore -----------------------------
(***************************************************************************)
(* Parquet files as arrays in the store                                    *)
(* (sw/multes_client_library_priv/parquet): the Divider cuts a file into    *)
(* values, the Processor keeps a cursor per column and caches what it has   *)
(* read of the array, and gives back rows in batches (GetRowBatch) or all    *)
(* columns at once, perturbed in groups of three (GetPerturbedRows).         *)
(*                                                                         *)
(* An entry is named <<file, column, row>>.  A call is one step: ArrayStore  *)
(* has the requests it makes.  Abstracted: the types of entries, compression *)
(* and dictionary pages, files that cannot be read, and the perturbation     *)
(* itself, which the node does to three consecutive values.                 *)
(***************************************************************************)
EXTENDS Integers, Sequences, SequencesExt, FiniteSets, TLC

CONSTANTS
  Keys,          \* array keys
  Files,         \* parquet files, all of one schema
  Columns,       \* 1..columnsNo
  PageList,      \* per file and column: its pages, each with its bytes and the rows up to its end
  Headers,       \* files whose values hold the page headers (divider.go 143-148)
  MinValueSize,  \* bytes the Divider puts into a value, if it can
  Filtered,      \* per column: the rows SetColumnFilter's filter keeps
  Shuffles,      \* bound: the permutations the random generator returns
  MaxRead,       \* bound: values of a column read before a request fails
  MaxCalls,      \* bound: calls of the Processor
  MaxFailures    \* bound: requests that fail


None == "none"
ColumnsNo == Cardinality(Columns)
RowsOf(f, c) == PageList[f][c][Len(PageList[f][c])].rows

ASSUME SizeAssumption ==
  /\ Columns = 1..Cardinality(Columns) /\ IsFiniteSet(Columns) /\ Columns # {}
  /\ None \notin Files /\ Headers \subseteq Files
  /\ {MinValueSize, MaxRead, MaxCalls, MaxFailures} \subseteq Nat

\* Every column of a file has a page, and as many rows as the others.
ASSUME PageAssumption ==
  \A f \in Files, c \in Columns :
    /\ PageList[f][c] \in Seq([rows : Nat, bytes : Nat]) \ {<<>>}
    /\ \A i \in 2..Len(PageList[f][c]) :
         PageList[f][c][i - 1].rows <= PageList[f][c][i].rows
    /\ RowsOf(f, c) = RowsOf(f, 1)

\* The generator returns permutations.
ASSUME ShuffleAssumption ==
  \A s \in Shuffles :
    /\ s \in Seq(1..Len(s))
    /\ \A q \in 1..Len(s) : \E i \in 1..Len(s) : s[i] = q
    /\ \A i, j \in 1..Len(s) : s[i] = s[j] => i = j

VARIABLES
  store,     \* per key: [entries (of its directory), values, file (history)]
  enabled, output, filters,     \* columns
  valueNo, pageNo, pageOffset,  \* per column: the cursor
  dir,       \* entries of the cached array directory, 0 if none is cached
  meta,      \* the file whose metadata is cached, or None
  counts,    \* columnChunksValuesNo: counts[c] values come before column c
  perm,      \* ColumnPermutation: positions among the perturbed columns
  permFor,   \* history: those columns when it was made
  last,      \* the last call's result
  reliedOn,  \* history: the last call was GetPerturbedRows, with all it relies on
  gathered,  \* history: rows of the batches since the cursors were reset
  sources,   \* history: arrays they came from
  clean,     \* history: no call has failed or used the cursors otherwise since then
  mode,      \* "running", "panicked" or "hung"
  calls, failures

columns == <<enabled, output, filters>>
cursor == <<valueNo, pageNo, pageOffset>>
cache == <<dir, meta, counts>>
history == <<gathered, sources, clean>>
vars == <<store, columns, cursor, cache, perm, permFor, last, reliedOn, history, mode, calls, failures>>

\* The elements of s whose numbers are in S.
Select(s, S) == FlattenSeq([i \in DOMAIN s |-> IF i \in S THEN <<s[i]>> ELSE <<>>])
InOrder(cs) == Select([c \in 1..ColumnsNo |-> c], cs)

-----------------------------------------------------------------------------
(* The Divider *)

\* Entries of the pages of a column.
RowsBefore(f, c, i) == IF i = 1 THEN 0 ELSE PageList[f][c][i - 1].rows
Page(f, c, i) ==
  [r \in 1..PageList[f][c][i].rows - RowsBefore(f, c, i) |-> <<f, c, RowsBefore(f, c, i) + r>>]

Full(bytes) == bytes >= MinValueSize

\* readPagesFromColumn: pages go into one value until it is full.
AddPage(f, c, values, i) ==
  LET value == Last(values)
      bytes == PageList[f][c][i].bytes
  IN IF Full(value.bytes) THEN Append(values, [bytes |-> bytes, pages |-> <<Page(f, c, i)>>])
     ELSE Append(Front(values), [bytes |-> value.bytes + bytes, pages |-> Append(value.pages, Page(f, c, i))])

ValuesOf(f, c) ==
  LET cut[i \in 0..Len(PageList[f][c])] ==
        IF i = 0 THEN <<[bytes |-> 0, pages |-> <<>>]>> ELSE AddPage(f, c, cut[i - 1], i)
  IN cut[Len(PageList[f][c])]

\* A value: pages of a column, or the metadata with the numbers of values.
Data(f, pages) == [pages |-> pages, headed |-> f \in Headers, meta |-> None, counts |-> <<>>]

ColumnValues ==
  [f \in Files |-> [c \in 1..ColumnsNo |->
     [i \in DOMAIN ValuesOf(f, c) |-> Data(f, ValuesOf(f, c)[i].pages)]]]

\* The numbers of values that the metadata ends with, and GetMetaData's 0 before them.
Counts(f) == [c \in 1..ColumnsNo + 1 |-> Len(FlattenSeq(SubSeq(ColumnValues[f], 1, c - 1)))]
MetaValue(f) == [pages |-> <<>>, headed |-> FALSE, meta |-> f, counts |-> Counts(f)]

\* DivideFile: the values of the columns, then the metadata.
DivideFile(f) == Append(FlattenSeq(ColumnValues[f]), MetaValue(f))

NoArray == [entries |-> 0, values |-> <<>>, file |-> None]

\* ArraySetN over an array: values beyond the new ones stay.
Over(array, f) ==
  LET new == DivideFile(f) IN
  [entries |-> Len(new), file |-> f,
   values |-> new \o SubSeq(array.values, Len(new) + 1, Len(array.values))]

InColumn(n, c) == n[c + 1] - n[c]

-----------------------------------------------------------------------------
(* Calls that send nothing *)

Call == mode = "running" /\ calls < MaxCalls /\ calls' = calls + 1
Returns(kind) == [kind |-> kind, cols |-> <<>>]
Zero == [c \in Columns |-> 0]
NoCounts == [c \in 1..ColumnsNo + 1 |-> 0]

resetOffsets ==
  /\ valueNo' = Zero /\ pageNo' = Zero /\ pageOffset' = Zero
  /\ gathered' = <<>> /\ sources' = {} /\ clean' = TRUE

\* EnableColumn, DisableColumn, SetOutputColumn, SetColumnFilter.
SetColumns ==
  /\ Call
  /\ \E c \in Columns :
       \/ enabled' = enabled \cup {c} /\ UNCHANGED <<output, filters>>
       \/ enabled' = enabled \ {c} /\ UNCHANGED <<output, filters>>
       \/ output' = output \cup {c} /\ UNCHANGED <<enabled, filters>>
       \/ filters' = filters \cup {c} /\ UNCHANGED <<enabled, output>>
  /\ resetOffsets
  /\ last' = Returns("none")
  /\ reliedOn' = FALSE
  /\ UNCHANGED <<store, cache, perm, permFor, mode, failures>>

\* SetParquetSchema: a new Processor, with nothing cached.
SetParquetSchema ==
  /\ Call
  /\ enabled' = Columns /\ output' = {} /\ filters' = {}
  /\ dir' = 0 /\ meta' = None /\ counts' = NoCounts /\ perm' = <<>> /\ permFor' = <<>>
  /\ resetOffsets
  /\ last' = Returns("none")
  /\ reliedOn' = FALSE
  /\ UNCHANGED <<store, mode, failures>>

\* StoreFile, of this client or another one: the Divider no longer writes headers.
StoreFile(k) ==
  /\ Call
  /\ \E f \in Files \ Headers : store' = [store EXCEPT ![k] = Over(@, f)]
  /\ last' = Returns("none")
  /\ reliedOn' = FALSE
  /\ UNCHANGED <<columns, cursor, cache, perm, permFor, history, mode, failures>>

-----------------------------------------------------------------------------
(* Metadata and rotation matrix *)

\* What GetMetaData(k) does when its request number bad fails (0: none does): an
\* error of GetArrayDir is returned as if there were no array.  A page is not taken
\* for metadata.
MetaData(k, bad) ==
  LET entries == IF dir # 0 THEN dir ELSE IF bad = 1 THEN 0 ELSE store[k].entries
      value == store[k].values[entries]
  IN IF entries = 0 THEN [outcome |-> "none", dir |-> 0, meta |-> meta, counts |-> counts]
     ELSE IF entries > Len(store[k].values) \/ bad = 2 \/ value.meta = None
     THEN [outcome |-> "error", dir |-> entries, meta |-> meta, counts |-> counts]
     ELSE [outcome |-> "found", dir |-> entries, meta |-> value.meta, counts |-> value.counts]

Cached == [outcome |-> "found", dir |-> dir, meta |-> meta, counts |-> counts]
Keeps(m) == dir' = m.dir /\ meta' = m.meta /\ counts' = m.counts

\* The call's metadata: what is cached, whatever key it came from.
Prepared(k, bad) == IF meta # None THEN Cached ELSE MetaData(k, bad)

\* A request of the call fails, or bad = 0 and none does.
Fails(bad) == IF bad = 0 THEN UNCHANGED failures
              ELSE failures < MaxFailures /\ failures' = failures + 1

GetMetaData(k) ==
  /\ Call
  /\ \E bad \in 0..2 :
       /\ Fails(bad)
       /\ LET m == MetaData(k, bad) IN Keeps(m) /\ last' = Returns(m.outcome)
  /\ reliedOn' = FALSE
  /\ UNCHANGED <<store, columns, cursor, perm, permFor, history, mode>>

Perturbed == InOrder(enabled \ output)
Outputs == InOrder(enabled \cap output)

\* ColumnPermutation: a permutation, filled up to threes with picks that differ
\* from the two before them.
Permutations3(n) ==
  LET length == IF n % 3 = 0 THEN n ELSE n + 3 - (n % 3) IN
  {p \in [1..length -> 1..n] :
     /\ SubSeq(p, 1, n) \in Shuffles
     /\ \A i \in n + 1..length : p[i] # p[i - 1] /\ p[i] # p[i - 2]}

\* With one or two columns no pick differs from those before it: the loop does not
\* end.
SetRotationMatrix ==
  LET n == Len(Perturbed) IN
  /\ Call
  /\ \/ n \in {1, 2} /\ mode' = "hung" /\ UNCHANGED <<perm, permFor, failures>> /\ last' = Returns("none")
     \/ /\ n \notin {1, 2} /\ perm' \in Permutations3(n) /\ permFor' = Perturbed
        /\ \E bad \in 0..1 : Fails(bad) /\ last' = Returns(IF bad = 0 THEN "nil" ELSE "error")
        /\ UNCHANGED mode
  /\ reliedOn' = FALSE
  /\ UNCHANGED <<store, columns, cursor, cache, history>>

-----------------------------------------------------------------------------
(* All columns at once *)

Groups == IF Perturbed = <<>> THEN 0 ELSE Len(perm) \div 3
Group(g) == [j \in 1..3 |-> Perturbed[perm[3 * (g - 1) + j]]]

\* Rounds of a group from the cursor on: it ends with the column that ends first.
Rounds(n, g, from) == Min({InColumn(n, c) - from[c] : c \in Range(Group(g))})

\* The cursor when group g begins: the groups before have set theirs back to 0.
FromAt(g) == [c \in Columns |-> IF \E h \in 1..g - 1 : c \in Range(Group(h)) THEN 0 ELSE valueNo[c]]

\* The entries of the directory that are asked for, in order.
GroupKeys(n, g) ==
  FlattenSeq([t \in 1..Rounds(n, g, FromAt(g)) |->
    [j \in 1..3 |-> n[Group(g)[j]] + FromAt(g)[Group(g)[j]] + t]])
OutputKeys(n, c) == [t \in 1..InColumn(n, c) - valueNo[c] |-> n[c] + valueNo[c] + t]
AskedKeys(n) ==
  FlattenSeq([g \in 1..Groups |-> GroupKeys(n, g)])
    \o FlattenSeq([i \in DOMAIN Outputs |-> OutputKeys(n, Outputs[i])])

Fits == \A p \in Range(perm) : Perturbed = <<>> \/ p <= Len(Perturbed)
Involved == Range(Outputs) \cup UNION {Range(Group(g)) : g \in 1..Groups}

\* Mutated: the cursors are not set back once the keys have been collected.
AfterKeysKept(n) == [c \in Columns |-> IF c \in Involved THEN InColumn(n, c) ELSE valueNo[c]]
AfterKeys(n) == [c \in Columns |-> IF c \in Involved THEN 0 ELSE valueNo[c]]

\* A position that only fills up the last group is not given back.
Own(p) == p <= Len(Perturbed)

\* The columns that the answers are placed in, 0 for none: the same order, the
\* cursors counting again.
GroupSlots(n, g) ==
  FlattenSeq([t \in 1..Rounds(n, g, AfterKeys(n)) |->
    [j \in 1..3 |-> IF Own(3 * (g - 1) + j) THEN Group(g)[j] ELSE 0]])
OutputSlots(n, c) == [t \in 1..InColumn(n, c) - AfterKeys(n)[c] |-> c]
Slots(n) ==
  FlattenSeq([g \in 1..Groups |-> GroupSlots(n, g)])
    \o FlattenSeq([i \in DOMAIN Outputs |-> OutputSlots(n, Outputs[i])])

\* What is placed in column c: the pages of the answers, one after the other.
Column(values, keys, slots, c) ==
  FlattenSeq(FlattenSeq([a \in DOMAIN slots |-> IF slots[a] = c THEN values[keys[a]].pages ELSE <<>>]))

\* An answer that is not whole entries: reading it may run over its end.
Misread(value) == value.headed \/ value.meta # None

\* What the call relies on: the cursors at 0, metadata of the array it reads, a
\* permutation made for these columns, equally many values in the columns of a
\* group, and values without page headers.
Sound(m, k) ==
  /\ m.outcome = "found" /\ valueNo = Zero /\ store[k].file = m.meta /\ m.meta \notin Headers
  /\ permFor = Perturbed
  /\ \A g \in 1..Groups : Cardinality({InColumn(m.counts, c) : c \in Range(Group(g))}) = 1

\* With metadata: the keys are collected, GetBulkN asks for them, the answers are
\* placed.
Perturb(k, n, fails) ==
  \E keys \in {AskedKeys(n)}, slots \in {Slots(n)} :
    IF fails \/ \E i \in DOMAIN keys : keys[i] > Len(store[k].values)
    THEN /\ valueNo' = AfterKeys(n)
         /\ last' = Returns("error") /\ UNCHANGED mode
    ELSE /\ valueNo' = [c \in Columns |-> IF c \in Involved THEN 0 ELSE valueNo[c]]
         /\ \/ /\ Len(slots) > Len(keys) \/ \E i \in DOMAIN keys : Misread(store[k].values[keys[i]])
               /\ last' = Returns("none") /\ mode' = "panicked"
            \/ /\ Len(slots) <= Len(keys)
               /\ last' = [Returns("perturbed") EXCEPT
                    !.cols = [c \in Columns |-> Column(store[k].values, keys, slots, c)]]
               /\ UNCHANGED mode

GetPerturbedRows(k) ==
  /\ Call
  /\ \E bad \in 0..3 : \E m \in {Prepared(k, bad)} :
       /\ Fails(bad) /\ Keeps(m)
       /\ reliedOn' = Sound(m, k)
       /\ \/ m.outcome = "error" /\ last' = Returns("error") /\ UNCHANGED <<valueNo, mode>>
          \/ m.outcome = "none" /\ store[k] = NoArray /\ last' = Returns("nil") /\ UNCHANGED <<valueNo, mode>>
          \* The directory is asked for again; when it comes now, the counts are missing.
          \/ /\ m.outcome = "none" /\ store[k] # NoArray
             /\ last' = Returns("none") /\ mode' = "panicked" /\ UNCHANGED valueNo
          \/ /\ m.outcome = "found" /\ ~Fits
             /\ last' = Returns("none") /\ mode' = "panicked" /\ UNCHANGED valueNo
          \/ m.outcome = "found" /\ Fits /\ Perturb(k, m.counts, bad = 3)
  /\ clean' = (clean /\ valueNo' = valueNo)
  /\ UNCHANGED <<store, columns, pageNo, pageOffset, perm, permFor, gathered, sources>>

-----------------------------------------------------------------------------
(* Rows in batches *)

\* The pages ReadPageRawData finds in a value: it needs the page headers.
Readable(value) == IF value.headed THEN value.pages ELSE <<>>

At(v, p, o) == [value |-> v, page |-> p, offset |-> o]
Cursor(c) == At(valueNo[c], pageNo[c], pageOffset[c])

\* Where the reading of a value starts: at the cursor, or at the beginning of a
\* later value.  Mutated: the offset stays when a value is exhausted.
StartStale(c, v) == At(v, IF v = valueNo[c] THEN pageNo[c] ELSE 0, pageOffset[c])
Start(c, v) == IF v = valueNo[c] THEN Cursor(c) ELSE At(v, 0, 0)

\* The entries of a value, each with where the cursor stands behind it and how many
\* of its page are left then.
Entries(value, v) ==
  FlattenSeq([p \in DOMAIN Readable(value) |->
    [o \in DOMAIN Readable(value)[p] |->
      [at |-> At(v, p - 1, o), entry |-> Readable(value)[p][o], left |-> Len(Readable(value)[p]) - o]]])

\* The entries of the first values of column c of the array, and those of them that
\* are yet to be read.
Tape(n, k, c, upto) == FlattenSeq([v \in 1..upto |-> Entries(store[k].values[n[c] + v], v - 1)])
Behind(c, at) ==
  \/ at.value < valueNo[c] \/ at.page < Start(c, at.value).page
  \/ at.page = Start(c, at.value).page /\ at.offset <= Start(c, at.value).offset
Ahead(n, k, c, upto) ==
  LET tape == Tape(n, k, c, upto) IN Select(tape, {i \in DOMAIN tape : ~Behind(c, tape[i].at)})

\* Where the cursor stands when x is the last entry wanted: its offset is not set
\* when x ends a page.
StopAt(c, x) == IF x.left = 0 THEN At(x.at.value, x.at.page + 1, Start(c, x.at.value).offset) ELSE x.at

\* Get rows of a column from its cursor on; left: values that can still be got, the
\* request after them fails.
ReadColumn(n, k, c, rows, left) ==
  LET upto == Min({valueNo[c] + left, store[k].entries - n[c]})
      ahead == Ahead(n, k, c, upto)
  IN IF rows = 0 THEN [cur |-> Cursor(c), read |-> <<>>, fails |-> FALSE]
     ELSE IF rows > Len(ahead)
     THEN [cur |-> Start(c, Max({valueNo[c], upto})), read |-> <<>>, fails |-> TRUE]
     ELSE [cur |-> StopAt(c, ahead[rows]), read |-> [r \in 1..rows |-> ahead[r].entry], fails |-> FALSE]

First == Min(enabled)
Others == enabled \ {First}
FirstIndex(n) == n[First] + valueNo[First] + 1
FirstLeft(n) == valueNo[First] < InColumn(n, First)

\* The rows that the columns' filters keep.
Kept(rows) ==
  Select(rows, {r \in DOMAIN rows : \A c \in filters \cap DOMAIN rows[r] : rows[r][c][3] \in Filtered[c]})

\* Without a value to begin with: no metadata, no column, no array, or the end.
NoBatch(k) ==
  /\ Call
  /\ \E bad \in 0..3 : \E m \in {Prepared(k, bad)} :
       /\ Fails(bad) /\ Keeps(m)
       /\ \/ m.outcome = "error" /\ last' = Returns("error") /\ UNCHANGED mode
          \/ m.outcome # "error" /\ enabled = {} /\ last' = Returns("error") /\ UNCHANGED mode
          \* columnChunksValuesNo has no entry behind the last column's yet.
          \/ m.outcome = "none" /\ enabled # {} /\ last' = Returns("end")
             /\ mode' = IF First = ColumnsNo THEN "panicked" ELSE mode
          \/ /\ m.outcome = "found" /\ enabled # {} /\ ~FirstLeft(m.counts)
             /\ last' = Returns("end") /\ UNCHANGED mode
          \/ /\ m.outcome = "found" /\ enabled # {} /\ FirstLeft(m.counts)
             /\ bad = 3 \/ FirstIndex(m.counts) > store[k].entries
             /\ last' = Returns("error") /\ UNCHANGED mode
  /\ reliedOn' = FALSE
  /\ UNCHANGED <<store, columns, cursor, perm, permFor, history>>

\* The cursors: the first column's has moved on, the others', in order, up to the
\* first request that fails.
Moved(reads) ==
  [c \in Columns |->
    IF c = First THEN [Cursor(c) EXCEPT !.value = @ + 1]
    ELSE IF c \in Others /\ \A d \in Others : reads[d].fails => c <= d THEN reads[c].cur
    ELSE Cursor(c)]

\* The rows, in which only the enabled columns have an entry.
Rows(first, reads) ==
  [r \in DOMAIN first |-> [c \in enabled |-> IF c = First THEN first[r] ELSE reads[c].read[r]]]

\* A batch: the next value of the first column, and as many rows of each of the
\* others, in order.  Request got + 1 of column stop may fail.
GetRowBatch(k) ==
  /\ Call /\ enabled # {}
  /\ \E m \in {Prepared(k, 0)} :
     /\ m.outcome = "found" /\ FirstLeft(m.counts) /\ FirstIndex(m.counts) <= store[k].entries
     /\ Keeps(m)
     /\ \E stop \in {0} \cup Others, got \in 0..MaxRead :
        \E first \in {FlattenSeq(Readable(store[k].values[FirstIndex(m.counts)]))} :
        \E reads \in {[c \in Others |->
               ReadColumn(m.counts, k, c, Len(first), IF c = stop THEN got ELSE store[k].entries + 1)]} :
        \E moved \in {Moved(reads)} :
          /\ IF stop = 0 THEN got = 0 /\ UNCHANGED failures
             ELSE reads[stop].fails /\ failures < MaxFailures /\ failures' = failures + 1
          /\ valueNo' = [c \in Columns |-> moved[c].value]
          /\ pageNo' = [c \in Columns |-> moved[c].page]
          /\ pageOffset' = [c \in Columns |-> moved[c].offset]
          /\ IF \E c \in Others : reads[c].fails
             THEN last' = Returns("error") /\ clean' = FALSE /\ UNCHANGED <<gathered, sources>>
             ELSE /\ gathered' = gathered \o Kept(Rows(first, reads))
                  /\ sources' = sources \cup {store[k].file, m.meta}
                  /\ last' = Returns("rows")
                  /\ UNCHANGED clean
  /\ reliedOn' = FALSE
  /\ UNCHANGED <<store, columns, perm, permFor, mode>>

-----------------------------------------------------------------------------
Init ==
  /\ store \in [Keys -> {NoArray} \cup {Over(NoArray, f) : f \in Headers}]
  /\ enabled = Columns /\ output = {} /\ filters = {}
  /\ valueNo = Zero /\ pageNo = Zero /\ pageOffset = Zero
  /\ dir = 0 /\ meta = None /\ counts = NoCounts /\ perm = <<>> /\ permFor = <<>> /\ reliedOn = FALSE
  /\ last = Returns("none") /\ gathered = <<>> /\ sources = {} /\ clean = TRUE
  /\ mode = "running" /\ calls = 0 /\ failures = 0

Next ==
  \/ SetColumns \/ SetParquetSchema \/ SetRotationMatrix
  \/ \E k \in Keys :
       StoreFile(k) \/ GetMetaData(k) \/ GetPerturbedRows(k) \/ NoBatch(k) \/ GetRowBatch(k)

Spec == Init /\ [][Next]_vars

-----------------------------------------------------------------------------
\* In the columns that are read from inside a value, no page of several rows is
\* followed by another one in its value.  Where one is, and a batch that began
\* inside it ends with it, the offset in it is used for the next page
\* (processor.go 798-805), and entries of that page are passed over.
OffsetsHold(f) ==
  \A c \in enabled : c # First => \A i \in DOMAIN ColumnValues[f][c] :
    LET pages == ColumnValues[f][c][i].pages
    IN \A p \in 1..Len(pages) - 1 : Len(pages[p]) <= 1

\* What is cached belongs together; a cursor stays in its column and its page.
TypeOK ==
  /\ \A k \in Keys : store[k].file \in Files \cup {None} /\ store[k].entries <= Len(store[k].values)
  /\ enabled \subseteq Columns /\ output \subseteq Columns /\ filters \subseteq Columns
  /\ meta \in Files \cup {None} /\ (meta # None => dir = Len(DivideFile(meta)) /\ counts = Counts(meta))
  /\ Range(perm) \subseteq 1..ColumnsNo /\ Len(perm) % 3 = 0
  /\ \A c \in Columns : {valueNo[c], pageNo[c], pageOffset[c]} \subseteq Nat
  /\ clean /\ meta # None /\ sources \subseteq {meta} /\ OffsetsHold(meta) => \A c \in Columns :
       /\ valueNo[c] <= InColumn(counts, c)
       /\ pageOffset[c] # 0 => valueNo[c] < InColumn(counts, c)
  /\ mode \in {"running", "panicked", "hung"}

\* GetPerturbedRows gives every enabled column whole and in order, and the columns
\* that only fill up a group of three not again, when its cursors, its cached
\* metadata and its permutation are those of the array and of the columns
\* (processor.go 335-452: keys are collected and answers placed by two loops that
\* have to stay in step).  It does not panic then.
PerturbedComplete ==
  reliedOn =>
    /\ mode = "running"
    /\ last.kind = "perturbed" =>
         \A c \in Columns :
           last.cols[c] = IF c \in enabled THEN [r \in 1..RowsOf(meta, c) |-> <<meta, c, r>>] ELSE <<>>

\* The batches since the cursors were set back are the file's rows in order, none
\* missing, none twice, and every row's entries are of the same row, while no call
\* has failed after the first column's cursor moved on (processor.go 636-858: the
\* columns are cut into values at different rows).
RowsLineUp ==
  clean /\ Cardinality(sources) = 1 /\ sources \subseteq Headers =>
    LET f == CHOOSE g \in sources : TRUE
        given == Len(FlattenSeq(FlattenSeq([i \in 1..valueNo[First] |-> ColumnValues[f][First][i].pages])))
    IN OffsetsHold(f) => gathered = Kept([r \in 1..given |-> [c \in enabled |-> <<f, c, r>>]])
=============================================================================

----------------------------- MODULE LogManager -----------------------------
(***************************************************************************)
(* LogManager (log_manager.cpp): the WAL file, the buffer of records that  *)
(* are not yet written, the byte offsets it keeps for each LSN, and what a *)
(* restart rebuilds from the file.  append and the flushes hold mutex_     *)
(* throughout; read_log and read_record_at_lsn, which let go of it, are    *)
(* taken to run with no call in between.                                   *)
(***************************************************************************)
EXTENDS LogOps, FiniteSets, FiniteSetsExt

CONSTANTS
  Data,        \* the contents of a log record, without its LSN
  Size,        \* the serialized length of a record with those contents
  MaxRecords   \* bound: records ever written or buffered

ASSUME SizeAssumption == Size \in [Data -> Nat \ {0}]
ASSUME MaxRecordsAssumption == MaxRecords \in Nat

VARIABLES
  file,          \* the WAL file, record by record: where each one really lies
  buffer,        \* buffer_: records appended since the last flush
  write_offset,  \* write_offset_
  lsn_index,     \* lsn_index_
  next_lsn,      \* next_lsn_
  flushed_lsn,   \* flushed_lsn_
  open           \* a LogManager object exists

vars == <<file, buffer, write_offset, lsn_index, next_lsn, flushed_lsn, open>>

\* A record in the file; torn > 0 when only its first torn bytes are there.
Segment == [lsn : Nat, data : Data, at : Nat, torn : Nat]

\* A record in the buffer; pos is its byte position in buffer_.
Buffered == [lsn : Nat, data : Data, pos : Nat]

SegmentBytes(s) == IF s.torn = 0 THEN Size[s.data] ELSE s.torn

FileSize(f) == IF f = <<>> THEN 0 ELSE f[Len(f)].at + SegmentBytes(f[Len(f)])

\* buffer_.size()
BufferSize(b) == IF b = <<>> THEN 0 ELSE b[Len(b)].pos + Size[b[Len(b)].data]

\* The first k buffered records as they lie in the file once they are written.
Placed(k) ==
  [i \in 1..k |-> [lsn |-> buffer[i].lsn, data |-> buffer[i].data,
                   at |-> FileSize(file) + buffer[i].pos, torn |-> 0]]

Written(k) == file \o Placed(k)

-----------------------------------------------------------------------------
(* read_log: the records in front of the first one that is cut short.  The *)
(* bytes behind that one are taken for its rest, so none of the records    *)
(* that follow is read as what it is.                                      *)

Readable(f) == {i \in 1..Len(f) : \A j \in 1..i : f[j].torn = 0}

\* file_offset when the scan reaches the i-th record: the lengths of the
\* records in front of it, added up one record at a time.
ScanOffset(f, i) == IF i = 1 THEN 0 ELSE f[i - 1].at + Size[f[i - 1].data]

ScannedIndex(f, index) ==
  LET lsns == {f[i].lsn : i \in Readable(f)} IN
  [l \in DOMAIN index \cup lsns |->
     IF l \in lsns
     THEN ScanOffset(f, Max({i \in Readable(f) : f[i].lsn = l}))
     ELSE index[l]]

\* Mutant: the scan does not step past the largest LSN it read.
ScannedNextLsn_NotPast(f, n) == Max({n} \cup {f[i].lsn : i \in Readable(f)})

ScannedNextLsn(f, n) == Max({n} \cup {f[i].lsn + 1 : i \in Readable(f)})

-----------------------------------------------------------------------------
Init ==
  /\ file = <<>>
  /\ buffer = <<>>
  /\ write_offset = 0
  /\ lsn_index = <<>>
  /\ next_lsn = 0
  /\ flushed_lsn = NoLsn
  /\ open = TRUE

\* Mutant: the offset kept for a record ignores what is already buffered.
append_IgnoresBuffer(d) ==
  /\ open
  /\ Len(file) + Len(buffer) < MaxRecords
  /\ buffer' = Append(buffer, [lsn |-> next_lsn, data |-> d, pos |-> BufferSize(buffer)])
  /\ lsn_index' = [l \in DOMAIN lsn_index \cup {next_lsn} |->
                     IF l = next_lsn THEN write_offset ELSE lsn_index[l]]
  /\ next_lsn' = next_lsn + 1
  /\ UNCHANGED <<file, write_offset, flushed_lsn, open>>

append(d) ==
  /\ open
  /\ Len(file) + Len(buffer) < MaxRecords
  /\ buffer' = Append(buffer, [lsn |-> next_lsn, data |-> d, pos |-> BufferSize(buffer)])
  /\ lsn_index' = [l \in DOMAIN lsn_index \cup {next_lsn} |->
                     IF l = next_lsn THEN write_offset + BufferSize(buffer) ELSE lsn_index[l]]
  /\ next_lsn' = next_lsn + 1
  /\ UNCHANGED <<file, write_offset, flushed_lsn, open>>

\* Mutant: write_offset_ moves the wrong way.
flush_all_unlocked_OffsetBack ==
  IF buffer = <<>>
  THEN UNCHANGED <<file, buffer, write_offset, flushed_lsn>>
  ELSE /\ file' = Written(Len(buffer))
       /\ flushed_lsn' = next_lsn - 1
       /\ write_offset' = write_offset - BufferSize(buffer)
       /\ buffer' = <<>>

\* Mutant: flushed_lsn_ is set to the LSN that comes next.
flush_all_unlocked_FlushedNext ==
  IF buffer = <<>>
  THEN UNCHANGED <<file, buffer, write_offset, flushed_lsn>>
  ELSE /\ file' = Written(Len(buffer))
       /\ flushed_lsn' = next_lsn
       /\ write_offset' = write_offset + BufferSize(buffer)
       /\ buffer' = <<>>

\* Mutant: the buffer is not cleared once it is written.
flush_all_unlocked_KeepsBuffer ==
  IF buffer = <<>>
  THEN UNCHANGED <<file, buffer, write_offset, flushed_lsn>>
  ELSE /\ file' = Written(Len(buffer))
       /\ flushed_lsn' = next_lsn - 1
       /\ write_offset' = write_offset + BufferSize(buffer)
       /\ buffer' = buffer

flush_all_unlocked ==
  IF buffer = <<>>
  THEN UNCHANGED <<file, buffer, write_offset, flushed_lsn>>
  ELSE /\ file' = Written(Len(buffer))
       /\ flushed_lsn' = next_lsn - 1
       /\ write_offset' = write_offset + BufferSize(buffer)
       /\ buffer' = <<>>

flush(up_to_lsn) ==
  /\ open
  /\ IF flushed_lsn # NoLsn /\ flushed_lsn >= up_to_lsn
     THEN UNCHANGED <<file, buffer, write_offset, flushed_lsn>>
     ELSE flush_all_unlocked
  /\ UNCHANGED <<lsn_index, next_lsn, open>>

flush_all ==
  /\ open
  /\ flush_all_unlocked
  /\ UNCHANGED <<lsn_index, next_lsn, open>>

read_log ==
  /\ open
  /\ lsn_index' = ScannedIndex(file, lsn_index)
  /\ next_lsn' = ScannedNextLsn(file, next_lsn)
  /\ UNCHANGED <<file, buffer, write_offset, flushed_lsn, open>>

\* An LSN the index does not hold makes it fall back on read_log.
read_record_at_lsn(target_lsn) ==
  /\ open
  /\ flush_all_unlocked
  /\ IF target_lsn \in DOMAIN lsn_index
     THEN UNCHANGED <<lsn_index, next_lsn>>
     ELSE /\ lsn_index' = ScannedIndex(file', lsn_index)
          /\ next_lsn' = ScannedNextLsn(file', next_lsn)
  /\ UNCHANGED open

\* The object is gone; only the file is left.
ForgetMemory ==
  /\ open' = FALSE
  /\ buffer' = <<>>
  /\ write_offset' = 0
  /\ lsn_index' = <<>>
  /\ next_lsn' = 0
  /\ flushed_lsn' = NoLsn

\* The destructor flushes.
Close ==
  /\ open
  /\ file' = Written(Len(buffer))
  /\ ForgetMemory

\* The process dies; of a write that was under way, k whole records arrived.
Crash ==
  /\ open
  /\ \E k \in 0..Len(buffer) : file' = Written(k)
  /\ ForgetMemory

\* The constructor and the read_log that Shell::init_storage calls after it.
Open ==
  /\ ~open
  /\ open' = TRUE
  /\ write_offset' = FileSize(file)
  /\ lsn_index' = ScannedIndex(file, lsn_index)
  /\ next_lsn' = ScannedNextLsn(file, next_lsn)
  /\ UNCHANGED <<file, buffer, flushed_lsn>>

Next ==
  \/ \E d \in Data : append(d)
  \/ \E l \in 0..MaxRecords : flush(l)
  \/ flush_all
  \/ read_log
  \/ \E l \in 0..MaxRecords : read_record_at_lsn(l)
  \/ Close
  \/ Crash
  \/ Open

Spec == Init /\ [][Next]_vars

-----------------------------------------------------------------------------
(* The same system when a crash may also stop a write inside a record.     *)

TornCrash ==
  /\ open
  /\ \E k \in 0..(Len(buffer) - 1) : \E t \in 1..(Size[buffer[k + 1].data] - 1) :
        file' = Append(Written(k),
                       [lsn |-> buffer[k + 1].lsn, data |-> buffer[k + 1].data,
                        at |-> FileSize(file) + buffer[k + 1].pos, torn |-> t])
  /\ ForgetMemory

TornSpec == Init /\ [][Next \/ TornCrash]_vars

-----------------------------------------------------------------------------
(* The same system when the stream may refuse the buffer (a full disk): no *)
(* result is looked at.  What a stream does after its first error is left  *)
(* out.                                                                    *)

FailedFlush ==
  /\ open
  /\ buffer # <<>>
  /\ flushed_lsn' = next_lsn - 1
  /\ write_offset' = write_offset + BufferSize(buffer)
  /\ buffer' = <<>>
  /\ UNCHANGED <<file, lsn_index, next_lsn, open>>

WriteErrorSpec == Init /\ [][Next \/ FailedFlush]_vars

-----------------------------------------------------------------------------
TypeOK ==
  /\ file \in Seq(Segment)
  /\ buffer \in Seq(Buffered)
  /\ write_offset \in Nat
  /\ next_lsn \in Nat
  /\ flushed_lsn \in Nat \cup {NoLsn}
  /\ open \in BOOLEAN
  /\ DOMAIN lsn_index \subseteq Nat
  /\ lsn_index \in [DOMAIN lsn_index -> Nat]

\* append never hands out an LSN twice, whatever restarts lie in between: the
\* records of the file and the buffer are numbered 0, 1, 2, ... in order.
LsnIsPosition ==
  \A i \in 1..Len(Written(Len(buffer))) : Written(Len(buffer))[i].lsn = i - 1

\* get_flushed_lsn: every record up to flushed_lsn_ is in the file, where
\* read_log finds it again after a crash.
FlushedIsDurable ==
  flushed_lsn # NoLsn =>
    \A l \in 0..flushed_lsn : \E i \in Readable(file) : file[i].lsn = l

\* read_record_at_lsn: once the buffer is written, the offset kept for an LSN
\* is the place in the file where the record with that LSN lies, and there is
\* an offset for every record.
IndexAccurate ==
  open =>
    LET all == Written(Len(buffer)) IN
    /\ \A l \in DOMAIN lsn_index :
         \E i \in 1..Len(all) : all[i].lsn = l /\ all[i].at = lsn_index[l]
    /\ \A i \in 1..Len(all) : all[i].lsn \in DOMAIN lsn_index

-----------------------------------------------------------------------------
(* What makes the invariants inductive: where every record lies, and how   *)
(* the counters follow from the file and the buffer.                       *)

LaidOut(f) ==
  \A i \in 1..Len(f) :
    f[i].lsn = i - 1 /\ f[i].torn = 0 /\ f[i].at = ScanOffset(f, i)

FileLayout == LaidOut(file)

BufferLayout ==
  \A i \in 1..Len(buffer) :
    /\ buffer[i].lsn = Len(file) + i - 1
    /\ buffer[i].pos = IF i = 1 THEN 0 ELSE buffer[i - 1].pos + Size[buffer[i - 1].data]

Counters ==
  IF open
  THEN /\ write_offset = FileSize(file)
       /\ next_lsn = Len(file) + Len(buffer)
       /\ flushed_lsn \in {NoLsn, Len(file) - 1}
  ELSE /\ buffer = <<>>
       /\ lsn_index = <<>>
       /\ next_lsn = 0
       /\ flushed_lsn = NoLsn

IndexLayout ==
  open =>
    /\ DOMAIN lsn_index = 0..(next_lsn - 1)
    /\ \A i \in 1..Len(file) : lsn_index[i - 1] = file[i].at
    /\ \A i \in 1..Len(buffer) :
         lsn_index[Len(file) + i - 1] = FileSize(file) + buffer[i].pos

IInv == TypeOK /\ FileLayout /\ BufferLayout /\ Counters /\ IndexLayout

-----------------------------------------------------------------------------
(* Refinement: the file is the stable part of the log and the buffer its   *)
(* pending part.                                                           *)

DataOf(s) == [i \in 1..Len(s) |-> s[i].data]

Durable == INSTANCE DurableLog
  WITH lg <- [stable |-> DataOf(file), pending |-> DataOf(buffer), flushed |-> flushed_lsn]

\* Seen through its records alone, LogManager is an append-only log of which a
\* crash cuts nothing that was flushed.
RefinesDurableLog == Durable!Spec
=============================================================================

------------------------------- MODULE LogOps -------------------------------
(***************************************************************************)
(* The write-ahead log as a value, the way the rest of the engine sees     *)
(* LogManager: the records that are on stable storage, the records still   *)
(* in the in-memory buffer, and flushed_lsn_.  A record's LSN is its       *)
(* position in the log, counted from zero.                                 *)
(***************************************************************************)
EXTENDS Integers, Sequences

\* INVALID_LSN (UINT64_MAX in the code): the one value that is no position.
NoLsn == -1

EmptyLog == [stable |-> <<>>, pending |-> <<>>, flushed |-> NoLsn]

\* Every record appended and not lost, in LSN order.
Records(l) == l.stable \o l.pending

NextLsn(l) == Len(l.stable) + Len(l.pending)

RecordAt(l, n) == Records(l)[n + 1]

\* LogManager::append.  The LSN it returns is NextLsn(l).
Appended(l, rec) == [l EXCEPT !.pending = Append(@, rec)]

\* LogManager::flush_all: an empty buffer returns early and leaves flushed_lsn_.
Synced(l) ==
  IF l.pending = <<>> THEN l
  ELSE [stable |-> Records(l), pending |-> <<>>, flushed |-> NextLsn(l) - 1]

\* LogManager::flush(up_to_lsn).
FlushedTo(l, n) == IF l.flushed # NoLsn /\ l.flushed >= n THEN l ELSE Synced(l)

\* The process ends after the first k buffered records reached the file, and
\* the file is opened again.
Reopened(l, k) ==
  [stable |-> l.stable \o SubSeq(l.pending, 1, k), pending |-> <<>>, flushed |-> NoLsn]
=============================================================================

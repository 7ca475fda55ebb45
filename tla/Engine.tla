------------------------------- MODULE Engine -------------------------------
(***************************************************************************)
(* TransactionManager, CheckpointManager and RecoveryManager over the log  *)
(* (LogOps) and the buffered pages: transactions that modify records, log  *)
(* the change and stamp the page; commit and abort; fuzzy checkpoints;     *)
(* pages and log records that reach the disk at any moment; crashes, and   *)
(* the three ARIES passes, which may be interrupted by another crash.      *)
(***************************************************************************)
EXTENDS LogOps, FiniteSets, FiniteSetsExt

CONSTANTS
  Pages,        \* data pages
  Slots,        \* slot numbers of a page, a set of integers
  Value,        \* record contents
  Nil,          \* no record in the slot (a tombstone, or beyond slot_count)
  NoTxn,        \* INVALID_TXN_ID
  Concurrent,   \* threads call the managers, as their mutexes allow; if FALSE,
                \* one thread does and each call ends before the next begins
  PowerLoss,    \* a crash also loses page writes the OS has not written back
  FetchFails,   \* fetch_page may return nullptr (its victim cannot be written)
  CrashInWindow,\* a crash may fall while a durable CHECKPOINT_END still waits
                \* for the pages it lists
  CrashAhead,   \* a crash may leave a page that shows a change whose record is
                \* not in the log
  MaxLsn,       \* bound: LSNs that clients may use up
  MaxTxn,       \* bound: transactions begun between two restarts
  MaxCkpt,      \* bound: checkpoints
  MaxCrash      \* bound: crashes

ASSUME EngineAssumption ==
  /\ Slots \subseteq Nat
  /\ Nil \notin Value
  /\ NoTxn \notin Nat
  /\ {Concurrent, PowerLoss, FetchFails, CrashInWindow, CrashAhead} \subseteq BOOLEAN
  /\ {MaxLsn, MaxTxn, MaxCkpt, MaxCrash} \subseteq Nat

VARIABLES
  log,          \* the log, see LogOps
  mem,          \* pages as fetch_page returns them
  dirty,        \* pages whose frame is dirty
  disk,         \* pages as read_page returns them
  platter,      \* pages as they survive a power failure
  att,          \* att_: the Transaction objects, by txn id
  locks,        \* slots a running transaction has modified: <<txn, page, slot>>
  next_txn_id,  \* next_txn_id_
  ckpt,         \* the checkpoint in progress
  mode,         \* "up", "down", or the recovery pass that runs
  rec,          \* RecoveryManager: att_, dpt_, the redo position, to_undo
  ckpts,        \* checkpoints so far
  crashes       \* crashes so far

logVars  == <<log>>
pageVars == <<mem, dirty, disk, platter>>
txnVars  == <<att, locks, next_txn_id>>
ckptVars == <<ckpt, ckpts>>
runVars  == <<mode, rec, crashes>>
vars     == <<logVars, pageVars, txnVars, ckptVars, runVars>>

-----------------------------------------------------------------------------
(* Log records, with the fields that each LogRecord constructor sets.      *)

ControlRecord(type, t, prev) == [type |-> type, txn |-> t, prev |-> prev]

UpdateRecord(t, prev, op) ==
  [type |-> "UPDATE", txn |-> t, prev |-> prev,
   page |-> op.page, slot |-> op.slot, old |-> op.old, new |-> op.new]

ClrRecord(t, prev, p, s, new, undo_next) ==
  [type |-> "CLR", txn |-> t, prev |-> prev,
   page |-> p, slot |-> s, new |-> new, undo_next |-> undo_next]

CheckpointEnd(a, d) ==
  [type |-> "CHECKPOINT_END", txn |-> NoTxn, prev |-> NoLsn, att |-> a, dpt |-> d]

\* Mutant: redo passes over CLRs.
IsChange_ClrLeftOut(r) == r.type \in {"UPDATE"}

IsChange(r) == r.type \in {"UPDATE", "CLR"}

NoOp == [page |-> Nil]

\* Map without key x, and map f with f[x] set to v.
Without(f, x) == [y \in DOMAIN f \ {x} |-> f[y]]
With(f, x, v) == [y \in DOMAIN f \cup {x} |-> IF y = x THEN v ELSE f[y]]

EmptyPage == [lsn |-> 0, slots |-> [s \in Slots |-> Nil]]

IdleCheckpoint == [phase |-> "idle", att |-> <<>>, dpt |-> <<>>, lsn |-> NoLsn]

IdleRecovery == [att |-> <<>>, dpt |-> <<>>, pos |-> NoLsn, to_undo |-> {}]

Init ==
  /\ log = EmptyLog
  /\ mem = [p \in Pages |-> EmptyPage]
  /\ dirty = {}
  /\ disk = mem
  /\ platter = mem
  /\ att = <<>>
  /\ locks = {}
  /\ next_txn_id = 0
  /\ ckpt = IdleCheckpoint
  /\ ckpts = 0
  /\ mode = "up"
  /\ rec = IdleRecovery
  /\ crashes = 0

-----------------------------------------------------------------------------
(* Who may run.                                                            *)

\* A call into one of the managers has begun and not returned.
InCall ==
  \/ ckpt.phase # "idle"
  \/ \E t \in DOMAIN att : att[t].state # "GROWING" \/ att[t].op # NoOp

CanCall == mode = "up" /\ (InCall => Concurrent)

\* Mutant: abort keeps the mutex through its loop.
MutexFree_HeldByAbort == \A t \in DOMAIN att : att[t].state = "GROWING"

\* TransactionManager's mutex_: commit holds it from its COMMIT record on.
MutexFree == \A t \in DOMAIN att : att[t].state # "COMMITTED"

Growing(t) == t \in DOMAIN att /\ att[t].state = "GROWING" /\ att[t].op = NoOp

-----------------------------------------------------------------------------
(* TransactionManager.                                                     *)

\* Mutant: the BEGIN record is not entered as the transaction's last.
begin_NoPrev ==
  /\ CanCall
  /\ MutexFree
  /\ next_txn_id < MaxTxn
  /\ NextLsn(log) < MaxLsn
  /\ log' = Appended(log, ControlRecord("BEGIN", next_txn_id, NoLsn))
  /\ att' = With(att, next_txn_id,
                 [prev |-> NoLsn, state |-> "GROWING", undo |-> NoLsn, op |-> NoOp])
  /\ next_txn_id' = next_txn_id + 1
  /\ UNCHANGED <<pageVars, locks, ckptVars, runVars>>

begin ==
  /\ CanCall
  /\ MutexFree
  /\ next_txn_id < MaxTxn
  /\ NextLsn(log) < MaxLsn
  /\ log' = Appended(log, ControlRecord("BEGIN", next_txn_id, NoLsn))
  /\ att' = With(att, next_txn_id,
                 [prev |-> NextLsn(log), state |-> "GROWING", undo |-> NoLsn, op |-> NoOp])
  /\ next_txn_id' = next_txn_id + 1
  /\ UNCHANGED <<pageVars, locks, ckptVars, runVars>>

\* A client changes a record on a page and unpins the page dirty; the log
\* record follows in log_update.  Clients keep off each other's records.
Modify(t, p, s, new) ==
  /\ CanCall
  /\ Growing(t)
  /\ NextLsn(log) < MaxLsn
  /\ \A u \in DOMAIN att \ {t} : <<u, p, s>> \notin locks
  /\ mem' = [mem EXCEPT ![p].slots[s] = new]
  /\ dirty' = dirty \cup {p}
  /\ att' = [att EXCEPT ![t].op =
               [page |-> p, slot |-> s, old |-> mem[p].slots[s], new |-> new]]
  /\ locks' = locks \cup {<<t, p, s>>}
  /\ UNCHANGED <<logVars, disk, platter, next_txn_id, ckptVars, runVars>>

FreeSlots(p) == {s \in Slots : mem[p].slots[s] = Nil}

\* Page::insert_record takes the first free slot.
Insert(t, p, v) == FreeSlots(p) # {} /\ Modify(t, p, Min(FreeSlots(p)), v)

Update(t, p, s, v) == mem[p].slots[s] \notin {Nil, v} /\ Modify(t, p, s, v)

Delete(t, p, s) == mem[p].slots[s] # Nil /\ Modify(t, p, s, Nil)

\* The UPDATE record, and the stamp its caller puts on the page; no stamp if
\* the page was evicted meanwhile and cannot be fetched.
log_update(t) ==
  /\ mode = "up"
  /\ t \in DOMAIN att /\ att[t].op # NoOp
  /\ LET op == att[t].op IN
     /\ log' = Appended(log, UpdateRecord(t, att[t].prev, op))
     /\ att' = [att EXCEPT ![t].prev = NextLsn(log), ![t].op = NoOp]
     /\ \/ /\ mem' = [mem EXCEPT ![op.page].lsn = NextLsn(log)]
           /\ dirty' = dirty \cup {op.page}
        \/ /\ FetchFails /\ op.page \notin dirty
           /\ UNCHANGED <<mem, dirty>>
  /\ UNCHANGED <<disk, platter, locks, next_txn_id, ckptVars, runVars>>

\* commit: the COMMIT record ...
commit(t) ==
  /\ CanCall
  /\ Growing(t)
  /\ MutexFree
  /\ log' = Appended(log, ControlRecord("COMMIT", t, att[t].prev))
  /\ att' = [att EXCEPT ![t].prev = NextLsn(log), ![t].state = "COMMITTED"]
  /\ UNCHANGED <<pageVars, locks, next_txn_id, ckptVars, runVars>>

\* Mutant: commit does not flush the log.
commit_force_NotForced(t) ==
  /\ mode = "up"
  /\ t \in DOMAIN att /\ att[t].state = "COMMITTED"
  /\ log' = Appended(log, ControlRecord("TXN_END", t, att[t].prev))
  /\ att' = Without(att, t)
  /\ locks' = {k \in locks : k[1] # t}
  /\ UNCHANGED <<pageVars, next_txn_id, ckptVars, runVars>>

\* ... is forced, and TXN_END written, before commit returns.
commit_force(t) ==
  /\ mode = "up"
  /\ t \in DOMAIN att /\ att[t].state = "COMMITTED"
  /\ log' = Appended(FlushedTo(log, att[t].prev), ControlRecord("TXN_END", t, att[t].prev))
  /\ att' = Without(att, t)
  /\ locks' = {k \in locks : k[1] # t}
  /\ UNCHANGED <<pageVars, next_txn_id, ckptVars, runVars>>

abort(t) ==
  /\ CanCall
  /\ Growing(t)
  /\ log' = Appended(log, ControlRecord("ABORT", t, att[t].prev))
  /\ att' = [att EXCEPT ![t].prev = NextLsn(log), ![t].state = "ABORTED",
                        ![t].undo = att[t].prev]
  /\ UNCHANGED <<pageVars, locks, next_txn_id, ckptVars, runVars>>

Aborting(t) == mode = "up" /\ t \in DOMAIN att /\ att[t].state = "ABORTED"

\* The page and the log once the change of record r is undone with a CLR.
Restored(r, lsn) == [mem EXCEPT ![r.page].slots[r.slot] = r.old, ![r.page].lsn = lsn]

Compensation(r, prev) == ClrRecord(r.txn, prev, r.page, r.slot, r.old, r.prev)

\* Mutant: a CLR leads back to the change it undid.
UndoNext_ClrFollowsPrev(r) == r.prev

\* Where an undo goes after record r.
UndoNext(r) == IF r.type = "CLR" THEN r.undo_next ELSE r.prev

\* abort's loop is at its end.
FullyUndone(t) == att[t].undo = NoLsn \/ RecordAt(log, att[t].undo).type = "BEGIN"

\* One turn of abort's loop; read_record_at_lsn flushes the log first.
abort_step(t) ==
  /\ Aborting(t)
  /\ ~FullyUndone(t)
  /\ LET r == RecordAt(log, att[t].undo) IN
     IF r.type = "UPDATE"
     THEN /\ log' = Appended(Synced(log), Compensation(r, att[t].prev))
          /\ mem' = Restored(r, NextLsn(log))
          /\ dirty' = dirty \cup {r.page}
          /\ att' = [att EXCEPT ![t].prev = NextLsn(log), ![t].undo = UndoNext(r)]
     ELSE /\ log' = Synced(log)
          /\ att' = [att EXCEPT ![t].undo = UndoNext(r)]
          /\ UNCHANGED <<mem, dirty>>
  /\ UNCHANGED <<disk, platter, locks, next_txn_id, ckptVars, runVars>>

\* The page of an UPDATE cannot be fetched: the change stays, without a CLR.
abort_skip(t) ==
  /\ FetchFails
  /\ Aborting(t)
  /\ ~FullyUndone(t)
  /\ LET r == RecordAt(log, att[t].undo) IN
     /\ r.type = "UPDATE" /\ r.page \notin dirty
     /\ att' = [att EXCEPT ![t].undo = r.prev]
  /\ log' = Synced(log)
  /\ UNCHANGED <<pageVars, locks, next_txn_id, ckptVars, runVars>>

abort_end(t) ==
  /\ Aborting(t)
  /\ MutexFree
  /\ FullyUndone(t)
  /\ log' = Appended(IF att[t].undo = NoLsn THEN log ELSE Synced(log),
                     ControlRecord("TXN_END", t, att[t].prev))
  /\ att' = Without(att, t)
  /\ locks' = {k \in locks : k[1] # t}
  /\ UNCHANGED <<pageVars, next_txn_id, ckptVars, runVars>>

-----------------------------------------------------------------------------
(* The log and the pages reach the disk.                                   *)

\* Any call of LogManager::flush from outside: a client's, or enforce_wal for
\* a page that holds no records.
FlushLog ==
  /\ mode = "up"
  /\ log' = Synced(log)
  /\ UNCHANGED <<pageVars, txnVars, ckptVars, runVars>>

\* Mutant: a page is written without enforce_wal.
WritePage_NoWal(p) ==
  /\ mode # "down"
  /\ p \in dirty
  /\ ~Concurrent => ckpt.phase \in {"idle", "flush"}
  /\ log' = log
  /\ disk' = [disk EXCEPT ![p] = mem[p]]
  /\ dirty' = dirty \ {p}
  /\ UNCHANGED <<mem, platter, txnVars, ckptVars, runVars>>

\* A dirty frame is written: evicted, flushed, or reached by flush_all_pages.
\* That may happen between a change and its log record, for the client has
\* unpinned the page and its work on the index may need every frame.  While a
\* checkpoint takes its snapshots its thread fetches no page.
WritePage(p) ==
  /\ mode # "down"
  /\ p \in dirty
  /\ ~Concurrent => ckpt.phase \in {"idle", "flush"}
  /\ log' = FlushedTo(log, mem[p].lsn)
  /\ disk' = [disk EXCEPT ![p] = mem[p]]
  /\ dirty' = dirty \ {p}
  /\ UNCHANGED <<mem, platter, txnVars, ckptVars, runVars>>

\* flush_all_pages: the log as enforce_wal leaves it after the dirty pages.
ForcedForPages(l) ==
  IF dirty = {} THEN l ELSE FlushedTo(l, Max({mem[p].lsn : p \in dirty}))

\* The operating system writes a page back; no fsync makes it do so.
WriteBack(p) ==
  /\ PowerLoss
  /\ platter[p] # disk[p]
  /\ platter' = [platter EXCEPT ![p] = disk[p]]
  /\ UNCHANGED <<logVars, mem, dirty, disk, txnVars, ckptVars, runVars>>

-----------------------------------------------------------------------------
(* CheckpointManager::checkpoint, call by call.                            *)

checkpoint ==
  /\ CanCall
  /\ ckpt.phase = "idle"
  /\ ckpts < MaxCkpt
  /\ NextLsn(log) < MaxLsn
  /\ log' = Appended(log, ControlRecord("CHECKPOINT_BEGIN", NoTxn, NoLsn))
  /\ ckpt' = [ckpt EXCEPT !.phase = "att"]
  /\ ckpts' = ckpts + 1
  /\ UNCHANGED <<pageVars, txnVars, runVars>>

get_att_snapshot ==
  /\ mode = "up" /\ ckpt.phase = "att"
  /\ MutexFree
  /\ ckpt' = [ckpt EXCEPT !.phase = "dpt", !.att = [t \in DOMAIN att |-> att[t].prev]]
  /\ UNCHANGED <<logVars, pageVars, txnVars, ckpts, runVars>>

get_dirty_pages ==
  /\ mode = "up" /\ ckpt.phase = "dpt"
  /\ ckpt' = [ckpt EXCEPT !.phase = "end", !.dpt = [p \in dirty |-> mem[p].lsn]]
  /\ UNCHANGED <<logVars, pageVars, txnVars, ckpts, runVars>>

checkpoint_end ==
  /\ mode = "up" /\ ckpt.phase = "end"
  /\ log' = Appended(log, CheckpointEnd(ckpt.att, ckpt.dpt))
  /\ ckpt' = [IdleCheckpoint EXCEPT !.phase = "flush", !.lsn = NextLsn(log)]
  /\ UNCHANGED <<pageVars, txnVars, ckpts, runVars>>

checkpoint_flush ==
  /\ mode = "up" /\ ckpt.phase = "flush"
  /\ log' = ForcedForPages(log)
  /\ disk' = [p \in Pages |-> IF p \in dirty THEN mem[p] ELSE disk[p]]
  /\ dirty' = {}
  /\ ckpt' = [ckpt EXCEPT !.phase = "force"]
  /\ UNCHANGED <<mem, platter, txnVars, ckpts, runVars>>

checkpoint_force ==
  /\ mode = "up" /\ ckpt.phase = "force"
  /\ log' = FlushedTo(log, ckpt.lsn)
  /\ ckpt' = IdleCheckpoint
  /\ UNCHANGED <<pageVars, txnVars, ckpts, runVars>>

-----------------------------------------------------------------------------
(* A crash: memory is gone; of a log write under way k records arrived.    *)

\* What the log rs says slot s of page p holds after the change with LSN n.
After(rs, cs) == IF cs = {} THEN Nil ELSE rs[Max(cs)].new

Changes(rs, p, s) ==
  {i \in 1..Len(rs) : IsChange(rs[i]) /\ rs[i].page = p /\ rs[i].slot = s}

Replayed(rs, p, s, n) == After(rs, {i \in Changes(rs, p, s) : i <= n + 1})

\* Slot s of pg, a copy of page p, holds what the log rs says for the LSN of
\* the copy or a later one: redo will get it right.
Explained(rs, pg, p, s) ==
  \E n \in {pg.lsn} \cup (pg.lsn..(Len(rs) - 1)) : pg.slots[s] = Replayed(rs, p, s, n)

\* The pages that are left after a crash.
Surviving == IF PowerLoss THEN platter ELSE disk

Crash(k) ==
  /\ mode # "down"
  /\ crashes < MaxCrash
  /\ ~CrashInWindow /\ ckpt.phase = "flush" => Len(log.stable) + k <= ckpt.lsn
  /\ ~CrashAhead => \A p \in Pages, s \in Slots :
                      Explained(Reopened(log, k).stable, Surviving[p], p, s)
  /\ log' = Reopened(log, k)
  /\ disk' = Surviving
  /\ mem' = disk'
  /\ dirty' = {}
  /\ att' = <<>>
  /\ locks' = {}
  /\ next_txn_id' = 0
  /\ ckpt' = IdleCheckpoint
  /\ mode' = "down"
  /\ rec' = IdleRecovery
  /\ crashes' = crashes + 1
  /\ UNCHANGED <<platter, ckpts>>

-----------------------------------------------------------------------------
(* RecoveryManager.                                                        *)

\* The position of the last CHECKPOINT_END of the log rs, or 0.
LastCheckpoint(rs) == Max({0} \cup {i \in 1..Len(rs) : rs[i].type = "CHECKPOINT_END"})

\* Mutant: only TXN_END takes a transaction out.
ScanAtt_CommitKept(rs, from, seed) ==
  LET scanned == {i \in (from + 1)..Len(rs) : rs[i].txn # NoTxn}
      last(t) == Max({i \in scanned : rs[i].txn = t})
      seen    == {rs[i].txn : i \in scanned}
      ended   == {t \in seen : rs[last(t)].type \in {"TXN_END"}}
  IN [t \in (DOMAIN seed \cup seen) \ ended |->
        IF t \in seen THEN last(t) - 1 ELSE seed[t]]

\* analyze's scan of the positions from + 1 .. Len(rs): every record of a
\* transaction enters it into the ATT with its own LSN or, if it is a COMMIT or
\* a TXN_END, takes it out, so the last one decides.
ScanAtt(rs, from, seed) ==
  LET scanned == {i \in (from + 1)..Len(rs) : rs[i].txn # NoTxn}
      last(t) == Max({i \in scanned : rs[i].txn = t})
      seen    == {rs[i].txn : i \in scanned}
      ended   == {t \in seen : rs[last(t)].type \in {"COMMIT", "TXN_END"}}
  IN [t \in (DOMAIN seed \cup seen) \ ended |->
        IF t \in seen THEN last(t) - 1 ELSE seed[t]]

\* Mutant: every change moves the page's rec_lsn on.
ScanDpt_LastChange(rs, from, seed) ==
  LET changes(p) == {i \in (from + 1)..Len(rs) : IsChange(rs[i]) /\ rs[i].page = p}
      changed    == {p \in Pages : changes(p) # {}}
  IN [p \in DOMAIN seed \cup changed |->
        IF p \in DOMAIN seed THEN seed[p] ELSE Max(changes(p)) - 1]

\* A page enters the DPT with the first change scanned, unless it is there.
ScanDpt(rs, from, seed) ==
  LET changes(p) == {i \in (from + 1)..Len(rs) : IsChange(rs[i]) /\ rs[i].page = p}
      changed    == {p \in Pages : changes(p) # {}}
  IN [p \in DOMAIN seed \cup changed |->
        IF p \in DOMAIN seed THEN seed[p] ELSE Min(changes(p)) - 1]

\* Mutant: the ATT is not seeded from the checkpoint.
analyze_NoSeed ==
  /\ mode = "down"
  /\ LET rs == log.stable
         c  == LastCheckpoint(rs)
         a  == <<>>
         d  == IF c = 0 THEN <<>> ELSE rs[c].dpt
     IN rec' = [att |-> ScanAtt(rs, c, a), dpt |-> ScanDpt(rs, c, d),
                pos |-> NoLsn, to_undo |-> {}]
  /\ mode' = "redo"
  /\ UNCHANGED <<logVars, pageVars, txnVars, ckptVars, crashes>>

analyze ==
  /\ mode = "down"
  /\ LET rs == log.stable
         c  == LastCheckpoint(rs)
         a  == IF c = 0 THEN <<>> ELSE rs[c].att
         d  == IF c = 0 THEN <<>> ELSE rs[c].dpt
     IN rec' = [att |-> ScanAtt(rs, c, a), dpt |-> ScanDpt(rs, c, d),
                pos |-> NoLsn, to_undo |-> {}]
  /\ mode' = "redo"
  /\ UNCHANGED <<logVars, pageVars, txnVars, ckptVars, crashes>>

\* Mutant: redo starts behind a page's rec_lsn.
Redoable_PastRecLsn(n) ==
  LET r == RecordAt(log, n) IN
  /\ IsChange(r)
  /\ r.page \in DOMAIN rec.dpt
  /\ n > rec.dpt[r.page]
  /\ n > mem[r.page].lsn

\* redo's checks on the record with LSN n.
Redoable(n) ==
  LET r == RecordAt(log, n) IN
  /\ IsChange(r)
  /\ r.page \in DOMAIN rec.dpt
  /\ n >= rec.dpt[r.page]
  /\ n > mem[r.page].lsn

ToRedo == {n \in (rec.pos + 1)..(NextLsn(log) - 1) : Redoable(n)}

\* redo applies the next record that passes its checks.
redo ==
  /\ mode = "redo"
  /\ ToRedo # {}
  /\ LET n == Min(ToRedo)
         r == RecordAt(log, n)
     IN /\ mem' = [mem EXCEPT ![r.page].slots[r.slot] = r.new, ![r.page].lsn = n]
        /\ dirty' = dirty \cup {r.page}
        /\ rec' = [rec EXCEPT !.pos = n]
  /\ UNCHANGED <<logVars, disk, platter, txnVars, ckptVars, mode, crashes>>

\* The page of that record cannot be fetched: redo goes on without it.
redo_skip ==
  /\ FetchFails
  /\ mode = "redo"
  /\ ToRedo # {}
  /\ RecordAt(log, Min(ToRedo)).page \notin dirty
  /\ rec' = [rec EXCEPT !.pos = Min(ToRedo)]
  /\ UNCHANGED <<logVars, pageVars, txnVars, ckptVars, mode, crashes>>

redo_end ==
  /\ mode = "redo"
  /\ ToRedo = {}
  /\ mode' = "undo"
  /\ rec' = [rec EXCEPT !.to_undo = {rec.att[t] : t \in DOMAIN rec.att} \ {NoLsn}]
  /\ UNCHANGED <<logVars, pageVars, txnVars, ckptVars, crashes>>

\* The record that undo takes out of to_undo, and what it leaves there.
UndoLsn == Max(rec.to_undo)
ToUndoAfter(r) == (rec.to_undo \ {UndoLsn}) \cup ({UndoNext(r)} \ {NoLsn})

\* Record r is the end of its transaction's undo.
EndsUndo(r) == r.type = "BEGIN" \/ (r.type = "CLR" /\ r.undo_next = NoLsn)

\* An UPDATE of a loser is undone.
undo_update ==
  /\ mode = "undo" /\ rec.to_undo # {}
  /\ LET r == RecordAt(log, UndoLsn) IN
     /\ r.type = "UPDATE"
     /\ log' = Appended(Synced(log), Compensation(r, rec.att[r.txn]))
     /\ mem' = Restored(r, NextLsn(log))
     /\ dirty' = dirty \cup {r.page}
     /\ rec' = [rec EXCEPT !.att = With(@, r.txn, NextLsn(log)), !.to_undo = ToUndoAfter(r)]
  /\ UNCHANGED <<disk, platter, txnVars, ckptVars, mode, crashes>>

\* Mutant: a record that is stepped over stays in to_undo.
undo_skip_Stuck ==
  /\ mode = "undo" /\ rec.to_undo # {}
  /\ LET r == RecordAt(log, UndoLsn) IN
     /\ r.type = "UPDATE" => FetchFails /\ r.page \notin dirty
     /\ ~EndsUndo(r)
     /\ rec' = [rec EXCEPT !.to_undo = @]
  /\ log' = Synced(log)
  /\ UNCHANGED <<pageVars, txnVars, ckptVars, mode, crashes>>

\* A CLR or an ABORT is stepped over, and so is an UPDATE whose page cannot be
\* fetched.
undo_skip ==
  /\ mode = "undo" /\ rec.to_undo # {}
  /\ LET r == RecordAt(log, UndoLsn) IN
     /\ r.type = "UPDATE" => FetchFails /\ r.page \notin dirty
     /\ ~EndsUndo(r)
     /\ rec' = [rec EXCEPT !.to_undo = ToUndoAfter(r)]
  /\ log' = Synced(log)
  /\ UNCHANGED <<pageVars, txnVars, ckptVars, mode, crashes>>

\* The loser is rolled back.
undo_txn_end ==
  /\ mode = "undo" /\ rec.to_undo # {}
  /\ LET r == RecordAt(log, UndoLsn) IN
     /\ EndsUndo(r)
     /\ log' = Appended(Synced(log), ControlRecord("TXN_END", r.txn, rec.att[r.txn]))
     /\ rec' = [rec EXCEPT !.att = Without(@, r.txn), !.to_undo = @ \ {UndoLsn}]
  /\ UNCHANGED <<pageVars, txnVars, ckptVars, mode, crashes>>

\* recover's last calls: flush_all and flush_all_pages.
recover_end ==
  /\ mode = "undo" /\ rec.to_undo = {}
  /\ log' = Synced(log)
  /\ disk' = [p \in Pages |-> IF p \in dirty THEN mem[p] ELSE disk[p]]
  /\ dirty' = {}
  /\ mode' = "up"
  /\ rec' = IdleRecovery
  /\ UNCHANGED <<mem, platter, txnVars, ckptVars, crashes>>

-----------------------------------------------------------------------------
Transactions ==
  \/ begin
  \/ \E t \in DOMAIN att :
       \/ \E p \in Pages, v \in Value : Insert(t, p, v)
       \/ \E p \in Pages, s \in Slots, v \in Value : Update(t, p, s, v)
       \/ \E p \in Pages, s \in Slots : Delete(t, p, s)
       \/ log_update(t)
       \/ commit(t)
       \/ commit_force(t)
       \/ abort(t)
       \/ abort_step(t)
       \/ abort_skip(t)
       \/ abort_end(t)

Checkpoints ==
  \/ checkpoint
  \/ get_att_snapshot
  \/ get_dirty_pages
  \/ checkpoint_end
  \/ checkpoint_flush
  \/ checkpoint_force

Recovery ==
  \/ analyze
  \/ redo
  \/ redo_skip
  \/ redo_end
  \/ undo_update
  \/ undo_skip
  \/ undo_txn_end
  \/ recover_end

Next ==
  \/ Transactions
  \/ Checkpoints
  \/ FlushLog
  \/ \E p \in Pages : WritePage(p)
  \/ \E p \in Pages : WriteBack(p)
  \/ \E k \in 0..Len(log.pending) : Crash(k)
  \/ Recovery

Spec == Init /\ [][Next]_vars

\* abort and recover are loops that run on once they are called.
Fairness ==
  /\ WF_vars(Recovery)
  /\ \A t \in 0..(MaxTxn - 1) : WF_vars(abort_step(t) \/ abort_skip(t) \/ abort_end(t))

FairSpec == Spec /\ Fairness

-----------------------------------------------------------------------------
(* Properties.                                                             *)

Lsn == Nat \cup {NoLsn}
Content == Value \cup {Nil}
Page == [lsn : Nat, slots : [Slots -> Content]]
Change == [page : Pages, slot : Slots, old : Content, new : Content]
Transaction ==
  [prev : Nat, state : {"GROWING", "COMMITTED", "ABORTED"}, undo : Lsn, op : Change \cup {NoOp}]

TypeOK ==
  /\ DOMAIN log = {"stable", "pending", "flushed"} /\ log.flushed \in Lsn
  /\ mem \in [Pages -> Page]
  /\ disk \in [Pages -> Page]
  /\ platter \in [Pages -> Page]
  /\ dirty \subseteq Pages
  /\ DOMAIN att \subseteq Nat /\ \A t \in DOMAIN att : att[t] \in Transaction
  /\ locks \subseteq Nat \X Pages \X Slots
  /\ next_txn_id \in Nat
  /\ ckpt.phase \in {"idle", "att", "dpt", "end", "flush", "force"}
  /\ mode \in {"up", "down", "redo", "undo"}
  /\ rec.to_undo \subseteq Nat

\* The COMMIT record that ends the transaction of the i-th record: the first
\* of that id with no BEGIN in between, for ids start again at every restart.
Committed(rs, i) ==
  \E c \in (i + 1)..Len(rs) :
    /\ rs[c].type = "COMMIT" /\ rs[c].txn = rs[i].txn
    /\ \A j \in (i + 1)..c : rs[j].type = "BEGIN" => rs[j].txn # rs[i].txn

CommittedValue(rs, p, s) ==
  After(rs, {i \in Changes(rs, p, s) : rs[i].type = "UPDATE" /\ Committed(rs, i)})

\* ACID, as a client sees it: while the engine runs, a record that no running
\* transaction has modified holds what the last committed transaction wrote,
\* whatever aborts, checkpoints, crashes and recoveries went before.
CommittedVisible ==
  mode = "up" =>
    \A p \in Pages, s \in Slots :
      (\A t \in DOMAIN att : <<t, p, s>> \notin locks)
        => mem[p].slots[s] = CommittedValue(Records(log), p, s)

\* commit: when TXN_END is appended, its COMMIT record is on stable storage.
CommitForced ==
  \A i \in 1..NextLsn(log) :
    LET r == Records(log)[i] IN
    r.type = "TXN_END" /\ RecordAt(log, r.prev).type = "COMMIT" => r.prev < Len(log.stable)

\* The write-ahead rule of enforce_wal: a page on disk carries the LSN of a
\* stable record and shows every change of the log up to it.  What else it
\* shows is a change that the log has under a later LSN, or the one that a
\* running transaction is about to log.
WrittenIsLogged ==
  \A p \in Pages :
    /\ disk[p].lsn = 0 \/ disk[p].lsn < Len(log.stable)
    /\ \A s \in Slots :
         \/ Explained(Records(log), disk[p], p, s)
         \/ \E t \in DOMAIN att :
              /\ att[t].op # NoOp
              /\ att[t].op.page = p /\ att[t].op.slot = s /\ att[t].op.new = disk[p].slots[s]

\* analyze: starting from the checkpoint it finds the losers, and the last
\* record of each, that the whole log shows.
AnalysisExact == mode = "redo" => rec.att = ScanAtt(log.stable, 0, <<>>)

\* analyze, in the words of its comment: "att_ contains only LOSER
\* transactions (never committed)", also of a checkpoint taken while other
\* threads commit.
LosersOnly ==
  mode = "redo" => \A t \in DOMAIN rec.att : ~Committed(log.stable, rec.att[t] + 1)

\* redo: no change that the page in hand lacks is passed over by the DPT.
RedoComplete ==
  mode = "redo" =>
    \A n \in 0..(NextLsn(log) - 1) :
      LET r == RecordAt(log, n) IN
      IsChange(r) /\ n > mem[r.page].lsn => n \in ToRedo

\* abort and undo: no change is compensated twice, however often the undo is
\* interrupted; the CLR of a change names the record in front of it.
UndoneOnce ==
  \A i, j \in 1..NextLsn(log) :
    LET r == Records(log)[i]
        q == Records(log)[j]
    IN r.type = "CLR" /\ q.type = "CLR" /\ r.undo_next = q.undo_next => i = j

\* Recovery ends, and abort ends or dies with the process.
RecoveryEnds == (mode # "up") ~> (mode = "up")
AbortEnds == \A t \in 0..(MaxTxn - 1) : Aborting(t) ~> ~Aborting(t)
==============================================================================

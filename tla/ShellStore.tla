----------------------------- MODULE ShellStore -----------------------------
(***************************************************************************)
(* The commands of the shell (src/src/shell.cpp, src/src/shell_commands.cpp) *)
(* over the heap of data pages, the index and the log: put, del, update,   *)
(* fill, begin, commit, abort, flush, recover, exit and a crash, and the   *)
(* start of the process (init_storage), which recovers the pages from the  *)
(* log and rebuilds the index from the pages.                              *)
(*                                                                         *)
(* A command is one step: the steps inside the log, the pool, recovery and *)
(* a page are the subject of the other modules.  A page is its type, its   *)
(* slots and its LSN; bytes are left out, so whether a page that holds     *)
(* something has room for one more record is a choice.  The index is the   *)
(* map that module KeyMap specifies and BTree implements; its pages are    *)
(* left out, and data pages are numbered in the order of their page ids.   *)
(*                                                                         *)
(* Some sequences of commands lead to states the shell does not survive.   *)
(* Each is switched off unless its name is in Allowed.                     *)
(***************************************************************************)
EXTENDS Integers, FiniteSets, SequencesExt

CONSTANTS
    Keys, Vals,         \* what put stores
    SlotsPerPage,       \* slots of a page
    MaxPages,           \* bound on the number of data pages
    MaxLog,             \* bound on the length of the log, undo not counted
    MaxOps,             \* bound on the changes of one open transaction
    Allowed             \* the names of the sequences below that may happen

ASSUME StoreAssumption ==
    /\ {SlotsPerPage, MaxPages, MaxLog, MaxOps} \subseteq Nat \ {0}
    /\ Allowed \subseteq {"refused_put", "moving_update", "untyped_recover",
                          "open_recover", "empty_restart"}

VARIABLES
    shell,      \* the process: pages, data_page, index, log and last
    disk,       \* the images of the pages
    flushed,    \* how much of the log is durable
    status,     \* "up", "crashed", "exited" or "lost" (see StatusAfterStore)
    view,       \* history: what the user has stored, as pairs <<key, value>>
    committed   \* history: view as of the last commit

vars == <<shell, disk, flushed, status, view, committed>>

-----------------------------------------------------------------------------
(* A data page.  A record is a pair <<key, value>>; no record is <<>>. *)

Tombstone == <<"tombstone">>        \* a slot whose record was deleted
Blank == <<"blank">>                \* a slot of a zeroed page that redo passed over
IsRecord(slot) == Len(slot) = 2

\* A page that was never written reads as zeros, and META is zero.
ZeroPage == [type |-> "META", slots |-> <<>>, lsn |-> 0]
InitPage == [type |-> "DATA", slots |-> <<>>, lsn |-> 0]

Tombstones(p) == {s \in DOMAIN p.slots : p.slots[s] = Tombstone}

\* Mutant: a tombstone counts as room and is not taken.
NextSlot_Appends(p) == Len(p.slots) + 1

\* The slot insert_record takes.
NextSlot(p) == IF Tombstones(p) = {} THEN Len(p.slots) + 1 ELSE Min(Tombstones(p))

\* insert_record, redo_insert and update_record leave rec in the slot.
SetSlot(p, s, rec) ==
    [p EXCEPT !.slots = [i \in 1 .. Max({Len(@), s}) |->
                            IF i = s THEN rec ELSE IF i <= Len(@) THEN @[i] ELSE Blank]]

DeleteRecord(p, s) == IF s \in DOMAIN p.slots THEN SetSlot(p, s, Tombstone) ELSE p

ReadRecord(p, s) ==
    IF s \in DOMAIN p.slots /\ IsRecord(p.slots[s]) THEN p.slots[s] ELSE <<>>

-----------------------------------------------------------------------------
(* The log.  A record's LSN is its index; prev is the LSN the undo of its  *)
(* transaction goes to next, and 0 ends the chain.                         *)

NoRid == <<0, 0>>

Mark(type, prev) ==
    [type |-> type, rid |-> NoRid, old |-> <<>>, new |-> <<>>, key |-> <<>>, prev |-> prev]

Update(rid, old, new, key, prev) ==
    [type |-> "UPDATE", rid |-> rid, old |-> old, new |-> new, key |-> key, prev |-> prev]

Clr(rid, new, undo_next) ==
    [type |-> "CLR", rid |-> rid, old |-> <<>>, new |-> new, key |-> <<>>, prev |-> undo_next]

IsData(rec) == rec.type \in {"UPDATE", "CLR"}

\* The LSNs that the undo loop meets as UPDATEs, from lsn down to BEGIN.
ToUndo(log, lsn) ==
    LET chain[n \in 0 .. lsn] ==
            IF n = 0 THEN <<>>
            ELSE (IF log[n].type = "UPDATE" THEN <<n>> ELSE <<>>) \o chain[log[n].prev]
    IN  chain[lsn]

-----------------------------------------------------------------------------
(* The index, as a map: insert and remove.                                 *)

IndexInsert(index, key, rid) ==
    [k \in DOMAIN index \cup {key} |-> IF k = key THEN rid ELSE index[k]]

IndexRemove(index, key) == [k \in DOMAIN index \ {key} |-> index[k]]

-----------------------------------------------------------------------------
(* The TransactionManager: each operator maps the process to what it is    *)
(* after the call.                                                         *)

TxnBegin(st) ==
    [st EXCEPT !.log = Append(@, Mark("BEGIN", 0)), !.last = Len(st.log) + 1]

LogUpdate(st, rid, old, new, key) ==
    [st EXCEPT !.log = Append(@, Update(rid, old, new, key, st.last)),
               !.last = Len(st.log) + 1]

TxnCommit(st) ==
    LET lsn == Len(st.log) + 1
    IN  [st EXCEPT !.log = @ \o <<Mark("COMMIT", st.last), Mark("TXN_END", lsn)>>,
                   !.last = 0]

\* Mutant: the index keeps the key of an insert that was undone.
UndoIndex_Ghost(index, rec) ==
    IF rec.old # <<>> /\ rec.new = <<>> /\ rec.key \notin DOMAIN index
    THEN IndexInsert(index, rec.key, rec.rid)
    ELSE index

\* What undoing the record does to the index.  An UPDATE that replaced one
\* record by another leaves the index alone.
UndoIndex(index, rec) ==
    IF rec.old = <<>> THEN IndexRemove(index, rec.key)
    ELSE IF rec.new = <<>> /\ rec.key \notin DOMAIN index
         THEN IndexInsert(index, rec.key, rec.rid)
    ELSE index

UndoPage(p, rec) ==
    IF rec.old = <<>> THEN DeleteRecord(p, rec.rid[2]) ELSE SetSlot(p, rec.rid[2], rec.old)

\* Mutant: the page does not get the LSN of the CLR.
UndoOne_Unstamped(st, lsn) ==
    LET rec == st.log[lsn]
    IN  [st EXCEPT !.log = Append(@, Clr(rec.rid, rec.old, rec.prev)),
                   !.pages[rec.rid[1]] = UndoPage(@, rec),
                   !.index = UndoIndex(@, rec)]

\* One UPDATE undone: the page, its CLR, the stamp.
UndoOne(st, lsn) ==
    LET rec == st.log[lsn]
    IN  [st EXCEPT !.log = Append(@, Clr(rec.rid, rec.old, rec.prev)),
                   !.pages[rec.rid[1]] = [UndoPage(@, rec) EXCEPT !.lsn = Len(st.log) + 1],
                   !.index = UndoIndex(@, rec)]

UndoAll(st, lsns) ==
    LET undo[i \in 0 .. Len(lsns)] == IF i = 0 THEN st ELSE UndoOne(undo[i - 1], lsns[i])
    IN  undo[Len(lsns)]

TxnAbort(st) ==
    LET aborted == [st EXCEPT !.log = Append(@, Mark("ABORT", st.last))]
        undone == UndoAll(aborted, ToUndo(st.log, st.last))
    IN  [undone EXCEPT !.log = Append(@, Mark("TXN_END", 0)), !.last = 0]

-----------------------------------------------------------------------------
(* Recovery: RecoveryManager::recover and the two rebuilds of the index.   *)

RedoPage(p, rec) ==
    IF rec.new = <<>> THEN DeleteRecord(p, rec.rid[2]) ELSE SetSlot(p, rec.rid[2], rec.new)

RedoOne(pages, log, lsn) ==
    LET rec == log[lsn]
    IN  IF IsData(rec) /\ pages[rec.rid[1]].lsn < lsn
        THEN [pages EXCEPT ![rec.rid[1]] = [RedoPage(@, rec) EXCEPT !.lsn = lsn]]
        ELSE pages

\* The pages after redo of the first n records of the log.
RedoAll(pages, log, n) ==
    LET redo[i \in 0 .. n] == IF i = 0 THEN pages ELSE RedoOne(redo[i - 1], log, i)
    IN  redo[n]

\* Analysis reads the durable log.  With one transaction at a time there is
\* at most one loser, the one that the last durable record belongs to.
RecoverPages(st, n) ==
    LET redone == [st EXCEPT !.pages = RedoAll(st.pages, st.log, n)]
        loser == n # 0 /\ st.log[n].type \notin {"COMMIT", "TXN_END"}
        undone == UndoAll(redone, ToUndo(st.log, n))
    IN  IF loser THEN [undone EXCEPT !.log = Append(@, Mark("TXN_END", 0))] ELSE redone

\* The rids of the pages in the set ps, in the order in which a rebuild meets
\* them, are inserted one by one: the first record of a key wins.
Rebuild(pages, ps) ==
    LET rids == {r \in ps \X (1 .. SlotsPerPage) : ReadRecord(pages[r[1]], r[2]) # <<>>}
        key(r) == pages[r[1]].slots[r[2]][1]
        before(r, q) == r[1] < q[1] \/ (r[1] = q[1] /\ r[2] < q[2])
    IN  [k \in {key(r) : r \in rids} |->
            CHOOSE r \in rids : key(r) = k /\ \A q \in rids \ {r} : key(q) = k => before(r, q)]

\* The pages that UPDATE and CLR records of the log name.
DataPages(log) == {log[i].rid[1] : i \in {j \in DOMAIN log : IsData(log[j])}}

\* The pages as init_storage finds them: images, and zeros for what the log
\* names beyond the end of the file.
Loaded(images, log) ==
    images \o [p \in 1 .. Max(DataPages(log) \cup {Len(images)}) - Len(images) |-> ZeroPage]

\* No process: of its state the log file is what is left.
Stopped(log) ==
    [pages |-> <<>>, data_page |-> 0, index |-> <<>>, log |-> log, last |-> 0]

\* The process after init_storage with this file and this log.
Started(images, log) ==
    LET found == [Stopped(log) EXCEPT !.pages = Loaded(images, log)]
        recovered == [RecoverPages(found, Len(log)) EXCEPT !.index = <<>>]
    IN  IF log = <<>>
        THEN [found EXCEPT !.pages = Append(@, InitPage), !.data_page = Len(found.pages) + 1]
        ELSE [recovered EXCEPT !.index = Rebuild(recovered.pages, DataPages(log)),
                               !.data_page = Max(DataPages(log) \cup {0})]

-----------------------------------------------------------------------------
(* The commands.  fits chooses whether the data page has bytes left.       *)

IndexLeaf == MaxPages + 1       \* a page id that is no data page's

\* An index leaf never has: its link to the next leaf reads as a free space
\* pointer beyond the page.
HasRoom(st, fits) ==
    /\ st.data_page \in DOMAIN st.pages
    /\ LET p == st.pages[st.data_page]
       IN  \/ p.slots = <<>>
           \/ fits /\ (Tombstones(p) # {} \/ Len(p.slots) < SlotsPerPage)

\* store_value, with the RID it returns in the field rid.  With data_page_id_
\* invalid the record goes to a frame of zeros that has no page id.
StoreValue(st, rec, fits) ==
    LET room == HasRoom(st, fits)
        pages == IF room THEN st.pages ELSE Append(st.pages, InitPage)
        d == IF room THEN st.data_page ELSE Len(pages)
        s == NextSlot(pages[d])
    IN  IF st.data_page = 0 THEN [rid |-> NoRid, st |-> st]
        ELSE [rid |-> <<d, s>>,
              st |-> [st EXCEPT !.pages = [pages EXCEPT ![d] = SetSlot(@, s, rec)],
                                !.data_page = d]]

Stamp(st, p) == IF p = 0 THEN st ELSE [st EXCEPT !.pages[p].lsn = st.last]

\* put and one turn of fill inside their transaction: a key that exists is
\* refused after its record was stored.
PutRecord(st, k, v, fits) ==
    LET stored == StoreValue(st, <<k, v>>, fits)
        rid == stored.rid
        indexed == [stored.st EXCEPT !.index = IndexInsert(@, k, rid)]
    IN  IF k \in DOMAIN st.index THEN stored.st
        ELSE Stamp(LogUpdate(indexed, rid, <<>>, <<k, v>>, k), rid[1])

\* Mutant: the record stays on its page.
DelRecord_KeepsRecord(st, k) ==
    LET rid == st.index[k]
        old == ReadRecord(st.pages[rid[1]], rid[2])
        deleted == [st EXCEPT !.index = IndexRemove(@, k)]
    IN  Stamp(LogUpdate(deleted, rid, old, <<>>, k), rid[1])

DelRecord(st, k) ==
    LET rid == st.index[k]
        old == ReadRecord(st.pages[rid[1]], rid[2])
        deleted == [st EXCEPT !.pages[rid[1]] = DeleteRecord(@, rid[2]),
                              !.index = IndexRemove(@, k)]
    IN  Stamp(LogUpdate(deleted, rid, old, <<>>, k), rid[1])

\* update deletes at the old RID and logs both images under the new one.
UpdateRecord(st, k, v, fits) ==
    LET rid == st.index[k]
        old == ReadRecord(st.pages[rid[1]], rid[2])
        deleted == [st EXCEPT !.pages[rid[1]] = DeleteRecord(@, rid[2])]
        stored == StoreValue(deleted, <<k, v>>, fits)
        indexed == [stored.st EXCEPT !.index[k] = stored.rid]
    IN  Stamp(LogUpdate(indexed, stored.rid, old, <<k, v>>, <<>>), stored.rid[1])

Opened == IF shell.last = 0 THEN TxnBegin(shell) ELSE shell

Bounded(st) ==
    /\ Len(st.log) <= MaxLog
    /\ Len(st.pages) <= MaxPages
    /\ Len(ToUndo(st.log, st.last)) <= MaxOps

CanStore == shell.data_page # 0 \/ "empty_restart" \in Allowed

\* What the shell does after it stored a record nowhere is not modelled.
StatusAfterStore == status' = IF shell.data_page = 0 THEN "lost" ELSE status

\* Mutant: an automatic transaction returns before its COMMIT is durable.
Finish_NoForce(st, contents) ==
    /\ shell' = IF shell.last = 0 THEN TxnCommit(st) ELSE st
    /\ Bounded(shell')
    /\ flushed' = st.last
    /\ view' = contents
    /\ committed' = IF shell.last = 0 THEN contents ELSE committed
    /\ StatusAfterStore
    /\ UNCHANGED disk

\* The end of put, del and update: the log is forced up to the UPDATE, and
\* an automatic transaction commits, which forces its COMMIT.
Finish(st, contents) ==
    /\ shell' = IF shell.last = 0 THEN TxnCommit(st) ELSE st
    /\ Bounded(shell')
    /\ flushed' = IF shell.last = 0 THEN st.last + 1 ELSE st.last
    /\ view' = contents
    /\ committed' = IF shell.last = 0 THEN contents ELSE committed
    /\ StatusAfterStore
    /\ UNCHANGED disk

\* A refused put: an automatic transaction aborts.  abort reads the log, which
\* makes all of it durable but the TXN_END.
Refuse(st) ==
    /\ shell' = IF shell.last = 0 THEN TxnAbort(st) ELSE st
    /\ Bounded(shell')
    /\ flushed' = IF shell.last = 0 THEN Len(shell'.log) - 1 ELSE flushed
    /\ UNCHANGED <<disk, status, view, committed>>

Without(contents, k) == {r \in contents : r[1] # k}

Put(k, v, fits) ==
    /\ status = "up"
    /\ CanStore
    /\ LET st == PutRecord(Opened, k, v, fits)
       IN  IF k \in DOMAIN shell.index
           THEN "refused_put" \in Allowed /\ Refuse(st)
           ELSE Finish(st, view \cup {<<k, v>>})

Del(k) ==
    /\ status = "up"
    /\ k \in DOMAIN shell.index
    /\ Finish(DelRecord(Opened, k), Without(view, k))

UpdateCmd(k, v, fits) ==
    /\ status = "up"
    /\ k \in DOMAIN shell.index
    /\ LET st == UpdateRecord(Opened, k, v, fits)
       IN  /\ "moving_update" \in Allowed \/ st.index[k] = shell.index[k]
           /\ Finish(st, Without(view, k) \cup {<<k, v>>})

\* fill puts its records in one transaction and forces the log only to commit.
Fill(k1, k2, v, fits1, fits2) ==
    /\ status = "up"
    /\ CanStore
    /\ k1 # k2
    /\ "refused_put" \in Allowed \/ {k1, k2} \cap DOMAIN shell.index = {}
    /\ LET st == PutRecord(PutRecord(Opened, k1, v, fits1), k2, v, fits2)
           new == {<<k, v>> : k \in {k1, k2} \ DOMAIN shell.index}
       IN  /\ shell' = IF shell.last = 0 THEN TxnCommit(st) ELSE st
           /\ flushed' = IF shell.last = 0 THEN Len(shell'.log) - 1 ELSE flushed
           /\ view' = view \cup new
    /\ committed' = IF shell.last = 0 THEN view' ELSE committed
    /\ Bounded(shell')
    /\ StatusAfterStore
    /\ UNCHANGED disk

Begin ==
    /\ status = "up"
    /\ shell.last = 0
    /\ shell' = TxnBegin(shell)
    /\ Bounded(shell')
    /\ UNCHANGED <<disk, flushed, status, view, committed>>

Commit ==
    /\ status = "up"
    /\ shell.last # 0
    /\ shell' = TxnCommit(shell)
    /\ flushed' = Len(shell'.log) - 1
    /\ committed' = view
    /\ UNCHANGED <<disk, status, view>>

Abort ==
    /\ status = "up"
    /\ shell.last # 0
    /\ shell' = TxnAbort(shell)
    /\ flushed' = Len(shell'.log) - 1
    /\ view' = committed
    /\ UNCHANGED <<disk, status, committed>>

\* A page is written out: the pool evicts it.  Write-ahead: the log first.
Evict(p) ==
    /\ status = "up"
    /\ p \in DOMAIN shell.pages
    /\ p \in DOMAIN disk => disk[p] # shell.pages[p]
    /\ disk' = [q \in 1 .. Max({p, Len(disk)}) |->
                   IF q = p THEN shell.pages[p] ELSE IF q <= Len(disk) THEN disk[q] ELSE ZeroPage]
    /\ flushed' = IF shell.pages[p].lsn > flushed THEN Len(shell.log) ELSE flushed
    /\ UNCHANGED <<shell, status, view, committed>>

\* The flush command.
FlushAll ==
    /\ status = "up"
    /\ disk # shell.pages
    /\ disk' = shell.pages
    /\ flushed' = IF \E p \in DOMAIN shell.pages : shell.pages[p].lsn > flushed
                  THEN Len(shell.log) ELSE flushed
    /\ UNCHANGED <<shell, status, view, committed>>

\* The recover command: recovery runs over the live pool, and the index is
\* rebuilt from the pages of type DATA.  The new index's leaf has the type
\* byte of a data page and is the last page the scan meets.
Recover ==
    /\ status = "up"
    /\ shell.last = 0 \/ "open_recover" \in Allowed
    /\ LET st == RecoverPages(shell, flushed)
           typed == {p \in DOMAIN st.pages : st.pages[p].type = "DATA"}
       IN  /\ typed = DOMAIN st.pages \/ "untyped_recover" \in Allowed
           /\ shell' = [st EXCEPT !.index = Rebuild(st.pages, typed), !.data_page = IndexLeaf]
           /\ disk' = st.pages
           /\ flushed' = Len(st.log)
    /\ Bounded(shell')
    /\ UNCHANGED <<status, view, committed>>

\* Bound: a start with an empty log, which takes a new page, still has one.
PageLeft(images, log) == log = <<>> => Len(images) < MaxPages

\* exit: the open transaction is aborted, and everything is written out.
Exit ==
    /\ status = "up"
    /\ LET st == IF shell.last # 0 THEN TxnAbort(shell) ELSE shell
       IN  /\ shell' = Stopped(st.log)
           /\ disk' = st.pages
           /\ flushed' = Len(st.log)
    /\ PageLeft(disk', shell'.log)
    /\ status' = "exited"
    /\ view' = committed
    /\ UNCHANGED committed

\* The process dies: what is not durable is gone.
Crash ==
    /\ status = "up"
    /\ status' = "crashed"
    /\ shell' = Stopped(SubSeq(shell.log, 1, flushed))
    /\ PageLeft(disk, shell'.log)
    /\ view' = committed
    /\ UNCHANGED <<disk, flushed, committed>>

Restart ==
    /\ status \in {"crashed", "exited"}
    /\ shell' = Started(disk, shell.log)
    /\ disk' = IF shell.log = <<>> THEN disk ELSE shell'.pages
    /\ flushed' = Len(shell'.log)
    /\ status' = "up"
    /\ UNCHANGED <<view, committed>>

-----------------------------------------------------------------------------
Init ==
    /\ shell = Started(<<>>, <<>>)
    /\ disk = <<>>
    /\ flushed = 0
    /\ status = "up"
    /\ view = {}
    /\ committed = {}

Next ==
    \/ \E k \in Keys, v \in Vals, fits \in BOOLEAN : Put(k, v, fits)
    \/ \E k \in Keys : Del(k)
    \/ \E k \in Keys, v \in Vals, fits \in BOOLEAN : UpdateCmd(k, v, fits)
    \/ \E k1, k2 \in Keys, v \in Vals, fits1, fits2 \in BOOLEAN :
            Fill(k1, k2, v, fits1, fits2)
    \/ Begin
    \/ Commit
    \/ Abort
    \/ \E p \in 1 .. MaxPages : Evict(p)
    \/ FlushAll
    \/ Recover
    \/ Exit
    \/ Crash
    \/ Restart

Spec == Init /\ [][Next]_vars

-----------------------------------------------------------------------------
(* Properties. *)

RecordSet == Keys \X Vals

PageSet ==
    [type : {"META", "DATA"}, lsn : Nat,
     slots : UNION {[1 .. n -> RecordSet \cup {Tombstone, Blank}] : n \in 0 .. SlotsPerPage}]

\* The state is well formed; in particular no page holds more slots than it
\* has, and the durable part of the log is a part of the log.
TypeOK ==
    /\ \A ps \in {shell.pages, disk} : \A p \in DOMAIN ps : ps[p] \in PageSet
    /\ Len(shell.pages) <= MaxPages
    /\ shell.data_page \in 0 .. IndexLeaf
    /\ DOMAIN shell.index \subseteq Keys
    /\ shell.last \in 0 .. Len(shell.log)
    /\ flushed \in 0 .. Len(shell.log)
    /\ status \in {"up", "crashed", "exited", "lost"}
    /\ view \subseteq RecordSet
    /\ committed \subseteq RecordSet

\* What get returns, key by key.
Contents(st) ==
    {<<k, LET rec == ReadRecord(st.pages[st.index[k][1]], st.index[k][2])
          IN  IF rec = <<>> THEN "record not found" ELSE rec[2]>> :
        k \in {j \in DOMAIN st.index : st.index[j] # NoRid}}

\* get returns what the user stored and nothing else: after an abort what was
\* committed before, and after any crash, exit, restart or recover the same
\* contents from an index that was built anew (cmd_get, shell.cpp:318-335).
GetAgrees == status \in {"up", "lost"} => Contents(shell) = view

\* The heap holds exactly one record of each key, the one the index names.
\* The rebuild of the index reads the heap alone and lets the first record of
\* a key win, so that a record left behind anywhere comes back as data.
HeapMatchesIndex ==
    status = "up" =>
        \A p \in DOMAIN shell.pages : \A s \in DOMAIN shell.pages[p].slots :
            LET rec == shell.pages[p].slots[s]
            IN  IsRecord(rec) => rec[1] \in DOMAIN shell.index /\ shell.index[rec[1]] = <<p, s>>

\* At every moment the file and the durable log together hold the committed
\* contents: a start from them alone finds exactly these (README.md:24,
\* "strict atomicity and durability guarantees").
Recoverable == Contents(Started(disk, SubSeq(shell.log, 1, flushed))) = committed

\* "If the last shutdown was clean, recovery is a no-op." (shell.cpp:47): a
\* restart after exit changes no page and appends nothing to the log.
CleanRestartIsNoop ==
    [][status = "exited" /\ status' = "up" /\ shell.log # <<>>
            => shell'.pages = disk /\ shell'.log = shell.log]_vars
=============================================================================

----------------------------- MODULE SlottedPage -----------------------------
(***************************************************************************)
(* One slotted page (src/src/page.cpp) under the write-ahead protocol of   *)
(* its callers: every change of the page is followed by a log record and   *)
(* by set_page_lsn, the page is written out at any time, and after a crash *)
(* the records above the page's LSN are redone and the open transaction is *)
(* undone (src/src/recovery_manager.cpp, src/src/transaction_manager.cpp). *)
(* A change, its log record and its stamp are one step; with EvictAhead    *)
(* the page may have been written in between.                              *)
(*                                                                         *)
(* The header is the fields of a page record, the slot directory is the    *)
(* function slots, and the data region is the function mem from offsets to *)
(* cells.  In the buffer the directory and the data region share one       *)
(* array.  Keeping them apart is faithful until the data region overruns   *)
(* the directory, so behaviours end there: the last state shows the        *)
(* overrun.  Sizes are constants, so that a page fills after a few records.*)
(***************************************************************************)
EXTENDS Integers, Sequences, FiniteSets

CONSTANTS
    PAGE_SIZE,          \* bytes of a page
    PAGE_HEADER_SIZE,   \* bytes of the header
    SLOT_BYTES,         \* bytes of one slot directory entry
    PREFIX_BYTES,       \* bytes of the size prefix of a record
    Payloads,           \* records a client stores: nonempty sequences of bytes
    EvictAhead,         \* the page may be written between a change and its record
    MaxLsn              \* bound on the length of the log

ASSUME SizesAssumption ==
    /\ {PAGE_SIZE, PAGE_HEADER_SIZE, SLOT_BYTES, PREFIX_BYTES, MaxLsn}
            \subseteq Nat \ {0}
    /\ PAGE_HEADER_SIZE < PAGE_SIZE
    /\ PAGE_SIZE < 65536        \* lengths and counters, uint16_t, cover a page
    /\ \A d \in Payloads : d \in Seq(Nat \ {0}) /\ d # <<>>

ASSUME EvictAssumption == EvictAhead \in BOOLEAN

VARIABLES
    page,       \* the page in the buffer pool
    image,      \* the page on disk
    log,        \* the log records of this page; a record's LSN is its index
    last,       \* LSN of the open transaction's last record, 0 when none is open
    phase,      \* "run", "undo" or "redo"
    cursor      \* "undo": LSN to undo next; "redo": LSN to redo next

vars == <<page, image, log, last, phase, cursor>>

SLOT_TOMBSTONE == PAGE_SIZE     \* an offset no record can have

MAX_SLOTS_PER_PAGE == (PAGE_SIZE - PAGE_HEADER_SIZE) \div SLOT_BYTES

SlotIds == 0 .. MAX_SLOTS_PER_PAGE - 1

U16(n) == n % 65536             \* the counters are uint16_t

-----------------------------------------------------------------------------
(* The layout of a page. *)

ZeroPage ==
    [slot_count |-> 0, tombstone_count |-> 0, free_space_ptr |-> 0, page_lsn |-> 0,
     slots |-> [s \in SlotIds |-> [offset |-> 0, length |-> 0]],
     mem |-> [i \in PAGE_HEADER_SIZE .. PAGE_SIZE - 1 |-> 0]]

InitPage == [ZeroPage EXCEPT !.free_space_ptr = PAGE_HEADER_SIZE]

SlotDirStart(p) == PAGE_SIZE - p.slot_count * SLOT_BYTES

FreeSpace(p) ==
    IF p.free_space_ptr <= SlotDirStart(p) THEN SlotDirStart(p) - p.free_space_ptr ELSE 0

CanInsert(p, size) ==
    FreeSpace(p) >= PREFIX_BYTES + size
                        + (IF p.tombstone_count = 0 THEN SLOT_BYTES ELSE 0)

IsTombstone(p, s) == p.slots[s].offset = SLOT_TOMBSTONE

Allocated(p) == 0 .. p.slot_count - 1

Live(p) == {s \in Allocated(p) : ~IsTombstone(p, s)}

FindFreeSlot(p) ==
    CHOOSE s \in Allocated(p) :
        /\ IsTombstone(p, s)
        /\ \A t \in 0 .. s - 1 : ~IsTombstone(p, t)

\* The slot insert_record takes.
NextSlot(p) == IF p.tombstone_count > 0 THEN FindFreeSlot(p) ELSE p.slot_count

\* [size prefix][payload] at an offset of the data region; the slot then
\* points at it.
WriteAt(p, s, off, d) ==
    [p EXCEPT
        !.mem = [i \in DOMAIN @ |->
                    IF i = off THEN Len(d)
                    ELSE IF i \in off + PREFIX_BYTES .. off + PREFIX_BYTES + Len(d) - 1
                         THEN d[i - off - PREFIX_BYTES + 1]
                         ELSE @[i]],
        !.slots[s] = [offset |-> off, length |-> Len(d)],
        !.free_space_ptr = off + PREFIX_BYTES + Len(d)]

SetPageLsn(p, lsn) == [p EXCEPT !.page_lsn = lsn]

-----------------------------------------------------------------------------
(* The operations of Page.  A reader gets <<>> where read_record is false. *)

ReadRecord(p, s) ==
    LET e == p.slots[s]
        first == e.offset + PREFIX_BYTES
        readable ==
            /\ s < p.slot_count
            /\ e.offset # SLOT_TOMBSTONE
            /\ e.offset >= PAGE_HEADER_SIZE
            /\ first + e.length <= PAGE_SIZE
            /\ p.mem[e.offset] = e.length
    IN  IF readable THEN [i \in 1 .. e.length |-> p.mem[first + i - 1]] ELSE <<>>

\* Mutant: the tombstone that is taken stays counted.
InsertRecord_Recount(p, d) ==
    LET s == NextSlot(p)
        q == [p EXCEPT !.slot_count = IF p.tombstone_count > 0 THEN @ ELSE U16(@ + 1)]
    IN  WriteAt(q, s, p.free_space_ptr, d)

InsertRecord(p, d) ==
    LET s == NextSlot(p)
        q == IF p.tombstone_count > 0
             THEN [p EXCEPT !.tombstone_count = U16(@ - 1)]
             ELSE [p EXCEPT !.slot_count = U16(@ + 1)]
    IN  WriteAt(q, s, p.free_space_ptr, d)

\* Mutant: the guard for a page that was never written out is dropped.
RedoInsert_NoGuard(p, s, d) ==
    LET q == IF s >= p.slot_count
             THEN [p EXCEPT !.slot_count = U16(s + 1)]
             ELSE IF IsTombstone(p, s)
                  THEN [p EXCEPT !.tombstone_count = U16(@ - 1)]
                  ELSE p
    IN  WriteAt(q, s, p.free_space_ptr, d)

\* Mutant: a slot that is no tombstone is counted as one that was reused.
RedoInsert_AlwaysReused(p, s, d) ==
    LET fsp == IF p.free_space_ptr < PAGE_HEADER_SIZE
               THEN PAGE_HEADER_SIZE ELSE p.free_space_ptr
        q == [p EXCEPT !.slot_count = IF s >= @ THEN U16(s + 1) ELSE @,
                       !.tombstone_count = U16(@ - 1)]
    IN  WriteAt(q, s, fsp, d)

\* redo_insert asks for no space.  Slots between the old and the new
\* slot_count keep the bytes of the buffer.
RedoInsert(p, s, d) ==
    LET fsp == IF p.free_space_ptr < PAGE_HEADER_SIZE
               THEN PAGE_HEADER_SIZE ELSE p.free_space_ptr
        q == IF s >= p.slot_count
             THEN [p EXCEPT !.slot_count = U16(s + 1)]
             ELSE IF IsTombstone(p, s)
                  THEN [p EXCEPT !.tombstone_count = U16(@ - 1)]
                  ELSE p
    IN  WriteAt(q, s, fsp, d)

DeleteRecord(p, s) ==
    IF s \in Live(p)
    THEN [p EXCEPT !.slots[s] = [offset |-> SLOT_TOMBSTONE, length |-> 0],
                   !.tombstone_count = U16(@ + 1)]
    ELSE p

CanUpdate(p, s, d) == s \in Live(p) /\ p.slots[s].length = Len(d)

UpdateRecord(p, s, d) ==
    LET first == p.slots[s].offset + PREFIX_BYTES
    IN  [p EXCEPT !.mem = [i \in DOMAIN @ |->
                              IF i \in first .. first + Len(d) - 1
                              THEN d[i - first + 1] ELSE @[i]]]

\* Mutant: tombstones are left out, so that later slots move up.
Compact_Renumbers(p) ==
    LET emit[n \in 0 .. p.slot_count] ==
            IF n = 0
            THEN [p EXCEPT !.slot_count = 0, !.tombstone_count = 0,
                           !.free_space_ptr = PAGE_HEADER_SIZE]
            ELSE LET s == n - 1
                     q == [emit[s] EXCEPT !.slot_count = U16(@ + 1)]
                     payload == [i \in 1 .. p.slots[s].length |->
                                    p.mem[p.slots[s].offset + PREFIX_BYTES + i - 1]]
                 IN  IF IsTombstone(p, s) THEN emit[s]
                     ELSE WriteAt(q, emit[s].slot_count, q.free_space_ptr, payload)
    IN  emit[p.slot_count]

\* compact: emit[n] is the page after slots 0 .. n-1 were written again.
Compact(p) ==
    LET emit[n \in 0 .. p.slot_count] ==
            IF n = 0
            THEN [p EXCEPT !.slot_count = 0, !.tombstone_count = 0,
                           !.free_space_ptr = PAGE_HEADER_SIZE]
            ELSE LET s == n - 1
                     q == [emit[s] EXCEPT !.slot_count = U16(@ + 1)]
                     payload == [i \in 1 .. p.slots[s].length |->
                                    p.mem[p.slots[s].offset + PREFIX_BYTES + i - 1]]
                 IN  IF IsTombstone(p, s)
                     THEN [q EXCEPT !.slots[s] = [offset |-> SLOT_TOMBSTONE, length |-> 0],
                                    !.tombstone_count = U16(@ + 1)]
                     ELSE WriteAt(q, s, q.free_space_ptr, payload)
    IN  emit[p.slot_count]

-----------------------------------------------------------------------------
(* What redo, undo and abort make of one record of the log. *)

\* Mutant: a record is always written anew, also where update_record would do.
Restore_Anew(p, s, d) == RedoInsert(DeleteRecord(p, s), s, d)

\* update_record, and delete_record with redo_insert where it refuses.
Restore(p, s, d) ==
    IF CanUpdate(p, s, d) THEN UpdateRecord(p, s, d)
    ELSE RedoInsert(DeleteRecord(p, s), s, d)

\* Mutant: a record that changed its size is redone by update_record alone.
RedoRecord_SameSize(p, rec) ==
    IF rec.new = <<>> THEN DeleteRecord(p, rec.slot)
    ELSE IF rec.type = "UPDATE" /\ rec.old = <<>> THEN RedoInsert(p, rec.slot, rec.new)
    ELSE IF CanUpdate(p, rec.slot, rec.new) THEN UpdateRecord(p, rec.slot, rec.new)
    ELSE p

RedoRecord(p, rec) ==
    IF rec.new = <<>> THEN DeleteRecord(p, rec.slot)
    ELSE IF rec.type = "UPDATE" /\ rec.old = <<>> THEN RedoInsert(p, rec.slot, rec.new)
    ELSE Restore(p, rec.slot, rec.new)

UndoRecord(p, rec) ==
    IF rec.old = <<>> THEN DeleteRecord(p, rec.slot)
    ELSE IF rec.new = <<>> THEN RedoInsert(p, rec.slot, rec.old)
    ELSE Restore(p, rec.slot, rec.old)

Update(s, old, new, prev) ==
    [type |-> "UPDATE", slot |-> s, old |-> old, new |-> new, next |-> prev]

Clr(s, new, undo_next) ==
    [type |-> "CLR", slot |-> s, old |-> <<>>, new |-> new, next |-> undo_next]

Mark(type) == [type |-> type, slot |-> 0, old |-> <<>>, new |-> <<>>, next |-> 0]

IsData(rec) == rec.type \in {"UPDATE", "CLR"}

\* The number of records on the undo chain that starts at lsn.
ChainLength(l, lsn) ==
    LET length[n \in 0 .. lsn] == IF n = 0 THEN 0 ELSE 1 + length[l[n].next]
    IN  length[lsn]

\* The log has room for a change, for its undo and for undoing what is open.
LogRoom == Len(log) + 2 + ChainLength(log, last) + 1 <= MaxLsn

-----------------------------------------------------------------------------
(* The steps of a client: change the page, log the change, stamp the page. *)
(* The page is unpinned before it is logged, and may be evicted there.     *)

Change(p, rec) ==
    /\ phase = "run"
    /\ LogRoom
    /\ log' = Append(log, rec)
    /\ page' = SetPageLsn(p, Len(log'))
    /\ last' = Len(log')
    /\ image' \in IF EvictAhead THEN {image, p} ELSE {image}
    /\ UNCHANGED <<phase, cursor>>

Insert(d) ==
    /\ CanInsert(page, Len(d))
    /\ Change(InsertRecord(page, d), Update(NextSlot(page), <<>>, d, last))

Delete(s) ==
    /\ ReadRecord(page, s) # <<>>
    /\ Change(DeleteRecord(page, s), Update(s, ReadRecord(page, s), <<>>, last))

Overwrite(s, d) ==
    /\ ReadRecord(page, s) # <<>>
    /\ CanUpdate(page, s, d)
    /\ Change(UpdateRecord(page, s, d), Update(s, ReadRecord(page, s), d, last))

\* An update by delete and insert, for the case where the insert takes the
\* slot that the delete left (module ShellStore has the other case).
Replace(s, d) ==
    LET q == DeleteRecord(page, s)
    IN  /\ ReadRecord(page, s) # <<>>
        /\ CanInsert(q, Len(d))
        /\ NextSlot(q) = s
        /\ Change(InsertRecord(q, d), Update(s, ReadRecord(page, s), d, last))

Commit ==
    /\ phase = "run"
    /\ last # 0
    /\ log' = Append(log, Mark("COMMIT"))
    /\ last' = 0
    /\ UNCHANGED <<page, image, phase, cursor>>

Abort ==
    /\ phase = "run"
    /\ last # 0
    /\ phase' = "undo"
    /\ cursor' = last
    /\ UNCHANGED <<page, image, log, last>>

\* One turn of the undo loop of abort and of recovery.
Undo ==
    /\ phase = "undo"
    /\ cursor # 0
    /\ LET rec == log[cursor]
       IN  /\ cursor' = rec.next
           /\ IF rec.type = "CLR"
              THEN UNCHANGED <<page, log>>
              ELSE /\ log' = Append(log, Clr(rec.slot, rec.old, rec.next))
                   /\ page' = SetPageLsn(UndoRecord(page, rec), Len(log'))
    /\ UNCHANGED <<image, last, phase>>

UndoDone ==
    /\ phase = "undo"
    /\ cursor = 0
    /\ log' = Append(log, Mark("TXN_END"))
    /\ last' = 0
    /\ phase' = "run"
    /\ UNCHANGED <<page, image, cursor>>

Flush ==
    /\ image # page
    /\ image' = page
    /\ UNCHANGED <<page, log, last, phase, cursor>>

\* The log keeps what was forced: commits, and what a written page depends on.
Crash ==
    /\ \E n \in image.page_lsn .. Len(log) :
          /\ \A i \in n + 1 .. Len(log) : log[i].type # "COMMIT"
          /\ log' = SubSeq(log, 1, n)
    /\ page' = image
    /\ phase' = "redo"
    /\ cursor' = 1
    /\ last' = 0
    /\ UNCHANGED image

Redo ==
    /\ phase = "redo"
    /\ cursor <= Len(log)
    /\ page' = IF IsData(log[cursor]) /\ page.page_lsn < cursor
               THEN SetPageLsn(RedoRecord(page, log[cursor]), cursor) ELSE page
    /\ cursor' = cursor + 1
    /\ UNCHANGED <<image, log, last, phase>>

\* Mutant: the last record of the log is not redone.
RedoDone_OffByOne ==
    /\ phase = "redo"
    /\ cursor >= Len(log)
    /\ LET open == log # <<>> /\ IsData(log[Len(log)])
       IN  /\ last' = IF open THEN Len(log) ELSE 0
           /\ cursor' = IF open THEN Len(log) ELSE 0
           /\ phase' = IF open THEN "undo" ELSE "run"
    /\ page' = IF \E i \in 1 .. Len(log) : IsData(log[i]) THEN page ELSE InitPage
    /\ UNCHANGED <<image, log>>

\* A log that ends with a data record ends in an open transaction.  A page that
\* no record names is no data page after a restart: its next user initialises it.
RedoDone ==
    /\ phase = "redo"
    /\ cursor > Len(log)
    /\ LET open == log # <<>> /\ IsData(log[Len(log)])
       IN  /\ last' = IF open THEN Len(log) ELSE 0
           /\ cursor' = IF open THEN Len(log) ELSE 0
           /\ phase' = IF open THEN "undo" ELSE "run"
    /\ page' = IF \E i \in 1 .. Len(log) : IsData(log[i]) THEN page ELSE InitPage
    /\ UNCHANGED <<image, log>>

-----------------------------------------------------------------------------
Init ==
    /\ page = InitPage
    /\ image = ZeroPage
    /\ log = <<>>
    /\ last = 0
    /\ phase = "run"
    /\ cursor = 0

\* The data region does not reach into the slot directory.
NoOverrun == page.free_space_ptr <= SlotDirStart(page)

Next ==
    /\ NoOverrun
    /\ \/ \E d \in Payloads : Insert(d)
       \/ \E s \in SlotIds : Delete(s)
       \/ \E s \in SlotIds, d \in Payloads : Overwrite(s, d)
       \/ \E s \in SlotIds, d \in Payloads : Replace(s, d)
       \/ Commit
       \/ Abort
       \/ Undo
       \/ UndoDone
       \/ Flush
       \/ Crash
       \/ Redo
       \/ RedoDone

Spec == Init /\ [][Next]_vars

-----------------------------------------------------------------------------
(* Properties. *)

PageType ==
    [slot_count : 0 .. MAX_SLOTS_PER_PAGE, tombstone_count : 0 .. MAX_SLOTS_PER_PAGE,
     free_space_ptr : 0 .. PAGE_SIZE, page_lsn : 0 .. MaxLsn,
     slots : [SlotIds -> [offset : 0 .. PAGE_SIZE, length : 0 .. PAGE_SIZE]],
     mem : [PAGE_HEADER_SIZE .. PAGE_SIZE - 1 -> Nat]]

\* The pages that no overrun has spoilt.
Intact == IF NoOverrun THEN {page, image} ELSE {image}

\* The page and its image are well formed, and the counters never leave their
\* range (tombstone_count and slot_count would wrap as uint16_t).
TypeOK ==
    /\ Intact \subseteq PageType
    /\ Len(log) <= MaxLsn
    /\ last \in 0 .. Len(log)
    /\ phase \in {"run", "undo", "redo"}
    /\ cursor \in 0 .. MaxLsn + 1

\* tombstone_count, which can_insert and insert_record trust in place of a
\* scan, is the number of tombstones in the directory, on the page and on the
\* image, whatever mixture of inserts, undo and redo led there.
TombstonesCounted ==
    \A p \in Intact :
        p.tombstone_count = Cardinality({s \in Allocated(p) : IsTombstone(p, s)})

\* Every live record lies above the header and below the free space pointer,
\* its two copies of the size agree, and no two records share a byte.
RecordsDisjoint ==
    LET end(p, s) == p.slots[s].offset + PREFIX_BYTES + p.slots[s].length
    IN  \A p \in Intact : \A s \in Live(p) :
            /\ p.slots[s].offset >= PAGE_HEADER_SIZE
            /\ end(p, s) <= p.free_space_ptr
            /\ p.mem[p.slots[s].offset] = p.slots[s].length
            /\ \A t \in Live(p) \ {s} :
                   \/ end(p, s) <= p.slots[t].offset
                   \/ end(p, t) <= p.slots[s].offset

\* redo_insert asks for no space.  When redo repeats the log on any image that
\* reached the disk, none of them ahead of the log, there is room for it all the
\* same, and insert_record never takes more than can_insert found; only the undo
\* of a delete or of a size change, by abort or by recovery, can run into the
\* slot directory.
OnlyUndoOverruns ==
    ~NoOverrun => phase = "undo" /\ log[Len(log)].type = "CLR" /\ log[Len(log)].new # <<>>

\* compact, whenever it is called: a RID names the same record afterwards, or
\* none as before (common.hpp:69: it "must remain valid across compaction"),
\* tombstone_count agrees with the directory, and no space is lost.
CompactionSound ==
    \A p \in Intact :
        LET c == Compact(p)
        IN  /\ c.slot_count = p.slot_count
            /\ \A s \in SlotIds : ReadRecord(c, s) = ReadRecord(p, s)
            /\ c.tombstone_count = Cardinality({s \in Allocated(c) : IsTombstone(c, s)})
            /\ p.free_space_ptr >= PAGE_HEADER_SIZE => FreeSpace(c) >= FreeSpace(p)

\* compact, in the words of page.hpp:107: "tombstone_count is reset to 0 after
\* compaction."
TombstonesReset == \A p \in Intact : Compact(p).tombstone_count = 0

\* The record that slot s holds after the first n records of the log l.
Logged(l, s, n) ==
    LET writes == {i \in 1 .. n : IsData(l[i]) /\ l[i].slot = s}
    IN  IF writes = {} THEN <<>>
        ELSE l[CHOOSE i \in writes : \A j \in writes : j <= i].new

\* A reader finds in every slot what the log up to page_lsn says is there: in
\* memory and on disk, between any two steps of redo and undo, and after any
\* number of crashes.  With the page LSN at the end of the log this is what
\* makes a RID mean the same record before and after a restart.
PageMatchesLog ==
    \A p \in Intact : \A s \in SlotIds : ReadRecord(p, s) = Logged(log, s, p.page_lsn)

\* When the engine runs, the page holds every change the log holds: no redo
\* was skipped.
NothingMissing ==
    phase # "redo" => \A i \in page.page_lsn + 1 .. Len(log) : ~IsData(log[i])
=============================================================================

--------------------------- MODULE BufferManager ---------------------------
(***************************************************************************)
(* BufferManager and its Replacer (buffer_manager.cpp, replacer.cpp) over  *)
(* DiskManager's pages: frames, the page table, pins, dirty flags, the     *)
(* free list, LRU eviction and the write-ahead rule.  Every operation      *)
(* holds bm_mutex_ throughout and is one action.  A page is given by its   *)
(* version: the LSN of its last change.                                    *)
(***************************************************************************)
EXTENDS Naturals, Sequences, FiniteSets

CONSTANTS
  PoolSize,       \* pool_size_
  MaxPages,       \* bound: pages ever allocated
  MaxLsn,         \* bound: changes ever made to pages
  Handles,        \* the Page pointers that clients may hold at a time
  NoPage,         \* INVALID_PAGE_ID
  NoFrame,        \* a page that page_table_ does not hold
  FailingWrites   \* callers of write_page that may see it fail, a subset of
                  \* {"evict", "flush_page", "flush_all_pages"}

Frames  == 0..(PoolSize - 1)
PageIds == 0..(MaxPages - 1)

ASSUME PoolAssumption ==
  /\ PoolSize \in Nat
  /\ MaxPages \in Nat
  /\ MaxLsn \in Nat
  /\ IsFiniteSet(Handles)
  /\ NoPage \notin Nat
  /\ NoFrame \notin Nat

VARIABLES
  pages,         \* pages_: the version in each frame
  page_ids,      \* page_ids_
  page_table,    \* page_table_
  pin_count,     \* pin_count_
  dirty,         \* frames whose dirty_ flag is set
  free_list,     \* free_list_
  frame_list,    \* Replacer::frame_list_: evictable frames, last used first
  disk,          \* the database file
  next_page_id,  \* DiskManager::next_page_id_
  last_lsn,      \* the LSN of the last change
  flushed_lsn,   \* LogManager::flushed_lsn_
  hold,          \* what each handle points to
  failed         \* history: frames given up by an eviction whose write failed

frameVars == <<pages, page_ids, page_table, pin_count, dirty, free_list, frame_list>>
diskVars  == <<disk, next_page_id>>
logVars   == <<last_lsn, flushed_lsn>>
vars      == <<frameVars, diskVars, logVars, hold, failed>>

-----------------------------------------------------------------------------
(* Replacer.                                                               *)

Listed(s, f) == \E i \in 1..Len(s) : s[i] = f

Erased(s, f) ==
  LET i == CHOOSE i \in 1..Len(s) : s[i] = f
  IN SubSeq(s, 1, i - 1) \o SubSeq(s, i + 1, Len(s))

set_evictable(s, f, evictable) ==
  IF evictable
  THEN IF Listed(s, f) THEN s ELSE <<f>> \o s
  ELSE IF Listed(s, f) THEN Erased(s, f) ELSE s

-----------------------------------------------------------------------------
\* A handle that stands for no page; wrote is the is_dirty it will pass on.
Unheld == [page |-> NoPage, frame |-> NoFrame, wrote |-> FALSE]

Init ==
  /\ pages = [f \in Frames |-> 0]
  /\ page_ids = [f \in Frames |-> NoPage]
  /\ page_table = [p \in PageIds |-> NoFrame]
  /\ pin_count = [f \in Frames |-> 0]
  /\ dirty = {}
  /\ free_list = [i \in 1..PoolSize |-> i - 1]
  /\ frame_list = <<>>
  /\ disk = [p \in PageIds |-> 0]
  /\ next_page_id = 0
  /\ last_lsn = 0
  /\ flushed_lsn = 0
  /\ hold = [h \in Handles |-> Unheld]
  /\ failed = {}

\* Mutant: the log is flushed one record too late.
enforce_wal_OffByOne(fs) ==
  IF \E f \in fs : pages[f] > flushed_lsn + 1 THEN last_lsn ELSE flushed_lsn

\* flushed_lsn_ after enforce_wal on the frames fs: LogManager::flush writes
\* the whole buffer unless it is already written past the page's LSN.
enforce_wal(fs) ==
  IF \E f \in fs : pages[f] > flushed_lsn THEN last_lsn ELSE flushed_lsn

\* write_page of the frames fs.
Stored(fs) ==
  [p \in PageIds |-> IF \E f \in fs : page_ids[f] = p
                     THEN pages[CHOOSE f \in fs : page_ids[f] = p] ELSE disk[p]]

\* Mutant: a page that is fetched again stays evictable.
fetch_hit_StaysEvictable(h, p) ==
  LET f == page_table[p] IN
  /\ hold[h] = Unheld
  /\ f # NoFrame
  /\ pin_count' = [pin_count EXCEPT ![f] = @ + 1]
  /\ frame_list' = frame_list
  /\ hold' = [hold EXCEPT ![h] = [page |-> p, frame |-> f, wrote |-> FALSE]]
  /\ failed' = failed \ {f}
  /\ UNCHANGED <<pages, page_ids, page_table, dirty, free_list, diskVars, logVars>>

\* A cache hit.
fetch_hit(h, p) ==
  LET f == page_table[p] IN
  /\ hold[h] = Unheld
  /\ f # NoFrame
  /\ pin_count' = [pin_count EXCEPT ![f] = @ + 1]
  /\ frame_list' = set_evictable(frame_list, f, FALSE)
  /\ hold' = [hold EXCEPT ![h] = [page |-> p, frame |-> f, wrote |-> FALSE]]
  /\ failed' = failed \ {f}
  /\ UNCHANGED <<pages, page_ids, page_table, dirty, free_list, diskVars, logVars>>

\* Frame f is given to page p at version v and pinned once by handle h; the
\* page it held before leaves the page table.
Install(h, f, p, v, wrote) ==
  /\ pages' = [pages EXCEPT ![f] = v]
  /\ page_ids' = [page_ids EXCEPT ![f] = p]
  /\ page_table' = [q \in PageIds |->
                      IF q = p THEN f ELSE IF q = page_ids[f] THEN NoFrame ELSE page_table[q]]
  /\ pin_count' = [pin_count EXCEPT ![f] = 1]
  /\ dirty' = dirty \ {f}
  /\ hold' = [hold EXCEPT ![h] = [page |-> p, frame |-> f, wrote |-> wrote]]

\* Mutant: a dirty victim is dropped.
AcquireFrame_NoWriteBack(f) ==
  IF free_list # <<>>
  THEN /\ f = Head(free_list)
       /\ free_list' = Tail(free_list)
       /\ UNCHANGED <<frame_list, disk, flushed_lsn>>
  ELSE /\ frame_list # <<>>
       /\ f = frame_list[Len(frame_list)]
       /\ frame_list' = SubSeq(frame_list, 1, Len(frame_list) - 1)
       /\ IF f \in dirty
          THEN disk' = disk /\ flushed_lsn' = enforce_wal({f})
          ELSE UNCHANGED <<disk, flushed_lsn>>
       /\ UNCHANGED free_list

\* A frame of the free list, or else the least recently used one, which is
\* written first if it is dirty.
AcquireFrame(f) ==
  IF free_list # <<>>
  THEN /\ f = Head(free_list)
       /\ free_list' = Tail(free_list)
       /\ UNCHANGED <<frame_list, disk, flushed_lsn>>
  ELSE /\ frame_list # <<>>
       /\ f = frame_list[Len(frame_list)]
       /\ frame_list' = SubSeq(frame_list, 1, Len(frame_list) - 1)
       /\ IF f \in dirty
          THEN disk' = Stored({f}) /\ flushed_lsn' = enforce_wal({f})
          ELSE UNCHANGED <<disk, flushed_lsn>>
       /\ UNCHANGED free_list

\* A cache miss.
fetch_miss(h, p) ==
  /\ hold[h] = Unheld
  /\ p < next_page_id
  /\ page_table[p] = NoFrame
  /\ \E f \in Frames : AcquireFrame(f) /\ Install(h, f, p, disk'[p], FALSE)
  /\ UNCHANGED <<next_page_id, last_lsn, failed>>

\* allocate_page; the caller of new_page unpins the page dirty.
new_page(h) ==
  /\ hold[h] = Unheld
  /\ next_page_id < MaxPages
  /\ \E f \in Frames : AcquireFrame(f) /\ Install(h, f, next_page_id, 0, TRUE)
  /\ next_page_id' = next_page_id + 1
  /\ UNCHANGED <<last_lsn, failed>>

\* fetch_page or new_page when the victim cannot be written: nullptr.
evict_failed ==
  /\ "evict" \in FailingWrites
  /\ free_list = <<>> /\ frame_list # <<>>
  /\ LET f == frame_list[Len(frame_list)] IN
     /\ f \in dirty
     /\ flushed_lsn' = enforce_wal({f})
     /\ failed' = failed \cup {f}
  /\ frame_list' = SubSeq(frame_list, 1, Len(frame_list) - 1)
  /\ UNCHANGED <<pages, page_ids, page_table, pin_count, dirty, free_list, diskVars,
                 last_lsn, hold>>

\* Mutant: the last unpin decides on the dirty flag.
unpin_page_NotSticky(h) ==
  LET f == page_table[hold[h].page] IN
  /\ hold[h] # Unheld
  /\ IF f # NoFrame /\ pin_count[f] > 0
     THEN /\ pin_count' = [pin_count EXCEPT ![f] = @ - 1]
          /\ dirty' = IF hold[h].wrote THEN dirty \cup {f} ELSE dirty \ {f}
          /\ frame_list' = IF pin_count[f] = 1 THEN set_evictable(frame_list, f, TRUE)
                           ELSE frame_list
     ELSE UNCHANGED <<pin_count, dirty, frame_list>>
  /\ hold' = [hold EXCEPT ![h] = Unheld]
  /\ UNCHANGED <<pages, page_ids, page_table, free_list, diskVars, logVars, failed>>

\* The client is done with its page; it passes is_dirty if it changed it.
unpin_page(h) ==
  LET f == page_table[hold[h].page] IN
  /\ hold[h] # Unheld
  /\ IF f # NoFrame /\ pin_count[f] > 0
     THEN /\ pin_count' = [pin_count EXCEPT ![f] = @ - 1]
          /\ dirty' = IF hold[h].wrote THEN dirty \cup {f} ELSE dirty
          /\ frame_list' = IF pin_count[f] = 1 THEN set_evictable(frame_list, f, TRUE)
                           ELSE frame_list
     ELSE UNCHANGED <<pin_count, dirty, frame_list>>
  /\ hold' = [hold EXCEPT ![h] = Unheld]
  /\ UNCHANGED <<pages, page_ids, page_table, free_list, diskVars, logVars, failed>>

\* A client logs a change and makes it through its pointer.
Change(h) ==
  /\ hold[h] # Unheld
  /\ last_lsn < MaxLsn
  /\ last_lsn' = last_lsn + 1
  /\ pages' = [pages EXCEPT ![hold[h].frame] = last_lsn']
  /\ hold' = [hold EXCEPT ![h].wrote = TRUE]
  /\ UNCHANGED <<page_ids, page_table, pin_count, dirty, free_list, frame_list, diskVars,
                 flushed_lsn, failed>>

flush_page(p) ==
  LET f == page_table[p] IN
  /\ f # NoFrame
  /\ flushed_lsn' = enforce_wal({f})
  /\ \/ disk' = Stored({f}) /\ dirty' = dirty \ {f}
     \/ "flush_page" \in FailingWrites /\ UNCHANGED <<disk, dirty>>
  /\ UNCHANGED <<pages, page_ids, page_table, pin_count, free_list, frame_list, next_page_id,
                 last_lsn, hold, failed>>

\* The frames ok are those whose write succeeds; no result is looked at.
flush_all_pages ==
  LET fs == {f \in dirty : page_ids[f] # NoPage} IN
  /\ flushed_lsn' = enforce_wal(fs)
  /\ \E ok \in (IF "flush_all_pages" \in FailingWrites THEN SUBSET fs ELSE {fs}) :
       disk' = Stored(ok)
  /\ dirty' = dirty \ fs
  /\ UNCHANGED <<pages, page_ids, page_table, pin_count, free_list, frame_list, next_page_id,
                 last_lsn, hold, failed>>

\* Mutant: the page id is put on the free list.
delete_page_PushesPageId(p) ==
  LET f == page_table[p] IN
  /\ f # NoFrame
  /\ pin_count[f] <= 0
  /\ page_table' = [page_table EXCEPT ![p] = NoFrame]
  /\ frame_list' = set_evictable(frame_list, f, FALSE)
  /\ page_ids' = [page_ids EXCEPT ![f] = NoPage]
  /\ dirty' = dirty \ {f}
  /\ pin_count' = [pin_count EXCEPT ![f] = 0]
  /\ free_list' = Append(free_list, p)
  /\ failed' = failed \ {f}
  /\ UNCHANGED <<pages, diskVars, logVars, hold>>

\* Mutant: the frame is not put on the free list.
delete_page_FrameNotFreed(p) ==
  LET f == page_table[p] IN
  /\ f # NoFrame
  /\ pin_count[f] <= 0
  /\ page_table' = [page_table EXCEPT ![p] = NoFrame]
  /\ frame_list' = set_evictable(frame_list, f, FALSE)
  /\ page_ids' = [page_ids EXCEPT ![f] = NoPage]
  /\ dirty' = dirty \ {f}
  /\ pin_count' = [pin_count EXCEPT ![f] = 0]
  /\ free_list' = free_list
  /\ failed' = failed \ {f}
  /\ UNCHANGED <<pages, diskVars, logVars, hold>>

delete_page(p) ==
  LET f == page_table[p] IN
  /\ f # NoFrame
  /\ pin_count[f] <= 0
  /\ page_table' = [page_table EXCEPT ![p] = NoFrame]
  /\ frame_list' = set_evictable(frame_list, f, FALSE)
  /\ page_ids' = [page_ids EXCEPT ![f] = NoPage]
  /\ dirty' = dirty \ {f}
  /\ pin_count' = [pin_count EXCEPT ![f] = 0]
  /\ free_list' = Append(free_list, f)
  /\ failed' = failed \ {f}
  /\ UNCHANGED <<pages, diskVars, logVars, hold>>

Next ==
  \/ \E h \in Handles :
       \/ \E p \in PageIds : fetch_hit(h, p) \/ fetch_miss(h, p)
       \/ new_page(h)
       \/ unpin_page(h)
       \/ Change(h)
  \/ evict_failed
  \/ \E p \in PageIds : flush_page(p) \/ delete_page(p)
  \/ flush_all_pages

Spec == Init /\ [][Next]_vars

-----------------------------------------------------------------------------
Handle == [page : PageIds, frame : Frames, wrote : BOOLEAN] \cup {Unheld}

TypeOK ==
  /\ pages \in [Frames -> Nat]
  /\ page_ids \in [Frames -> PageIds \cup {NoPage}]
  /\ page_table \in [PageIds -> Frames \cup {NoFrame}]
  /\ pin_count \in [Frames -> Nat]
  /\ dirty \subseteq Frames
  /\ free_list \in Seq(Frames)
  /\ frame_list \in Seq(Frames)
  /\ disk \in [PageIds -> Nat]
  /\ next_page_id \in 0..MaxPages
  /\ last_lsn \in Nat
  /\ flushed_lsn \in Nat
  /\ hold \in [Handles -> Handle]
  /\ failed \subseteq Frames

Held(f) == \E h \in Handles : hold[h].frame = f
Changing(f) == \E h \in Handles : hold[h].frame = f /\ hold[h].wrote

\* fetch_page: the pointer a client holds stays a pointer to its page, whatever
\* the others fetch, evict and delete meanwhile.
PointerStable ==
  \A h \in Handles :
    hold[h] # Unheld =>
      /\ page_ids[hold[h].frame] = hold[h].page
      /\ page_table[hold[h].page] = hold[h].frame
      /\ ~Listed(frame_list, hold[h].frame)

\* dirty_: a frame whose flag is clear, and which no client is changing, holds
\* what the disk holds, so that dropping it loses nothing.
CleanIsOnDisk ==
  \A f \in Frames :
    page_ids[f] # NoPage /\ f \notin dirty /\ ~Changing(f) => pages[f] = disk[page_ids[f]]

\* enforce_wal: no page on disk is ahead of the stable log.
WalRule == \A p \in PageIds : disk[p] <= flushed_lsn

\* Replacer and free list: fetch_page and new_page come back empty-handed only
\* when clients hold every frame: a frame no client holds is on one of the two
\* lists, and only one, unless it is the victim of an eviction that failed.
FramesAccountedFor ==
  \A f \in Frames :
    /\ ~Held(f) => (Listed(free_list, f) # Listed(frame_list, f)) \/ f \in failed
    /\ pin_count[f] = Cardinality({h \in Handles : hold[h].frame = f})

-----------------------------------------------------------------------------
(* What makes the properties inductive.                                    *)

NoRepeat(s) == \A i, j \in 1..Len(s) : s[i] = s[j] => i = j

Holders(f) == {h \in Handles : hold[h].frame = f}

\* page_table_ and page_ids_ are inverse to each other, over allocated pages.
TableInverse ==
  /\ \A p \in PageIds : page_table[p] # NoFrame =>
       page_ids[page_table[p]] = p /\ p < next_page_id
  /\ \A f \in Frames : page_ids[f] # NoPage => page_table[page_ids[f]] = f

\* Free frames hold no page, evictable ones hold a page that nobody pins.
Lists ==
  /\ NoRepeat(free_list) /\ NoRepeat(frame_list)
  /\ \A f \in Frames : Listed(free_list, f) => page_ids[f] = NoPage
  /\ \A f \in Frames : Listed(frame_list, f) => page_ids[f] # NoPage /\ ~Held(f)
  /\ \A f \in Frames : Held(f) \/ Listed(free_list, f) \/ Listed(frame_list, f) \/ f \in failed

Pins ==
  /\ \A h \in Handles : hold[h] # Unheld => page_ids[hold[h].frame] = hold[h].page
  /\ \A f \in Frames : pin_count[f] = Cardinality(Holders(f))

Structure == TypeOK /\ TableInverse /\ Lists /\ Pins

Versions ==
  /\ \A p \in PageIds : disk[p] <= flushed_lsn
  /\ \A f \in Frames : pages[f] <= last_lsn
  /\ flushed_lsn <= last_lsn
  /\ last_lsn <= MaxLsn

\* Pages that are not allocated yet read as zeroes.
Unallocated == \A p \in PageIds : p >= next_page_id => disk[p] = 0

-----------------------------------------------------------------------------
\* A page is what its frame holds or, if it has none, what the disk holds.
Current(p) == IF page_table[p] = NoFrame THEN disk[p] ELSE pages[page_table[p]]

Store == INSTANCE PageStore
  WITH Version <- 0..MaxLsn, Blank <- 0,
       store <- [p \in PageIds |-> Current(p)],
       holds <- [h \in Handles |-> hold[h].page]

\* The pool is a store of pages: eviction, write-back and reading back never
\* change a page, and no page changes in the hands of a client.
RefinesPageStore == Store!Spec
=============================================================================

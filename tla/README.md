# PersistX in TLA+

PersistX is a single-node storage engine: slotted pages behind a buffer pool, a
write-ahead log, transactions with ARIES recovery and fuzzy checkpoints, a
B+ tree index and an interactive shell. This directory holds TLA+ models of it,
the TLC configurations that check them, and proofs for TLAPS. `PROJECT.json`
lists, for every definition, the source lines it models, and for every property
a mutated definition (named `<definition>_<what is wrong>` and kept in front of
the original) under which TLC finds the property violated.

## The system

| Part | State | Operations | Used by |
| --- | --- | --- | --- |
| `DiskManager` | the database file, `next_page_id_` | `read_page`, `write_page`, `allocate_page`, `flush` (no caller) | `BufferManager` |
| `LogManager` | WAL file, `buffer_`, `next_lsn_`, `flushed_lsn_`, `write_offset_`, `lsn_index_` | `append`, `flush`, `flush_all`, `read_log`, `read_record_at_lsn` | everyone below |
| `BufferManager`, `Replacer` | frames, page table, pins, dirty flags, free list, LRU list | `fetch_page`, `unpin_page`, `flush_page`, `flush_all_pages`, `new_page`, `delete_page`, `get_dirty_pages` | managers, index, shell |
| `Page` | slots, free space, tombstones, `page_lsn` | `insert_record`, `update_record`, `delete_record`, `redo_insert`, `compact` | managers, shell |
| `TransactionManager` | `att_`, `next_txn_id_` | `begin`, `commit`, `abort`, `log_update`, `get_att_snapshot` | shell, checkpoint |
| `CheckpointManager` | none of its own | `checkpoint` | shell |
| `RecoveryManager` | `att_`, `dpt_` | `recover` = `analyze`, `redo`, `undo` | shell at start-up |
| `BTreeIndex` | tree of pages | `search`, `insert`, `remove`, `range_scan` | shell, `abort` |
| `Shell` | current transaction, current data page | the commands | the user |

Everything is calls: the shell calls the managers, they call the buffer and the
log, and each guards its own state with a mutex. What is hard is not the calls
but what lies between them. A process may die between any two of them, also
inside recovery, and leave any prefix of the buffered log and any subset of the
dirty pages behind; a checkpoint takes its two snapshots at two moments; a frame
may be evicted while a transaction that changed it is undecided, and even before
the change is logged; page writes may fail, and with them page fetches. What makes the parts correct:

* **log**: an LSN is handed out once, a flushed record is never lost, an LSN leads to its record;
* **buffer pool**: a pointer stays valid while it is pinned, dropping a clean frame loses nothing, no page overtakes the log;
* **transactions and recovery**: what was committed is there and what was not is gone, after any sequence of crashes; no change is undone twice; recovery ends;
* **pages**: a slot reads as the log says at every page LSN, records never overlap, the counters match the directory;
* **index**: seen through `search` it is a map, `range_scan` agrees with `search`, every node knows its parent;
* **shell**: `get` returns what was stored and not undone, heap and index agree, and file and log together always hold the committed contents.

## Modules

| Module | Models |
| --- | --- |
| `LogOps` | the log as a value (stable records, pending records, `flushed_lsn_`) and what `append`, `flush` and a restart do to it |
| `DurableLog` | what a log promises: append, make everything durable, lose a suffix that was never flushed |
| `LogManager` | `log_manager.cpp`: offsets, LSN index, counters, file; implements `DurableLog` |
| `PageStore` | what the pool promises: a page changes only in the hands of a client that holds it |
| `BufferManager` | `buffer_manager.cpp`, `replacer.cpp`: frames, pins, LRU, write-ahead rule, failing writes; implements `PageStore` |
| `Engine` | `transaction_manager.cpp`, `checkpoint_manager.cpp`, `recovery_manager.cpp` over `LogOps` and buffered pages |
| `SlottedPage` | `page.cpp`: offsets, slot directory, tombstones, free space, `compact`, `redo_insert`, under undo, redo and crashes |
| `KeyMap` | what the index promises: a partial function from keys to record ids |
| `BTree` | `btree_index.cpp`, `btree_page.cpp`: nodes, splits, parent and next-leaf links; implements `KeyMap` |
| `ShellStore` | `shell.cpp`, `shell_commands.cpp`: the commands over heap, index and log, start-up and `recover` |
| `MC...` | constants and symmetry for TLC |
| `LogManagerProofs`, `BufferManagerProofs`, `SlottedPageProofs`, `BTreeProofs`, `ShellStoreProofs` | their theorems |
| `EngineProofs`, `EngineTxnProofs`, `EnginePageProofs` | the theorems about `Engine`, in layers: each extends the one before |

`Engine` uses the log through `LogOps`, which are the very operators `DurableLog`
is made of, so what `LogManager` is shown to implement is what `Engine` builds
on. Likewise `Engine` sees the pool as the current contents of every page
(`mem`), a set of dirty pages and the file: `BufferManager` shows that frames,
pins and evictions amount to that.

### LogManager

A record is its LSN, its contents and its serialized length. `file` and `buffer`
say where each record really lies (`at`, `pos`); `write_offset`, `lsn_index`,
`next_lsn` and `flushed_lsn` are the code's own idea of it, so that a counter
that goes wrong shows. `Close` is the destructor, `Crash` a death that leaves a
prefix of the buffered records in the file, `Open` the constructor with the
`read_log` that the shell calls after it. `TornCrash`, only in `TornSpec`, stops
the write inside a record; `FailedFlush`, only in `WriteErrorSpec`, is a flush whose
write fails, which the code does not look at. Calls follow one another; the window in which
`read_log` touches `lsn_index_` without the mutex is not modelled.

### BufferManager

A page is its version, the LSN of the last change; a client logs, changes and
stamps in one step (`Change`) while it holds the page. `hold` is what each
outstanding `Page*` points to, frame and page separately, which is what makes
`PointerStable` a question. A client passes `is_dirty` to `unpin_page` iff it
changed the page, as every caller in the repository does; two clients may hold
one page. `FailingWrites` names the callers that may see `write_page` fail.
`failed` is a history variable: victims of an eviction whose write failed. The
code does not put them back into the replacer, and `FramesAccountedFor` says that
this is the only way to lose a frame.

### Engine

`mem` is a page as `fetch_page` returns it, `disk` as `read_page` returns it,
`platter` as it survives a power failure. Records live in slots; `Insert`,
`Update` and `Delete` change a slot, and `log_update` appends the UPDATE record
and stamps the page, the caller sequence given at `transaction_manager.cpp:224`.
`commit`, `abort`, `checkpoint` and `recover` are split where another thread or
a crash can come in between: the mutex held by `commit` is `MutexFree`, each
turn of the loops of `abort`, `redo` and `undo` is a step. A record that `redo`
passes over changes nothing, so `redo` goes straight to the next one that passes
its checks. `Crash(k)` keeps the first k buffered records, which also covers a
death in the middle of a log write; it clears memory and the transaction ids
start at 0 again. A clean shutdown is an abort, page writes and a crash that
keeps every record.

`locks` is the isolation the engine asks of its clients, for it has none of its
own: a client keeps off records that another running transaction has modified.
`Concurrent` says whether calls interleave. `WritePage` stands for eviction,
`flush_page` and each page of `flush_all_pages`. It may write a page between a
change and its log record, also with one thread: the shell unpins the page dirty
(`shell.cpp:210`) before it inserts into the index, and a split of an internal
node fetches 171 children (`btree_index.cpp:456`) through 64 frames. The page then
carries its old LSN, and `enforce_wal` forces nothing for the change. `FlushLog`
is any other flush of the log, such as the shell's after each `log_update` or the
one for an index page, whose LSN field holds something else.

Such a page is harmless as long as the record of the change survives with it.
`CrashAhead = FALSE` leaves out the crashes where it does not: a slot of a page
that survives holds a value the surviving log does not have at the page's LSN or
later (`Explained`). `engine_steal` has those crashes.

`FetchFails` lets `fetch_page` return nullptr, which it does when the write of its
victim fails, for a page that is not dirty in the pool. `abort` (`abort_skip`), `redo`
(`redo_skip`) and `undo` (`undo_skip`) then go on without a word, and `log_update`'s
caller leaves the page unstamped.

### SlottedPage

One page. The header fields have the code's names, `slots` is the directory and
`mem` the data region, byte by byte; `image` is the page on disk, `log` the log
records of this page. A client changes the page, logs and stamps in one step.
`abort`, and recovery after `Crash`, go one record at a time (`phase`, `cursor`):
`Redo` and `Undo` make the same calls as `redo_update`/`redo_clr` and the undo
loops do, and a crash may come between any two. The records of other pages, and
the BEGIN and ABORT records, change nothing here and are left out. `Replace` is the shell's
update by delete and insert where the insert takes the old slot. `EvictAhead` lets
the page be written between the change and its record, as in `Engine`; it is off in
the passing run. Redo on such an image appends a record that is there already,
and the page may have no room for it twice (`SlottedPageAhead`).

`redo_insert` asks for no space, and undo uses it: a delete gives nothing back, so
inserts of the same transaction may fill the page before the delete is undone, and
the record then lands in the slot directory (`SlottedPageFull`). No client keeps
space for undo, and the model makes none do so. What the page is once the two
regions share bytes is not modelled: behaviours end at the first overrun
(`NoOverrun` in `Next`), the page in the pool is judged up to there and its image
on disk throughout (`Intact`). `OnlyUndoOverruns` says where that end can be.

`compact` has no caller in `src/src`, so it is no action; `CompactionSound` asks of
every page that is reached what `compact` would make of it. It keeps the
tombstones and counts them again (`page.cpp:290`, `tests/test_page.cpp:62`), which is
not what `page.hpp:107` says, "tombstone_count is reset to 0 after compaction."; with a count of 0 the kept
tombstones would not be used again. `SlottedPageTombstones` is a counterexample
to that sentence.

`SizesAssumption` keeps the page below 65536 bytes, for `length` and the counters
are `uint16_t` (`offset` and `free_space_ptr` are `uint32_t`).

### BTree

`nodes` is the sequence of pages, `root` is `root_page_id_`; sequences count from
1 where the code counts from 0. `InsertKey` follows `insert`: refuse a duplicate,
find the leaf, split it, and climb with `insert_into_parent`, whose three cases
are `GrowRoot`, `FillParent` and `SplitParent`; the parent is found by the id in
the child's header, as in the code. `RemoveKey` never merges. `Search`,
`RangeScan` and `Layout` (the walk of `get_tree_layout`) read the tree. An
index has one user and keeps no pins between calls, so a call is a step; page
fetches that fail are left out, and so is `split_internal`, which has no caller.

### ShellStore

A command is one step: what happens inside the log, the pool, a page, recovery
and the tree is the matter of the other modules. So a page is not evicted in the
middle of a command here; that is what `engine_steal` is about. `shell` is the state of the process
(pages as the pool returns them, `data_page_id_`, the index, the log with its
unflushed tail, the last LSN of the open transaction), `disk` the page images,
`flushed` how much of the log is durable, `view` and `committed` what the user
has stored, open transaction included and not. A page is its type, its slots and
its LSN; whether a page has bytes left for a record is a choice (`fits`). The
index is the map of `KeyMap`. Data pages are numbered in the order of their page
ids, and the pages of the index are left out, but for the leaf that `recover`
leaves behind (below); a new page never has an old image,
because `next_page_id_` comes from the file's size and `set_num_pages` only
raises it.

`Put`, `Del`, `UpdateCmd`, `Fill`, `Begin`, `Commit`, `Abort`, `FlushAll`,
`Recover`, `Exit` are the commands of those names, `Evict` is the pool writing a
page, `Crash` a death that leaves the durable log (what a partial log write
leaves is `Engine`'s and `LogManager`'s subject), `Restart` is `init_storage`.
`Recover` runs over the live pool and leaves `data_page_id_` on the leaf of
the index it has just built, because `BTREE_NODE_LEAF` and `PageType::DATA` are
both 1 and the leaf is the last page the scan meets. The scan of
`shell_commands.cpp:278` reads the bytes of every leaf, old ones included, as slots. The model fixes
what comes of that: no records, and a page without room, so the next put takes a
new page. Leaf bytes that happen to read as a record would add keys to the index. The transaction manager then still points to the index that
was deleted; the model takes the usual outcome, the new index at the same
address. `PutRecord` with no data page stores nowhere (`NoRid`), and the status
is then `lost`: what the shell does later is not modelled.

Five sequences of commands break the properties; each has a name in `Allowed`
and is switched off in the passing run, so that everything else is checked:
a put that is refused, an update that moves its record, `recover` when redo has
built a page from nothing, `recover` inside a transaction, and a put after a
restart whose log holds no data record.

## Runs

| Run | Shows |
| --- | --- |
| `log_manager` | 5 records of two lengths, any calls, closes, crashes, restarts: the log's properties, and that it implements `DurableLog` |
| `log_torn` | **violation**: after a torn record, flushed records are not read back |
| `buffer_manager` | 2 frames, 3 pages, 2 pins, failing writes: the pool's properties, and that it implements `PageStore` |
| `engine_checkpoint` | 2 pages, 2 transactions, a checkpoint, a process crash, pages written also before their log record |
| `engine_power` | 2 slots, 2 values, a transaction between restarts, 2 power failures, also during recovery and abort |
| `engine_liveness` | recovery ends after at most 2 crashes, aborts end, although pages cannot be fetched |
| `engine_steal` | **violation**: a page evicted before its change is logged, then a crash: the change stays and nothing undoes it |
| `engine_window` | **violation**: a crash between a durable CHECKPOINT_END and the page writes loses a committed change |
| `engine_fuzzy` | **violation**: a commit on another thread during a checkpoint is taken for a loser |
| `slotted_page` | one page, records of two sizes, aborts, page writes, crashes at any point of undo and redo, until undo overruns the page: slots read as the log says, records stay apart, counters stay right, redo has room, `compact` keeps every RID |
| `btree` | 7 keys inserted and removed in any order, two to a node: the tree implements `KeyMap`, scans are exact, parents and levels are right |
| `shell_store` | commands, evictions, crashes, exits, restarts and `recover` in any order, without the five sequences above: `get`, heap, index, file and log agree |

More configurations show where the code departs from its documentation. Each
violates the property named, within seconds, and says why a passing run keeps
away from the case or does not claim it.

| Configuration (module) | Violates | What happens |
| --- | --- | --- |
| `LogManagerError` (`MCLogManager`) | `FlushedIsDurable` | `flush_all_unlocked` (`log_manager.cpp:82`) looks at no result of `write`, `flush` or `fdatasync`: `flushed_lsn_`, "written to stable storage" by `log_manager.hpp:40`, covers records that are nowhere |
| `BufferManagerLost` (`MCBufferManager`) | `CleanIsOnDisk` | `flush_all_pages` (`buffer_manager.cpp:150`) ignores the result of `write_page` and clears the dirty flag, "sticky — only cleared on flush" by `buffer_manager.cpp:118`; the frame may then be evicted and the change is gone |
| `EngineFetch` (`MCEngine`) | `CommittedVisible` | `abort` cannot fetch the page (`transaction_manager.cpp:127`; the same at `recovery_manager.cpp:231` and `:360`), skips the change and ends the transaction; `transaction_manager.cpp:71` says it "Undoes every modification made by txn" |
| `SlottedPageFull` (`MCSlottedPage`) | `NoOverrun` | undo of a delete or of a change of size calls `redo_insert` (`page.cpp:141`), which asks for no space and writes over the slot directory; `page.cpp:195` says a record "must not reach the slot directory" |
| `SlottedPageAhead` (`MCSlottedPage`) | `OnlyUndoOverruns` | inserts that fill the page, the last written out before it is logged (`shell.cpp:210`), a crash: redo writes the record a second time, over the slot directory |
| `SlottedPageTombstones` (`MCSlottedPage`) | `TombstonesReset` | insert, delete, and `compact` counts the tombstone it keeps (`page.cpp:290`); `page.hpp:107` says "tombstone_count is reset to 0 after compaction." |
| `BTreeDeep` (`MCBTree`) | `ParentIds` | a split internal node whose parent splits too, and which falls into the left half, is left without a parent id (`btree_index.cpp:455`); `btree_index.cpp:305` wants ids kept "so future splits can navigate upward correctly" |
| `ShellStoreRefused` (`MCShellStore`) | `GetAgrees` | put, put again (refused at `shell.cpp:281`, its record stays on the page), del, recover: the key is back; the repository's `README.md:283` promises "total consistency" of the rebuilt index |
| `ShellStoreMoved` (`MCShellStore`) | `Recoverable` | put, then an update that moves the record: one UPDATE under the new RID (`shell.cpp:480`), so after a crash the old slot has the old record and the index may take it |
| `ShellStoreUntyped` (`MCShellStore`) | `GetAgrees` | put, crash, restart, recover: `redo_insert` sets no page type, and `recover` (`shell_commands.cpp:278`) indexes typed pages only; the key is gone |
| `ShellStoreOpen` (`MCShellStore`) | `Recoverable` | begin, put, recover, commit: `recover` (`shell_commands.cpp:250`) undoes the open transaction, and its commit then succeeds |
| `ShellStoreEmpty` (`MCShellStore`) | `GetAgrees` | begin, exit, restart, put: `init_storage` leaves `data_page_id_` invalid (`shell.cpp:97`), and the put reports success for a record that is on no page |

The bounds. A pool of two frames and three pages evicts, and two pins share a
page or hold one each. In `Engine`, two transactions are the least that
leave a winner next to a loser, and a second crash interrupts the recovery from
the first; in `engine_power` they are transactions of one id, before and after a
restart. `MaxLsn` (5 or 6) bounds only what clients and checkpoints append; the records of aborts and
recovery come on top. Five client records hold a committed transaction and an
unfinished one that changes the same page; six hold a checkpoint between them. Two pages matter where a
checkpoint lists some and not others, two slots where one page mixes a committed
change with one to be undone. Pages and values are symmetric; the liveness run
uses no symmetry.

A `SlottedPage` of 14 bytes, 2 of them header, with slots of 2 and prefixes of 1
fills after three or four records, so tombstones, reuse, full pages, pages with
something to compact and overruns all occur within `MaxLsn` 8, which leaves room
in the log to undo what is open.
Seven keys in `BTree`, two entries to a node, reach three levels, with splits of
leaves, of internal nodes and of the root, and no split two levels above the
leaves (`MaxPages` 12 never stops an insert there). `ShellStore` has two keys,
two values, two pages of two slots and a log of nine records: two automatic
transactions, or one next to a transaction of two changes, and the records that
undo adds. It compares keys and values for equality only, so both are symmetric.
The order in which a rebuild meets records is that of pages and slots, which are
not.

`CrashInWindow = FALSE` keeps the passing run with a checkpoint out of the states
that `engine_window` is about, so that everything else about checkpoints is
checked, and `CrashAhead = FALSE` does the same for `engine_steal`. Neither takes
a page write away: pages are written at every moment the code may write them, and
only the crash that the violation needs is left out. `FetchFails` is on in
`engine_liveness`. `engine_power` has no checkpoints: pages are never synced, so a power
failure may undo page writes that a checkpoint relies on.

Fairness: `abort` and `recover` are loops of a running thread. Weak fairness of
the recovery steps, and of each aborting transaction's steps, says that a thread
that can run goes on. Clients, checkpoints, flushes and crashes have none.

## Proofs

`LogManagerProofs` proves, for every set of record contents, every length
function and every bound, that LSNs are positions, that flushed records can be
read back as long as no crash tears a record, that the LSN index is exact, and
that `LogManager` implements `DurableLog`. `SizeAssumption` (a record has a
positive length) and `MaxRecordsAssumption` are all that is assumed. The inductive invariant `IInv` says where
every record lies: the i-th record of the file has LSN i - 1 and starts where
the one before ends (`FileLayout`), the buffer continues it (`BufferLayout`), and
the counters (`Counters`) and the index (`IndexLayout`) follow from these. The
properties alone are not inductive: that `append` files the right offset needs
`write_offset_` to be the file's length, and that the next LSN is new after a
restart needs the LSNs in the file to be dense.

`BufferManagerProofs` proves, for every pool size, number of pages, bound on
changes and finite set of handles, that pointers are stable, that frames are
accounted for and that no page on disk is ahead of the log, whichever writes
fail; and, under `NoLostWrite` (no write of `flush_all_pages` fails; without it
`BufferManagerLost` is a counterexample), that clean frames are on disk and that
the pool implements `PageStore`. The argument has layers, each an invariant
inductive given those before it. `Structure` is about frames: the page table and
the frames' page ids are inverse to each other (`TableInverse`); free frames hold
no page and evictable ones a page that nobody holds, and no list repeats a frame
(`Lists`); a pin count is the number of holders (`Pins`). It is needed because
`unpin_page` and `delete_page` find their frame through the page table and trust
the pin count there. `Versions` bounds disk, stable log, frames and log in that
order, `CleanIsOnDisk` is inductive given `Structure`, and `Unallocated` (pages
not yet allocated read as zeroes) makes a new page the blank page of `PageStore`.
In the refinement `fetch_page` and `new_page` are `Acquire`, `unpin_page` is
`Release`, `delete_page` is `Discard`, and everything else but `Change` is a
stutter.

The theorems about `Engine` hold for every set of pages, slots and values and
for every bound. They come in four layers.

* `Inv` (`EngineProofs`) needs no assumption: threads may interleave, crashes come anywhere, fetches may fail. A log's `prev_lsn`
  and `undo_next_lsn` point back to earlier records of the same transaction; the
  tables of transactions, snapshots and recovery name records that exist; a page,
  wherever it is, carries an LSN of the log; a COMMIT that the client was told of
  is stable. It gives `TypeOK`, `CommitForced` and the write-ahead rule
  (`WriteAhead`: a page on disk is never ahead of the stable log).
* `TxnInv` (`EngineTxnProofs`) assumes `~Concurrent`, that is calls that follow
  one another, as the commands of the shell do (`engine_fuzzy` is what happens
  otherwise), and `~FetchFails`. Each record continues its transaction's last one (`Linked`); the
  ATT, the checkpoint's copy and the table of recovery are exactly what the
  log says (`Exact`), and undo stands, for every loser, at its last record or
  where its last CLR says undo goes on (`UndoExact`). `AnalysisExact` and `UndoneOnce` follow.
* `PageInv` (`EnginePageProofs`) assumes `Sheltered`: calls that follow one
  another, fetches that succeed, no crash of the kind that `engine_steal` is about
  and, if checkpoints are taken, no power failure and no crash in the
  window of `engine_window`. Pages are written at any moment, also between a change
  and its record, so a page on disk may be ahead of its LSN. A slot of it shows
  the log as of the page's LSN or as of a later one (`Explained`), or the
  change that its client is about to log (`Backed`). The page in memory shows
  the log as of its LSN but for that pending change (`MemShows`), it lacks
  nothing (`Latest`), the file is behind it only where a page is dirty, and the
  dirty page table of a complete checkpoint is old enough (`DptOld`). Redo of a
  page that is ahead writes again what is there already; after the last
  record every slot shows the end of the log, wherever it started.
  `WrittenIsLogged` and `RedoComplete` follow. Each part of `Sheltered` is needed:
  `EngineSteal`, `EngineFetch`, `EngineFuzzy` and `EngineWindow` are counterexamples
  without it, and a power failure may undo writes a checkpoint counted on, since
  nothing syncs the file.
* `AcidInv` (`EnginePageProofs`), under the same assumption: each slot holds
  its committed value with the open changes of at most one transaction on top,
  and each of these carries the value below it as its before-image
  (`SlotOK`). It is stated for every prefix of the log, so that a crash which cuts the log
  short keeps it. `CommittedVisible` follows: after recovery, whatever happened
  before it, the pages hold the committed values.

`SlottedPageProofs` proves, for every page size, every set of payloads and every
length of the log, all that `slotted_page` checks; `SizesAssumption`, and that no page
is written ahead of its record (`~EvictAhead`), is all that is assumed. None of the properties is inductive,
since what redo will find is an image and a log, not a page. The invariant is
`IInv \/ Overran`. `IInv`
carries the pages `R` that redo will pass through, from the image on
(`ReplayOK`), and says of each what it says of the page in the pool (`PageOK`):
records lie apart between header and free space, slots read as the log says
(`Logged`). That
redo fits (`RedoHasRoom`) needs a comparison: it makes the data region grow no more than the client's
own calls did (`PoolOK`), the delicate case being a replace, where the client
deletes and inserts and redo overwrites or appends. So a step that breaks `IInv` is an undo
whose record does not fit, and `Overran` describes the state after it: the log ends
with its CLR, log and image are as sound as before. `LogOK` gives the log
its shape: chains of open updates, before-images that equal what was logged.
That compaction fits counts bytes, each covered by one record at most.

`ShellStoreProofs` proves, for every set of keys and values, every number of
slots, pages and log records, all that `shell_store` checks: `TypeOK`,
`GetAgrees`, `HeapMatchesIndex`, `Recoverable` and `CleanRestartIsNoop`. The one
assumption is `Allowed = {}`, which leaves out five sequences of
commands; each of them has a counterexample of its own (the `ShellStore*.cfg`
runs). No property is inductive alone: that
`abort` gives the old contents back depends on before-images in the log, that a restart
does depends on page LSNs, and both on how the log is built. The
invariant `IInv` therefore reads everything off the log. `Heap(l, n, r)` is what
the first n records leave at the RID r and `Base(l, n)` the last of
them that ended a transaction.

* `LogOK`: transactions follow one another; an UPDATE carries the heap's cell as
  its before-image, an insert a key that the heap lacks; a CLR undoes the newest
  UPDATE that is not undone yet (`Frontier`).
* `PagesShow`: every page, in the pool and in the file, shows the heap as of its
  LSN, whatever was evicted when; in the pool that is the heap as it is now
  (`Latest`), except for blank pages that nothing was stored in.
* `IndexOK`: the index is the heap turned around. So the rebuilt
  index is the one that was lost, and a rebuild finds each key once.
* `view` is the heap after the last record and `committed` the heap at the `Base`, both of the
  whole log and of its durable part: no UPDATE that is not durable is counted on.
  `FlushedToEnd` says why: when no transaction is open, all but a TXN_END is durable.

`Recoverable` then follows from what redo and undo compute on any pages
with `PagesShow`: redo brings every page to the heap at the end of the log,
undo takes the heap back to its `Base`.

`BTreeProofs` proves, for every set of keys, every `RidOf`, all capacities of at
least two and every bound on pages, `TypeOK`, `ParentIds`, `RangeScanExact` and that the
tree implements `KeyMap`, for behaviours in which the tree has at most three levels
(`[]ThreeLevels`). The hypothesis is the code's own limit: with four levels a
split may leave a node without its parent id, and the next split that climbs
through it goes wrong, which is what `BTreeDeep` shows. It is no small limit: an internal page takes 340
keys and a leaf 291 (`btree_page.hpp:40`), and no split leaves less than half a
node, so a fourth level takes more than eight million inserts. Every state of the run
`btree` satisfies it. The invariant `IInv`:

* `Shape`: the pages form a tree. Children are all leaves or all internal
  nodes and know their parent, a parent has its child, leaves hold
  what was inserted, nodes keep to their capacity and their keys are in order.
* `Order`: every key, separators included, that lies below the i-th child of a
  node lies between the separators on both sides of that child (`Slot`).
* `Threaded`: the next ids put all leaves into one chain, and of two leaves in
  it the later one is where the separators lead larger keys. `RangeScanExact`
  needs this and nothing less: a leaf may be empty, so the keys stored say too
  little of the order of the leaves.

An insert that splits is one step of the model and many in the proof. Between
them one node is not in the tree yet: `Shape` has it as a parameter, and `Pend`
says what is known of it, that the separator divides the two halves and that the
way from the root to the left half is also the way for everything in the right
one. A split of a leaf puts the new one into the chain before any separator leads
to it; `Woven`, a part of `Pend`, is `Threaded` for the way that a search will
take once the separator is in place (`Route`), and no step of the climb changes
that way or the chain. `GrowRoot` and `FillParent` turn `Pend` into the invariant, `SplitParent`
into `Pend` one level higher, and the tree has too few levels for
that to happen twice with a parent above. The keys in the leaves (`Stored`) change only where
the key is inserted or removed. That the search ends at the
leaf whose keys it is about, that binary search finds the position, and that the
climb ends are inductions over levels and intervals.

Induction over positions is done with the least counterexample (every set of
naturals has a least element, by the well-foundedness of `<`), which also gives
existence and uniqueness for the recursive functions: `ChainLength` and the loop of
`compact` in `SlottedPage`, `ToUndo`, `UndoAll` and `RedoAll` in `ShellStore`, the
searches, the climb and the scan in `BTree`.

The scan is right from any leaf of the chain to its end (`ScanLists`, by
induction from the last leaf back): it lists what is stored in the range from
that leaf on, and at the leaf where it starts, the search for its first key, that is
everything in the range.

Only model-checked: `LayoutComplete` of `BTree`, which flattens and filters the
levels with the library's recursive operators on sequences and counts what is in them, and
all liveness, since the prover does not do ENABLED.

## Not modelled

The byte encodings of log records, of the ATT and the DPT, and of tree nodes;
file creation, and what a stream does after its first error; data races on
`lsn_index_` and on a page that is written to disk while its holder changes it;
isolation between transactions, which the engine leaves to its clients; page
fetches that fail inside the index and in the shell's commands (`Engine` has those of
abort, redo, undo and the page stamp); what a page holds once undo has overrun
its slot directory; in `ShellStore`, the bytes of index leaves that `recover`
reads as slots; records larger than a page; `bench`, which
runs a transaction of its own beside an open one; other outcomes of the deleted
index's pointer after `recover`; the terminal and the shell's diagnostics.

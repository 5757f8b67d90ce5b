# A TLA+ verification of WiredTiger's core

TLA+ modules, TLC configurations and TLAPS proofs for the engine under
`src/src/`. They model what is decided between threads, and between a running
system and the one that comes up after a crash: which updates a reader sees, which
pages stay in memory, which blocks of a file may be written again, which handles
stay open, and what pages, cursors and trees hold after all of it.

Model-check with `tlc -workers 2 -config <run>.cfg <module>`, check the proofs with
`tlapm <module>` on the eight modules named under "The proofs". `PROJECT.json` gives
the source lines of each definition and lists runs, mutants, findings, hazards and
theorems.

## The system

| Part | State | Operations | Works with |
|---|---|---|---|
| Transactions (`txn/txn.c`, `include/txn.i`) | global identifier, one slot per session (id, `snap_min`), snapshots | begin, commit, roll back, take and release a snapshot, oldest reader | updates, eviction, checkpoints |
| Cache (`support/hazard.c`, `btree/bt_page.c`, `bt_read.c`, `bt_walk.c`) | `WT_REF` state and page, hazard slots | read, acquire, release, walk | eviction |
| Eviction (`btree/bt_evict.c`, `rec_evict.c`) | queue, walk point, locked references, requests | queue, lock, review a subtree, write, unlink, discard; flush, close or compact a file | cache, transactions, reconciliation |
| Reconciliation (`btree/rec_*.c`) | page being written, tracked blocks | choose visible updates, split, write, wrap up | blocks, transactions |
| Block manager (`block/`) | live extent lists, file size, checkpoints | allocate, free, checkpoint, delete, resolve, load, salvage | checkpoints |
| Checkpoints (`txn/txn_ckpt.c`, `meta/`) | checkpoint list, metadata, tracking log | list, lock, flush, save, sync, resolve, undo | blocks, handles |
| Handles (`conn/`, `session/`, `schema/`) | open handles, locks, caches | open, lock, reopen, close, create, drop, verify | metadata, checkpoints |
| LSM trees (`lsm/`) | chunk list, generation, old chunks | switch, checkpoint a chunk, merge, free, cursors | handles, Bloom filters |
| Trees and cursors (`btree/row_*`, `col_*`, `bt_cur*`, `cursor/`) | update chains, insert lists, positions | search, insert, update, remove, next, prev, truncate | transactions, cache |
| Support (`os_posix/`, `config/`, `packing/`, `support/`) | condition variables and locks; otherwise none | wait, signal; pure functions | all |

What makes it hard: the transaction table, page states, hazard slots and update
chains are read and written without locks; an application thread short of cache
evicts in the middle of its own operation; a checkpoint changes the live lists of a
file long before it is durable and may fail at each step; a session uses the handles
in its cache without the schema lock; a crash may come anywhere.

## The modules

`TxnId` — transaction identifiers: their order within half of the 32-bit range, the
reserved values and the test for ancient ones. `UINT_MAX` and the wrap buffer are
constants, so that a small range wraps like the real one.

`TxnGlobal` — the transaction table. Each load or store of the global identifier and
of a slot is a step (`BeginScanId`, `GetScanMin`, ...); private work belongs to the
step before it. `asked`, `done` and `base` are history. Updates are not here: the
module decides which identifiers are visible.

`Rows` — the update chains of a page: a search, a read that walks a chain pointer by
pointer, a change built aside and linked under the serialization lock if the write
generation has not moved, trimming, commit and roll back. It uses `TxnId`.

`Hazard` — the cache. A tree is a constant function `Parent` on its `WT_REF`s.
Cursors read, acquire and release pages; the server walks and queues; evicting
threads lock a page and its subtree, look at every hazard slot, and unlink and free
the pages, or unlock them. `raced` is history: it is set when the two halves of
`__wt_hazard_set`'s check disagreed.

`EvictServer` — the server's requests, its queue, the drain before a flush, waking and
waiting; an eviction itself succeeds or fails here.

`BlockCkpt` — one file. Extent lists are sets of unit blocks; a checkpoint is its
lists, the blocks they were written in and the blocks of its tree. The steps of
`__ckpt_process`, of saving and of resolving are actions; `ProcessFail` and `SaveFail`
are errors, `Crash` opens the file in its last durable checkpoint.

`Handles` — the handles of one file and of its checkpoints (`h`), the sessions' caches
and cursors, the schema and metadata locks, the list of checkpoints in the metadata
(`file`), a backup, and the call each session is in. Getting, opening, reopening,
locking and closing a handle, and each part of a checkpoint, a drop, a create, a
verify, a bulk load and a backup, are actions. `orphans` (checkpoints deleted by closing
the live tree) and `unsaved` (a checkpoint failed after the tree was marked clean) are
history.

`Reconcile` — what reconciliation writes for one page: row and column leaf pages,
internal pages, splits and promoted keys, bulk load, salvage. Its operators are
functions from one state of `WT_RECONCILE` to the next; `MCReconcile` compares what they
write with a reference reader.

`PageBlocks` — the blocks of a page reconciled again and again, and a sleeping reader
of its overflow items.

`BtCursor`, `CursorMap` — the cursor methods on leaf pages of the three kinds, as the
implementation of an ordered map with a position (`CursorMap`, the abstract
specification).

`LsmTree`, `LsmMap` — sessions, checkpoint thread and merge thread of an LSM tree, as
the implementation of one map (`LsmMap`).

`Salvage` — salvage of a file, step by step, with a failure between any two steps.

`MC...` — the instances TLC checks. `BlockProofs`; `HazardSteps`, `HazardProofs`;
`HandleFacts`, `HandleLocks`, `HandleSteps`, `HandleMeta`, `HandleProofs` — the proofs.

## The runs

| Run | Bounds | Shows |
|---|---|---|
| `txn_snapshots` | 2 sessions; every isolation level with 3 identifiers and a cursor each; an evicting session with 4 identifiers; two cursors and an evicting session with 2 | A snapshot shows all that had ended when it was started and nothing that had not when it was finished (for `__wt_txn_get_snapshot`, apart from the identifier equal to `snap_max`); readers keep their `snap_min`; what eviction takes for visible to everyone is older than any published reader needs. |
| `rows` | 2 sessions, 1 key, 2 transactions and 2 updates, 1 read, 1 eviction, every pair of isolation levels with a snapshot, identifiers that wrap | No update that a snapshot or a roll back needs is discarded; of two snapshot transactions that change what the other has not seen one fails. |
| `hazard_tree` | a page and its child, 3 pages of memory, 2 cursors, 2 evicting threads | Without the race, held pages stay, the server's pointers are live, parents stay in memory, and the inductive invariant holds. Each path is followed up to the race and no further. |
| `evict_server` | 2 trees, 3 pages, 2 sessions with one or two calls each, in six applications | Every request is found, a flush works alone and wrote what was dirty, and every request is answered. |
| `block_ckpt` | 6 blocks without failures; 5 blocks, close and reopen, 1 failure; 2 checkpoints | No durable checkpoint is overwritten, no live page reusable, no block lost, and the inductive invariant holds, for a careful caller (below). |
| `handles` | 2 sessions, 4 calls, 1 name, 2 changes, 1 failing checkpoint, in four applications | No handle is closed under a user or stays open on a replaced checkpoint, fake checkpoints come first, no change is lost, what a backup copies stays, and every call returns. |
| `reconcile` | 5 keys or 3 records in every state, 2 or 3 page and split sizes for each kind | The images hold what the page held, promoted keys separate, merged children keep their ranges, overflow items are kept or discarded. |
| `page_blocks` | 3 reconciliations, 1 reader, four kinds of page | No block is freed twice, freed while needed or lost; a clean page is written; a reader gets its version. |
| `cursor` | 3 keys in every place on one or two leaf pages, 4 chains, 1 change | Every method does what it does on an ordered map with a position. |
| `lsm_tree` | 2 sessions, 2 keys, up to 5 files, in eight applications (up to 3 cursors and 3 writes, a search, a truncate or drop, 2 restarts) | The chunks together are one map; a search returns a value the map had during the call; nothing is written to a chunk once it is marked on disk. |
| `salvage` | 2 to 4 leaf pages over 3 keys that overlap in every way | Every range goes to the newest page that covers it, exactly the tree's blocks stay, and a failed run leaves what the next one needs. |
| `hazard_recheck` (violation) | as `hazard_tree`, 1 evicting thread | `__wt_hazard_set` compares the page before it reads the state; an eviction in between is not noticed (`support/hazard.c:93`; the comment at line 44). |

Results are about the models: the steps of a counterexample are loads and stores of the
source in an order the code permits; none was reproduced in a running system.

The careful caller of `block_ckpt` (`CarefulSpec`) makes the metadata durable before
writing a file it closed and opened again, and reopens a file whose checkpoint
processing failed. The code asks neither; see the next section.

Bounds. Two sessions suffice for one to overtake another in the middle of a scan or of a
call. A parent and a child are the smallest tree in which a subtree is evicted together,
and three pages of memory let a page be freed and used again while one is held. Six
blocks are the fewest with which one checkpoint is rolled past another into the wrong
place. Runs with several applications (`Setups`, `Uses`) start from each of them: what
one explores together would be too large in one. Every property has a mutant, a small
change of the kind a programming error would make, with which TLC finds it violated.

`CHECK_DEADLOCK FALSE` is given where the bounds on identifiers, calls, blocks or
changes stop the model.

Fairness. `FlushReturns` (`EvictServer`): weak fairness of the server's thread and of a
session between entering the library and leaving it; the operating system schedules
both, and nothing makes a session call. `CallsReturn` (`Handles`): weak fairness of the
steps of a session's call, and of closing its cursors: a session that looked at a handle
just before another locked it to bulk load waits for the load. No other liveness is
claimed. `__wt_txn_begin` retries for as long as others begin transactions, so one
session's progress is not guaranteed by the code.

## Statements that do not hold

Besides `hazard_recheck`, these statements of the code or its documentation are defined
in the modules and TLC refutes them on small instances; the passing runs check what holds
in spite of them.

- `TxnGlobal`, `SnapshotExcludesConcurrent`: `__wt_txn_begin` allocates an identifier
  before it publishes it; a snapshot in between shows that transaction's updates while it
  runs (`include/txn.i:126`; comment at line 118).
- `TxnGlobal`, `ReadersArePinned` for a session that evicts with cursors and no
  transaction: `__evict_page` clears the `snap_min` published for them
  (`btree/bt_evict.c:324`; `include/txn.i:267`). The property exempts these sessions.
- `TxnGlobal`, `IsolationIsConfigured`: an eviction inside a transaction resets the
  session's default isolation (`btree/bt_evict.c:309`, `txn/txn.c:408`).
- `Rows`, `CommittedKept`: the second change of a key by a read-committed transaction
  takes the first for visible to everyone and frees the committed update below; a roll
  back then loses it (`btree/row_modify.c:352`).
- `BlockCkpt`, `DurableIntact` under `Spec`: a closed handle's checkpoint is resolved
  before the metadata is durable (`txn/txn_ckpt.c:600`), and `__ckpt_process` that fails
  leaves a deleted checkpoint's blocks in the live lists (`block/block_ckpt.c:443`).
- `BlockCkpt`, `LastCheckpointLoads`: the file is truncated before the new checkpoint is
  durable; the durable one then lists blocks past its end (`block/block_ckpt.c:497`).
- `Handles`, `CloseKeepsOpenCheckpoints`: closing the live tree deletes checkpoints a
  cursor is reading (`txn/txn_ckpt.c:434`). `OpenCheckpointIsCurrent` and `BackupIsKept`
  exempt them (`orphans`).
- `Handles`, `CleanIsSaved`: a checkpoint that fails after the tree was marked clean
  leaves its changes unwritten (`txn/txn_ckpt.c:572`). `ChangesAreSaved` exempts it
  (`unsaved`).
- `Handles`, `NamesAreUnique` with a name that is a leading part of
  "WiredTigerCheckpoint" (constant `Leading`): such a checkpoint is not replaced by a
  later one of its name (`meta/meta_ckpt.c:141`).
- `PageBlocks`, `SnapshotsRead`: a page that is not dirty is evicted with the versions an
  older snapshot still reads (`btree/rec_evict.c:320`; `docs/transactions.dox:98`).
- `PageBlocks`, `KeysAreRead`: the copy of an overflow key's cell is read after its block
  was freed and written again (`btree/row_key.c:142`, the comment there).
- `PageBlocks`, `RestartFindsValue`: a reader of a column-store record that starts again
  may find its overflow value discarded and not cached (`btree/bt_ovfl.c:149`, the
  assertion there).
- `BtCursor`, `TruncatedRangeIsEmpty`: truncating a repeated cell links deletions in the
  wrong place (`btree/bt_curnext.c:198`); `Exempt` names the calls affected.
- `LsmTree`, `CkptChunkNotFreed`: the checkpoint thread reads chunks that the merge thread
  has freed (`lsm/lsm_worker.c:85`).
- `Salvage`, `SalvagesEveryRange`: a range may be lost with the page that covers it
  (`btree/bt_slvg.c:894`, `1465`; comment at line 643).

## The proofs

Every proof is checked by `tlapm`. Zenon is the prover of a leaf that names no other
(`USE ZenonT(60)`); arithmetic, and what Zenon does not find, is left to the SMT solver
(`SMTT`, `Z3T`).

### Hazard references and eviction

`HazardSteps` and `HazardProofs` prove, for every set of references, pages, cursors and
evicting threads and every parent function without a self-loop (`ParentAssumption`;
`NoRefAssumption` and `NoPageAssumption` say that the null values are no reference and no
page):

- `Invariance`: `Spec => []IInv`;
- `HeldPages`: a page a cursor holds stays its reference's page, allocated and
  protected, unless the race happened;
- `ServerPointers`: the queue and the walk point refer to no freed page, and a page
  being evicted is not on the queue;
- `ParentsStay`: a page in memory has its parent in memory.

None of the three properties is inductive. `IInv` says, as long as there was no race: who
reads a reference and who has locked it, and that these exclude each other (`ReaderInv`,
`ExclInv`); that a cursor that passed its check has published the page (`HoldInv`); and
the core, `CleanInv`: if a cursor has acquired a page locked by a thread that may still
evict it, that thread is looking at this very page and has not yet passed the cursor's
slot, so it will find it. `ReviewInv` makes the visited children a closed subtree,
`DyingInv` and `LruInv` account for freed pages, `WalkInv` keeps the server's path one
chain. A `...Frame` lemma for each conjunct says which variables it depends on; a
`...Step` lemma for each action proves the conjuncts the action can disturb.

### Blocks and checkpoints

`BlockProofs` proves, for every file size, any number of checkpoints and any number of
failures (`MaxBlocksAssumption`, `MaxCkptsAssumption`, `UsesAssumption`), of `CarefulSpec`:

- `InvHolds`: `CarefulSpec => []IInv`;
- `DurableIntactHolds`: no block of a checkpoint in the durable metadata is written again
  or truncated away;
- `LivePagesKeptHolds`: no block of the live tree can be allocated;
- `MergesDisjointHolds`: the lists `__ckpt_process` merges never overlap.

`IInv` says that the live lists are apart (`LiveLists`) and that the checkpoints form a
chain: each pair fits (`Fit`: what the later one allocated is of no page of the earlier
one, what the earlier one discarded is of no page of the later one), and the live system
continues each of them (`Continues`). While `__ckpt_process` rolls the lists of deleted checkpoints into the
next one that is kept, the chain is that of the kept ones with the merged lists
(`Building`); the lemmas about `Group`, `MergedAlloc` and `RolledTo` show that merging
keeps the chain. `Saved` relates the durable list to the one in memory.

### Handles

`HandleProofs` proves, for every finite set of sessions (`SessionsAssumption`), any
checkpoint names and drop configurations (`NamesAssumption`) and any files to start from
whose checkpoints without an address come first (`SetupsAssumption`), with any number of
calls and failures:

- `HandleInvHolds`: `Spec => []HandleInv`;
- `HeldIsOpenHolds`: the handle of a cursor stays open in the mode it was opened in;
- `RefcntCoversCachesHolds`: a handle's reference count covers the sessions that cache it;
- `OpenCheckpointIsCurrentHolds`: an open checkpoint handle that nobody has locked is of a
  checkpoint the metadata has, at the address it has;
- `FakesComeFirstHolds`: no checkpoint without an address follows a real one;
- `ChangesAreSavedHolds`: a clean tree that no checkpoint is writing has its changes in
  the last checkpoint;
- `BackupIsKeptHolds`: the checkpoints a backup copies stay until it ends.

`HandleInv` has two halves. `LockInv` says which locks and handles a session has at each
step of its call (`Flow`, `SessionOK`), that a handle open or locked is listed and one
opened in a special mode is locked by its user (`HandleOK`), and that references are
counted, with one more for a session that is about to lock the handle (`Counted`).
`MetaInv` says what those who rely on the list of checkpoints need of it (`Good`), both of
the list the metadata has now and of the one a checkpoint under way would go back to if it
failed (`CkptOK`: the checkpoints it deletes are locked, and nothing changed before it
writes); this is why an undone checkpoint leaves no handle on a checkpoint that is gone.

`HandleFacts` has facts about checkpoint lists, calls and handles and the frame conditions;
`HandleLocks` and `HandleSteps` show that each action keeps `LockInv`; `HandleMeta` shows
the same of `MetaInv`, given `LockInv`; `HandleProofs` puts the two together. Lemmas state
the invariants under the names `Locking`, `Listing` and `Typed`, so that a proof that opens
`LockInv` does not open it in every lemma it cites.

### Only model-checked

- `FlushReturns` and `CallsReturn` (liveness under fairness is beyond the prover) and the
  refinements `IsMap` and `IsCursor`, whose modules are recursive over chunks and records.
- `NoBlockLost` of `BlockCkpt`: it holds between checkpoints only, as long as none failed,
  and would need an invariant about where each block is in the middle of one.
- The properties of `TxnGlobal`, `Rows`, `EvictServer`, `Reconcile`, `PageBlocks`, `LsmTree`
  and `Salvage`. What `Reconcile` and `Salvage` compute is recursive over the page or file,
  which the installed provers cannot do induction on.

## What the models take for granted

- Loads and stores are sequentially consistent. The barriers of the code (`WT_PUBLISH`,
  `WT_ORDERED_READ`) are taken to do their work.
- `Hazard`: a session has a free hazard slot or the call fails; a thread that evicts is
  not at the same time one of the cursors.
- `BlockCkpt`: a completed write, rename or sync survives a crash; blocks have one size; no
  page is written while the tree is flushed, which `__evict_file_request_walk` ensures by
  draining other evictions (`FlushIsAlone`); fake checkpoints are left to `Handles`; a crash
  is followed only if there is a durable checkpoint and it loads.
- `Handles`: one file; the data of a tree is the number of changes made to it.
- `Rows`: beginning a transaction and copying the state table are one step.
- `EvictServer`: the server does not exit; the queue is sorted in any order.

## Not modelled

- Fast delete of pages on disk, the growth of the hazard table, dictionaries and raw
  compression in reconciliation, descending internal pages in a search.
- Operations on several files: tables, column groups and indices, and checkpoints of
  several files in one call; the turtle file beyond the step that makes a checkpoint
  durable.
- Compaction's choice of blocks, verify, upgrade, statistics and the utilities (they read,
  or call the API); opening a connection (sequential).
- Page and cell formats, packing, Huffman codes, checksums, hashes and configuration
  parsing (pure conversions), and the log, from which this version recovers nothing.

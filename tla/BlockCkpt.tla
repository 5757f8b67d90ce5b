------------------------------ MODULE BlockCkpt ------------------------------
(***************************************************************************)
(* The block manager's extent lists and checkpoints: which blocks of a     *)
(* file may be written again, while pages are written and freed,           *)
(* checkpoints are taken, deleted and made durable, steps of a checkpoint  *)
(* fail, and the system crashes and opens the file in its last checkpoint. *)
(*                                                                         *)
(* A block is one allocation unit and every page and extent list takes     *)
(* one; an extent list is the set of its blocks.  A block that may not be  *)
(* there (WT_BLOCK_INVALID_OFFSET) is a set of at most one.  What holds    *)
(* live_lock is one step after another with no writer between, but a crash *)
(* or an error can come after each.                                        *)
(***************************************************************************)
EXTENDS Naturals, Sequences, FiniteSets

CONSTANTS MaxBlocks,     \* bound: blocks a file can grow to
          MaxCkpts,      \* bound: checkpoints in the metadata
          Uses           \* how a file is used, see UsesAssumption

ASSUME MaxBlocksAssumption == MaxBlocks \in Nat
ASSUME MaxCkptsAssumption == MaxCkpts \in Nat \ {0}
\* A file grows to some blocks, its handle is closed and opened again a number of
\* times, and a number of its checkpoints fail (all three are bounds).
ASSUME UsesAssumption ==
  \A u \in Uses : u.blocks \in 0 .. MaxBlocks /\ u.closes \in Nat /\ u.failures \in Nat

VARIABLES fsize,     \* the file's size
          alloc, avail, discard, ckptAvail,   \* WT_BLOCK.live
          tree,      \* blocks of the pages the live tree refers to
          root,      \* live.root_offset during a checkpoint
          pc, how,   \* where the checkpoint is, and who asked for it
          del,       \* checkpoints of meta to be deleted (WT_CKPT_DELETE)
          todo,      \* checkpoints of ckpts to be rewritten (WT_CKPT_UPDATE)
          torn,      \* __ckpt_process failed and the file was not opened since
          ckpts,     \* the WT_CKPT list; after it is saved, the one before
          meta,      \* the file's checkpoints in the metadata
          disk,      \* its checkpoints in the last durable metadata
          over,      \* history: blocks of durable checkpoints overwritten
          failed,    \* history: number of checkpoints that failed
          closed,    \* history: number of times the handle was closed
          careless,  \* history: a step was taken that is not Careful
          use        \* how the file is used

lists == <<alloc, avail, discard, ckptAvail>>
flow == <<pc, how, del, todo, torn>>
history == <<over, failed>>
vars == <<fsize, lists, tree, root, flow, ckpts, meta, disk, history, closed, careless, use>>

Blocks == 0 .. MaxBlocks - 1

\* A checkpoint: its cookie (root, the blocks of its extent lists, file size),
\* what its extent lists say, and the blocks its tree refers to.
Pages(c) == c.tree \union c.root
ListBlocks(c) == c.aoff \union c.doff \union c.voff
BlocksOf(c) == Pages(c) \union ListBlocks(c)

AllBlocks(list) == UNION {BlocksOf(list[i]) : i \in DOMAIN list}

\* A new file
Init ==
  /\ fsize = 0
  /\ alloc = {} /\ avail = {} /\ discard = {} /\ ckptAvail = {}
  /\ tree = {} /\ root = {}
  /\ pc = "run" /\ how = "checkpoint" /\ del = {} /\ todo = {} /\ torn = FALSE
  /\ ckpts = <<>> /\ meta = <<>> /\ disk = <<>>
  /\ over = {} /\ failed = 0 /\ closed = 0 /\ careless = FALSE
  /\ use \in Uses

-----------------------------------------------------------------------------
(* Allocation.                                                             *)

\* The blocks of the extent of s that starts at b
Extent(s, b) == {c \in s : c >= b /\ b .. c \subseteq s}

Starts(s) == {b \in s : \A c \in s : c + 1 # b}

\* First fit by size, then by lowest offset
FirstFit(s, b) ==
  /\ b \in Starts(s)
  /\ \A c \in Starts(s) :
       LET m == Cardinality(Extent(s, b))  n == Cardinality(Extent(s, c))
       IN m < n \/ (m = n /\ b <= c)

\* Mutant of TakeBlock: the extent stays on the avail list.
TakeBlockKeeps(b) ==
  /\ IF avail # {}
     THEN FirstFit(avail, b) /\ UNCHANGED <<avail, fsize>>
     ELSE b = fsize /\ fsize < use.blocks /\ fsize' = fsize + 1 /\ UNCHANGED avail
  /\ over' = over \union ({b} \intersect AllBlocks(disk))
  /\ UNCHANGED failed

\* A block from the avail list or, if that is empty, the next of the file; it
\* is written
TakeBlock(b) ==
  /\ IF avail # {}
     THEN FirstFit(avail, b) /\ avail' = avail \ {b} /\ UNCHANGED fsize
     ELSE b = fsize /\ fsize < use.blocks /\ fsize' = fsize + 1 /\ UNCHANGED avail
  /\ over' = over \union ({b} \intersect AllBlocks(disk))
  /\ UNCHANGED failed

\* __wt_block_alloc
Allocate(b) == TakeBlock(b) /\ alloc' = alloc \union {b}

\* __wt_block_off_free: a block allocated since the last checkpoint can be
\* used again at once
OffFree(b) ==
  IF b \in alloc
  THEN /\ alloc' = alloc \ {b}
       /\ avail' = avail \union {b}
       /\ UNCHANGED discard
  ELSE /\ discard' = discard \union {b}
       /\ UNCHANGED <<alloc, avail>>

\* No thread writes pages of the tree while it is flushed for a checkpoint,
\* or after it was flushed to be closed.
Writable == pc = "run" \/ (how = "checkpoint" /\ pc \in {"written", "saved", "durable"})

PageWrite(b) ==
  /\ Writable /\ Allocate(b)
  /\ tree' = tree \union {b}
  /\ UNCHANGED <<discard, ckptAvail, root, flow, ckpts, meta, disk>>

\* the write failed after the file was extended: the block is freed
PageWriteError ==
  /\ Writable /\ avail = {} /\ fsize < use.blocks
  /\ fsize' = fsize + 1 /\ avail' = {fsize}
  /\ UNCHANGED <<alloc, discard, ckptAvail, tree, root, flow, ckpts, meta, disk, history>>

PageFree(b) ==
  /\ Writable /\ b \in tree
  /\ OffFree(b)
  /\ tree' = tree \ {b}
  /\ UNCHANGED <<fsize, ckptAvail, root, flow, ckpts, meta, disk, history>>

-----------------------------------------------------------------------------
(* __wt_block_checkpoint.                                                  *)

\* The tree has been flushed, the checkpoints d are to be deleted: write the
\* root page, unless the tree is empty
CkptRoot(d, h, b) ==
  /\ pc = "run" /\ Len(meta) + 1 <= MaxCkpts + Cardinality(d)
  /\ IF tree = {}
     THEN b = 0 /\ root' = {} /\ UNCHANGED <<fsize, avail, alloc, history>>
     ELSE Allocate(b) /\ root' = {b}
  /\ pc' = "process" /\ how' = h /\ del' = d
  /\ UNCHANGED <<discard, ckptAvail, tree, todo, torn, ckpts, meta, disk>>

\* The deleted checkpoints that are rolled into checkpoint j, or into the live
\* system if j is not in meta: those between j and the one kept before it
RolledInto(j) == {i \in del : i < j /\ \A k \in i .. j - 1 : k \in del}

RolledAlloc(j, own) == own \union UNION {meta[i].alloc : i \in RolledInto(j)}

RolledDiscard(j, own) ==
  own \union UNION {meta[i].discard \union meta[i].root : i \in RolledInto(j)}

\* The kept checkpoints whose extent lists change
Updated == {j \in DOMAIN meta \ del : RolledInto(j) # {}}

\* __wt_block_extlist_overlap: what is on both lists moves to live.ckpt_avail
Overlap(a, d) == [alloc |-> a \ d, discard |-> d \ a, avail |-> a \intersect d]

\* The first half of __ckpt_process: the lists of deleted checkpoints go to
\* the next one, blocks that are then allocated and discarded are reusable
CkptDelete ==
  /\ pc = "process"
  /\ LET live == Len(meta) + 1
         A(j) == RolledAlloc(j, meta[j].alloc)
         D(j) == RolledDiscard(j, meta[j].discard)
         a == RolledAlloc(live, alloc)
         d == RolledDiscard(live, discard)
         rolled == RolledInto(live) # {}
     IN /\ alloc' = IF rolled THEN Overlap(a, d).alloc ELSE alloc
        /\ discard' = IF rolled THEN Overlap(a, d).discard ELSE discard
        /\ ckptAvail' = (IF rolled THEN Overlap(a, d).avail ELSE {})
             \union (UNION {Overlap(A(j), D(j)).avail : j \in Updated})
             \union (UNION {meta[i].aoff \union meta[i].doff : i \in del \union Updated})
             \union (UNION {meta[i].voff : i \in del})
        /\ ckpts' = [j \in DOMAIN meta |->
                       IF j \in Updated
                       THEN [meta[j] EXCEPT !.alloc = Overlap(A(j), D(j)).alloc,
                                            !.discard = Overlap(A(j), D(j)).discard,
                                            !.aoff = {}, !.doff = {}]
                       ELSE meta[j]]
  /\ todo' = Updated
  /\ pc' = "update"
  /\ UNCHANGED <<fsize, avail, tree, root, how, del, torn, meta, disk, history>>

\* __wt_block_extlist_write: an empty list is not written, and the block of a
\* list is on no list
WriteList(el, b) ==
  IF el = {} THEN b = 0 /\ UNCHANGED <<fsize, avail, history>> ELSE TakeBlock(b)

Offset(el, b) == IF el = {} THEN {} ELSE {b}

\* __ckpt_update of a checkpoint that is kept
UpdateAlloc(j, b) ==
  /\ pc = "update" /\ j \in todo /\ \A i \in todo : j <= i
  /\ WriteList(ckpts[j].alloc, b)
  /\ ckpts' = [ckpts EXCEPT ![j].aoff = Offset(ckpts[j].alloc, b)]
  /\ pc' = "updisc"
  /\ UNCHANGED <<alloc, discard, ckptAvail, tree, root, how, del, todo, torn, meta, disk>>

UpdateDiscard(j, b) ==
  /\ pc = "updisc" /\ j \in todo /\ \A i \in todo : j <= i
  /\ WriteList(ckpts[j].discard, b)
  /\ ckpts' = [ckpts EXCEPT ![j].doff = Offset(ckpts[j].discard, b)]
  /\ todo' = todo \ {j}
  /\ pc' = "update"
  /\ UNCHANGED <<alloc, discard, ckptAvail, tree, root, how, del, torn, meta, disk>>

\* __wt_block_extlist_truncate: the extent at the end of the file goes
CkptTruncate(n) ==
  /\ pc = "update" /\ todo = {}
  /\ n <= fsize /\ n .. fsize - 1 \subseteq avail
  /\ \A b \in avail : b + 1 # n
  /\ fsize' = n
  /\ avail' = avail \ (n .. fsize - 1)
  /\ pc' = "alloc"
  /\ UNCHANGED <<alloc, discard, ckptAvail, tree, root, how, del, todo, torn, ckpts, meta, disk, history>>

\* __ckpt_update of the new checkpoint: its three lists, the avail list last
LiveAlloc(b) ==
  /\ pc = "alloc"
  /\ WriteList(alloc, b)
  /\ ckpts' = Append(ckpts, [tree |-> tree, root |-> root, alloc |-> alloc,
                             discard |-> discard, avail |-> {},
                             aoff |-> Offset(alloc, b), doff |-> {}, voff |-> {},
                             size |-> 0])
  /\ pc' = "discard"
  /\ UNCHANGED <<alloc, discard, ckptAvail, tree, root, how, del, todo, torn, meta, disk>>

LiveDiscard(b) ==
  /\ pc = "discard"
  /\ WriteList(discard, b)
  /\ ckpts' = [ckpts EXCEPT ![Len(ckpts)].doff = Offset(discard, b)]
  /\ pc' = "avail"
  /\ UNCHANGED <<alloc, discard, ckptAvail, tree, root, how, del, todo, torn, meta, disk>>

\* Mutant of LiveAvail: the blocks to be made available are not written.
LiveAvailOnly(b) ==
  /\ pc = "avail"
  /\ WriteList(avail, b)
  /\ ckpts' = [ckpts EXCEPT ![Len(ckpts)].avail = avail,
                            ![Len(ckpts)].voff = Offset(avail, b),
                            ![Len(ckpts)].size = fsize']
  /\ alloc' = {} /\ discard' = {} /\ root' = {}
  /\ pc' = "written"
  /\ UNCHANGED <<ckptAvail, tree, how, del, todo, torn, meta, disk>>

\* and then the live alloc and discard lists start again from nothing
LiveAvail(b) ==
  /\ pc = "avail"
  /\ WriteList(avail \union ckptAvail, b)
  /\ ckpts' = [ckpts EXCEPT ![Len(ckpts)].avail = avail \union ckptAvail,
                            ![Len(ckpts)].voff = Offset(avail \union ckptAvail, b),
                            ![Len(ckpts)].size = fsize']
  /\ alloc' = {} /\ discard' = {} /\ root' = {}
  /\ pc' = "written"
  /\ UNCHANGED <<ckptAvail, tree, how, del, todo, torn, meta, disk>>

\* __ckpt_process failed: what it did to the live lists stays
ProcessFail ==
  /\ failed < use.failures /\ pc \in {"process", "update", "updisc", "alloc", "discard", "avail"}
  /\ pc' = "run" /\ failed' = failed + 1 /\ del' = {} /\ todo' = {} /\ root' = {} /\ ckpts' = <<>>
  /\ torn' = TRUE
  /\ UNCHANGED <<fsize, lists, tree, how, meta, disk, over>>

-----------------------------------------------------------------------------
(* Saving the checkpoint.                                                  *)

Kept == DOMAIN ckpts \ del

\* The places of the n checkpoints that are kept, in order
Places(n, at) ==
  /\ at \in [1 .. n -> Kept]
  /\ \A i, j \in 1 .. n : i < j => at[i] < at[j]
  /\ \A k \in Kept : \E i \in 1 .. n : at[i] = k

\* __wt_meta_ckptlist_set: the deleted checkpoints go; the list before is kept
\* to unroll
SaveMeta ==
  /\ pc = "written"
  /\ \E n \in 0 .. Len(ckpts) : \E at \in [1 .. n -> Kept] :
       Places(n, at) /\ meta' = [i \in 1 .. n |-> ckpts[at[i]]]
  /\ ckpts' = meta /\ del' = {}
  /\ pc' = "saved"
  /\ UNCHANGED <<fsize, lists, tree, root, how, todo, torn, disk, history>>

\* The metadata is checkpointed and the turtle file renamed
Durable ==
  /\ pc = "saved" /\ how = "checkpoint"
  /\ disk' = meta
  /\ pc' = "durable"
  /\ UNCHANGED <<fsize, lists, tree, root, how, del, todo, torn, ckpts, meta, history>>

\* __wt_block_checkpoint_resolve.  A handle that is closed resolves when the
\* checkpoint is in the metadata; opened again, it has the same lists.
Resolve ==
  /\ pc = "durable" \/ (pc = "saved" /\ how = "close")
  /\ avail' = avail \union ckptAvail
  /\ ckptAvail' = {} /\ ckpts' = <<>>
  /\ pc' = "run"
  /\ UNCHANGED <<fsize, alloc, discard, tree, root, how, del, todo, torn, meta, disk, history>>

\* Mutant of SaveFail: the checkpoint is resolved although it was not saved.
SaveFailResolves ==
  /\ failed < use.failures /\ pc \in {"written", "saved"} /\ how = "checkpoint"
  /\ meta' = IF pc = "saved" THEN ckpts ELSE meta
  /\ avail' = avail \union ckptAvail /\ ckptAvail' = {}
  /\ ckpts' = <<>> /\ del' = {}
  /\ pc' = "run" /\ failed' = failed + 1
  /\ UNCHANGED <<fsize, alloc, discard, tree, root, how, todo, torn, disk, over>>

\* An error after __ckpt_process: the metadata is unrolled, nothing resolved
SaveFail ==
  /\ failed < use.failures /\ pc \in {"written", "saved"} /\ how = "checkpoint"
  /\ meta' = IF pc = "saved" THEN ckpts ELSE meta
  /\ ckpts' = <<>> /\ del' = {}
  /\ pc' = "run" /\ failed' = failed + 1
  /\ UNCHANGED <<fsize, lists, tree, root, how, todo, torn, disk, over>>

\* The metadata is checkpointed by another operation
MetaDurable ==
  /\ pc = "run" /\ disk # meta
  /\ disk' = meta /\ how' = "checkpoint"
  /\ UNCHANGED <<fsize, lists, tree, root, pc, del, todo, torn, ckpts, meta, history>>

-----------------------------------------------------------------------------
(* A crash, and opening the file in the last durable checkpoint            *)
(* (__wt_block_checkpoint_load).                                           *)

\* __wt_block_extlist_read refuses an extent past the end of the file
Loads(c) == c.avail \subseteq 0 .. fsize - 1

\* Mutant of Crash: the file is taken to end one block before its end.
CrashSizeShort ==
  /\ disk # <<>> /\ Loads(disk[Len(disk)])
  /\ LET c == disk[Len(disk)]
     IN /\ avail' = c.avail \ c.voff
        /\ fsize' = IF c.size = 0 THEN 0 ELSE c.size - 1
        /\ tree' = c.tree
  /\ alloc' = {} /\ discard' = {} /\ ckptAvail' = {} /\ root' = {}
  /\ meta' = disk /\ ckpts' = <<>>
  /\ pc' = "run" /\ how' = "checkpoint" /\ del' = {} /\ todo' = {} /\ torn' = FALSE
  /\ UNCHANGED <<disk, history>>

Crash ==
  /\ disk # <<>> /\ Loads(disk[Len(disk)])
  /\ LET c == disk[Len(disk)]
     IN /\ avail' = c.avail \ c.voff
        /\ fsize' = c.size
        /\ tree' = c.tree
  /\ alloc' = {} /\ discard' = {} /\ ckptAvail' = {} /\ root' = {}
  /\ meta' = disk /\ ckpts' = <<>>
  /\ pc' = "run" /\ how' = "checkpoint" /\ del' = {} /\ todo' = {} /\ torn' = FALSE
  /\ UNCHANGED <<disk, history>>

Owners == {"checkpoint"} \union (IF closed < use.closes THEN {"close"} ELSE {})

WritePages == \E b \in Blocks : PageWrite(b) \/ PageFree(b)

WriteLists ==
  \E b \in Blocks :
    \/ \E j \in todo : UpdateAlloc(j, b) \/ UpdateDiscard(j, b)
    \/ LiveAlloc(b) \/ LiveDiscard(b) \/ LiveAvail(b)

\* After a close the metadata is made durable before the file is written again, and
\* after a failed __ckpt_process the file is opened again before it is used.  Nothing in
\* the code sees to either: __wt_checkpoint_close resolves the checkpoint without waiting
\* for the metadata (txn_ckpt.c:600), and a handle whose checkpoint failed stays open
\* with the lists __ckpt_process left (block_ckpt.c:443).
Careful ==
  pc = "run" /\ (torn \/ (how = "close" /\ disk # meta)) => ~ torn' /\ disk' = meta'

Step ==
  \/ WritePages \/ PageWriteError
  \/ \E d \in SUBSET DOMAIN meta, h \in Owners, b \in Blocks : CkptRoot(d, h, b)
  \/ CkptDelete
  \/ WriteLists
  \/ \E n \in 0 .. MaxBlocks : CkptTruncate(n)
  \/ SaveMeta \/ Durable \/ Resolve \/ MetaDurable
  \/ ProcessFail \/ SaveFail
  \/ Crash

Next ==
  /\ Step
  /\ closed' = IF pc = "run" /\ pc' = "process" /\ how' = "close" THEN closed + 1 ELSE closed
  /\ careless' = (careless \/ ~ Careful)
  /\ UNCHANGED use

Spec == Init /\ [][Next]_vars

-----------------------------------------------------------------------------
(* Properties.                                                             *)

\* The lists are sets of blocks of the file, and the checkpoints to be deleted
\* or rewritten are ones that the lists they are taken from have.
TypeOK ==
  /\ fsize \in 0 .. MaxBlocks
  /\ alloc \subseteq Blocks /\ avail \subseteq Blocks
  /\ discard \subseteq Blocks /\ ckptAvail \subseteq Blocks
  /\ tree \subseteq Blocks /\ root \subseteq Blocks
  /\ pc \in {"run", "process", "update", "updisc", "alloc", "discard", "avail",
             "written", "saved", "durable"}
  /\ how \in {"checkpoint", "close"}
  /\ del \subseteq DOMAIN meta /\ todo \subseteq DOMAIN ckpts
  /\ torn \in BOOLEAN /\ over \subseteq Blocks /\ failed \in 0 .. use.failures

\* No block of a checkpoint in the metadata can be allocated, whatever pages are freed
\* and written and whatever checkpoints are deleted or fail to be saved meanwhile; and no
\* block of one in the durable metadata was written again or truncated away (block_ckpt.c:
\* __ckpt_process, __wt_block_checkpoint_resolve).  The second half holds up to the first
\* step that is not Careful: a file closed and written again before its metadata is
\* durable, or used after __ckpt_process failed, loses blocks of its durable checkpoints,
\* see DurableAlways.
DurableIntact ==
  /\ ~ torn => AllBlocks(meta) \intersect avail = {}
  /\ careless \/ (over = {} /\ AllBlocks(disk) \subseteq 0 .. fsize - 1)

\* The same with no assumption on the caller.  The comment in __wt_block_checkpoint_resolve
\* has it that the blocks are not allocated before the checkpoint is in stable storage,
\* since "if we crashed before the new checkpoint location was saved, we'd have
\* overwritten blocks still referenced by checkpoints in the system".
DurableAlways == over = {} /\ AllBlocks(disk) \subseteq 0 .. fsize - 1

\* No block the live tree refers to can be allocated (block_ext.c:
\* __wt_block_off_free, __ckpt_process rolling lists together).
LivePagesKept == (tree \union root) \intersect (avail \union ckptAvail) = {}

\* The first checkpoint of a file never has blocks on its discard list: there
\* is nothing before it they could be part of (block_ckpt.c: __ckpt_process's
\* diagnostic check).  Not so once a checkpoint was not saved: its blocks are on
\* no list they could be paired with.
FirstDiscardsNothing == meta # <<>> /\ failed = 0 => meta[1].discard = {}

\* Between checkpoints every block of the file is available or referred to by
\* the live tree or by a checkpoint: deleting checkpoints loses no space
\* (block_ckpt.c: __ckpt_process).  A checkpoint that was processed and not saved
\* does, as the comment in __ckpt_process says.
NoBlockLost ==
  FirstDiscardsNothing /\ (pc = "run" /\ failed = 0 => 0 .. fsize - 1 \subseteq avail \union tree \union AllBlocks(meta))

\* The lists that __ckpt_process merges are disjoint, so no merge meets an
\* extent twice (block_ext.c: __block_merge returns EINVAL): the alloc lists of
\* the checkpoints and of the live system, their discard lists, and the avail
\* list against the blocks that are to be made available.
MergesDisjoint ==
  /\ \A i, j \in DOMAIN meta :
       i # j => /\ meta[i].alloc \intersect meta[j].alloc = {}
                /\ meta[i].discard \intersect meta[j].discard = {}
  /\ pc = "run" /\ ~ torn =>
       \A i \in DOMAIN meta : /\ meta[i].alloc \intersect alloc = {}
                              /\ meta[i].discard \intersect discard = {}
  /\ avail \intersect ckptAvail = {}

\* The last durable checkpoint can be loaded: its avail list has no extent
\* past the end of the file (block_ext.c: __wt_block_extlist_read).
LastCheckpointLoads == disk # <<>> => Loads(disk[Len(disk)])

-----------------------------------------------------------------------------
(* The inductive invariant.                                                *)

Disjoint(S, T) == \A b \in S : b \notin T

\* Every block a checkpoint names: it refers to it, or has it on a list
Names(c) == BlocksOf(c) \union c.alloc \union c.discard

\* The checkpoints ck[i], i in K, fit together.  A block on an alloc list is of
\* no page of an earlier checkpoint, one on a discard list of no later one; a
\* root is of one checkpoint; the block of a list has no other use.
Fit(c, d) ==
  /\ Disjoint(d.alloc, Pages(c)) /\ Disjoint(d.alloc, c.alloc)
  /\ Disjoint(c.discard, Pages(d)) /\ Disjoint(c.discard, d.discard)
  /\ Disjoint(c.root, Pages(d) \union d.discard) /\ Disjoint(d.root, c.tree)
  /\ Disjoint(ListBlocks(c), Names(d)) /\ Disjoint(ListBlocks(d), Names(c))
Own(c) ==
  /\ Disjoint(c.discard, Pages(c)) /\ Disjoint(c.root, c.tree)
  /\ Disjoint(ListBlocks(c), Pages(c) \union c.alloc \union c.discard)
  /\ Disjoint(c.voff, c.aoff \union c.doff)
Chain(ck, K) == (\A i \in K : Own(ck[i])) /\ (\A i, j \in K : i < j => Fit(ck[i], ck[j]))

\* The live system, with alloc list a, discard list d, root r and tree t, continues
\* the checkpoint c: it is as a checkpoint after c, and its avail list v names no
\* block of c, which are in the n blocks of the file.
Continues(c, a, d, r, t, v, n) ==
  /\ Disjoint(a, Pages(c) \union c.alloc \union ListBlocks(c))
  /\ Disjoint(d, c.discard \union c.root \union ListBlocks(c))
  /\ Disjoint(t \union r, c.discard \union c.root \union ListBlocks(c)) /\ Disjoint(r, c.tree)
  /\ Disjoint(v, Names(c)) /\ Names(c) \subseteq 0 .. n - 1

\* Opening the checkpoint c makes no block of the checkpoints available.
LoadsWith(c, ck, K) ==
  /\ \A i \in K : Disjoint(c.avail \ c.voff, Names(ck[i])) /\ Names(ck[i]) \subseteq 0 .. c.size - 1
  /\ c.avail \ c.voff \subseteq 0 .. c.size - 1
Whole(ck) == Chain(ck, DOMAIN ck) /\ (ck # <<>> => LoadsWith(ck[Len(ck)], ck, DOMAIN ck))

\* The live lists: none of their blocks, and no block of the live tree, can be
\* allocated, and all are in the file.
LiveLists ==
  /\ Disjoint(avail, tree \union root \union alloc \union discard \union ckptAvail)
  /\ Disjoint(tree \union root, ckptAvail \union discard) /\ Disjoint(tree, root)
  /\ avail \union tree \union root \union alloc \union discard \union ckptAvail \subseteq 0 .. fsize - 1

\* What __ckpt_process is to make available is used by nothing that is kept.
Reusable(ck, K) == Disjoint(ckptAvail, alloc \union discard) /\ \A i \in K : Disjoint(ckptAvail, Names(ck[i]))

Rolling == {"update", "updisc", "alloc"}
Writing == {"discard", "avail"}

Ckpt == [tree : SUBSET Blocks, root : SUBSET Blocks, alloc : SUBSET Blocks, discard : SUBSET Blocks,
         avail : SUBSET Blocks, aoff : SUBSET Blocks, doff : SUBSET Blocks, voff : SUBSET Blocks, size : 0 .. MaxBlocks]

\* The live system continues all the checkpoints ck[i], i in K.
ContinuesAll(ck, K, a, d, r, t, v, n) == \A i \in K : Continues(ck[i], a, d, r, t, v, n)

\* Where __wt_block_checkpoint is, and what it has built so far.
Building ==
  /\ pc \in Rolling => Len(ckpts) = Len(meta) /\ ContinuesAll(ckpts, Kept, alloc, discard, root, tree, avail, fsize)
  /\ pc \in Writing \union {"written"} => Len(ckpts) = Len(meta) + 1
  /\ pc \in Writing => ContinuesAll(ckpts, Kept, {}, {}, {}, tree, avail, fsize)
  /\ pc = "written" => /\ ContinuesAll(ckpts, Kept, alloc, discard, {}, tree, avail, fsize)
                       /\ LoadsWith(ckpts[Len(ckpts)], ckpts, Kept)
  /\ pc \in Rolling \union Writing \union {"written"} => Chain(ckpts, Kept) /\ Reusable(ckpts, Kept)
  /\ pc = "saved" => ckpts = disk /\ ContinuesAll(disk, DOMAIN disk, alloc, discard, {}, tree, avail, fsize)
  /\ pc \in {"saved", "durable"} => Reusable(meta, DOMAIN meta)

TypeInv == TypeOK /\ use \in Uses /\ meta \in Seq(Ckpt) /\ disk \in Seq(Ckpt) /\ ckpts \in Seq(Ckpt)

\* The metadata, and its durable copy.
Saved ==
  /\ Whole(meta) /\ Whole(disk)
  /\ \A i \in DOMAIN disk : Names(disk[i]) \subseteq 0 .. fsize - 1
  /\ pc = "saved" \/ disk = meta \/ (pc = "run" /\ how = "close" /\ ~ torn)
  /\ ~ torn => IF pc \in Rolling \union Writing THEN ContinuesAll(meta, DOMAIN meta, {}, {}, root, tree, avail, fsize)
               ELSE ContinuesAll(meta, DOMAIN meta, alloc, discard, root, tree, avail, fsize)

Consistent ==
  /\ TypeInv
  /\ over = {} /\ LiveLists
  /\ torn => pc = "run"
  /\ pc \notin Rolling \union Writing \union {"process"} => root = {}
  /\ pc \notin {"update", "updisc"} => todo = {}
  /\ pc \in {"run", "saved", "durable"} => del = {}
  /\ Saved
  /\ Building

\* The checkpoints in the metadata and the live lists fit together, at every step of a
\* checkpoint (block_ckpt.c: __ckpt_process), up to the first step that is not Careful.
\* After a close those of the durable metadata need not be among them: their blocks may
\* be available already.
IInv == careless \/ Consistent
=============================================================================

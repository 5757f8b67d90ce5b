----------------------------- MODULE BlockProofs -----------------------------
(***************************************************************************)
(* Proofs about BlockCkpt, for every file size and every number of         *)
(* checkpoints.  The inductive invariant is IInv: Consistent, up to the    *)
(* first step that is not Careful.  First, facts about its operators; then *)
(* what the steps do with blocks: how one is taken for a list, and how the *)
(* lists of deleted checkpoints are rolled into the next one that is kept; *)
(* then the steps in which pages are written and freed and those of        *)
(* __wt_block_checkpoint, one lemma each: a careful step keeps Consistent. *)
(* So IInv holds always, and the properties follow from it.                *)
(***************************************************************************)
EXTENDS BlockCkpt, TLAPS

\* The prover of a leaf that names no other.
USE ZenonT(60)

-----------------------------------------------------------------------------
(* Facts about the operators of the invariant.                             *)

\* The checkpoint e is c with the blocks of its extent lists among those of c
\* and new: what __ckpt_update leaves behind.
Relisted(c, e, new) ==
  /\ e.tree = c.tree /\ e.root = c.root /\ e.alloc = c.alloc /\ e.discard = c.discard
  /\ ListBlocks(e) \subseteq ListBlocks(c) \union new

\* Writing a list of a checkpoint to a block that no other checkpoint names keeps it
\* in its place before the others (__ckpt_update).
LEMMA FitRelistedBefore ==
  ASSUME NEW c, NEW d, NEW e, NEW new, Fit(c, d), Relisted(c, e, new), Disjoint(new, Names(d))
  PROVE  Fit(e, d)
BY DEF Fit, Relisted, Disjoint, Names, BlocksOf, Pages, ListBlocks

\* The same for its place after the others.
LEMMA FitRelistedAfter ==
  ASSUME NEW c, NEW d, NEW e, NEW new, Fit(d, c), Relisted(c, e, new), Disjoint(new, Names(d))
  PROVE  Fit(d, e)
BY DEF Fit, Relisted, Disjoint, Names, BlocksOf, Pages, ListBlocks

\* A checkpoint whose list was written to a block that is not available any more
\* is still continued by the live system.
LEMMA ContinuesRelisted ==
  ASSUME NEW c, NEW e, NEW new, NEW a, NEW d, NEW r, NEW t, NEW v, NEW n,
         Continues(c, a, d, r, t, v, n), Relisted(c, e, new),
         Disjoint(new, a \union d \union t \union r \union v), new \subseteq 0 .. n - 1
  PROVE  Continues(e, a, d, r, t, v, n)
BY DEF Continues, Relisted, Disjoint, Names, BlocksOf, Pages, ListBlocks

\* The live system, written as a checkpoint, fits after those it continues (LiveAlloc).
LEMMA ContinuesFits ==
  ASSUME NEW c, NEW e, NEW a, NEW d, NEW r, NEW t, NEW v, NEW n, NEW new,
         Continues(c, a, d, r, t, v, n),
         e.tree = t, e.root = r, e.alloc = a, e.discard = d, ListBlocks(e) \subseteq new,
         Disjoint(new, Names(c))
  PROVE  Fit(c, e)
BY DEF Fit, Continues, Disjoint, Names, BlocksOf, Pages, ListBlocks

\* A block of the avail list, or the next of the file, is one that no checkpoint
\* the live system continues names.
LEMMA ContinuesTaken ==
  ASSUME NEW c, NEW a, NEW d, NEW r, NEW t, NEW v, NEW n \in Nat, NEW new,
         Continues(c, a, d, r, t, v, n), new \subseteq v \union {n}
  PROVE  Disjoint(new, Names(c))
BY SMTT(20) DEF Continues, Disjoint

\* Of two numbers one is the smaller.
LEMMA Ordered == \A i, j \in Nat : i < j \/ j < i \/ i = j
BY SMTT(20)

\* Replacing an element of a sequence leaves a sequence of the same length.
LEMMA SeqExcept ==
  ASSUME NEW S, NEW s \in Seq(S), NEW j \in DOMAIN s, NEW e \in S
  PROVE  /\ [s EXCEPT ![j] = e] \in Seq(S)
         /\ Len([s EXCEPT ![j] = e]) = Len(s)
         /\ DOMAIN [s EXCEPT ![j] = e] = DOMAIN s
BY SMTT(20)

-----------------------------------------------------------------------------
(* What the invariant says about a block that is taken.                    *)

\* Blocks `new' were taken from the live system: they are not available any more,
\* and were none of a durable checkpoint (__wt_block_alloc).
Taken(new) ==
  /\ avail' \subseteq avail /\ Disjoint(new, avail')
  /\ new \subseteq avail \union {fsize} /\ new \subseteq 0 .. fsize' - 1
  /\ fsize' \in 0 .. MaxBlocks /\ fsize <= fsize'
  /\ over' = {} /\ failed' = failed

\* What the file uses is set up: the live system continues the checkpoints of the
\* metadata, which are the durable ones unless the checkpoint is being saved.
Ready == Consistent /\ ~ torn /\ (pc = "saved" \/ disk = meta)

\* No careful step leaves the metadata alone before the file is ready for it.
LEMMA CarefulReady ==
  ASSUME Consistent, Careful, torn' = torn, meta' = meta, disk' = disk
  PROVE  Ready
BY DEF Consistent, Saved, TypeInv, TypeOK, Careful, Ready

\* Free blocks are named by no checkpoint that is or may become the one to load.
LEMMA FreeIsUnnamed ==
  ASSUME Ready, NEW new, new \subseteq avail \union {fsize}
  PROVE  /\ \A i \in DOMAIN meta : Disjoint(new, Names(meta[i]))
         /\ \A i \in DOMAIN disk : Disjoint(new, Names(disk[i]))
         /\ pc \in Rolling \union Writing \union {"written"} => \A i \in Kept : Disjoint(new, Names(ckpts[i]))
<1>n. fsize \in Nat
  BY SMTT(20) DEF Ready, Consistent, TypeInv, TypeOK
<1>m. \A i \in DOMAIN meta : Disjoint(new, Names(meta[i]))
  <2> SUFFICES ASSUME NEW i \in DOMAIN meta PROVE Disjoint(new, Names(meta[i]))
    OBVIOUS
  <2>1. CASE pc \in Rolling \union Writing
    <3>1. Continues(meta[i], {}, {}, root, tree, avail, fsize)
      BY <2>1 DEF Ready, Consistent, Saved, ContinuesAll
    <3> QED BY <3>1, <1>n, ContinuesTaken
  <2>2. CASE pc \notin Rolling \union Writing
    <3>1. Continues(meta[i], alloc, discard, root, tree, avail, fsize)
      BY <2>2 DEF Ready, Consistent, Saved, ContinuesAll
    <3> QED BY <3>1, <1>n, ContinuesTaken
  <2> QED BY <2>1, <2>2
<1>d. \A i \in DOMAIN disk : Disjoint(new, Names(disk[i]))
  <2>1. CASE pc = "saved"
    <3>1. \A i \in DOMAIN disk : Continues(disk[i], alloc, discard, {}, tree, avail, fsize)
      BY <2>1 DEF Ready, Consistent, Building, ContinuesAll
    <3> QED BY <3>1, <1>n, ContinuesTaken
  <2>2. CASE disk = meta
    BY <2>2, <1>m
  <2> QED BY <2>1, <2>2 DEF Ready
<1>k. ASSUME pc \in Rolling \union Writing \union {"written"}, NEW i \in Kept
      PROVE  Disjoint(new, Names(ckpts[i]))
  <2>1. CASE pc \in Rolling
    <3>1. Continues(ckpts[i], alloc, discard, root, tree, avail, fsize)
      BY <2>1, <1>k DEF Ready, Consistent, Building, ContinuesAll
    <3> QED BY <3>1, <1>n, ContinuesTaken
  <2>2. CASE pc \in Writing
    <3>1. Continues(ckpts[i], {}, {}, {}, tree, avail, fsize)
      BY <2>2, <1>k DEF Ready, Consistent, Building, ContinuesAll
    <3> QED BY <3>1, <1>n, ContinuesTaken
  <2>3. CASE pc = "written"
    <3>1. Continues(ckpts[i], alloc, discard, {}, tree, avail, fsize)
      BY <2>3, <1>k DEF Ready, Consistent, Building, ContinuesAll
    <3> QED BY <3>1, <1>n, ContinuesTaken
  <2> QED BY <1>k, <2>1, <2>2, <2>3
<1> QED BY <1>m, <1>d, <1>k

\* __wt_block_alloc takes a block that nothing uses.
LEMMA TakeBlockTakes ==
  ASSUME Ready, NEW b, TakeBlock(b)
  PROVE  Taken({b})
<1>t. fsize \in 0 .. MaxBlocks /\ use.blocks \in 0 .. MaxBlocks
  BY UsesAssumption DEF Ready, Consistent, TypeInv, TypeOK
<1>o. over = {} /\ avail \subseteq 0 .. fsize - 1
  BY DEF Ready, Consistent, LiveLists
<1>1. {b} \subseteq avail \union {fsize}
  BY DEF TakeBlock, FirstFit, Starts
<1>2. {b} \intersect AllBlocks(disk) = {}
  <2>1. \A i \in DOMAIN disk : Disjoint({b}, Names(disk[i]))
    BY <1>1, FreeIsUnnamed
  <2> QED BY <2>1 DEF AllBlocks, Disjoint, Names
<1>3. over' = {} /\ failed' = failed
  BY <1>2, <1>o DEF TakeBlock
<1>4. CASE avail # {}
  <2>1. b \in avail /\ avail' = avail \ {b} /\ fsize' = fsize
    BY <1>4 DEF TakeBlock, FirstFit, Starts
  <2> QED BY SMTT(20), <2>1, <1>1, <1>3, <1>t, <1>o, MaxBlocksAssumption DEF Taken, Disjoint
<1>5. CASE avail = {}
  <2>1. b = fsize /\ avail' = avail /\ fsize' = fsize + 1 /\ fsize < use.blocks
    BY <1>5 DEF TakeBlock
  <2> QED BY SMTT(20), <2>1, <1>1, <1>3, <1>5, <1>t, MaxBlocksAssumption DEF Taken, Disjoint
<1> QED BY <1>4, <1>5

\* __wt_block_extlist_write takes the block of the list, if it writes one.
LEMMA WriteListTakes ==
  ASSUME Ready, NEW el, NEW b, WriteList(el, b)
  PROVE  Taken(Offset(el, b))
<1>1. CASE el = {}
  BY SMTT(20), <1>1 DEF WriteList, Offset, Taken, Disjoint, Ready, Consistent, TypeInv, TypeOK, history
<1>2. CASE el # {}
  BY <1>2, TakeBlockTakes DEF WriteList, Offset
<1> QED BY <1>1, <1>2

-----------------------------------------------------------------------------
(* Pages.                                                                  *)

\* Between the steps of a checkpoint the live system may grow by free blocks: no
\* checkpoint names them.
LEMMA GrowKeepsInv ==
  ASSUME Ready, Writable, NEW new, new \subseteq avail \union {fsize},
         alloc' \subseteq alloc \union new, tree' \subseteq tree \union new, avail' \subseteq avail \union new,
         fsize <= fsize', TypeInv', LiveLists', over' = {},
         UNCHANGED <<discard, ckptAvail, root, flow, ckpts, meta, disk>>
  PROVE  Consistent'
<1>n. fsize \in Nat /\ fsize' \in Nat
  BY SMTT(20) DEF Ready, Consistent, TypeInv, TypeOK
<1>p. pc \notin Rolling \union Writing
  BY DEF Writable, Rolling, Writing
<1>u. /\ \A i \in DOMAIN meta : Disjoint(new, Names(meta[i]))
      /\ \A i \in DOMAIN disk : Disjoint(new, Names(disk[i]))
      /\ pc = "written" => \A i \in Kept : Disjoint(new, Names(ckpts[i]))
  BY FreeIsUnnamed
<1>c. Disjoint(new, ckptAvail)
  BY SMTT(20) DEF Ready, Consistent, LiveLists, Disjoint
<1>f. ASSUME NEW ck, NEW K, NEW r, ContinuesAll(ck, K, alloc, discard, r, tree, avail, fsize),
             \A i \in K : Disjoint(new, Names(ck[i]))
      PROVE  ContinuesAll(ck, K, alloc', discard, r, tree', avail', fsize')
  BY SMTT(20), <1>n, <1>f DEF ContinuesAll, Continues, Disjoint, Names, BlocksOf, Pages, ListBlocks
<1>1. Saved'
  <2>1. ContinuesAll(meta, DOMAIN meta, alloc, discard, root, tree, avail, fsize)
    BY <1>p DEF Ready, Consistent, Saved
  <2>2. ContinuesAll(meta, DOMAIN meta, alloc', discard, root, tree', avail', fsize')
    BY <2>1, <1>u, <1>f
  <2>3. \A i \in DOMAIN disk : Names(disk[i]) \subseteq 0 .. fsize' - 1
    BY SMTT(20), <1>n DEF Ready, Consistent, Saved
  <2> QED BY <2>2, <2>3, <1>p DEF Ready, Consistent, Saved, flow
<1>2. Building'
  <2>1. ASSUME pc = "written"
        PROVE  /\ ContinuesAll(ckpts, Kept, alloc', discard, {}, tree', avail', fsize')
               /\ Disjoint(ckptAvail, alloc' \union discard)
    <3>1. ContinuesAll(ckpts, Kept, alloc, discard, {}, tree, avail, fsize) /\ Disjoint(ckptAvail, alloc \union discard)
      BY <2>1 DEF Ready, Consistent, Building, Reusable
    <3>2. ContinuesAll(ckpts, Kept, alloc', discard, {}, tree', avail', fsize')
      BY <3>1, <1>u, <2>1, <1>f
    <3> QED BY <3>1, <3>2, <1>c DEF Disjoint
  <2>2. ASSUME pc = "saved"
        PROVE  ContinuesAll(disk, DOMAIN disk, alloc', discard, {}, tree', avail', fsize')
    <3>1. ContinuesAll(disk, DOMAIN disk, alloc, discard, {}, tree, avail, fsize)
      BY <2>2 DEF Ready, Consistent, Building
    <3> QED BY <3>1, <1>u, <1>f
  <2>3. ASSUME pc \in {"saved", "durable"}
        PROVE  Disjoint(ckptAvail, alloc' \union discard)
    <3>1. Disjoint(ckptAvail, alloc \union discard)
      BY <2>3 DEF Ready, Consistent, Building, Reusable
    <3> QED BY <3>1, <1>c DEF Disjoint
  <2>4. Kept' = Kept
    BY DEF Kept, flow
  <2> QED BY <1>p, <2>1, <2>2, <2>3, <2>4 DEF Ready, Consistent, Building, Reusable, flow
<1> QED BY <1>1, <1>2 DEF Ready, Consistent, flow

\* __wt_block_write: a page is written to a block that nothing uses.
LEMMA PageWriteStep ==
  ASSUME Consistent, Careful, NEW b \in Blocks, PageWrite(b), use' = use
  PROVE  Consistent'
<1>r. Ready /\ Writable /\ TakeBlock(b)
  BY CarefulReady DEF PageWrite, Allocate, flow
<1>t. Taken({b})
  BY <1>r, TakeBlockTakes
<1>1. TypeInv'
  BY <1>t DEF Consistent, TypeInv, TypeOK, PageWrite, Allocate, Taken, flow
<1>2. LiveLists'
  BY SMTT(20), Z3T(20), <1>t DEF Consistent, LiveLists, TypeInv, TypeOK, PageWrite, Allocate, Taken, Disjoint
<1>3. fsize <= fsize' /\ over' = {} /\ avail' \subseteq avail /\ {b} \subseteq avail \union {fsize}
  BY <1>t DEF Taken
<1> QED BY <1>r, <1>1, <1>2, <1>3, GrowKeepsInv DEF PageWrite, Allocate

\* A page that cannot be written after the file was extended leaves its block free.
LEMMA PageWriteErrorStep ==
  ASSUME Consistent, Careful, PageWriteError, use' = use
  PROVE  Consistent'
<1>r. Ready /\ Writable
  BY CarefulReady DEF PageWriteError, flow
<1>n. fsize \in 0 .. MaxBlocks /\ use.blocks \in 0 .. MaxBlocks
  BY UsesAssumption DEF Consistent, TypeInv, TypeOK
<1>1. TypeInv'
  BY SMTT(20), Z3T(20), <1>n, MaxBlocksAssumption DEF Consistent, TypeInv, TypeOK, PageWriteError, flow, history, Blocks
<1>2. LiveLists'
  BY SMTT(20), <1>n DEF Consistent, LiveLists, PageWriteError, Disjoint
<1>3. over' = {} /\ fsize <= fsize'
  BY SMTT(20), <1>n DEF Consistent, PageWriteError, history
<1> QED BY <1>r, <1>1, <1>2, <1>3, GrowKeepsInv DEF PageWriteError

\* __wt_block_free: a block of the live tree is made available only if it was allocated
\* since the last checkpoint, and then no checkpoint names it.
LEMMA FreedContinues ==
  ASSUME NEW c, NEW a, NEW d, NEW r, NEW t, NEW v, NEW n, NEW b \in t,
         Continues(c, a, d, r, t, v, n)
  PROVE  /\ b \in a => Continues(c, a \ {b}, d, r, t \ {b}, v \union {b}, n)
         /\ Continues(c, a, d \union {b}, r, t \ {b}, v, n)
BY DEF Continues, Disjoint, Names, BlocksOf

\* A page of the live tree is freed.
LEMMA PageFreeStep ==
  ASSUME Consistent, Careful, NEW b \in Blocks, PageFree(b), use' = use
  PROVE  Consistent'
<1>r. Ready
  BY CarefulReady DEF PageFree, flow
<1>p. pc \notin Rolling \union Writing
  BY DEF PageFree, Writable, Rolling, Writing
<1>b. b \in tree
  BY DEF PageFree
<1>f. ASSUME NEW ck, NEW K, NEW r, ContinuesAll(ck, K, alloc, discard, r, tree, avail, fsize)
      PROVE  ContinuesAll(ck, K, alloc', discard', r, tree', avail', fsize')
  <2>1. CASE b \in alloc
    <3>1. alloc' = alloc \ {b} /\ avail' = avail \union {b} /\ discard' = discard /\ tree' = tree \ {b} /\ fsize' = fsize
      BY <2>1 DEF PageFree, OffFree
    <3> QED BY <1>b, <1>f, <2>1, <3>1, FreedContinues DEF ContinuesAll
  <2>2. CASE b \notin alloc
    <3>1. alloc' = alloc /\ avail' = avail /\ discard' = discard \union {b} /\ tree' = tree \ {b} /\ fsize' = fsize
      BY <2>2 DEF PageFree, OffFree
    <3> QED BY <1>b, <1>f, <3>1, FreedContinues DEF ContinuesAll
  <2> QED BY <2>1, <2>2
<1>1. TypeInv'
  BY DEF Consistent, TypeInv, TypeOK, PageFree, OffFree, flow, history
<1>2. LiveLists'
  BY SMTT(20) DEF Consistent, LiveLists, PageFree, OffFree, Disjoint
<1>3. Saved'
  BY <1>f, <1>p, <1>r DEF Ready, Consistent, Saved, PageFree, flow
<1>4. Building'
  <2>1. Disjoint(ckptAvail, alloc \union discard) => Disjoint(ckptAvail, alloc' \union discard')
    BY DEF Consistent, LiveLists, PageFree, OffFree, Disjoint
  <2>2. Kept' = Kept
    BY DEF Kept, PageFree, flow
  <2> QED BY <1>f, <1>p, <2>1, <2>2 DEF Consistent, Building, Reusable, PageFree, flow
<1> QED BY <1>1, <1>2, <1>3, <1>4 DEF Consistent, PageFree, flow, history

-----------------------------------------------------------------------------
(* The root page and the extent lists.                                     *)

\* A block that is taken is on no other list of the live system, and no page of it.
LEMMA TakenApart ==
  ASSUME Ready, NEW new, Taken(new)
  PROVE  Disjoint(new, tree \union root \union alloc \union discard \union ckptAvail)
<1>1. LiveLists /\ fsize \in Nat /\ new \subseteq avail \union {fsize}
  BY SMTT(20) DEF Ready, Consistent, TypeInv, TypeOK, Taken
<1> QED BY SMTT(20), <1>1 DEF LiveLists, Disjoint

\* Taking blocks leaves the live lists, or the parts of them that stay, apart.
LEMMA TakenLive ==
  ASSUME Ready, NEW new, Taken(new),
         alloc' \subseteq alloc, discard' \subseteq discard, root' \subseteq root, tree' = tree, ckptAvail' = ckptAvail
  PROVE  LiveLists'
<1>1. LiveLists /\ fsize \in Nat /\ fsize' \in Nat /\ fsize <= fsize' /\ avail' \subseteq avail
  BY SMTT(20) DEF Ready, Consistent, TypeInv, TypeOK, Taken
<1>2. avail \union tree \union root \union alloc \union discard \union ckptAvail \subseteq 0 .. fsize' - 1
  BY SMTT(20), <1>1 DEF LiveLists
<1> QED BY <1>1, <1>2 DEF LiveLists, Disjoint

\* The live system goes on to continue the checkpoints it does when blocks are taken
\* and its lists stay or become smaller.
LEMMA TakenContinues ==
  ASSUME Ready, NEW new, Taken(new), tree' = tree,
         NEW ck, NEW K, NEW a, NEW d, NEW r, NEW a2, NEW d2, NEW r2,
         a2 \subseteq a, d2 \subseteq d, r2 \subseteq r,
         ContinuesAll(ck, K, a, d, r, tree, avail, fsize)
  PROVE  ContinuesAll(ck, K, a2, d2, r2, tree', avail', fsize')
<1>n. fsize \in Nat /\ fsize' \in Nat /\ fsize <= fsize' /\ avail' \subseteq avail
  BY SMTT(20) DEF Ready, Consistent, TypeInv, TypeOK, Taken
<1> QED BY SMTT(20), <1>n DEF ContinuesAll, Continues, Disjoint

\* __ckpt_update replaces checkpoint j of the list by e, which names the blocks its
\* lists were written to.
ListWritten(j, e, new) ==
  /\ j \in DOMAIN ckpts /\ ckpts' = [ckpts EXCEPT ![j] = e] /\ del' = del
  /\ Relisted(ckpts[j], e, new)
  /\ j \in Kept => Disjoint(e.voff, e.aoff \union e.doff)

\* The list stays one of checkpoints that fit together, which the live system continues.
LEMMA ListWrittenFits ==
  ASSUME Ready, pc \in Rolling \union Writing, NEW j, NEW e \in Ckpt, NEW new, Taken(new), ListWritten(j, e, new),
         tree' = tree, NEW a \in SUBSET alloc, NEW d \in SUBSET discard, NEW r \in SUBSET root,
         ContinuesAll(ckpts, Kept, a, d, r, tree, avail, fsize)
  PROVE  /\ ckpts' \in Seq(Ckpt) /\ Len(ckpts') = Len(ckpts) /\ Kept' = Kept
         /\ Chain(ckpts', Kept)
         /\ \A i \in Kept : Disjoint(ckptAvail, Names(ckpts'[i]))
         /\ ContinuesAll(ckpts', Kept, a, d, r, tree', avail', fsize')
<1>s. ckpts \in Seq(Ckpt)
  BY DEF Ready, Consistent, TypeInv
<1>1. ckpts' \in Seq(Ckpt) /\ Len(ckpts') = Len(ckpts) /\ DOMAIN ckpts' = DOMAIN ckpts
  BY SMTT(20), <1>s, SeqExcept DEF ListWritten
<1>2. Kept' = Kept
  BY <1>1 DEF Kept, ListWritten
<1>e. /\ \A i \in Kept : i # j => ckpts'[i] = ckpts[i]
      /\ j \in Kept => ckpts'[j] = e
      /\ Relisted(ckpts[j], e, new)
  BY <1>s DEF ListWritten, Kept
<1>u. \A i \in Kept : Disjoint(new, Names(ckpts[i]))
  <2>1. new \subseteq avail \union {fsize}
    BY DEF Taken
  <2> QED BY <2>1, FreeIsUnnamed
<1>l. /\ Disjoint(new, tree \union root \union alloc \union discard \union ckptAvail)
      /\ Disjoint(new, avail') /\ new \subseteq 0 .. fsize' - 1
  BY TakenApart DEF Taken
<1>c. Chain(ckpts, Kept) /\ \A i \in Kept : Disjoint(ckptAvail, Names(ckpts[i]))
  BY DEF Ready, Consistent, Building, Reusable
<1>3. Chain(ckpts', Kept)
  <2>1. ASSUME NEW i \in Kept PROVE Own(ckpts'[i])
    <3>1. CASE i # j
      BY <3>1, <1>e, <1>c DEF Chain
    <3>2. CASE i = j
      <4>1. Own(ckpts[j]) /\ Disjoint(new, Names(ckpts[j])) /\ ckpts'[j] = e
        BY <3>2, <1>e, <1>c, <1>u DEF Chain
      <4> QED BY SMTT(20), <4>1, <3>2, <1>e DEF Own, ListWritten, Relisted, Disjoint, Names,
               BlocksOf, Pages, ListBlocks
    <3> QED BY <3>1, <3>2
  <2>2. ASSUME NEW i \in Kept, NEW k \in Kept, i < k PROVE Fit(ckpts'[i], ckpts'[k])
    <3>1. Fit(ckpts[i], ckpts[k]) /\ i # k
      BY SMTT(20), <2>2, <1>c, <1>s DEF Chain, Kept
    <3>2. CASE i = j
      BY <3>1, <3>2, <1>e, <1>u, FitRelistedBefore
    <3>3. CASE k = j
      BY <3>1, <3>3, <1>e, <1>u, FitRelistedAfter
    <3> QED BY <3>1, <3>2, <3>3, <1>e
  <2> QED BY <2>1, <2>2 DEF Chain
<1>4. ASSUME NEW i \in Kept PROVE Disjoint(ckptAvail, Names(ckpts'[i]))
  <2>1. CASE i # j
    BY <2>1, <1>e, <1>c
  <2>2. CASE i = j
    BY <2>2, <1>e, <1>c, <1>l DEF Relisted, Disjoint, Names, BlocksOf, Pages
  <2> QED BY <2>1, <2>2
<1>5. ContinuesAll(ckpts', Kept, a, d, r, tree', avail', fsize')
  <2>1. ContinuesAll(ckpts, Kept, a, d, r, tree', avail', fsize')
    BY TakenContinues
  <2>2. Disjoint(new, a \union d \union tree' \union r \union avail')
    BY <1>l DEF Disjoint
  <2>3. j \in Kept => Continues(e, a, d, r, tree', avail', fsize')
    BY <2>1, <2>2, <1>l, <1>e, ContinuesRelisted DEF ContinuesAll
  <2> QED BY <2>1, <2>3, <1>e DEF ContinuesAll
<1> QED BY <1>1, <1>2, <1>3, <1>4, <1>5

-----------------------------------------------------------------------------
(* Rolling the lists of deleted checkpoints forward (__ckpt_process).      *)

\* The members of D that are rolled into j, and j itself.
Into(D, j) == {i \in D : i < j /\ \A k \in i .. j - 1 : k \in D}
Group(D, j) == Into(D, j) \union {j}

\* The lists of checkpoint j after those rolled into it were merged
MergedAlloc(X, D, j) == UNION {X[m].alloc : m \in Group(D, j)}
MergedDiscard(X, D, j) == X[j].discard \union UNION {X[m].discard \union X[m].root : m \in Into(D, j)}

\* The checkpoint e is X[j] with the merged lists, what is on both of them removed
\* from each
RolledTo(X, D, j, e) ==
  /\ e.tree = X[j].tree /\ e.root = X[j].root
  /\ e.alloc \subseteq MergedAlloc(X, D, j) /\ e.discard \subseteq MergedDiscard(X, D, j)
  /\ Into(D, j) # {} => /\ Disjoint(e.alloc, MergedDiscard(X, D, j)) /\ Disjoint(e.discard, MergedAlloc(X, D, j))
                        /\ e.aoff = {} /\ e.doff = {}
  /\ e.aoff \subseteq X[j].aoff /\ e.doff \subseteq X[j].doff /\ e.voff \subseteq X[j].voff

\* A checkpoint that is rolled into j, or is j, comes after every one that is kept
\* before j.
LEMMA GroupsApart ==
  ASSUME NEW D \in SUBSET Nat, NEW i \in Nat \ D, NEW j \in Nat, i < j, NEW m \in Group(D, j)
  PROVE  m \in Nat /\ i < m /\ m <= j
BY SMTT(20) DEF Group, Into

\* The blocks of the merged lists come from the checkpoints of the group.
LEMMA MergedFrom ==
  ASSUME NEW X, NEW D \in SUBSET Nat, NEW j \in Nat
  PROVE  /\ \A b \in MergedAlloc(X, D, j) : \E m \in Group(D, j) : b \in X[m].alloc
         /\ \A b \in MergedDiscard(X, D, j) :
              \E m \in Group(D, j) : b \in X[m].discard \/ (m # j /\ b \in X[m].root)
<1>1. \A b \in MergedAlloc(X, D, j) : \E m \in Group(D, j) : b \in X[m].alloc
  BY DEF MergedAlloc
<1>2. ASSUME NEW b \in MergedDiscard(X, D, j)
      PROVE  \E m \in Group(D, j) : b \in X[m].discard \/ (m # j /\ b \in X[m].root)
  <2>1. CASE b \in X[j].discard
    BY <2>1 DEF Group
  <2>2. ASSUME NEW m \in Into(D, j), b \in X[m].discard \union X[m].root
        PROVE  \E k \in Group(D, j) : b \in X[k].discard \/ (k # j /\ b \in X[k].root)
    <3>1. m \in Group(D, j)
      BY DEF Group
    <3>2. m # j
      BY SMTT(20) DEF Into
    <3> QED BY <2>2, <3>1, <3>2
  <2> QED BY <2>1, <2>2 DEF MergedDiscard
<1> QED BY <1>1, <1>2
\* The merged lists of two kept checkpoints i and j, i before j, are apart, and the
\* later alloc list, the earlier discard list and the roots are so from their pages.
LEMMA MergedApart ==
  ASSUME NEW X, NEW S \in SUBSET Nat, Chain(X, S), NEW D \in SUBSET S,
         NEW i \in S \ D, NEW j \in S \ D, i < j
  PROVE  /\ Disjoint(MergedAlloc(X, D, i), MergedAlloc(X, D, j))
         /\ Disjoint(MergedDiscard(X, D, i), MergedDiscard(X, D, j))
         /\ Disjoint(MergedAlloc(X, D, j), Pages(X[i]))
         /\ Disjoint(MergedDiscard(X, D, i), Pages(X[j]))
         /\ Disjoint(X[i].root, MergedDiscard(X, D, j))
<1>g. /\ \A m \in Group(D, j) : m \in S /\ i < m
      /\ \A k \in Group(D, i) : k \in S /\ k <= i
  <2>1. \A m \in Group(D, j) : m \in S /\ i < m
    BY GroupsApart DEF Group, Into
  <2>2. \A k \in Group(D, i) : k \in S /\ k <= i
    BY SMTT(20) DEF Group, Into
  <2> QED BY <2>1, <2>2
<1>f. \A k \in Group(D, i), m \in Group(D, j) : Fit(X[k], X[m]) /\ Fit(X[k], X[j]) /\ Fit(X[i], X[m])
  <2>1. ASSUME NEW k \in Group(D, i), NEW m \in Group(D, j)
        PROVE  Fit(X[k], X[m]) /\ Fit(X[k], X[j]) /\ Fit(X[i], X[m])
    <3>1. k \in S /\ m \in S /\ k <= i /\ i < m
      BY <1>g
    <3>2. k < m /\ k < j
      BY SMTT(20), <3>1
    <3> QED BY <3>1, <3>2 DEF Chain
  <2> QED BY <2>1
<1>a. Disjoint(MergedAlloc(X, D, i), MergedAlloc(X, D, j))
  BY <1>f, MergedFrom DEF Fit, Disjoint
<1>d. Disjoint(MergedDiscard(X, D, i), MergedDiscard(X, D, j))
  <2>1. ASSUME NEW b \in MergedDiscard(X, D, i), b \in MergedDiscard(X, D, j) PROVE FALSE
    <3>1. PICK k \in Group(D, i) : b \in X[k].discard \/ b \in X[k].root
      BY MergedFrom
    <3>2. PICK m \in Group(D, j) : b \in X[m].discard \/ b \in X[m].root
      BY <2>1, MergedFrom
    <3>3. Fit(X[k], X[m])
      BY <1>f
    <3> QED BY <3>1, <3>2, <3>3 DEF Fit, Disjoint, Pages
  <2> QED BY <2>1 DEF Disjoint
<1>p. Disjoint(MergedAlloc(X, D, j), Pages(X[i]))
  <2>1. i \in Group(D, i)
    BY DEF Group
  <2> QED BY SMTT(20), <2>1, <1>f, MergedFrom DEF Fit, Disjoint
<1>q. Disjoint(MergedDiscard(X, D, i), Pages(X[j]))
  <2>1. j \in Group(D, j)
    BY DEF Group
  <2> QED BY <2>1, <1>f, MergedFrom DEF Fit, Disjoint
<1>r. Disjoint(X[i].root, MergedDiscard(X, D, j))
  <2>1. i \in Group(D, i)
    BY DEF Group
  <2> QED BY <2>1, <1>f, MergedFrom DEF Fit, Disjoint, Pages
<1> QED BY <1>a, <1>d, <1>p, <1>q, <1>r

\* The block of an extent list is on no merged list and of no page of a kept
\* checkpoint, and no page of a kept checkpoint is on its own merged discard list.
LEMMA MergedOwn ==
  ASSUME NEW X, NEW S \in SUBSET Nat, Chain(X, S), NEW D \in SUBSET S, NEW j \in S \ D
  PROVE  /\ \A k \in S : Disjoint(ListBlocks(X[k]), Pages(X[j]) \union MergedAlloc(X, D, j) \union MergedDiscard(X, D, j))
         /\ Disjoint(MergedDiscard(X, D, j), Pages(X[j]))
<1>g. \A m \in Group(D, j) : m \in S /\ m <= j
  BY SMTT(20) DEF Group, Into
<1>l. \A k, m \in S : Disjoint(ListBlocks(X[k]), Pages(X[m]) \union X[m].alloc \union X[m].discard)
  <2>1. ASSUME NEW k \in S, NEW m \in S
        PROVE  Disjoint(ListBlocks(X[k]), Pages(X[m]) \union X[m].alloc \union X[m].discard)
    <3>1. k < m \/ m < k \/ k = m
      BY Ordered
    <3>2. CASE k = m
      BY <3>2 DEF Chain, Own
    <3>3. CASE k # m
      <4>1. Fit(X[k], X[m]) \/ Fit(X[m], X[k])
        BY <3>1, <3>3 DEF Chain
      <4> QED BY <4>1 DEF Fit, Disjoint, Names, BlocksOf
    <3> QED BY <3>2, <3>3
  <2> QED BY <2>1
<1>1. ASSUME NEW k \in S
      PROVE  Disjoint(ListBlocks(X[k]), Pages(X[j]) \union MergedAlloc(X, D, j) \union MergedDiscard(X, D, j))
  <2>1. Disjoint(ListBlocks(X[k]), Pages(X[j]))
    BY <1>l DEF Disjoint
  <2>2. Disjoint(ListBlocks(X[k]), MergedAlloc(X, D, j))
    BY <1>l, <1>g, MergedFrom DEF Disjoint
  <2>3. Disjoint(ListBlocks(X[k]), MergedDiscard(X, D, j))
    BY <1>l, <1>g, MergedFrom DEF Disjoint, Pages
  <2> QED BY <2>1, <2>2, <2>3 DEF Disjoint
<1>2. Disjoint(MergedDiscard(X, D, j), Pages(X[j]))
  <2>1. ASSUME NEW b \in MergedDiscard(X, D, j), b \in Pages(X[j]) PROVE FALSE
    <3>1. PICK m \in Group(D, j) : b \in X[m].discard \/ (m # j /\ b \in X[m].root)
      BY MergedFrom
    <3>2. CASE m = j
      BY <2>1, <3>1, <3>2 DEF Chain, Own, Disjoint
    <3>3. CASE m # j
      <4>0. m \in S /\ m <= j
        BY <1>g
      <4>1. m \in S /\ m < j
        BY SMTT(20), <4>0, <3>3
      <4>2. Fit(X[m], X[j])
        BY <4>1 DEF Chain
      <4> QED BY <2>1, <3>1, <4>2 DEF Fit, Disjoint
    <3> QED BY <3>2, <3>3
  <2> QED BY <2>1 DEF Disjoint
<1> QED BY <1>1, <1>2

\* The kept checkpoints still fit together once the lists of the deleted ones were
\* rolled into them.
LEMMA RollFits ==
  ASSUME NEW X, NEW S \in SUBSET Nat, Chain(X, S), NEW D \in SUBSET S,
         NEW E, \A j \in S \ D : RolledTo(X, D, j, E[j])
  PROVE  Chain(E, S \ D)
<1>l. \A j \in S \ D : ListBlocks(E[j]) \subseteq ListBlocks(X[j]) /\ Pages(E[j]) = Pages(X[j])
  BY DEF RolledTo, ListBlocks, Pages
<1>1. ASSUME NEW j \in S \ D PROVE Own(E[j])
  <2>1. Own(X[j]) /\ RolledTo(X, D, j, E[j])
    BY DEF Chain
  <2>2. /\ Disjoint(ListBlocks(X[j]), Pages(X[j]) \union MergedAlloc(X, D, j) \union MergedDiscard(X, D, j))
        /\ Disjoint(MergedDiscard(X, D, j), Pages(X[j]))
    BY MergedOwn
  <2> QED BY <1>l, <2>1, <2>2 DEF Own, RolledTo, Disjoint
<1>2. ASSUME NEW i \in S \ D, NEW j \in S \ D, i < j PROVE Fit(E[i], E[j])
  <2>1. RolledTo(X, D, i, E[i]) /\ RolledTo(X, D, j, E[j])
    OBVIOUS
  <2>2. Fit(X[i], X[j])
    BY <1>2 DEF Chain
  <2>3. /\ Disjoint(MergedAlloc(X, D, i), MergedAlloc(X, D, j))
        /\ Disjoint(MergedDiscard(X, D, i), MergedDiscard(X, D, j))
        /\ Disjoint(MergedAlloc(X, D, j), Pages(X[i]))
        /\ Disjoint(MergedDiscard(X, D, i), Pages(X[j]))
        /\ Disjoint(X[i].root, MergedDiscard(X, D, j))
    BY <1>2, MergedApart
  <2>4. /\ Disjoint(ListBlocks(X[i]), Pages(X[j]) \union MergedAlloc(X, D, j) \union MergedDiscard(X, D, j))
        /\ Disjoint(ListBlocks(X[j]), Pages(X[i]) \union MergedAlloc(X, D, i) \union MergedDiscard(X, D, i))
    BY MergedOwn
  <2>5. Disjoint(ListBlocks(E[i]), Names(E[j])) /\ Disjoint(ListBlocks(E[j]), Names(E[i]))
    <3>1. Disjoint(ListBlocks(X[i]), ListBlocks(X[j])) /\ Disjoint(ListBlocks(X[j]), ListBlocks(X[i]))
      BY <2>2 DEF Fit, Disjoint, Names, BlocksOf
    <3>2. /\ Names(E[i]) \subseteq Pages(X[i]) \union MergedAlloc(X, D, i) \union MergedDiscard(X, D, i) \union ListBlocks(X[i])
          /\ Names(E[j]) \subseteq Pages(X[j]) \union MergedAlloc(X, D, j) \union MergedDiscard(X, D, j) \union ListBlocks(X[j])
      BY <1>l, <2>1 DEF RolledTo, Names, BlocksOf
    <3> QED BY <1>l, <2>4, <3>1, <3>2 DEF Disjoint
  <2> QED BY <1>l, <2>1, <2>2, <2>3, <2>5 DEF Fit, RolledTo, Disjoint
<1> QED BY <1>1, <1>2 DEF Chain

\* A block that is on both merged lists of a checkpoint is named by no kept one:
\* nothing refers to it once the deleted checkpoints are gone.
LEMMA RollFrees ==
  ASSUME NEW X, NEW S \in SUBSET Nat, Chain(X, S), NEW D \in SUBSET S,
         NEW E, \A j \in S \ D : RolledTo(X, D, j, E[j]),
         NEW j \in S \ D, Into(D, j) # {}, NEW b \in MergedAlloc(X, D, j) \intersect MergedDiscard(X, D, j),
         NEW i \in S \ D
  PROVE  b \notin Names(E[i])
<1>l. ListBlocks(E[i]) \subseteq ListBlocks(X[i]) /\ Pages(E[i]) = Pages(X[i])
  BY DEF RolledTo, ListBlocks, Pages
<1>1. b \notin ListBlocks(E[i])
  BY <1>l, MergedOwn DEF Disjoint
<1>2. b \notin Pages(E[i]) /\ b \notin E[i].alloc /\ b \notin E[i].discard
  <2>0. RolledTo(X, D, i, E[i])
    OBVIOUS
  <2>1. CASE i = j
    <3>1. Disjoint(MergedDiscard(X, D, j), Pages(X[j]))
      BY MergedOwn
    <3> QED BY <1>l, <2>0, <2>1, <3>1 DEF RolledTo, Disjoint
  <2>2. CASE i < j
    <3>1. /\ Disjoint(MergedAlloc(X, D, i), MergedAlloc(X, D, j))
          /\ Disjoint(MergedDiscard(X, D, i), MergedDiscard(X, D, j))
          /\ Disjoint(MergedAlloc(X, D, j), Pages(X[i]))
      BY <2>2, MergedApart
    <3> QED BY <1>l, <2>0, <3>1 DEF RolledTo, Disjoint
  <2>3. CASE j < i
    <3>1. /\ Disjoint(MergedAlloc(X, D, j), MergedAlloc(X, D, i))
          /\ Disjoint(MergedDiscard(X, D, j), MergedDiscard(X, D, i))
          /\ Disjoint(MergedDiscard(X, D, j), Pages(X[i]))
      BY <2>3, MergedApart
    <3> QED BY <1>l, <2>0, <3>1 DEF RolledTo, Disjoint
  <2>4. i < j \/ j < i \/ i = j
    BY Ordered
  <2> QED BY <2>1, <2>2, <2>3, <2>4
<1> QED BY <1>1, <1>2 DEF Names, BlocksOf

\* The block of a list that is not kept is named by no kept checkpoint.
LEMMA RollFreesLists ==
  ASSUME NEW X, NEW S \in SUBSET Nat, Chain(X, S), NEW D \in SUBSET S,
         NEW E, \A j \in S \ D : RolledTo(X, D, j, E[j]),
         NEW k \in S, NEW b \in ListBlocks(X[k]), k \in D \/ (Into(D, k) # {} /\ b \in X[k].aoff \union X[k].doff),
         NEW i \in S \ D
  PROVE  b \notin Names(E[i])
<1>r. RolledTo(X, D, i, E[i])
  OBVIOUS
<1>1. b \notin Pages(E[i]) /\ b \notin E[i].alloc /\ b \notin E[i].discard
  <2>1. Disjoint(ListBlocks(X[k]), Pages(X[i]) \union MergedAlloc(X, D, i) \union MergedDiscard(X, D, i))
    BY MergedOwn
  <2>2. Pages(E[i]) = Pages(X[i])
    BY <1>r DEF RolledTo, Pages
  <2> QED BY <1>r, <2>1, <2>2 DEF RolledTo, Disjoint
<1>2. b \notin ListBlocks(E[i])
  <2>1. CASE i = k
    <3>1. Own(X[i])
      BY DEF Chain
    <3> QED BY <2>1, <3>1, <1>r DEF Own, Disjoint, RolledTo, ListBlocks
  <2>2. CASE i # k
    <3>1. Fit(X[i], X[k]) \/ Fit(X[k], X[i])
      <4>1. i < k \/ k < i
        BY <2>2, Ordered
      <4> QED BY <4>1 DEF Chain
    <3>2. ListBlocks(E[i]) \subseteq ListBlocks(X[i])
      BY <1>r DEF RolledTo, ListBlocks
    <3>3. Disjoint(ListBlocks(X[k]), ListBlocks(X[i])) \/ Disjoint(ListBlocks(X[i]), ListBlocks(X[k]))
      BY <3>1 DEF Fit, Names, BlocksOf, Disjoint
    <3> QED BY <3>2, <3>3 DEF Disjoint
  <2> QED BY <2>1, <2>2
<1> QED BY <1>1, <1>2 DEF Names, BlocksOf

-----------------------------------------------------------------------------
(* A checkpoint is written.                                                *)

\* __wt_block_checkpoint writes the root page to a block that nothing uses.
LEMMA CkptRootStep ==
  ASSUME Consistent, Careful, NEW d \in SUBSET DOMAIN meta, NEW h \in Owners, NEW b \in Blocks,
         CkptRoot(d, h, b), use' = use
  PROVE  Consistent'
<1>r. Ready /\ pc = "run" /\ disk = meta
  BY CarefulReady DEF CkptRoot, Ready
<1>i. root = {} /\ LiveLists /\ ContinuesAll(meta, DOMAIN meta, alloc, discard, root, tree, avail, fsize)
  BY <1>r DEF Ready, Consistent, Saved, Rolling, Writing
<1>h. h \in {"checkpoint", "close"}
  BY DEF Owners
<1>t. PICK new : root' = new /\ Taken(new) /\ new \subseteq Blocks /\ alloc' \subseteq alloc \union new
  <2>1. CASE tree = {}
    <3>1. root' = {} /\ fsize' = fsize /\ avail' = avail /\ alloc' = alloc /\ over' = over /\ failed' = failed
      BY <2>1 DEF CkptRoot, history
    <3>2. Taken({})
      BY SMTT(20), <3>1 DEF Taken, Consistent, TypeInv, TypeOK, Disjoint
    <3> QED BY <3>1, <3>2
  <2>2. CASE tree # {}
    <3>1. root' = {b} /\ alloc' = alloc \union {b} /\ TakeBlock(b)
      BY <2>2 DEF CkptRoot, Allocate
    <3> QED BY <3>1, <1>r, TakeBlockTakes
  <2> QED BY <2>1, <2>2
<1>a. Disjoint(new, tree \union root \union alloc \union discard \union ckptAvail)
  BY <1>r, <1>t, TakenApart
<1>w. /\ fsize' \in 0 .. MaxBlocks /\ fsize <= fsize' /\ avail' \subseteq avail
      /\ over' = {} /\ failed' = failed
      /\ new \subseteq avail \union {fsize} /\ new \subseteq 0 .. fsize' - 1 /\ Disjoint(new, avail')
  BY <1>t DEF Taken
<1>n. fsize \in Nat /\ fsize' \in Nat
  BY SMTT(20), <1>w DEF Consistent, TypeInv, TypeOK
<1>u. /\ pc' = "process" /\ how' = h /\ del' = d
      /\ UNCHANGED <<discard, ckptAvail, tree, todo, torn, ckpts, meta, disk>>
  BY DEF CkptRoot
<1>1. TypeInv'
  <2>1. TypeInv
    BY DEF Consistent
  <2> QED BY <1>t, <1>h, <1>u, <1>w, <2>1 DEF TypeInv, TypeOK
<1>2. LiveLists'
  <2>1. avail \union tree \union root \union alloc \union discard \union ckptAvail \subseteq 0 .. fsize' - 1
    BY SMTT(20), <1>i, <1>n, <1>w DEF LiveLists
  <2> QED BY <1>a, <1>i, <1>t, <1>u, <1>w, <2>1 DEF LiveLists, Disjoint
<1>3. Saved'
  <2>1. \A i \in DOMAIN meta : Disjoint(new, Names(meta[i]))
    BY <1>r, <1>w, FreeIsUnnamed
  <2>2. ContinuesAll(meta, DOMAIN meta, alloc', discard, new, tree, avail', fsize')
    BY SMTT(20), <1>i, <1>t, <1>n, <1>w, <2>1 DEF ContinuesAll, Continues, Disjoint, Names, BlocksOf,
         Pages, ListBlocks
  <2>3. \A i \in DOMAIN disk : Names(disk[i]) \subseteq 0 .. fsize' - 1
    BY SMTT(20), <1>n, <1>w DEF Consistent, Saved
  <2> QED BY <1>r, <1>t, <1>u, <2>2, <2>3 DEF Consistent, Saved, Rolling, Writing
<1>4. Building'
  BY <1>u DEF Building, Rolling, Writing
<1> QED BY <1>1, <1>2, <1>3, <1>4, <1>r, <1>u, <1>w DEF Consistent, Ready

\* What __ckpt_update of a kept checkpoint keeps, when it wrote a list.
LEMMA UpdateKeepsInv ==
  ASSUME Ready, pc \in {"update", "updisc"}, NEW j, NEW e \in Ckpt, NEW new, Taken(new), ListWritten(j, e, new),
         pc' \in {"update", "updisc"}, todo' \subseteq todo,
         UNCHANGED <<alloc, discard, ckptAvail, tree, root, how, torn, meta, disk, use>>
  PROVE  Consistent'
<1>p. pc \in Rolling /\ pc' \in Rolling /\ ~ torn /\ disk = meta
  BY DEF Rolling, Ready
<1>i. /\ ContinuesAll(ckpts, Kept, alloc, discard, root, tree, avail, fsize)
      /\ ContinuesAll(meta, DOMAIN meta, {}, {}, root, tree, avail, fsize)
      /\ Len(ckpts) = Len(meta) /\ Disjoint(ckptAvail, alloc \union discard)
  BY <1>p DEF Ready, Consistent, Building, Saved, Reusable
<1>w. /\ ckpts' \in Seq(Ckpt) /\ Len(ckpts') = Len(ckpts) /\ Kept' = Kept
      /\ Chain(ckpts', Kept)
      /\ \A i \in Kept : Disjoint(ckptAvail, Names(ckpts'[i]))
      /\ ContinuesAll(ckpts', Kept, alloc, discard, root, tree', avail', fsize')
  BY <1>p, <1>i, ListWrittenFits
<1>m. ContinuesAll(meta, DOMAIN meta, {}, {}, root, tree', avail', fsize')
  BY <1>i, TakenContinues
<1>1. TypeInv'
  <2>1. TypeInv /\ DOMAIN ckpts' = DOMAIN ckpts
    BY SMTT(20), <1>w DEF Ready, Consistent, TypeInv
  <2>2. fsize' \in 0 .. MaxBlocks /\ avail' \subseteq avail /\ over' = {} /\ failed' = failed /\ del' = del
    BY DEF Taken, ListWritten
  <2> QED BY <1>w, <2>1, <2>2 DEF TypeInv, TypeOK
<1>2. LiveLists'
  BY TakenLive
<1>3. Saved'
  <2>1. \A i \in DOMAIN disk : Names(disk[i]) \subseteq 0 .. fsize' - 1
    BY <1>m, <1>p DEF ContinuesAll, Continues
  <2> QED BY <1>p, <1>m, <2>1 DEF Ready, Consistent, Saved
<1>4. Building'
  BY <1>p, <1>w, <1>i DEF Building, Reusable, Rolling, Writing
<1> QED BY <1>1, <1>2, <1>3, <1>4, <1>p DEF Ready, Consistent, Rolling, Writing, Taken, ListWritten

\* The alloc list of a kept checkpoint is written (__ckpt_update).
LEMMA UpdateAllocStep ==
  ASSUME Consistent, Careful, NEW j \in todo, NEW b \in Blocks, UpdateAlloc(j, b), use' = use
  PROVE  Consistent'
<1> DEFINE c == ckpts[j]
           new == Offset(c.alloc, b)
           e == [c EXCEPT !.aoff = new]
<1>r. Ready /\ pc = "update" /\ pc' = "updisc" /\ j \in DOMAIN ckpts /\ c \in Ckpt
  BY SMTT(20), CarefulReady DEF UpdateAlloc, Consistent, TypeInv, TypeOK
<1>e. e \in Ckpt /\ Relisted(c, e, new) /\ e.voff = c.voff /\ e.aoff = new /\ e.doff = c.doff
  BY <1>r DEF Ckpt, Relisted, ListBlocks, Offset
<1>t. Taken(new)
  BY <1>r, WriteListTakes DEF UpdateAlloc
<1>w. ListWritten(j, e, new)
  <2>1. j \in Kept => Own(c) /\ Disjoint(new, Names(c))
    BY <1>r, <1>t, FreeIsUnnamed DEF Consistent, Building, Chain, Rolling, Taken
  <2>2. j \in Kept => Disjoint(e.voff, e.aoff \union e.doff)
    BY <2>1, <1>e DEF Own, Disjoint, Names, BlocksOf, ListBlocks
  <2>3. ckpts' = [ckpts EXCEPT ![j] = e] /\ del' = del
    BY DEF UpdateAlloc
  <2> QED BY <1>r, <1>e, <2>2, <2>3 DEF ListWritten
<1> HIDE DEF c, new, e
<1> QED BY <1>r, <1>e, <1>t, <1>w, UpdateKeepsInv DEF UpdateAlloc

\* The discard list of a kept checkpoint is written (__ckpt_update).
LEMMA UpdateDiscardStep ==
  ASSUME Consistent, Careful, NEW j \in todo, NEW b \in Blocks, UpdateDiscard(j, b), use' = use
  PROVE  Consistent'
<1> DEFINE c == ckpts[j]
           new == Offset(c.discard, b)
           e == [c EXCEPT !.doff = new]
<1>r. Ready /\ pc = "updisc" /\ pc' = "update" /\ j \in DOMAIN ckpts /\ c \in Ckpt
  BY SMTT(20), CarefulReady DEF UpdateDiscard, Consistent, TypeInv, TypeOK
<1>e. e \in Ckpt /\ Relisted(c, e, new) /\ e.voff = c.voff /\ e.aoff = c.aoff /\ e.doff = new
  BY <1>r DEF Ckpt, Relisted, ListBlocks, Offset
<1>t. Taken(new)
  BY <1>r, WriteListTakes DEF UpdateDiscard
<1>w. ListWritten(j, e, new)
  <2>1. j \in Kept => Own(c) /\ Disjoint(new, Names(c))
    BY <1>r, <1>t, FreeIsUnnamed DEF Consistent, Building, Chain, Rolling, Taken
  <2>2. j \in Kept => Disjoint(e.voff, e.aoff \union e.doff)
    BY <2>1, <1>e DEF Own, Disjoint, Names, BlocksOf, ListBlocks
  <2>3. ckpts' = [ckpts EXCEPT ![j] = e] /\ del' = del
    BY DEF UpdateDiscard
  <2> QED BY <1>r, <1>e, <2>2, <2>3 DEF ListWritten
<1> HIDE DEF c, new, e
<1>d. todo' \subseteq todo
  BY DEF UpdateDiscard
<1> QED BY <1>r, <1>e, <1>t, <1>w, <1>d, UpdateKeepsInv DEF UpdateDiscard
\* __wt_block_extlist_truncate cuts off blocks that are all available: none of them is
\* named by a checkpoint.
LEMMA CutContinues ==
  ASSUME NEW c, NEW a, NEW d, NEW r, NEW t, NEW v, NEW n \in Nat, NEW m \in Nat,
         Continues(c, a, d, r, t, v, n), m <= n, m .. n - 1 \subseteq v
  PROVE  Continues(c, a, d, r, t, v \ (m .. n - 1), m)
<1>1. Names(c) \subseteq 0 .. m - 1
  BY SMTT(20) DEF Continues, Disjoint
<1> QED BY <1>1 DEF Continues, Disjoint

\* The available blocks at the end of the file go.
LEMMA CkptTruncateStep ==
  ASSUME Consistent, Careful, NEW n \in 0 .. MaxBlocks, CkptTruncate(n), use' = use
  PROVE  Consistent'
<1>r. Ready /\ pc = "update" /\ pc' = "alloc" /\ todo = {}
  BY CarefulReady DEF CkptTruncate
<1>p. pc \in Rolling /\ pc' \in Rolling /\ ~ torn /\ disk = meta
  BY <1>r DEF Rolling, Ready
<1>n. /\ fsize \in Nat /\ n \in Nat /\ n <= fsize /\ n .. fsize - 1 \subseteq avail
      /\ fsize' = n /\ avail' = avail \ (n .. fsize - 1)
  BY SMTT(20) DEF CkptTruncate, Consistent, TypeInv, TypeOK
<1>u. /\ UNCHANGED <<alloc, discard, ckptAvail, tree, root, how, del, todo, torn, ckpts, meta, disk, history, use>>
      /\ Kept' = Kept
  BY DEF CkptTruncate, Kept
<1>f. ASSUME NEW ck, NEW K, NEW a, NEW d, ContinuesAll(ck, K, a, d, root, tree, avail, fsize)
      PROVE  ContinuesAll(ck, K, a, d, root, tree, avail', fsize')
  BY <1>f, <1>n, CutContinues DEF ContinuesAll
<1>m. ContinuesAll(meta, DOMAIN meta, {}, {}, root, tree, avail', fsize')
  BY <1>p, <1>f DEF Consistent, Saved
<1>1. TypeInv'
  <2>1. TypeInv
    BY DEF Consistent
  <2> QED BY <2>1, <1>n, <1>u, <1>r DEF TypeInv, TypeOK, history
<1>2. LiveLists'
  <2>1. LiveLists
    BY DEF Consistent
  <2>2. tree \union root \union alloc \union discard \union ckptAvail \subseteq 0 .. n - 1
    BY SMTT(20), <2>1, <1>n DEF LiveLists, Disjoint
  <2>3. avail' \subseteq 0 .. n - 1
    BY SMTT(20), <2>1, <1>n DEF LiveLists
  <2> QED BY <2>1, <2>2, <2>3, <1>n, <1>u DEF LiveLists, Disjoint
<1>3. Saved'
  <2>1. \A i \in DOMAIN disk : Names(disk[i]) \subseteq 0 .. fsize' - 1
    BY <1>m, <1>p DEF ContinuesAll, Continues
  <2> QED BY <1>p, <1>m, <1>u, <2>1 DEF Consistent, Saved
<1>4. Building'
  <2>1. Building
    BY DEF Consistent
  <2> QED BY <2>1, <1>p, <1>f, <1>u DEF Building, Reusable, Rolling, Writing
<1> QED BY <1>1, <1>2, <1>3, <1>4, <1>r, <1>p, <1>u DEF Ready, Consistent, history, Rolling, Writing

\* The alloc list of the new checkpoint is written, and the checkpoint joins the list:
\* it is the live system, which continues the others.
LEMMA LiveAllocStep ==
  ASSUME Consistent, Careful, NEW b \in Blocks, LiveAlloc(b), use' = use
  PROVE  Consistent'
<1> DEFINE new == Offset(alloc, b)
           L == Len(meta) + 1
           e == [tree |-> tree, root |-> root, alloc |-> alloc, discard |-> discard, avail |-> {},
                 aoff |-> new, doff |-> {}, voff |-> {}, size |-> 0]
<1>r. Ready /\ pc = "alloc" /\ pc' = "discard"
  BY CarefulReady DEF LiveAlloc
<1>p. pc \in Rolling /\ pc' \in Writing /\ ~ torn /\ disk = meta
  BY <1>r DEF Rolling, Writing, Ready
<1>s. ckpts \in Seq(Ckpt) /\ meta \in Seq(Ckpt) /\ Len(ckpts) = Len(meta) /\ ckpts' = Append(ckpts, e)
  BY <1>p DEF Consistent, TypeInv, Building, LiveAlloc
<1>t. Taken(new)
  BY <1>r, WriteListTakes DEF LiveAlloc
<1>u. UNCHANGED <<alloc, discard, ckptAvail, tree, root, how, del, todo, torn, meta, disk, use>>
  BY DEF LiveAlloc
<1>e. /\ e.tree = tree /\ e.root = root /\ e.alloc = alloc /\ e.discard = discard
      /\ e.aoff = new /\ e.doff = {} /\ e.voff = {} /\ ListBlocks(e) = new
  BY DEF ListBlocks
<1>c. e \in Ckpt
  BY SMTT(20), MaxBlocksAssumption DEF Consistent, TypeInv, TypeOK, Ckpt, Offset
<1> HIDE DEF e, new
<1>k. /\ Kept' = Kept \union {L} /\ ckpts'[L] = e /\ \A i \in Kept : ckpts'[i] = ckpts[i] /\ i < L
      /\ ckpts' \in Seq(Ckpt) /\ Len(ckpts') = L /\ L \in Nat /\ Kept \subseteq Nat /\ DOMAIN ckpts' = DOMAIN ckpts \union {L}
  BY SMTT(20), <1>s, <1>c, <1>u DEF Kept, Consistent, TypeInv, TypeOK
<1>i. /\ ContinuesAll(ckpts, Kept, alloc, discard, root, tree, avail, fsize)
      /\ Chain(ckpts, Kept) /\ Disjoint(ckptAvail, alloc \union discard)
      /\ \A i \in Kept : Disjoint(ckptAvail, Names(ckpts[i]))
  BY <1>p DEF Consistent, Building, Reusable
<1>a. /\ Disjoint(new, tree \union root \union alloc \union discard \union ckptAvail)
      /\ Disjoint(new, avail') /\ new \subseteq 0 .. fsize' - 1
      /\ \A i \in Kept : Disjoint(new, Names(ckpts[i]))
  BY <1>r, <1>t, <1>p, TakenApart, FreeIsUnnamed DEF Taken
<1>v. LiveLists /\ LiveLists'
  BY <1>r, <1>t, <1>u, TakenLive DEF Consistent
<1>n. Names(e) = tree \union root \union alloc \union discard \union new
  BY <1>e DEF Names, BlocksOf, Pages
<1>m. ContinuesAll(meta, DOMAIN meta, {}, {}, root, tree', avail', fsize')
  <2>1. ContinuesAll(meta, DOMAIN meta, {}, {}, root, tree, avail, fsize)
    BY <1>p DEF Consistent, Saved
  <2> QED BY <1>r, <1>t, <1>u, <2>1, TakenContinues
<1>1. TypeInv'
  <2>1. TypeInv
    BY DEF Consistent
  <2>2. fsize' \in 0 .. MaxBlocks /\ avail' \subseteq avail /\ over' = {} /\ failed' = failed
    BY <1>t DEF Taken
  <2> QED BY <1>k, <1>r, <1>u, <2>1, <2>2 DEF TypeInv, TypeOK
<1>2. Saved'
  <2>1. \A i \in DOMAIN disk : Names(disk[i]) \subseteq 0 .. fsize' - 1
    BY <1>m, <1>p DEF ContinuesAll, Continues
  <2> QED BY <1>p, <1>m, <1>u, <2>1 DEF Consistent, Saved
<1>3. Chain(ckpts', Kept')
  <2>1. Own(e)
    BY <1>e, <1>a, <1>v DEF Own, LiveLists, Disjoint, Pages
  <2>2. \A i \in Kept : Fit(ckpts[i], e)
    BY <1>e, <1>a, <1>i, ContinuesFits DEF ContinuesAll
  <2>3. \A i \in Kept' : Own(ckpts'[i])
    BY <1>k, <1>i, <2>1 DEF Chain
  <2>4. ASSUME NEW i \in Kept', NEW j \in Kept', i < j PROVE Fit(ckpts'[i], ckpts'[j])
    <3>1. i \in Kept
      BY SMTT(20), <2>4, <1>k
    <3>2. CASE j \in Kept
      BY <3>1, <3>2, <2>4, <1>k, <1>i DEF Chain
    <3>3. CASE j = L
      BY <3>1, <3>3, <2>2, <1>k
    <3> QED BY <3>2, <3>3, <1>k
  <2> QED BY <2>3, <2>4 DEF Chain
<1>4. Reusable(ckpts, Kept)'
  <2>1. Disjoint(ckptAvail, Names(e))
    BY <1>n, <1>a, <1>i, <1>v DEF LiveLists, Disjoint
  <2> QED BY <1>k, <1>i, <1>u, <2>1 DEF Reusable
<1>5. ContinuesAll(ckpts', Kept', {}, {}, {}, tree', avail', fsize')
  <2>1. ContinuesAll(ckpts, Kept, {}, {}, {}, tree', avail', fsize')
    BY <1>r, <1>t, <1>u, <1>i, TakenContinues
  <2>2. Continues(e, {}, {}, {}, tree', avail', fsize')
    BY <1>e, <1>n, <1>a, <1>v, <1>u DEF Continues, LiveLists, Disjoint
  <2> QED BY <1>k, <2>1, <2>2 DEF ContinuesAll
<1>6. Building'
  BY <1>3, <1>4, <1>5, <1>k, <1>p, <1>r, <1>u DEF Building, Rolling, Writing
<1>7. over' = {}
  BY <1>t DEF Taken
<1> QED BY <1>1, <1>2, <1>6, <1>7, <1>v, <1>p, <1>r, <1>u DEF Ready, Consistent

\* The last checkpoint of the list, which is the new one while its lists are written.
LEMMA LastIsKept ==
  ASSUME Consistent, pc \in Writing
  PROVE  /\ Len(ckpts) \in Kept /\ ckpts[Len(ckpts)] \in Ckpt
         /\ Chain(ckpts, Kept) /\ ContinuesAll(ckpts, Kept, {}, {}, {}, tree, avail, fsize)
         /\ Disjoint(ckptAvail, alloc \union discard)
         /\ ContinuesAll(meta, DOMAIN meta, {}, {}, root, tree, avail, fsize)
         /\ Len(ckpts) = Len(meta) + 1 /\ ~ torn /\ disk = meta
<1>1. Len(ckpts) = Len(meta) + 1 /\ ckpts \in Seq(Ckpt) /\ meta \in Seq(Ckpt) /\ del \subseteq DOMAIN meta
  BY DEF Consistent, Building, TypeInv, TypeOK
<1>2. Len(ckpts) \in Kept /\ ckpts[Len(ckpts)] \in Ckpt
  BY SMTT(20), <1>1 DEF Kept
<1>3. ~ torn /\ disk = meta
  BY DEF Consistent, Saved, Writing
<1> QED BY <1>1, <1>2, <1>3 DEF Consistent, Building, Saved, Reusable

\* The discard list of the new checkpoint is written.
LEMMA LiveDiscardStep ==
  ASSUME Consistent, Careful, NEW b \in Blocks, LiveDiscard(b), use' = use
  PROVE  Consistent'
<1> DEFINE j == Len(ckpts)
           c == ckpts[j]
           new == Offset(discard, b)
           e == [c EXCEPT !.doff = new]
<1>r. Ready /\ pc = "discard" /\ pc' = "avail"
  BY CarefulReady DEF LiveDiscard
<1>p. pc \in Writing /\ pc' \in Writing
  BY <1>r DEF Writing
<1>k. /\ j \in Kept /\ c \in Ckpt
      /\ Chain(ckpts, Kept) /\ ContinuesAll(ckpts, Kept, {}, {}, {}, tree, avail, fsize)
      /\ Disjoint(ckptAvail, alloc \union discard)
      /\ ContinuesAll(meta, DOMAIN meta, {}, {}, root, tree, avail, fsize)
      /\ Len(ckpts) = Len(meta) + 1 /\ ~ torn /\ disk = meta
  BY <1>p, LastIsKept
<1>e. e \in Ckpt /\ Relisted(c, e, new) /\ e.voff = c.voff /\ e.aoff = c.aoff /\ e.doff = new
  BY <1>k DEF Ckpt, Relisted, ListBlocks, Offset
<1>t. Taken(new)
  BY <1>r, WriteListTakes DEF LiveDiscard
<1>u. UNCHANGED <<alloc, discard, ckptAvail, tree, root, how, del, todo, torn, meta, disk, use>>
  BY DEF LiveDiscard
<1>w. ListWritten(j, e, new)
  <2>1. Own(c) /\ Disjoint(new, Names(c))
    BY <1>r, <1>t, <1>k, <1>p, FreeIsUnnamed DEF Chain, Taken
  <2>2. Disjoint(e.voff, e.aoff \union e.doff)
    BY <2>1, <1>e DEF Own, Disjoint, Names, BlocksOf, ListBlocks
  <2>3. ckpts' = [ckpts EXCEPT ![j] = e] /\ j \in DOMAIN ckpts
    BY <1>k DEF LiveDiscard, Kept
  <2> QED BY <1>u, <1>e, <2>2, <2>3 DEF ListWritten
<1> HIDE DEF c, new, e
<1>f. /\ ckpts' \in Seq(Ckpt) /\ Len(ckpts') = Len(ckpts) /\ Kept' = Kept
      /\ Chain(ckpts', Kept)
      /\ \A i \in Kept : Disjoint(ckptAvail, Names(ckpts'[i]))
      /\ ContinuesAll(ckpts', Kept, {}, {}, {}, tree', avail', fsize')
  <2>1. {} \in SUBSET alloc /\ {} \in SUBSET discard /\ {} \in SUBSET root
    OBVIOUS
  <2> QED BY <1>r, <1>p, <1>k, <1>e, <1>t, <1>u, <1>w, <2>1, ListWrittenFits
<1>m. ContinuesAll(meta, DOMAIN meta, {}, {}, root, tree', avail', fsize')
  BY <1>r, <1>t, <1>u, <1>k, TakenContinues
<1>1. TypeInv'
  <2>1. TypeInv /\ todo = {}
    BY <1>r DEF Consistent
  <2>2. fsize' \in 0 .. MaxBlocks /\ avail' \subseteq avail /\ over' = {} /\ failed' = failed
    BY <1>t DEF Taken
  <2> QED BY <1>f, <1>r, <1>u, <2>1, <2>2 DEF TypeInv, TypeOK
<1>2. LiveLists'
  BY <1>r, <1>t, <1>u, TakenLive
<1>3. Saved'
  <2>1. \A i \in DOMAIN disk : Names(disk[i]) \subseteq 0 .. fsize' - 1
    BY <1>m, <1>k DEF ContinuesAll, Continues
  <2> QED BY <1>p, <1>m, <1>k, <1>u, <2>1 DEF Consistent, Saved
<1>4. Building'
  BY <1>f, <1>k, <1>p, <1>r, <1>u DEF Building, Reusable, Rolling, Writing
<1>5. over' = {}
  BY <1>t DEF Taken
<1> QED BY <1>1, <1>2, <1>3, <1>4, <1>5, <1>p, <1>r, <1>k, <1>u DEF Consistent

\* The avail list of the new checkpoint is written, with the blocks that are to be made
\* available once it is durable: opening it makes no block of a kept checkpoint
\* available.
LEMMA LiveAvailStep ==
  ASSUME Consistent, Careful, NEW b \in Blocks, LiveAvail(b), use' = use
  PROVE  Consistent'
<1> DEFINE j == Len(ckpts)
           c == ckpts[j]
           el == avail \union ckptAvail
           new == Offset(el, b)
           e == [c EXCEPT !.avail = el, !.voff = new, !.size = fsize']
<1>r. Ready /\ pc = "avail" /\ pc' = "written"
  BY CarefulReady DEF LiveAvail
<1>p. pc \in Writing /\ pc' \notin Rolling \union Writing
  BY <1>r DEF Rolling, Writing
<1>k. /\ j \in Kept /\ c \in Ckpt
      /\ Chain(ckpts, Kept) /\ ContinuesAll(ckpts, Kept, {}, {}, {}, tree, avail, fsize)
      /\ Disjoint(ckptAvail, alloc \union discard)
      /\ ContinuesAll(meta, DOMAIN meta, {}, {}, root, tree, avail, fsize)
      /\ Len(ckpts) = Len(meta) + 1 /\ ~ torn /\ disk = meta
  BY <1>p, LastIsKept
<1>t. Taken(new)
  BY <1>r, WriteListTakes DEF LiveAvail
<1>x. fsize' \in 0 .. MaxBlocks /\ fsize <= fsize' /\ avail' \subseteq avail /\ over' = {} /\ failed' = failed
  BY <1>t DEF Taken
<1>e. /\ e \in Ckpt /\ Relisted(c, e, new)
      /\ e.voff = new /\ e.aoff = c.aoff /\ e.doff = c.doff /\ e.avail = el /\ e.size = fsize'
  <2>1. el \subseteq Blocks /\ new \subseteq Blocks
    BY DEF Consistent, TypeInv, TypeOK, Offset
  <2> HIDE DEF el, new
  <2> QED BY <1>k, <1>x, <2>1 DEF Ckpt, Relisted, ListBlocks
<1>u. /\ alloc' = {} /\ discard' = {} /\ root' = {}
      /\ UNCHANGED <<ckptAvail, tree, how, del, todo, torn, meta, disk, use>>
  BY DEF LiveAvail
<1>w. ListWritten(j, e, new)
  <2>1. Own(c) /\ Disjoint(new, Names(c))
    BY <1>r, <1>t, <1>k, <1>p, FreeIsUnnamed DEF Chain, Taken
  <2>2. Disjoint(e.voff, e.aoff \union e.doff)
    BY <2>1, <1>e DEF Disjoint, Names, BlocksOf, ListBlocks
  <2>3. ckpts' = [ckpts EXCEPT ![j] = e] /\ j \in DOMAIN ckpts
    BY <1>k DEF LiveAvail, Kept
  <2> QED BY <1>u, <1>e, <2>2, <2>3 DEF ListWritten
<1>l. ckpts'[j] = e
  BY <1>w DEF ListWritten, Consistent, TypeInv
<1> HIDE DEF c, new, e, el
<1>f. /\ ckpts' \in Seq(Ckpt) /\ Len(ckpts') = Len(ckpts) /\ Kept' = Kept
      /\ Chain(ckpts', Kept)
      /\ \A i \in Kept : Disjoint(ckptAvail, Names(ckpts'[i]))
      /\ ContinuesAll(ckpts', Kept, {}, {}, {}, tree', avail', fsize')
  <2>1. {} \in SUBSET alloc /\ {} \in SUBSET discard /\ {} \in SUBSET root
    OBVIOUS
  <2> QED BY <1>r, <1>p, <1>k, <1>e, <1>t, <1>u, <1>w, <2>1, ListWrittenFits
<1>m. ContinuesAll(meta, DOMAIN meta, {}, {}, {}, tree', avail', fsize')
  BY <1>r, <1>t, <1>u, <1>k, TakenContinues
<1>1. TypeInv'
  <2>1. TypeInv /\ todo = {}
    BY <1>r DEF Consistent
  <2> QED BY <1>f, <1>r, <1>u, <1>x, <2>1 DEF TypeInv, TypeOK
<1>2. LiveLists'
  BY <1>r, <1>t, <1>u, TakenLive
<1>3. Saved'
  <2>1. \A i \in DOMAIN disk : Names(disk[i]) \subseteq 0 .. fsize' - 1
    BY <1>m, <1>k DEF ContinuesAll, Continues
  <2> QED BY <1>p, <1>m, <1>k, <1>u, <2>1 DEF Consistent, Saved
<1>4. LoadsWith(e, ckpts', Kept)
  <2>1. \A i \in Kept : Names(ckpts'[i]) \subseteq Names(ckpts[i]) \union new
    <3>1. Names(e) \subseteq Names(c) \union new
      BY <1>e DEF Relisted, Names, BlocksOf, Pages
    <3>2. \A i \in Kept : i # j => ckpts'[i] = ckpts[i]
      BY <1>w DEF ListWritten, Kept, Consistent, TypeInv
    <3> QED BY <1>l, <3>1, <3>2 DEF c
  <2>2. el \ new \subseteq 0 .. fsize' - 1
    BY SMTT(20), <1>x DEF el, Consistent, LiveLists, TypeInv, TypeOK
  <2>3. \A i \in Kept : Disjoint(el \ new, Names(ckpts'[i])) /\ Names(ckpts'[i]) \subseteq 0 .. fsize' - 1
    <3>1. \A i \in Kept : Disjoint(el, Names(ckpts[i]))
      BY <1>k, <1>p DEF el, ContinuesAll, Continues, Disjoint, Consistent, Building, Reusable
    <3> QED BY <3>1, <2>1, <1>f DEF Disjoint, ContinuesAll, Continues
  <2> QED BY <1>e, <2>2, <2>3 DEF LoadsWith
<1>5. Building'
  BY <1>4, <1>l, <1>f, <1>k, <1>p, <1>r, <1>u DEF Building, Reusable, Rolling, Writing, Disjoint
<1> QED BY <1>1, <1>2, <1>3, <1>5, <1>x, <1>p, <1>r, <1>k, <1>u DEF Consistent

-----------------------------------------------------------------------------
(* A checkpoint that fails, is made durable and is resolved.               *)

\* __ckpt_process fails: the checkpoints in the metadata are the durable ones, and stay.
LEMMA ProcessFailStep ==
  ASSUME Consistent, ProcessFail, use' = use
  PROVE  Consistent'
<1>1. TypeInv'
  BY SMTT(20), UsesAssumption DEF Consistent, TypeInv, TypeOK, ProcessFail, lists
<1>2. LiveLists'
  BY DEF Consistent, LiveLists, ProcessFail, lists, Disjoint
<1>3. Saved'
  BY DEF Consistent, Saved, ProcessFail
<1>4. Building'
  BY DEF Building, ProcessFail, Rolling, Writing
<1> QED BY <1>1, <1>2, <1>3, <1>4 DEF Consistent, ProcessFail

\* The metadata becomes durable.
LEMMA DurableStep ==
  ASSUME Consistent, Durable, use' = use
  PROVE  Consistent'
<1>u. /\ pc = "saved" /\ pc' = "durable" /\ disk' = meta
      /\ UNCHANGED <<fsize, lists, tree, root, how, del, todo, torn, ckpts, meta, history>>
  BY DEF Durable
<1>i. /\ ContinuesAll(meta, DOMAIN meta, alloc, discard, root, tree, avail, fsize) /\ Whole(meta)
      /\ Reusable(meta, DOMAIN meta) /\ ~ torn /\ root = {} /\ todo = {} /\ del = {}
  BY <1>u DEF Consistent, Saved, Building, Rolling, Writing
<1>1. TypeInv'
  BY <1>u DEF Consistent, TypeInv, TypeOK, lists, history
<1>2. LiveLists'
  BY <1>u DEF Consistent, LiveLists, lists
<1>3. Saved'
  <2>1. \A i \in DOMAIN meta : Names(meta[i]) \subseteq 0 .. fsize - 1
    BY <1>i DEF ContinuesAll, Continues
  <2> QED BY <2>1, <1>i, <1>u DEF Saved, lists, Rolling, Writing
<1>4. Building'
  BY <1>i, <1>u DEF Building, Reusable, lists, Rolling, Writing
<1> QED BY <1>1, <1>2, <1>3, <1>4, <1>i, <1>u DEF Consistent, history

\* __wt_block_checkpoint_resolve: what nothing kept refers to becomes available.
LEMMA ResolveStep ==
  ASSUME Consistent, Resolve, use' = use
  PROVE  Consistent'
<1>u. /\ avail' = avail \union ckptAvail /\ ckptAvail' = {} /\ ckpts' = <<>> /\ pc' = "run"
      /\ UNCHANGED <<fsize, alloc, discard, tree, root, how, del, todo, torn, meta, disk, history>>
      /\ pc \in {"saved", "durable"} /\ (pc = "saved" => how = "close")
  BY DEF Resolve
<1>i. /\ ContinuesAll(meta, DOMAIN meta, alloc, discard, root, tree, avail, fsize)
      /\ Reusable(meta, DOMAIN meta) /\ ~ torn /\ root = {} /\ todo = {} /\ del = {} /\ LiveLists
  BY <1>u DEF Consistent, Saved, Building, Rolling, Writing
<1>1. TypeInv'
  <2>1. TypeInv
    BY DEF Consistent
  <2> QED BY SMTT(20), <2>1, <1>i, <1>u DEF TypeInv, TypeOK, history
<1>2. LiveLists'
  BY <1>i, <1>u DEF LiveLists, Reusable, Disjoint
<1>3. Saved'
  <2>1. ContinuesAll(meta, DOMAIN meta, alloc, discard, root, tree, avail', fsize)
    BY <1>i, <1>u DEF ContinuesAll, Continues, Reusable, Disjoint
  <2> QED BY <2>1, <1>i, <1>u DEF Consistent, Saved, Rolling, Writing
<1>4. Building'
  BY <1>u DEF Building, Rolling, Writing
<1> QED BY <1>1, <1>2, <1>3, <1>4, <1>i, <1>u DEF Consistent, history

\* The checkpoint is not saved: the metadata is as it was, and nothing is resolved.
LEMMA SaveFailStep ==
  ASSUME Consistent, SaveFail, use' = use
  PROVE  Consistent'
<1>u. /\ pc \in {"written", "saved"} /\ how = "checkpoint" /\ meta' = (IF pc = "saved" THEN ckpts ELSE meta)
      /\ ckpts' = <<>> /\ del' = {} /\ pc' = "run" /\ failed' = failed + 1 /\ failed < use.failures
      /\ UNCHANGED <<fsize, lists, tree, root, how, todo, torn, disk, over>>
  BY DEF SaveFail
<1>i. ~ torn /\ root = {} /\ todo = {}
  BY <1>u DEF Consistent, Rolling, Writing
<1>m. meta' = disk /\ Whole(disk) /\ ContinuesAll(disk, DOMAIN disk, alloc, discard, root, tree, avail, fsize)
  <2>1. CASE pc = "saved"
    BY <2>1, <1>u, <1>i DEF Consistent, Saved, Building
  <2>2. CASE pc = "written"
    BY <2>2, <1>u DEF Consistent, Saved, Rolling, Writing
  <2> QED BY <1>u, <2>1, <2>2
<1>1. TypeInv'
  <2>1. TypeInv /\ use.failures \in Nat
    BY UsesAssumption DEF Consistent, TypeInv
  <2>2. failed' \in 0 .. use'.failures
    BY SMTT(20), <2>1, <1>u DEF TypeInv, TypeOK
  <2>3. /\ ckpts' = <<>> /\ del' = {} /\ pc' = "run"
        /\ UNCHANGED <<fsize, alloc, avail, discard, ckptAvail, tree, root, how, todo, torn, disk, over>>
    BY <1>u DEF lists
  <2> QED BY SMTT(20), <2>1, <2>2, <2>3, <1>i, <1>m DEF TypeInv, TypeOK
<1>2. LiveLists'
  BY <1>u DEF Consistent, LiveLists, lists
<1>3. Saved'
  BY <1>m, <1>u, <1>i DEF Consistent, Saved, lists, Rolling, Writing
<1>4. Building'
  BY <1>u DEF Building, Rolling, Writing
<1> QED BY <1>1, <1>2, <1>3, <1>4, <1>i, <1>u DEF Consistent

\* The metadata is made durable by another operation, between checkpoints.
LEMMA MetaDurableStep ==
  ASSUME Consistent, Careful, MetaDurable, use' = use
  PROVE  Consistent'
<1>u. /\ pc = "run" /\ disk' = meta /\ how' = "checkpoint"
      /\ UNCHANGED <<fsize, lists, tree, root, pc, del, todo, torn, ckpts, meta, history>>
  BY DEF MetaDurable
<1>i. /\ ~ torn /\ Whole(meta) /\ ContinuesAll(meta, DOMAIN meta, alloc, discard, root, tree, avail, fsize)
      /\ root = {} /\ todo = {} /\ del = {}
  BY <1>u DEF MetaDurable, Careful, Consistent, Saved, Rolling, Writing
<1>1. TypeInv'
  BY <1>u DEF Consistent, TypeInv, TypeOK, lists, history
<1>2. LiveLists'
  BY <1>u DEF Consistent, LiveLists, lists
<1>3. Saved'
  <2>1. \A i \in DOMAIN meta : Names(meta[i]) \subseteq 0 .. fsize - 1
    BY <1>i DEF ContinuesAll, Continues
  <2> QED BY <2>1, <1>i, <1>u DEF Saved, lists, Rolling, Writing
<1>4. Building'
  BY <1>u DEF Building, Rolling, Writing
<1> QED BY <1>1, <1>2, <1>3, <1>4, <1>i, <1>u DEF Consistent, history

-----------------------------------------------------------------------------
(* Checkpoints are deleted, saved and loaded.                              *)

\* __ckpt_process rolls the lists of the deleted checkpoints into the next kept one, or
\* into the live system, which here is the last of the list.
LEMMA CkptDeleteStep ==
  ASSUME Consistent, Careful, CkptDelete, use' = use
  PROVE  Consistent'
<1> DEFINE L == Len(meta) + 1
           S == 1 .. L
           live == [tree |-> tree, root |-> root, alloc |-> alloc, discard |-> discard,
                    aoff |-> {}, doff |-> {}, voff |-> {}]
           X == [m \in S |-> IF m = L THEN live ELSE meta[m]]
           after == [live EXCEPT !.alloc = alloc', !.discard = discard']
           E == [m \in S |-> IF m = L THEN after ELSE ckpts'[m]]
<1>r. Ready /\ pc = "process" /\ pc' = "update" /\ ~ torn /\ disk = meta
  BY CarefulReady DEF CkptDelete, Ready
<1>u. UNCHANGED <<fsize, avail, tree, root, how, del, torn, meta, disk, history>>
  BY DEF CkptDelete
<1>s. /\ meta \in Seq(Ckpt) /\ L \in Nat \ {0} /\ del \subseteq S /\ L \notin del /\ S \in SUBSET Nat
      /\ DOMAIN meta = S \ {L}
  <2>1. meta \in Seq(Ckpt) /\ del \subseteq DOMAIN meta
    BY DEF Consistent, TypeInv, TypeOK
  <2>2. Len(meta) \in Nat /\ DOMAIN meta = 1 .. Len(meta)
    BY SMTT(20), <2>1
  <2>3. DOMAIN meta = S \ {L} /\ L \in Nat \ {0} /\ S \in SUBSET Nat
    BY SMTT(20), <2>2
  <2> QED BY <2>1, <2>3
<1>i. /\ Whole(meta) /\ LiveLists
      /\ ContinuesAll(meta, DOMAIN meta, alloc, discard, root, tree, avail, fsize)
  BY <1>r DEF Consistent, Saved, Rolling, Writing
<1>v. /\ live.tree = tree /\ live.root = root /\ live.alloc = alloc /\ live.discard = discard
      /\ live.aoff = {} /\ live.doff = {} /\ live.voff = {} /\ ListBlocks(live) = {}
  BY DEF ListBlocks
<1>a. /\ after.tree = tree /\ after.root = root /\ after.alloc = alloc' /\ after.discard = discard'
      /\ after.aoff = {} /\ after.doff = {} /\ after.voff = {}
  OBVIOUS
<1>x. X[L] = live /\ E[L] = after /\ \A m \in DOMAIN meta : X[m] = meta[m] /\ E[m] = ckpts'[m]
  BY SMTT(20), <1>s
<1> HIDE DEF live, after, X, E
<1>c. Chain(X, S)
  <2>1. Own(live)
    BY <1>v, <1>i DEF Own, LiveLists, Disjoint, Pages
  <2>2. \A m \in DOMAIN meta : Fit(meta[m], live)
    <3>1. \A m \in DOMAIN meta : Disjoint({}, Names(meta[m]))
      BY DEF Disjoint
    <3> QED BY <1>i, <1>v, <3>1, ContinuesFits DEF ContinuesAll
  <2>3. \A m \in S : Own(X[m])
    BY <1>i, <1>s, <1>x, <2>1 DEF Whole, Chain
  <2>4. ASSUME NEW i \in S, NEW j \in S, i < j PROVE Fit(X[i], X[j])
    <3>1. i \in DOMAIN meta
      BY SMTT(20), <2>4, <1>s
    <3>2. CASE j = L
      BY <3>1, <3>2, <2>2, <1>x
    <3>3. CASE j # L
      <4>1. j \in DOMAIN meta
        BY <3>3, <1>s
      <4>2. Fit(meta[i], meta[j])
        BY <3>1, <4>1, <2>4, <1>i DEF Whole, Chain
      <4> QED BY <3>1, <4>1, <4>2, <1>x
    <3> QED BY <3>2, <3>3
  <2> QED BY <2>3, <2>4 DEF Chain
<1>g. ASSUME NEW j \in S
      PROVE  /\ RolledInto(j) = Into(del, j)
             /\ \A m \in Into(del, j) : m \in DOMAIN meta /\ X[m] = meta[m]
             /\ MergedAlloc(X, del, j) = RolledAlloc(j, X[j].alloc)
             /\ MergedDiscard(X, del, j) = RolledDiscard(j, X[j].discard)
  <2>1. RolledInto(j) = Into(del, j)
    BY DEF RolledInto, Into
  <2>2. \A m \in Into(del, j) : m \in DOMAIN meta /\ X[m] = meta[m]
    BY <1>s, <1>x DEF Into
  <2>3. MergedAlloc(X, del, j) = RolledAlloc(j, X[j].alloc)
    BY <2>1, <2>2 DEF MergedAlloc, RolledAlloc, Group
  <2>4. MergedDiscard(X, del, j) = RolledDiscard(j, X[j].discard)
    BY SMTT(20), <2>1, <2>2 DEF MergedDiscard, RolledDiscard
  <2> QED BY <2>1, <2>2, <2>3, <2>4
<1>m. ASSUME NEW j \in DOMAIN meta PROVE meta[j] \in Ckpt
  BY SMTT(20), <1>s
<1>k. ASSUME NEW j \in DOMAIN meta
      PROVE  /\ ckpts'[j] \in Ckpt
             /\ j \in Updated => /\ ckpts'[j].alloc = RolledAlloc(j, meta[j].alloc) \ RolledDiscard(j, meta[j].discard)
                                /\ ckpts'[j].discard = RolledDiscard(j, meta[j].discard) \ RolledAlloc(j, meta[j].alloc)
                                /\ ckpts'[j].aoff = {} /\ ckpts'[j].doff = {} /\ ckpts'[j].voff = meta[j].voff
                                /\ ckpts'[j].tree = meta[j].tree /\ ckpts'[j].root = meta[j].root
             /\ j \notin Updated => ckpts'[j] = meta[j]
  <2>1. meta[j] \in Ckpt /\ \A m \in RolledInto(j) : meta[m] \in Ckpt
    BY SMTT(20), <1>s DEF RolledInto
  <2>2. RolledAlloc(j, meta[j].alloc) \subseteq Blocks /\ RolledDiscard(j, meta[j].discard) \subseteq Blocks
    BY SMTT(20), <2>1 DEF RolledAlloc, RolledDiscard, Ckpt
  <2> DEFINE a == RolledAlloc(j, meta[j].alloc) \ RolledDiscard(j, meta[j].discard)
             d == RolledDiscard(j, meta[j].discard) \ RolledAlloc(j, meta[j].alloc)
  <2>3. ckpts'[j] = IF j \in Updated
                    THEN [meta[j] EXCEPT !.alloc = a, !.discard = d, !.aoff = {}, !.doff = {}]
                    ELSE meta[j]
    BY DEF CkptDelete, Overlap
  <2>4. a \subseteq Blocks /\ d \subseteq Blocks
    BY <2>2
  <2> HIDE DEF a, d
  <2>5. [meta[j] EXCEPT !.alloc = a, !.discard = d, !.aoff = {}, !.doff = {}] \in Ckpt
    BY <2>1, <2>4 DEF Ckpt
  <2>6. ASSUME j \in Updated
        PROVE  /\ ckpts'[j].alloc = a /\ ckpts'[j].discard = d
               /\ ckpts'[j].aoff = {} /\ ckpts'[j].doff = {} /\ ckpts'[j].voff = meta[j].voff
               /\ ckpts'[j].tree = meta[j].tree /\ ckpts'[j].root = meta[j].root
    BY <2>1, <2>3, <2>6 DEF Ckpt
  <2> QED BY <2>1, <2>3, <2>5, <2>6 DEF a, d
<1>d. ckpts' \in Seq(Ckpt) /\ Len(ckpts') = Len(meta) /\ DOMAIN ckpts' = DOMAIN meta
  <2>1. ckpts' = [j \in DOMAIN meta |-> ckpts'[j]]
    BY DEF CkptDelete
  <2>2. Len(meta) \in Nat /\ DOMAIN meta = 1 .. Len(meta)
    BY SMTT(20), <1>s
  <2>3. ckpts' \in [1 .. Len(meta) -> Ckpt]
    BY <2>1, <2>2, <1>k
  <2> QED BY SMTT(20), <2>2, <2>3
<1>t. ASSUME NEW j \in S \ del PROVE RolledTo(X, del, j, E[j])
  <2>1. CASE j = L
    <3>1. /\ MergedAlloc(X, del, L) = RolledAlloc(L, alloc) /\ MergedDiscard(X, del, L) = RolledDiscard(L, discard)
          /\ RolledInto(L) = Into(del, L) /\ X[L] = live /\ E[L] = after
      BY SMTT(20), <1>g, <1>x, <1>v, <1>s
    <3>2. /\ RolledInto(L) # {} => /\ alloc' = RolledAlloc(L, alloc) \ RolledDiscard(L, discard)
                                   /\ discard' = RolledDiscard(L, discard) \ RolledAlloc(L, alloc)
          /\ RolledInto(L) = {} => alloc' = alloc /\ discard' = discard
      BY DEF CkptDelete, Overlap
    <3>3. alloc \subseteq RolledAlloc(L, alloc) /\ discard \subseteq RolledDiscard(L, discard)
      BY DEF RolledAlloc, RolledDiscard
    <3> QED BY SMTT(20), <2>1, <3>1, <3>2, <3>3, <1>a, <1>v DEF RolledTo, Disjoint
  <2>2. CASE j # L
    <3>0. j \in DOMAIN meta /\ j \notin del
      BY <2>2, <1>s
    <3>1. /\ MergedAlloc(X, del, j) = RolledAlloc(j, meta[j].alloc) 
          /\ MergedDiscard(X, del, j) = RolledDiscard(j, meta[j].discard)
          /\ RolledInto(j) = Into(del, j) /\ X[j] = meta[j] /\ E[j] = ckpts'[j]
      BY <3>0, <1>g, <1>x
    <3>2. j \in Updated <=> Into(del, j) # {}
      BY <3>0, <3>1 DEF Updated
    <3>3. meta[j].alloc \subseteq RolledAlloc(j, meta[j].alloc) /\ meta[j].discard \subseteq RolledDiscard(j, meta[j].discard)
      BY DEF RolledAlloc, RolledDiscard
    <3> QED BY SMTT(20), <3>0, <3>1, <3>2, <3>3, <1>k DEF RolledTo, Disjoint
  <2> QED BY <2>1, <2>2
<1>e. Chain(E, S \ del)
  BY <1>c, <1>t, <1>s, RollFits
<1>z. ASSUME NEW b \in ckptAvail'
      PROVE  \/ \E j \in S \ del : Into(del, j) # {} /\ b \in MergedAlloc(X, del, j) \intersect MergedDiscard(X, del, j)
             \/ \E k \in S : b \in ListBlocks(X[k]) /\ (k \in del \/ (Into(del, k) # {} /\ b \in X[k].aoff \union X[k].doff))
  <2> DEFINE both == IF RolledInto(L) # {} THEN RolledAlloc(L, alloc) \intersect RolledDiscard(L, discard) ELSE {}
             paired == UNION {RolledAlloc(j, meta[j].alloc) \intersect RolledDiscard(j, meta[j].discard) : j \in Updated}
             unlisted == UNION {meta[k].aoff \union meta[k].doff : k \in del \union Updated}
             unavail == UNION {meta[k].voff : k \in del}
  <2>1. ckptAvail' = both \union paired \union unlisted \union unavail
    BY DEF CkptDelete, Overlap
  <2>2. ASSUME b \in both
        PROVE  L \in S \ del /\ Into(del, L) # {} /\ b \in MergedAlloc(X, del, L) \intersect MergedDiscard(X, del, L)
    BY SMTT(20), <2>2, <1>g, <1>x, <1>v, <1>s
  <2>3. ASSUME b \in paired
        PROVE  \E j \in S \ del : Into(del, j) # {} /\ b \in MergedAlloc(X, del, j) \intersect MergedDiscard(X, del, j)
    <3>1. PICK j \in Updated : b \in RolledAlloc(j, meta[j].alloc) \intersect RolledDiscard(j, meta[j].discard)
      BY <2>3
    <3> QED BY <3>1, <1>g, <1>x, <1>s DEF Updated
  <2>4. ASSUME b \in unlisted
        PROVE  \E k \in S : b \in ListBlocks(X[k]) /\ (k \in del \/ (Into(del, k) # {} /\ b \in X[k].aoff \union X[k].doff))
    <3>1. PICK k \in del \union Updated : b \in meta[k].aoff \union meta[k].doff
      BY <2>4
    <3>2. k \in DOMAIN meta /\ X[k] = meta[k] /\ (k \in del \/ Into(del, k) # {})
      BY <1>s, <1>x, <1>g DEF Updated
    <3> QED BY <3>1, <3>2, <1>s DEF ListBlocks
  <2>5. ASSUME b \in unavail
        PROVE  \E k \in S : b \in ListBlocks(X[k]) /\ (k \in del \/ (Into(del, k) # {} /\ b \in X[k].aoff \union X[k].doff))
    <3>1. PICK k \in del : b \in meta[k].voff
      BY <2>5
    <3>2. k \in DOMAIN meta /\ X[k] = meta[k]
      BY <1>s, <1>x
    <3> QED BY <3>1, <3>2, <1>s DEF ListBlocks
  <2> HIDE DEF L, S, both, paired, unlisted, unavail
  <2> QED BY <2>1, <2>2, <2>3, <2>4, <2>5
<1> HIDE DEF L, S
<1>f. ASSUME NEW b \in ckptAvail', NEW i \in S \ del PROVE b \notin Names(E[i])
  <2>1. CASE \E j \in S \ del : Into(del, j) # {} /\ b \in MergedAlloc(X, del, j) \intersect MergedDiscard(X, del, j)
    BY <2>1, <1>c, <1>t, <1>s, RollFrees
  <2>2. CASE \E k \in S : b \in ListBlocks(X[k]) /\ (k \in del \/ (Into(del, k) # {} /\ b \in X[k].aoff \union X[k].doff))
    <3>1. PICK k \in S : b \in ListBlocks(X[k]) /\ (k \in del \/ (Into(del, k) # {} /\ b \in X[k].aoff \union X[k].doff))
      BY <2>2
    <3> QED BY <3>1, <1>c, <1>t, <1>s, RollFreesLists
  <2> QED BY <2>1, <2>2, <1>z
<1>b. /\ \A m \in S : Disjoint(avail, Names(X[m])) /\ Names(X[m]) \subseteq 0 .. fsize - 1 /\ Names(X[m]) \subseteq Blocks
      /\ fsize \in Nat
  <2>1. Names(live) = tree \union root \union alloc \union discard
    BY <1>v DEF Names, BlocksOf, Pages
  <2>2. Disjoint(avail, Names(live)) /\ Names(live) \subseteq 0 .. fsize - 1 /\ Names(live) \subseteq Blocks
    BY <2>1, <1>i DEF LiveLists, Disjoint, Consistent, TypeInv, TypeOK
  <2>3. ASSUME NEW m \in DOMAIN meta
        PROVE  Disjoint(avail, Names(meta[m])) /\ Names(meta[m]) \subseteq 0 .. fsize - 1 /\ Names(meta[m]) \subseteq Blocks
    <3>1. meta[m] \in Ckpt
      BY <1>m
    <3> QED BY <3>1, <1>i DEF ContinuesAll, Continues, Ckpt, Names, BlocksOf, Pages, ListBlocks
  <2>4. fsize \in Nat
    BY SMTT(20) DEF Consistent, TypeInv, TypeOK
  <2> QED BY <2>2, <2>3, <2>4, <1>s, <1>x
<1>y. ASSUME NEW j \in S \ del, NEW b \in MergedAlloc(X, del, j) \union MergedDiscard(X, del, j)
      PROVE  \E m \in S : b \in Names(X[m])
  <2>1. \A m \in Group(del, j) : m \in S
    BY <1>s DEF Group, Into
  <2>2. PICK m \in Group(del, j) : b \in X[m].alloc \/ b \in X[m].discard \/ b \in X[m].root
    BY <1>s, MergedFrom
  <2> QED BY <2>1, <2>2 DEF Names, BlocksOf, Pages
<1>h. ASSUME NEW b \in ckptAvail' \union alloc' \union discard' PROVE \E m \in S : b \in Names(X[m])
  <2>1. L \in S \ del
    BY SMTT(20), <1>s DEF L, S
  <2>2. alloc' \union discard' \subseteq MergedAlloc(X, del, L) \union MergedDiscard(X, del, L)
    BY <2>1, <1>t, <1>x, <1>a DEF RolledTo
  <2>3. CASE b \in ckptAvail'
    BY <2>3, <1>z, <1>y DEF Names, BlocksOf
  <2>4. CASE b \in alloc' \union discard'
    BY <2>4, <2>1, <2>2, <1>y
  <2> QED BY <2>3, <2>4
<1>j. /\ Disjoint(avail, ckptAvail' \union alloc' \union discard')
      /\ ckptAvail' \union alloc' \union discard' \subseteq 0 .. fsize - 1
      /\ ckptAvail' \union alloc' \union discard' \subseteq Blocks
  BY <1>h, <1>b DEF Disjoint
<1>l. /\ Own(after) /\ Disjoint(ckptAvail', tree \union root \union alloc' \union discard')
      /\ \A i \in DOMAIN meta \ del : Fit(ckpts'[i], after) /\ Disjoint(ckptAvail', Names(ckpts'[i]))
      /\ Kept' = DOMAIN meta \ del
  <2>1. L \in S \ del /\ \A i \in DOMAIN meta \ del : i \in S \ del /\ i < L
    BY SMTT(20), <1>s DEF L, S
  <2>2. Own(after) /\ \A i \in DOMAIN meta \ del : Fit(ckpts'[i], after)
    BY <2>1, <1>e, <1>x DEF Chain
  <2>3. Names(after) = tree \union root \union alloc' \union discard'
    BY <1>a DEF Names, BlocksOf, Pages, ListBlocks
  <2>4. Disjoint(ckptAvail', Names(after)) /\ \A i \in DOMAIN meta \ del : Disjoint(ckptAvail', Names(ckpts'[i]))
    BY <2>1, <1>f, <1>x DEF Disjoint
  <2> QED BY <2>2, <2>3, <2>4, <1>d, <1>u DEF Kept
<1>1. TypeInv'
  <2>1. Updated \subseteq DOMAIN meta /\ todo' = Updated
    BY DEF Updated, CkptDelete
  <2>2. TypeInv
    BY DEF Consistent
  <2> QED BY <2>1, <2>2, <1>d, <1>j, <1>u, <1>r DEF TypeInv, TypeOK, history
<1>2. LiveLists'
  BY <1>i, <1>j, <1>l, <1>u, <1>a DEF LiveLists, Own, Disjoint, Pages
<1>3. Saved'
  <2>1. ContinuesAll(meta, DOMAIN meta, {}, {}, root, tree, avail, fsize)
    BY <1>i DEF ContinuesAll, Continues, Disjoint
  <2> QED BY <2>1, <1>r, <1>u DEF Consistent, Saved, Rolling
<1>4. Building'
  <2>1. Chain(ckpts', DOMAIN meta \ del)
    <3>1. \A i \in DOMAIN meta \ del : i \in S \ del
      BY <1>s DEF S, L
    <3> QED BY <3>1, <1>e, <1>x DEF Chain
  <2>2. ASSUME NEW i \in DOMAIN meta \ del
        PROVE  Continues(ckpts'[i], alloc', discard', root, tree, avail, fsize)
    <3>1. i \in S \ del /\ X[i] = meta[i] /\ E[i] = ckpts'[i]
      BY <1>s, <1>x DEF S, L
    <3>2. ASSUME NEW b \in Names(E[i]) PROVE \E m \in S : b \in Names(X[m])
      <4>1. b \in MergedAlloc(X, del, i) \union MergedDiscard(X, del, i) \/ b \in Names(X[i])
        BY <3>1, <1>t DEF RolledTo, Names, BlocksOf, Pages, ListBlocks
      <4> QED BY <4>1, <3>1, <1>y
    <3>3. Disjoint(avail, Names(E[i])) /\ Names(E[i]) \subseteq 0 .. fsize - 1
      BY <3>2, <1>b DEF Disjoint
    <3>4. Fit(E[i], after)
      BY <3>1, <1>l
    <3> QED BY <3>1, <3>3, <3>4, <1>a DEF Fit, Continues, Disjoint, Names, BlocksOf, Pages
  <2>3. Disjoint(ckptAvail', alloc' \union discard')
    BY <1>l DEF Disjoint
  <2>4. ContinuesAll(ckpts', DOMAIN meta \ del, alloc', discard', root, tree, avail, fsize)
    BY <2>2 DEF ContinuesAll
  <2> QED BY <2>1, <2>3, <2>4, <1>l, <1>d, <1>r, <1>u DEF Building, Reusable, Rolling, Writing
<1> QED BY <1>1, <1>2, <1>3, <1>4, <1>r, <1>u DEF Consistent, history, Rolling, Writing
-----------------------------------------------------------------------------
(* Saving, failing, and opening after a crash.                             *)

\* __wt_meta_ckptlist_set writes the kept checkpoints, in their order.
LEMMA SaveMetaStep ==
  ASSUME Consistent, SaveMeta, use' = use
  PROVE  Consistent'
<1>1. PICK n \in 0 .. Len(ckpts) : \E at \in [1 .. n -> Kept] : Places(n, at) /\ meta' = [i \in 1 .. n |-> ckpts[at[i]]]
  BY DEF SaveMeta
<1>2. PICK at \in [1 .. n -> Kept] : Places(n, at) /\ meta' = [i \in 1 .. n |-> ckpts[at[i]]]
  BY <1>1
<1>r. pc = "written" /\ pc' = "saved" /\ ~ torn /\ disk = meta /\ root = {} /\ todo = {}
  BY DEF Consistent, Saved, SaveMeta, Rolling, Writing
<1>u. ckpts' = meta /\ del' = {} /\ UNCHANGED <<fsize, lists, tree, root, how, todo, torn, disk, history>>
  BY DEF SaveMeta
<1>s. ckpts \in Seq(Ckpt) /\ meta \in Seq(Ckpt) /\ del \subseteq DOMAIN meta /\ Len(ckpts) = Len(meta) + 1
  BY <1>r DEF Consistent, TypeInv, TypeOK, Building
<1>i. /\ ContinuesAll(ckpts, Kept, alloc, discard, {}, tree, avail, fsize)
      /\ LoadsWith(ckpts[Len(ckpts)], ckpts, Kept) /\ Chain(ckpts, Kept) /\ Reusable(ckpts, Kept)
      /\ ContinuesAll(meta, DOMAIN meta, alloc, discard, root, tree, avail, fsize)
  BY <1>r DEF Consistent, Building, Saved, Rolling, Writing
<1>k. Len(ckpts) \in Kept /\ Kept \subseteq 1 .. Len(ckpts) /\ Len(ckpts) \in Nat
  BY SMTT(20), <1>s DEF Kept
<1>m. /\ meta' \in Seq(Ckpt) /\ Len(meta') = n /\ DOMAIN meta' = 1 .. n
      /\ \A i \in 1 .. n : at[i] \in Kept /\ meta'[i] = ckpts[at[i]]
      /\ \A i, j \in 1 .. n : i < j => at[i] < at[j]
  <2>1. \A i \in 1 .. n : at[i] \in Kept /\ ckpts[at[i]] \in Ckpt
    BY SMTT(20), <1>s DEF Kept
  <2>2. n \in Nat /\ meta' \in [1 .. n -> Ckpt] /\ \A i \in 1 .. n : meta'[i] = ckpts[at[i]]
    BY SMTT(20), <1>2, <1>k, <2>1
  <2>3. meta' \in Seq(Ckpt) /\ Len(meta') = n /\ DOMAIN meta' = 1 .. n
    BY SMTT(20), <2>2
  <2> QED BY <1>2, <2>1, <2>2, <2>3 DEF Places
<1>l. n # 0 /\ at[n] = Len(ckpts)
  <2>1. PICK i \in 1 .. n : at[i] = Len(ckpts)
    BY <1>2, <1>k DEF Places
  <2>2. n \in 1 .. n
    BY SMTT(20), <2>1, <1>k
  <2>3. at[n] \in Nat /\ at[n] <= Len(ckpts)
    <3>1. at[n] \in Kept
      BY <1>m, <2>2
    <3>2. at[n] \in 1 .. Len(ckpts)
      BY <1>k, <3>1
    <3> QED BY SMTT(20), <1>k, <3>2
  <2>4. i < n => at[i] < at[n]
    BY <1>m, <2>1, <2>2
  <2>5. i < n \/ i = n
    BY SMTT(20), <2>1, <1>k
  <2> QED BY SMTT(20), <1>k, <2>1, <2>2, <2>3, <2>4, <2>5
<1>c. Chain(meta', DOMAIN meta')
  <2>1. \A i \in 1 .. n : Own(meta'[i])
    BY <1>m, <1>i DEF Chain
  <2>2. \A i, j \in 1 .. n : i < j => Fit(meta'[i], meta'[j])
    BY <1>m, <1>i DEF Chain
  <2> QED BY <2>1, <2>2, <1>m DEF Chain
<1>w. LoadsWith(meta'[Len(meta')], meta', DOMAIN meta')
  <2>1. meta'[Len(meta')] = ckpts[Len(ckpts)]
    <3>1. n \in 1 .. n /\ Len(meta') = n
      BY SMTT(20), <1>m, <1>l, <1>k
    <3>2. meta'[n] = ckpts[at[n]]
      BY <1>m, <3>1
    <3> QED BY <3>1, <3>2, <1>l
  <2>2. LoadsWith(ckpts[Len(ckpts)], meta', DOMAIN meta')
    BY <1>m, <1>i DEF LoadsWith
  <2> QED BY <2>1, <2>2
<1>3. TypeInv'
  <2>1. TypeInv
    BY DEF Consistent
  <2> QED BY <2>1, <1>m, <1>r, <1>u DEF TypeInv, TypeOK, lists, history
<1>4. Saved'
  <2>1. ContinuesAll(meta', DOMAIN meta', alloc, discard, root, tree, avail, fsize)
    BY <1>m, <1>i, <1>r DEF ContinuesAll
  <2> QED BY <2>1, <1>c, <1>w, <1>r, <1>u DEF Consistent, Saved, Whole, lists, Rolling, Writing
<1>5. Building'
  <2>1. Reusable(meta, DOMAIN meta)'
    BY <1>m, <1>i, <1>u DEF Reusable, lists
  <2> QED BY <2>1, <1>i, <1>r, <1>u DEF Building, Rolling, Writing, lists
<1>6. LiveLists'
  BY <1>u DEF Consistent, LiveLists, lists
<1> QED BY <1>3, <1>4, <1>5, <1>6, <1>r, <1>u DEF Consistent, history

\* The system crashes and the file is opened in its last durable checkpoint: what that
\* makes available is named by none of the durable checkpoints.
LEMMA CrashStep ==
  ASSUME Consistent, Crash, use' = use
  PROVE  Consistent'
<1> DEFINE c == disk[Len(disk)]
<1>u. /\ disk # <<>> /\ avail' = c.avail \ c.voff /\ fsize' = c.size /\ tree' = c.tree
      /\ alloc' = {} /\ discard' = {} /\ ckptAvail' = {} /\ root' = {}
      /\ meta' = disk /\ ckpts' = <<>> /\ pc' = "run" /\ how' = "checkpoint" /\ del' = {} /\ todo' = {} /\ torn' = FALSE
      /\ UNCHANGED <<disk, history>>
  BY DEF Crash
<1>d. disk \in Seq(Ckpt) /\ Len(disk) \in DOMAIN disk /\ DOMAIN disk \subseteq Nat /\ \A i \in DOMAIN disk : i <= Len(disk)
  <2>1. disk \in Seq(Ckpt)
    BY DEF Consistent, TypeInv
  <2> QED BY SMTT(20), <2>1, <1>u
<1>c. c \in Ckpt /\ Own(c) /\ Chain(disk, DOMAIN disk) /\ LoadsWith(c, disk, DOMAIN disk)
  BY SMTT(20), <1>d, <1>u DEF Consistent, Saved, Whole, Chain
<1> HIDE DEF c
<1>1. TypeInv'
  <2>1. TypeInv
    BY DEF Consistent
  <2>2. c.avail \ c.voff \subseteq Blocks /\ c.tree \subseteq Blocks /\ c.size \in 0 .. MaxBlocks
    BY <1>c DEF Ckpt
  <2>3. over' = over /\ failed' = failed
    BY <1>u DEF history
  <2>4. TypeOK'
    BY <2>1, <2>2, <2>3, <1>u DEF TypeInv, TypeOK
  <2>5. <<>> \in Seq(Ckpt)
    BY SMTT(20)
  <2> QED BY <2>1, <2>4, <2>5, <1>u DEF TypeInv
<1>2. LiveLists'
  <2>1. Disjoint(c.avail \ c.voff, Names(c)) /\ Names(c) \subseteq 0 .. c.size - 1 /\ c.avail \ c.voff \subseteq 0 .. c.size - 1
    BY <1>c, <1>d DEF LoadsWith, c
  <2>2. Disjoint(avail', tree') /\ avail' \union tree' \subseteq 0 .. fsize' - 1
    BY <2>1, <1>u DEF Disjoint, Names, BlocksOf, Pages
  <2> QED BY <2>2, <1>u DEF LiveLists, Disjoint
<1>3. ContinuesAll(disk, DOMAIN disk, {}, {}, {}, c.tree, c.avail \ c.voff, c.size)
  <2>1. ASSUME NEW i \in DOMAIN disk PROVE Continues(disk[i], {}, {}, {}, c.tree, c.avail \ c.voff, c.size)
    <3>1. Disjoint(c.avail \ c.voff, Names(disk[i])) /\ Names(disk[i]) \subseteq 0 .. c.size - 1
      BY <1>c DEF LoadsWith
    <3>2. Disjoint(c.tree, disk[i].discard \union disk[i].root \union ListBlocks(disk[i]))
      <4>1. CASE i = Len(disk)
        BY <4>1, <1>c DEF c, Own, Disjoint, Pages
      <4>2. CASE i < Len(disk)
        <5>1. Fit(disk[i], c)
          BY <4>2, <1>c, <1>d DEF Chain, c
        <5> QED BY <5>1 DEF Fit, Disjoint, Names, BlocksOf, Pages
      <4> QED BY SMTT(20), <4>1, <4>2, <1>d
    <3> QED BY <3>1, <3>2 DEF Continues, Disjoint
  <2> QED BY <2>1 DEF ContinuesAll
<1>4. Saved'
  <2>1. \A i \in DOMAIN disk : Names(disk[i]) \subseteq 0 .. c.size - 1
    BY <1>3 DEF ContinuesAll, Continues
  <2>2. Whole(disk)
    BY DEF Consistent, Saved
  <2> QED BY <2>1, <2>2, <1>3, <1>u DEF Saved, Rolling, Writing
<1>5. Building'
  BY <1>u DEF Building, Rolling, Writing
<1> QED BY <1>1, <1>2, <1>4, <1>5, <1>u DEF Consistent, history
-----------------------------------------------------------------------------
(* The theorems.                                                           *)

\* A new file has no checkpoints and nothing available.
LEMMA InitInv == Init => Consistent
<1> SUFFICES ASSUME Init PROVE Consistent
  OBVIOUS
<1>1. TypeInv
  <2>1. use \in Uses /\ use.failures \in Nat
    BY UsesAssumption DEF Init
  <2>2. TypeOK
    <3>1. fsize \in 0 .. MaxBlocks /\ failed \in 0 .. use.failures
      BY SMTT(20), <2>1, MaxBlocksAssumption DEF Init
    <3> QED BY <3>1 DEF Init, TypeOK
  <2>3. <<>> \in Seq(Ckpt)
    BY SMTT(20)
  <2> QED BY <2>1, <2>2, <2>3 DEF Init, TypeInv
<1>2. LiveLists
  BY DEF Init, LiveLists, Disjoint
<1>3. Whole(<<>>)
  BY SMTT(20) DEF Whole, Chain
<1>4. Saved
  BY SMTT(20), <1>3 DEF Init, Saved, ContinuesAll, Rolling, Writing
<1>5. Building
  BY DEF Init, Building, Rolling, Writing
<1> QED BY <1>1, <1>2, <1>4, <1>5 DEF Init, Consistent

\* A careful step keeps the lists and the checkpoints consistent.
LEMMA CarefulStep ==
  ASSUME Consistent, Step, Careful, use' = use
  PROVE  Consistent'
<1>1. ASSUME NEW b \in Blocks, PageWrite(b) \/ PageFree(b) PROVE Consistent'
  BY <1>1, PageWriteStep, PageFreeStep
<1>2. ASSUME NEW d \in SUBSET DOMAIN meta, NEW h \in Owners, NEW b \in Blocks, CkptRoot(d, h, b) PROVE Consistent'
  BY <1>2, CkptRootStep
<1>3. ASSUME NEW b \in Blocks, NEW j \in todo, UpdateAlloc(j, b) \/ UpdateDiscard(j, b) PROVE Consistent'
  BY <1>3, UpdateAllocStep, UpdateDiscardStep
<1>4. ASSUME NEW b \in Blocks, LiveAlloc(b) \/ LiveDiscard(b) \/ LiveAvail(b) PROVE Consistent'
  BY <1>4, LiveAllocStep, LiveDiscardStep, LiveAvailStep
<1>5. ASSUME NEW n \in 0 .. MaxBlocks, CkptTruncate(n) PROVE Consistent'
  BY <1>5, CkptTruncateStep
<1>6. CASE PageWriteError \/ CkptDelete
  BY <1>6, PageWriteErrorStep, CkptDeleteStep
<1>7. CASE SaveMeta \/ Durable \/ Resolve \/ MetaDurable
  BY <1>7, SaveMetaStep, DurableStep, ResolveStep, MetaDurableStep
<1>8. CASE ProcessFail \/ SaveFail \/ Crash
  BY <1>8, ProcessFailStep, SaveFailStep, CrashStep
<1> QED BY <1>1, <1>2, <1>3, <1>4, <1>5, <1>6, <1>7, <1>8 DEF Step, WritePages, WriteLists

\* Every step keeps the inductive invariant: a step that is not careful is remembered.
LEMMA NextInv == IInv /\ [Next]_vars => IInv'
<1> SUFFICES ASSUME IInv, [Next]_vars PROVE IInv'
  OBVIOUS
<1>1. CASE UNCHANGED vars
  <2>1. UNCHANGED <<fsize, alloc, avail, discard, ckptAvail, tree, root, pc, how, del, todo, torn, ckpts, meta, disk, over, failed, use>>
    BY <1>1 DEF vars, lists, flow, history
  <2>2. careless' = careless
    BY <1>1 DEF vars
  <2>3. CASE Consistent
    <3>1. Consistent'
      BY SMTT(20), <2>1, <2>3 DEF Consistent, TypeInv, TypeOK, LiveLists, Saved, Building, Reusable, Kept
    <3> QED BY <3>1 DEF IInv
  <2> QED BY <2>2, <2>3 DEF IInv
<1>2. CASE Next
  <2>1. Step /\ careless' = (careless \/ ~ Careful) /\ use' = use
    BY <1>2 DEF Next
  <2>2. CASE ~ careless /\ Careful
    BY <2>1, <2>2, CarefulStep DEF IInv
  <2>3. CASE careless \/ ~ Careful
    BY <2>1, <2>3 DEF IInv
  <2> QED BY <2>2, <2>3
<1> QED BY <1>1, <1>2

\* The checkpoints and the live lists of every file fit together, for any number of
\* blocks, checkpoints, closes and failures, up to the first step that is not Careful:
\* nothing is claimed of a file that is written after a close while the metadata is not
\* yet durable, or that is used after __ckpt_process failed on it (block_ckpt.c:
\* __wt_block_checkpoint, __ckpt_process, __wt_block_checkpoint_resolve).
THEOREM InvHolds == Spec => []IInv
<1>1. Init => IInv
  BY InitInv DEF IInv
<1> QED BY PTL, <1>1, NextInv DEF Spec

\* Up to the first step that is not Careful no block of a checkpoint in the metadata can
\* be allocated, and none of one in the durable metadata was written again or truncated
\* away (block_ckpt.c: __ckpt_process, __wt_block_checkpoint_resolve).  The code does
\* take steps that are not: DurableAlways, with no such condition, is false.
THEOREM DurableIntactHolds == Spec => [](careless \/ DurableIntact)
<1>1. IInv => careless \/ DurableIntact
  BY DEF IInv, Consistent, Saved, DurableIntact, AllBlocks, Names, ContinuesAll, Continues, Disjoint
<1> QED BY PTL, <1>1, InvHolds

\* Up to the first step that is not Careful, no block the live tree refers to can be
\* allocated (block_ext.c: __wt_block_off_free, __ckpt_process rolling lists together).
THEOREM LivePagesKeptHolds == Spec => [](careless \/ LivePagesKept)
<1>1. IInv => careless \/ LivePagesKept
  BY DEF IInv, Consistent, LiveLists, LivePagesKept, Disjoint
<1> QED BY PTL, <1>1, InvHolds

\* Up to the first step that is not Careful, no list that __ckpt_process merges into
\* another meets an extent twice (block_ext.c: __block_merge).
THEOREM MergesDisjointHolds == Spec => [](careless \/ MergesDisjoint)
<1>1. ASSUME Consistent PROVE MergesDisjoint
  <2>1. avail \intersect ckptAvail = {}
    BY <1>1 DEF Consistent, LiveLists, Disjoint
  <2>2. ASSUME NEW i \in DOMAIN meta, NEW j \in DOMAIN meta, i # j
        PROVE  meta[i].alloc \intersect meta[j].alloc = {} /\ meta[i].discard \intersect meta[j].discard = {}
    <3>1. Chain(meta, DOMAIN meta) /\ meta \in Seq(Ckpt)
      BY <1>1 DEF Consistent, Saved, Whole, TypeInv
    <3>2. i < j \/ j < i
      BY SMTT(20), <2>2, <3>1
    <3>3. Fit(meta[i], meta[j]) \/ Fit(meta[j], meta[i])
      BY <3>1, <3>2 DEF Chain
    <3> QED BY <3>3 DEF Fit, Disjoint
  <2>3. ASSUME pc = "run", ~ torn, NEW i \in DOMAIN meta
        PROVE  meta[i].alloc \intersect alloc = {} /\ meta[i].discard \intersect discard = {}
    <3>1. Continues(meta[i], alloc, discard, root, tree, avail, fsize)
      BY <1>1, <2>3 DEF Consistent, Saved, ContinuesAll, Rolling, Writing
    <3> QED BY <3>1 DEF Continues, Disjoint
  <2> QED BY <2>1, <2>2, <2>3 DEF MergesDisjoint
<1>2. IInv => careless \/ MergesDisjoint
  BY <1>1 DEF IInv
<1> QED BY PTL, <1>2, InvHolds

=============================================================================

------------------------------- MODULE Salvage -------------------------------
(***************************************************************************)
(* Salvage of a file (bt_slvg.c, block_slvg.c): read every block that has  *)
(* a valid checksum, keep the leaf pages whose overflow items exist,       *)
(* resolve the pages whose key ranges overlap in favour of the newest,     *)
(* write a page for every one that lost a part of its range, and a root    *)
(* that refers to what is left.  One action per block read, page reviewed, *)
(* pair of pages compared or page built; salvage may fail between any two. *)
(*                                                                         *)
(* A cell of a leaf page holds the keys lo .. hi: one key of a row store,  *)
(* a run of records of a column store.  The value of a key is the page and *)
(* the cell it was found in.                                               *)
(***************************************************************************)
EXTENDS Integers, Sequences, SequencesExt, FiniteSetsExt

CONSTANTS Files,      \* damaged files: a page type and the blocks in file order
          NoTrack     \* an entry of the page array that was discarded

VARIABLES file,       \* the file salvage was started on
          disk,       \* [address -> block], the file now
          ss,         \* WT_STUFF: the page array, the tracked overflow pages, the root
          step,       \* the step of __wt_bt_salvage and its loop counters
          space,      \* the block manager: addresses allocated, available, discarded
          out         \* how salvage ended, and what it did on the way that may cost it data

vars == <<file, disk, ss, step, space, out>>

Row == file.type = "row"
Blocks == DOMAIN file.blocks
Torn == [kind |-> "torn", gen |-> 0, cells |-> <<>>]
IsLeaf(b) == b.kind = "leaf"
Keys(cells) == UNION {cells[n].lo .. cells[n].hi : n \in DOMAIN cells}
Overflows(cells) == SelectSeq([n \in DOMAIN cells |-> cells[n].ovfl], LAMBDA a : a # 0)

-----------------------------------------------------------------------------
\* A block is moved from the allocated to the available blocks at once; one that
\* is not allocated goes to the blocks the checkpoint discards.
FreeAll(s, as) == [alloc |-> s.alloc \ as, avail |-> s.avail \union (as \cap s.alloc),
                   discard |-> s.discard \union (as \ s.alloc)]

\* Salvage starts with the whole file allocated.
SalvageStart(f) == [alloc |-> DOMAIN f.blocks, avail |-> {}, discard |-> {}]

\* What salvage keeps between its steps, before it has read anything, and the
\* entry for a page.
WT_STUFF == [pages |-> <<>>, ovfl |-> {}, refd |-> {}, root |-> <<>>, gen |-> 0, ids |-> 0]
WT_TRACK == [addr |-> 0, gen |-> 0, id |-> 0, start |-> 0, stop |-> 0, missing |-> 0,
             flags |-> {}, ovfl |-> <<>>]

Init ==
  /\ file \in Files
  /\ disk = file.blocks
  /\ ss = WT_STUFF
  /\ step = [at |-> "read", i |-> 1, j |-> 1]
  /\ space = SalvageStart(file)
  /\ out = [ret |-> "none", twice |-> FALSE, split |-> {}, shared |-> {}, early |-> {}, cut |-> {},
             misfreed |-> {}, repeated |-> {}]

At(s) == step.at = s
Goto(s) == step' = [at |-> s, i |-> 1, j |-> 2]
NextPage == step' = [step EXCEPT !.i = @ + 1, !.j = step.i + 2]

\* Of out: twice, a block was freed that was not allocated; the others are the pages
\* whose range was split in two (split), whose block was freed with the entry split off
\* them (shared), whose overflow items were freed before they were written (early), that
\* were made to start inside a run of records (cut), of which a merge may have freed an
\* item that is kept (misfreed), or one item for all that it dropped (repeated).
Free(as) ==
  /\ space' = FreeAll(space, as)
  /\ out' = [out EXCEPT !.twice = @ \/ ~ as \subseteq space.alloc]
NoFree == UNCHANGED <<space, out>>

End(ret, o) ==
  /\ step' = [at |-> "end", i |-> 1, j |-> 1]
  /\ out' = [o EXCEPT !.ret = ret]
\* A run that fails discards the page array and the live checkpoint.
Discarded == WT_STUFF
EndEarly(ret, o) == End(ret, o) /\ ss' = Discarded /\ space' = [alloc |-> {}, avail |-> {}, discard |-> {}]

-----------------------------------------------------------------------------
\* Step 2, the blocks of the file.

TrkInit(a, gen, id) == [WT_TRACK EXCEPT !.addr = a, !.gen = gen, !.id = id]

\* The overflow items of the page, in page order.
TrkLeafOvfl(trk, cells) == [trk EXCEPT !.ovfl = Overflows(cells)]

TrkLeaf(a, b) ==
  ss' = [ss EXCEPT !.gen = Max({@, b.gen}), !.ids = @ + 1,
                   !.pages = Append(@, [TrkLeafOvfl(TrkInit(a, b.gen, ss.ids), b.cells)
                                          EXCEPT !.start = b.cells[1].lo,
                                                 !.stop = b.cells[Len(b.cells)].hi])]

TrkOvfl(a, b) == ss' = [ss EXCEPT !.gen = Max({@, b.gen}), !.ovfl = @ \union {a}]

\* A block whose size or checksum is wrong is freed by the block manager.
SalvageNext ==
  /\ At("read") /\ step.i \in Blocks
  /\ disk[step.i].kind = "torn"
  /\ Free({step.i})
  /\ NextPage
  /\ UNCHANGED <<file, disk, ss>>

\* Internal pages and pages that fail verification are freed, leaf and overflow
\* pages tracked; a leaf page of the other format ends salvage.
SlvgRead ==
  LET a == step.i  b == disk[a]
  IN /\ At("read") /\ a \in Blocks
     /\ \/ /\ b.kind \in {"int", "bad"}
           /\ ss' = [ss EXCEPT !.gen = Max({@, b.gen})]
           /\ Free({a}) /\ NextPage
        \/ IsLeaf(b) /\ TrkLeaf(a, b) /\ NoFree /\ NextPage
        \/ b.kind = "ovfl" /\ TrkOvfl(a, b) /\ NoFree /\ NextPage
        \/ b.kind = "other" /\ EndEarly("formats", out)
     /\ UNCHANGED <<file, disk>>

-----------------------------------------------------------------------------
\* Steps 3 and 4, the overflow pages.

TrkCompareGen(a, b) == a.gen > b.gen

\* By key, then newest first; discarded entries last.
TrkCompareKey(a, b) ==
  /\ a # NoTrack
  /\ \/ b = NoTrack
     \/ a.start < b.start
     \/ a.start = b.start /\ a.gen > b.gen

SortedByKey(ps) == SortSeq(ps, TrkCompareKey)

\* The overflow pages are reviewed only if there are any.
ReadDone ==
  /\ At("read") /\ step.i \notin Blocks
  /\ \/ ss.ovfl # {} /\ Goto("overflow") /\ ss' = [ss EXCEPT !.pages = SortSeq(@, TrkCompareGen)]
     \/ ss.ovfl = {} /\ Goto("range") /\ ss' = [ss EXCEPT !.pages = SortedByKey(@)]
  /\ UNCHANGED <<file, disk, space, out>>

\* The overflow items of a page are claimed one at a time: each has to exist and to
\* be unclaimed, by a newer page or by this one.
Claimable(trk) ==
  \A n \in DOMAIN trk.ovfl :
    /\ trk.ovfl[n] \in ss.ovfl \ ss.refd
    /\ \A m \in 1 .. n - 1 : trk.ovfl[m] # trk.ovfl[n]

\* A page that cannot claim all of its overflow items is discarded, and gives back
\* the ones it claimed.
OvflReconcile ==
  LET trk == ss.pages[step.i]
  IN /\ At("overflow") /\ step.i <= Len(ss.pages)
     /\ \/ Claimable(trk) /\ ss' = [ss EXCEPT !.refd = @ \union ToSet(trk.ovfl)] /\ NoFree
        \/ ~Claimable(trk) /\ ss' = [ss EXCEPT !.pages[step.i] = NoTrack] /\ Free({trk.addr})
     /\ NextPage
     /\ UNCHANGED <<file, disk>>

OvflDiscard ==
  /\ At("overflow") /\ step.i > Len(ss.pages)
  /\ Free(ss.ovfl \ ss.refd)
  /\ ss' = [ss EXCEPT !.pages = SortedByKey(@)]
  /\ Goto("range")
  /\ UNCHANGED <<file, disk>>

-----------------------------------------------------------------------------
\* Step 5, the pages that overlap.

Flag(trk, fs) == [trk EXCEPT !.flags = @ \union fs]

\* The entries from the slot that changed up to one that cannot overlap it are
\* sorted again.
Resort(ps, slot) ==
  LET past == {n \in slot + 1 .. Len(ps) : ps[n] # NoTrack /\ ps[n].start > ps[slot].stop}
      last == Min(past \union {Len(ps) + 1}) - 1
  IN SubSeq(ps, 1, slot - 1) \o SortedByKey(SubSeq(ps, slot, last)) \o SubSeq(ps, last + 1, Len(ps))

\* The page array with the entry of the slot starting after the key stop: at the next
\* record of a column store, at the next key of the page of a row store.
ColTrkUpdateStart(ps, stop, slot, fs) == Resort([ps EXCEPT ![slot] = Flag([@ EXCEPT !.start = stop + 1], fs)], slot)

RowTrkUpdateStart(ps, stop, slot, fs) ==
  LET found == {k \in Keys(disk[ps[slot].addr].cells) : k > stop}
  IN Resort([ps EXCEPT ![slot] = Flag([@ EXCEPT !.start = Min(found)], fs)], slot)

\* Discard an entry: its block and all of its overflow pages are freed.
TrkDiscard(slot) ==
  LET as == {ss.pages[slot].addr} \union ToSet(ss.pages[slot].ovfl)
  IN /\ ss' = [ss EXCEPT !.pages[slot] = NoTrack]
     /\ space' = FreeAll(space, as)
     /\ out' = [out EXCEPT !.twice = @ \/ ~ as \subseteq space.alloc,
                           !.shared = IF "noblocks" \in ss.pages[slot].flags
                                      THEN @ \union {ss.pages[slot].addr} ELSE @]
SetPages(ps) == ss' = [ss EXCEPT !.pages = ps] /\ NoFree

\* The end of the range of a, as an entry of its own without file blocks.
SplitOff(a) == [TrkInit(a.addr, a.gen, ss.ids) EXCEPT !.stop = a.stop]
SetSplit(ps, a) ==
  /\ ss' = [ss EXCEPT !.pages = ps, !.ids = @ + 1]
  /\ out' = [out EXCEPT !.split = @ \union {a.addr}]
  /\ UNCHANGED space

\* Two entries overlap, slot i before slot j: the newer one keeps its range.  The end
\* of a column-store range is the last record of it.
ColCutStart(ps, i, j) == SetPages(ColTrkUpdateStart(ps, ps[i].stop, j, {"merge"}))
ColCutStop(ps, i, j) == SetPages([ps EXCEPT ![i] = Flag([@ EXCEPT !.stop = ps[j].start - 1], {"merge"})])
ColSplit(ps, i, j) ==
  SetSplit([ColTrkUpdateStart(InsertAt(ps, i + 1, SplitOff(ps[i])), ps[j].stop, i + 1, {"merge", "noblocks"})
              EXCEPT ![i] = Flag([ps[i] EXCEPT !.stop = ps[j].start - 1], {"merge"})], ps[i])

ColRangeOverlap(i, j) ==
  LET a == ss.pages[i]  b == ss.pages[j]
  IN \/ a.start = b.start /\ a.stop >= b.stop /\ TrkDiscard(j)
     \/ a.start = b.start /\ a.stop < b.stop /\ ColCutStart(ss.pages, i, j)
     \/ a.start # b.start /\ a.stop >= b.stop /\ a.gen > b.gen /\ TrkDiscard(j)
     \/ a.start # b.start /\ a.stop < b.stop /\ a.gen > b.gen /\ ColCutStart(ss.pages, i, j)
     \/ a.start # b.start /\ a.stop <= b.stop /\ a.gen <= b.gen /\ ColCutStop(ss.pages, i, j)
     \/ a.start # b.start /\ a.stop > b.stop /\ a.gen <= b.gen /\ ColSplit(ss.pages, i, j)

\* The end of a row-store range that was cut is the first key after it, and checked.
RowCutStart(ps, i, j) == SetPages(RowTrkUpdateStart(ps, ps[i].stop, j, {"start", "merge"}))
RowCutStopUnmerged(ps, i, j) == SetPages([ps EXCEPT ![i] = Flag([@ EXCEPT !.stop = ps[j].start], {"stop"})])
RowCutStop(ps, i, j) == SetPages([ps EXCEPT ![i] = Flag([@ EXCEPT !.stop = ps[j].start], {"stop", "merge"})])
RowSplit(ps, i, j) ==
  SetSplit([RowTrkUpdateStart(InsertAt(ps, i + 1, SplitOff(ps[i])), ps[j].stop, i + 1, {"start", "merge", "noblocks"})
              EXCEPT ![i] = Flag([ps[i] EXCEPT !.stop = ps[j].start], {"stop", "merge"})], ps[i])

RowRangeOverlap(i, j) ==
  LET a == ss.pages[i]  b == ss.pages[j]
  IN \/ a.start = b.start /\ a.stop >= b.stop /\ TrkDiscard(j)
     \/ a.start = b.start /\ a.stop < b.stop /\ RowCutStart(ss.pages, i, j)
     \/ a.start # b.start /\ a.stop >= b.stop /\ a.gen > b.gen /\ TrkDiscard(j)
     \/ a.start # b.start /\ a.stop < b.stop /\ a.gen > b.gen /\ RowCutStart(ss.pages, i, j)
     \/ a.start # b.start /\ a.stop <= b.stop /\ a.gen <= b.gen /\ RowCutStop(ss.pages, i, j)
     \/ a.start # b.start /\ a.stop > b.stop /\ a.gen <= b.gen /\ RowSplit(ss.pages, i, j)

Entry(n) == n <= Len(ss.pages) /\ ss.pages[n] # NoTrack
PastRange == \/ step.j > Len(ss.pages)
             \/ Entry(step.j) /\ ss.pages[step.j].start > ss.pages[step.i].stop

\* A slot that holds another entry after the overlap was resolved is looked at again.
Again == LET now == ss'.pages[step.j] IN now # NoTrack /\ now.id # ss.pages[step.j].id
NextSlot == step' = [step EXCEPT !.j = IF Again THEN @ ELSE @ + 1]

ColRange ==
  /\ At("range") /\ ~Row /\ Entry(step.i)
  /\ \/ PastRange /\ NextPage /\ UNCHANGED ss /\ NoFree
     \/ ~PastRange /\ ~Entry(step.j) /\ step' = [step EXCEPT !.j = @ + 1] /\ UNCHANGED ss /\ NoFree
     \/ ~PastRange /\ Entry(step.j) /\ ColRangeOverlap(step.i, step.j) /\ NextSlot
  /\ UNCHANGED <<file, disk>>

RowRange ==
  /\ At("range") /\ Row /\ Entry(step.i)
  /\ \/ PastRange /\ NextPage /\ UNCHANGED ss /\ NoFree
     \/ ~PastRange /\ ~Entry(step.j) /\ step' = [step EXCEPT !.j = @ + 1] /\ UNCHANGED ss /\ NoFree
     \/ ~PastRange /\ Entry(step.j) /\ RowRangeOverlap(step.i, step.j) /\ NextSlot
  /\ UNCHANGED <<file, disk>>

SkipDiscarded ==
  /\ At("range") /\ step.i <= Len(ss.pages) /\ ~Entry(step.i)
  /\ NextPage
  /\ UNCHANGED <<file, disk, ss, space, out>>

-----------------------------------------------------------------------------
\* Step 6, the records no page of a column store has: the page after them starts at
\* the first, so that they are written as deleted.
MissingBefore(n) ==
  LET before == {m \in 1 .. n - 1 : Entry(m)}
      r == IF before = {} THEN 0 ELSE ss.pages[Max(before)].stop
  IN IF ss.pages[n].start = r + 1 THEN 0 ELSE r + 1

ColRangeMissing ==
  [n \in DOMAIN ss.pages |->
     IF ~Entry(n) \/ MissingBefore(n) = 0 THEN ss.pages[n]
     ELSE Flag([ss.pages[n] EXCEPT !.missing = MissingBefore(n)], {"merge"})]

RangeDone ==
  /\ At("range") /\ step.i > Len(ss.pages)
  /\ ss' = [ss EXCEPT !.pages = IF Row THEN @ ELSE ColRangeMissing]
  /\ Goto("build")
  /\ UNCHANGED <<file, disk, space, out>>

-----------------------------------------------------------------------------
\* Step 7, the root and the pages that lost a part of their range.

\* __rec_col_var_helper for one cell of a page whose first records are skipped; a cell
\* of which only a part is skipped is written whole.
SkipTake(r, c) ==
  LET rle == c.hi - c.lo + 1
      n == Min({rle, r.take})
  IN IF r.take = 0 THEN r
     ELSE IF r.skip # 0 /\ rle <= r.skip THEN [r EXCEPT !.skip = @ - rle]
     ELSE [skip |-> 0, take |-> r.take - n, recno |-> r.recno + n,
           cells |-> Append(r.cells, [c EXCEPT !.lo = r.recno, !.hi = r.recno + n - 1])]

RECURSIVE SkipTakeAll(_, _)
SkipTakeAll(r, cells) == IF cells = <<>> THEN r ELSE SkipTakeAll(SkipTake(r, Head(cells)), Tail(cells))

MissingCells(trk) ==
  IF trk.missing = 0 THEN <<>>
  ELSE <<[lo |-> trk.missing, hi |-> trk.start - 1, ovfl |-> 0, val |-> <<0, 0>>]>>

ColCells(trk, cells) ==
  MissingCells(trk) \o
  SkipTakeAll([skip |-> trk.start - cells[1].lo, take |-> trk.stop - trk.start + 1,
               recno |-> trk.start, cells |-> <<>>], cells).cells

\* The overflow items freed: the record number compared is the one after the cell.
ColMergeOvfl(trk, cells) ==
  Overflows(SelectSeq(cells, LAMBDA c : c.hi + 1 \notin trk.start .. trk.stop))

\* The keys discarded from the start and from the end of a row-store page.
SkipStart(trk, cells) ==
  IF "start" \notin trk.flags THEN 0 ELSE Cardinality({n \in DOMAIN cells : cells[n].lo < trk.start})
SkipStop(trk, cells) ==
  IF "stop" \notin trk.flags THEN 0 ELSE Cardinality({n \in DOMAIN cells : cells[n].lo >= trk.stop})
RowCells(trk, cells) == SubSeq(cells, SkipStart(trk, cells) + 1, Len(cells) - SkipStop(trk, cells))
FreesNoOvfl(trk, cells) == <<>>
\* The row looked at is always the first of the ones discarded at that end.
RowMergeOvfl(trk, cells) ==
  LET first == cells[1]  last == cells[Len(cells) - SkipStop(trk, cells) + 1]
  IN Overflows([n \in 1 .. SkipStart(trk, cells) |-> first] \o [n \in 1 .. SkipStop(trk, cells) |-> last])

\* A block is written to the first free block it fits or to the end of the file: with
\* the sizes left out, to any of them.
Places(s) == s.avail \union {Max(DOMAIN disk) + 1}
WriteTo(a, b) == disk' = [x \in DOMAIN disk \union {a} |-> IF x = a THEN b ELSE disk[x]]
Taken(s, a) == [s EXCEPT !.alloc = @ \union {a}, !.avail = @ \ {a}]

FreeEach(s, as) == FoldLeft(LAMBDA t, a : FreeAll(t, {a}), s, as)
IfSo(cond, a) == IF cond THEN {a} ELSE {}

FreesThenBuilds(trk, cells, ovfls, met) ==
  \E a \in Places(FreeAll(space, {trk.addr})) :
    /\ WriteTo(a, [kind |-> "leaf", gen |-> ss.gen + 1, cells |-> cells]) \/ WriteTo(a, Torn)
    /\ EndEarly("crash", out)
\* The overflow items are freed and the page is written, or salvage dies while it is.
BuildLeaf(trk, cells, ovfls, met) ==
  LET freed == FreeEach(space, ovfls)
      spent == [out EXCEPT !.twice = @ \/ Cardinality(space.alloc \ freed.alloc) # Len(ovfls),
                           !.early = @ \union IfSo(ovfls # <<>>, trk.addr),
                           !.cut = @ \union IfSo(met.cut, trk.addr),
                           !.misfreed = @ \union IfSo(met.misfreed, trk.addr),
                           !.repeated = @ \union IfSo(met.repeated, trk.addr)]
  IN \E a \in Places(freed) :
       \/ /\ WriteTo(a, [kind |-> "leaf", gen |-> ss.gen + 1, cells |-> cells])
          /\ ss' = [ss EXCEPT !.gen = @ + 1, !.root = Append(@, [key |-> cells[1].lo, addr |-> a])]
          /\ space' = Taken(freed, a)
          /\ out' = spent
          /\ NextPage
       \/ WriteTo(a, Torn) /\ EndEarly("crash", spent)

\* The page of an entry is read again; it is lost if its block was written to.
Intact(trk) == disk[trk.addr] = file.blocks[trk.addr]
KeepLeaf(trk) ==
  /\ ss' = [ss EXCEPT !.root = Append(@, [key |-> trk.start, addr |-> trk.addr])]
  /\ NextPage /\ NoFree /\ UNCHANGED disk

\* Both halves of a split page free the items of the other.
SplitOvfl(trk, cells) == trk.addr \in out.split /\ Overflows(cells) # <<>>
ColBuildLeaf(trk, cells) ==
  BuildLeaf(trk, ColCells(trk, cells), ColMergeOvfl(trk, cells),
            [cut |-> \E c \in ToSet(cells) : trk.start \in c.lo + 1 .. c.hi,
             misfreed |-> SplitOvfl(trk, cells)
                          \/ \E c \in ToSet(cells) : c.ovfl # 0 /\ trk.stop \in c.lo .. c.hi,
             repeated |-> \E c \in ToSet(cells) : c.ovfl # 0 /\ c.hi + 1 = trk.start])

\* (An entry to be merged has lost a key: its stop was a key at or after the start of
\* the page that cut it, its start was moved past a key.)
RowBuildLeaf(trk, cells) ==
  LET start == SkipStart(trk, cells)  stop == SkipStop(trk, cells)
  IN BuildLeaf(trk, RowCells(trk, cells), RowMergeOvfl(trk, cells),
               [cut |-> FALSE,
                misfreed |-> SplitOvfl(trk, cells),
                repeated |-> \/ start > 1 /\ Overflows(SubSeq(cells, 1, start)) # <<>>
                             \/ stop > 1 /\ Overflows(SubSeq(cells, Len(cells) - stop + 1, Len(cells))) # <<>>])

ColBuildInternal ==
  /\ At("build") /\ ~Row /\ Entry(step.i)
  /\ LET trk == ss.pages[step.i]
     IN \/ "merge" \notin trk.flags /\ KeepLeaf(trk)
        \/ "merge" \in trk.flags /\ Intact(trk) /\ ColBuildLeaf(trk, disk[trk.addr].cells)
  /\ UNCHANGED file

RowBuildInternal ==
  /\ At("build") /\ Row /\ Entry(step.i)
  /\ LET trk == ss.pages[step.i]
     IN \/ "merge" \notin trk.flags /\ KeepLeaf(trk)
        \/ "merge" \in trk.flags /\ Intact(trk) /\ RowBuildLeaf(trk, disk[trk.addr].cells)
  /\ UNCHANGED file

BuildSkip ==
  /\ At("build") /\ step.i <= Len(ss.pages) /\ ~Entry(step.i)
  /\ NextPage
  /\ UNCHANGED <<file, disk, ss, space, out>>

\* A page whose block was reused cannot be read: salvage fails.
BuildLost ==
  /\ At("build") /\ Entry(step.i) /\ "merge" \in ss.pages[step.i].flags
  /\ ~Intact(ss.pages[step.i])
  /\ EndEarly("lost", out)
  /\ UNCHANGED <<file, disk>>

\* Steps 8 and 9: the blocks of the pages written again are freed, the root is written.
Merged == {n \in DOMAIN ss.pages : Entry(n) /\ "merge" \in ss.pages[n].flags /\ "noblocks" \notin ss.pages[n].flags}
MergeBlockFree ==
  /\ At("build") /\ step.i > Len(ss.pages)
  /\ Free({ss.pages[n].addr : n \in Merged})
  /\ Goto("root")
  /\ UNCHANGED <<file, disk, ss>>

Finish ==
  /\ At("root")
  /\ \/ ss.root = <<>> /\ End("ok", out) /\ UNCHANGED <<disk, ss, space>>
     \/ /\ ss.root # <<>>
        /\ \E a \in Places(space) :
             \/ /\ WriteTo(a, [kind |-> "int", gen |-> ss.gen + 1, cells |-> <<>>])
                /\ space' = Taken(space, a)
                /\ End("ok", out) /\ UNCHANGED ss
             \/ WriteTo(a, Torn) /\ EndEarly("crash", out)
  /\ UNCHANGED file

\* Memory, a read or a write fails.
Fail ==
  /\ ~At("end")
  /\ EndEarly("error", out)
  /\ UNCHANGED <<file, disk>>

Next ==
  \/ SalvageNext \/ SlvgRead \/ ReadDone \/ OvflReconcile \/ OvflDiscard
  \/ ColRange \/ RowRange \/ SkipDiscarded \/ RangeDone
  \/ ColBuildInternal \/ RowBuildInternal \/ BuildSkip \/ BuildLost \/ MergeBlockFree \/ Finish
  \/ Fail

Spec == Init /\ [][Next]_vars
-----------------------------------------------------------------------------
\* What salvage is to find in a file d, stated without its steps.

Leaves(d) == {a \in DOMAIN d : IsLeaf(d[a])}
HasOverflow(d, a) ==
  LET os == Overflows(d[a].cells)
  IN Cardinality(ToSet(os)) = Len(os) /\ \A o \in ToSet(os) : o \in DOMAIN d /\ d[o].kind = "ovfl"
Shares(d, a, b) == ToSet(Overflows(d[a].cells)) \cap ToSet(Overflows(d[b].cells)) # {}

\* The leaf pages that have their overflow items to themselves, newer pages first.
Usable(d) ==
  CHOOSE U \in SUBSET Leaves(d) :
    \A a \in Leaves(d) :
      a \in U <=> HasOverflow(d, a) /\ \A b \in U : d[b].gen > d[a].gen => ~Shares(d, a, b)

KeyRange(cells) == cells[1].lo .. cells[Len(cells)].hi
Newer(d, as, a) == {b \in as : d[b].gen > d[a].gen}

\* The keys a page has that are in the range of no newer page, with their values.
Wanted(d) ==
  LET U == Usable(d)
  IN UNION {{<<k, c.val>> : k \in {l \in c.lo .. c.hi : \A b \in Newer(d, U, a) : l \notin KeyRange(d[b].cells)}}
              : <<a, c>> \in UNION {{a} \X ToSet(d[a].cells) : a \in U}}

\* The records of the tree salvage built that can be read.
Readable(c) == c.ovfl = 0 \/ disk[c.ovfl].kind = "ovfl"
Tree == UNION {UNION {{<<k, c.val>> : k \in c.lo .. c.hi} : c \in {d \in ToSet(disk[r.addr].cells) : Readable(d)}}
                 : r \in ToSet(ss.root)}

Salvaged == out.ret = "ok"
\* The review of the overflow items is skipped if the file has no overflow page at all.
Reviewed == \/ \E a \in Blocks : file.blocks[a].kind = "ovfl"
            \/ \A a \in Leaves(file.blocks) : Overflows(file.blocks[a].cells) = <<>>

\* The overflow items were reviewed, and no block was freed that is still needed: with an
\* entry split off another, or for an overflow item that is kept.
Judged == Reviewed /\ out.shared = {} /\ out.misfreed = {}
From(t, as) == t[2][1] \in as

\* The leaf pages of the tree salvage built are in key order, none is empty, each has
\* its first key in the root and ends before the next; in a column store they have
\* every record from 1 on (__slvg_row_build_leaf asserts that a page it writes has a
\* key left, __slvg_col_range_missing fills the gaps).
RangesDisjoint ==
  \A n \in DOMAIN ss.root :
    LET ks == Keys(disk[ss.root[n].addr].cells)
        next == IF n = Len(ss.root) THEN Max(ks) + 1 ELSE ss.root[n + 1].key
    IN /\ ks # {} /\ Min(ks) = ss.root[n].key /\ Max(ks) < next
       /\ Row \/ ((n = 1 => Min(ks) = 1) /\ next = Max(ks) + 1)

\* After a salvage the leaf pages have disjoint ranges, every key of a usable page that
\* no newer usable page has in its range is in the tree with its value and the overflow
\* item of it, and no key is there with the value of a page when a newer one has it:
\* __slvg_row_range_overlap and __slvg_col_range_overlap give each range to the page
\* with the highest generation.  Four things the code does break this, and are left out:
\* files with no overflow page left, which are not reviewed (bt_slvg.c:188); an entry
\* split off another that is discarded, with the block the two share (bt_slvg.c:2244); an
\* overflow item freed though it is kept, by the other half of a page that was split or
\* as the last record of a column-store page (bt_slvg.c:1244); and the records of a
\* column-store page cut inside a run (rec_write.c:1874).
NewestWins ==
  Salvaged /\ Judged =>
    /\ RangesDisjoint
    /\ \A t \in Wanted(file.blocks) : From(t, out.cut) \/ t \in Tree
    /\ \A t \in Tree : \/ t[2] = <<0, 0>> \/ From(t, out.cut)
                       \/ LET a == t[2][1]  U == Usable(file.blocks)
                          IN a \in U /\ \A b \in Newer(file.blocks, U, a) : t[1] \notin Keys(file.blocks[b].cells)

Referenced ==
  UNION {{r.addr} \union ToSet(Overflows(disk[r.addr].cells)) : r \in ToSet(ss.root)}
\* After a salvage every block the tree refers to is allocated, no other block is and
\* none was freed twice: what __slvg_ovfl_discard, __slvg_trk_free, the two merge_ovfl
\* functions and __slvg_merge_block_free free between them.  Left out is what NewestWins
\* leaves out, and for the unused blocks the pages of which a merge dropped an overflow
\* item and freed another, or the same one again: see DroppedItemsFreed.
BlocksSettled ==
  Salvaged /\ Judged =>
    /\ Referenced \subseteq space.alloc
    /\ out.repeated = {} => /\ ~out.twice
                            /\ \A a \in space.alloc \ Referenced : disk[a].kind = "int"

\* Wherever salvage fails, even in the middle of writing a block, a key it was to find is
\* still to be found in the file, unless it is on a page of which overflow items were
\* freed before it was written (bt_slvg.c:1165, 1816), that has such items and was split
\* (the next run gives them to the half that was written), whose block was freed with an
\* entry split off it, or that was cut inside a run of records; the other pages of the
\* file are safe.  The code's aim has no such exceptions: see RerunNeedsNothing.
RerunFindsAll ==
  Reviewed => \A t \in Wanted(file.blocks) :
                \/ From(t, out.early \union out.misfreed \union out.shared \union out.cut)
                \/ t \in Wanted(disk)

\* Every entry of the page array is a range of keys of its page, and a block is either
\* allocated or available: __slvg_trk_leaf, the overlap functions and __wt_bm_free.
TypeOK ==
  /\ out.ret \in {"none", "ok", "error", "crash", "formats", "lost"}
  /\ \A t \in ToSet(ss.pages) \ {NoTrack} :
       /\ t.addr \in Leaves(file.blocks) /\ t.start <= t.stop
       /\ t.flags \subseteq {"start", "stop", "merge", "noblocks"}
  /\ space.alloc \cap space.avail = {}

\* Three comments of the code that do not hold: on __slvg_col_range "We salvage all of
\* the key ranges we find, at the latest LSN value"; in __wt_bt_salvage "if the salvage run
\* fails, we don't want to overwrite data the next salvage run might need"; on
\* __slvg_row_merge_ovfl "Free file blocks referenced from keys discarded from merged pages".
SalvagesEveryRange == Salvaged => Wanted(file.blocks) \subseteq Tree
RerunNeedsNothing == Wanted(file.blocks) \subseteq Wanted(disk)
DroppedItemsFreed == Salvaged => space.alloc \cap DOMAIN file.blocks \subseteq Referenced
=============================================================================

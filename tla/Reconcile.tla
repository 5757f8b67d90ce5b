------------------------------ MODULE Reconcile ------------------------------
(***************************************************************************)
(* What reconciliation writes for one page (src/btree/rec_write.c): the    *)
(* chunks of the split machine, and the functions that feed it: row-store  *)
(* leaf and internal pages, fixed- and variable-length column-store pages, *)
(* bulk load and salvage.  A reconciliation is the value r, the fields of  *)
(* WT_RECONCILE the images depend on; every operator takes one and returns *)
(* the next.  A cell is a record: its type t, a count n (key prefix, run   *)
(* length or record number), its data d, its overflow or page address a    *)
(* (0: written by this reconciliation) and its length len.  Errors of the  *)
(* block manager are the business of PageBlocks.                           *)
(***************************************************************************)
EXTENDS Integers, SequencesExt

CONSTANTS VSize         \* [value -> bytes]; value 0 has no bytes

HDR == 1                \* WT_PAGE_HEADER_BYTE_SIZE
ADDR == 1               \* bytes of an address cookie
SMALL == 1              \* WT_INTPACK32_MAXSIZE
PFX_MAX == 2            \* UINT8_MAX: the longest prefix a key may leave out

DEL == -1               \* a deleted value
SKIP == -2              \* an update reconciliation cannot see
NONE == -3              \* no update, no value

Cell(t, n, d, a, len) == [t |-> t, n |-> n, d |-> d, a |-> a, len |-> len]
Bytes(cells) == FoldLeft(LAMBDA n, x : n + x.len, 0, cells)
Overflow(cell) == cell.t \in {"kovfl", "vovfl"}

-----------------------------------------------------------------------------
\* The split machine.

\* The configuration c gives the page sizes, the largest item, prefix and suffix
\* compression, the number of dictionary slots, and whether the reconciliation may
\* leave out updates it cannot see (WT_REC_SINGLE).
WT_RECONCILE ==
  [c |-> <<>>, type |-> "row", state |-> "boundary", split |-> 0, bnd |-> <<>>, next |-> 0,
   total |-> 0, recno |-> 0, entries |-> 0, buf |-> <<>>, avail |-> 0,
   pfx |-> FALSE, sfx |-> FALSE, cur |-> <<>>, last |-> <<>>, dict |-> <<>>,
   k |-> <<>>, v |-> <<>>, kovfl |-> FALSE, key |-> <<>>, zero |-> FALSE, merge |-> <<>>,
   ovfl |-> FALSE, skipped |-> FALSE, busy |-> FALSE, track |-> {}, out |-> <<>>]

SplitInit(c, type, recno) ==
  LET split == IF type = "fix" THEN c.page ELSE c.split
  IN [WT_RECONCILE EXCEPT !.c = c, !.type = type, !.recno = recno, !.split = split,
        !.avail = split - HDR,
        !.state = IF type = "fix" \/ c.page = c.split THEN "off" ELSE "boundary",
        !.bnd = <<[recno |-> recno, start |-> 0, entries |-> 0, key |-> <<>>]>>]

Row(r) == r.type \in {"row", "rowint"}
Leaf(r) == r.type \in {"row", "var", "fix"}

\* Only a leaf without overflow items may be discarded without being read.
Image(r, i, cells, entries) ==
  [recno |-> r.bnd[i].recno, entries |-> entries, cells |-> cells, lno |-> Leaf(r) /\ ~r.ovfl]

\* The byte that tells the promoted key from the last key of the page before it.
Differs(a, b) ==
  LET n == IF Len(a) < Len(b) THEN Len(a) ELSE Len(b)
      at == {i \in 1 .. n : a[i] # b[i]}
  IN IF at = {} THEN n + 1 ELSE CHOOSE i \in at : \A j \in at : i <= j

RowPromote(r) ==
  [r EXCEPT !.bnd = [i \in DOMAIN r.bnd |->
     [r.bnd[i] EXCEPT !.key =
        IF i = 1 /\ r.next = 1 THEN r.buf[1].d
        ELSE IF i # r.next + 1 THEN @
        ELSE SubSeq(r.cur, 1, IF r.type = "row" /\ r.sfx THEN Differs(r.last, r.cur)
                              ELSE Len(r.cur))]]]
Promote(r) == IF Row(r) THEN RowPromote(r) ELSE r

NextBoundary(r) ==
  Promote([r EXCEPT !.bnd = Append(@, [recno |-> r.recno, start |-> Len(r.buf),
                                       entries |-> 0, key |-> <<>>]),
                    !.next = @ + 1])

SpaceInPage(r, len) ==
  IF len + r.split <= r.c.page THEN [r EXCEPT !.avail = r.split - HDR]
  ELSE [r EXCEPT !.state = "max", !.avail = (r.c.page - HDR) - len]

SaveBoundary(r) ==
  SpaceInPage(NextBoundary([r EXCEPT !.bnd[r.next + 1].entries = r.entries - r.total,
                                     !.total = r.entries]),
              HDR + Bytes(r.buf))

\* The remnant of the chunks that are written moves to the start of the buffer.
Fixup(r, rest) ==
  [r EXCEPT !.out = [i \in 1 .. r.next |->
                       Image(r, i, SubSeq(r.buf, r.bnd[i].start + 1, r.bnd[i + 1].start),
                             r.bnd[i].entries)],
            !.buf = rest, !.entries = @ - r.total,
            !.avail = (r.split - HDR) - Bytes(rest), !.state = "off"]

WriteChunk(r) ==
  [NextBoundary(r) EXCEPT !.out = Append(@, Image(r, r.next + 1, r.buf, r.entries)),
                          !.entries = 0, !.buf = <<>>, !.avail = r.split - HDR]

SplitAs(r) ==
  CASE r.state = "boundary" -> SaveBoundary(r)
    [] r.state = "max" -> Fixup(r, SubSeq(r.buf, r.bnd[r.next + 1].start + 1, Len(r.buf)))
    [] r.state = "off" -> WriteChunk(r)
Split(r) == SplitAs([r EXCEPT !.dict = <<>>])

Finish(r) ==
  IF r.entries = 0 THEN r
  ELSE IF r.state = "off"
  THEN [r EXCEPT !.out = Append(@, Image(r, r.next + 1, r.buf, r.entries)), !.next = @ + 1]
  ELSE [r EXCEPT !.out = <<Image(r, 1, r.buf, r.entries)>>, !.next = 1]

-----------------------------------------------------------------------------
\* Cells.

\* An update is a value, DEL, or SKIP when this reconciliation cannot see it; unless it
\* is allowed to leave updates out it fails then, with EBUSY.
Read(r, upd) ==
  LET skipped == r.skipped \/ upd = SKIP
  IN [r EXCEPT !.skipped = skipped, !.busy = @ \/ (skipped /\ ~r.c.single)]
Seen(upd) == IF upd = SKIP THEN NONE ELSE upd

Keep(r, cell) == [r EXCEPT !.ovfl = @ \/ Overflow(cell)]

KeyCell(r, pfx, data) ==
  IF Len(data) > r.c.item THEN Cell("kovfl", 0, data, 0, 1 + ADDR)
  ELSE Cell("key", pfx, data, 0, 1 + Len(data))
SetKey(r, cell) == [Keep(r, cell) EXCEPT !.k = cell, !.kovfl = Overflow(cell)]

\* The whole key: overflow items are not prefix compressed.
BuildFull(r) == SetKey(r, KeyCell(r, 0, r.cur))

BuildPrefixed(r, pfx) ==
  IF Len(r.cur) - pfx > r.c.item THEN BuildFull(r)
  ELSE SetKey(r, KeyCell(r, pfx, SubSeq(r.cur, pfx + 1, Len(r.cur))))
Prefix(a, b) == Min({Differs(a, b) - 1, PFX_MAX})
BuildKey(r, key) ==
  BuildPrefixed([r EXCEPT !.cur = key, !.key = key], IF r.pfx THEN Prefix(r.last, key) ELSE 0)

ValCell(r, v, rle) ==
  IF VSize[v] > r.c.item THEN Cell("vovfl", rle, v, 0, 1 + ADDR)
  ELSE Cell("val", rle, v, 0, 1 + VSize[v])
SetVal(r, cell) == [Keep(r, cell) EXCEPT !.v = <<cell>>]
BuildVal(r, v, rle) == SetVal(r, ValCell(r, v, rle))
NoVal(r) == [r EXCEPT !.v = <<>>]
RowVal(r, v) == IF VSize[v] = 0 THEN NoVal(r) ELSE BuildVal(r, v, 0)

CopyIncr(r, cell) == [r EXCEPT !.buf = Append(@, cell), !.entries = @ + 1, !.avail = @ - cell.len]

\* The dictionary: the first cell of every value in this chunk, while slots last.
Matches(r, cell) == {i \in DOMAIN r.dict : cell.t = "val" /\ r.buf[r.dict[i]].d = cell.d
                                           /\ r.buf[r.dict[i]].t = "val"}
DictReplace(r, cell) ==
  IF cell.t = "val" /\ VSize[cell.d] <= SMALL THEN CopyIncr(r, cell)
  ELSE IF Matches(r, cell) # {}
  THEN CopyIncr(r, Cell("copy", cell.n,
                        Len(r.buf) + 1 - r.dict[CHOOSE i \in Matches(r, cell) : TRUE], 0, 2))
  ELSE IF Len(r.dict) < r.c.dict
  THEN CopyIncr([r EXCEPT !.dict = Append(@, Len(r.buf) + 1)], cell)
  ELSE CopyIncr(r, cell)
CopyVal(r, dictionary) ==
  IF r.v = <<>> THEN r
  ELSE IF dictionary /\ r.c.dict > 0 THEN DictReplace(r, r.v[1]) ELSE CopyIncr(r, r.v[1])

\* Mutant: an overflow key leaves suffix compression on.
KeyStateKept(r) ==
  IF r.kovfl THEN r
  ELSE [r EXCEPT !.last = r.cur, !.cur = r.last, !.pfx = r.c.pfx, !.sfx = r.c.sfx]

KeyStateUpdate(r) ==
  IF r.kovfl THEN [r EXCEPT !.sfx = FALSE]
  ELSE [r EXCEPT !.last = r.cur, !.cur = r.last, !.pfx = r.c.pfx, !.sfx = r.c.sfx]

-----------------------------------------------------------------------------
\* One item: boundary, split or write, then copy it onto the page.

\* Mutant: prefix compression goes on after a split.
SplitRowPrefixed(r) == Split([r EXCEPT !.cur = r.key])

\* A key copied from the page is instantiated before it is promoted.
SplitRow(r) == [Split([r EXCEPT !.cur = r.key]) EXCEPT !.pfx = FALSE]

RECURSIVE FitRow(_)
FitRow(r) ==
  IF r.k.len + Bytes(r.v) <= r.avail THEN r
  ELSE FitRow(IF r.kovfl THEN SplitRow(r) ELSE BuildFull(SplitRow(r)))

RECURSIVE FitVal(_)
FitVal(r) == IF r.v[1].len <= r.avail THEN r ELSE FitVal(Split(r))

WriteFitted(r, dictionary) == KeyStateUpdate(CopyVal(CopyIncr(r, r.k), dictionary))
WriteRow(r, dictionary) == WriteFitted(FitRow(r), dictionary)

\* Row-store and variable-length column-store bulk load; a row gets a value cell, be its
\* value empty.
RowBulkInsert(r, item) == WriteRow(BuildVal(BuildKey(r, item.key), item.v, 0), TRUE)
VarBulkInsert(r, item) ==
  [CopyVal(FitVal(BuildVal(r, item.v, item.n)), TRUE) EXCEPT !.recno = @ + item.n]
RowBulk(c, items) == Finish(FoldLeft(RowBulkInsert, SplitInit(c, "row", 0), items))
VarBulk(c, items) == Finish(FoldLeft(VarBulkInsert, SplitInit(c, "var", 1), items))

-----------------------------------------------------------------------------
\* Row-store leaf pages.  A row is its key cell k, the key, whether the key is
\* instantiated, its value cell v (or none) and value, its update and its inserts.

LeafInsert(r, ins) ==
  LET One(q, i) == IF Seen(i.upd) \in {NONE, DEL} THEN Read(q, i.upd)
                   ELSE WriteRow(BuildKey(RowVal(Read(q, i.upd), i.upd), i.key), TRUE)
  IN FoldLeft(One, r, ins)

\* An original that no update replaces is copied from the page; a copy cell is
\* built again, what it refers to might not be written.
OnPageVal(r, row) ==
  IF row.v = <<>> THEN NoVal(r)
  ELSE IF row.v[1].t = "copy" THEN BuildVal(r, row.val, 0)
  ELSE SetVal(r, row.v[1])

Tracked(r, cells) == [r EXCEPT !.track = @ \union {x.a : x \in {y \in ToSet(cells) : Overflow(y)}}]

\* Mutant: the tracking list is not searched.
AnyOverflow(r, cell) == Overflow(cell)

\* An on-page overflow key is reused until its blocks are tracked for discard.
Reusable(r, cell) == Overflow(cell) /\ cell.a \notin r.track

\* The full key of a row, given the key before it as far as it is known.
LeafKey(row, tmp) ==
  IF row.ikey \/ Overflow(row.k) THEN row.key
  ELSE IF row.k.n = 0 THEN row.k.d
  ELSE IF Len(tmp) >= row.k.n THEN SubSeq(tmp, 1, row.k.n) \o row.k.d
  ELSE row.key

RowKey(st, row, full) ==
  IF Reusable(st.r, row.k) THEN [st EXCEPT !.r = [SetKey(st.r, row.k) EXCEPT !.key = row.key],
                                           !.tmp = <<>>]
  ELSE [st EXCEPT !.r = BuildKey(st.r, full), !.tmp = full]

WriteLeaf(st, dictionary) == [st EXCEPT !.r = WriteRow(st.r, dictionary)]

\* The row itself: deleted, updated or as it was.
LeafRow(st, row) ==
  LET upd == Seen(row.upd)
      r == Read(st.r, row.upd)
  IN IF upd = NONE
     THEN WriteLeaf(RowKey([st EXCEPT !.r = OnPageVal(r, row)], row, LeafKey(row, st.tmp)),
                    row.v # <<>> /\ row.v[1].t = "copy")
     ELSE IF upd = DEL
     THEN [r |-> Tracked(r, row.v \o <<row.k>>), tmp |-> <<>>]
     ELSE WriteLeaf(RowKey([st EXCEPT !.r = RowVal(Tracked(r, row.v), upd)], row,
                           LeafKey(row, st.tmp)),
                    TRUE)
LeafSlot(st, row) == LET after == LeafRow(st, row) IN [after EXCEPT !.r = LeafInsert(@, row.ins)]

\* The rows of the page after those salvage skips; tracked: overflow items discarded
\* by an earlier reconciliation.
RowLeaf(c, page, skip, tracked) ==
  Finish(FoldLeft(LeafSlot,
                  [r |-> LeafInsert([SplitInit(c, "row", 0) EXCEPT !.track = tracked], page.ins),
                   tmp |-> <<>>],
                  SubSeq(page.rows, skip + 1, Len(page.rows))).r)

-----------------------------------------------------------------------------
\* Fixed-length column-store pages: a record is one byte.

FixCells(vals) == [i \in DOMAIN vals |-> Cell("fix", 1, vals[i], 0, 1)]
FixIncr(r, vals) ==
  [r EXCEPT !.buf = @ \o FixCells(vals), !.entries = @ + Len(vals), !.avail = @ - Len(vals)]

\* Append v at record n; the records before it that were never set are zero.
RECURSIVE FixAppend(_, _, _)
FixAppend(st, n, v) ==
  IF Len(st.vals) = st.r.avail
  THEN FixAppend([r |-> Split(FixIncr(st.r, st.vals)), vals |-> <<>>], n, v)
  ELSE IF st.r.recno < n
  THEN FixAppend([r |-> [st.r EXCEPT !.recno = @ + 1], vals |-> Append(st.vals, 0)], n, v)
  ELSE [r |-> [st.r EXCEPT !.recno = @ + 1], vals |-> Append(st.vals, v)]

FixAppendOne(st, i) ==
  IF i.upd = SKIP THEN [st EXCEPT !.r = Read(@, SKIP)] ELSE FixAppend(st, i.recno, i.upd)

FixFinish(st) == Finish(FixIncr(st.r, st.vals))

\* The page [recno, vals] with its updates applied in place, then its append list.
ColFix(c, page) ==
  LET SetV(st, i) == IF i.upd = SKIP THEN [st EXCEPT !.r = Read(@, SKIP)]
                     ELSE [st EXCEPT !.vals[i.recno - page.recno + 1] = i.upd]
      onpage == FoldLeft(SetV, [r |-> SplitInit(c, "fix", page.recno), vals |-> page.vals], page.ins)
  IN FixFinish(FoldLeft(FixAppendOne, [onpage EXCEPT !.r.recno = @ + Len(page.vals)], page.app))

\* Bulk load splits only when there is another record to write.
FixBulkCheck(st) ==
  IF Len(st.vals) = st.r.avail THEN [r |-> Split(FixIncr(st.r, st.vals)), vals |-> <<>>] ELSE st
FixBulkPut(st, vals) == [r |-> [st.r EXCEPT !.recno = @ + Len(vals)], vals |-> st.vals \o vals]

\* The records of a bitmap are copied as far as the page has room (a record is a byte: a
\* bitmap always starts on one).
RECURSIVE FixBulkBitmap(_, _)
FixBulkBitmap(st, vals) ==
  LET s == FixBulkCheck(st)
      n == Min({Len(vals), s.r.avail - Len(s.vals)})
  IN IF vals = <<>> THEN st
     ELSE FixBulkBitmap(FixBulkPut(s, SubSeq(vals, 1, n)), SubSeq(vals, n + 1, Len(vals)))

\* item: a value, or a bitmap.
FixBulkInsert(st, item) ==
  IF item.bitmap THEN FixBulkBitmap(st, item.vals) ELSE FixBulkPut(FixBulkCheck(st), item.vals)
FixBulk(c, items) ==
  FixFinish(FoldLeft(FixBulkInsert, [r |-> SplitInit(c, "fix", 1), vals |-> <<>>], items))

\* Salvage: missing records are zero, then the part of the page that is taken.
RECURSIVE FixTake(_, _)
FixTake(r, vals) ==
  LET n == IF Len(vals) < r.avail THEN Len(vals) ELSE r.avail
      q == [FixIncr(r, SubSeq(vals, 1, n)) EXCEPT !.recno = @ + n]
  IN IF n = Len(vals) THEN q ELSE FixTake(Split(q), SubSeq(vals, n + 1, Len(vals)))
ColFixSlvg(c, page, sv) ==
  LET take == IF sv.take = 0 THEN Len(page.vals) ELSE sv.take
  IN Finish(FixTake(SplitInit(c, "fix", page.recno),
                    [i \in 1 .. sv.missing |-> 0] \o SubSeq(page.vals, sv.skip + 1, sv.skip + take)))

-----------------------------------------------------------------------------
\* Variable-length column-store pages.  A page is its first record number, its
\* cells, the updates of its records and its append list.

NoSalvage == [on |-> FALSE, skip |-> 0, take |-> 0, missing |-> 0, done |-> FALSE]

\* What is left of a run after the records salvage does not take: its length n,
\* 0 when nothing is written.  A run that is skipped in part is not shortened: the code
\* subtracts what is to be skipped after setting it to zero.
SlvgTake(sv, rle) ==
  IF sv.take = 0 THEN [sv |-> sv, n |-> rle]
  ELSE IF rle < sv.take THEN [sv |-> [sv EXCEPT !.take = @ - rle], n |-> rle]
  ELSE [sv |-> [sv EXCEPT !.take = 0, !.done = TRUE], n |-> sv.take]
SlvgTrim(sv, rle) ==
  IF ~sv.on THEN [sv |-> sv, n |-> rle]
  ELSE IF sv.done THEN [sv |-> sv, n |-> 0]
  ELSE IF sv.skip > 0 /\ rle <= sv.skip THEN [sv |-> [sv EXCEPT !.skip = @ - rle], n |-> 0]
  ELSE SlvgTake([sv EXCEPT !.skip = 0], rle)

RunVal(r, run, n) ==
  IF run.v = DEL THEN SetVal(r, Cell("del", n, 0, 0, 1))
  ELSE IF run.a # 0 THEN SetVal(r, Cell("vovfl", n, run.v, run.a, 1 + ADDR))
  ELSE BuildVal(r, run.v, n)
WriteRun(r, run, n) ==
  IF n = 0 THEN r
  ELSE [CopyVal(FitVal(RunVal(r, run, n)), run.v # DEL /\ run.a = 0) EXCEPT !.recno = @ + n]

\* run: a value, the address of the overflow item it still is (or 0), a length.
Helper(st, run) ==
  LET trim == SlvgTrim(st.sv, run.n)
  IN [st EXCEPT !.r = WriteRun(st.r, run, trim.n), !.sv = trim.sv]
Flush(st) == IF st.last.n = 0 THEN st ELSE Helper([st EXCEPT !.last.n = 0], st.last)

Track(st, v, n) ==
  IF st.last.n # 0 /\ st.last.v = v THEN [st EXCEPT !.last.n = @ + n]
  ELSE [Flush(st) EXCEPT !.last = [v |-> v, a |-> 0, n |-> n]]

\* A copy cell is read as the cell it refers to, with a length of its own.
Unpack(cells, i) ==
  IF cells[i].t = "copy" THEN [cells[i - cells[i].d] EXCEPT !.n = cells[i].n] ELSE cells[i]

\* The records of one cell: runs that no update touches, and updated records.  The
\* overflow item itself is used once, further uses write another copy.
RECURSIVE CellRecords(_, _, _, _)
CellRecords(st, cell, n, ins) ==
  LET upd == IF ins # <<>> /\ ins[1].recno = st.src THEN ins[1].upd ELSE NONE
      rest == IF upd = NONE THEN ins ELSE Tail(ins)
      count == IF Seen(upd) # NONE THEN 1 ELSE IF rest = <<>> THEN n ELSE rest[1].recno - st.src
      v == IF Seen(upd) # NONE THEN upd ELSE IF cell.t = "del" THEN DEL ELSE cell.d
      unused == Seen(upd) = NONE /\ cell.t = "vovfl" /\ ~st.used
      q == [st EXCEPT !.src = @ + count, !.r = Read(@, upd)]
  IN IF n = 0 THEN st
     ELSE CellRecords(IF unused
                      THEN [Helper(Flush(q), [v |-> v, a |-> cell.a, n |-> count]) EXCEPT !.used = TRUE]
                      ELSE Track(q, v, count),
                      cell, n - count, rest)

VarCell(st, cell, ins) ==
  LET done == CellRecords([st EXCEPT !.used = FALSE], cell, cell.n,
                          SelectSeq(ins, LAMBDA i : i.recno >= st.src /\ i.recno < st.src + cell.n))
  IN IF done.used THEN done ELSE [done EXCEPT !.r = Tracked(@, <<cell>>)]

\* Records an append skipped are deleted.
VarAppend(st, i) ==
  LET gap == IF i.recno > st.src THEN Track(st, DEL, i.recno - st.src) ELSE st
  IN IF i.upd = SKIP THEN [st EXCEPT !.r = Read(@, SKIP)]
     ELSE [Track(gap, i.upd, 1) EXCEPT !.src = i.recno + 1]

ColVar(c, page, sv) ==
  LET r0 == SplitInit(c, "var", page.recno)
      r1 == IF sv.missing = 0 THEN r0 ELSE WriteRun(r0, [v |-> DEL, a |-> 0, n |-> 0], sv.missing)
      cells == FoldLeft(LAMBDA st, cell : VarCell(st, cell, page.ins),
                        [r |-> r1, sv |-> sv, src |-> r1.recno, used |-> FALSE,
                         last |-> [v |-> DEL, a |-> 0, n |-> 0]],
                        [i \in DOMAIN page.cells |-> Unpack(page.cells, i)])
  IN Finish(Flush(FoldLeft(VarAppend, cells, page.app)).r)

-----------------------------------------------------------------------------
\* Internal pages.  A ref is its key (or record number), the cell of the key when it
\* is on the page, the state of the child and the address cell of the child; the
\* children of a split page are merged in its place.

\* A child deleted without being read: its deletion is not visible, visible but
\* not to all, or its block is gone.
AddrCell(ref, n) == Cell(IF ref.st = "proxy" THEN "adel" ELSE IF ref.lno THEN "alno" ELSE "addr",
                         n, ref.id, ref.id, 1 + ADDR)
SkipDeleted(r, ref) == [r EXCEPT !.skipped = @ \/ ref.st = "hidden"]

\* The 0th key of the page is never used and is truncated to a byte.
IntKey(r, key) == BuildKey(r, IF r.zero THEN SubSeq(key, 1, 1) ELSE key)
WriteRef(r) == WriteRow([r EXCEPT !.zero = FALSE], FALSE)
PutRef(r, ref, key) == WriteRef(IntKey(SetVal(SkipDeleted(r, ref), AddrCell(ref, 0)), key))

\* Merged pages: the first key written is the key of the parent that is merged.
RECURSIVE RowMerge(_, _)
RowMerge(r, refs) ==
  IF refs = <<>> THEN r
  ELSE LET ref == refs[1]
       IN RowMerge(
            IF ref.st \in {"gone", "empty"} THEN r
            ELSE IF ref.st = "split"
            THEN RowMerge(IF r.merge = <<>> THEN [r EXCEPT !.merge = ref.key] ELSE r, ref.kids)
            ELSE PutRef([r EXCEPT !.merge = <<>>], ref, IF r.merge = <<>> THEN ref.key ELSE r.merge),
            Tail(refs))

\* Mutant: a merged page keeps its own first key.
RowIntOwnKey(r, ref) ==
  IF ref.st \in {"gone", "empty"} THEN Tracked(r, ref.k)
  ELSE IF ref.st = "split" THEN RowMerge(Tracked(r, ref.k), ref.kids)
  ELSE PutRef(r, ref, ref.key)

RowIntRef(r, ref) ==
  IF ref.st \in {"gone", "empty"} THEN Tracked(r, ref.k)
  ELSE IF ref.st = "split"
  THEN RowMerge([Tracked(r, ref.k) EXCEPT !.merge = ref.key], ref.kids)
  ELSE IF ref.k # <<>> /\ Reusable(r, ref.k[1])
  THEN WriteRef([SetKey(SetVal(SkipDeleted(r, ref), AddrCell(ref, 0)), ref.k[1]) EXCEPT !.key = ref.key])
  ELSE PutRef(r, ref, ref.key)

RowInt(c, refs) ==
  Finish(FoldLeft(RowIntRef, [SplitInit(c, "rowint", 0) EXCEPT !.zero = TRUE], refs))

RECURSIVE ColMerge(_, _)
ColMerge(r, refs) ==
  IF refs = <<>> THEN r
  ELSE LET ref == refs[1]
           q == [r EXCEPT !.recno = ref.recno]
       IN ColMerge(
            IF ref.st = "empty" THEN q
            ELSE IF ref.st = "split" THEN ColMerge(q, ref.kids)
            ELSE CopyVal(FitVal(SetVal(q, AddrCell(ref, ref.recno))), FALSE),
            Tail(refs))
ColInt(c, recno, refs) == Finish(ColMerge(SplitInit(c, "colint", recno), refs))

\* __wt_rec_write: nothing of a reconciliation that failed is used.
RecWrite(r) == IF r.busy THEN [r EXCEPT !.out = <<>>, !.next = 0] ELSE r

=============================================================================

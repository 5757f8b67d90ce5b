------------------------------ MODULE PageBlocks ------------------------------
(***************************************************************************)
(* The blocks of a leaf page that is reconciled again and again            *)
(* (btree/rec_track.c, the wrap up of btree/rec_write.c) and the readers   *)
(* of its overflow items (btree/bt_ovfl.c, row_key.c).                     *)
(*                                                                         *)
(* The page is one row with an overflow key and an overflow value, or one  *)
(* or two records of a variable-length column store that share an overflow *)
(* value.  Updates are committed at once and numbered in that order; a     *)
(* snapshot is the number of the last update it sees.  A checkpoint takes  *)
(* its snapshot before it visits any page: it writes what the snapshot     *)
(* sees, with readers and updates going on, and skips what was committed   *)
(* since, before or after it comes to the page.  An eviction locks the     *)
(* page, writes what everybody sees, gives up when anything else is on it, *)
(* and discards it.  A reconciliation may fail before any of its writes;   *)
(* another thread may be given a block as soon as it is freed.             *)
(***************************************************************************)
EXTENDS Integers, Sequences, FiniteSetsExt, SequencesExt

CONSTANTS Blocks,      \* the blocks of the file: 1 .. n
          Readers,
          Setups       \* the pages and the work done on them: the kind ("row", "col1"
                       \* or "col2"), the values written ("big", "small", "del"), the
                       \* readers' isolation ("snapshot", "uncommitted"), what they read
                       \* ("val", "key") and the bounds on updates committed, max, and on
                       \* reconciliations started, recs

VARIABLES setup,
          disk,        \* [block -> what was written there, or "free"]
          page,        \* the page in memory: its cells and the block it was read from
          upds,        \* [record -> WT_UPDATE list, newest first]
          hist,        \* every update in the order of commit
          track,       \* WT_PAGE_MODIFY.track: the list of tracked objects
          res,         \* WT_PAGE_MODIFY: the result of the last reconciliation
          rec,         \* WT_RECONCILE of the one running
          ckpt,        \* WT_TXN of the checkpoint, and whether it has still to visit the page
          rd,          \* [reader -> its snapshot and where it is]
          runs,        \* reconciliations started
          freed2       \* a block was freed twice

vars == <<setup, disk, page, upds, hist, track, res, rec, ckpt, rd, runs, freed2>>

Row == setup.kind = "row"
Recs == DOMAIN upds
Big == {"orig", "big"}       \* the data of overflow values
NONE == [id |-> -1, val |-> "none"]
Plain(v) == [t |-> "plain", addr |-> 0, data |-> v]
Ovfl(a, v) == [t |-> "ovfl", addr |-> a, data |-> v]

FreeBlocks == {b \in Blocks : disk[b] = "free"}
Release(d, bs) == [b \in Blocks |-> IF b \in ToSet(bs) THEN "free" ELSE d[b]]
Twice(d, bs) == Cardinality(ToSet(bs)) < Len(bs) \/ \E b \in ToSet(bs) : d[b] = "free"

-----------------------------------------------------------------------------
\* Visibility.  The oldest snapshot in the global table: that of an eviction is not
\* there (__wt_txn_get_evict_snapshot).
Oldest == Min({Len(hist)} \union {rd[r].snap : r \in {q \in Readers : rd[q].iso = "snapshot"}}
                \union (IF ckpt.on THEN {ckpt.snap} ELSE {}))
FirstSeen(list, snap) ==
  LET seen == {i \in DOMAIN list : list[i].id <= snap}
  IN IF seen = {} THEN NONE ELSE list[Min(seen)]
Skips(list, snap) == list # <<>> /\ list[1].id > snap

\* __wt_update_obsolete_check: nothing is read past an update everybody can see.
Obsolete(list, oldest) ==
  LET all == {i \in DOMAIN list : list[i].id <= oldest}
  IN IF all = {} THEN list ELSE SubSeq(list, 1, Min(all))

\* WT_REF_LOCKED: an eviction has the page to itself.
Locked == rec.step # "off" /\ ~rec.single

Update(r, v) ==
  /\ Len(hist) < setup.max /\ ~Locked
  /\ hist' = Append(hist, [rec |-> r, val |-> v])
  /\ upds' = [upds EXCEPT ![r] = <<[id |-> Len(hist) + 1, val |-> v]>> \o Obsolete(@, Oldest)]
  /\ page' = [page EXCEPT !.gen = @ + 1]
  /\ UNCHANGED <<disk, track, res, rec, ckpt, rd, runs, freed2>>

-----------------------------------------------------------------------------
\* The list of tracked objects.
Entry(a, d, flags) == [addr |-> a, data |-> d, flags |-> flags]
Has(e, flag) == flag \in e.flags
TrackAdd(t, a, d, flags) ==
  Append(t, Entry(a, d, flags \union (IF "OVFL_VALUE" \in flags THEN {} ELSE {"JUST_ADDED"})))
OnPage(t, a) == \E e \in ToSet(t) : e.addr = a /\ Has(e, "ONPAGE") /\ ~Has(e, "OVFL_VALUE")
TrackOnPage(t, a) == IF OnPage(t, a) THEN t ELSE TrackAdd(t, a, "none", {"ONPAGE"})
CachedAt(t, a) == {e \in ToSet(t) : Has(e, "OVFL_VALUE") /\ e.addr = a}
Reusable(t, d) ==
  {i \in DOMAIN t : t[i].data = d /\ t[i].flags \intersect {"DISCARD", "INUSE", "OVFL_VALUE"} = {}}

\* __wt_rec_track_wrapup: what is not in use is freed, and forgotten unless it is
\* named on the page.
Unneeded(e) == e.flags \intersect {"OVFL_VALUE", "DISCARD", "INUSE"} = {}
Addrs(t, Test(_)) == LET s == SelectSeq(t, Test) IN [i \in DOMAIN s |-> s[i].addr]
WrapupFrees(t) == Addrs(t, Unneeded)
WrapupFlags(e) == IF Unneeded(e) THEN (e.flags \ {"JUST_ADDED"}) \union {"DISCARD"}
                  ELSE IF e.flags \intersect {"OVFL_VALUE", "DISCARD"} # {} THEN e.flags
                  ELSE e.flags \ {"JUST_ADDED", "INUSE"}
\* A mutant: an object named on the page is forgotten as well.
WrappedForgets(t) ==
  LET Kept(e) == ~Unneeded(e)
      s == SelectSeq(t, Kept)
  IN [i \in DOMAIN s |-> [s[i] EXCEPT !.flags = WrapupFlags(s[i])]]
Wrapped(t) ==
  LET Kept(e) == ~Unneeded(e) \/ Has(e, "ONPAGE")
      s == SelectSeq(t, Kept)
  IN [i \in DOMAIN s |-> [s[i] EXCEPT !.flags = WrapupFlags(s[i])]]

\* __wt_rec_track_wrapup_err: only blocks this reconciliation wrote are freed.
ErrFrees(t) ==
  LET New(e) == Has(e, "JUST_ADDED") /\ Has(e, "INUSE") IN Addrs(t, New)
ErrWrapped(t) ==
  LET Old(e) == ~Has(e, "JUST_ADDED")
      s == SelectSeq(t, Old)
  IN [i \in DOMAIN s |-> [s[i] EXCEPT !.flags = @ \ {"INUSE"}]]

-----------------------------------------------------------------------------
\* Reconciliation.  Only a dirty page is written.
Rest == [step |-> "off", single |-> FALSE, snap |-> 0, oldest |-> 0, gen |-> 0, skipped |-> FALSE,
         sees |-> [r \in {} |-> NONE], cells |-> <<>>, key |-> 0, bnd |-> <<>>, left |-> 0]
RecStart(single, snap, oldest) ==
  /\ rec.step = "off" /\ runs < setup.recs /\ page.gen # page.disk
  /\ rec' = [Rest EXCEPT !.step = "read", !.single = single, !.gen = page.gen,
                         !.snap = snap, !.oldest = oldest]
  /\ runs' = runs + 1

\* __wt_txn_checkpoint begins a transaction with snapshot isolation, then has every
\* dirty page of the tree written, once; it ends when all are, or one fails.
NoCkpt == [on |-> FALSE, snap |-> 0, oldest |-> 0, todo |-> FALSE]
CkptBegin ==
  /\ ~ckpt.on /\ runs < setup.recs
  /\ ckpt' = [on |-> TRUE, snap |-> Len(hist), oldest |-> Oldest, todo |-> TRUE]
  /\ UNCHANGED <<disk, page, upds, hist, track, res, rec, rd, runs, freed2>>
CkptVisit ==
  /\ ckpt.todo /\ RecStart(TRUE, ckpt.snap, ckpt.oldest)
  /\ ckpt' = [ckpt EXCEPT !.todo = FALSE]
  /\ UNCHANGED <<disk, page, upds, hist, track, res, rd, freed2>>
CkptEnd ==
  /\ ckpt.on /\ ~rec.single
  /\ ckpt' = NoCkpt
  /\ UNCHANGED <<disk, page, upds, hist, track, res, rec, rd, runs, freed2>>

\* __rec_review: a dirty page is written once nobody else is in it.
InPage(r) == rd[r].at # "out"
EvictStart ==
  /\ \A r \in Readers : ~InPage(r)
  /\ RecStart(FALSE, Oldest, Oldest)
  /\ UNCHANGED <<disk, page, upds, hist, track, res, ckpt, rd, freed2>>

\* __rec_txn_read for every record; the first update skipped fails an eviction.
RecRead ==
  /\ rec.step = "read"
  /\ rec.single \/ \A r \in Recs : ~Skips(upds[r], rec.snap)
  /\ rec' = [rec EXCEPT !.step = "cache",
                        !.skipped = \E r \in Recs : Skips(upds[r], rec.snap),
                        !.sees = [r \in Recs |-> FirstSeen(upds[r], rec.snap)],
                        !.cells = page.cell]
  /\ UNCHANGED <<disk, page, upds, hist, track, res, ckpt, rd, runs, freed2>>

Sharing(a) == {r \in Recs : page.cell[r].t = "ovfl" /\ page.cell[r].addr = a}
\* The overflow values of the page no record is written with any more.
Unused == {a \in Blocks : Sharing(a) # {} /\ \A r \in Sharing(a) : rec.sees[r] # NONE}

\* __ovfl_cache_row_visible, __ovfl_cache_col_visible.
\* A mutant: an update of one of the records is enough.
VisibleToAllShared(a) ==
  IF Row THEN \E i \in DOMAIN upds[1] : upds[1][i].id <= rec.oldest
  ELSE \E r \in Sharing(a) : rec.sees[r].id <= rec.oldest
VisibleToAll(a) ==
  IF Row THEN \E i \in DOMAIN upds[1] : upds[1][i].id <= rec.oldest
  ELSE \E r \in Recs : Sharing(a) = {r} /\ rec.sees[r].id <= rec.oldest

\* __wt_rec_track_onpage_addr and __wt_val_ovfl_cache, with the write lock: the
\* value goes to the end of the row's updates or to the list of tracked objects,
\* and the cell is reset whether or not it was cached.
CacheRow(a) ==
  /\ upds' = [upds EXCEPT ![1] = Append(@, [id |-> 0, val |-> disk[a]])]
  /\ track' = TrackOnPage(track, a)
CacheCol(a) ==
  /\ track' = TrackAdd(TrackOnPage(track, a), a, disk[a], {"ONPAGE", "OVFL_VALUE"})
  /\ UNCHANGED upds
CacheNothing(a) ==
  /\ track' = TrackOnPage(track, a)
  /\ UNCHANGED upds
ValOvflCache(a) ==
  /\ page' = [page EXCEPT !.rm = @ \union {a}]
  /\ \/ (a \in page.rm \/ VisibleToAll(a)) /\ CacheNothing(a)
     \/ a \notin page.rm /\ ~VisibleToAll(a) /\ Row /\ CacheRow(a)
     \/ a \notin page.rm /\ ~VisibleToAll(a) /\ ~Row /\ CacheCol(a)
Uncached == {a \in Unused : \E r \in Sharing(a) : rec.cells[r] = page.cell[r]}
RecCache ==
  /\ rec.step = "cache"
  /\ \/ /\ Uncached # {}
        /\ ValOvflCache(Min(Uncached))
        /\ rec' = [rec EXCEPT !.cells = [r \in Recs |-> IF r \in Sharing(Min(Uncached))
                                                        THEN Plain("none") ELSE @[r]]]
     \/ /\ Uncached = {} /\ rec' = [rec EXCEPT !.step = "val"]
        /\ UNCHANGED <<page, upds, track>>
  /\ UNCHANGED <<disk, hist, res, ckpt, rd, runs, freed2>>

\* __rec_cell_build_ovfl: the item is in the file already, at a, or is written there.
BuildOvfl(data, a) ==
  \/ \E i \in Reusable(track, data) :
       /\ i = Min(Reusable(track, data)) /\ track[i].addr = a
       /\ track' = [track EXCEPT ![i].flags = @ \union {"INUSE"}]
       /\ UNCHANGED disk
  \/ /\ Reusable(track, data) = {} /\ a = Min(FreeBlocks)
     /\ disk' = [disk EXCEPT ![a] = data]
     /\ track' = TrackAdd(track, a, data, {"INUSE"})

\* The next record to be written with an update; adjacent records with the same
\* value are one cell.
ToBuild == {r \in Recs : rec.sees[r] # NONE}
Alike(r) == {q \in ToBuild : rec.sees[q].val = rec.sees[r].val}
PutCell(rs, c) == rec' = [rec EXCEPT !.cells = [q \in Recs |-> IF q \in rs THEN c ELSE @[q]],
                                     !.sees = [q \in Recs |-> IF q \in rs THEN NONE ELSE @[q]]]
BuildVal(r, v) ==
  \/ v \in Big /\ \E a \in Blocks : BuildOvfl(v, a) /\ PutCell(Alike(r), Ovfl(a, v))
  \/ v \notin Big /\ PutCell(Alike(r), Plain(v)) /\ UNCHANGED <<disk, track>>
RecVal ==
  /\ rec.step = "val"
  /\ \/ ToBuild # {} /\ BuildVal(Min(ToBuild), rec.sees[Min(ToBuild)].val)
     \/ ToBuild = {} /\ rec' = [rec EXCEPT !.step = "key"] /\ UNCHANGED <<disk, track>>
  /\ UNCHANGED <<page, upds, hist, res, ckpt, rd, runs, freed2>>

\* The key of a deleted row is instantiated and its blocks discarded; a row written
\* after that needs new ones.
Deleted == Row /\ rec.cells[1].data = "del"
KeyOnPage == page.key # 0 /\ ~OnPage(track, page.key)
DiscardKey ==
  /\ page' = [page EXCEPT !.ikey = TRUE]
  /\ track' = TrackOnPage(track, page.key)
PutKey(k) == rec' = [rec EXCEPT !.step = "image", !.key = k, !.left = IF Deleted THEN 0 ELSE 1]
BuildKey ==
  \/ KeyOnPage /\ PutKey(page.key) /\ UNCHANGED <<disk, track>>
  \/ ~KeyOnPage /\ \E a \in Blocks : BuildOvfl("key", a) /\ PutKey(a)
RecKey ==
  /\ rec.step = "key"
  /\ \/ ~Row /\ PutKey(0) /\ UNCHANGED <<disk, track, page>>
     \/ Deleted /\ page.key = 0 /\ PutKey(0) /\ UNCHANGED <<disk, track, page>>
     \/ Deleted /\ page.key # 0 /\ PutKey(0) /\ DiscardKey /\ UNCHANGED disk
     \/ Row /\ ~Deleted /\ BuildKey /\ UNCHANGED page
  /\ UNCHANGED <<upds, hist, res, ckpt, rd, runs, freed2>>

\* __rec_split_write: at least one image if there is anything to write, at most two.
RecImage ==
  /\ rec.step = "image" /\ Len(rec.bnd) < 2
  /\ \E b \in FreeBlocks :
       /\ b = Min(FreeBlocks)
       /\ disk' = [disk EXCEPT ![b] = "page"]
       /\ rec' = [rec EXCEPT !.bnd = Append(@, b), !.left = 0]
  /\ UNCHANGED <<page, upds, hist, track, res, ckpt, rd, runs, freed2>>

\* __rec_write_wrapup: the objects of the previous result are discarded.
Previous(t) == IF res.mask = "none" THEN TrackOnPage(t, page.addr)
               ELSE IF res.mask = "replace" THEN TrackAdd(t, res.addrs[1], "none", {})
               ELSE t
\* A mutant: the images of a split page are left in the file.
PreviousKept == <<>>
PreviousSplit == IF res.mask = "split" THEN res.addrs ELSE <<>>
NewResult == [mask |-> <<"empty", "replace", "split">>[Len(rec.bnd) + 1],
              addrs |-> rec.bnd, cells |-> rec.cells, key |-> rec.key]
\* A mutant: an update that was skipped is forgotten.
DiskGenAnyway == rec.gen
DiskGen == IF rec.skipped THEN page.disk ELSE rec.gen
RecWrapup ==
  /\ rec.step = "image" /\ rec.left = 0
  /\ LET frees == PreviousSplit \o WrapupFrees(Previous(track))
     IN /\ disk' = Release(disk, frees)
        /\ freed2' = (freed2 \/ Twice(disk, frees))
  /\ track' = Wrapped(Previous(track))
  /\ res' = NewResult
  /\ page' = [page EXCEPT !.disk = DiskGen]
  /\ rec' = IF rec.single THEN Rest ELSE [Rest EXCEPT !.step = "done"]
  /\ UNCHANGED <<upds, hist, ckpt, rd, runs>>

\* A read or a write that fails: __rec_write_wrapup_err.
RecUndo ==
  /\ LET frees == ErrFrees(track) \o rec.bnd
     IN /\ disk' = Release(disk, frees)
        /\ freed2' = (freed2 \/ Twice(disk, frees))
  /\ track' = ErrWrapped(track)
  /\ rec' = Rest
RecFail ==
  /\ rec.step \notin {"off", "done"} /\ RecUndo
  /\ UNCHANGED <<page, upds, hist, res, ckpt, rd, runs>>
\* An eviction that would skip an update gives up and trims the lists
\* (__wt_row_leaf_obsolete, __wt_col_leaf_obsolete), with a new snapshot where it may.
RecBusy ==
  /\ rec.step = "read" /\ ~rec.single /\ \E r \in Recs : Skips(upds[r], rec.snap)
  /\ RecUndo
  /\ \E oldest \in {rec.oldest, Oldest} : upds' = [r \in Recs |-> Obsolete(upds[r], oldest)]
  /\ UNCHANGED <<page, hist, res, ckpt, rd, runs>>

\* A page that is clean is discarded, at once or when its eviction has written it, and
\* read again from its image; one that is empty stays.  A page that was split leaves
\* the model for good.
EvictEmpty ==
  /\ rec.step = "done" /\ res.mask = "empty"
  /\ rec' = Rest
  /\ UNCHANGED <<disk, page, upds, hist, track, res, ckpt, rd, runs, freed2>>
Evict ==
  /\ res.mask \in {"none", "replace"}
  /\ \/ rec.step = "done"
     \/ rec.step = "off" /\ page.gen = page.disk /\ \A r \in Readers : ~InPage(r)
  /\ page' = [page EXCEPT !.cell = res.cells, !.key = res.key, !.ikey = FALSE, !.rm = {},
                          !.addr = res.addrs[1], !.gen = 0, !.disk = 0]
  /\ upds' = [r \in Recs |-> <<>>]
  /\ track' = <<>>
  /\ res' = [res EXCEPT !.mask = "none"]
  /\ rd' = [r \in Readers |-> [rd[r] EXCEPT !.cut = rd[r].snap < Len(hist)]]
  /\ rec' = Rest
  /\ UNCHANGED <<disk, hist, ckpt, runs, freed2>>

-----------------------------------------------------------------------------
\* Readers.  A search walks the updates and copies the cell; the blocks of an
\* overflow item are read in a step of their own, with the read lock.
Nothing == [item |-> "none", rec |-> 1, val |-> "none"]
Away == [iso |-> "none", snap |-> 0, at |-> "out", rec |-> 1, addr |-> 0, got |-> Nothing, cut |-> FALSE]
Got(r, item, q, v) ==
  rd' = [rd EXCEPT ![r].at = "out", ![r].got = [item |-> item, rec |-> q, val |-> v]]

Begin(r, iso) ==
  /\ rd[r].iso = "none"
  /\ rd' = [rd EXCEPT ![r] = [Away EXCEPT !.iso = iso, !.snap = Len(hist)]]
  /\ UNCHANGED <<disk, page, upds, hist, track, res, rec, ckpt, runs, freed2>>
End(r) ==
  /\ rd[r].iso # "none" /\ ~InPage(r)
  /\ rd' = [rd EXCEPT ![r] = Away]
  /\ UNCHANGED <<disk, page, upds, hist, track, res, rec, ckpt, runs, freed2>>

SeenBy(r, q) == FirstSeen(upds[q], IF rd[r].iso = "uncommitted" THEN Len(hist) ELSE rd[r].snap)
Search(r, q) ==
  /\ rd[r].iso # "none" /\ ~InPage(r) /\ ~Locked
  /\ \/ SeenBy(r, q) # NONE /\ Got(r, "val", q, SeenBy(r, q).val)
     \/ SeenBy(r, q) = NONE /\ page.cell[q].t = "plain" /\ Got(r, "val", q, page.cell[q].data)
     \/ /\ SeenBy(r, q) = NONE /\ page.cell[q].t = "ovfl"
        /\ rd' = [rd EXCEPT ![r].at = "cell", ![r].rec = q, ![r].addr = page.cell[q].addr]
  /\ UNCHANGED <<disk, page, upds, hist, track, res, rec, ckpt, runs, freed2>>

\* __wt_ovfl_read; a row store searches again, a column store looks the value up in
\* the list of tracked objects (__wt_ovfl_cache_col_restart).
OvflRead(r) ==
  /\ rd[r].at = "cell"
  /\ LET a == rd[r].addr
         q == rd[r].rec
     IN \/ a \notin page.rm /\ Got(r, "val", q, disk[a])
        \/ a \in page.rm /\ Row /\ rd' = [rd EXCEPT ![r].at = "out"]
        \/ a \in page.rm /\ ~Row /\ \E e \in CachedAt(track, a) : Got(r, "val", q, e.data)
        \/ a \in page.rm /\ ~Row /\ CachedAt(track, a) = {} /\ Got(r, "val", q, "notfound")
  /\ UNCHANGED <<disk, page, upds, hist, track, res, rec, ckpt, runs, freed2>>

\* __wt_row_key_copy: a key in memory, or the cell of an overflow key.
KeyCopy(r) ==
  /\ rd[r].iso # "none" /\ ~InPage(r) /\ ~Locked /\ Row /\ page.key # 0
  /\ \/ page.ikey /\ Got(r, "key", 1, "key")
     \/ ~page.ikey /\ rd' = [rd EXCEPT ![r].at = "key", ![r].addr = page.key]
  /\ UNCHANGED <<disk, page, upds, hist, track, res, rec, ckpt, runs, freed2>>
KeyRead(r) ==
  /\ rd[r].at = "key" /\ Got(r, "key", 1, disk[rd[r].addr])
  /\ UNCHANGED <<disk, page, upds, hist, track, res, rec, ckpt, runs, freed2>>

-----------------------------------------------------------------------------
\* The page has just been read: block 1 is its own, 2 the key's and 3 the value's.
Init ==
  /\ setup \in Setups
  /\ LET recs == IF setup.kind = "col2" THEN 1 .. 2 ELSE 1 .. 1
         cell == [r \in recs |-> Ovfl(3, "orig")]
         key == IF Row THEN 2 ELSE 0
     IN
       /\ disk = [b \in Blocks |-> IF b = 1 THEN "page" ELSE IF b = 2 /\ key = 2 THEN "key"
                                     ELSE IF b = 3 THEN "orig" ELSE "free"]
       /\ page = [cell |-> cell, key |-> key, ikey |-> FALSE, rm |-> {},
                  addr |-> 1, gen |-> 0, disk |-> 0]
       /\ upds = [r \in recs |-> <<>>]
       /\ res = [mask |-> "none", addrs |-> <<1>>, cells |-> cell, key |-> key]
       /\ hist = <<>> /\ track = <<>> /\ rec = Rest /\ ckpt = NoCkpt /\ runs = 0 /\ freed2 = FALSE
       /\ rd = [r \in Readers |-> Away]

Step ==
  \/ \E r \in Recs, v \in setup.vals : Update(r, v)
  \/ CkptBegin
  \/ CkptVisit
  \/ CkptEnd
  \/ EvictStart
  \/ RecRead
  \/ RecCache
  \/ RecVal
  \/ RecKey
  \/ RecImage
  \/ RecWrapup
  \/ RecFail
  \/ RecBusy
  \/ EvictEmpty
  \/ Evict
  \/ \E r \in Readers :
       \/ \E iso \in setup.isos : Begin(r, iso)
       \/ End(r)
       \/ "val" \in setup.items /\ \E q \in Recs : Search(r, q)
       \/ OvflRead(r)
       \/ "key" \in setup.items /\ KeyCopy(r)
       \/ KeyRead(r)

Next == Step /\ UNCHANGED setup

Spec == Init /\ [][Next]_vars

-----------------------------------------------------------------------------
\* What a record was after the first n updates.
Version(q, n) ==
  LET is == {i \in 1 .. n : hist[i].rec = q}
  IN IF is = {} THEN "orig" ELSE hist[Max(is)].val

OvflOf(cells) == {cells[r].addr : r \in {q \in DOMAIN cells : cells[q].t = "ovfl"}}
\* The blocks the tree refers to: the page as it was read, or as it was last written.
Referenced ==
  ToSet(IF res.mask = "none" THEN <<page.addr>> ELSE res.addrs)
    \union OvflOf(res.cells) \union ({res.key} \ {0})

TypeOK ==
  /\ disk \in [Blocks -> {"free", "page", "key", "orig", "big"}]
  /\ page.rm \subseteq Blocks /\ page.disk <= page.gen
  /\ res.mask \in {"none", "empty", "replace", "split"}
  /\ rec.step \in {"off", "read", "cache", "val", "key", "image", "done"}

\* No reconciliation is half done.
Written == rec.step \in {"off", "done"}

\* What the tree refers to is what it says it is: overflow items are re-used by their
\* data, and the address of a freed one may be any object's since
\* (__wt_rec_track_ovfl_reuse, __wt_rec_track_onpage_srch).
ItemsAreWhole ==
  Written =>
    /\ \A q \in DOMAIN res.cells : res.cells[q].t = "ovfl" => disk[res.cells[q].addr] = res.cells[q].data
    /\ res.key # 0 => disk[res.key] = "key"

\* Once a reconciliation has ended, well or not, the blocks that are allocated are
\* those the tree refers to, by what they hold: none is freed that is needed, none is lost
\* (__wt_rec_track_wrapup, __wt_rec_track_wrapup_err, __rec_write_wrapup).
BlocksAreReferenced ==
  /\ Referenced \intersect FreeBlocks = {}
  /\ Written => Blocks \ FreeBlocks = Referenced
  /\ ItemsAreWhole

\* No block is freed twice: an object named on the page is met at every
\* reconciliation, and discarded once (rec_track.c, "Regardless, only discard objects
\* once").
FreedOnce == ~freed2

\* A page that is clean was written with every update there is: one committed after
\* the checkpoint took its snapshot leaves the page dirty, whether it was there when
\* the page was visited and skipped (rec_write.c, upd_skipped) or arrived while the
\* page was being written (orig_write_gen).
CleanIsWritten ==
  (Written /\ page.gen = page.disk) =>
     \A q \in Recs : res.cells[q].data = Version(q, Len(hist))

\* A reader sleeping between its search and the read of an overflow value gets the
\* value of its snapshot, whatever was reconciled and freed in between
\* (__wt_val_ovfl_cache).  A page that was discarded under the snapshot is another
\* matter: see SnapshotsRead.
OverflowReadsAreCurrent ==
  \A r \in Readers :
    (rd[r].iso = "snapshot" /\ rd[r].got.item = "val" /\ ~rd[r].cut) =>
        rd[r].got.val = Version(rd[r].got.rec, rd[r].snap)

\* Snapshot isolation: a transaction reads the versions that were committed when it
\* began (docs/transactions.dox).
SnapshotsRead ==
  \A r \in Readers :
    (rd[r].iso = "snapshot" /\ rd[r].got.item = "val") =>
        rd[r].got.val = Version(rd[r].got.rec, rd[r].snap)

\* A copy of a key's cell can be processed regardless of what any other thread is
\* doing (the comment of __wt_row_key_copy).
KeysAreRead ==
  \A r \in Readers : rd[r].got.item = "key" => rd[r].got.val = "key"

\* The value of a record is found when a read starts again (the comment and the
\* assertion of __wt_ovfl_cache_col_restart).
RestartFindsValue == \A r \in Readers : rd[r].got.val # "notfound"
=============================================================================

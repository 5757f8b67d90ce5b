------------------------------- MODULE BtCursor -------------------------------
(***************************************************************************)
(* A btree cursor on in-memory leaf pages: src/btree/bt_cursor.c,          *)
(* bt_curnext.c, bt_curprev.c, row_srch.c, col_srch.c, bt_ret.c, the page  *)
(* changes of row_modify.c and col_modify.c, include/column.i and          *)
(* cursor.i, the file cursor methods of cur_file.c that call them and      *)
(* WT_SESSION::truncate.  One session calls the methods; what other        *)
(* transactions left on the pages is in the update chains, whose entries   *)
(* are visible to the session or not.                                      *)
(*                                                                         *)
(* A tree is the sequence of its leaf pages.  A page has its first key or  *)
(* record number (first), its on-page records (rows), the cells that       *)
(* repeat (repeats, page->pg_var_repeats), the insert lists (ins) and the  *)
(* append list.  In a row store ins[0] is the smallest-key                 *)
(* list and ins[i] the list after row i; in a variable-length column store *)
(* ins[i] is the update list of cell i; in a fixed-length one ins[1] is    *)
(* the page's update list.  A skip list is a sequence in the order of its  *)
(* lowest links with the key of its tail: the higher links only shorten    *)
(* the walk.  Slots count from 1, and slot 0 is WT_CURSOR_BTREE's "fail    *)
(* big" slot of a cursor that was never given one.                         *)
(***************************************************************************)
EXTENDS Integers, Sequences, FiniteSetsExt

CONSTANTS Keys,       \* the keys an application uses: 1..n
          New,        \* the value the application writes
          Zero,       \* the value of an unset fixed-length record
          Junk,       \* what a read outside the page returns
          Trees       \* the trees to start from, with the calls made on them

VARIABLES type,       \* "row", "var" or "fix"
          tree,       \* the leaf pages
          last,       \* btree->last_recno
          cbt,        \* the WT_CURSOR_BTREE
          out,        \* the last call and what it returned
          changes,    \* calls the application still makes that change the tree
          truncates   \* whether it truncates

vars == <<type, tree, last, cbt, out, changes, truncates>>

NULL == "null"
DEL == "deleted"
NOHEAD == -2          \* no insert list
APPEND == -1          \* the append list

-----------------------------------------------------------------------------
(* Update chains and skip lists *)

\* __wt_txn_read: the first update of a chain the session can see.
TxnRead(upds) == LET seen == SelectSeq(upds, LAMBDA u : u.vis)
                 IN IF seen = <<>> THEN NULL ELSE Head(seen).val

Write(upds, v) == <<[vis |-> TRUE, val |-> v]>> \o upds

EmptyList == [e |-> <<>>, tail |-> 0]
IndexOf(l, k) == CHOOSE i \in DOMAIN l.e : l.e[i].key = k
Entry(l, k) == l.e[IndexOf(l, k)]
KeyAt(l, i) == IF i \in DOMAIN l.e THEN l.e[i].key ELSE 0

SkipFirst(l) == KeyAt(l, 1)
SkipLast(l) == l.tail
SkipNext(l, k) == KeyAt(l, IndexOf(l, k) + 1)
SkipPrev(l, k) == KeyAt(l, IndexOf(l, k) - 1)

\* The first entry, in link order, that does not sort before k.
Reach(l, k) == Min({i \in DOMAIN l.e : l.e[i].key >= k})

ListReached(l, h, k, i) ==
  [ins |-> KeyAt(l, i), place |-> <<h, IF KeyAt(l, i) = k THEN k ELSE KeyAt(l, i - 1)>>]

\* __wt_search_insert and __col_insert_search: the last entry compared with, and
\* the place in list h a new entry would be linked: after it on an exact match or
\* at the tail, otherwise before it.  Without a list the place is left alone.
ListSearch(l, h, k, place) ==
  IF l.e = <<>> THEN [ins |-> 0, place |-> place]
  ELSE IF k >= l.tail THEN [ins |-> l.tail, place |-> <<h, l.tail>>]
  ELSE ListReached(l, h, k, Reach(l, k))

\* __col_insert_search_match: an exact match or nothing, and no place.
ListMatch(l, k) == IF l.e = <<>> \/ k > l.tail THEN 0
                   ELSE IF k = l.tail \/ KeyAt(l, Reach(l, k)) = k THEN k ELSE 0

\* __wt_insert_serial_func: link a new entry at the place found by the search.
ListInsert(l, after, entry) ==
  LET i == IF after = 0 THEN 0 ELSE IndexOf(l, after)
  IN [e |-> SubSeq(l.e, 1, i) \o <<entry>> \o SubSeq(l.e, i + 1, Len(l.e)),
      tail |-> IF l.tail \in {0, after} THEN entry.key ELSE l.tail]

-----------------------------------------------------------------------------
(* Searching the tree *)

Sign(a, b) == IF a < b THEN -1 ELSE IF a = b THEN 0 ELSE 1

\* The binary search of a page: base is the smallest index greater than the key.
BinarySearch(n, Compare(_)) ==
  LET search[base \in 0 .. n, limit \in 0 .. n] ==
        LET indx == base + limit \div 2 + 1
        IN IF limit = 0 THEN [base |-> base, match |-> 0]
           ELSE IF Compare(indx) = 0 THEN [base |-> base, match |-> indx]
           ELSE IF Compare(indx) < 0 THEN search[base, limit \div 2]
           ELSE search[indx, (limit - 1) \div 2]
  IN search[0, n]

Slot(s) == IF s.match # 0 THEN s.match ELSE s.base

\* Descend to the leaf page; the first row-store child sorts before every key.
RowChild(t, k) == Slot(BinarySearch(Len(t), LAMBDA i : IF i = 1 THEN 1 ELSE Sign(k, t[i].first)))
ColChild(t, k) == Slot(BinarySearch(Len(t), LAMBDA i : Sign(k, t[i].first)))

\* __cursor_search_clear
Cleared == [page |-> 0, slot |-> 0, head |-> NOHEAD, ins |-> 0, place |-> <<NOHEAD, 0>>,
            recno |-> 0, compare |-> 2, smallest |-> FALSE, max |-> FALSE,
            iterate |-> FALSE, append |-> FALSE, rowslot |-> 0, lastrec |-> 0]

Entries(p) == Len(p.rows)
ListOf(p, h) == IF h = NOHEAD THEN EmptyList ELSE IF h = APPEND THEN p.append ELSE p.ins[h]
\* A list is only pointed to once it has an entry.
HeadOf(p, h) == IF ListOf(p, h).e = <<>> THEN NOHEAD ELSE h

\* __wt_row_search: an on-page row, or the closest entry of the insert list after the
\* largest row that is not larger.
RowList(p, n, k, base, l) ==
  [Cleared EXCEPT !.page = n, !.slot = IF base = 0 THEN 1 ELSE base, !.smallest = base = 0,
                  !.head = HeadOf(p, base), !.ins = l.ins, !.place = l.place,
                  !.compare = IF l.ins # 0 THEN Sign(l.ins, k) ELSE IF base = 0 THEN 1 ELSE -1]
RowLeaf(p, n, k, s) ==
  IF s.match # 0 THEN [Cleared EXCEPT !.page = n, !.slot = s.match, !.compare = 0]
  ELSE RowList(p, n, k, s.base, ListSearch(p.ins[s.base], s.base, k, Cleared.place))
RowPage(p, n, k) == RowLeaf(p, n, k, BinarySearch(Entries(p), LAMBDA i : Sign(k, p.rows[i].key)))
RowSearch(t, k) == LET n == RowChild(t, k) IN RowPage(t[n], n, k)

\* __col_last_recno
LastRecno(p) ==
  LET x == p.repeats[Len(p.repeats)]
  IN IF p.repeats # <<>> THEN x.recno + x.rle - 1 + (Entries(p) - x.indx)
     ELSE IF Entries(p) = 0 THEN 0 ELSE p.first + Entries(p) - 1

\* __col_var_search: the cell of a record, 0 past the end of the page.
FixedSlot(p, k, indx, recno) == IF k >= recno + (Entries(p) - indx) THEN 0 ELSE indx + (k - recno) + 1
VarSlot(p, k, r, s) ==
  IF s.match # 0 THEN r[s.match].indx
  ELSE IF s.base = 0 THEN FixedSlot(p, k, 0, p.first)
  ELSE FixedSlot(p, k, r[s.base].indx, r[s.base].recno + r[s.base].rle)
ColVarSearch(p, k) ==
  VarSlot(p, k, p.repeats,
          BinarySearch(Len(p.repeats), LAMBDA i : IF k >= p.repeats[i].recno + p.repeats[i].rle THEN 1
                                                  ELSE IF k < p.repeats[i].recno THEN -1 ELSE 0))

\* __wt_col_search: on the page the only better match is an exact one of the update
\* list; past its end the append list has the closest record.
ColUpdated(c, k, h, u) == [c EXCEPT !.place = u.place, !.ins = IF u.ins = k THEN k ELSE 0,
                                    !.head = IF u.ins = k THEN h ELSE NOHEAD]
ColPastEnd(p, c, k, a) ==
  LET cmp == IF a.ins = 0 THEN -1 ELSE Sign(a.ins, k)
  IN [c EXCEPT !.head = HeadOf(p, APPEND), !.ins = a.ins, !.place = a.place,
               !.compare = cmp, !.max = cmp = -1,
               !.recno = IF a.ins # 0 THEN a.ins
                         ELSE IF type = "fix" THEN p.first + Entries(p) ELSE LastRecno(p)]
ColLeaf(p, c, k, h) ==
  IF h = 0 THEN ColPastEnd(p, c, k, ListSearch(p.append, APPEND, k, c.place))
  ELSE ColUpdated(c, k, h, ListSearch(p.ins[h], h, k, c.place))
ColPage(p, n, k) ==
  LET c == [Cleared EXCEPT !.page = n, !.recno = k, !.compare = 0]
      slot == ColVarSearch(p, k)
  IN IF type = "var" THEN ColLeaf(p, [c EXCEPT !.slot = slot], k, slot)
     ELSE ColLeaf(p, c, k, IF k >= p.first + Entries(p) THEN 0 ELSE 1)
ColSearch(t, k) == LET n == ColChild(t, k) IN ColPage(t[n], n, k)

Searched(t, k) == IF type = "row" THEN RowSearch(t, k) ELSE ColSearch(t, k)

-----------------------------------------------------------------------------
(* The record a cursor is at *)

InsRead(p, c) == IF c.ins = 0 THEN NULL ELSE TxnRead(Entry(ListOf(p, c.head), c.ins).upd)

\* __cursor_invalid reads cell UINT32_MAX of a variable-length page when the search
\* went past its end and the append list has nothing the session can see there.
Wild(p, c) == type = "var" /\ InsRead(p, c) = NULL /\ Entries(p) # 0 /\ c.slot = 0

\* __cursor_invalid: the record does not exist, or it was deleted.
Invalid(p, c) ==
  IF InsRead(p, c) # NULL THEN InsRead(p, c) = DEL
  ELSE \/ Entries(p) = 0
       \/ type = "var" /\ p.rows[c.slot].val = DEL
       \/ type = "row" /\ TxnRead(p.rows[c.slot].upd) = DEL

\* Mutant: records past the end of a fixed-length store exist as well.
ImplicitEverywhere(c) == type = "fix"

\* __cursor_fix_implicit: the records before the last one of a fixed-length store exist.
Implicit(c) == type = "fix" /\ ~c.max

\* __bit_getv_recno
Bit(p, k) == LET i == k - p.first + 1 IN IF i \in DOMAIN p.rows THEN p.rows[i].val ELSE Junk
RowValue(r) == IF TxnRead(r.upd) = NULL THEN r.val ELSE TxnRead(r.upd)

\* The update of the insert entry, or what is on the page if there is none to see.
InsElse(p, c, v) == LET u == InsRead(p, c) IN IF u # NULL THEN u ELSE v

\* What a call leaves behind: the tree, the cursor and the values returned.
Result(t, c, ret, k, v, exact) ==
  [t |-> t, c |-> c, ret |-> ret, key |-> k, val |-> v, exact |-> exact]
Fail(t, why) == Result(t, Cleared, why, 0, Zero, 0)
Wrote(t, c, k) == Result(t, c, "ok", k, Zero, 0)

\* __wt_kv_return
OnPage(p, c) == CASE type = "row" -> RowValue(p.rows[c.slot])
                  [] type = "var" -> p.rows[c.slot].val
                  [] type = "fix" -> Bit(p, c.recno)
KvReturn(t, c, exact) ==
  LET p == t[c.page]
      u == InsRead(p, c)
      k == IF type # "row" THEN c.recno ELSE IF u # NULL THEN c.ins ELSE p.rows[c.slot].key
  IN Result(t, c, "ok", k, IF u # NULL THEN u ELSE OnPage(p, c), exact)

-----------------------------------------------------------------------------
(* Moving: d is 1 for the functions of bt_curnext.c, -1 for those of bt_curprev.c. *)
(* A walk of a page returns the record it stops at, key 0 at the end of the page,  *)
(* key -1 when it reads through a null pointer.                                    *)

At(c, k, v) == [c |-> c, key |-> k, val |-> v]
End(c) == At(c, 0, Zero)
Onward(l, k, d) == IF d = 1 THEN SkipNext(l, k) ELSE SkipPrev(l, k)
Outermost(l, d) == IF d = 1 THEN SkipFirst(l) ELSE SkipLast(l)

\* The slots of a row-store page in one name space: list 0 is slot 1, row i slot 2i,
\* list i slot 2i + 1.
RECURSIVE RowWalk(_, _, _)
RowWalk(p, c, d) ==
  LET u == InsRead(p, c)
      s == c.rowslot + d
      i == s \div 2
      row == [c EXCEPT !.rowslot = s, !.slot = i, !.head = NOHEAD, !.ins = 0]
  IN IF c.ins # 0 /\ u \notin {NULL, DEL} THEN At(c, c.ins, u)
     ELSE IF c.ins # 0
     THEN RowWalk(p, [c EXCEPT !.ins = Onward(ListOf(p, c.head), c.ins, d)], d)
     ELSE IF s \notin 1 .. 2 * Entries(p) + 1 THEN End(c)
     ELSE IF s % 2 = 1
     THEN RowWalk(p, [c EXCEPT !.rowslot = s, !.head = HeadOf(p, i), !.ins = Outermost(p.ins[i], d)], d)
     ELSE IF TxnRead(p.rows[i].upd) = DEL THEN RowWalk(p, row, d)
     ELSE At(row, p.rows[i].key, RowValue(p.rows[i]))

RowMove(p, c, new, slot, d) ==
  LET h == slot \div 2
  IN RowWalk(p, IF new THEN [c EXCEPT !.rowslot = slot, !.head = HeadOf(p, h), !.ins = Outermost(p.ins[h], d)]
                ELSE IF c.ins # 0 THEN [c EXCEPT !.ins = Onward(ListOf(p, c.head), c.ins, d)]
                ELSE c, d)
RowNext(p, c, new) == RowMove(p, c, new, 1, 1)
RowPrev(p, c, new) == RowMove(p, c, new, 2 * Entries(p) + 1, -1)

\* The records of a variable-length page from c.recno on, over the deleted ones.
RECURSIVE VarWalk(_, _, _)
VarStop(p, c, e, v, d) ==
  IF v # DEL THEN At(e, c.recno, v)
  ELSE IF d = 1 /\ c.recno >= c.lastrec THEN End(e)
  ELSE VarWalk(p, [e EXCEPT !.recno = @ + d], d)
VarCell(p, c, slot, d) ==
  LET e == [c EXCEPT !.slot = slot, !.head = HeadOf(p, slot), !.ins = ListMatch(p.ins[slot], c.recno)]
  IN VarStop(p, c, e, InsElse(p, e, p.rows[slot].val), d)
VarWalk(p, c, d) ==
  LET slot == ColVarSearch(p, c.recno)
  IN IF c.recno < p.first \/ slot = 0 THEN End(c) ELSE VarCell(p, c, slot, d)

VarNext(p, c, new) ==
  IF new THEN IF LastRecno(p) = 0 THEN End([c EXCEPT !.lastrec = 0])
              ELSE VarWalk(p, [c EXCEPT !.lastrec = LastRecno(p), !.recno = p.first], 1)
  ELSE IF c.recno >= c.lastrec THEN End(c)
  ELSE VarWalk(p, [c EXCEPT !.recno = @ + 1], 1)
VarPrev(p, c, new) ==
  IF new THEN IF LastRecno(p) = 0 THEN End([c EXCEPT !.lastrec = 0])
              ELSE VarWalk(p, [c EXCEPT !.lastrec = LastRecno(p), !.recno = LastRecno(p)], -1)
  ELSE VarWalk(p, [c EXCEPT !.recno = @ - 1], -1)

\* A record of a fixed-length page, with its update if the session can see one.
FixAt(p, c) ==
  LET l == ListSearch(p.ins[1], 1, c.recno, c.place)
      e == [c EXCEPT !.head = HeadOf(p, 1), !.place = l.place,
                     !.ins = IF l.ins = c.recno THEN l.ins ELSE 0]
  IN At(e, c.recno, InsElse(p, e, Bit(p, c.recno)))

FixNext(p, c, new) ==
  IF new THEN IF LastRecno(p) = 0 THEN End([c EXCEPT !.lastrec = 0])
              ELSE FixAt(p, [c EXCEPT !.lastrec = LastRecno(p), !.recno = p.first])
  ELSE IF c.recno >= c.lastrec THEN End(c)
  ELSE FixAt(p, [c EXCEPT !.recno = @ + 1])
FixPrev(p, c, new) ==
  IF new THEN IF LastRecno(p) = 0 THEN End([c EXCEPT !.lastrec = 0])
              ELSE FixAt(p, [c EXCEPT !.lastrec = LastRecno(p), !.recno = LastRecno(p)])
  ELSE IF c.recno = p.first THEN End(c)
  ELSE FixAt(p, [c EXCEPT !.recno = @ - 1])

-----------------------------------------------------------------------------
(* The append list of the last column-store page *)

RECURSIVE VarAppendWalk(_, _, _)
VarAppendWalk(p, c, d) ==
  LET e == [c EXCEPT !.recno = c.ins]
  IN IF c.ins = 0 THEN End(c)
     ELSE IF InsRead(p, e) \notin {NULL, DEL} THEN At(e, c.ins, InsRead(p, e))
     ELSE VarAppendWalk(p, [e EXCEPT !.ins = Onward(p.append, c.ins, d)], d)
VarAppendMove(p, c, new, d) ==
  VarAppendWalk(p, [c EXCEPT !.ins = IF new THEN Outermost(p.append, d)
                                     ELSE Onward(p.append, c.ins, d)], d)
VarAppendNext(p, c, new) == VarAppendMove(p, c, new, 1)
VarAppendPrev(p, c, new) == VarAppendMove(p, c, new, -1)

\* The records skipped by the append list exist, with value zero.
FixAppendAt(p, c) ==
  At(c, c.recno, IF c.ins # c.recno THEN Zero ELSE InsElse(p, c, Zero))

\* A cursor that moved back before the first entry has none to compare with.
FixAppendNext(p, c, new) ==
  LET ins == IF new THEN SkipFirst(p.append)
             ELSE IF c.recno >= c.ins THEN SkipNext(p.append, c.ins) ELSE c.ins
  IN IF ~new /\ c.ins = 0 THEN At(c, -1, Junk)
     ELSE IF ins = 0 THEN End([c EXCEPT !.ins = 0])
     ELSE FixAppendAt(p, [c EXCEPT !.ins = ins, !.recno = @ + 1])

\* Before the first entry of the list a page without records goes on down to record 1.
FixAppendPrev(p, c, new) ==
  LET ins == IF new THEN SkipLast(p.append)
             ELSE IF c.ins # 0 /\ c.recno <= c.ins THEN SkipPrev(p.append, c.ins) ELSE c.ins
      e == [c EXCEPT !.ins = ins, !.recno = IF new THEN ins ELSE @ - 1]
  IN IF ins = 0 /\ (new \/ c.recno = 1 \/ LastRecno(p) # 0)
     THEN End([c EXCEPT !.ins = 0])
     ELSE FixAppendAt(p, e)

-----------------------------------------------------------------------------
(* Moving in the tree *)

PageNext(p, c, new) == CASE type = "row" -> RowNext(p, c, new)
                         [] type = "var" -> VarNext(p, c, new)
                         [] type = "fix" -> FixNext(p, c, new)
PagePrev(p, c, new) == CASE type = "row" -> RowPrev(p, c, new)
                         [] type = "var" -> VarPrev(p, c, new)
                         [] type = "fix" -> FixPrev(p, c, new)
AppendNext(p, c, new) == IF type = "var" THEN VarAppendNext(p, c, new) ELSE FixAppendNext(p, c, new)
AppendPrev(p, c, new) == IF type = "var" THEN VarAppendPrev(p, c, new) ELSE FixAppendPrev(p, c, new)

\* __wt_btcur_iterate_setup: take the position up where a search left it.
IterateSetup(t, c) ==
  IF c.iterate THEN c
  ELSE IF c.page = 0 THEN [c EXCEPT !.iterate = TRUE]
  ELSE IF type = "row"
  THEN [c EXCEPT !.iterate = TRUE,
                 !.rowslot = IF c.head = NOHEAD THEN 2 * c.slot
                             ELSE IF c.head = 0 THEN 1 ELSE 2 * c.slot + 1]
  ELSE [c EXCEPT !.iterate = TRUE, !.lastrec = LastRecno(t[c.page]),
                 !.append = @ \/ c.head = APPEND]

Appended(t, n) == type # "row" /\ t[n].append.e # <<>>

RECURSIVE WalkNext(_, _, _, _)
OnNext(t, c, n, r) ==
  IF r.key # 0 THEN r
  ELSE IF n # 0 /\ ~c.append /\ Appended(t, n)
  THEN WalkNext(t, [r.c EXCEPT !.head = APPEND, !.append = TRUE], n, TRUE)
  ELSE IF n = Len(t) THEN End(Cleared)
  ELSE WalkNext(t, [r.c EXCEPT !.page = n + 1, !.append = FALSE], n + 1, TRUE)
WalkNext(t, c, n, new) ==
  OnNext(t, c, n, IF c.append THEN AppendNext(t[n], c, new)
                  ELSE IF n # 0 THEN PageNext(t[n], c, new) ELSE End(c))

RECURSIVE WalkPrev(_, _, _, _)
OnPrev(t, c, n, m, r) ==
  IF r.key # 0 THEN r
  ELSE IF n = 1 THEN End(Cleared)
  ELSE WalkPrev(t, [r.c EXCEPT !.page = m, !.append = Appended(t, m),
                               !.head = IF Appended(t, m) THEN APPEND ELSE NOHEAD], m, TRUE)
AfterAppend(t, a, n, new) == IF a.key # 0 \/ n = 0 THEN a
                             ELSE PagePrev(t[n], [a.c EXCEPT !.append = FALSE], new)
WalkPrev(t, c, n, new) ==
  OnPrev(t, c, n, IF n = 0 THEN Len(t) ELSE n - 1,
         AfterAppend(t, IF c.append THEN AppendPrev(t[n], c, new) ELSE End(c), n, new \/ c.append))

Moved(t, r) == IF r.key = 0 THEN Fail(t, "notfound")
               ELSE IF r.key = -1 THEN Fail(t, Junk)
               ELSE Result(t, r.c, "ok", r.key, r.val, 0)
BtcurNext(t, c) == Moved(t, WalkNext(t, IterateSetup(t, c), c.page, FALSE))
BtcurPrev(t, c) == Moved(t, WalkPrev(t, IterateSetup(t, c), c.page, FALSE))

-----------------------------------------------------------------------------
(* Changing the tree *)

SetList(t, n, h, l) == IF h = APPEND THEN [t EXCEPT ![n].append = l] ELSE [t EXCEPT ![n].ins[h] = l]

\* Where a new entry goes: where the search put it, or first in a new list.
Place(t, c, h) == IF ListOf(t[c.page], h).e = <<>> THEN <<h, 0>> ELSE c.place
Link(t, c, h, k, v) ==
  LET to == Place(t, c, h)
  IN SetList(t, c.page, to[1], ListInsert(ListOf(t[c.page], to[1]), to[2],
                                          [key |-> k, upd |-> Write(<<>>, v)]))

\* Put an update at the head of the chain of the cursor's insert entry.
Chain(t, c, v) ==
  LET l == ListOf(t[c.page], c.head)
  IN SetList(t, c.page, c.head, [l EXCEPT !.e[IndexOf(l, c.ins)].upd = Write(@, v)])

\* __wt_row_modify
RowModify(t, c, k, v) ==
  LET h == IF c.smallest THEN 0 ELSE c.slot
  IN IF c.compare = 0 /\ c.ins = 0
     THEN Wrote([t EXCEPT ![c.page].rows[c.slot].upd = Write(@, v)], c, k)
     ELSE IF c.compare = 0 THEN Wrote(Chain(t, c, v), c, k)
     ELSE Wrote(Link(t, c, h, k, v), [c EXCEPT !.ins = k, !.head = h, !.place = Place(t, c, h)], k)

\* __wt_col_modify: a record past the end of the page goes to the append list, whose
\* serialized insert gives a record number to a record without one and searches again.
ColAppend(t, c, k, v) == Wrote(Link(t, c, APPEND, k, v), c, k)
ColModify(t, c, k, v, remove) ==
  LET p == t[c.page]
      h == IF type = "fix" THEN 1 ELSE c.slot
      no == IF k = 0 THEN last + 1 ELSE k
  IN IF c.compare = 0 /\ c.ins # 0 THEN Wrote(Chain(t, c, v), c, k)
     ELSE IF ~remove /\ (k = 0 \/ k > LastRecno(p))
     THEN ColAppend(t, [c EXCEPT !.head = APPEND, !.recno = no, !.ins = no,
                                 !.place = ListSearch(p.append, APPEND, no, @).place], no, v)
     ELSE Wrote(Link(t, c, h, k, v),
                [c EXCEPT !.ins = k, !.place = Place(t, c, h),
                          !.head = IF p.ins[h].e = <<>> THEN h ELSE @], k)

Modify(t, c, k, v) == IF type = "row" THEN RowModify(t, c, k, v) ELSE ColModify(t, c, k, v, FALSE)
Delete(t, c, k) == CASE type = "row" -> RowModify(t, c, k, DEL)
                     [] type = "var" -> ColModify(t, c, k, DEL, TRUE)
                     [] type = "fix" -> ColModify(t, c, k, Zero, TRUE)

-----------------------------------------------------------------------------
(* The methods of bt_cursor.c *)

Exists(t, c) == c.compare = 0 /\ ~Invalid(t[c.page], c)
\* A read outside the page comes first: anything may follow it.
Reading(t, c, r) == IF Wild(t[c.page], c) THEN Fail(t, Junk) ELSE r
Matching(t, c, r) == IF c.compare = 0 THEN Reading(t, c, r) ELSE r
Fill(t, c, k) == Result(t, [c EXCEPT !.recno = k], "ok", k, Zero, 0)

\* c is where the search for k ended.
BtcurSearch(t, k, c) ==
  Matching(t, c, IF Exists(t, c) THEN KvReturn(t, c, 0)
                 ELSE IF Implicit(c) THEN Fill(t, c, k) ELSE Fail(t, "notfound"))

Nearest(next, prev) == IF next.ret = "ok" THEN [next EXCEPT !.exact = 1]
                       ELSE IF prev.ret = "ok" THEN [prev EXCEPT !.exact = -1]
                       ELSE prev
BtcurSearchNear(t, k, c) ==
  IF c.compare # 0 /\ Implicit(c) THEN Fill(t, c, k)
  ELSE Reading(t, c, IF ~Invalid(t[c.page], c) THEN KvReturn(t, c, c.compare)
                     ELSE Nearest(BtcurNext(t, c), BtcurPrev(t, c)))

\* WT_CURSTD_APPEND searches for the last page and leaves the record number open.
BtcurInsert(t, k, c, overwrite) ==
  IF overwrite THEN Modify(t, c, k, New)
  ELSE Matching(t, c, IF Exists(t, c) \/ (c.compare # 0 /\ Implicit(c))
                      THEN Fail(t, "duplicate") ELSE Modify(t, c, k, New))
BtcurAppend(t) == ColModify(t, ColSearch(t, last + 1), 0, New, FALSE)

BtcurRemove(t, k, c) ==
  Matching(t, c, IF Exists(t, c) THEN Delete(t, c, k)
                 ELSE IF Implicit(c) THEN Fill(t, c, k) ELSE Fail(t, "notfound"))

BtcurUpdate(t, k, c) ==
  Matching(t, c, IF Exists(t, c) \/ Implicit(c) THEN Modify(t, c, k, New) ELSE Fail(t, "notfound"))

\* __cursor_equals: the record number, or the place on a row-store page.
Equals(a, b) ==
  IF type # "row" THEN a.recno = b.recno
  ELSE a.page = b.page /\ a.ins = b.ins /\ (a.ins # 0 \/ a.slot = b.slot)

\* __cursor_truncate and __cursor_truncate_fix: move from record to record, removing
\* each, until the other cursor or the end of the tree; unset bits are left alone.
RECURSIVE Discard(_, _, _, _)
DiscardAt(t, e, r, stop, d) ==
  IF type = "fix" /\ r.val = Zero THEN Discard(t, e, stop, d)
  ELSE LET rm == Delete(t, e, r.key) IN Discard(rm.t, rm.c, stop, d)
DiscardNext(t, r, stop, d) ==
  IF r.ret # "ok" THEN t ELSE DiscardAt(t, [r.c EXCEPT !.compare = 0], r, stop, d)
Discard(t, c, stop, d) ==
  IF Equals(c, stop) THEN t
  ELSE DiscardNext(t, IF d = 1 THEN BtcurNext(t, c) ELSE BtcurPrev(t, c), stop, d)

\* __wt_btcur_truncate; a row store searches for both records before it starts.
TruncateFrom(first, end, d) ==
  IF first.ret # "ok" THEN first ELSE Fail(Discard(first.t, first.c, end, d), "ok")
BtcurTruncate(t, start, stop) ==
  LET from == IF start = 0 THEN stop ELSE start
  IN TruncateFrom(BtcurRemove(t, from, Searched(t, from)),
                  IF start = 0 \/ stop = 0 THEN Cleared
                  ELSE IF type = "row" THEN RowSearch(t, stop) ELSE [Cleared EXCEPT !.recno = stop],
                  IF start = 0 THEN -1 ELSE 1)

\* __session_truncate: the cursors move to the first and the last record of the range.
\* near is what search_near returned for the start or the stop cursor's key.
NotBefore(t, near) == IF near.ret = "ok" /\ near.exact < 0 THEN BtcurNext(t, near.c) ELSE near
NotAfter(t, near) == IF near.ret = "ok" /\ near.exact > 0 THEN BtcurPrev(t, near.c) ELSE near
TruncateRange(t, a, b, start, stop) ==
  IF Junk \in {start.ret, stop.ret} THEN Fail(t, Junk)
  ELSE IF "notfound" \in {start.ret, stop.ret} \/ (a # 0 /\ b # 0 /\ start.key > stop.key)
  THEN Fail(t, "ok")
  ELSE BtcurTruncate(t, start.key, stop.key)
TruncateNear(t, a, b, start, stop) ==
  IF Junk \notin {start.ret, stop.ret} /\ "notfound" \in {start.ret, stop.ret} THEN Fail(t, "notfound")
  ELSE TruncateRange(t, a, b, NotBefore(t, start), NotAfter(t, stop))
NearOrNone(t, k) == IF k = 0 THEN Fail(t, "ok") ELSE BtcurSearchNear(t, k, Searched(t, k))
SessionTruncate(t, a, b) == TruncateNear(t, a, b, NearOrNone(t, a), NearOrNone(t, b))

-----------------------------------------------------------------------------
(* The file cursor's methods *)

Return(call, r) ==
  /\ tree' = r.t
  /\ cbt' = r.c
  /\ out' = [call |-> call, ret |-> r.ret, key |-> r.key, val |-> r.val, exact |-> r.exact,
             turn |-> ~out.turn]
  /\ UNCHANGED <<type, truncates>>

\* A call with a key forgets the position (__cursor_func_init, __cursor_search_clear):
\* what it does is the same from every position, and it is made from none.
Unpositioned == cbt = Cleared

Ask(call, r) == Return(call, r) /\ UNCHANGED <<last, changes>>
\* A change that extends a column store moves btree->last_recno.
Alter(call, r) == /\ changes > 0
                  /\ Unpositioned
                  /\ changes' = changes - 1
                  /\ last' = IF type = "row" THEN last ELSE Max({last, r.key})
                  /\ Return(call, r)

Search(k) == Unpositioned /\ Ask(<<"search", k>>, BtcurSearch(tree, k, Searched(tree, k)))
SearchNear(k) == Unpositioned /\ Ask(<<"near", k>>, BtcurSearchNear(tree, k, Searched(tree, k)))
NextRecord == Ask(<<"next">>, BtcurNext(tree, cbt))
PrevRecord == Ask(<<"prev">>, BtcurPrev(tree, cbt))
Reset == Ask(<<"reset">>, Fail(tree, "ok"))
Insert(k, overwrite) == Alter(<<"insert", k, overwrite>>, BtcurInsert(tree, k, Searched(tree, k), overwrite))
InsertAppend == type # "row" /\ Alter(<<"append">>, BtcurAppend(tree))
Update(k) == Alter(<<"update", k>>, BtcurUpdate(tree, k, Searched(tree, k)))
Remove(k) == Alter(<<"remove", k>>, BtcurRemove(tree, k, Searched(tree, k)))
Truncate(a, b) == /\ truncates
                  /\ a # 0 \/ b # 0
                  /\ b = 0 \/ a <= b
                  /\ Alter(<<"truncate", a, b>>, SessionTruncate(tree, a, b))

Init == /\ \E t \in Trees : /\ type = t.type /\ tree = t.pages /\ last = t.last
                            /\ changes = t.changes /\ truncates = t.truncates
        /\ cbt = Cleared
        /\ out = [call |-> <<"open">>, ret |-> "ok", key |-> 0, val |-> Zero, exact |-> 0, turn |-> TRUE]

Next == \/ \E k \in Keys : Search(k) \/ SearchNear(k) \/ Update(k) \/ Remove(k)
        \/ \E k \in Keys, overwrite \in BOOLEAN : Insert(k, overwrite)
        \/ \E a, b \in Keys \union {0} : Truncate(a, b)
        \/ NextRecord \/ PrevRecord \/ Reset \/ InsertAppend

Spec == Init /\ [][Next]_vars

-----------------------------------------------------------------------------
(* The records the session can see, read off the pages without a cursor *)

EntriesOf(l) == {l.e[i] : i \in DOMAIN l.e}
ValueOf(lists, k, v) ==
  LET u == {TxnRead(e.upd) : e \in {x \in UNION {EntriesOf(l) : l \in lists} : x.key = k}} \ {NULL}
  IN IF u = {} THEN v ELSE CHOOSE x \in u : TRUE

RowRecords(p) ==
  {<<p.rows[i].key, RowValue(p.rows[i])>> : i \in DOMAIN p.rows}
    \union {<<e.key, TxnRead(e.upd)>> : e \in UNION {EntriesOf(p.ins[h]) : h \in DOMAIN p.ins}}
FirstOf(p, i) == p.first + MapThenSumSet(LAMBDA j : p.rows[j].rle, 1 .. i - 1)
VarRecords(p) ==
  UNION {{<<k, ValueOf({p.ins[i]}, k, p.rows[i].val)>> :
             k \in FirstOf(p, i) .. FirstOf(p, i) + p.rows[i].rle - 1} : i \in DOMAIN p.rows}
    \union {<<e.key, TxnRead(e.upd)>> : e \in EntriesOf(p.append)}
FixRecords(p) ==
  LET end == Max({p.first + Entries(p) - 1} \union {e.key : e \in EntriesOf(p.append)})
  IN {<<k, ValueOf({p.ins[1], p.append}, k, IF k < p.first + Entries(p) THEN Bit(p, k) ELSE Zero)>> :
         k \in p.first .. end}
Records ==
  {r \in UNION {CASE type = "row" -> RowRecords(tree[n])
                   [] type = "var" -> VarRecords(tree[n])
                   [] type = "fix" -> FixRecords(tree[n]) : n \in DOMAIN tree} : r[2] \notin {NULL, DEL}}
Visible == LET all == Records
           IN [k \in {r[1] : r \in all} |-> (CHOOSE r \in all : r[1] = k)[2]]

Position == IF cbt.page = 0 THEN 0
            ELSE IF type # "row" THEN cbt.recno
            ELSE IF cbt.ins # 0 THEN cbt.ins ELSE tree[cbt.page].rows[cbt.slot].key

\* The search for k ends on an insert entry the session can see no update of.
EndsUnseen(k) == LET c == Searched(tree, k)
                 IN c.ins # 0 /\ InsRead(tree[c.page], c) = NULL
\* The search for k goes past the end of a column store without an append list.
EndsPast(k) == type # "row" /\ Searched(tree, k).max
\* A fixed-length page with records, and records that the append list skips after them.
Gap(p) == type = "fix" /\ Entries(p) # 0 /\ p.append.e # <<>> /\ SkipFirst(p.append) > LastRecno(p) + 1
Unseen == {k \in Keys : EndsUnseen(k)}
Past == {k \in Keys : EndsPast(k)} \union Unseen
Exempt ==
  {"search", "update", "remove"} \X Unseen
    \union {<<"insert", k, overwrite>> : k \in Unseen, overwrite \in BOOLEAN}
    \union {<<"near", k>> : k \in Past}
    \union {<<"next">> : x \in {c \in {cbt} : c.append /\ c.ins = 0}}
    \union {<<"prev">> : n \in {x \in DOMAIN tree : Gap(tree[x])}}
    \union {<<"truncate", a, b>> : a \in Past, b \in Keys \union {0}}
    \union {<<"truncate", a, b>> : a \in Keys \union {0}, b \in Past}

Promise == INSTANCE CursorMap
  WITH map <- Visible, at <- Position, fix <- type = "fix", open <- Exempt

-----------------------------------------------------------------------------
(* Properties *)

\* Type invariant: a cursor is on a page of the tree, in a slot of it, and not past the
\* last record number (by one after a search that went past the end).
TypeOK ==
  /\ type \in {"row", "var", "fix"}
  /\ last \in Keys \union {0}
  /\ cbt.page \in 0 .. Len(tree)
  /\ cbt.recno \in 0 .. last + (IF cbt.max THEN 1 ELSE 0)
  /\ cbt.ins \in Keys \union {0}
  /\ cbt.page # 0 => cbt.slot \in 0 .. Max({1, Entries(tree[cbt.page])})
  /\ out.ret \in {"ok", "notfound", "duplicate", Junk}
  /\ changes \in 0 .. 1 /\ truncates \in BOOLEAN

\* The methods of a cursor on a row store, a variable-length and a fixed-length column
\* store (search, search_near, next, prev, reset, insert, update, remove, append and
\* WT_SESSION::truncate) return and change what they would on an ordered map of the
\* records the transaction can see, whatever is on the page, on the insert lists and
\* on the update chains.  The calls of Exempt are those the code gets wrong.
IsCursor == Promise!Spec

\* A truncate that returns success leaves no record between the cursors it was given
\* (in a fixed-length store: none that is not zero), as wiredtiger.in says of
\* WT_SESSION::truncate.
TruncatedRangeIsEmpty ==
  (out.call[1] = "truncate" /\ out.ret = "ok") =>
    \A k \in DOMAIN Visible :
      (k >= out.call[2] /\ (out.call[3] = 0 \/ k <= out.call[3])) => type = "fix" /\ Visible[k] = Zero
=============================================================================

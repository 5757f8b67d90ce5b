----------------------------- MODULE MCReconcile -----------------------------
(***************************************************************************)
(* Reconciliation of every small page: an initial state holds a page as it *)
(* was read and the changes made to it since, a step reconciles it.  What  *)
(* is written is read back by a reference reader.                          *)
(***************************************************************************)
EXTENDS Reconcile, FiniteSets

CONSTANTS RowConfigs, ColConfigs, FixConfigs, IntConfigs,
          KeyList,      \* the keys of a row-store page, in order
          RowVals,      \* assignments of values to them
          MaxRecs       \* records of a column-store page

VARIABLES in, res

Config(page, split, pfx, sfx, dict) ==
  [page |-> page, split |-> split, item |-> 3, pfx |-> pfx, sfx |-> sfx, dict |-> dict, single |-> TRUE]
Whole(c) == [c EXCEPT !.page = 100, !.split = 100]
OrFail(c) == [c EXCEPT !.single = FALSE]
McVSize == [v \in {0, 1, 2, 3, 5} |-> v]
McKeys == <<<<1>>, <<1, 1, 2>>, <<1, 2, 1, 1>>, <<1, 2, 1, 2>>, <<2>>>>
McRowVals == {<<2, 2, 2, 2, 2>>, <<2, 5, 2, 0, 2>>, <<1, 3, 3, 2, 3>>}
McRow == {Config(26, 13, TRUE, TRUE, 2), Config(16, 10, TRUE, TRUE, 0), OrFail(Config(14, 14, TRUE, FALSE, 1))}
McCol == {Config(12, 6, FALSE, FALSE, 1), OrFail(Config(8, 6, FALSE, FALSE, 2))}
McFix == {Config(3, 3, FALSE, FALSE, 0), OrFail(Config(4, 4, FALSE, FALSE, 0))}
McInt == {Config(24, 10, TRUE, TRUE, 0), Config(10, 10, TRUE, FALSE, 0)}

vars == <<in, res>>

Less(a, b) == \/ Len(a) < Len(b) /\ IsPrefix(a, b)
              \/ \E i \in DOMAIN a \intersect DOMAIN b :
                   a[i] < b[i] /\ SubSeq(a, 1, i - 1) = SubSeq(b, 1, i - 1)
LessEq(a, b) == a = b \/ Less(a, b)

-----------------------------------------------------------------------------
\* The reader: keys and values of an image, every image on its own.

ReadCell(st, x) ==
  CASE x.t = "kovfl" -> [st EXCEPT !.items = Append(@, [key |-> x.d, v |-> 0])]
    [] x.t = "key" -> LET key == SubSeq(st.last, 1, Min({x.n, Len(st.last)})) \o x.d
                      IN [st EXCEPT !.items = Append(@, [key |-> key, v |-> 0]), !.last = key]
    [] OTHER -> [st EXCEPT !.items[Len(st.items)].v = x.d]
Resolved(image) == [i \in DOMAIN image.cells |-> Unpack(image.cells, i)]
ReadRows(image) ==
  FoldLeft(ReadCell, [items |-> <<>>, last |-> <<>>], Resolved(image)).items
Run(image, i) == LET x == Unpack(image.cells, i)
                 IN [j \in 1 .. image.cells[i].n |-> IF x.t = "del" THEN DEL ELSE x.d]
ReadRecs(image) == FlattenSeq([i \in DOMAIN image.cells |-> Run(image, i)])

ReadAll(r, Reader(_)) == FlattenSeq([i \in DOMAIN r.out |-> Reader(r.out[i])])

-----------------------------------------------------------------------------
\* Row-store leaf pages.  A fate for every key: not there, on the page or inserted,
\* and what was done to it since.  The overflow key of a revived row was discarded.

OnPage == {"clean", "deleted", "updated", "hidden", "revived"}
Fates == OnPage \union {"absent", "inserted", "insertedhidden"}

PageKeys(x) == SelectSeq([i \in DOMAIN KeyList |-> i], LAMBDA i : x.fate[i] \in OnPage)
NewVal(x, i) == IF x.vals[i] = 2 THEN 3 ELSE 2
Upd(x, i) == CASE x.fate[i] = "deleted" -> DEL
               [] x.fate[i] \in {"hidden", "insertedhidden"} -> SKIP
               [] x.fate[i] \in {"updated", "revived", "inserted"} -> NewVal(x, i)
               [] OTHER -> NONE

\* The page as bulk load or, where a value is empty, reconciliation wrote it, in one image;
\* overflow items get their addresses.
Addressed(cells) == [i \in DOMAIN cells |-> IF Overflow(cells[i]) THEN [cells[i] EXCEPT !.a = i] ELSE cells[i]]
Loaded(x) ==
  LET items == [n \in DOMAIN PageKeys(x) |-> [key |-> KeyList[PageKeys(x)[n]], v |-> x.vals[PageKeys(x)[n]]]]
      ins == [n \in DOMAIN items |-> [key |-> items[n].key, upd |-> items[n].v]]
  IN Addressed((IF x.bulk THEN RowBulk(Whole(x.c), items)
                ELSE RowLeaf(Whole(x.c), [ins |-> ins, rows |-> <<>>], 0, {})).out[1].cells)

Inserts(x, lo, hi) ==
  LET at == SelectSeq([i \in DOMAIN KeyList |-> i],
                      LAMBDA i : i > lo /\ i < hi /\ x.fate[i] \in {"inserted", "insertedhidden"})
  IN [n \in DOMAIN at |-> [key |-> KeyList[at[n]], upd |-> Upd(x, at[n])]]
RowOf(x, cells, n) ==
  LET i == PageKeys(x)[n]
      at == SelectSeq([j \in DOMAIN cells |-> j], LAMBDA j : cells[j].t \in {"key", "kovfl"})[n]
      hi == IF n = Len(PageKeys(x)) THEN Len(KeyList) + 1 ELSE PageKeys(x)[n + 1]
  IN [k |-> cells[at], key |-> KeyList[i], ikey |-> x.fate[i] = "revived",
      v |-> IF at < Len(cells) /\ cells[at + 1].t \notin {"key", "kovfl"} THEN <<cells[at + 1]>> ELSE <<>>,
      val |-> x.vals[i], upd |-> Upd(x, i), ins |-> Inserts(x, i, hi)]
RowPage(x, cells) ==
  [ins |-> Inserts(x, 0, IF PageKeys(x) = <<>> THEN Len(KeyList) + 1 ELSE PageKeys(x)[1]),
   rows |-> [n \in DOMAIN PageKeys(x) |-> RowOf(x, cells, n)]]
Discarded(x, page) ==
  {page.rows[n].k.a : n \in {m \in DOMAIN page.rows :
                               page.rows[m].ikey /\ Overflow(page.rows[m].k)}}
RowResult(x, page) == RowLeaf(x.c, page, x.skip, Discarded(x, page))
RowRun(x) == RowResult(x, RowPage(x, IF PageKeys(x) = <<>> THEN <<>> ELSE Loaded(x)))

\* Salvage skips leading rows of pages without changes.
RowSkips(fate) == IF \A i \in DOMAIN fate : fate[i] \in {"clean", "absent"}
                  THEN 0 .. Cardinality({i \in DOMAIN fate : fate[i] = "clean"}) ELSE {0}
InitRow ==
  \E c \in RowConfigs, vals \in RowVals, some \in [1 .. 3 -> Fates],
     rest \in [1 .. Len(KeyList) - 3 -> {"clean", "inserted", "absent"}] :
    \E skip \in RowSkips(some \o rest), bulk \in {TRUE, 0 \notin ToSet(vals)} :
      in = [kind |-> "row", c |-> c, vals |-> vals, fate |-> some \o rest, skip |-> skip, bulk |-> bulk]

LiveRows(x) ==
  SelectSeq([i \in DOMAIN KeyList |-> i],
            LAMBDA i : /\ x.fate[i] \notin {"absent", "deleted", "insertedhidden"}
                       /\ x.skip = 0 \/ Cardinality({j \in 1 .. i : x.fate[j] \in OnPage}) > x.skip)
RowExpected(x) ==
  [n \in DOMAIN LiveRows(x) |->
     LET i == LiveRows(x)[n]
     IN [key |-> KeyList[i], v |-> IF x.fate[i] \in {"clean", "hidden"} THEN x.vals[i] ELSE NewVal(x, i)]]

-----------------------------------------------------------------------------
\* Column-store leaf pages: the records of the page, an update for some of them, and
\* what is appended one and three records after it.

VarLoad(c, vals) ==
  IF vals = <<>> THEN <<>>
  ELSE Addressed(ColVar(Whole(c), [recno |-> 1, cells |-> <<>>, ins |-> <<>>,
                                   app |-> [i \in DOMAIN vals |-> [recno |-> i, upd |-> vals[i]]]],
                        NoSalvage).out[1].cells)
UpdList(ups) == LET at == SelectSeq([i \in DOMAIN ups |-> i], LAMBDA i : ups[i] # NONE)
                IN [n \in DOMAIN at |-> [recno |-> at[n], upd |-> ups[at[n]]]]
AppList(x) == SelectSeq(<<[recno |-> Len(x.vals) + 1, upd |-> x.app[1]],
                          [recno |-> Len(x.vals) + 3, upd |-> x.app[2]]>>, LAMBDA i : i.upd # NONE)
VarRun(x) == ColVar(x.c, [recno |-> x.first, cells |-> VarLoad(x.c, x.vals), ins |-> UpdList(x.ups),
                          app |-> AppList(x)], x.sv)
FixRun(x) ==
  IF x.sv.on THEN ColFixSlvg(x.c, [recno |-> x.first, vals |-> x.vals], x.sv)
  ELSE ColFix(x.c, [recno |-> x.first, vals |-> x.vals, ins |-> UpdList(x.ups), app |-> AppList(x)])


\* Pages with changes: at most two updated records, appended records or both.
InitCol(kind, configs, values) ==
  \E c \in configs, n \in 0 .. MaxRecs, app \in [1 .. 2 -> ({NONE, SKIP} \union values) \ {5}] :
    \E vals \in [1 .. n -> values], ups \in [1 .. n -> {NONE, SKIP} \union values] :
      /\ n = 0 => app # <<NONE, NONE>>
      /\ kind = "fix" => n <= c.page - HDR
      /\ Cardinality({i \in 1 .. n : ups[i] # NONE}) <= (IF app = <<NONE, NONE>> THEN 2 ELSE 1)
      /\ in = [kind |-> kind, c |-> c, vals |-> vals, ups |-> ups, app |-> app, sv |-> NoSalvage, first |-> 1]
\* Salvage meets pages without changes and takes some record of the page.
InitSlvg(kind, configs, values) ==
  \E c \in configs, n \in 1 .. MaxRecs, skip \in 0 .. MaxRecs - 1, take \in 1 .. MaxRecs, missing \in 0 .. 1 :
    \E vals \in [1 .. n -> values] :
      /\ skip + take <= n
      /\ kind = "fix" => n <= c.page - HDR
      /\ in = [kind |-> kind, c |-> c, vals |-> vals, ups |-> [i \in 1 .. n |-> NONE], app |-> <<NONE, NONE>>,
               sv |-> [on |-> TRUE, skip |-> skip, take |-> take, missing |-> missing, done |-> FALSE],
               first |-> 1]

Updated(x, old) ==
  LET base == [i \in DOMAIN x.vals |-> IF Seen(x.ups[i]) = NONE THEN x.vals[i] ELSE x.ups[i]]
      a1 == IF Seen(x.app[1]) = NONE THEN <<>> ELSE <<x.app[1]>>
      a2 == IF Seen(x.app[2]) = NONE THEN a1
            ELSE (IF a1 = <<>> THEN <<old>> ELSE a1) \o <<old, x.app[2]>>
  IN base \o a2
\* The records of a salvaged page after the first skip of them.
SlvgExpected(x, old, skip) ==
  [i \in 1 .. x.sv.missing |-> old] \o SubSeq(x.vals, skip + 1, skip + x.sv.take)
\* What the code skips of a variable-length page: whole runs.
RunsSkipped(x) ==
  IF x.kind = "fix" THEN x.sv.skip
  ELSE Max({i \in 0 .. x.sv.skip : i = 0 \/ x.vals[i] # x.vals[i + 1]})
ColExpected(x, old) == IF x.sv.on THEN SlvgExpected(x, old, RunsSkipped(x)) ELSE Updated(x, old)

-----------------------------------------------------------------------------
\* Internal pages: three children, any of them replaced by a split page of two
\* children whose first key is larger than the key of the page it replaces, and one
\* more level below the second.

Ref(id, key, recno, st, kids) ==
  [id |-> id, key |-> key, recno |-> recno, st |-> st, kids |-> kids, lno |-> FALSE,
   k |-> IF id < 10 /\ Len(key) > 3 THEN <<Cell("kovfl", 0, key, id, 1 + ADDR)>> ELSE <<>>]
Low == {"disk", "empty", "gone"}
Pairs(id, k1, k2, recno, states) ==
  {<<Ref(id + 1, k1, recno, a, <<>>), Ref(id + 2, k2, recno + 2, b, <<>>)>> : a \in states, b \in states}
Nested == {<<Ref(21, <<1, 2, 1>>, 11, "split", kids), Ref(22, <<1, 3>>, 15, b, <<>>)>> :
             kids \in Pairs(210, <<1, 2, 1, 1>>, <<1, 2, 2>>, 11, {"disk", "empty"}), b \in {"disk", "empty"}}
Tops(id, key, recno, kids) ==
  {Ref(id, key, recno, st, <<>>) : st \in Low \union {"proxy", "hidden"}}
  \union {Ref(id, key, recno, "split", k) : k \in kids}
InitInt(kind) ==
  \E c \in IntConfigs,
     a \in Tops(1, <<1>>, 1, Pairs(10, <<1, 1>>, <<1, 1, 1>>, 1, Low)),
     b \in Tops(2, <<1, 2>>, 11, Pairs(20, <<1, 2, 1>>, <<1, 3>>, 11, Low) \union Nested),
     d \in Tops(3, <<2, 1, 1, 1>>, 21, Pairs(30, <<2, 1, 1, 2>>, <<2, 2>>, 21, Low)) :
    /\ kind = "colint" => \A ref \in {a, b, d} : /\ ref.st \in {"disk", "empty", "split"}
                                                 /\ \A i \in DOMAIN ref.kids : ref.kids[i].st # "gone"
    /\ in = [kind |-> kind, c |-> c, refs |-> <<a, b, d>>]

\* The children that remain, and the keys a search finds them with.
RECURSIVE Ranges(_, _, _)
Ranges(refs, lo, hi) ==
  UNION {LET l == IF i = 1 THEN lo ELSE refs[i].key
             h == IF i = Len(refs) THEN hi ELSE refs[i + 1].key
         IN IF refs[i].st \in {"empty", "gone"} THEN {}
            ELSE IF refs[i].st = "split" THEN Ranges(refs[i].kids, l, h)
            ELSE {[id |-> refs[i].id, lo |-> l, hi |-> h, recno |-> refs[i].recno]} : i \in DOMAIN refs}

-----------------------------------------------------------------------------
\* The bulk loads, in the same configurations.

InitBulk ==
  \/ \E c \in RowConfigs, vals \in RowVals, n \in 1 .. Len(KeyList) :
       in = [kind |-> "rowbulk", c |-> c, vals |-> vals, n |-> n]
  \/ \E c \in ColConfigs, n \in 1 .. MaxRecs : \E vals \in [1 .. n -> {2, 3, 5} \X (1 .. 2)] :
       in = [kind |-> "varbulk", c |-> c, vals |-> vals]
  \/ \E c \in FixConfigs, n \in 1 .. 2 * MaxRecs, by \in 0 .. 4 :
       in = [kind |-> "fixbulk", c |-> c, n |-> n, by |-> by]

\* The records 1 to n one by one, or in bitmaps of so many.
FixItems(n, by) ==
  IF by = 0 THEN [i \in 1 .. n |-> [bitmap |-> FALSE, vals |-> <<i>>]]
  ELSE [i \in 1 .. (n + by - 1) \div by |->
          [bitmap |-> TRUE, vals |-> [j \in 1 .. Min({by, n - (i - 1) * by}) |-> (i - 1) * by + j]]]

Result(x) ==
  CASE x.kind = "row" -> RowRun(x)
    [] x.kind = "var" -> VarRun(x)
    [] x.kind = "fix" -> FixRun(x)
    [] x.kind = "rowint" -> RowInt(x.c, x.refs)
    [] x.kind = "colint" -> ColInt(x.c, 1, x.refs)
    [] x.kind = "rowbulk" -> RowBulk(x.c, [i \in 1 .. x.n |-> [key |-> KeyList[i], v |-> x.vals[i]]])
    [] x.kind = "varbulk" -> VarBulk(x.c, [i \in DOMAIN x.vals |-> [v |-> x.vals[i][1], n |-> x.vals[i][2]]])
    [] x.kind = "fixbulk" -> FixBulk(x.c, FixItems(x.n, x.by))

Init == /\ \/ InitRow \/ InitInt("rowint") \/ InitInt("colint") \/ InitBulk
           \/ InitCol("var", ColConfigs, {DEL, 3, 5}) \/ InitCol("fix", FixConfigs, {1, 2})
           \/ InitSlvg("var", ColConfigs, {DEL, 3, 5}) \/ InitSlvg("fix", FixConfigs, {1, 2})
        /\ res = <<>>
Next == res = <<>> /\ res' = <<RecWrite(Result(in))>> /\ UNCHANGED in
Spec == Init /\ [][Next]_vars

-----------------------------------------------------------------------------
Done(kinds) == res # <<>> /\ ~res[1].busy /\ in.kind \in kinds

Expected ==
  CASE in.kind = "row" -> RowExpected(in)
    [] in.kind = "rowbulk" -> [i \in 1 .. in.n |-> [key |-> KeyList[i], v |-> in.vals[i]]]
    [] in.kind = "var" -> ColExpected(in, DEL)
    [] in.kind = "fix" -> ColExpected(in, 0)
    [] in.kind = "varbulk" -> FlattenSeq([i \in DOMAIN in.vals |-> [j \in 1 .. in.vals[i][2] |-> in.vals[i][1]]])
    [] in.kind = "fixbulk" -> [i \in 1 .. in.n |-> i]

\* Every image fits: a page that is not split in the maximum page size, every other
\* in the split size; none is empty and each header counts its own cells
\* (__rec_incr's and __rec_split_finish's assertions).
ImagesFit ==
  res # <<>> =>
    /\ Len(res[1].out) = res[1].next
    /\ \A i \in DOMAIN res[1].out :
         /\ HDR + Bytes(res[1].out[i].cells) <= (IF res[1].next = 1 THEN in.c.page ELSE res[1].split)
         /\ res[1].out[i].entries = Len(res[1].out[i].cells) /\ res[1].out[i].entries > 0

\* The images, each read on its own, hold exactly the rows or records the
\* reconciliation can see, in order, and fit: no row is lost, repeated or given the value of
\* another where the page is split, prefix-compressed, run-length or dictionary
\* encoded (rec_write.c, __rec_row_leaf, __rec_col_var, __rec_col_fix and bulk load).
\* Where salvage is to skip a part of a run of equal values (rec_write.c:1874) they hold
\* what it takes counted from the start of the run instead.
ImagesHoldThePage ==
  /\ Done({"row", "rowbulk"}) => ReadAll(res[1], ReadRows) = Expected
  /\ Done({"var", "fix", "varbulk", "fixbulk"}) => ReadAll(res[1], ReadRecs) = Expected
  /\ ImagesFit

\* What rec_write.c:1858 says of salvage ("Occasionally, salvage needs to discard records
\* from the beginning or end of the page, and because the items may be part of a RLE cell,
\* do the adjustments here"), without the exception of ImagesHoldThePage.
SalvageSkipsRecords ==
  Done({"var"}) /\ in.sv.on => ReadAll(res[1], ReadRecs) = SlvgExpected(in, DEL, in.sv.skip)

\* A search in the parent finds every row: the key promoted for an image is larger
\* than every key of the image before it and no larger than its own first key,
\* suffix truncation included (__rec_split_row_promote); the record number of an
\* image is that of its first record.
PromotedKeysSeparate ==
  /\ Done({"row", "rowbulk"}) =>
       \A i \in 2 .. res[1].next :
         LET before == ReadRows(res[1].out[i - 1])
         IN /\ Less(before[Len(before)].key, res[1].bnd[i].key)
            /\ LessEq(res[1].bnd[i].key, ReadRows(res[1].out[i])[1].key)
  /\ Done({"var", "fix", "varbulk", "fixbulk"}) =>
       \A i \in 1 .. res[1].next :
         res[1].out[i].recno = 1 + Len(ReadAll([out |-> SubSeq(res[1].out, 1, i - 1)], ReadRecs))

\* Merging split pages into their parent keeps every remaining child, in order, and
\* every key it could hold is still searched for in it: the first key of a merged
\* page is replaced by its parent's (__rec_row_merge).
MergeKeepsRanges ==
  /\ Done({"rowint"}) =>
       LET rows == FlattenSeq([i \in DOMAIN res[1].out |->
                     [j \in DOMAIN ReadRows(res[1].out[i]) |->
                        IF i > 1 /\ j = 1 THEN [ReadRows(res[1].out[i])[j] EXCEPT !.key = res[1].bnd[i].key]
                        ELSE ReadRows(res[1].out[i])[j]]])
           ranges == Ranges(in.refs, <<>>, <<9>>)
       IN /\ {rows[i].v : i \in DOMAIN rows} = {g.id : g \in ranges}
          /\ Len(rows) = Cardinality(ranges)
          /\ \A i \in DOMAIN rows : \E g \in ranges :
               /\ g.id = rows[i].v
               /\ i > 1 => LessEq(rows[i].key, g.lo)
               /\ i < Len(rows) => LessEq(g.hi, rows[i + 1].key)
  /\ Done({"colint"}) =>
       LET cells == FlattenSeq([i \in DOMAIN res[1].out |-> res[1].out[i].cells])
       IN /\ {[id |-> cells[i].d, recno |-> cells[i].n] : i \in DOMAIN cells}
               = {[id |-> g.id, recno |-> g.recno] : g \in Ranges(in.refs, <<>>, <<9>>)}
          /\ \A i \in 2 .. Len(cells) : cells[i - 1].n < cells[i].n
          /\ \A i \in 2 .. res[1].next : res[1].bnd[i].recno = res[1].out[i].cells[1].n

OutCells == UNION {ToSet(res[1].out[i].cells) : i \in DOMAIN res[1].out}
Uses(a) == {<<i, j>> \in (DOMAIN res[1].out) \X (1 .. 20) :
              /\ j \in DOMAIN res[1].out[i].cells
              /\ Overflow(res[1].out[i].cells[j]) /\ res[1].out[i].cells[j].a = a}
OldOverflow ==
  CASE in.kind = "row" -> {x.a : x \in {y \in ToSet(IF PageKeys(in) = <<>> THEN <<>> ELSE Loaded(in)) : Overflow(y)}}
    [] in.kind = "var" -> {x.a : x \in {y \in ToSet(VarLoad(in.c, in.vals)) : Overflow(y)}}
    [] in.kind = "rowint" -> UNION {{x.a : x \in ToSet(in.refs[i].k)} : i \in DOMAIN in.refs}

\* An overflow item of the page that was read is either referenced once by what is
\* written or tracked for discard, never both and never neither; an image marked as
\* having no overflow items, which fast delete may drop unread, has none.
OverflowKeptOrDiscarded ==
  /\ Done({"row", "var", "rowint"}) /\ (in.kind # "rowint" => (IF in.kind = "row" THEN in.skip = 0 ELSE ~in.sv.on)) =>
       \A a \in OldOverflow : Cardinality(Uses(a)) = (IF a \in res[1].track THEN 0 ELSE 1)
  /\ res # <<>> =>
       \A i \in DOMAIN res[1].out :
         res[1].out[i].lno => \A x \in ToSet(res[1].out[i].cells) : ~Overflow(x)
=============================================================================

------------------------------- MODULE MCCursor -------------------------------
(***************************************************************************)
(* Small trees of the three kinds for BtCursor: every placement of three   *)
(* keys (or record numbers) on one leaf page, or on two with the first key *)
(* alone on the first, each with an update chain; key 4 is never there.    *)
(***************************************************************************)
EXTENDS BtCursor

Hidden == <<[vis |-> FALSE, val |-> "other"]>>
Gone == <<[vis |-> TRUE, val |-> DEL]>>
Newer == <<[vis |-> FALSE, val |-> "other"], [vis |-> TRUE, val |-> "upd"]>>

Spots == 1 .. 3
\* The elements of a set of numbers in order.
InOrder(s) == [i \in 1 .. Cardinality(s) |-> CHOOSE k \in s : Cardinality({x \in s : x <= k}) = i]
List(s, chain) == LET o == InOrder(s)
                  IN [e |-> [i \in DOMAIN o |-> [key |-> o[i], upd |-> chain[o[i]]]],
                      tail |-> IF s = {} THEN 0 ELSE Max(s)]
\* The pages' keys: the first key alone on a page, or everything on one.
Split(two) == IF two THEN <<<<1, 1>>, <<2, 3>>>> ELSE <<<<1, 3>>>>
Tree(t, end, ps, ch, trunc) ==
  [type |-> t, last |-> end, pages |-> ps, changes |-> ch, truncates |-> trunc]

\* Row store: each key is absent, a row or an insert.
RowPageOf(lo, hi, where, chain) ==
  LET at(w) == {k \in lo .. hi : where[k] = w}
      on == InOrder(at("row"))
      rows == [i \in DOMAIN on |-> [key |-> on[i], val |-> "disk", upd |-> chain[on[i]]]]
      after(i) == {k \in at("ins") : (i = 0 \/ k > rows[i].key) /\ (i = Len(rows) \/ k < rows[i + 1].key)}
  IN [first |-> lo, rows |-> rows, repeats |-> <<>>, append |-> EmptyList,
      ins |-> [i \in 0 .. Len(rows) |-> List(after(i), chain)]]
RowTrees(chains, two, ch) ==
  {Tree("row", 0, [p \in DOMAIN Split(two) |-> RowPageOf(Split(two)[p][1], Split(two)[p][2], w, c)], ch, TRUE) :
     <<w, c>> \in {x \in [Spots -> {"none", "row", "ins"}] \X [Spots -> chains] :
                     /\ \A k \in Spots : /\ x[1][k] = "none" => x[2][k] = <<>>
                                         /\ x[1][k] = "row" => x[2][k] # Hidden
                                         /\ x[1][k] = "ins" => x[2][k] # <<>>
                     /\ \A p \in DOMAIN Split(two) : two => \E k \in Split(two)[p][1] .. Split(two)[p][2] : x[1][k] = "row"}}

\* Column stores: records 1..n are on the pages, later ones with a chain are appended.
\* Equal neighbours of a variable-length page share a cell if rle is set.
Appends(n, chain) == {k \in n + 1 .. 3 : chain[k] # <<>>}
Merge(vals, rle) ==
  LET f[i \in 0 .. Len(vals)] ==
        IF i = 0 THEN <<>>
        ELSE IF rle /\ i > 1 /\ vals[i] = vals[i - 1] THEN [f[i - 1] EXCEPT ![Len(f[i - 1])].rle = @ + 1]
        ELSE Append(f[i - 1], [val |-> vals[i], rle |-> 1])
  IN f[Len(vals)]
VarPageOf(lo, hi, n, vals, rle, chain) ==
  LET rows == Merge([i \in 1 .. Min({hi, n}) - lo + 1 |-> vals[lo + i - 1]], rle)
      p == [first |-> lo, rows |-> rows, repeats |-> <<>>, ins |-> <<>>,
            append |-> List(IF hi = 3 THEN Appends(n, chain) ELSE {}, chain)]
      cell(i) == FirstOf(p, i) .. FirstOf(p, i) + rows[i].rle - 1
      cells == {i \in DOMAIN rows : rows[i].rle > 1}
      runs == InOrder(cells)
  IN [p EXCEPT !.repeats = [j \in DOMAIN runs |-> [indx |-> runs[j], recno |-> FirstOf(p, runs[j]), rle |-> rows[runs[j]].rle]],
               !.ins = [i \in DOMAIN rows |-> List({k \in cell(i) : chain[k] # <<>>}, chain)]]
FixPageOf(lo, hi, n, chain) ==
  [first |-> lo, repeats |-> <<>>, rows |-> [i \in 1 .. Min({hi, n}) - lo + 1 |-> [val |-> "disk"]],
   ins |-> <<List({k \in lo .. Min({hi, n}) : chain[k] # <<>>}, chain)>>,
   append |-> List(IF hi = 3 THEN Appends(n, chain) ELSE {}, chain)]
EndOf(n, chain) == Max({n} \union Appends(n, chain))

VarTrees(chains, ns, vals, rle, two, ch, trunc) ==
  {Tree("var", EndOf(n, c), [p \in DOMAIN Split(two) |-> VarPageOf(Split(two)[p][1], Split(two)[p][2], n, vals, rle, c)], ch, trunc) :
     n \in ns, c \in [Spots -> chains]}
FixTrees(chains, ns, two, ch) ==
  {Tree("fix", EndOf(n, c), [p \in DOMAIN Split(two) |-> FixPageOf(Split(two)[p][1], Split(two)[p][2], n, c)], ch, TRUE) :
     n \in ns, c \in [Spots -> chains]}

Disk == <<"disk", "disk", "disk">>
Holes == <<"disk", DEL, DEL>>
AllTrees ==
  UNION {RowTrees({<<>>, Hidden, Gone, Newer}, FALSE, 0), RowTrees({<<>>, Newer}, FALSE, 1),
         RowTrees({<<>>, Gone}, TRUE, 1),
         VarTrees({<<>>, Hidden, Gone, Newer}, {0, 2, 3}, Disk, TRUE, FALSE, 0, FALSE),
         VarTrees({<<>>, Newer}, {1, 3}, Holes, TRUE, FALSE, 1, FALSE),
         VarTrees({<<>>, Gone}, {2, 3}, Disk, FALSE, TRUE, 1, TRUE),
         FixTrees({<<>>, Hidden, Newer}, {0, 1, 3}, FALSE, 0),
         FixTrees({<<>>, Newer}, {0, 2}, FALSE, 1), FixTrees({<<>>, Newer}, {2}, TRUE, 1)}
\* The trees truncate goes wrong on: cells of a variable-length page that repeat.
RepeatTrees == VarTrees({<<>>, Newer}, {2, 3}, Disk, TRUE, FALSE, 1, TRUE)
=============================================================================

------------------------------ MODULE MCSalvage ------------------------------
(***************************************************************************)
(* Small damaged files for Salvage: two or three leaf pages that overlap   *)
(* in every way, with overflow items that are shared, lost or unused, and  *)
(* blocks of every other kind between them.                                *)
(***************************************************************************)
EXTENDS Salvage

CONSTANTS MaxKey,     \* the largest key of files without overflow items
          MaxOvflKey  \* the largest key of files with overflow items

\* A page at address a written after the ones before it; of[k] is the overflow item of k.
RowPage(a, ks, of) ==
  LET q == SetToSortSeq(ks, <)
  IN [kind |-> "leaf", gen |-> a,
      cells |-> [n \in DOMAIN q |-> [lo |-> q[n], hi |-> q[n], ovfl |-> of[q[n]], val |-> <<a, n>>]]]
\* Records first .. last, of which the first two are one run if run.
ColPage(a, first, last, run) ==
  LET from(n) == IF run /\ n > 1 THEN first + n ELSE first + n - 1
      to(n) == IF run THEN first + n ELSE first + n - 1
  IN [kind |-> "leaf", gen |-> a,
      cells |-> [n \in 1 .. (last - first + 1) - (IF run THEN 1 ELSE 0) |->
                   [lo |-> from(n), hi |-> to(n), ovfl |-> 0, val |-> <<a, n>>]]]
Plain(a, ks) == RowPage(a, ks, [k \in ks |-> 0])
Block(kind) == [kind |-> kind, gen |-> 9, cells |-> <<>>]

KeySets(n) == SUBSET (1 .. n) \ {{}}
RowFiles ==
  {[type |-> "row", blocks |-> <<Plain(1, x), Plain(2, y), Plain(3, z)>>] : x, y, z \in KeySets(MaxKey)}

ColPages(a) ==
  {ColPage(a, p[1], p[2], FALSE) : p \in {q \in (1 .. MaxKey) \X (1 .. MaxKey) : q[1] <= q[2]}}
  \union {ColPage(a, p[1], p[2], TRUE) : p \in {q \in (1 .. MaxKey) \X (1 .. MaxKey) : q[1] < q[2]}}
ColFiles == {[type |-> "col", blocks |-> <<x, y, z>>] : x \in ColPages(1), y \in ColPages(2), z \in ColPages(3)}

\* Two pages and two overflow pages, the first of which may be damaged.
OvflPages(a) == UNION {{RowPage(a, ks, of) : of \in [ks -> {0, 3, 4}]} : ks \in KeySets(MaxOvflKey)}
OvflFiles ==
  {[type |-> "row", blocks |-> <<x, y, o, Block("ovfl")>>] :
     x \in OvflPages(1), y \in OvflPages(2), o \in {Block("ovfl"), Torn}}
ColOvflFiles ==
  {[type |-> "col", blocks |-> <<RowPage(1, 1 .. 3, [k \in 1 .. 3 |-> IF k = m THEN 3 ELSE 0]), Plain(2, n .. n), o>>] :
     m, n \in 1 .. 3, o \in {Block("ovfl"), Torn}}
OtherFiles ==
  {[type |-> "row", blocks |-> <<Block(k), Plain(2, {1, 2}), Block(l), Plain(4, {2})>>] :
     k, l \in {"int", "bad", "torn", "other", "ovfl"}}

\* The second page is split, the end of it discarded, and the first page written.
SharedFiles ==
  {[type |-> t, blocks |-> <<Plain(1, 1 .. 2), Plain(2, 2 .. 4), Plain(3, {3}), Plain(4, {4})>>] : t \in {"row", "col"}}

MCFiles == RowFiles \union ColFiles \union OvflFiles \union ColOvflFiles \union OtherFiles \union SharedFiles
=============================================================================

---------------------------- MODULE MCPageBlocks ----------------------------
(***************************************************************************)
(* Pages for PageBlocks: a row changed three times, long enough for its    *)
(* key to be discarded, written again and re-used; rows and single records *)
(* under readers; two records that share a value.                          *)
(***************************************************************************)
EXTENDS PageBlocks

Setup(kind, vals, isos, items, max, recs) ==
  [kind |-> kind, vals |-> vals, isos |-> isos, items |-> items, max |-> max, recs |-> recs]

All == {"big", "small", "del"}
MCSetups ==
  {Setup("row", {"small", "del"}, {}, {}, 3, 3),
   Setup("row", {"big", "del"}, {"snapshot"}, {"val", "key"}, 2, 3),
   Setup("col1", All, {"snapshot", "uncommitted"}, {"val"}, 2, 2),
   Setup("col2", {"big", "small"}, {"snapshot"}, {"val"}, 2, 3)}
=============================================================================

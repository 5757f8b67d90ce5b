-------------------------------- MODULE MCRows --------------------------------
(***************************************************************************)
(* The instance of Rows that TLC checks: two sessions, one key.            *)
(***************************************************************************)
EXTENDS Rows, TLC

CONSTANTS s1, s2

Pair(a, b) == s1 :> a @@ s2 :> b

Clean(iso) == [isolation |-> iso, levels |-> {}, write_gen |-> 0, disk_gen |-> 0, recs |-> 0]

\* Every pair of isolation levels with a session that reads by snapshots; transactions
\* begun at a level that is not their session's; and a page changed so often since it was
\* written that its write generation is two short of the disk generation.
Starts ==
  {Clean(Pair("snapshot", "snapshot")), Clean(Pair("snapshot", "read-committed")),
   Clean(Pair("read-committed", "read-committed")), Clean(Pair("snapshot", "read-uncommitted")),
   Clean(Pair("read-committed", "read-uncommitted")),
   [Clean(Pair("read-committed", "read-committed")) EXCEPT !.levels = {"snapshot", "read-uncommitted"}],
   [Clean(Pair("snapshot", "read-committed")) EXCEPT !.write_gen = UINT_MAX, !.disk_gen = 1, !.recs = 1]}
=============================================================================

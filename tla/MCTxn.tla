------------------------------- MODULE MCTxn -------------------------------
(* Four applications: one with every isolation level, one where a session  *)
(* evicts pages while another runs transactions, one where both sessions   *)
(* evict pages, and one with two cursors.                                  *)
EXTENDS TxnGlobal

MCUses ==
  {[ids |-> 3, cursors |-> 1, evictors |-> {},
    isolations |-> {"read-uncommitted", "read-committed", "snapshot"}],
   [ids |-> 4, cursors |-> 0, evictors |-> {0}, isolations |-> {"snapshot"}],
   [ids |-> 3, cursors |-> 0, evictors |-> {0, 1}, isolations |-> {"snapshot"}],
   [ids |-> 2, cursors |-> 2, evictors |-> {0}, isolations |-> {"read-committed"}]}
=============================================================================

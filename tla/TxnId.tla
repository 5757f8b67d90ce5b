------------------------------- MODULE TxnId -------------------------------
(***************************************************************************)
(* Transaction identifiers (wt_txnid_t): unsigned integers that wrap, with *)
(* two reserved values, compared through a window of half their range.     *)
(* UINT_MAX stands for UINT32_MAX; a run gives it a small value of the     *)
(* same form, 2^w - 1.                                                     *)
(***************************************************************************)
EXTENDS Integers

CONSTANTS UINT_MAX,         \* largest value of the identifier type
          TXN_WRAP_BUFFER   \* slack of the "ancient" test (txn.i: 1000000)

ASSUME UintMaxAssumption == UINT_MAX \in Nat /\ UINT_MAX >= 7
ASSUME WrapBufferAssumption ==
  TXN_WRAP_BUFFER \in Nat /\ TXN_WRAP_BUFFER < UINT_MAX \div 2

WT_TXN_NONE == 0

WT_TXN_ABORTED == UINT_MAX

TxnIds == 0 .. UINT_MAX

\* The identifiers a transaction can have.
RealIds == TxnIds \ {WT_TXN_NONE, WT_TXN_ABORTED}

\* Unsigned subtraction and increment at the width of the type.
Sub(a, b) == IF a >= b THEN a - b ELSE a - b + UINT_MAX + 1

Incr(a) == IF a = UINT_MAX THEN 0 ELSE a + 1

TXNID_LE(t1, t2) ==
  /\ t1 # WT_TXN_ABORTED
  /\ t2 # WT_TXN_NONE
  /\ \/ t1 = WT_TXN_NONE
     \/ t2 = WT_TXN_ABORTED
     \/ Sub(t2, t1) < UINT_MAX \div 2

TXNID_LT(t1, t2) == t1 # t2 /\ TXNID_LE(t1, t2)

\* The earlier of two identifiers, as the scans of the state table keep it.
OlderOf(id, oldest) == IF TXNID_LT(id, oldest) THEN id ELSE oldest

TXN_WINDOW == UINT_MAX \div 2 - TXN_WRAP_BUFFER

\* __wt_txn_ancient
TxnAncient(id, current) ==
  id # WT_TXN_NONE /\ TXNID_LT(id, Sub(current, TXN_WINDOW))
=============================================================================

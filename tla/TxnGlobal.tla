----------------------------- MODULE TxnGlobal -----------------------------
(***************************************************************************)
(* The global transaction table: how a session allocates a transaction     *)
(* identifier, takes a snapshot of the running transactions, pins the      *)
(* oldest identifier it still needs, and gives all of it back, with no     *)
(* latch.  Every read or write of WT_TXN_GLOBAL.current and of a session's *)
(* WT_TXN_STATE is a step of its own; work on session-private data is part *)
(* of the step before it.  Updates are not in this module: what is decided *)
(* here is which identifiers a session takes for visible.                  *)
(***************************************************************************)
EXTENDS TxnId, Sequences, SequencesExt

CONSTANTS NSessions,   \* sessions are the slots 0 .. NSessions - 1 of states[]
          Uses         \* what an application may do, see UsesAssumption

ASSUME NSessionsAssumption == NSessions \in Nat \ {0}
\* An application asks for the identifiers up to ids (a bound) and for some
\* isolation levels, has up to cursors active file cursors in a session (a
\* bound), and some of its sessions evict pages.
ASSUME UsesAssumption ==
  \A u \in Uses :
    /\ u.ids \in 1 .. UINT_MAX /\ u.cursors \in Nat
    /\ u.isolations \subseteq {"read-uncommitted", "read-committed", "snapshot"}
    /\ u.evictors \subseteq 0 .. NSessions - 1

VARIABLES current,    \* WT_TXN_GLOBAL.current
          states,     \* WT_TXN_GLOBAL.states: published id and snap_min
          txn,        \* session->txn
          isolation,  \* session->isolation, the session's default
          ncursors,   \* session->ncursors
          pc,         \* where the session is in the code below
          loc,        \* its local variables
          saved,      \* __evict_page's saved_txn
          asked,      \* history: the isolation the application configured
          done,       \* history: identifiers of transactions that committed
          base,       \* history: done before and after the session's snapshot
          unpinned,   \* history: sessions whose eviction gave up what they had published
          use         \* what the application does

shared == <<current, states>>
history == <<asked, done, base, unpinned>>
vars == <<current, states, txn, isolation, ncursors, pc, loc, saved,
          asked, done, base, unpinned, use>>

Sessions == 0 .. NSessions - 1

\* Local variables of a scan: slot, copy of current, identifiers found,
\* oldest snap_min found, my_id, and where to go when the scan is done.
NoLoc == [i |-> 0, cur |-> 0, n |-> <<>>, oldest |-> 0, my |-> 0, ret |-> "app"]

NoBase == [lo |-> {}, hi |-> {}]

\* __wt_txn_init
TxnInit == [id |-> WT_TXN_NONE, iso |-> "read-committed", running |-> FALSE,
            auto |-> FALSE, snap_min |-> 0, snap_max |-> 0, snap |-> <<>>,
            count |-> 0, oldest |-> 0]

\* __wt_txn_global_init, and each session's __wt_txn_init
Init ==
  /\ current = 1
  /\ states = [s \in Sessions |-> [id |-> WT_TXN_NONE, snap_min |-> WT_TXN_NONE]]
  /\ use \in Uses
  /\ asked \in [Sessions -> use.isolations]
  /\ isolation = asked
  /\ txn = [s \in Sessions |-> [TxnInit EXCEPT !.iso = asked[s]]]
  /\ ncursors = [s \in Sessions |-> 0]
  /\ pc = [s \in Sessions |-> "app"]
  /\ loc = [s \in Sessions |-> NoLoc]
  /\ saved = [s \in Sessions |-> TxnInit]
  /\ done = {}
  /\ base = [s \in Sessions |-> NoBase]
  /\ unpinned = {}

Goto(s, l) == pc' = [pc EXCEPT ![s] = l]
SetSnapMin(s, v) == states' = [states EXCEPT ![s].snap_min = v]

-----------------------------------------------------------------------------
(* Snapshots as session-private data.                                      *)

\* qsort of the new identifiers; the rest of the array keeps what it held.
Overwrite(old, new) ==
  SortSeq(new, TXNID_LT) \o SubSeq(old, Len(new) + 1, Len(old))

\* __txn_sort_snapshot
SortSnapshot(t, n, id, oldest) ==
  LET buf == Overwrite(t.snap, n)
      min == IF n = <<>> THEN id ELSE buf[1]
  IN [t EXCEPT !.snap = buf, !.count = Len(n), !.snap_min = min,
               !.snap_max = id, !.oldest = OlderOf(oldest, min)]

\* __wt_txn_visible, for an identifier of an ordinary file
Visible(s, id) ==
  LET t == txn[s]
  IN /\ id # WT_TXN_ABORTED
     /\ \/ id = WT_TXN_NONE
        \/ id = t.id
        \/ t.iso = "read-uncommitted"
        \/ /\ ~ TXNID_LT(t.snap_max, id)
           /\ \/ t.count = 0
              \/ TXNID_LT(id, t.snap_min)
              \/ id \notin ToSet(SubSeq(t.snap, 1, t.count))

\* The calls of __wt_txn_read_first and __wt_txn_read_last that use a
\* snapshot, not only a pinned identifier.
ReadsBySnapshot(t) ==
  t.iso = "read-committed" \/ (~ t.running /\ t.iso = "snapshot")

\* __wt_txn_release_snapshot's effect on the session's own copy.  The code
\* leaves the other fields as they are; nothing reads them before the next
\* snapshot is stored, so they are reset to keep the state space small.
DropSnapshot(t) == [t EXCEPT !.count = 0, !.snap = <<>>, !.snap_min = 0,
                             !.snap_max = 0, !.oldest = 0]

-----------------------------------------------------------------------------
(* Scans of states[].                                                      *)

\* The next slot to read; the scan is over when it is NSessions.
Slot(s, i, skipOwn) == IF skipOwn /\ i = s THEN i + 1 ELSE i

\* Read one slot's snap_min and keep the oldest.
ScanSnapMin(s, i) ==
  LET id == states[i].snap_min
  IN IF id # WT_TXN_NONE THEN OlderOf(id, loc[s].oldest) ELSE loc[s].oldest

\* Read one slot's id and append it to the snapshot being built.
ScanId(s, i) ==
  IF states[i].id = WT_TXN_NONE THEN loc[s].n
  ELSE Append(loc[s].n, states[i].id)

-----------------------------------------------------------------------------
(* __wt_txn_begin.                                                         *)

\* The common entry: the isolation level is set, TXN_RUNNING is set.
BeginWith(s, iso, auto) ==
  /\ txn' = [txn EXCEPT ![s] =
       [(IF auto THEN @ ELSE DropSnapshot(@)) EXCEPT
          !.iso = iso, !.running = TRUE, !.auto = auto]]
  /\ base' = [base EXCEPT ![s] = IF auto THEN @ ELSE NoBase]
  /\ Goto(s, "alloc")

\* __session_begin_transaction: the session's cursors are reset first, the
\* last of them releases what __wt_txn_read_first published.
Begin(s, iso) ==
  /\ pc[s] = "app" /\ ~ txn[s].running
  /\ ncursors' = [ncursors EXCEPT ![s] = 0]
  /\ IF ncursors[s] > 0 THEN SetSnapMin(s, WT_TXN_NONE) ELSE UNCHANGED states
  /\ BeginWith(s, iso, FALSE)
  /\ UNCHANGED <<current, isolation, loc, saved, asked, done, unpinned>>

\* __wt_txn_autocommit_check, called with a page pinned and a cursor active
AutoBegin(s) ==
  /\ pc[s] = "app" /\ ~ txn[s].running /\ ncursors[s] > 0
  /\ BeginWith(s, isolation[s], TRUE)
  /\ UNCHANGED <<shared, isolation, ncursors, loc, saved, asked, done, unpinned>>

\* WT_ATOMIC_ADD(current, 1), again if that gave a reserved value
Alloc(s) ==
  /\ pc[s] = "alloc" /\ current < use.ids
  /\ current' = Incr(current)
  /\ txn' = [txn EXCEPT ![s].id = Incr(current)]
  /\ base' = [base EXCEPT ![s].lo = IF txn[s].iso = "snapshot" THEN done ELSE @]
  /\ Goto(s, IF Incr(current) \in RealIds THEN "publish" ELSE "alloc")
  /\ UNCHANGED <<states, isolation, ncursors, loc, saved, asked, done, unpinned>>

\* WT_PUBLISH(txn_state->id, txn->id)
Publish(s) ==
  /\ pc[s] = "publish"
  /\ states' = [states EXCEPT ![s].id = txn[s].id]
  /\ loc' = [loc EXCEPT ![s] = [NoLoc EXCEPT !.oldest = txn[s].id]]
  /\ Goto(s, IF txn[s].iso = "snapshot" THEN "bmin" ELSE "bcheck")
  /\ UNCHANGED <<current, txn, isolation, ncursors, saved, history>>

BeginScanMin(s) ==
  /\ pc[s] = "bmin"
  /\ loc' = [loc EXCEPT ![s].oldest = ScanSnapMin(s, loc[s].i)]
  /\ Goto(s, "bid")
  /\ UNCHANGED <<shared, txn, isolation, ncursors, saved, history>>

BeginScanId(s) ==
  /\ pc[s] = "bid"
  /\ loc' = [loc EXCEPT ![s].n = ScanId(s, loc[s].i), ![s].i = @ + 1]
  /\ Goto(s, IF loc[s].i + 1 = NSessions THEN "bpin" ELSE "bmin")
  /\ UNCHANGED <<shared, txn, isolation, ncursors, saved, history>>

\* Mutant of BeginPin: snap_min is not published.
BeginPinPrivate(s) ==
  /\ pc[s] = "bpin"
  /\ txn' = [txn EXCEPT ![s] =
               SortSnapshot(@, loc[s].n, txn[s].id, loc[s].oldest)]
  /\ Goto(s, "bcheck")
  /\ UNCHANGED <<shared, isolation, ncursors, loc, saved, history>>

\* __txn_sort_snapshot, then txn_state->snap_min = txn->snap_min
BeginPin(s) ==
  /\ pc[s] = "bpin"
  /\ LET t == SortSnapshot(txn[s], loc[s].n, txn[s].id, loc[s].oldest)
     IN /\ txn' = [txn EXCEPT ![s] = t]
        /\ SetSnapMin(s, t.snap_min)
  /\ Goto(s, "bcheck")
  /\ unpinned' = unpinned \ {s}
  /\ UNCHANGED <<current, isolation, ncursors, loc, saved, asked, done, base>>

\* Mutant of BeginCheck: the loop is not repeated.
BeginCheckOnce(s) ==
  /\ pc[s] = "bcheck"
  /\ Goto(s, "app")
  /\ base' = [base EXCEPT ![s].hi = IF txn[s].iso = "snapshot" THEN done ELSE @]
  /\ loc' = [loc EXCEPT ![s] = NoLoc]
  /\ UNCHANGED <<shared, txn, isolation, ncursors, saved, asked, done, unpinned>>

\* The loop ends only for the latest identifier handed out.
BeginCheck(s) ==
  /\ pc[s] = "bcheck"
  /\ Goto(s, IF txn[s].id = current THEN "app" ELSE "alloc")
  /\ base' = [base EXCEPT ![s].hi =
                IF txn[s].id = current /\ txn[s].iso = "snapshot" THEN done ELSE @]
  /\ loc' = [loc EXCEPT ![s] = NoLoc]
  /\ UNCHANGED <<shared, txn, isolation, ncursors, saved, asked, done, unpinned>>

-----------------------------------------------------------------------------
(* __wt_txn_get_snapshot(my, WT_TXN_NONE), returning to ret.               *)

CallGetSnapshot(s, my, ret) ==
  /\ loc' = [loc EXCEPT ![s] = [NoLoc EXCEPT !.my = my, !.ret = ret]]
  /\ Goto(s, "gread")

\* current_id = oldest_snap_min = txn_global->current
GetRead(s) ==
  /\ pc[s] = "gread"
  /\ loc' = [loc EXCEPT ![s].cur = current, ![s].oldest = current,
                        ![s].n = <<>>, ![s].i = Slot(s, 0, TRUE)]
  /\ Goto(s, IF Slot(s, 0, TRUE) = NSessions THEN "gcheck" ELSE "gmin")
  /\ base' = [base EXCEPT ![s].lo = IF loc[s].ret = "restore" THEN @ ELSE done]
  /\ UNCHANGED <<shared, txn, isolation, ncursors, saved, asked, done, unpinned>>

GetScanMin(s) ==
  /\ pc[s] = "gmin"
  /\ loc' = [loc EXCEPT ![s].oldest = ScanSnapMin(s, loc[s].i)]
  /\ Goto(s, "gid")
  /\ UNCHANGED <<shared, txn, isolation, ncursors, saved, history>>

\* Mutant of GetScanId: the identifier is not counted.
GetScanIdUncounted(s) ==
  /\ pc[s] = "gid"
  /\ LET next == Slot(s, loc[s].i + 1, TRUE)
     IN /\ loc' = [loc EXCEPT ![s].i = next]
        /\ Goto(s, IF next = NSessions THEN "gcheck" ELSE "gmin")
  /\ UNCHANGED <<shared, txn, isolation, ncursors, saved, history>>

GetScanId(s) ==
  /\ pc[s] = "gid"
  /\ LET next == Slot(s, loc[s].i + 1, TRUE)
     IN /\ loc' = [loc EXCEPT ![s].n = ScanId(s, loc[s].i), ![s].i = next]
        /\ Goto(s, IF next = NSessions THEN "gcheck" ELSE "gmin")
  /\ UNCHANGED <<shared, txn, isolation, ncursors, saved, history>>

\* Again if an identifier was handed out meanwhile; else sort the snapshot.
GetCheck(s) ==
  /\ pc[s] = "gcheck"
  /\ IF loc[s].cur # current
     THEN Goto(s, "gread") /\ UNCHANGED <<txn, base>>
     ELSE /\ Goto(s, "gpin")
          /\ txn' = [txn EXCEPT ![s] =
                       SortSnapshot(@, loc[s].n, loc[s].cur, loc[s].oldest)]
          /\ base' = [base EXCEPT ![s].hi =
                        IF loc[s].ret = "restore" THEN @ ELSE done \union {loc[s].my}]
  /\ UNCHANGED <<shared, isolation, ncursors, loc, saved, asked, done, unpinned>>

\* txn_state->snap_min is written last, after the check
GetPin(s) ==
  /\ pc[s] = "gpin"
  /\ SetSnapMin(s, IF loc[s].my = WT_TXN_NONE
                   THEN txn[s].snap_min ELSE OlderOf(txn[s].snap_min, loc[s].my))
  /\ Goto(s, loc[s].ret)
  /\ loc' = [loc EXCEPT ![s] = NoLoc]
  /\ unpinned' = IF loc[s].ret = "restore" THEN unpinned ELSE unpinned \ {s}
  /\ UNCHANGED <<current, txn, isolation, ncursors, saved, asked, done, base>>

-----------------------------------------------------------------------------
(* Cursors: __cursor_enter with __wt_txn_read_first, __cursor_leave with   *)
(* __wt_txn_read_last.                                                     *)

CursorEnter(s) ==
  /\ pc[s] = "app" /\ ncursors[s] < use.cursors
  /\ ncursors' = [ncursors EXCEPT ![s] = @ + 1]
  /\ CASE ncursors[s] = 0 /\ ReadsBySnapshot(txn[s]) ->
            CallGetSnapshot(s, WT_TXN_NONE, "app")
       [] ncursors[s] = 0 /\ ~ ReadsBySnapshot(txn[s]) /\ ~ txn[s].running ->
            /\ loc' = [loc EXCEPT ![s].cur = current]
            /\ Goto(s, "upin")
       [] OTHER -> UNCHANGED <<loc, pc>>
  /\ UNCHANGED <<shared, txn, isolation, saved, history>>

\* txn_state->snap_min = txn_global->current: the store, after the load
ReadFirstPin(s) ==
  /\ pc[s] = "upin"
  /\ SetSnapMin(s, loc[s].cur)
  /\ loc' = [loc EXCEPT ![s] = NoLoc]
  /\ Goto(s, "app")
  /\ unpinned' = unpinned \ {s}
  /\ UNCHANGED <<current, txn, isolation, ncursors, saved, asked, done, base>>

\* What __wt_txn_read_last does to the session's transaction and table slot
ReadLast(s) ==
  /\ txn' = [txn EXCEPT ![s] = IF ReadsBySnapshot(@) THEN DropSnapshot(@) ELSE @]
  /\ base' = [base EXCEPT ![s] = IF ReadsBySnapshot(txn[s]) THEN NoBase ELSE @]
  /\ IF ReadsBySnapshot(txn[s]) \/ ~ txn[s].running
     THEN SetSnapMin(s, WT_TXN_NONE) ELSE UNCHANGED states

CursorLeave(s) ==
  /\ pc[s] = "app" /\ ncursors[s] > 0
  /\ ncursors' = [ncursors EXCEPT ![s] = @ - 1]
  /\ IF ncursors[s] = 1 THEN ReadLast(s) ELSE UNCHANGED <<txn, states, base>>
  /\ UNCHANGED <<current, isolation, pc, loc, saved, asked, done, unpinned>>

-----------------------------------------------------------------------------
(* Ending a transaction.  Explicit transactions reset the session's        *)
(* cursors first; autocommit ones (TXN_API_END) keep them.                 *)

EndExplicit(s, how) ==
  /\ pc[s] = "app" /\ txn[s].running /\ ~ txn[s].auto
  /\ ncursors' = [ncursors EXCEPT ![s] = 0]
  /\ IF ncursors[s] > 0 THEN ReadLast(s) ELSE UNCHANGED <<txn, states, base>>
  /\ Goto(s, how)
  /\ UNCHANGED <<current, isolation, loc, saved, asked, done, unpinned>>

\* __wt_txn_commit of an autocommit transaction: with cursors active, a new
\* snapshot is taken before the identifier is released
CommitAuto(s) ==
  /\ pc[s] = "app" /\ txn[s].running /\ txn[s].auto
  /\ IF ncursors[s] > 0 THEN CallGetSnapshot(s, txn[s].id, "release")
     ELSE Goto(s, "release") /\ UNCHANGED loc
  /\ UNCHANGED <<shared, txn, isolation, ncursors, saved, history>>

\* __wt_txn_rollback of an autocommit transaction
RollbackAuto(s) ==
  /\ pc[s] = "app" /\ txn[s].running /\ txn[s].auto
  /\ Goto(s, "abort")
  /\ UNCHANGED <<shared, txn, isolation, ncursors, loc, saved, history>>

\* __wt_txn_release: WT_PUBLISH(txn_state->id, WT_TXN_NONE)
Release(s) ==
  /\ pc[s] \in {"release", "abort"}
  /\ states' = [states EXCEPT ![s].id = WT_TXN_NONE]
  /\ done' = IF pc[s] = "release" THEN done \union {txn[s].id} ELSE done
  /\ txn' = [txn EXCEPT ![s].id = WT_TXN_NONE]
  /\ Goto(s, "relsnap")
  /\ UNCHANGED <<current, isolation, ncursors, loc, saved, asked, base, unpinned>>

\* the rest of __wt_txn_release: the snapshot goes unless cursors are active
ReleaseSnap(s) ==
  /\ pc[s] = "relsnap"
  /\ IF ncursors[s] = 0 THEN SetSnapMin(s, WT_TXN_NONE) ELSE UNCHANGED states
  /\ txn' = [txn EXCEPT ![s] =
       [(IF ncursors[s] = 0 THEN DropSnapshot(@) ELSE @) EXCEPT
          !.running = FALSE, !.auto = FALSE, !.iso = isolation[s]]]
  /\ base' = [base EXCEPT ![s] = IF ncursors[s] = 0 THEN NoBase ELSE @]
  /\ unpinned' = IF ncursors[s] = 0 THEN unpinned \ {s} ELSE unpinned
  /\ Goto(s, "app")
  /\ UNCHANGED <<current, isolation, ncursors, loc, saved, asked, done>>

-----------------------------------------------------------------------------
(* __evict_page: the transaction context is replaced while a page is       *)
(* written, and restored afterwards.                                       *)

\* saved_txn = *txn; if a transaction runs, __wt_txn_init gives the session a
\* new context (and sets the session's default isolation with it)
EvictStart(s) ==
  /\ pc[s] = "app" /\ s \in use.evictors
  /\ saved' = [saved EXCEPT ![s] = txn[s]]
  /\ IF txn[s].running
     THEN /\ txn' = [txn EXCEPT ![s].id = WT_TXN_NONE, ![s].snap = <<>>,
                                ![s].iso = "read-committed"]
          /\ isolation' = [isolation EXCEPT ![s] = "read-committed"]
     ELSE UNCHANGED <<txn, isolation>>
  /\ Goto(s, "eread")
  /\ UNCHANGED <<shared, ncursors, loc, history>>

\* __wt_txn_get_evict_snapshot
EvictRead(s) ==
  /\ pc[s] = "eread"
  /\ loc' = [loc EXCEPT ![s].cur = current, ![s].oldest = current, ![s].i = 0]
  /\ Goto(s, "emin")
  /\ UNCHANGED <<shared, txn, isolation, ncursors, saved, history>>

\* Mutant of EvictScanMin: the last slot of states[] is not read.
EvictScanMinShort(s) ==
  /\ pc[s] = "emin"
  /\ loc' = [loc EXCEPT ![s].oldest = ScanSnapMin(s, loc[s].i), ![s].i = @ + 1]
  /\ Goto(s, IF loc[s].i + 2 >= NSessions THEN "echeck" ELSE "emin")
  /\ UNCHANGED <<shared, txn, isolation, ncursors, saved, history>>

EvictScanMin(s) ==
  /\ pc[s] = "emin"
  /\ loc' = [loc EXCEPT ![s].oldest = ScanSnapMin(s, loc[s].i), ![s].i = @ + 1]
  /\ Goto(s, IF loc[s].i + 1 = NSessions THEN "echeck" ELSE "emin")
  /\ UNCHANGED <<shared, txn, isolation, ncursors, saved, history>>

\* the snapshot is empty and ends at the oldest snap_min; it is not published
EvictCheck(s) ==
  /\ pc[s] = "echeck"
  /\ IF loc[s].cur # current
     THEN Goto(s, "eread") /\ UNCHANGED <<txn, saved>>
     ELSE LET t == SortSnapshot(txn[s], <<>>, loc[s].oldest, loc[s].oldest)
          IN /\ txn' = [txn EXCEPT ![s] = [t EXCEPT !.iso = "read-committed"]]
             /\ saved' = [saved EXCEPT ![s].oldest = t.oldest]
             /\ Goto(s, "evict")
  /\ UNCHANGED <<shared, isolation, ncursors, loc, history>>

\* __wt_rec_evict writes the page
EvictWritten(s) ==
  /\ pc[s] = "evict"
  /\ Goto(s, "restore")
  /\ UNCHANGED <<shared, txn, isolation, ncursors, loc, saved, history>>

\* __rec_review could not write all of it: it "bumps the snapshot" of a
\* session with at most one cursor (read_last, read_first), and gives up
EvictBusy(s) ==
  /\ pc[s] = "evict"
  /\ IF ncursors[s] <= 1
     THEN /\ txn' = [txn EXCEPT ![s].count = 0]
          /\ SetSnapMin(s, WT_TXN_NONE)
          /\ unpinned' = unpinned \union {s}
          /\ CallGetSnapshot(s, WT_TXN_NONE, "restore")
     ELSE Goto(s, "restore") /\ UNCHANGED <<txn, states, loc, unpinned>>
  /\ UNCHANGED <<current, isolation, ncursors, saved, asked, done, base>>

\* __wt_txn_get_oldest, called when reconciliation meets an overflow value
OldestRead(s) ==
  /\ pc[s] = "evict"
  /\ loc' = [loc EXCEPT ![s].i = 0,
               ![s].oldest = IF txn[s].id # WT_TXN_NONE THEN txn[s].id ELSE current]
  /\ Goto(s, "omin")
  /\ UNCHANGED <<shared, txn, isolation, ncursors, saved, history>>

OldestScanMin(s) ==
  /\ pc[s] = "omin"
  /\ LET oldest == ScanSnapMin(s, loc[s].i)
         over == loc[s].i + 1 = NSessions
     IN /\ loc' = [loc EXCEPT ![s].oldest = oldest, ![s].i = @ + 1]
        /\ txn' = [txn EXCEPT ![s].oldest = IF over THEN oldest ELSE @]
        /\ Goto(s, IF over THEN "evict" ELSE "omin")
  /\ UNCHANGED <<shared, isolation, ncursors, saved, history>>

\* the end of __evict_page: a context made for eviction is destroyed, one
\* that was not running has its snapshot released; then *txn = saved_txn,
\* which does not restore the contents of the snapshot array
EvictEnd(s) ==
  /\ pc[s] = "restore"
  /\ IF saved[s].running
     THEN /\ txn' = [txn EXCEPT ![s] = saved[s]]
          /\ UNCHANGED <<states, unpinned>>
     ELSE /\ txn' = [txn EXCEPT ![s] = [saved[s] EXCEPT !.snap = txn[s].snap]]
          /\ SetSnapMin(s, WT_TXN_NONE)
          /\ unpinned' = IF ncursors[s] > 0 THEN unpinned \union {s} ELSE unpinned \ {s}
  /\ loc' = [loc EXCEPT ![s] = NoLoc]
  /\ saved' = [saved EXCEPT ![s] = TxnInit]
  /\ Goto(s, "app")
  /\ UNCHANGED <<current, isolation, ncursors, asked, done, base>>

-----------------------------------------------------------------------------
Next == use' = use /\
  \E s \in Sessions :
    \/ \E iso \in use.isolations : Begin(s, iso)
    \/ AutoBegin(s) \/ Alloc(s) \/ Publish(s) \/ BeginScanMin(s)
    \/ BeginScanId(s) \/ BeginPin(s) \/ BeginCheck(s)
    \/ GetRead(s) \/ GetScanMin(s) \/ GetScanId(s) \/ GetCheck(s) \/ GetPin(s)
    \/ CursorEnter(s) \/ ReadFirstPin(s) \/ CursorLeave(s)
    \/ \E how \in {"release", "abort"} : EndExplicit(s, how)
    \/ CommitAuto(s) \/ RollbackAuto(s)
    \/ Release(s) \/ ReleaseSnap(s)
    \/ EvictStart(s) \/ EvictRead(s) \/ EvictScanMin(s) \/ EvictCheck(s)
    \/ EvictWritten(s) \/ EvictBusy(s) \/ OldestRead(s) \/ OldestScanMin(s)
    \/ EvictEnd(s)

Spec == Init /\ [][Next]_vars

-----------------------------------------------------------------------------
(* Properties.                                                             *)

Txns == [id : TxnIds, iso : {"read-uncommitted", "read-committed", "snapshot"},
         running : BOOLEAN, auto : BOOLEAN, snap_min : TxnIds,
         snap_max : TxnIds, snap : Seq(TxnIds), count : Nat, oldest : TxnIds]

\* The state variables hold values of their C types.
TypeOK ==
  /\ current \in TxnIds
  /\ states \in [Sessions -> [id : TxnIds, snap_min : TxnIds]]
  /\ DOMAIN txn = Sessions /\ \A s \in Sessions : txn[s] \in Txns
  /\ ncursors \in [Sessions -> 0 .. use.cursors]
  /\ \A s \in Sessions : pc[s] = "app" => txn[s].count <= Len(txn[s].snap)

\* Between two calls of the engine, and not evicting.
Settled(s) == pc[s] = "app"

\* The session reads through a snapshot: of its transaction, or of its cursors.
HasSnapshot(s) ==
  /\ Settled(s)
  /\ \/ txn[s].running /\ txn[s].iso = "snapshot"
     \/ ncursors[s] > 0 /\ ReadsBySnapshot(txn[s])

\* The snapshot was taken by __wt_txn_begin.
BegunSnapshot(s) == Settled(s) /\ txn[s].running /\ txn[s].iso = "snapshot"

\* The transactions that went past __wt_txn_begin and did not end yet: only
\* they, and those that ended, can have updates.
Active(t) == txn[t].running /\ txn[t].id # WT_TXN_NONE
               /\ pc[t] \notin {"alloc", "publish", "bmin", "bid", "bpin", "bcheck"}

Writers == done \union {txn[t].id : t \in {u \in Sessions : Active(u)}}

Seen(s) == {id \in Writers \ {txn[s].id} : Visible(s, id)}

\* A snapshot taken by __wt_txn_begin lies between two moments: everything that
\* ended before the identifier was allocated is visible, and nothing is
\* visible that had not ended when the loop in __wt_txn_begin was left,
\* whatever the other sessions do meanwhile and afterwards.
BeginSnapshotBounded ==
  \A s \in Sessions :
    BegunSnapshot(s) => base[s].lo \subseteq Seen(s) /\ Seen(s) \subseteq base[s].hi

\* A snapshot taken by __wt_txn_get_snapshot shows everything that had ended
\* when its scan of the slots started and nothing that had not ended when the
\* scan was over, except for the identifier equal to its snap_max.
GetSnapshotBoundedBelowMax ==
  \A s \in Sessions :
    HasSnapshot(s) /\ ~ BegunSnapshot(s) =>
      /\ base[s].lo \subseteq Seen(s)
      /\ Seen(s) \ {txn[s].snap_max} \subseteq base[s].hi

\* txn.i, __wt_txn_visible: "the ID is visible if it is not the result of a
\* concurrent transaction, that is, if was committed before the snapshot was
\* taken".
SnapshotExcludesConcurrent ==
  \A s \in Sessions : HasSnapshot(s) => Seen(s) \subseteq base[s].hi

\* Every session that reads through a snapshot has published a snap_min that
\* is not newer than the one it uses (txn.i, __wt_txn_read_first: "put an ID in
\* the global table so the oldest reader in the system can be tracked"), from
\* the moment its snapshot is stored until an eviction of its own gives the
\* place up: one that fails takes a newer snapshot (rec_evict.c:344-347), one
\* outside a transaction releases it (bt_evict.c:324), and neither restores it.
ReadersArePinned ==
  \A s \in Sessions \ unpinned :
    HasSnapshot(s) =>
      /\ states[s].snap_min # WT_TXN_NONE
      /\ ~ TXNID_LT(txn[s].snap_min, states[s].snap_min)

\* The oldest identifier that eviction works with protects every snapshot
\* transaction that is older than the identifier eviction found current and is
\* still pinned: one whose session failed to evict a page is not, and neither
\* __wt_txn_get_evict_snapshot nor __wt_txn_get_oldest sees it.
EvictOldestSafe ==
  \A e \in Sessions, s \in Sessions \ unpinned :
    /\ pc[e] = "evict" /\ BegunSnapshot(s)
    /\ TXNID_LT(txn[s].id, loc[e].cur)
    => ~ TXNID_LT(txn[s].snap_min, txn[e].oldest)

\* txn.c, __wt_txn_get_evict_snapshot: "No changes that are invisible to any
\* active transaction can be evicted".  It does not hold of the transactions
\* EvictOldestSafe leaves out.
EvictProtectsAll ==
  \A e, s \in Sessions :
    /\ pc[e] = "evict" /\ BegunSnapshot(s)
    /\ TXNID_LT(txn[s].id, loc[e].cur)
    => ~ TXNID_LT(txn[s].snap_min, txn[e].oldest)

\* A session's default isolation is the one it was configured with.
IsolationIsConfigured == isolation = asked
=============================================================================

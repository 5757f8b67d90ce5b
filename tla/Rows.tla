--------------------------------- MODULE Rows ---------------------------------
(***************************************************************************)
(* The update chains of a page under concurrent transactions: searching,   *)
(* reading and changing a key without a latch (row_modify.c, txn.i and the *)
(* transaction calls of cursor.i and txn.c).  A chain is the list of a     *)
(* key's WT_UPDATE structures, newest first; a read walks it pointer by    *)
(* pointer, a change is built aside and linked under the serialization     *)
(* lock if the page's write generation has not moved since the search, and *)
(* updates no session can need are cut off and freed.  Beginning a         *)
(* transaction and copying the state table are one step here: TxnGlobal    *)
(* has their steps.                                                        *)
(***************************************************************************)
EXTENDS TxnId, SequencesExt

CONSTANTS Sessions,
          Keys,        \* keys of the page
          Setups,      \* where the page and the sessions may start
          Start0,      \* the last identifier allocated: its transaction wrote every key
          MaxTxns,     \* bound: transactions begun
          MaxReads,    \* bound: cursor calls that read
          MaxEvicts,   \* bound: evictions on the way to a page
          MaxUpdates   \* bound: cursor calls that change a key

VARIABLES current,    \* WT_TXN_GLOBAL.current
          states,     \* WT_TXN_GLOBAL.states: published id and snap_min
          txn,        \* session->txn
          isolation,  \* session->isolation; txn.iso is the transaction's
          op,         \* the cursor call the session is in, and its locals
          at,         \* the update the session's cursor returned or wrote, or 0
          write_gen,  \* page->modify->write_gen
          disk_gen,   \* page->modify->disk_gen
          upd,        \* the WT_UPDATE structures: the transaction id of each
          chain,      \* each key's chain
          setup,      \* where they started, and bounds: levels, recs
          begun,      \* bound: transactions begun
          calls,      \* bound: reads, changes, evictions and reconciliations made
          hist,       \* history: each key's chain with nothing cut off
          freed,      \* history: updates that were freed
          done,       \* history: identifiers of transactions that committed
          unsafe      \* history: sessions overtaken before they published their snapshot,
                      \* and keys trimmed below an update that did not commit

shared == <<upd, chain, write_gen, disk_gen>>
bounds == <<setup, begun, calls>>
history == <<hist, freed, done, unsafe>>
trimmed == <<hist, freed, done>>
vars == <<current, states, txn, isolation, op, at, write_gen, disk_gen, upd, chain, bounds,
          hist, freed, done, unsafe>>

NOPOS == -1    \* the cursor is not active
Oldest(ids, top) == CHOOSE i \in ids \union {top} : \A j \in ids \union {top} : ~TXNID_LT(j, i)
Idle == [pc |-> "idle", key |-> 0, write |-> FALSE, auto |-> FALSE, ptr |-> 0, gen |-> 0]
NoTxn(iso) == [id |-> WT_TXN_NONE, iso |-> iso, running |-> FALSE, error |-> FALSE, snap |-> {}, snap_min |-> 0,
          snap_max |-> 0, oldest |-> 0, mod |-> <<>>]

-----------------------------------------------------------------------------
(* Snapshots *)

Published == {states[r].snap_min : r \in Sessions} \ {WT_TXN_NONE}
PublishedBut(s) == {states[r].snap_min : r \in Sessions \ {s}} \ {WT_TXN_NONE}
RunningBut(s) == {states[r].id : r \in Sessions \ {s}} \ {WT_TXN_NONE}

\* __txn_sort_snapshot
SortSnapshot(t, ids, max, oldest) ==
  LET min == Oldest(ids, max)
  IN [t EXCEPT !.snap = ids, !.snap_min = min, !.snap_max = max, !.oldest = OlderOf(oldest, min)]

\* __wt_txn_get_snapshot, up to the point where it publishes snap_min.
GetSnapshot(s, t) == SortSnapshot(t, RunningBut(s), current, Oldest(PublishedBut(s), current))

\* __wt_txn_visible
Visible(s, id) ==
  LET t == txn[s]
  IN /\ id # WT_TXN_ABORTED
     /\ \/ id \in {WT_TXN_NONE, t.id}
        \/ t.iso = "read-uncommitted"
        \/ /\ ~TXNID_LT(t.snap_max, id)
           /\ t.snap = {} \/ TXNID_LT(id, t.snap_min) \/ id \notin t.snap

VisibleAllOrCurrent(s, id) == ~TXNID_LT(txn[s].oldest, id)

\* __wt_txn_visible_all
VisibleAll(s, id) == TXNID_LT(id, txn[s].oldest)

Snapshots(s) == txn[s].iso = "read-committed" \/ (txn[s].iso = "snapshot" /\ ~txn[s].running)

\* A session reads by a snapshot: its transaction's, or its active cursor's.
Reading(s) == txn[s].iso # "read-uncommitted" /\ (at[s] # NOPOS \/ (txn[s].running /\ txn[s].iso = "snapshot"))
\* Nothing it can see is older than what it published.
Pinned(s) == states[s].snap_min # WT_TXN_NONE /\ ~TXNID_LT(txn[s].snap_min, states[s].snap_min)
\* Session s, whose transaction becomes t, computes the oldest snapshot in the system:
\* it does not see what others have not published.
Overtaken(s, t) ==
  {r \in Sessions \ {s} : Reading(r) /\ ~Pinned(r) /\ TXNID_LT(txn[r].snap_min, t.oldest)}
Overtake(s, t) ==
  unsafe' = (IF t.snap_max = txn[s].snap_max /\ t.snap = txn[s].snap THEN unsafe ELSE unsafe \ {s})
            \union Overtaken(s, t)

\* The next identifier: the reserved ones are skipped.
NextId == CHOOSE i \in RealIds : \/ i = Incr(current)
                                 \/ Incr(current) = WT_TXN_ABORTED /\ i = 1
                                 \/ Incr(current) = WT_TXN_NONE /\ i = 1

\* __wt_txn_begin: the session's own identifier is in its snapshot.
Begun(s, t, iso) ==
  LET new == [t EXCEPT !.id = NextId, !.running = TRUE, !.iso = iso]
  IN IF iso = "snapshot"
     THEN SortSnapshot(new, RunningBut(s) \union {NextId}, NextId, Oldest(Published, NextId))
     ELSE new
DoBegin(s, iso, st) ==
  /\ begun < MaxTxns
  /\ begun' = begun + 1
  /\ current' = NextId
  /\ txn' = [txn EXCEPT ![s] = Begun(s, @, iso)]
  /\ Overtake(s, txn'[s])
  /\ states' = [st EXCEPT ![s].id = NextId,
                              ![s].snap_min = IF iso = "snapshot" THEN txn'[s].snap_min ELSE @]

\* __wt_txn_read_last gives back what __wt_txn_read_first published.
ReadLast(s, st) ==
  [st EXCEPT ![s].snap_min = IF Snapshots(s) \/ ~txn[s].running THEN WT_TXN_NONE ELSE @]

\* A snapshot that was given back is not looked at again.
NoSnapshot(t) == [t EXCEPT !.snap = {}, !.snap_min = 0, !.snap_max = 0, !.oldest = 0]
LastRead(s) == [txn EXCEPT ![s] = IF Snapshots(s) \/ ~txn[s].running THEN NoSnapshot(@) ELSE @]
\* __wt_txn_release; the snapshot is kept while a cursor is active.
Released(s, t) ==
  [t EXCEPT !.id = WT_TXN_NONE, !.running = FALSE, !.error = FALSE, !.mod = <<>>, !.iso = isolation[s]]

-----------------------------------------------------------------------------
(* A cursor call *)

Goto(s, pc) == op' = [op EXCEPT ![s].pc = pc]

\* __cursor_func_init: leave, then enter, which takes a snapshot or, for a session that
\* reads uncommitted data outside a transaction, publishes the current identifier.
Start(s, k, write) ==
  /\ op[s].pc = "idle" /\ ~txn[s].error
  /\ IF write THEN calls.write < MaxUpdates /\ calls' = [calls EXCEPT !.write = @ + 1]
     ELSE calls.read < MaxReads /\ calls' = [calls EXCEPT !.read = @ + 1]
  /\ op' = [op EXCEPT ![s] = [Idle EXCEPT !.pc = IF Snapshots(s) THEN "publish" ELSE "page",
                                          !.key = k, !.write = write]]
  /\ at' = [at EXCEPT ![s] = 0]
  /\ txn' = IF Snapshots(s) THEN [txn EXCEPT ![s] = GetSnapshot(s, @)] ELSE txn
  /\ Overtake(s, txn'[s])
  /\ states' = [states EXCEPT ![s].snap_min = IF Snapshots(s) THEN WT_TXN_NONE
                                              ELSE IF ~txn[s].running THEN current ELSE @]
  /\ UNCHANGED <<current, isolation, shared, setup, begun, trimmed>>

\* __wt_txn_get_snapshot publishes snap_min last.
Publish(s) ==
  /\ op[s].pc = "publish"
  /\ Goto(s, "page")
  /\ states' = [states EXCEPT ![s].snap_min = txn[s].snap_min]
  /\ UNCHANGED <<current, txn, isolation, at, shared, bounds, history>>

\* An array of n identifiers whose first places another, of which new are the
\* identifiers, was written over.
Overwritten(ids, new) ==
  LET a == SetToSortSeq(ids, TXNID_LT)
      b == SetToSortSeq(new, TXNID_LT)
  IN {IF i <= Len(b) THEN b[i] ELSE a[i] : i \in DOMAIN a}

\* __wt_cache_full_check evicts another page on the way, in a transaction of its own
\* (__evict_page).  When the page turns out busy __rec_review takes a new snapshot,
\* which it publishes in the session's slot.  If a transaction is running __wt_txn_init
\* gives the eviction an array to write the snapshot to, and sets the session's
\* isolation level on the way; otherwise it is written over the session's own, of which
\* only the count and the bounds are restored.
Evict(s, busy) ==
  /\ op[s].pc = "page"
  /\ calls.evict < MaxEvicts /\ calls' = [calls EXCEPT !.evict = @ + 1]
  /\ LET fresh == GetSnapshot(s, txn[s])
         running == txn[s].running
     IN /\ txn' = [txn EXCEPT ![s].oldest = Oldest(Published, current),
                              ![s].snap = IF busy /\ ~running THEN Overwritten(@, fresh.snap) ELSE @]
        /\ states' = [states EXCEPT ![s].snap_min = IF ~running THEN WT_TXN_NONE
                                                    ELSE IF busy THEN fresh.snap_min ELSE @]
        /\ isolation' = IF running THEN [isolation EXCEPT ![s] = "read-committed"] ELSE isolation
  /\ unsafe' = unsafe \union Overtaken(s, txn'[s])
  /\ UNCHANGED <<current, op, at, shared, setup, begun, trimmed>>

\* __wt_page_in_func begins the transaction of a change made outside of one; the search
\* copies the write generation before it looks at the page.
PageIn(s) ==
  /\ op[s].pc = "page"
  /\ op' = [op EXCEPT ![s].pc = IF op[s].write THEN "check" ELSE "find", ![s].gen = write_gen,
                      ![s].auto = @ \/ (op[s].write /\ ~txn[s].running)]
  /\ IF op[s].write /\ ~txn[s].running THEN DoBegin(s, isolation[s], states)
     ELSE UNCHANGED <<current, states, txn, begun, unsafe>>
  /\ UNCHANGED <<isolation, at, shared, setup, calls, trimmed>>

First(c) == IF c = <<>> THEN 0 ELSE Head(c)
SearchFind(s) ==
  /\ op[s].pc = "find"
  /\ op' = [op EXCEPT ![s].pc = "walk", ![s].ptr = First(chain[op[s].key])]
  /\ UNCHANGED <<current, states, txn, isolation, at, shared, bounds, history>>

\* The next pointer of an update, 0 at the end of its chain.
NextOf(u) ==
  LET later == {<<k, i>> \in UNION {{k} \X DOMAIN chain[k] : k \in Keys} :
                  i > 1 /\ chain[k][i - 1] = u}
  IN IF later = {} THEN 0 ELSE LET p == CHOOSE p \in later : TRUE IN chain[p[1]][p[2]]

\* __wt_txn_read: one update of the chain.
Walk(s) ==
  /\ op[s].pc = "walk"
  /\ LET u == op[s].ptr
     IN IF u = 0 \/ Visible(s, upd[u])
        THEN op' = [op EXCEPT ![s] = Idle] /\ at' = [at EXCEPT ![s] = u]
        ELSE op' = [op EXCEPT ![s].ptr = NextOf(u)] /\ UNCHANGED at
  /\ UNCHANGED <<current, states, txn, isolation, shared, bounds, history>>

\* The rolled back transaction's updates, and the session without a transaction.
RollBack(s, st) ==
  /\ upd' = [u \in DOMAIN upd |-> IF u \in Range(txn[s].mod) THEN WT_TXN_ABORTED ELSE upd[u]]
  /\ txn' = [txn EXCEPT ![s] = Released(s, NoSnapshot(@))]
  /\ states' = [st EXCEPT ![s] = [id |-> WT_TXN_NONE, snap_min |-> WT_TXN_NONE]]

\* __wt_txn_update_check: the first update of the chain that was not rolled back must
\* be visible to a snapshot transaction.
Conflict(s) ==
  LET c == SelectSeq(chain[op[s].key], LAMBDA u : upd[u] # WT_TXN_ABORTED)
  IN txn[s].iso = "snapshot" /\ c # <<>> /\ ~Visible(s, upd[Head(c)])
Check(s) ==
  /\ op[s].pc = "check"
  /\ ~Conflict(s)
  /\ Goto(s, "serial")
  /\ UNCHANGED <<current, states, txn, isolation, at, shared, bounds, history>>

\* WT_DEADLOCK: the cursor is left; the transaction of this call is rolled back, the
\* application's is marked failed.
Deadlock(s) ==
  /\ op[s].pc = "check"
  /\ Conflict(s)
  /\ op' = [op EXCEPT ![s] = Idle]
  /\ at' = [at EXCEPT ![s] = NOPOS]
  /\ IF op[s].auto THEN RollBack(s, ReadLast(s, states))
     ELSE /\ txn' = [LastRead(s) EXCEPT ![s].error = TRUE]
          /\ states' = ReadLast(s, states)
          /\ UNCHANGED upd
  /\ UNCHANGED <<current, isolation, chain, write_gen, disk_gen, bounds, history>>

GenNotCompared(s) == TRUE

\* __wt_page_write_gen_check: nobody changed the page since it was searched, and the
\* change would not make it look clean.
GenMatches(s) == write_gen = op[s].gen /\ Incr(write_gen) # disk_gen

LockFree == \A r \in Sessions : op[r].pc # "linked"

\* __wt_update_serial_func and __wt_insert_serial_func, under the serialization lock:
\* the update __wt_txn_modify logged is linked at the head of the chain.
SerialLink(s) ==
  /\ op[s].pc = "serial" /\ LockFree /\ GenMatches(s)
  /\ LET u == Len(upd) + 1
         k == op[s].key
     IN /\ upd' = Append(upd, txn[s].id)
        /\ chain' = [chain EXCEPT ![k] = <<u>> \o @]
        /\ hist' = [hist EXCEPT ![k] = <<u>> \o @]
        /\ txn' = [txn EXCEPT ![s].mod = Append(@, u)]
        /\ op' = [op EXCEPT ![s].pc = "linked", ![s].ptr = u]
  /\ UNCHANGED <<current, states, isolation, at, write_gen, disk_gen, bounds, freed, done, unsafe>>

\* WT_RESTART: __wt_txn_unmodify forgets the update and the call starts again.
Restart(s) ==
  /\ op[s].pc = "serial" /\ LockFree /\ ~GenMatches(s)
  /\ op' = [op EXCEPT ![s].pc = IF Snapshots(s) THEN "publish" ELSE "page"]
  /\ txn' = IF Snapshots(s) THEN [txn EXCEPT ![s] = GetSnapshot(s, @)] ELSE txn
  /\ Overtake(s, txn'[s])
  /\ states' = [states EXCEPT ![s].snap_min = IF Snapshots(s) THEN WT_TXN_NONE ELSE @]
  /\ UNCHANGED <<current, isolation, at, shared, bounds, trimmed>>

\* __wt_update_obsolete_check: the place in the chain after its head of the first update
\* every session sees; what follows is cut off.
Trims(s) == txn[s].iso # "read-uncommitted"
Obsolete(s, c) == {i \in 2 .. Len(c) - 1 : VisibleAll(s, upd[c[i]])}
SerialDone(s) ==
  /\ op[s].pc = "linked"
  /\ LET k == op[s].key
         c == chain[k]
         stop == IF Trims(s) /\ Obsolete(s, c) # {} THEN Min(Obsolete(s, c)) ELSE Len(c)
     IN /\ chain' = [chain EXCEPT ![k] = SubSeq(c, 1, stop)]
        /\ freed' = freed \union Range(SubSeq(c, stop + 1, Len(c)))
        /\ unsafe' = IF stop = Len(c) THEN unsafe
                     ELSE unsafe \union {x \in {k} : upd[c[stop]] \notin done}
  /\ write_gen' = Incr(write_gen)
  /\ op' = IF op[s].auto THEN [op EXCEPT ![s].pc = "commit"] ELSE [op EXCEPT ![s] = Idle]
  /\ at' = [at EXCEPT ![s] = op[s].ptr]
  /\ UNCHANGED <<current, states, txn, isolation, disk_gen, upd, bounds, hist, done>>

\* __wt_txn_commit with an active cursor: the new snapshot is published with the
\* transaction's own identifier if that is older, then the identifier is given up.
AutoCommit(s) ==
  /\ op[s].pc = "commit"
  /\ op' = [op EXCEPT ![s] = Idle]
  /\ LET t == GetSnapshot(s, txn[s])
     IN /\ txn' = [txn EXCEPT ![s] = Released(s, t)]
        /\ states' = [states EXCEPT ![s] = [id |-> WT_TXN_NONE, snap_min |-> OlderOf(t.snap_min, t.id)]]
  /\ Overtake(s, txn'[s])
  /\ done' = done \union {txn[s].id}
  /\ UNCHANGED <<current, isolation, at, shared, bounds, hist, freed>>

-----------------------------------------------------------------------------
(* Calls of the session; they reset its cursors.  Committing a failed    *)
(* transaction rolls it back.                                             *)

Reset(s) ==
  /\ op[s].pc = "idle" /\ at[s] # NOPOS
  /\ at' = [at EXCEPT ![s] = NOPOS]
  /\ states' = ReadLast(s, states)
  /\ txn' = LastRead(s)
  /\ UNCHANGED <<current, isolation, op, shared, bounds, history>>

\* The level is the one begin_transaction was configured with, or the session's.
Begin(s, iso) ==
  /\ op[s].pc = "idle" /\ ~txn[s].running
  /\ at' = [at EXCEPT ![s] = NOPOS]
  /\ DoBegin(s, iso, ReadLast(s, states))
  /\ UNCHANGED <<isolation, op, shared, setup, calls, trimmed>>

Commit(s) ==
  /\ op[s].pc = "idle" /\ txn[s].running /\ ~txn[s].error
  /\ txn' = [txn EXCEPT ![s] = Released(s, NoSnapshot(@))]
  /\ states' = [states EXCEPT ![s] = [id |-> WT_TXN_NONE, snap_min |-> WT_TXN_NONE]]
  /\ at' = [at EXCEPT ![s] = NOPOS]
  /\ done' = done \union {txn[s].id}
  /\ UNCHANGED <<current, isolation, op, shared, bounds, hist, freed, unsafe>>

Rollback(s) ==
  /\ op[s].pc = "idle" /\ txn[s].running
  /\ RollBack(s, states)
  /\ at' = [at EXCEPT ![s] = NOPOS]
  /\ UNCHANGED <<current, isolation, op, chain, write_gen, disk_gen, bounds, history>>

\* __rec_write_wrapup of a reconciliation that skipped no update: the page is clean until
\* it is changed again.  PageBlocks has the steps of a reconciliation.
Reconcile ==
  /\ LockFree
  /\ \A k \in Keys : \A u \in Range(chain[k]) : upd[u] \in done \union {WT_TXN_ABORTED}
  /\ calls.rec < setup.recs /\ calls' = [calls EXCEPT !.rec = @ + 1]
  /\ disk_gen' = write_gen
  /\ UNCHANGED <<current, states, txn, isolation, op, at, write_gen, upd, chain, setup, begun, history>>

Init ==
  /\ current = Start0
  /\ states = [s \in Sessions |-> [id |-> WT_TXN_NONE, snap_min |-> WT_TXN_NONE]]
  /\ setup \in Setups
  /\ isolation = setup.isolation
  /\ txn = [s \in Sessions |-> NoTxn(isolation[s])]
  /\ op = [s \in Sessions |-> Idle]
  /\ at = [s \in Sessions |-> NOPOS]
  /\ write_gen = setup.write_gen /\ disk_gen = setup.disk_gen
  /\ begun = 0
  /\ calls = [read |-> 0, write |-> 0, evict |-> 0, rec |-> 0]
  /\ upd = [u \in 1 .. Cardinality(Keys) |-> Start0]
  /\ chain \in {c \in [Keys -> {<<u>> : u \in DOMAIN upd}] : \A j, k \in Keys : c[j] = c[k] => j = k}
  /\ hist = chain
  /\ freed = {} /\ done = {Start0} /\ unsafe = {}

Next ==
  \/ Reconcile
  \/ \E s \in Sessions :
      \/ \E k \in Keys, write \in BOOLEAN : Start(s, k, write)
      \/ Publish(s) \/ PageIn(s) \/ SearchFind(s) \/ Walk(s)
      \/ \E busy \in BOOLEAN : Evict(s, busy)
      \/ Check(s) \/ Deadlock(s) \/ SerialLink(s) \/ Restart(s) \/ SerialDone(s) \/ AutoCommit(s)
      \/ Reset(s) \/ Commit(s) \/ Rollback(s)
      \/ \E iso \in {isolation[s]} \union setup.levels : Begin(s, iso)

Spec == Init /\ [][Next]_vars

-----------------------------------------------------------------------------
(* Properties *)

\* Type invariant: each chain is what is left of its history, newest first, and freed
\* updates are on no chain.
TypeOK ==
  /\ current \in TxnIds /\ write_gen \in TxnIds /\ disk_gen \in TxnIds
  /\ \A s \in Sessions : /\ states[s].id \in TxnIds /\ states[s].snap_min \in TxnIds
                         /\ op[s].ptr \in 0 .. Len(upd) /\ at[s] \in NOPOS .. Len(upd)
                         /\ txn[s].running <=> states[s].id # WT_TXN_NONE
  /\ \A k \in Keys : /\ chain[k] = SubSeq(hist[k], 1, Len(chain[k]))
                     /\ freed \intersect Range(chain[k]) = {}

FirstVisible(s, c) == First(SelectSeq(c, LAMBDA u : Visible(s, upd[u])))

\* What a session must find on the chains: its snapshot shows what it would show had
\* __wt_update_obsolete_check never discarded anything, and neither the walk it is in, nor
\* its cursor's value, nor the list it would roll back was freed.
Pointers(s) == Range(txn[s].mod) \union (IF Reading(s) THEN {op[s].ptr, at[s]} ELSE {})
KeptFor(s, k) ==
  /\ Reading(s) => FirstVisible(s, chain[k]) = FirstVisible(s, hist[k])
  /\ Pointers(s) \intersect Range(hist[k]) \intersect freed = {}

\* Nothing a session reads by a snapshot that others can know of is cut off a chain
\* (row_modify.c:328).  Excepted, from when it happens until its next snapshot, is a session
\* whose snapshot another computed the oldest snap_min without: it had not published it yet
\* (txn.c:146) or an eviction of its own had withdrawn it (bt_evict.c:324).  Excepted is also
\* a key whose chain was cut below an update that was not committed.
NeededKept == \A s \in Sessions \ unsafe, k \in Keys \ unsafe : KeptFor(s, k)

\* What txn.i:267 says of the snap_min a reader publishes ("This prevents any update the we
\* are reading from being trimmed to save memory"), without the exceptions.
NeededAlwaysKept == \A s \in Sessions, k \in Keys : KeptFor(s, k)

\* The snapshot of an active cursor stays what it is until another is taken (cursors.dox:33):
\* an eviction changes the answer for no identifier.
SnapshotIsStable ==
  [][\A s \in Sessions : (calls'.evict > calls.evict /\ Reading(s)) => txn'[s].snap = txn[s].snap]_vars

\* A session works at the isolation level it was opened with (api_data.py:266).
IsolationIsKept == [][isolation' = isolation]_vars

\* First updater wins: below an update of a running snapshot transaction there is no
\* update, not rolled back, that the transaction's snapshot does not show.
FirstUpdaterWins ==
  \A s \in Sessions, k \in Keys :
    (txn[s].running /\ txn[s].iso = "snapshot") =>
      \A i, j \in DOMAIN hist[k] :
        (i < j /\ hist[k][i] \in Range(txn[s].mod) /\ upd[hist[k][j]] # WT_TXN_ABORTED)
          => Visible(s, upd[hist[k][j]])

\* The last committed update of a key is never discarded, whoever rolls back.
CommittedKept ==
  \A k \in Keys :
    LET c == SelectSeq(hist[k], LAMBDA u : upd[u] \in done) IN c # <<>> => Head(c) \notin freed
=============================================================================

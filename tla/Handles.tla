------------------------------- MODULE Handles -------------------------------
(***************************************************************************)
(* The handles of one file, shared by the sessions of a connection: one    *)
(* handle for the live tree and one for each checkpoint a cursor opens.    *)
(* conn_btree.c keeps the connection's list and opens and closes handles   *)
(* under the schema lock, session_btree.c keeps a cache of handles in each *)
(* session that is used without it, and every user of a handle holds its   *)
(* read/write lock.  Checkpoints (txn_ckpt.c) replace entries of the       *)
(* file's list in the metadata (meta_ckpt.c), so they lock the handles of  *)
(* the checkpoints they delete, and meta_track.c undoes the change when a  *)
(* later step fails.  Data is the number of changes made to the file.      *)
(***************************************************************************)
EXTENDS Integers, FiniteSets

CONSTANTS Sessions,
          Names,        \* checkpoint names an application uses: <<string, 0>>
          Leading,      \* those that are a leading part of "WiredTigerCheckpoint"
          Drops,        \* the drop configurations an application uses
          Setups,       \* the checkpoints of the file, and the calls each session of an application makes
          MaxOrder,     \* bound: checkpoints taken of the file
          MaxData,      \* bound: changes made to the file
          MaxCalls,     \* bound: calls made
          MaxFaults,    \* bound: checkpoints that fail
          None          \* no session

VARIABLES file,     \* the file's metadata: whether it exists, its checkpoints
          live,     \* the live tree: data, modified and bulk_load_ok
          h,        \* the handles
          cache,    \* [session -> handles in session->btrees]
          cursor,   \* [session -> handles it has a cursor on]
          schema,   \* the session holding the schema lock
          metalock, \* the session holding conn->metadata_lock
          backup,   \* conn->ckpt_backup, and the checkpoints it copies
          call,     \* [session -> the call it is in]
          orphans,  \* checkpoints that closing the live tree deleted
          unsaved,  \* a failed checkpoint left changes in a tree marked clean
          calls, faults,
          use       \* the calls this application makes

vars == <<file, live, h, cache, cursor, schema, metalock, backup, call, orphans, unsaved, calls, faults, use>>

Live == <<"live", 0>>
Internal(k) == <<"WiredTigerCheckpoint", k>>
IsInternal(n) == n[1] = "WiredTigerCheckpoint"
Handles == {Live} \union Names \union {Internal(k) : k \in 1 .. MaxOrder}

Unlisted == [listed |-> FALSE, open |-> FALSE, special |-> "none", discard |-> FALSE,
             refcnt |-> 0, addr |-> 0, writer |-> None]
Idle == [op |-> "none", pc |-> "idle", want |-> Live, name |-> Live, drop |-> <<"none", Live>>, held |-> FALSE,
         snap |-> 0, before |-> {}, marked |-> {}, todo |-> {}, trk |-> {}, failed |-> FALSE]

At(s, pc) == call[s].pc = pc
Want(s) == call[s].want
Jump(s, pc) == call' = [call EXCEPT ![s].pc = pc]

\* WT_BTREE_EXCLUSIVE and the special flags of the operations that open handles.
Excl(s) == call[s].op \in {"bulk", "verify", "drop"}
Special(s) == IF call[s].op \in {"bulk", "verify"} THEN call[s].op ELSE "none"

\* Mutant of Unlocked: readers do not keep a writer out.
UnlockedWithReaders(n) == h[n].writer = None

\* The read/write lock of a handle: a cursor holds it until it is closed.
Readers(n) == {s \in Sessions : (n \in cursor[s] /\ h[n].writer # s) \/ (call[s].held /\ Want(s) = n)}
Unlocked(n) == h[n].writer = None /\ Readers(n) = {}

\* Mutant of Return: the metadata lock is not given up.
ReturnKeepsMetadataLock(s) ==
  /\ call' = [call EXCEPT ![s] = Idle]
  /\ schema' = IF schema = s THEN None ELSE schema
  /\ UNCHANGED metalock

\* Return from a call, giving up the connection's locks.
Return(s) ==
  /\ call' = [call EXCEPT ![s] = Idle]
  /\ schema' = IF schema = s THEN None ELSE schema
  /\ metalock' = IF metalock = s THEN None ELSE metalock

-----------------------------------------------------------------------------
(* The checkpoints of the file: the array of WT_CKPT, sorted by their order *)

MaxOf(S) == IF S = {} THEN 0 ELSE CHOOSE m \in S : \A x \in S : x <= m
Orders(cs) == {c.order : c \in cs}
NamesOf(cs) == {c.name : c \in cs}
Named(cs, n) == CHOOSE c \in cs : c.name = n
Latest(cs) == CHOOSE c \in cs : \A d \in cs : d.order <= c.order

\* The address the live tree is opened at: of the last checkpoint that has one.
Fake == -1
Real(cs) == {c \in cs : c.addr # Fake}
LastAddr(cs) == IF Real(cs) = {} THEN Fake ELSE Latest(Real(cs)).addr
Content(addr) == IF addr = Fake THEN 0 ELSE addr

\* The name of the latest internal checkpoint.
LastInternal(cs) == Latest({c \in cs : IsInternal(c.name)}).name

\* Mutant of DropName: a checkpoint of the application is not replaced.
DropNameKeepsNamed(cs, n) == IF IsInternal(n) THEN {x \in NamesOf(cs) : IsInternal(x)} ELSE {}

\* Drop the checkpoints of a name: one leading "WiredTigerCheckpoint" means all internal ones.
DropName(cs, n) ==
  IF IsInternal(n) \/ n \in Leading
  THEN {x \in NamesOf(cs) : IsInternal(x)}
  ELSE {n} \intersect NamesOf(cs)

DropFrom(cs, n) ==
  IF n = <<"all", 0>> THEN NamesOf(cs)
  ELSE {c.name : c \in {d \in cs : n \in NamesOf(cs) /\ d.order >= Named(cs, n).order}}
DropTo(cs, n) == {c.name : c \in {d \in cs : n \in NamesOf(cs) /\ d.order <= Named(cs, n).order}}

Marked(cs, drop, name) ==
  DropName(cs, name) \union
    CASE drop[1] = "from" -> DropFrom(cs, drop[2])
      [] drop[1] = "to"   -> DropTo(cs, drop[2])
      [] drop[1] = "name" -> DropName(cs, drop[2])
      [] drop[1] = "none" -> {}

\* A clean tree needs no checkpoint if it would only replace the last one.
Same(name, n) == n = name \/ (IsInternal(name) /\ IsInternal(n))
NothingToDo(cs, marked, name) ==
  ~live.modified /\ Cardinality(marked) = 1 /\ Latest(cs).name \in marked /\ Same(name, Latest(cs).name)

\* Write the list: the kept checkpoints and the new one, which gets the next
\* order; an internal name gets the order as its suffix.
Saved(cs, marked, name, addr) ==
  LET order == MaxOf(Orders(cs)) + 1
  IN {c \in cs : c.name \notin marked}
       \union {[name |-> IF IsInternal(name) THEN Internal(order) ELSE name, order |-> order, addr |-> addr]}

-----------------------------------------------------------------------------
(* Closing a handle *)

\* Close a handle that is write-locked, which writes a checkpoint of the live
\* tree if it was changed, deleting the internal checkpoints of the set old.
Written(old) == IF live.modified THEN Saved(file.ckpts, old, Internal(0), live.data) ELSE file.ckpts
Internals == {n \in NamesOf(file.ckpts) : IsInternal(n)}
RoomToClose == live.modified => MaxOf(Orders(file.ckpts)) < MaxOrder

Closed(hs, n) == [hs EXCEPT ![n].open = FALSE, ![n].special = "none", ![n].discard = FALSE]
Released(hs, n) == [hs EXCEPT ![n].writer = None]

\* The close outside a tracked operation: no handle of a deleted checkpoint is locked.
Writes(n) == n = Live /\ h[n].special # "verify" /\ live.modified
SyncAndClose(n) ==
  /\ Writes(n) => RoomToClose
  /\ file' = IF Writes(n) THEN [file EXCEPT !.ckpts = Written(Internals)] ELSE file
  /\ orphans' = IF Writes(n) THEN orphans \union Internals ELSE orphans
  /\ live' = [live EXCEPT !.modified = @ /\ ~Writes(n), !.bulkok = @ /\ n # Live]
  /\ unsaved' = (unsaved /\ ~Writes(n))

-----------------------------------------------------------------------------
(* Getting a handle: __wt_session_get_btree_ckpt *)

\* Find the last internal checkpoint; there may be none.
LastName(s) ==
  /\ At(s, "last")
  /\ IF Internals = {} THEN Return(s)
     ELSE /\ call' = [call EXCEPT ![s].pc = "get", ![s].want = LastInternal(file.ckpts)]
          /\ UNCHANGED <<schema, metalock>>
  /\ UNCHANGED <<file, live, h, cache, cursor, backup, orphans, unsaved, calls, faults>>

\* The handle could not be had.  The open of the last checkpoint looks for a
\* new one; a checkpoint of all files goes on without the lock; the others fail.
GetFailed(s) ==
  /\ call' = [call EXCEPT ![s] = CASE @.op = "checkpoint" -> [@ EXCEPT !.pc = "list"]
                                   [] @.op = "last" -> [@ EXCEPT !.pc = "last"]
                                   [] OTHER -> Idle]
  /\ schema' = IF schema = s /\ call[s].op # "checkpoint" THEN None ELSE schema
  /\ UNCHANGED metalock

\* The handle is locked and, for all but the drop, open: add it to the cache.
\* A cursor keeps it; verify, drop and checkpoint go on to their work.
Onward(op) == CASE op = "verify" -> "verify" [] op = "drop" -> "closeall" [] op = "checkpoint" -> "list"
ForCursor(s) == call[s].op \in {"open", "last", "bulk"}
Granted(s) ==
  /\ cache' = [cache EXCEPT ![s] = @ \union {Want(s)}]
  /\ cursor' = IF ForCursor(s) THEN [cursor EXCEPT ![s] = @ \union {Want(s)}] ELSE cursor
  /\ call' = [call EXCEPT ![s] = IF ForCursor(s) THEN Idle
                                 ELSE [@ EXCEPT !.pc = Onward(call[s].op), !.held = ~Excl(s)]]
  /\ schema' = IF ForCursor(s) /\ schema = s THEN None ELSE schema
  /\ UNCHANGED metalock

\* Lock a handle in the session's cache.  A drop takes the write lock or
\* fails; others wait for a read lock, unless the handle is open for a special
\* operation.
SessionLock(s) ==
  LET n == Want(s)
  IN /\ At(s, "get") /\ n \in cache[s] /\ Special(s) = "none"
     /\ \/ /\ Excl(s) /\ Unlocked(n)
           /\ h' = [h EXCEPT ![n].writer = s]
           /\ Granted(s)
        \/ /\ Excl(s) /\ ~Unlocked(n)
           /\ GetFailed(s) /\ UNCHANGED <<h, cache, cursor>>
        \/ /\ ~Excl(s) /\ h[n].special = "none"
           /\ Jump(s, "read") /\ UNCHANGED <<h, cache, cursor, schema, metalock>>
        \/ /\ ~Excl(s) /\ h[n].special # "none"
           /\ GetFailed(s) /\ UNCHANGED <<h, cache, cursor>>
     /\ UNCHANGED <<file, live, backup, orphans, unsaved, calls, faults>>

\* A handle that was closed while the session waited has to be opened.
ReadLock(s) ==
  /\ At(s, "read")
  /\ h[Want(s)].writer = None
  /\ IF h[Want(s)].open THEN Granted(s) ELSE Jump(s, "find") /\ UNCHANGED <<cache, cursor, schema, metalock>>
  /\ UNCHANGED <<file, live, h, backup, orphans, unsaved, calls, faults>>

\* A drop only wants the lock, the others have to open the handle.
WriteLocked(s) == IF call[s].op = "drop" THEN Granted(s)
                  ELSE Jump(s, "open") /\ schema' = s /\ UNCHANGED <<cache, cursor, metalock>>

\* With the schema lock, find the handle in the connection's list or add it,
\* locked.  A handle to be reopened is not looked for in the session's cache.
FindHandle(s) ==
  LET n == Want(s)
  IN /\ At(s, "find") \/ (At(s, "get") /\ (n \notin cache[s] \/ Special(s) # "none"))
     /\ schema \in {None, s}
     /\ \/ /\ h[n].listed
           /\ h' = [h EXCEPT ![n].refcnt = @ + 1]
           /\ schema' = s /\ Jump(s, "lock") /\ UNCHANGED <<cache, cursor, metalock>>
        \/ /\ ~h[n].listed
           /\ h' = [h EXCEPT ![n] = [@ EXCEPT !.listed = TRUE, !.refcnt = 1, !.writer = s]]
           /\ WriteLocked(s)
     /\ UNCHANGED <<file, live, backup, orphans, unsaved, calls, faults>>

\* One turn of the loop of __conn_btree_open_lock.
OpenLock(s) ==
  LET n == Want(s)
  IN /\ At(s, "lock")
     /\ \/ /\ ~Excl(s) /\ h[n].special # "none"
           /\ GetFailed(s) /\ UNCHANGED <<h, cache, cursor>>
        \/ /\ ~Excl(s) /\ h[n].special = "none" /\ h[n].open /\ h[n].writer = None
           /\ Granted(s) /\ UNCHANGED h
        \/ /\ Excl(s) \/ (h[n].special = "none" /\ ~h[n].open)
           /\ Unlocked(n)
           /\ h' = [h EXCEPT ![n].writer = s]
           /\ WriteLocked(s)
        \/ /\ Excl(s) /\ ~Unlocked(n)
           /\ GetFailed(s) /\ UNCHANGED <<h, cache, cursor>>
     /\ UNCHANGED <<file, live, backup, orphans, unsaved, calls, faults>>

\* A handle that is open in another mode is closed first.
Reopen(s) ==
  /\ At(s, "open") /\ Special(s) # "none" /\ h[Want(s)].open /\ file.exists
  /\ SyncAndClose(Want(s))
  /\ h' = Closed(h, Want(s))
  /\ UNCHANGED <<cache, cursor, schema, metalock, backup, call, calls, faults>>

\* The address to open at, or that the open fails: a checkpoint may be gone
\* and only a new file can be bulk-loaded.
CanOpen(s) == /\ Want(s) # Live => Want(s) \in NamesOf(file.ckpts)
              /\ Special(s) = "bulk" => LastAddr(file.ckpts) = Fake
AddrOf(n) == IF n = Live THEN LastAddr(file.ckpts) ELSE Named(file.ckpts, n).addr

\* The file is not in the metadata: the reference taken is kept.
OpenGone(s) ==
  /\ At(s, "open") /\ ~file.exists
  /\ h' = Released(h, Want(s))
  /\ GetFailed(s)
  /\ UNCHANGED <<file, live, cache, cursor, backup, orphans, unsaved, calls, faults>>

OpenFails(s) ==
  /\ At(s, "open") /\ file.exists /\ ~h[Want(s)].open /\ ~CanOpen(s)
  /\ h' = [Released(h, Want(s)) EXCEPT ![Want(s)].refcnt = @ - 1]
  /\ GetFailed(s)
  /\ UNCHANGED <<file, live, cache, cursor, backup, orphans, unsaved, calls, faults>>

\* Mutant of OpenedTree: a file that has been written may be bulk-loaded.
OpenedTreeBulkLoads(s) ==
  [data |-> Content(AddrOf(Live)), modified |-> FALSE, bulkok |-> Special(s) # "verify"]

\* The live tree as it is opened; only a file never written may be bulk-loaded.
OpenedTree(s) ==
  [data |-> Content(AddrOf(Live)), modified |-> FALSE, bulkok |-> Special(s) # "verify" /\ AddrOf(Live) = Fake]

\* Open the handle; without WT_BTREE_EXCLUSIVE, go back for a read lock.
OpenHandle(s) ==
  LET n == Want(s)
  IN /\ At(s, "open") /\ file.exists /\ ~h[n].open /\ CanOpen(s)
     /\ h' = [h EXCEPT ![n] = [@ EXCEPT !.open = TRUE, !.special = Special(s), !.addr = AddrOf(n),
                                        !.writer = IF Excl(s) THEN s ELSE None]]
     /\ live' = IF n = Live THEN OpenedTree(s) ELSE live
     /\ unsaved' = (unsaved /\ n # Live)
     /\ IF Excl(s) THEN Granted(s) ELSE Jump(s, "lock") /\ UNCHANGED <<cache, cursor, schema, metalock>>
     /\ UNCHANGED <<file, backup, orphans, calls, faults>>

-----------------------------------------------------------------------------
(* WT_SESSION::checkpoint *)

\* Take the metadata lock, start the snapshot transaction and the tracking.  A
\* plain checkpoint is of an open file only; others open it.
MetaLock(s) ==
  /\ At(s, "metalock")
  /\ metalock = None
  /\ metalock' = s
  /\ call' = [call EXCEPT ![s] = [@ EXCEPT !.snap = live.data, !.before = file.ckpts,
       !.pc = IF IsInternal(call[s].name) /\ call[s].drop[1] = "none"
              THEN IF h[Live].open THEN "list" ELSE "off"
              ELSE IF file.exists THEN "get" ELSE "off"]]
  /\ UNCHANGED <<file, live, h, cache, cursor, schema, backup, orphans, unsaved, calls, faults>>

\* Choose the checkpoints to delete; there may be nothing to do.
ListCkpts(s) ==
  LET marked == Marked(file.ckpts, call[s].drop, call[s].name)
  IN /\ At(s, "list")
     /\ MaxOf(Orders(file.ckpts)) < MaxOrder
     /\ call' = [call EXCEPT ![s] = IF NothingToDo(file.ckpts, marked, call[s].name) THEN [@ EXCEPT !.pc = "off"]
                                    ELSE [@ EXCEPT !.pc = "cklock", !.marked = marked, !.todo = marked]]
     /\ UNCHANGED <<file, live, h, cache, cursor, schema, metalock, backup, orphans, unsaved, calls, faults>>

\* Mutant of LockedHandle: the handle is not closed when the lock is released.
LockedHandleKept(s, n) ==
  [h EXCEPT ![n] = [@ EXCEPT !.listed = TRUE, !.writer = s,
                             !.refcnt = IF n \in cache[s] THEN h[n].refcnt ELSE h[n].refcnt + 1]]

\* Mutant of LockedHandle: the reference is not counted.
LockedHandleUncounted(s, n) == [h EXCEPT ![n] = [@ EXCEPT !.listed = TRUE, !.writer = s, !.discard = TRUE]]

\* Lock the handle of a checkpoint to be deleted, in the cache or in the
\* connection's list; it is closed when the lock is released.
LockedHandle(s, n) ==
  [h EXCEPT ![n] = [@ EXCEPT !.listed = TRUE, !.writer = s, !.discard = TRUE,
                             !.refcnt = IF n \in cache[s] THEN h[n].refcnt ELSE h[n].refcnt + 1]]

\* One in use by a cursor or a backup is kept if it is internal, an error otherwise.
InUse(s, n) ==
  call' = IF IsInternal(n) THEN [call EXCEPT ![s].marked = @ \ {n}, ![s].todo = @ \ {n}]
          ELSE [call EXCEPT ![s].failed = TRUE, ![s].pc = "off"]
LockCkpt(s) ==
  /\ At(s, "cklock")
  /\ \E n \in call[s].todo :
       \/ backup.on /\ InUse(s, n) /\ UNCHANGED <<h, cache>>
       \/ /\ ~backup.on /\ Unlocked(n)
          /\ h' = LockedHandle(s, n)
          /\ cache' = [cache EXCEPT ![s] = @ \union {n}]
          /\ call' = [call EXCEPT ![s].todo = @ \ {n}, ![s].trk = @ \union {n}]
       \/ /\ ~backup.on /\ ~Unlocked(n)
          /\ h' = [h EXCEPT ![n].refcnt = IF n \in cache[s] THEN @ ELSE @ + 1]
          /\ InUse(s, n) /\ UNCHANGED cache
  /\ UNCHANGED <<file, live, cursor, schema, metalock, backup, orphans, unsaved, calls, faults>>

Ready(s) == At(s, "cklock") /\ call[s].todo = {}
FakeOnly(cs) == Real(cs) = {}

\* A file that is or could become bulk-loaded gets an entry without an address.
FakeCkpt(s) ==
  /\ Ready(s)
  /\ h[Live].special = "bulk" \/ live.bulkok
  /\ file' = [file EXCEPT !.ckpts = IF h[Live].special = "bulk" /\ ~FakeOnly(@) THEN @
                                    ELSE Saved(@, call[s].marked, call[s].name, Fake)]
  /\ Jump(s, "off")
  /\ UNCHANGED <<live, h, cache, cursor, schema, metalock, backup, orphans, unsaved, calls, faults>>

\* The tree is marked clean before it is written.
ClearModified(s) ==
  /\ Ready(s)
  /\ h[Live].special # "bulk" /\ ~live.bulkok
  /\ live' = [live EXCEPT !.modified = FALSE]
  /\ Jump(s, "flush")
  /\ UNCHANGED <<file, h, cache, cursor, schema, metalock, backup, orphans, unsaved, calls, faults>>

\* Mutant of FlushCkpt: skipping a change does not mark the tree dirty.
FlushCkptStaysClean(s) ==
  /\ At(s, "flush")
  /\ file' = [file EXCEPT !.ckpts = Saved(@, call[s].marked, call[s].name, call[s].snap)]
  /\ unsaved' = (unsaved /\ live.data # call[s].snap)
  /\ Jump(s, "off")
  /\ UNCHANGED <<live, h, cache, cursor, schema, metalock, backup, orphans, calls, faults>>

\* The changes of the snapshot are written; skipping one marks the tree dirty again.
FlushCkpt(s) ==
  /\ At(s, "flush")
  /\ file' = [file EXCEPT !.ckpts = Saved(@, call[s].marked, call[s].name, call[s].snap)]
  /\ live' = [live EXCEPT !.modified = @ \/ live.data # call[s].snap]
  /\ unsaved' = (unsaved /\ live.data # call[s].snap)
  /\ Jump(s, "off")
  /\ UNCHANGED <<h, cache, cursor, schema, metalock, backup, orphans, calls, faults>>

\* The write fails, or a later file's: nothing marks the tree dirty again.
CkptFails(s) ==
  /\ At(s, "flush") \/ (At(s, "off") /\ call[s].op = "checkpoint" /\ file.ckpts # call[s].before)
  /\ ~call[s].failed /\ faults < MaxFaults
  /\ faults' = faults + 1
  /\ call' = [call EXCEPT ![s].failed = TRUE, ![s].pc = "off"]
  /\ unsaved' = (unsaved \/ ~live.modified)
  /\ UNCHANGED <<file, live, h, cache, cursor, schema, metalock, backup, orphans, calls>>

\* Turn tracking off: undo the metadata update if the call failed, close the
\* handles of deleted checkpoints and release every lock.
Unlock(hs, ns) == [n \in Handles |-> IF n \notin ns THEN hs[n]
                                     ELSE IF hs[n].discard THEN Released(Closed(hs, n), n)[n]
                                     ELSE Released(hs, n)[n]]
TrackOff(s) ==
  /\ At(s, "off")
  /\ file' = IF call[s].failed /\ call[s].op = "checkpoint" THEN [file EXCEPT !.ckpts = call[s].before] ELSE file
  /\ h' = Unlock(h, call[s].trk)
  /\ Return(s)
  /\ UNCHANGED <<live, cache, cursor, backup, orphans, unsaved, calls, faults>>

-----------------------------------------------------------------------------
(* WT_SESSION::drop, verify, create and close; cursor close *)

\* Lock and close the handles one by one.  The close of the live tree is
\* tracked: it only deletes the internal checkpoints whose handle it can lock.
CanDelete(s) == IF backup.on THEN {} ELSE {n \in Internals : Unlocked(n)}
CloseOne(s) ==
  /\ At(s, "closeall")
  /\ \E n \in {m \in Handles : h[m].listed} \ call[s].todo :
       \/ /\ n # Live /\ ~Unlocked(n)
          /\ call' = [call EXCEPT ![s].failed = TRUE, ![s].pc = "off", ![s].trk = @ \union {Live}]
          /\ UNCHANGED <<file, live, h, cache, unsaved>>
       \/ /\ n # Live /\ Unlocked(n)
          /\ h' = [Closed(h, n) EXCEPT ![n].writer = s]
          /\ call' = [call EXCEPT ![s].todo = @ \union {n}, ![s].trk = @ \union {n, Live}]
          /\ UNCHANGED <<file, live, cache, unsaved>>
       \/ /\ n = Live /\ RoomToClose
          /\ LET old == IF h[Live].open /\ live.modified THEN CanDelete(s) ELSE {}
             IN /\ file' = IF h[Live].open THEN [file EXCEPT !.ckpts = Written(old)] ELSE file
                /\ h' = [m \in Handles |->
                           IF m = Live THEN Closed(h, Live)[Live]
                           ELSE IF m \in old THEN Unlock(LockedHandle(s, m), {m})[m] ELSE h[m]]
                /\ cache' = [cache EXCEPT ![s] = @ \union old]
          /\ live' = [live EXCEPT !.modified = FALSE, !.bulkok = FALSE]
          /\ unsaved' = (unsaved /\ ~live.modified)
          /\ call' = [call EXCEPT ![s].todo = @ \union {n}, ![s].trk = @ \union {n}]
  /\ UNCHANGED <<cursor, schema, metalock, backup, orphans, calls, faults>>

\* All handles are closed: remove the file and its metadata.
DropFile(s) ==
  /\ At(s, "closeall")
  /\ {m \in Handles : h[m].listed} \subseteq call[s].todo
  /\ file' = [exists |-> FALSE, ckpts |-> {}]
  /\ live' = [live EXCEPT !.data = 0]
  /\ unsaved' = FALSE
  /\ backup' = [backup EXCEPT !.has = {}]
  /\ orphans' = {}
  /\ Jump(s, "off")
  /\ UNCHANGED <<h, cache, cursor, schema, metalock, calls, faults>>

\* Verify is done: the handle is closed so the next user opens it normally.
VerifyDone(s) ==
  /\ At(s, "verify")
  /\ SyncAndClose(Live)
  /\ h' = Released(Closed(h, Live), Live)
  /\ Return(s)
  /\ UNCHANGED <<cache, cursor, backup, calls, faults>>

\* A new file is opened once, with a reference no session has.
CreateFile(s) ==
  /\ At(s, "create")
  /\ IF file.exists THEN UNCHANGED <<file, live, h>>
     ELSE /\ Unlocked(Live)
          /\ file' = [exists |-> TRUE, ckpts |-> {}]
          /\ live' = [data |-> 0, modified |-> FALSE, bulkok |-> TRUE]
          /\ h' = [h EXCEPT ![Live] = [@ EXCEPT !.listed = TRUE, !.refcnt = h[Live].refcnt + 1, !.open = TRUE,
                                                 !.addr = Fake]]
  /\ Return(s)
  /\ UNCHANGED <<cache, cursor, backup, orphans, unsaved, calls, faults>>

\* Discard one handle of the session's cache, closing it after the last reference.
DiscardBtree(s) ==
  /\ At(s, "discard")
  /\ \E n \in cache[s] :
       /\ cache' = [cache EXCEPT ![s] = @ \ {n}]
       /\ IF h[n].refcnt > 1 \/ ~h[n].open
          THEN h' = [h EXCEPT ![n].refcnt = @ - 1] /\ UNCHANGED <<file, live, orphans, unsaved>>
          ELSE /\ Unlocked(n)
               /\ SyncAndClose(n)
               /\ h' = [Closed(h, n) EXCEPT ![n].refcnt = 0]
  /\ UNCHANGED <<cursor, schema, metalock, backup, call, calls, faults>>
CloseDone(s) ==
  /\ At(s, "discard") /\ cache[s] = {}
  /\ Return(s)
  /\ UNCHANGED <<file, live, h, cache, cursor, backup, orphans, unsaved, calls, faults>>

\* Close a cursor.  The end of a bulk load marks the tree modified, and its
\* handle is closed under the metadata lock.
CloseCursor(s) ==
  /\ At(s, "idle")
  /\ \E n \in cursor[s] :
       IF h[n].special = "none"
       THEN cursor' = [cursor EXCEPT ![s] = @ \ {n}] /\ UNCHANGED <<live, call>>
       ELSE /\ live' = [data |-> 1, modified |-> TRUE, bulkok |-> live.bulkok]
            /\ call' = [call EXCEPT ![s].op = "endbulk", ![s].pc = "endbulk"]
            /\ UNCHANGED cursor
  /\ UNCHANGED <<file, h, cache, schema, metalock, backup, orphans, unsaved, calls, faults>>
BulkClose(s) ==
  /\ At(s, "endbulk")
  /\ metalock = None
  /\ SyncAndClose(Live)
  /\ h' = Released(Closed(h, Live), Live)
  /\ cursor' = [cursor EXCEPT ![s] = @ \ {Live}]
  /\ call' = [call EXCEPT ![s] = Idle]
  /\ UNCHANGED <<cache, schema, metalock, backup, calls, faults>>

Modify(s) ==
  /\ At(s, "idle") /\ Live \in cursor[s] /\ h[Live].special = "none"
  /\ live.data < MaxData
  /\ live' = [data |-> live.data + 1, modified |-> TRUE, bulkok |-> FALSE]
  /\ UNCHANGED <<file, h, cache, cursor, schema, metalock, backup, call, orphans, unsaved, calls, faults>>

\* Mutant of BackupStart: the flag is not set.
BackupStartUnflagged(s) ==
  /\ At(s, "backup")
  /\ backup' = [on |-> FALSE, has |-> NamesOf(file.ckpts)]
  /\ Return(s)
  /\ UNCHANGED <<file, live, h, cache, cursor, orphans, unsaved, calls, faults>>

\* A backup cursor copies the checkpoints of the list; there is one at a time.
BackupStart(s) ==
  /\ At(s, "backup")
  /\ backup' = IF backup.on THEN backup ELSE [on |-> TRUE, has |-> NamesOf(file.ckpts)]
  /\ Return(s)
  /\ UNCHANGED <<file, live, h, cache, cursor, orphans, unsaved, calls, faults>>
BackupStop ==
  /\ backup.on
  /\ backup' = [on |-> FALSE, has |-> {}]
  /\ UNCHANGED <<file, live, h, cache, cursor, schema, metalock, call, orphans, unsaved, calls, faults>>

\* The calls that run under the schema lock.
SchemaLock(s) ==
  /\ At(s, "start")
  /\ schema = None
  /\ schema' = s
  /\ Jump(s, CASE call[s].op \in {"verify", "drop"} -> "get" [] call[s].op = "checkpoint" -> "metalock"
               [] call[s].op = "close" -> "discard" [] OTHER -> call[s].op)
  /\ UNCHANGED <<file, live, h, cache, cursor, metalock, backup, orphans, unsaved, calls, faults>>

-----------------------------------------------------------------------------
(* The application *)

Begin(s, c) ==
  /\ At(s, "idle") /\ calls < MaxCalls /\ c.op \in use[s]
  /\ calls' = calls + 1
  /\ call' = [call EXCEPT ![s] = c]
  /\ UNCHANGED <<file, live, h, cache, cursor, schema, metalock, backup, orphans, unsaved, faults>>

OpenCursor(s) == \E n \in ({Live} \union Names) \ cursor[s] :
                   Begin(s, [Idle EXCEPT !.op = "open", !.pc = "get", !.want = n])
OpenLast(s) == cursor[s] \subseteq ({Live} \union Names) /\ Begin(s, [Idle EXCEPT !.op = "last", !.pc = "last"])
OpenBulk(s) == Live \notin cursor[s] /\ Begin(s, [Idle EXCEPT !.op = "bulk", !.pc = "get"])
Checkpoint(s) == \E n \in {Internal(0)} \union Names, d \in Drops :
                   Begin(s, [Idle EXCEPT !.op = "checkpoint", !.pc = "start", !.name = n, !.drop = d])
SchemaCall(s) == \E op \in {"verify", "drop", "create", "backup"} : Begin(s, [Idle EXCEPT !.op = op, !.pc = "start"])
CloseSession(s) == cursor[s] = {} /\ cache[s] # {} /\ Begin(s, [Idle EXCEPT !.op = "close", !.pc = "start"])

Application(s) == OpenCursor(s) \/ OpenLast(s) \/ OpenBulk(s) \/ Checkpoint(s) \/ SchemaCall(s) \/ CloseSession(s)
                  \/ Modify(s)

Working(s) ==
  \/ LastName(s) \/ SessionLock(s) \/ ReadLock(s) \/ FindHandle(s) \/ OpenLock(s) \/ Reopen(s) \/ OpenGone(s)
  \/ OpenFails(s) \/ OpenHandle(s) \/ SchemaLock(s) \/ MetaLock(s) \/ ListCkpts(s)
  \/ LockCkpt(s) \/ FakeCkpt(s) \/ ClearModified(s) \/ FlushCkpt(s) \/ TrackOff(s) \/ CloseOne(s) \/ DropFile(s)
  \/ VerifyDone(s) \/ CreateFile(s) \/ DiscardBtree(s) \/ CloseDone(s) \/ CloseCursor(s) \/ BulkClose(s) \/ BackupStart(s)

\* The connection has just been opened.
Init ==
  /\ \E u \in Setups : file = [exists |-> TRUE, ckpts |-> u.ckpts] /\ use = u.use
  /\ live = [data |-> Content(LastAddr(file.ckpts)), modified |-> FALSE, bulkok |-> FALSE]
  /\ h = [n \in Handles |-> Unlisted]
  /\ cache = [s \in Sessions |-> {}] /\ cursor = [s \in Sessions |-> {}]
  /\ schema = None /\ metalock = None
  /\ backup = [on |-> FALSE, has |-> {}]
  /\ call = [s \in Sessions |-> Idle]
  /\ orphans = {} /\ unsaved = FALSE /\ calls = 0 /\ faults = 0

Next == use' = use /\ ((\E s \in Sessions : Application(s) \/ Working(s) \/ CkptFails(s)) \/ BackupStop)

\* Every session goes on with the call it is in and closes its cursors: one that
\* looked at a handle just before it was locked to bulk load waits for the load.
Spec == Init /\ [][Next]_vars /\ \A s \in Sessions : WF_vars(Working(s) /\ use' = use)

-----------------------------------------------------------------------------
Ops == {"none", "open", "last", "bulk", "verify", "drop", "checkpoint", "create", "backup", "close", "endbulk"}
PCs == {"idle", "start", "last", "get", "read", "find", "lock", "open", "verify", "closeall", "metalock", "list",
        "cklock", "flush", "off", "discard", "endbulk"} \union Ops
Sids == Sessions \union {None}
Addrs == Nat \union {Fake}
Ckpts == [name : Handles \ {Live}, order : 1 .. MaxOrder, addr : Addrs]
States == [listed : BOOLEAN, open : BOOLEAN, special : {"none", "bulk", "verify"}, discard : BOOLEAN,
           refcnt : Nat, addr : Addrs, writer : Sids]
Calls == [op : Ops, pc : PCs, want : Handles, name : Names \union {Live, Internal(0)},
          drop : Drops \union {<<"none", Live>>}, held : BOOLEAN, snap : Nat, before : SUBSET Ckpts,
          marked : SUBSET (Handles \ {Live}), todo : SUBSET Handles, trk : SUBSET Handles, failed : BOOLEAN]
LockTypes ==
  /\ h \in [Handles -> States] /\ call \in [Sessions -> Calls]
  /\ cache \in [Sessions -> SUBSET Handles] /\ cursor \in [Sessions -> SUBSET Handles]
  /\ schema \in Sids /\ metalock \in Sids
MetaTypes ==
  /\ file \in [exists : BOOLEAN, ckpts : SUBSET Ckpts]
  /\ live \in [data : Nat, modified : BOOLEAN, bulkok : BOOLEAN]
  /\ backup \in [on : BOOLEAN, has : SUBSET Handles] /\ unsaved \in BOOLEAN
TypeOK == LockTypes /\ MetaTypes

\* A cursor's handle stays open, in the mode it was opened in, and is
\* referenced (session_btree.c holds the lock "while the cursor is using it").
HeldIsOpen ==
  \A s \in Sessions : \A n \in cursor[s] :
    /\ h[n].open /\ n \in cache[s]
    /\ IF h[n].special = "none" THEN h[n].writer = None ELSE h[n].writer = s

\* No handle is closed or forgotten under a session that caches it: the
\* reference count is at least the number of sessions (conn_btree.c:396).
RefcntCoversCaches == \A n \in Handles : h[n].refcnt >= Cardinality({s \in Sessions : n \in cache[s]})

\* The open checkpoint handles that nobody has locked are of the checkpoints cs.
Current(cs) ==
  \A n \in Handles \ {Live} :
    h[n].open /\ h[n].writer = None /\ n \notin orphans
      => \E c \in cs : c.name = n /\ c.addr = h[n].addr

\* An open checkpoint handle that nobody has locked to delete it is of a
\* checkpoint still in the metadata, opened at the address the metadata has:
\* re-creating a checkpoint never leaves a handle on the old one.  Closing the
\* live tree is the exception.
OpenCheckpointIsCurrent == Current(file.ckpts)

\* Closing the live tree deletes no checkpoint a cursor is reading (txn_ckpt.c:434-438).
CloseKeepsOpenCheckpoints == \A s \in Sessions : cursor[s] \intersect orphans = {}

\* The checkpoints of cs without an address come before the others.
FakesFirst(cs) == \A c, d \in cs : c.order < d.order /\ d.addr = Fake => c.addr = Fake

\* Bulk-loaded files: no checkpoint without an address follows a real one (conn_btree.c:174-176).
FakesComeFirst == FakesFirst(file.ckpts)

\* A checkpoint has one name (meta_ckpt.c:141-143).
NamesAreUnique == \A c, d \in file.ckpts : c.name = d.name => c = d

\* A checkpoint has marked the tree clean and is writing it.
Checkpointing == \E s \in Sessions : call[s].op = "checkpoint" /\ call[s].pc = "flush"

\* Changes are never lost: a tree that is closed, or open and marked clean with
\* no checkpoint writing it, has its changes in the last checkpoint, unless a
\* checkpoint failed after the tree was marked clean (txn_ckpt.c:572).
ChangesAreSaved ==
  file.exists /\ ~live.modified /\ ~Checkpointing /\ ~unsaved => Content(LastAddr(file.ckpts)) = live.data

\* The same without the exception.
CleanIsSaved == file.exists /\ ~live.modified /\ ~Checkpointing => Content(LastAddr(file.ckpts)) = live.data

\* The checkpoints a backup copies stay until it ends (cur_backup.c:197).
BackupIsKept == backup.has \ orphans \subseteq NamesOf(file.ckpts)

\* Once the application makes no more calls every call returns.
CallsReturn == \A s \in Sessions : call[s].pc # "idle" ~> call[s].pc = "idle"

-----------------------------------------------------------------------------
(* The inductive invariant: who has a handle, and what a checkpoint of the *)
(* file may still undo.                                                    *)

\* There are finitely many sessions, the names are of checkpoints, and the
\* files to start from have lists of checkpoints the code can have written.
ASSUME SessionsAssumption == IsFiniteSet(Sessions) /\ None \notin Sessions
ASSUME NamesAssumption ==
  /\ Live \notin Names /\ MaxOrder \in Nat
  /\ \A d \in Drops : d[1] \in {"from", "to", "name", "none"}
ASSUME SetupsAssumption == \A u \in Setups : u.ckpts \in SUBSET Ckpts /\ FakesFirst(u.ckpts)

\* The steps of a call: which calls take them, and on which handle.
Flow(c) ==
  /\ c.pc = "idle" <=> c.op = "none"
  /\ c.pc = "last" => c.op = "last"
  /\ c.pc \in {"read", "find"} => c.op \in {"open", "last", "checkpoint"}
  /\ c.pc \in {"get", "lock", "open"} => c.op \in {"open", "last", "bulk", "verify", "drop", "checkpoint"}
  /\ c.pc = "open" => c.op # "drop"
  /\ c.pc \in {"metalock", "list", "cklock", "flush"} => c.op = "checkpoint"
  /\ c.pc = "off" => c.op \in {"checkpoint", "drop"}
  /\ c.pc = "closeall" => c.op = "drop"
  /\ c.pc = "discard" => c.op = "close"
  /\ c.pc \in {"verify", "create", "backup", "endbulk"} => c.op = c.pc
  /\ c.pc = "start" => c.op \in {"verify", "drop", "create", "backup", "checkpoint", "close"}
  /\ c.op \notin {"open", "last"} => c.want = Live
  /\ c.op = "checkpoint" => c.name # Live
  /\ c.trk # {} => c.pc \in {"cklock", "flush", "closeall", "off"}
  /\ c.held => c.op = "checkpoint" /\ c.pc \in {"list", "cklock", "flush", "off"}

\* The calls that hold the schema lock, and the metadata lock.
UnderSchema(c) ==
  \/ c.pc \in {"lock", "open"}
  \/ c.op \in {"verify", "drop", "checkpoint", "create", "backup", "close"} /\ c.pc # "start"
InCkpt(c) == c.op = "checkpoint" /\ c.pc \notin {"start", "metalock"}

\* The handles a call has write-locked.
Locks(c) ==
  (IF c.pc = "open" THEN {c.want} ELSE {})
    \union (IF c.pc \in {"verify", "closeall"} \/ (c.op = "drop" /\ c.pc = "off") THEN {Live} ELSE {})
    \union c.trk

\* What a session relies on.
SessionOK(s) ==
  /\ Flow(call[s])
  /\ UnderSchema(call[s]) => schema = s
  /\ InCkpt(call[s]) => metalock = s
  /\ \A n \in cache[s] : h[n].listed
  /\ \A n \in cursor[s] : /\ n \in cache[s] /\ h[n].open
                          /\ h[n].writer = IF h[n].special = "none" THEN None ELSE s
  /\ \A n \in Locks(call[s]) : /\ h[n].writer = s
                               /\ h[n].special = IF At(s, "verify") THEN "verify" ELSE "none"
                               /\ \A r \in Sessions : n \notin cursor[r]
  /\ call[s].held => h[Live].open /\ h[Live].writer = None
  /\ At(s, "endbulk") => Live \in cursor[s] /\ h[Live].special = "bulk"
  /\ At(s, "read") => Want(s) \in cache[s]
  /\ At(s, "lock") => h[Want(s)].listed
  /\ call[s].op = "close" => cursor[s] = {}

HandleOK(n) ==
  /\ h[n].open \/ h[n].writer # None => h[n].listed
  /\ h[n].special # "none" => n = Live /\ h[n].open /\ h[n].writer # None
  /\ h[n].special = "verify" => At(h[n].writer, "verify")

\* The sessions that have the handle in their cache; one that is getting it
\* has a reference of its own.
Cachers(n) == {s \in Sessions : n \in cache[s]}
Counted ==
  /\ \A n \in Handles : h[n].refcnt >= Cardinality(Cachers(n))
  /\ \A s \in Sessions : call[s].pc \in {"lock", "open"} => h[Want(s)].refcnt > Cardinality(Cachers(Want(s)))

\* Who has a handle open, locked, cached and counted.
LockInv == LockTypes /\ (\A s \in Sessions : SessionOK(s)) /\ (\A n \in Handles : HandleOK(n)) /\ Counted

\* A list of checkpoints the file may have, now or when a checkpoint is undone.
BulkLoads == live.bulkok \/ h[Live].special = "bulk"
Good(cs) ==
  /\ Current(cs) /\ FakesFirst(cs)
  /\ BulkLoads => FakeOnly(cs)
  /\ backup.has \ orphans \subseteq NamesOf(cs)

\* A checkpoint of the file: nothing has changed before it is written, the
\* checkpoints it deletes are locked by then, and it can be undone.
CkptOK(c) ==
  InCkpt(c) =>
    /\ Good(c.before)
    /\ c.pc # "off" => file.ckpts = c.before
    /\ ~file.exists => c.pc = "off" /\ ~c.failed /\ c.before = {}
    /\ c.pc \in {"list", "cklock", "flush"} => h[Live].open /\ h[Live].special # "verify"
    /\ \A n \in c.trk : h[n].discard
    /\ backup.on => c.trk = {}
    /\ c.pc \in {"cklock", "flush"} => /\ c.todo \subseteq c.marked /\ c.marked \subseteq c.trk \union c.todo
                                      /\ MaxOf(Orders(c.before)) < MaxOrder
    /\ c.pc = "flush" => c.todo = {} /\ ~BulkLoads
    /\ c.failed => file.ckpts = c.before \/ unsaved \/ live.modified

\* A checkpoint's handle is opened once, a drop closes handles for good, and a
\* checkpoint that fails does nothing more.
CallOK(c) ==
  /\ c.op = "checkpoint" /\ c.failed => c.pc = "off"
  /\ c.pc = "open" /\ c.want # Live => ~h[c.want].open
  /\ c.op = "drop" => \A n \in c.todo \union (c.trk \ {Live}) : ~h[n].open /\ c.pc \in {"closeall", "off"}

\* Which checkpoints the file has, and who relies on them.
MetaInv ==
  /\ MetaTypes
  /\ Good(file.ckpts) /\ ChangesAreSaved
  /\ ~file.exists => file.ckpts = {} /\ \A n \in Handles : ~h[n].open
  /\ ~h[Live].discard /\ (live.modified => h[Live].open /\ h[Live].special # "verify")
  /\ ~backup.on => backup.has = {}
  /\ \A s \in Sessions : CkptOK(call[s]) /\ CallOK(call[s])

\* Every handle is open, locked and referenced as its users need it, and the
\* list of checkpoints is one the open handles, a backup and a checkpoint that
\* is undone can rely on (conn_btree.c, session_btree.c, txn_ckpt.c).
HandleInv == LockInv /\ MetaInv
=============================================================================

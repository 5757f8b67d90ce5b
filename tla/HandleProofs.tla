---------------------------- MODULE HandleProofs ----------------------------
(***************************************************************************)
(* Theorems about Handles.  Every step keeps LockInv and MetaInv, so       *)
(* HandleInv holds always, and the properties follow from it.              *)
(***************************************************************************)
EXTENDS HandleSteps, HandleMeta

\* The prover of a leaf that names no other.
USE ZenonT(60)

\* A connection that has just been opened has no handle, and no session is in a call.
LEMMA InitInv == Init => HandleInv
<1> SUFFICES ASSUME Init PROVE HandleInv
  OBVIOUS
<1>0. /\ call = [s \in Sessions |-> Idle] /\ h = [n \in Handles |-> Unlisted] /\ schema = None /\ metalock = None
      /\ cache = [s \in Sessions |-> {}] /\ cursor = [s \in Sessions |-> {}] /\ Live \in Handles
      /\ backup = [on |-> FALSE, has |-> {}] /\ orphans = {} /\ unsaved = FALSE
  BY DEF Init, Handles
<1>1. Unlisted \in States /\ Idle \in Calls
  <2>1. Unlisted \in States
    BY DEF Unlisted, States, Addrs, Sids
  <2> QED BY <2>1, IdleIsCall
<1>2. /\ \A s \in Sessions : call[s] = Idle /\ cache[s] = {} /\ cursor[s] = {}
      /\ \A n \in Handles : h[n] = Unlisted /\ ~h[n].listed /\ ~h[n].open /\ h[n].special = "none" /\ ~h[n].discard
                            /\ h[n].refcnt = 0 /\ h[n].writer = None
  BY <1>0 DEF Unlisted
<1>3. LockTypes
  BY <1>0, <1>1 DEF LockTypes, Sids
<1>4. ASSUME NEW s \in Sessions PROVE SessionOK(s)
  <2>1. /\ Idle.pc = "idle" /\ Idle.op = "none" /\ Idle.want = Live /\ Idle.trk = {} /\ ~Idle.held
    BY DEF Idle
  <2>2. Flow(Idle) /\ ~UnderSchema(Idle) /\ ~InCkpt(Idle) /\ Locks(Idle) = {}
    BY <2>1 DEF Flow, UnderSchema, InCkpt, Locks
  <2> QED BY <1>2, <2>1, <2>2 DEF SessionOK, At
<1>5. \A n \in Handles : HandleOK(n)
  BY <1>2 DEF HandleOK
<1>6. Counted
  <2>1. ASSUME NEW n \in Handles PROVE h[n].refcnt >= Cardinality(Cachers(n))
    <3>1. Cachers(n) = {}
      BY <1>2 DEF Cachers
    <3> QED BY SMTT(20), <1>2, <3>1, FS_EmptySet
  <2>2. \A s \in Sessions : call[s].pc \notin {"lock", "open"}
    BY SMTT(20), <1>2 DEF Idle
  <2> QED BY <2>1, <2>2 DEF Counted
<1>7. LockInv
  BY <1>3, <1>4, <1>5, <1>6 DEF LockInv
<1>8. PICK u \in Setups : file = [exists |-> TRUE, ckpts |-> u.ckpts]
  BY DEF Init
<1>9. /\ file.exists /\ file.ckpts = u.ckpts /\ file \in [exists : BOOLEAN, ckpts : SUBSET Ckpts]
      /\ FakesFirst(file.ckpts)
  BY <1>8, SetupsAssumption
<1>10. /\ live \in [data : Nat, modified : BOOLEAN, bulkok : BOOLEAN] /\ ~live.bulkok /\ ~live.modified
       /\ live.data = Content(LastAddr(file.ckpts))
  <2>1. live = [data |-> Content(LastAddr(file.ckpts)), modified |-> FALSE, bulkok |-> FALSE]
    BY DEF Init
  <2>2. LastAddr(file.ckpts) \in Addrs
    BY <1>9, LastAddrIsIn
  <2>3. Content(LastAddr(file.ckpts)) \in Nat
    BY <2>2 DEF Content, Addrs
  <2> QED BY <2>1, <2>3
<1>11. MetaTypes
  BY <1>0, <1>9, <1>10 DEF MetaTypes
<1>12. Good(file.ckpts) /\ ChangesAreSaved
  BY <1>0, <1>2, <1>9, <1>10 DEF Good, Current, BulkLoads, ChangesAreSaved
<1>13. \A s \in Sessions : CkptOK(call[s]) /\ CallOK(call[s])
  BY <1>2, IdleIsOK
<1> QED BY <1>0, <1>2, <1>7, <1>9, <1>10, <1>11, <1>12, <1>13 DEF HandleInv, MetaInv

\* Every action keeps MetaInv.
LEMMA MetaNext ==
  ASSUME Locking, Typed', Listing, Next
  PROVE  Listing'
<1> LockInv /\ MetaInv /\ LockTypes'
  BY DEF Locking, Listing, Typed
<1>1. ASSUME NEW s \in Sessions, Application(s) \/ Working(s) \/ CkptFails(s) PROVE Listing'
  <2>1. CASE Application(s)
    BY <2>1, BeginMeta, LightSteps
  <2>2. CASE \/ LastName(s) \/ SessionLock(s) \/ ReadLock(s) \/ FindHandle(s) \/ OpenLock(s) \/ Reopen(s)
             \/ OpenGone(s) \/ OpenFails(s) \/ OpenHandle(s) \/ SchemaLock(s) \/ MetaLock(s)
    BY <2>2, ChooseMeta, SessionLockMeta, FindMeta, ReopenMeta, OpenFailsMeta, OpenHandleMeta,
         MetaLockMeta
  <2>3. CASE \/ ListCkpts(s) \/ LockCkpt(s) \/ FakeCkpt(s) \/ ClearModified(s) \/ FlushCkpt(s) \/ TrackOff(s)
             \/ CloseOne(s) \/ CkptFails(s)
    BY <2>3, ListMeta, LockCkptMeta, FakeFlushMeta, ClearFailMeta, TrackOffMeta, CloseOneMeta
  <2>4. CASE DropFile(s) \/ VerifyDone(s) \/ CreateFile(s) \/ DiscardBtree(s) \/ CloseDone(s) \/ CloseCursor(s)
             \/ BulkClose(s) \/ BackupStart(s)
    BY <2>4, DropCreateMeta, CreateBackupMeta, ReopenMeta, DiscardMeta, ChooseMeta, LightSteps
  <2> QED BY <1>1, <2>1, <2>2, <2>3, <2>4 DEF Working
<1>2. CASE BackupStop
  <2>1. Light
    <3>1. live \in [data : Nat, modified : BOOLEAN, bulkok : BOOLEAN]
      BY DEF MetaInv, MetaTypes
    <3> QED BY <1>2, <3>1 DEF Light, BackupStop
  <2> QED BY <2>1, LightMeta
<1> QED BY <1>1, <1>2 DEF Next

\* In every state of the system HandleInv holds, whatever the sessions, the names
\* and the checkpoints are.
THEOREM HandleInvHolds == Spec => []HandleInv
<1>1. Init => HandleInv
  BY InitInv
<1>2. HandleInv /\ [Next]_vars => HandleInv'
  <2> SUFFICES ASSUME HandleInv, [Next]_vars PROVE HandleInv'
    OBVIOUS
  <2>0. Locking /\ Listing /\ MetaTypes
    BY DEF HandleInv, MetaInv, Locking, Listing
  <2>1. CASE Next
    <3>1. Locking'
      BY <2>0, <2>1, LockNext
    <3>2. Typed'
      BY <3>1 DEF LockInv, Locking, Typed
    <3>3. Listing'
      BY <2>0, <2>1, <3>2, MetaNext
    <3> QED BY <3>1, <3>3 DEF HandleInv, Locking, Listing
  <2>2. CASE UNCHANGED vars
    <3>1. UNCHANGED <<file, live, h, cache, cursor, schema, metalock, backup, call, orphans, unsaved>>
      BY <2>2 DEF vars
    <3>2. Locking'
      BY <2>0, <3>1, ElsewhereStep
    <3>3. Light
      <4>1. live \in [data : Nat, modified : BOOLEAN, bulkok : BOOLEAN]
        BY <2>0 DEF MetaTypes
      <4> QED BY <3>1, <4>1 DEF Light
    <3>4. Listing'
      BY <2>0, <3>3, LightMeta
    <3> QED BY <3>2, <3>4 DEF HandleInv, Locking, Listing
  <2> QED BY <2>1, <2>2
<1> QED BY PTL, <1>1, <1>2 DEF Spec

\* A cursor's handle stays open in the mode it was opened in, whatever the other
\* sessions close, drop, verify or checkpoint (session_btree.c, conn_btree.c).
THEOREM HeldIsOpenHolds == Spec => []HeldIsOpen
<1>1. HandleInv => HeldIsOpen
  BY SMTT(20), Z3T(20) DEF HandleInv, LockInv, SessionOK, HeldIsOpen
<1> QED BY PTL, <1>1, HandleInvHolds

\* The reference count of a handle is at least the number of sessions that cache it,
\* so that __wt_conn_btree_close never closes it under one of them.
THEOREM RefcntCoversCachesHolds == Spec => []RefcntCoversCaches
<1>1. HandleInv => RefcntCoversCaches
  BY DEF HandleInv, LockInv, Counted, Cachers, RefcntCoversCaches
<1> QED BY PTL, <1>1, HandleInvHolds

\* An open checkpoint handle that nobody has locked is of a checkpoint the metadata
\* still has, at the same address (__wt_checkpoint locks those it deletes).
THEOREM OpenCheckpointIsCurrentHolds == Spec => []OpenCheckpointIsCurrent
<1>1. HandleInv => OpenCheckpointIsCurrent
  BY DEF HandleInv, MetaInv, Good, OpenCheckpointIsCurrent
<1> QED BY PTL, <1>1, HandleInvHolds

\* No checkpoint without an address follows a real one (__conn_btree_open and
\* __wt_checkpoint of a file that may be bulk-loaded).
THEOREM FakesComeFirstHolds == Spec => []FakesComeFirst
<1>1. HandleInv => FakesComeFirst
  BY DEF HandleInv, MetaInv, Good, FakesComeFirst
<1> QED BY PTL, <1>1, HandleInvHolds

\* A tree that is clean and that no checkpoint is writing has its changes in the last
\* checkpoint of the metadata (__wt_checkpoint, __wt_meta_track_off).
THEOREM ChangesAreSavedHolds == Spec => []ChangesAreSaved
<1>1. HandleInv => ChangesAreSaved
  BY DEF HandleInv, MetaInv
<1> QED BY PTL, <1>1, HandleInvHolds

\* The checkpoints a backup copies are not deleted before it ends
\* (__wt_checkpoint, __backup_start).
THEOREM BackupIsKeptHolds == Spec => []BackupIsKept
<1>1. HandleInv => BackupIsKept
  BY DEF HandleInv, MetaInv, Good, BackupIsKept
<1> QED BY PTL, <1>1, HandleInvHolds
=============================================================================

---------------------------- MODULE HandleLocks -----------------------------
(***************************************************************************)
(* The steps of Handles keep LockInv, who has a handle open, locked,       *)
(* cached and counted: what a step leaves to the other sessions, the steps *)
(* that change no handle, and those in which a session gets a handle that  *)
(* is open or locks one it is to open.                                     *)
(***************************************************************************)
EXTENDS HandleFacts

\* The prover of a leaf that names no other.
USE ZenonT(60)

-----------------------------------------------------------------------------
(* What a step may do to the handles of other sessions *)

\* The session reads the handle, or has it locked.
Uses(r, n) == n \in cursor[r] \/ n \in Locks(call[r]) \/ (call[r].held /\ n = Live)

\* What a step of the session s leaves alone: what the other sessions use.
Steady(s) ==
  \A r \in Sessions \ {s} :
    /\ call'[r] = call[r] /\ cache'[r] = cache[r] /\ cursor'[r] = cursor[r]
    /\ UnderSchema(call[r]) => schema' = r
    /\ InCkpt(call[r]) => metalock' = r
    /\ \A n \in Handles :
         /\ h[n].listed => h'[n].listed
         /\ Uses(r, n) => /\ h'[n].writer = h[n].writer /\ h'[n].open = h[n].open /\ h'[n].special = h[n].special
                          /\ n \in Locks(call[r]) => n \notin cursor'[s]

\* A handle that can be write-locked is in use by nobody.
LEMMA UnlockedUnused ==
  ASSUME Locking, NEW n \in Handles, Unlocked(n)
  PROVE  h[n].writer = None /\ h[n].special = "none" /\ \A r \in Sessions : ~Uses(r, n)
<1> LockInv
  BY DEF Locking
<1>1. h[n].writer = None /\ Readers(n) = {}
  BY DEF Unlocked
<1>2. h[n].special = "none"
  BY <1>1 DEF LockInv, HandleOK
<1>3. ASSUME NEW r \in Sessions PROVE ~Uses(r, n)
  <2>1. SessionOK(r) /\ r # None
    BY SessionsAssumption DEF LockInv
  <2>2. n \notin cursor[r]
    BY <1>1, <2>1 DEF Readers
  <2>3. n \notin Locks(call[r])
    BY <1>1, <2>1 DEF SessionOK
  <2>4. call[r].held => call[r].want = Live
    BY <2>1 DEF SessionOK, Flow
  <2>5. ~(call[r].held /\ n = Live)
    BY <1>1, <2>4 DEF Readers, Want
  <2> QED BY <2>2, <2>3, <2>5 DEF Uses
<1> QED BY <1>1, <1>2, <1>3

\* A handle that a call has write-locked is in use by no other session.
LEMMA LockedAlone ==
  ASSUME Locking, NEW s \in Sessions, NEW n \in Locks(call[s]), NEW r \in Sessions, r # s
  PROVE  ~Uses(r, n)
<1> LockInv
  BY DEF Locking
<1>1. SessionOK(s) /\ SessionOK(r) /\ s # None
  BY SessionsAssumption DEF LockInv
<1>2. h[n].writer = s /\ n \notin cursor[r]
  BY <1>1 DEF SessionOK
<1>3. n \notin Locks(call[r])
  BY <1>1, <1>2 DEF SessionOK
<1>4. ~(call[r].held /\ n = Live)
  BY <1>1, <1>2 DEF SessionOK
<1> QED BY <1>2, <1>3, <1>4 DEF Uses

\* A step that leaves alone what the other sessions use keeps what they rely on.
LEMMA OthersKeep ==
  ASSUME Locking, NEW s \in Sessions, Steady(s), NEW r \in Sessions, r # s
  PROVE  SessionOK(r)'
<1> LockInv
  BY DEF Locking
<1>1. /\ call'[r] = call[r] /\ cache'[r] = cache[r] /\ cursor'[r] = cursor[r]
      /\ UnderSchema(call[r]) => schema' = r
      /\ InCkpt(call[r]) => metalock' = r
  BY DEF Steady
<1>2. SessionOK(r) /\ cache[r] \subseteq Handles /\ cursor[r] \subseteq Handles
  BY DEF LockInv, LockTypes
<1>3. \A n \in cache'[r] : h'[n].listed
  BY <1>1, <1>2 DEF Steady, SessionOK
<1>4. \A n \in cursor'[r] : /\ n \in cache'[r] /\ h'[n].open
                            /\ h'[n].writer = IF h'[n].special = "none" THEN None ELSE r
  BY SMTT(20), <1>1, <1>2 DEF Steady, SessionOK, Uses
<1>5. Locks(call[r]) \subseteq Handles
  BY NamesAssumption DEF LockInv, LockTypes, Calls, Locks, Handles
<1>6. ASSUME NEW n \in Locks(call[r])
      PROVE  /\ h'[n].writer = r
             /\ h'[n].special = IF At(r, "verify") THEN "verify" ELSE "none"
             /\ \A q \in Sessions : n \notin cursor'[q]
  <2>1. /\ h'[n].writer = h[n].writer /\ h'[n].special = h[n].special /\ n \notin cursor'[s]
        /\ n \in Handles
    BY <1>5 DEF Steady, Uses
  <2>2. \A q \in Sessions : n \notin cursor[q]
    BY <1>2 DEF SessionOK
  <2>3. \A q \in Sessions \ {s} : cursor'[q] = cursor[q]
    BY DEF Steady
  <2> QED BY <2>1, <2>2, <2>3, <1>2 DEF SessionOK
<1>7. Live \in Handles
  BY DEF Handles
<1>8. call[r].held => h'[Live].open /\ h'[Live].writer = None
  BY SMTT(20), <1>2, <1>7 DEF Steady, Uses, SessionOK
<1>9. At(r, "endbulk") => Live \in cursor[r] /\ h'[Live].special = "bulk"
  BY <1>2, <1>7 DEF Steady, Uses, SessionOK
<1>10. At(r, "lock") => h'[Want(r)].listed
  BY SMTT(20), <1>2 DEF Steady, SessionOK, Want, LockInv, LockTypes, Calls
<1> QED BY <1>1, <1>2, <1>3, <1>4, <1>6, <1>8, <1>9, <1>10 DEF SessionOK, At, Want

\* A lock of the connection is taken when it is free, or given up by its holder.
Passes(s, lock, new) == new = lock \/ (lock \in {None, s} /\ new \in {None, s})

\* The locks of the other sessions are not affected by that.
LEMMA PassesOthers ==
  ASSUME NEW s \in Sessions, NEW r \in Sessions, r # s, NEW lock, NEW new, Passes(s, lock, new), lock = r
  PROVE  new = r
BY SessionsAssumption DEF Passes

\* A step of a session that only goes on to the call c and takes or gives up the
\* locks of the connection.
Quiet(s, c) ==
  /\ c \in Calls /\ call' = [call EXCEPT ![s] = c] /\ UNCHANGED <<h, cache, cursor>>
  /\ Flow(c) /\ Passes(s, schema, schema') /\ Passes(s, metalock, metalock')
  /\ UnderSchema(c) => schema' = s
  /\ InCkpt(c) => metalock' = s
  /\ Locks(c) \subseteq Locks(call[s])
  /\ call[s].pc # "verify" /\ c.pc \notin {"verify", "lock", "open"}
  /\ c.held => call[s].held
  /\ c.pc = "endbulk" => Live \in cursor[s] /\ h[Live].special = "bulk"
  /\ c.pc = "read" => c.want \in cache[s]
  /\ c.op = "close" => cursor[s] = {}

\* Such a step keeps the invariant of the handles.
LEMMA QuietStep ==
  ASSUME Locking, NEW s \in Sessions, NEW c, Quiet(s, c)
  PROVE  Locking'
<1> LockInv
  BY DEF Locking
<1>1. call'[s] = c /\ \A r \in Sessions \ {s} : call'[r] = call[r]
  BY DEF Quiet, LockInv, LockTypes
<1>2. Typed'
  BY DEF Quiet, LockInv, LockTypes, Passes, Sids, Typed
<1>3. Steady(s)
  <2>1. ASSUME NEW r \in Sessions \ {s}
        PROVE  (UnderSchema(call[r]) => schema' = r) /\ (InCkpt(call[r]) => metalock' = r)
    <3>1. SessionOK(r)
      BY DEF LockInv
    <3> QED BY <3>1, PassesOthers DEF SessionOK, Quiet
  <2>2. ASSUME NEW r \in Sessions \ {s}, NEW n \in Locks(call[r]) PROVE n \notin cursor'[s]
    <3>1. SessionOK(r)
      BY DEF LockInv
    <3> QED BY <3>1 DEF SessionOK, Quiet
  <2> QED BY <1>1, <2>1, <2>2 DEF Steady, Quiet
<1>4. SessionOK(s)'
  <2>1. SessionOK(s)
    BY DEF LockInv
  <2> USE <2>1, <1>1 DEF Quiet
  <2>2. \A n \in Locks(c) : /\ h'[n].writer = s /\ h'[n].special = "none"
                            /\ \A r \in Sessions : n \notin cursor'[r]
    BY DEF SessionOK, At
  <2>3. \A n \in cursor'[s] : /\ n \in cache'[s] /\ h'[n].open
                              /\ h'[n].writer = IF h'[n].special = "none" THEN None ELSE s
    BY DEF SessionOK
  <2>4. \A n \in cache'[s] : h'[n].listed
    BY DEF SessionOK
  <2>5. c.held => h'[Live].open /\ h'[Live].writer = None
    BY DEF SessionOK
  <2> QED BY <2>2, <2>3, <2>4, <2>5 DEF SessionOK, At, Want
<1>5. ASSUME NEW n \in Handles PROVE HandleOK(n)'
  <2>1. HandleOK(n) /\ h[n].writer \in Sids
    BY DEF LockInv, LockTypes, States
  <2> QED BY <2>1, <1>1 DEF HandleOK, At, Quiet, Sids
<1>6. Counted'
  BY <1>1 DEF LockInv, Counted, Cachers, Quiet, Want
<1>7. \A r \in Sessions : SessionOK(r)'
  BY <1>3, <1>4, OthersKeep
<1> QED BY <1>2, <1>5, <1>6, <1>7 DEF LockInv, Locking, Typed

\* A call that returns without having write-locked a handle.
LEMMA ReturnStep ==
  ASSUME Locking, NEW s \in Sessions, Return(s), UNCHANGED <<h, cache, cursor>>, ~At(s, "verify")
  PROVE  Locking'
<1> LockInv
  BY DEF Locking
<1>1. Quiet(s, Idle)
  BY IdleIsCall DEF Return, Quiet, Passes, At
<1> QED BY <1>1, QuietStep

\* The open of the last checkpoint chooses one (__wt_session_get_btree_ckpt).
LEMMA LastNameStep ==
  ASSUME Locking, MetaTypes, NEW s \in Sessions, LastName(s)
  PROVE  Locking'
<1> LockInv
  BY DEF Locking
<1>0. SessionOK(s) /\ call[s] \in Calls /\ call[s].pc = "last"
  BY DEF LockInv, LockTypes, LastName, At
<1>1. CASE Internals = {}
  BY <1>0, <1>1, ReturnStep DEF LastName, At
<1>2. CASE Internals # {}
  <2> DEFINE I == {c \in file.ckpts : IsInternal(c.name)}
             n == LastInternal(file.ckpts)
             c == [call[s] EXCEPT !.pc = "get", !.want = n]
  <2>1. I \in SUBSET Ckpts /\ I # {}
    BY <1>2 DEF MetaTypes, Internals, NamesOf
  <2>2. n \in Handles
    BY <2>1, LatestIsIn DEF LastInternal, Ckpts
  <2>3. call' = [call EXCEPT ![s] = c] /\ UNCHANGED <<h, cache, cursor, schema, metalock>>
    BY <1>2, <1>0 DEF LastName
  <2> HIDE DEF n
  <2>4. /\ c \in Calls /\ c.pc = "get" /\ c.op = call[s].op /\ c.want = n /\ c.trk = call[s].trk
        /\ c.held = call[s].held /\ c.name = call[s].name
    BY <1>0, <2>2 DEF Calls, PCs
  <2> HIDE DEF c
  <2>5. Quiet(s, c)
    BY <1>0, <2>3, <2>4 DEF Quiet, SessionOK, Flow, UnderSchema, InCkpt, Locks, Passes
  <2> QED BY <2>5, QuietStep
<1> QED BY <1>1, <1>2

\* The call of a session that could not have the handle: it has no lock but
\* those of the connection a checkpoint keeps.
LEMMA FailedCall ==
  ASSUME Locking, NEW s \in Sessions, GetFailed(s), call[s].pc \in {"get", "lock", "open"}
  PROVE  \E c : /\ c \in Calls /\ Flow(c) /\ call' = [call EXCEPT ![s] = c]
                /\ c.pc \in {"list", "last", "idle"} /\ c.op \in {"checkpoint", "last", "none"}
                /\ Locks(c) = {} /\ ~c.held
                /\ UnderSchema(c) => schema' = s
                /\ InCkpt(c) => metalock' = s
                /\ Passes(s, schema, schema') /\ metalock' = metalock
<1> LockInv
  BY DEF Locking
<1>0. SessionOK(s) /\ call[s] \in Calls /\ call[s].trk = {} /\ ~call[s].held
  BY DEF LockInv, LockTypes, SessionOK, Flow
<1>1. CASE call[s].op = "checkpoint"
  <2> DEFINE c == [call[s] EXCEPT !.pc = "list"]
  <2>1. call' = [call EXCEPT ![s] = c]
    BY <1>1 DEF GetFailed, LockInv, LockTypes
  <2>2. /\ c \in Calls /\ c.pc = "list" /\ c.op = "checkpoint" /\ c.want = call[s].want /\ c.trk = {}
        /\ ~c.held /\ c.name = call[s].name
    BY <1>0, <1>1 DEF Calls, PCs
  <2> HIDE DEF c
  <2>3. Flow(c)
    BY <1>0, <1>1, <2>2 DEF SessionOK, Flow
  <2>4. schema' = s /\ metalock' = s /\ metalock' = metalock /\ schema' = schema
    BY <1>0, <1>1 DEF GetFailed, SessionOK, UnderSchema, InCkpt
  <2> QED BY <2>1, <2>2, <2>3, <2>4 DEF Locks, Passes
<1>2. CASE call[s].op = "last"
  <2> DEFINE c == [call[s] EXCEPT !.pc = "last"]
  <2>1. call' = [call EXCEPT ![s] = c]
    BY <1>2 DEF GetFailed, LockInv, LockTypes
  <2>2. /\ c \in Calls /\ c.pc = "last" /\ c.op = "last" /\ c.want = call[s].want /\ c.trk = {}
        /\ ~c.held /\ c.name = call[s].name
    BY <1>0, <1>2 DEF Calls, PCs
  <2> HIDE DEF c
  <2>3. Flow(c) /\ ~UnderSchema(c) /\ ~InCkpt(c)
    BY <1>0, <1>2, <2>2 DEF SessionOK, Flow, UnderSchema, InCkpt
  <2> QED BY <2>1, <2>2, <2>3 DEF Locks, Passes, GetFailed
<1>3. CASE call[s].op \notin {"checkpoint", "last"}
  <2>1. call' = [call EXCEPT ![s] = Idle]
    BY <1>3 DEF GetFailed, LockInv, LockTypes
  <2> QED BY <2>1, IdleIsCall DEF GetFailed, Passes
<1> QED BY <1>1, <1>2, <1>3

\* A session that had no write lock goes on without the handle.
LEMMA GetFailedStep ==
  ASSUME Locking, NEW s \in Sessions, GetFailed(s), call[s].pc \in {"get", "lock"},
         UNCHANGED <<h, cache, cursor>>
  PROVE  Locking'
<1> LockInv
  BY DEF Locking
<1>1. PICK c : /\ c \in Calls /\ Flow(c) /\ call' = [call EXCEPT ![s] = c]
               /\ c.pc \in {"list", "last", "idle"} /\ c.op \in {"checkpoint", "last", "none"}
               /\ Locks(c) = {} /\ ~c.held
               /\ UnderSchema(c) => schema' = s
               /\ InCkpt(c) => metalock' = s
               /\ Passes(s, schema, schema') /\ metalock' = metalock
  BY FailedCall
<1>2. Quiet(s, c)
  BY <1>1 DEF Quiet, Passes
<1> QED BY <1>2, QuietStep

\* A checkpoint or a drop goes on, without locking another handle.
LEMMA OnwardStep ==
  ASSUME Locking, NEW s \in Sessions, NEW c \in Calls, call' = [call EXCEPT ![s] = c],
         UNCHANGED <<h, cache, cursor, schema, metalock>>,
         c.op = call[s].op, c.want = call[s].want, c.name = call[s].name, c.held = call[s].held,
         c.trk \subseteq Locks(call[s]),
         call[s].pc \in {"list", "cklock", "flush", "closeall", "off"},
         c.pc \in {"cklock", "flush", "off"}, c.op = "checkpoint" \/ c.pc = "off"
  PROVE  Locking'
<1> LockInv
  BY DEF Locking
<1>0. SessionOK(s) /\ call[s].op \in {"checkpoint", "drop"}
  BY DEF LockInv, SessionOK, Flow
<1>1. Flow(c)
  BY <1>0 DEF SessionOK, Flow
<1>2. Locks(c) \subseteq Locks(call[s])
  BY <1>0 DEF SessionOK, Flow, Locks
<1>3. schema = s /\ (InCkpt(c) => metalock = s)
  BY <1>0 DEF SessionOK, UnderSchema, InCkpt, Flow
<1>4. Quiet(s, c)
  BY <1>0, <1>1, <1>2, <1>3 DEF Quiet, Passes
<1> QED BY <1>4, QuietStep

\* The same for a step that only goes on.
LEMMA OnwardJump ==
  ASSUME Locking, NEW s \in Sessions, NEW pc \in {"flush", "off"}, Jump(s, pc),
         UNCHANGED <<h, cache, cursor, schema, metalock>>,
         call[s].pc \in {"list", "cklock", "flush", "closeall"}, pc = "flush" => call[s].pc = "cklock"
  PROVE  Locking'
<1> LockInv
  BY DEF Locking
<1> DEFINE c == [call[s] EXCEPT !.pc = pc]
<1>0. SessionOK(s)
  BY DEF LockInv
<1>1. /\ c \in Calls /\ c.pc = pc /\ c.op = call[s].op /\ c.want = call[s].want /\ c.trk = call[s].trk
      /\ c.held = call[s].held /\ c.name = call[s].name /\ call' = [call EXCEPT ![s] = c]
  BY SMTT(20), JumpIsCall DEF Jump, PCs
<1> HIDE DEF c
<1>2. call[s].trk \subseteq Locks(call[s]) /\ (call[s].pc = "cklock" => call[s].op = "checkpoint")
  BY <1>0 DEF Locks, SessionOK, Flow
<1> QED BY <1>1, <1>2, OnwardStep

\* A checkpoint, or a drop, that writes the metadata keeps the handles it has.
LEMMA WriteSteps ==
  ASSUME Locking, NEW s \in Sessions,
         FakeCkpt(s) \/ ClearModified(s) \/ FlushCkpt(s) \/ DropFile(s)
  PROVE  Locking'
BY OnwardJump DEF FakeCkpt, ClearModified, FlushCkpt, DropFile, Ready, At

\* A checkpoint that fails keeps the handles it has (__wt_txn_checkpoint).
LEMMA CkptFailsStep ==
  ASSUME Locking, NEW s \in Sessions, CkptFails(s)
  PROVE  Locking'
<1> LockInv
  BY DEF Locking
<1> DEFINE c == [call[s] EXCEPT !.failed = TRUE, !.pc = "off"]
<1>0. call[s] \in Calls /\ call' = [call EXCEPT ![s] = c]
  BY DEF CkptFails, LockInv, LockTypes
<1>1. /\ c \in Calls /\ c.pc = "off" /\ c.op = call[s].op /\ c.want = call[s].want /\ c.trk = call[s].trk
      /\ c.held = call[s].held /\ c.name = call[s].name
  BY <1>0 DEF Calls, PCs
<1> HIDE DEF c
<1>2. call[s].trk \subseteq Locks(call[s]) /\ call[s].pc \in {"flush", "off"}
  BY DEF Locks, CkptFails, At
<1>3. UNCHANGED <<h, cache, cursor, schema, metalock>>
  BY DEF CkptFails
<1> QED BY <1>0, <1>1, <1>2, <1>3, OnwardStep

\* Choosing the checkpoints to delete locks none (__wt_checkpoint).
LEMMA ListCkptsStep ==
  ASSUME Locking, MetaTypes, NEW s \in Sessions, ListCkpts(s)
  PROVE  Locking'
<1> LockInv
  BY DEF Locking
<1> DEFINE marked == Marked(file.ckpts, call[s].drop, call[s].name)
           done == NothingToDo(file.ckpts, marked, call[s].name)
           c == IF done THEN [call[s] EXCEPT !.pc = "off"]
                ELSE [call[s] EXCEPT !.pc = "cklock", !.marked = marked, !.todo = marked]
<1>0. SessionOK(s) /\ call[s] \in Calls /\ call[s].pc = "list" /\ call[s].op = "checkpoint"
  BY DEF LockInv, LockTypes, ListCkpts, At, SessionOK, Flow
<1>1. marked \in SUBSET (Handles \ {Live})
  <2>1. file.ckpts \in SUBSET Ckpts /\ call[s].drop \in Drops \union {<<"none", Live>>}
    BY <1>0 DEF MetaTypes, Calls
  <2> QED BY <2>1, MarkedNames
<1>2. call' = [call EXCEPT ![s] = c] /\ UNCHANGED <<h, cache, cursor, schema, metalock>>
  BY DEF ListCkpts, LockInv, LockTypes
<1> HIDE DEF marked, done
<1>3. /\ c \in Calls /\ c.pc \in {"cklock", "off"} /\ c.op = call[s].op /\ c.want = call[s].want /\ c.trk = call[s].trk
      /\ c.held = call[s].held /\ c.name = call[s].name
  BY <1>0, <1>1 DEF Calls, PCs
<1> HIDE DEF c
<1>4. call[s].trk \subseteq Locks(call[s])
  BY DEF Locks
<1> QED BY <1>0, <1>2, <1>3, <1>4, OnwardStep

\* A checkpoint takes the metadata lock (__wt_txn_checkpoint).
LEMMA MetaLockStep ==
  ASSUME Locking, MetaTypes, NEW s \in Sessions, MetaLock(s)
  PROVE  Locking'
<1> LockInv
  BY DEF Locking
<1>0. SessionOK(s) /\ call[s] \in Calls /\ call[s].pc = "metalock" /\ metalock = None /\ metalock' = s
  BY DEF LockInv, LockTypes, MetaLock, At
<1>1. PICK pc \in {"list", "off", "get"} :
        call' = [call EXCEPT ![s] = [@ EXCEPT !.snap = live.data, !.before = file.ckpts, !.pc = pc]]
  BY DEF MetaLock
<1> DEFINE c == [call[s] EXCEPT !.snap = live.data, !.before = file.ckpts, !.pc = pc]
<1>2. call' = [call EXCEPT ![s] = c] /\ UNCHANGED <<h, cache, cursor, schema>>
  BY <1>1 DEF MetaLock, LockInv, LockTypes
<1>3. live.data \in Nat /\ file.ckpts \in SUBSET Ckpts /\ pc \in PCs
  BY DEF MetaTypes, PCs
<1>4. /\ c \in Calls /\ c.pc = pc /\ c.op = call[s].op /\ c.want = call[s].want /\ c.trk = call[s].trk
      /\ c.held = call[s].held /\ c.name = call[s].name
  BY <1>0, <1>3 DEF Calls
<1> HIDE DEF c
<1>5. c.op = "checkpoint" /\ c.trk = {} /\ ~c.held /\ schema = s
  BY <1>0, <1>4 DEF SessionOK, Flow, UnderSchema
<1>6. Flow(c) /\ Locks(c) = {}
  BY <1>0, <1>4, <1>5 DEF SessionOK, Flow, Locks
<1>7. Quiet(s, c)
  BY <1>0, <1>2, <1>4, <1>5, <1>6 DEF Quiet, Passes
<1> QED BY <1>7, QuietStep

\* A call takes the schema lock.
LEMMA SchemaLockStep ==
  ASSUME Locking, NEW s \in Sessions, SchemaLock(s)
  PROVE  Locking'
<1> LockInv
  BY DEF Locking
<1>0. SessionOK(s) /\ call[s] \in Calls /\ call[s].pc = "start" /\ schema = None /\ schema' = s
  BY DEF LockInv, LockTypes, SchemaLock, At
<1>1. /\ call[s].op \in {"verify", "drop", "create", "backup", "checkpoint", "close"}
      /\ call[s].trk = {} /\ ~call[s].held
  BY <1>0 DEF SessionOK, Flow
<1>2. PICK pc \in {"get", "metalock", "discard", "create", "backup"} :
        /\ Jump(s, pc)
        /\ pc = "get" => call[s].op \in {"verify", "drop"}
        /\ pc = "metalock" => call[s].op = "checkpoint"
        /\ pc = "discard" => call[s].op = "close"
        /\ pc \in {"create", "backup"} => call[s].op = pc
  BY <1>1 DEF SchemaLock
<1> DEFINE c == [call[s] EXCEPT !.pc = pc]
<1>p. pc \in PCs
  BY DEF PCs, Ops
<1>3. /\ c \in Calls /\ c.pc = pc /\ c.op = call[s].op /\ c.want = call[s].want /\ c.trk = call[s].trk
      /\ c.held = call[s].held /\ c.name = call[s].name /\ call' = [call EXCEPT ![s] = c]
  BY SMTT(20), <1>p, <1>2, JumpIsCall DEF Jump
<1> HIDE DEF c
<1>4. Flow(c) /\ Locks(c) = {} /\ ~InCkpt(c)
  BY <1>0, <1>1, <1>2, <1>3 DEF SessionOK, Flow, Locks, InCkpt
<1>5. c.op = "close" => cursor[s] = {}
  BY <1>0, <1>3 DEF SessionOK
<1>6. Quiet(s, c)
  BY <1>0, <1>1, <1>3, <1>4, <1>5 DEF Quiet, Passes, SchemaLock
<1> QED BY <1>6, QuietStep

\* The application makes a call.
LEMMA BeginStep ==
  ASSUME Locking, NEW s \in Sessions, NEW c \in Calls, Begin(s, c), c.trk = {}, ~c.held,
         \/ c.pc = "get" /\ c.op \in {"open", "bulk"}
         \/ c.pc = "last" /\ c.op = "last"
         \/ c.pc = "start" /\ c.op \in {"verify", "drop", "create", "backup", "checkpoint", "close"},
         c.op # "open" => c.want = Live, c.op = "checkpoint" => c.name # Live, c.op = "close" => cursor[s] = {}
  PROVE  Locking'
<1> LockInv
  BY DEF Locking
<1>1. call' = [call EXCEPT ![s] = c] /\ call[s].pc = "idle" /\ UNCHANGED <<h, cache, cursor, schema, metalock>>
  BY DEF Begin, At
<1>2. Flow(c) /\ Locks(c) = {} /\ ~InCkpt(c) /\ ~UnderSchema(c)
  BY DEF Flow, Locks, InCkpt, UnderSchema
<1>3. Quiet(s, c)
  BY <1>1, <1>2 DEF Quiet, Passes
<1> QED BY <1>3, QuietStep

\* A step that does not concern the handles.
LEMMA ElsewhereStep ==
  ASSUME Locking, UNCHANGED <<h, cache, cursor, schema, metalock, call>>
  PROVE  Locking'
BY SMTT(20) DEF LockInv, LockTypes, SessionOK, HandleOK, Counted, Cachers, At, Want, Locking

\* Every call an application makes, and every change.
LEMMA ApplicationStep ==
  ASSUME Locking, NEW s \in Sessions, Application(s)
  PROVE  Locking'
<1> LockInv
  BY DEF Locking
<1>1. CASE Modify(s)
  BY <1>1, ElsewhereStep DEF Modify
<1>2. CASE ~Modify(s)
  BY <1>2, BegunCall, BeginStep
<1> QED BY <1>1, <1>2

-----------------------------------------------------------------------------
(* Steps that change handles *)

\* Only the session s takes the step.
Alone(s) ==
  /\ \A r \in Sessions \ {s} : call'[r] = call[r] /\ cache'[r] = cache[r] /\ cursor'[r] = cursor[r]
  /\ Passes(s, schema, schema') /\ Passes(s, metalock, metalock')

\* It opens, closes, locks or unlocks only handles that no other session uses.
Spares(s) ==
  /\ \A n \in Handles :
       /\ h[n].listed => h'[n].listed
       /\ \/ h'[n].writer = h[n].writer /\ h'[n].open = h[n].open /\ h'[n].special = h[n].special
          \/ \A r \in Sessions \ {s} : ~Uses(r, n)
  /\ \A n \in cursor'[s] \ cursor[s] : \A r \in Sessions \ {s} : n \notin Locks(call[r])

\* Such a step leaves alone what the other sessions use.
LEMMA SparesOthers ==
  ASSUME Locking, NEW s \in Sessions, Alone(s), Spares(s)
  PROVE  Steady(s)
<1> LockInv
  BY DEF Locking
<1> SUFFICES ASSUME NEW r \in Sessions \ {s}
             PROVE  /\ call'[r] = call[r] /\ cache'[r] = cache[r] /\ cursor'[r] = cursor[r]
                    /\ UnderSchema(call[r]) => schema' = r
                    /\ InCkpt(call[r]) => metalock' = r
                    /\ \A n \in Handles :
                         /\ h[n].listed => h'[n].listed
                         /\ Uses(r, n) => /\ h'[n].writer = h[n].writer /\ h'[n].open = h[n].open
                                          /\ h'[n].special = h[n].special
                                          /\ n \in Locks(call[r]) => n \notin cursor'[s]
  BY DEF Steady
<1>1. SessionOK(r) /\ r # None
  BY SessionsAssumption DEF LockInv
<1>2. (UnderSchema(call[r]) => schema' = r) /\ (InCkpt(call[r]) => metalock' = r)
  BY <1>1, PassesOthers DEF SessionOK, Alone
<1>3. \A n \in Locks(call[r]) : h[n].writer = r /\ n \notin cursor[s]
  BY <1>1 DEF SessionOK
<1>4. \A n \in Locks(call[r]) : n \notin cursor'[s]
  BY <1>1, <1>3 DEF Spares
<1> QED BY <1>2, <1>4 DEF Alone, Spares

\* So the invariant holds after it if it does for the session, the handles and
\* the reference counts.
LEMMA LoudStep ==
  ASSUME Locking, NEW s \in Sessions, Alone(s), Spares(s), Typed', SessionOK(s)',
         \A n \in Handles : HandleOK(n)', Counted'
  PROVE  Locking'
<1> LockInv /\ LockTypes'
  BY DEF Locking, Typed
<1>1. \A r \in Sessions : SessionOK(r)'
  BY SparesOthers, OthersKeep
<1> QED BY <1>1 DEF LockInv, Locking

\* The number of sessions that have a handle in their cache.
LEMMA CachersCount ==
  ASSUME Locking, NEW s \in Sessions, Alone(s), Typed', NEW n \in Handles
  PROVE  /\ Cardinality(Cachers(n)) \in Nat /\ Cardinality(Cachers(n)') \in Nat
         /\ (n \in cache'[s] <=> n \in cache[s]) => Cachers(n)' = Cachers(n)
         /\ n \in cache'[s] /\ n \notin cache[s] => Cardinality(Cachers(n)') = Cardinality(Cachers(n)) + 1
         /\ n \notin cache'[s] /\ n \in cache[s] => Cardinality(Cachers(n)') = Cardinality(Cachers(n)) - 1
         /\ ~h[n].listed => Cardinality(Cachers(n)) = 0
<1> LockInv /\ LockTypes'
  BY DEF Locking, Typed
<1>1. IsFiniteSet(Cachers(n)) /\ IsFiniteSet(Cachers(n)')
  BY SessionsAssumption, FS_Subset DEF Cachers
<1>2. Cardinality(Cachers(n)) \in Nat /\ Cardinality(Cachers(n)') \in Nat
  BY <1>1, FS_CardinalityType
<1>3. ASSUME n \in cache'[s], n \notin cache[s]
      PROVE  Cardinality(Cachers(n)') = Cardinality(Cachers(n)) + 1
  <2>1. Cachers(n)' = Cachers(n) \union {s} /\ s \notin Cachers(n)
    BY <1>3 DEF Cachers, Alone
  <2> QED BY <2>1, <1>1, FS_AddElement
<1>4. ASSUME n \notin cache'[s], n \in cache[s]
      PROVE  Cardinality(Cachers(n)') = Cardinality(Cachers(n)) - 1
  <2>1. Cachers(n)' = Cachers(n) \ {s} /\ s \in Cachers(n)
    BY <1>4 DEF Cachers, Alone
  <2> QED BY <2>1, <1>1, FS_RemoveElement
<1>5. (n \in cache'[s] <=> n \in cache[s]) => Cachers(n)' = Cachers(n)
  BY DEF Cachers, Alone
<1>6. ~h[n].listed => Cardinality(Cachers(n)) = 0
  <2>1. ~h[n].listed => Cachers(n) = {}
    BY DEF Cachers, LockInv, SessionOK
  <2> QED BY <2>1, FS_EmptySet
<1> QED BY <1>2, <1>3, <1>4, <1>5, <1>6

\* The references of the sessions that are getting a handle: one at a time is,
\* with the schema lock.
LEMMA CountedStep ==
  ASSUME Locking, NEW s \in Sessions, Alone(s), Typed',
         \A n \in Handles : h'[n].refcnt >= Cardinality(Cachers(n)'),
         call'[s].pc \in {"lock", "open"} => (h[Want(s)].refcnt > Cardinality(Cachers(Want(s))))',
         schema \in {None, s} \/ (cache' = cache /\ \A n \in Handles : h'[n].refcnt = h[n].refcnt)
  PROVE  Counted'
<1> LockInv /\ LockTypes'
  BY DEF Locking, Typed
<1> SUFFICES ASSUME NEW r \in Sessions, call'[r].pc \in {"lock", "open"}
             PROVE  (h[Want(r)].refcnt > Cardinality(Cachers(Want(r))))'
  BY DEF Counted
<1>1. CASE r = s
  BY <1>1
<1>2. CASE r # s
  <2>1. call'[r] = call[r] /\ SessionOK(r) /\ Want(r) \in Handles /\ r # None
    BY <1>2, SessionsAssumption DEF Alone, LockInv, LockTypes, Calls, Want
  <2>2. schema = r
    BY <2>1 DEF SessionOK, UnderSchema
  <2>3. cache' = cache /\ h'[Want(r)].refcnt = h[Want(r)].refcnt /\ Want(r)' = Want(r)
    BY <2>1, <2>2, <1>2 DEF Want
  <2>4. h[Want(r)].refcnt > Cardinality(Cachers(Want(r)))
    BY <2>1 DEF LockInv, Counted
  <2>5. Cachers(Want(r))' = Cachers(Want(r))
    BY <2>3 DEF Cachers
  <2> QED BY <2>3, <2>4, <2>5
<1> QED BY <1>1, <1>2

\* The call of a session that has the handle it wants: cursors keep it, verify,
\* drop and checkpoint go on (__wt_session_get_btree).
LEMMA GrantedCall ==
  ASSUME Locking, NEW s \in Sessions, Granted(s), call[s].pc \in {"get", "read", "find", "lock", "open"}
  PROVE  \E c : /\ c \in Calls /\ Flow(c) /\ call' = [call EXCEPT ![s] = c] /\ c.trk = {}
                /\ \/ c.op = "none" /\ c.pc = "idle" /\ ForCursor(s)
                   \/ c.op = "verify" /\ c.pc = "verify"
                   \/ c.op = "drop" /\ c.pc = "closeall"
                   \/ c.op = "checkpoint" /\ c.pc = "list"
                /\ c.op # "none" => c.op = call[s].op /\ ~ForCursor(s) /\ schema' = s
                /\ c.held => c.op = "checkpoint"
                /\ InCkpt(c) => metalock' = s
                /\ Passes(s, schema, schema') /\ metalock' = metalock
<1> LockInv
  BY DEF Locking
<1>0. SessionOK(s) /\ call[s] \in Calls
  BY DEF LockInv, LockTypes
<1>1. CASE ForCursor(s)
  <2>1. call' = [call EXCEPT ![s] = Idle]
    BY <1>1 DEF Granted, LockInv, LockTypes
  <2>2. Idle.trk = {}
    BY DEF Idle
  <2> QED BY <1>1, <2>1, <2>2, IdleIsCall DEF Granted, Passes
<1>2. CASE ~ForCursor(s)
  <2>0. call[s].op \in {"verify", "drop", "checkpoint"} /\ call[s].trk = {} /\ schema = s
    BY <1>0, <1>2 DEF SessionOK, Flow, ForCursor, UnderSchema
  <2> DEFINE c == [call[s] EXCEPT !.pc = Onward(call[s].op), !.held = ~Excl(s)]
  <2>1. call' = [call EXCEPT ![s] = c] /\ schema' = schema /\ metalock' = metalock
    BY <1>2 DEF Granted, LockInv, LockTypes
  <2>2. /\ Onward(call[s].op) \in PCs /\ Excl(s) \in BOOLEAN
        /\ call[s].op = "verify" => Onward(call[s].op) = "verify" /\ Excl(s)
        /\ call[s].op = "drop" => Onward(call[s].op) = "closeall" /\ Excl(s)
        /\ call[s].op = "checkpoint" => Onward(call[s].op) = "list" /\ ~Excl(s)
    BY SMTT(20), <2>0 DEF Onward, PCs, Ops, Excl
  <2>3. /\ c \in Calls /\ c.pc = Onward(call[s].op) /\ c.op = call[s].op /\ c.want = call[s].want /\ c.trk = {}
        /\ c.held = ~Excl(s) /\ c.name = call[s].name
    BY <1>0, <2>0, <2>2 DEF Calls
  <2> HIDE DEF c
  <2>4. Flow(c)
    BY <1>0, <2>0, <2>2, <2>3 DEF SessionOK, Flow
  <2>5. InCkpt(c) => metalock' = s
    BY <1>0, <2>1, <2>3 DEF SessionOK, InCkpt
  <2> QED BY <1>2, <2>0, <2>1, <2>2, <2>3, <2>4, <2>5 DEF Passes
<1> QED BY <1>1, <1>2

\* Only the session's own record changes, and its cache and cursors.
LEMMA GrantedAlone ==
  ASSUME Locking, NEW s \in Sessions, Granted(s), call[s].pc \in {"get", "read", "find", "lock", "open"}
  PROVE  /\ Alone(s) /\ call' \in [Sessions -> Calls]
         /\ cache' \in [Sessions -> SUBSET Handles] /\ cursor' \in [Sessions -> SUBSET Handles]
         /\ schema' \in Sids /\ metalock' \in Sids
         /\ cache'[s] = cache[s] \union {Want(s)}
         /\ cursor'[s] = IF ForCursor(s) THEN cursor[s] \union {Want(s)} ELSE cursor[s]
         /\ Want(s) \in Handles
<1> LockInv
  BY DEF Locking
<1>1. PICK c : c \in Calls /\ call' = [call EXCEPT ![s] = c] /\ Passes(s, schema, schema') /\ metalock' = metalock
  BY GrantedCall
<1>2. Want(s) \in Handles
  BY DEF LockInv, LockTypes, Calls, Want
<1>3. schema' \in Sids /\ metalock' \in Sids
  BY <1>1 DEF Passes, LockInv, LockTypes, Sids
<1>4. /\ cache' \in [Sessions -> SUBSET Handles] /\ cache'[s] = cache[s] \union {Want(s)}
      /\ \A r \in Sessions \ {s} : cache'[r] = cache[r]
  BY <1>2 DEF Granted, LockInv, LockTypes
<1>5. /\ cursor' \in [Sessions -> SUBSET Handles]
      /\ cursor'[s] = IF ForCursor(s) THEN cursor[s] \union {Want(s)} ELSE cursor[s]
      /\ \A r \in Sessions \ {s} : cursor'[r] = cursor[r]
  BY <1>2 DEF Granted, LockInv, LockTypes
<1>6. call' \in [Sessions -> Calls] /\ \A r \in Sessions \ {s} : call'[r] = call[r]
  BY <1>1 DEF LockInv, LockTypes
<1> QED BY <1>1, <1>2, <1>3, <1>4, <1>5, <1>6 DEF Alone, Passes

\* How a session has the handle it wants: open and without a writer, write-locked
\* for a drop, or open for the special operation that write-locked it.
Has(s) ==
  LET n == Want(s)
  IN \/ ~Excl(s) /\ h' = h /\ h[n].open /\ h[n].writer = None
     \/ /\ call[s].op \in {"drop", "bulk", "verify"} /\ h'[n].writer = s
        /\ h'[n].special = IF call[s].op = "drop" THEN "none" ELSE call[s].op
        /\ call[s].op # "drop" => h'[n].open
        /\ \A r \in Sessions : n \notin cursor[r]
        /\ \A r \in Sessions \ {s} : ~Uses(r, n)

\* The reference of the session is counted.
References(s) ==
  \/ Want(s) \in cache[s] /\ \A m \in Handles : h'[m].refcnt = h[m].refcnt
  \/ schema \in {None, s} /\ h'[Want(s)].refcnt > Cardinality(Cachers(Want(s)))

\* A session that gets the handle it wants keeps the invariant.
LEMMA GrantStep ==
  ASSUME Locking, NEW s \in Sessions, Granted(s), call[s].pc \in {"get", "read", "find", "lock", "open"},
         h' \in [Handles -> States], \A m \in Handles \ {Want(s)} : h'[m] = h[m], h'[Want(s)].listed,
         Has(s), References(s)
  PROVE  Locking'
<1> LockInv
  BY DEF Locking
<1> DEFINE n == Want(s)
<1>0. SessionOK(s) /\ call[s] \in Calls /\ s # None
  BY SessionsAssumption DEF LockInv, LockTypes
<1>1. /\ Alone(s) /\ call' \in [Sessions -> Calls]
      /\ cache' \in [Sessions -> SUBSET Handles] /\ cursor' \in [Sessions -> SUBSET Handles]
      /\ schema' \in Sids /\ metalock' \in Sids
      /\ cache'[s] = cache[s] \union {n}
      /\ cursor'[s] = IF ForCursor(s) THEN cursor[s] \union {n} ELSE cursor[s]
      /\ n \in Handles
  BY GrantedAlone
<1>2. Typed'
  BY <1>1 DEF LockTypes, Typed
<1>3. PICK c : /\ c \in Calls /\ Flow(c) /\ call' = [call EXCEPT ![s] = c] /\ c.trk = {}
               /\ \/ c.op = "none" /\ c.pc = "idle" /\ ForCursor(s)
                  \/ c.op = "verify" /\ c.pc = "verify"
                  \/ c.op = "drop" /\ c.pc = "closeall"
                  \/ c.op = "checkpoint" /\ c.pc = "list"
               /\ c.op # "none" => c.op = call[s].op /\ ~ForCursor(s) /\ schema' = s
               /\ c.held => c.op = "checkpoint"
               /\ InCkpt(c) => metalock' = s
               /\ Passes(s, schema, schema') /\ metalock' = metalock
  BY GrantedCall
<1>4. call'[s] = c
  BY <1>3 DEF LockInv, LockTypes
<1>5. HandleOK(n) /\ h[n] \in States
  BY <1>1 DEF LockInv, LockTypes
<1>6. Spares(s)
  <2>1. ASSUME NEW r \in Sessions \ {s} PROVE n \notin Locks(call[r])
    <3>1. SessionOK(r) /\ r # None
      BY SessionsAssumption DEF LockInv
    <3> QED BY <3>1 DEF Has, SessionOK, Uses
  <2> QED BY SMTT(20), <2>1, <1>1 DEF Spares, Has
<1>7. SessionOK(s)'
  <2>1. \A m \in cache'[s] : h'[m].listed
    BY SMTT(20), <1>0, <1>1 DEF SessionOK, LockInv, LockTypes
  <2>2. ASSUME NEW m \in cursor'[s]
        PROVE  /\ m \in cache'[s] /\ h'[m].open
               /\ h'[m].writer = IF h'[m].special = "none" THEN None ELSE s
    <3>1. CASE m \in cursor[s] /\ m # n
      BY SMTT(20), Z3T(20), <3>1, <1>0, <1>1 DEF SessionOK, LockInv, LockTypes
    <3>2. CASE m \in cursor[s] /\ m = n
      BY <3>2, <1>0, <1>1 DEF SessionOK, Has
    <3>3. CASE m = n /\ ForCursor(s)
      BY <3>3, <1>0, <1>1, <1>5 DEF Has, HandleOK, ForCursor
    <3> QED BY <3>1, <3>2, <3>3, <1>1
  <2>3. ASSUME NEW m \in Locks(c)
        PROVE  /\ h'[m].writer = s
               /\ h'[m].special = IF c.pc = "verify" THEN "verify" ELSE "none"
               /\ \A r \in Sessions : m \notin cursor'[r]
    <3>1. m = Live /\ c.op \in {"verify", "drop"} /\ c.op = call[s].op /\ ~ForCursor(s)
      BY <1>3 DEF Locks
    <3>2. n = Live /\ Excl(s)
      BY <3>1, <1>0 DEF SessionOK, Flow, Want, Excl
    <3>3. \A r \in Sessions : cursor'[r] = cursor[r]
      BY <1>1, <3>1 DEF Alone
    <3> QED BY <1>3, <3>1, <3>2, <3>3 DEF Has
  <2>4. c.held => h'[Live].open /\ h'[Live].writer = None
    <3>1. c.held => n = Live /\ call[s].op = "checkpoint"
      BY <1>0, <1>3 DEF SessionOK, Flow, Want
    <3> QED BY <3>1 DEF Has
  <2>5. UnderSchema(c) => schema' = s
    BY <1>3 DEF UnderSchema
  <2> QED BY <1>3, <1>4, <2>1, <2>2, <2>3, <2>4, <2>5 DEF SessionOK, At, Want
<1>8. ASSUME NEW m \in Handles PROVE HandleOK(m)'
  <2>1. HandleOK(m) /\ h[m].writer \in Sids
    BY DEF LockInv, LockTypes, States
  <2>2. CASE m # n \/ h' = h
    <3>1. h'[m] = h[m] /\ call[s].pc # "verify" /\ \A r \in Sessions \ {s} : call'[r] = call[r]
      BY <2>2, <1>1 DEF Alone
    <3> QED BY <3>1, <2>1 DEF HandleOK, At, Sids
  <2>3. CASE m = n /\ h' # h
    <3>1. /\ call[s].op \in {"drop", "bulk", "verify"} /\ h'[n].writer = s
          /\ h'[n].special = IF call[s].op = "drop" THEN "none" ELSE call[s].op
          /\ call[s].op # "drop" => h'[n].open
      BY <2>3 DEF Has
    <3>2. n = Live
      BY <3>1, <1>0 DEF SessionOK, Flow, Want
    <3>3. call[s].op = "verify" => c.pc = "verify"
      BY <1>3 DEF ForCursor
    <3> QED BY <2>3, <3>1, <3>2, <3>3, <1>0, <1>4 DEF HandleOK, At
  <2> QED BY <2>2, <2>3
<1>9. Counted'
  <2>1. ASSUME NEW m \in Handles PROVE h'[m].refcnt >= Cardinality(Cachers(m)')
    <3>1. h[m].refcnt >= Cardinality(Cachers(m)) /\ h[m].refcnt \in Nat /\ h'[m].refcnt \in Nat
      BY DEF LockInv, LockTypes, Counted, States
    <3>2. m # n => h'[m] = h[m]
      OBVIOUS
    <3> QED BY SMTT(20), Z3T(20), <3>1, <3>2, <1>1, <1>2, CachersCount DEF References
  <2>2. call'[s].pc \notin {"lock", "open"}
    BY <1>3, <1>4
  <2>3. n \in cache[s] => cache' = cache
    BY SMTT(20), <1>1 DEF Granted, LockInv, LockTypes
  <2> QED BY <2>1, <2>2, <2>3, <1>1, <1>2, CountedStep DEF References
<1> QED BY <1>1, <1>2, <1>6, <1>7, <1>8, <1>9, LoudStep

\* The session goes on to another step of getting the handle.
LEMMA JumpStep ==
  ASSUME Locking, NEW s \in Sessions, NEW pc \in {"read", "find"}, Jump(s, pc),
         UNCHANGED <<h, cache, cursor, schema, metalock>>,
         call[s].pc \in {"get", "read"}, call[s].op \in {"open", "last", "checkpoint"}, Want(s) \in cache[s]
  PROVE  Locking'
<1> LockInv
  BY DEF Locking
<1> DEFINE c == [call[s] EXCEPT !.pc = pc]
<1>0. SessionOK(s) /\ call[s].trk = {} /\ ~call[s].held
  BY DEF LockInv, SessionOK, Flow
<1>1. /\ c \in Calls /\ c.pc = pc /\ c.op = call[s].op /\ c.want = call[s].want /\ c.trk = call[s].trk
      /\ c.held = call[s].held /\ c.name = call[s].name /\ call' = [call EXCEPT ![s] = c]
  BY SMTT(20), JumpIsCall DEF Jump, PCs
<1> HIDE DEF c
<1>2. Flow(c) /\ Locks(c) = {}
  BY <1>0, <1>1 DEF SessionOK, Flow, Locks
<1>3. (UnderSchema(c) => schema = s) /\ (InCkpt(c) => metalock = s)
  BY <1>0, <1>1, <1>2 DEF SessionOK, UnderSchema, InCkpt
<1>4. Quiet(s, c)
  BY <1>0, <1>1, <1>2, <1>3 DEF Quiet, Passes, Want
<1> QED BY <1>4, QuietStep

\* Locking a handle of the session's cache (__wt_session_lock_btree).
LEMMA SessionLockStep ==
  ASSUME Locking, NEW s \in Sessions, SessionLock(s)
  PROVE  Locking'
<1> LockInv
  BY DEF Locking
<1> DEFINE n == Want(s)
<1>0. /\ SessionOK(s) /\ call[s].pc = "get" /\ n \in cache[s] /\ n \in Handles /\ h[n].listed
      /\ call[s].op \in {"open", "last", "drop", "checkpoint"}
  <2>1. SessionOK(s) /\ call[s].pc = "get" /\ n \in cache[s] /\ n \in Handles /\ Special(s) = "none"
    BY DEF LockInv, LockTypes, SessionLock, At
  <2>2. h[n].listed
    BY <2>1 DEF SessionOK
  <2> QED BY <2>1, <2>2 DEF SessionOK, Flow, Special
<1>1. CASE Excl(s) /\ Unlocked(n) /\ h' = [h EXCEPT ![n].writer = s] /\ Granted(s)
  <2>1. h[n].special = "none" /\ \A r \in Sessions : ~Uses(r, n)
    BY <1>0, <1>1, UnlockedUnused
  <2>2. /\ h' \in [Handles -> States] /\ \A m \in Handles \ {n} : h'[m] = h[m]
        /\ h'[n].writer = s /\ h'[n].special = "none" /\ h'[n].listed
        /\ \A m \in Handles : h'[m].refcnt = h[m].refcnt
    BY <1>0, <1>1, <2>1 DEF LockInv, LockTypes, States, Sids
  <2>3. Has(s)
    BY <1>0, <1>1, <2>1, <2>2 DEF Has, Excl, Uses
  <2>4. References(s)
    BY <1>0, <2>2 DEF References
  <2> QED BY <1>0, <1>1, <2>2, <2>3, <2>4, GrantStep
<1>2. CASE GetFailed(s) /\ UNCHANGED <<h, cache, cursor>>
  BY <1>0, <1>2, GetFailedStep
<1>3. CASE ~Excl(s) /\ Jump(s, "read") /\ UNCHANGED <<h, cache, cursor, schema, metalock>>
  BY <1>0, <1>3, JumpStep DEF Excl
<1> QED BY <1>1, <1>2, <1>3 DEF SessionLock

\* Waiting for the read lock of a handle (__wt_session_lock_btree).
LEMMA ReadLockStep ==
  ASSUME Locking, NEW s \in Sessions, ReadLock(s)
  PROVE  Locking'
<1> LockInv
  BY DEF Locking
<1> DEFINE n == Want(s)
<1>0. /\ SessionOK(s) /\ call[s].pc = "read" /\ n \in cache[s] /\ n \in Handles /\ h[n].listed
      /\ call[s].op \in {"open", "last", "checkpoint"}
  <2>1. SessionOK(s) /\ call[s].pc = "read" /\ n \in cache[s] /\ n \in Handles
    BY DEF LockInv, LockTypes, ReadLock, At, SessionOK
  <2> QED BY <2>1 DEF SessionOK, Flow
<1>1. CASE h[n].open
  <2>1. Granted(s) /\ h' = h /\ h[n].writer = None
    BY <1>1 DEF ReadLock
  <2>2. Has(s) /\ References(s)
    BY <1>0, <1>1, <2>1 DEF Has, References, Excl
  <2>3. h' \in [Handles -> States]
    BY <2>1 DEF LockInv, LockTypes
  <2> QED BY <1>0, <2>1, <2>2, <2>3, GrantStep
<1>2. CASE ~h[n].open
  BY <1>0, <1>2, JumpStep DEF ReadLock
<1> QED BY <1>1, <1>2

\* A session that is getting a handle goes on with the schema lock and a
\* reference: to lock the handle, or to open the one it has locked.
LEMMA PendingStep ==
  ASSUME Locking, NEW s \in Sessions, NEW pc \in {"lock", "open"}, Jump(s, pc),
         schema \in {None, s}, schema' = s, UNCHANGED <<cache, cursor, metalock>>,
         call[s].pc \in {"get", "find", "lock", "open"},
         h' \in [Handles -> States], \A m \in Handles \ {Want(s)} : h'[m] = h[m],
         h'[Want(s)].listed, h'[Want(s)].refcnt > Cardinality(Cachers(Want(s))),
         \/ /\ pc = "lock" /\ h'[Want(s)].writer = h[Want(s)].writer
            /\ h'[Want(s)].open = h[Want(s)].open /\ h'[Want(s)].special = h[Want(s)].special
         \/ /\ \A r \in Sessions : Want(s) \notin cursor[r]
            /\ \A r \in Sessions \ {s} : ~Uses(r, Want(s))
            /\ h'[Want(s)].special = "none"
            /\ pc = "open" => h'[Want(s)].writer = s /\ call[s].op # "drop"
  PROVE  Locking'
<1> LockInv
  BY DEF Locking
<1> DEFINE n == Want(s)
           c == [call[s] EXCEPT !.pc = pc]
<1>0. SessionOK(s) /\ call[s].trk = {} /\ ~call[s].held /\ n \in Handles /\ n = call[s].want /\ s # None
  <2>1. SessionOK(s) /\ call[s] \in Calls /\ s # None
    BY SessionsAssumption DEF LockInv, LockTypes
  <2>2. Flow(call[s])
    BY <2>1 DEF SessionOK
  <2> QED BY <2>1, <2>2 DEF Calls, Flow, Want
<1>p. pc \in PCs
  BY DEF PCs
<1>1. /\ c \in Calls /\ c.pc = pc /\ c.op = call[s].op /\ c.want = call[s].want /\ c.trk = call[s].trk
      /\ c.held = call[s].held /\ c.name = call[s].name /\ call' = [call EXCEPT ![s] = c]
  BY SMTT(20), Z3T(20), <1>p, JumpIsCall DEF Jump
<1> HIDE DEF c
<1>2. /\ call'[s] = c /\ call' \in [Sessions -> Calls] /\ \A r \in Sessions \ {s} : call'[r] = call[r]
  BY <1>1 DEF LockInv, LockTypes
<1>3. Alone(s) /\ Typed'
  BY <1>2 DEF Alone, Passes, LockInv, LockTypes, Sids, Typed
<1>4. Spares(s)
  BY <1>0 DEF Spares
<1>5. SessionOK(s)'
  <2>1. Flow(c)
    BY <1>0, <1>1 DEF SessionOK, Flow
  <2>2. ASSUME NEW m \in cache'[s] PROVE h'[m].listed
    <3>1. m \in cache[s] /\ m \in Handles /\ h[m].listed
      BY <1>0 DEF SessionOK, LockInv, LockTypes
    <3> QED BY <3>1
  <2>3. \A m \in cursor'[s] : /\ m \in cache'[s] /\ h'[m].open
                              /\ h'[m].writer = IF h'[m].special = "none" THEN None ELSE s
    <3> SUFFICES ASSUME NEW m \in cursor'[s]
                 PROVE  /\ m \in cache'[s] /\ h'[m].open
                        /\ h'[m].writer = IF h'[m].special = "none" THEN None ELSE s
      OBVIOUS
    <3>1. /\ m \in cursor[s] /\ m \in Handles /\ m \in cache[s] /\ h[m].open
          /\ h[m].writer = IF h[m].special = "none" THEN None ELSE s
      BY <1>0 DEF SessionOK, LockInv, LockTypes
    <3>2. /\ h'[m].open = h[m].open /\ h'[m].writer = h[m].writer /\ h'[m].special = h[m].special
      BY <3>1
    <3> QED BY <3>1, <3>2
  <2>4. \A m \in Locks(c) : /\ h'[m].writer = s /\ h'[m].special = "none"
                            /\ \A r \in Sessions : m \notin cursor'[r]
    BY SMTT(20), <1>0, <1>1 DEF Locks
  <2>5. InCkpt(c) => metalock' = s
    BY <1>0, <1>1 DEF SessionOK, InCkpt
  <2>6. c.op = "close" => cursor'[s] = {}
    BY <1>0, <1>1 DEF SessionOK
  <2> QED BY <1>0, <1>1, <1>2, <2>1, <2>2, <2>3, <2>4, <2>5, <2>6 DEF SessionOK, At, Want
<1>6. ASSUME NEW m \in Handles PROVE HandleOK(m)'
  <2>1. HandleOK(m) /\ h[m].writer \in Sids
    BY DEF LockInv, LockTypes, States
  <2>2. /\ h'[m].open \/ h'[m].writer # None => h'[m].listed
        /\ \/ h'[m].special = "none"
           \/ h'[m].special = h[m].special /\ h'[m].open = h[m].open /\ h'[m].writer = h[m].writer
    BY <2>1 DEF HandleOK
  <2>3. h[m].special = "verify" => At(h[m].writer, "verify") /\ h[m].writer \in Sessions \ {s}
    BY <2>1 DEF HandleOK, At, Sids
  <2> QED BY <2>1, <2>2, <2>3, <1>2 DEF HandleOK, At
<1>7. Counted'
  <2>1. ASSUME NEW m \in Handles PROVE Cachers(m)' = Cachers(m)
    BY DEF Cachers
  <2>2. ASSUME NEW m \in Handles PROVE h'[m].refcnt >= Cardinality(Cachers(m)')
    <3>1. h[m].refcnt >= Cardinality(Cachers(m)) /\ h[m].refcnt \in Nat /\ h'[m].refcnt \in Nat
      BY DEF LockInv, LockTypes, Counted, States
    <3>2. Cardinality(Cachers(m)) \in Nat
      BY <1>3, CachersCount
    <3> QED BY SMTT(20), Z3T(20), <3>1, <3>2, <2>1
  <2>3. (h[Want(s)].refcnt > Cardinality(Cachers(Want(s))))'
    <3>1. Want(s)' = n
      BY <1>0, <1>1, <1>2 DEF Want
    <3>2. Cachers(Want(s))' = Cachers(n)
      BY <3>1 DEF Cachers
    <3> QED BY <3>1, <3>2
  <2> QED BY <2>2, <2>3, <1>3, CountedStep
<1> QED BY <1>3, <1>4, <1>5, <1>6, <1>7, LoudStep

\* The session has the write lock of a handle nobody uses, and a reference: a drop
\* goes on, the others open the handle.
LEMMA WriteLockedStep ==
  ASSUME Locking, NEW s \in Sessions, WriteLocked(s), call[s].pc \in {"get", "find", "lock"}, schema \in {None, s},
         h' \in [Handles -> States], \A m \in Handles \ {Want(s)} : h'[m] = h[m],
         h'[Want(s)].listed, h'[Want(s)].writer = s, h'[Want(s)].special = "none",
         h'[Want(s)].refcnt > Cardinality(Cachers(Want(s))), \A r \in Sessions : ~Uses(r, Want(s))
  PROVE  Locking'
<1> LockInv
  BY DEF Locking
<1>1. CASE call[s].op = "drop"
  <2>1. Has(s)
    BY <1>1 DEF Has, Uses
  <2>2. References(s)
    BY DEF References
  <2> QED BY <1>1, <2>1, <2>2, GrantStep DEF WriteLocked
<1>2. CASE call[s].op # "drop"
  <2>1. Jump(s, "open") /\ schema' = s /\ UNCHANGED <<cache, cursor, metalock>>
    BY <1>2 DEF WriteLocked
  <2>2. \A r \in Sessions : Want(s) \notin cursor[r]
    BY DEF Uses
  <2> QED BY <1>2, <2>1, <2>2, PendingStep
<1> QED BY <1>1, <1>2

\* Finding a handle in the connection's list, or adding it (__conn_btree_get).
LEMMA FindHandleStep ==
  ASSUME Locking, NEW s \in Sessions, FindHandle(s)
  PROVE  Locking'
<1> LockInv
  BY DEF Locking
<1> DEFINE n == Want(s)
<1>0. /\ call[s].pc \in {"get", "find"} /\ schema \in {None, s} /\ n \in Handles /\ HandleOK(n)
      /\ h[n].refcnt \in Nat /\ h[n].refcnt >= Cardinality(Cachers(n))
  BY DEF FindHandle, At, LockInv, LockTypes, Calls, Want, States, Counted
<1>1. Cardinality(Cachers(n)) \in Nat /\ (~h[n].listed => Cardinality(Cachers(n)) = 0)
  <2>1. IsFiniteSet(Cachers(n))
    BY SessionsAssumption, FS_Subset DEF Cachers
  <2>2. ~h[n].listed => Cachers(n) = {}
    BY DEF Cachers, LockInv, SessionOK
  <2> QED BY <2>1, <2>2, FS_CardinalityType, FS_EmptySet
<1>2. CASE h[n].listed
  <2>1. /\ h' = [h EXCEPT ![n].refcnt = @ + 1] /\ schema' = s /\ Jump(s, "lock")
        /\ UNCHANGED <<cache, cursor, metalock>>
    BY <1>2 DEF FindHandle
  <2>2. /\ h' \in [Handles -> States] /\ \A m \in Handles \ {n} : h'[m] = h[m]
        /\ h'[n].listed /\ h'[n].refcnt = h[n].refcnt + 1
        /\ h'[n].writer = h[n].writer /\ h'[n].open = h[n].open /\ h'[n].special = h[n].special
    <3>1. h \in [Handles -> States]
      BY DEF LockInv, LockTypes
    <3> QED BY SMTT(20), Z3T(20), <1>0, <1>2, <2>1, <3>1 DEF States
  <2>3. h'[n].refcnt > Cardinality(Cachers(n))
    BY SMTT(20), Z3T(20), <1>0, <1>1, <2>2
  <2> QED BY <1>0, <2>1, <2>2, <2>3, PendingStep
<1>3. CASE ~h[n].listed
  <2>1. h' = [h EXCEPT ![n] = [@ EXCEPT !.listed = TRUE, !.refcnt = 1, !.writer = s]] /\ WriteLocked(s)
    BY <1>3 DEF FindHandle
  <2>2. ~h[n].open /\ h[n].special = "none"
    BY <1>0, <1>3 DEF HandleOK
  <2>3. /\ h' \in [Handles -> States] /\ \A m \in Handles \ {n} : h'[m] = h[m]
        /\ h'[n].listed /\ h'[n].refcnt = 1 /\ h'[n].writer = s /\ h'[n].special = "none"
    BY <1>0, <2>1, <2>2 DEF LockInv, LockTypes, States, Sids
  <2>4. ASSUME NEW r \in Sessions PROVE ~Uses(r, n)
    <3>1. SessionOK(r)
      BY DEF LockInv
    <3>2. n \notin cursor[r] /\ ~(call[r].held /\ n = Live)
      BY <3>1, <2>2 DEF SessionOK
    <3>3. n \notin Locks(call[r])
      BY <3>1, <1>0, <1>3, SessionsAssumption DEF SessionOK, HandleOK
    <3> QED BY <3>2, <3>3 DEF Uses
  <2>5. h'[n].refcnt > Cardinality(Cachers(n))
    BY SMTT(20), Z3T(20), <1>1, <1>3, <2>3
  <2> QED BY <1>0, <2>1, <2>3, <2>4, <2>5, WriteLockedStep
<1> QED BY <1>2, <1>3

\* A step of the session s, which goes on to the call c, that opens, closes, locks
\* or unlocks only the handles of W, which no other session uses.
Owns(s, c, W) ==
  /\ c \in Calls /\ Flow(c) /\ call' = [call EXCEPT ![s] = c]
  /\ Alone(s) /\ Typed' /\ Counted'
  /\ UnderSchema(c) => schema' = s
  /\ InCkpt(c) => metalock' = s
  /\ c.pc \notin {"lock", "endbulk", "read", "verify"} /\ (call[s].pc = "verify" => Live \in W)
  /\ c.held => call[s].held /\ Live \notin W
  /\ c.op = "close" => cursor'[s] = {}
  /\ cursor'[s] \subseteq (cursor[s] \ W) \intersect cache'[s]
  /\ \A m \in cache'[s] : h'[m].listed
  /\ \A m \in Handles : /\ h[m].listed \/ h'[m].open \/ h'[m].writer # None => h'[m].listed
                        /\ m \notin W => /\ h'[m].writer = h[m].writer /\ h'[m].open = h[m].open
                                         /\ h'[m].special = h[m].special
                        /\ m \in W => h'[m].special = "none" /\ \A r \in Sessions \ {s} : ~Uses(r, m)
  /\ \A m \in Locks(c) : /\ h'[m].writer = s /\ h'[m].special = "none"
                         /\ \A r \in Sessions : m \notin cursor'[r]

\* Such a step keeps the invariant.
LEMMA OwnStep ==
  ASSUME Locking, NEW s \in Sessions, NEW c, NEW W, Owns(s, c, W)
  PROVE  Locking'
<1> LockInv
  BY DEF Locking, Typed
<1>0. SessionOK(s) /\ call'[s] = c /\ \A r \in Sessions \ {s} : call'[r] = call[r]
  BY DEF LockInv, LockTypes, Owns
<1>1. Spares(s)
  BY DEF Owns, Spares
<1>2. SessionOK(s)'
  <2>1. \A m \in cursor'[s] : /\ m \in cache'[s] /\ h'[m].open
                              /\ h'[m].writer = IF h'[m].special = "none" THEN None ELSE s
    <3> SUFFICES ASSUME NEW m \in cursor'[s]
                 PROVE  /\ m \in cache'[s] /\ h'[m].open
                        /\ h'[m].writer = IF h'[m].special = "none" THEN None ELSE s
      OBVIOUS
    <3>1. m \in cursor[s] /\ m \notin W /\ m \in cache'[s]
      BY DEF Owns
    <3>2. /\ m \in Handles /\ h[m].open /\ h[m].writer = IF h[m].special = "none" THEN None ELSE s
      BY <1>0, <3>1 DEF SessionOK, LockInv, LockTypes
    <3>3. /\ h'[m].open = h[m].open /\ h'[m].writer = h[m].writer /\ h'[m].special = h[m].special
      BY <3>1, <3>2 DEF Owns
    <3> QED BY <3>1, <3>2, <3>3
  <2>2. c.held => h'[Live].open /\ h'[Live].writer = None
    BY <1>0 DEF SessionOK, Owns, Handles
  <2> QED BY <1>0, <2>1, <2>2 DEF SessionOK, At, Want, Owns
<1>3. ASSUME NEW m \in Handles PROVE HandleOK(m)'
  <2>1. HandleOK(m) /\ h[m].writer \in Sids
    BY DEF LockInv, LockTypes, States
  <2>2. CASE m \in W
    BY <2>2 DEF Owns, HandleOK
  <2>3. CASE m \notin W
    <3>1. h'[m].writer = h[m].writer /\ h'[m].open = h[m].open /\ h'[m].special = h[m].special
      BY <2>3 DEF Owns
    <3>2. h[m].special = "verify" => h[m].writer \in Sessions \ {s}
      BY <2>1, <2>3 DEF HandleOK, At, Sids, Owns
    <3>3. h'[m].open \/ h'[m].writer # None => h'[m].listed
      BY DEF Owns
    <3> QED BY <2>1, <3>1, <3>2, <3>3, <1>0 DEF HandleOK, At
  <2> QED BY <2>2, <2>3
<1> QED BY <1>1, <1>2, <1>3, LoudStep DEF Owns
=============================================================================

---------------------------- MODULE HandleSteps -----------------------------
(***************************************************************************)
(* The other steps of Handles keep LockInv: those that open, reopen,       *)
(* close, release and discard handles, and those of a checkpoint or a drop *)
(* that lock them.                                                         *)
(***************************************************************************)
EXTENDS HandleLocks

\* The prover of a leaf that names no other.
USE ZenonT(60)

\* One turn of the loop of __conn_btree_open_lock.
LEMMA OpenLockStep ==
  ASSUME Locking, NEW s \in Sessions, OpenLock(s)
  PROVE  Locking'
<1> LockInv
  BY DEF Locking
<1> DEFINE n == Want(s)
<1>0. /\ call[s].pc = "lock" /\ schema = s /\ n \in Handles /\ h[n].listed
      /\ h[n].refcnt > Cardinality(Cachers(n))
  <2>1. SessionOK(s) /\ call[s].pc = "lock" /\ n \in Handles
    BY DEF LockInv, LockTypes, Calls, OpenLock, At, Want
  <2> QED BY <2>1 DEF LockInv, SessionOK, UnderSchema, At, Want, Counted
<1>1. CASE GetFailed(s) /\ UNCHANGED <<h, cache, cursor>>
  BY <1>0, <1>1, GetFailedStep
<1>2. CASE ~Excl(s) /\ h[n].special = "none" /\ h[n].open /\ h[n].writer = None /\ Granted(s) /\ UNCHANGED h
  <2>1. Has(s) /\ References(s)
    BY <1>0, <1>2 DEF Has, References, Excl
  <2>2. h' \in [Handles -> States]
    BY <1>2 DEF LockInv, LockTypes
  <2> QED BY <1>0, <1>2, <2>1, <2>2, GrantStep
<1>3. CASE Unlocked(n) /\ h' = [h EXCEPT ![n].writer = s] /\ WriteLocked(s)
  <2>1. h[n].special = "none" /\ \A r \in Sessions : ~Uses(r, n)
    BY <1>0, <1>3, UnlockedUnused
  <2>2. /\ h' \in [Handles -> States] /\ \A m \in Handles \ {n} : h'[m] = h[m]
        /\ h'[n].writer = s /\ h'[n].special = "none" /\ h'[n].listed /\ h'[n].refcnt = h[n].refcnt
    BY <1>0, <1>3, <2>1 DEF LockInv, LockTypes, States, Sids
  <2> QED BY <1>0, <1>3, <2>1, <2>2, WriteLockedStep
<1> QED BY <1>1, <1>2, <1>3 DEF OpenLock

\* What a session that opens a handle has.
LEMMA Opening ==
  ASSUME Locking, NEW s \in Sessions, At(s, "open")
  PROVE  /\ Want(s) \in Handles /\ Want(s) \in Locks(call[s]) /\ schema = s /\ call[s].op # "drop"
         /\ h[Want(s)].writer = s /\ h[Want(s)].special = "none" /\ h[Want(s)].listed
         /\ h[Want(s)].refcnt \in Nat /\ h[Want(s)].refcnt > Cardinality(Cachers(Want(s)))
         /\ Cardinality(Cachers(Want(s))) \in Nat
         /\ \A r \in Sessions : Want(s) \notin cursor[r]
         /\ \A r \in Sessions \ {s} : ~Uses(r, Want(s))
         /\ call[s].pc = "open" /\ s # None
<1> LockInv
  BY DEF Locking
<1>1. /\ SessionOK(s) /\ Want(s) \in Handles /\ call[s].pc = "open" /\ s # None /\ HandleOK(Want(s))
      /\ h[Want(s)].refcnt \in Nat
  BY SessionsAssumption DEF LockInv, LockTypes, Calls, States, At, Want
<1>2. Want(s) \in Locks(call[s])
  BY <1>1 DEF Locks, Want
<1>3. \A r \in Sessions \ {s} : ~Uses(r, Want(s))
  BY <1>2, LockedAlone
<1>4. schema = s /\ call[s].op # "drop" /\ h[Want(s)].writer = s /\ h[Want(s)].special = "none"
      /\ \A r \in Sessions : Want(s) \notin cursor[r]
  BY <1>1, <1>2 DEF SessionOK, Flow, UnderSchema, At
<1>5. h[Want(s)].listed
  BY <1>1, <1>4 DEF HandleOK
<1>6. h[Want(s)].refcnt > Cardinality(Cachers(Want(s)))
  BY <1>1 DEF LockInv, Counted
<1>7. Cardinality(Cachers(Want(s))) \in Nat
  BY SessionsAssumption, FS_Subset, FS_CardinalityType DEF Cachers
<1> QED BY <1>1, <1>2, <1>3, <1>4, <1>5, <1>6, <1>7

\* Opening a handle (__conn_btree_open): it is kept locked for an exclusive operation.
LEMMA OpenHandleStep ==
  ASSUME Locking, MetaTypes, NEW s \in Sessions, OpenHandle(s)
  PROVE  Locking'
<1> LockInv
  BY DEF Locking
<1> DEFINE n == Want(s)
<1>0. /\ n \in Handles /\ schema = s /\ call[s].op # "drop" /\ h[n].writer = s /\ h[n].listed
      /\ h[n].refcnt \in Nat /\ h[n].refcnt > Cardinality(Cachers(n))
      /\ \A r \in Sessions : n \notin cursor[r]
      /\ \A r \in Sessions \ {s} : ~Uses(r, n)
      /\ call[s].pc = "open"
  BY Opening DEF OpenHandle
<1>1. AddrOf(n) \in Addrs
  <2>1. file.ckpts \in SUBSET Ckpts /\ (n # Live => n \in NamesOf(file.ckpts))
    BY DEF MetaTypes, OpenHandle, CanOpen
  <2> QED BY <2>1, AddrIsIn, LastAddrIsIn DEF AddrOf
<1>2. /\ h' \in [Handles -> States] /\ \A m \in Handles \ {n} : h'[m] = h[m]
      /\ h'[n].listed /\ h'[n].refcnt = h[n].refcnt /\ h'[n].open /\ h'[n].special = Special(s)
      /\ h'[n].writer = IF Excl(s) THEN s ELSE None
  <2> DEFINE w == IF Excl(s) THEN s ELSE None
  <2>1. Special(s) \in {"none", "bulk", "verify"} /\ w \in Sids /\ h \in [Handles -> States]
    BY DEF Special, Sids, LockInv, LockTypes
  <2>2. h' = [h EXCEPT ![n] = [@ EXCEPT !.open = TRUE, !.special = Special(s), !.addr = AddrOf(n), !.writer = w]]
    BY DEF OpenHandle
  <2> HIDE DEF w
  <2>3. /\ h' \in [Handles -> States] /\ \A m \in Handles \ {n} : h'[m] = h[m]
        /\ h'[n].listed /\ h'[n].refcnt = h[n].refcnt /\ h'[n].open /\ h'[n].special = Special(s)
        /\ h'[n].writer = w
    BY <1>0, <1>1, <2>1, <2>2 DEF States
  <2> QED BY <2>3 DEF w
<1>3. CASE Excl(s)
  <2>1. Granted(s)
    BY <1>3 DEF OpenHandle
  <2>2. Has(s)
    BY <1>0, <1>2, <1>3 DEF Has, Excl, Special, Uses
  <2>3. References(s)
    BY <1>0, <1>2 DEF References
  <2> QED BY <1>0, <1>2, <2>1, <2>2, <2>3, GrantStep
<1>4. CASE ~Excl(s)
  <2>1. Jump(s, "lock") /\ UNCHANGED <<cache, cursor, schema, metalock>>
    BY <1>4 DEF OpenHandle
  <2>2. h'[n].special = "none" /\ h'[n].refcnt > Cardinality(Cachers(n))
    BY <1>0, <1>2, <1>4 DEF Special, Excl
  <2> QED BY <1>0, <1>2, <2>1, <2>2, PendingStep
<1> QED BY <1>3, <1>4

\* Reopening a handle in another mode closes it first (__conn_btree_open).
LEMMA ReopenStep ==
  ASSUME Locking, NEW s \in Sessions, Reopen(s)
  PROVE  Locking'
<1> LockInv
  BY DEF Locking
<1> DEFINE n == Want(s)
<1>0. /\ n \in Handles /\ schema = s /\ h[n].writer = s /\ h[n].listed /\ n \in Locks(call[s])
      /\ \A r \in Sessions : n \notin cursor[r]
      /\ \A r \in Sessions \ {s} : ~Uses(r, n)
      /\ call[s].pc = "open"
  BY Opening DEF Reopen
<1>1. /\ h' \in [Handles -> States] /\ \A m \in Handles \ {n} : h'[m] = h[m]
      /\ h'[n].listed /\ h'[n].refcnt = h[n].refcnt /\ ~h'[n].open /\ h'[n].special = "none"
      /\ h'[n].writer = s
  <2>1. h' = Closed(h, n) /\ h \in [Handles -> States]
    BY DEF Reopen, LockInv, LockTypes
  <2>2. n \in Handles
    BY <1>0
  <2>3. /\ h' \in [Handles -> States] /\ \A m \in Handles \ {n} : h'[m] = h[m]
        /\ h'[n].listed = h[n].listed /\ h'[n].refcnt = h[n].refcnt /\ ~h'[n].open /\ h'[n].special = "none"
        /\ h'[n].writer = h[n].writer
    BY <2>1, <2>2, ClosedHandle
  <2> QED BY <1>0, <2>3
<1>2. UNCHANGED <<cache, cursor, schema, metalock, call>>
  BY DEF Reopen
<1>3. Counted'
  BY <1>1, <1>2 DEF LockInv, Counted, Cachers, Want, LockTypes, Calls
<1>4. SessionOK(s) /\ call[s] \in Calls
  BY DEF LockInv, LockTypes
<1>5. Alone(s) /\ Typed' /\ call' = [call EXCEPT ![s] = call[s]]
  BY <1>1, <1>2 DEF Alone, Passes, LockInv, LockTypes, Typed
<1>6. /\ ~call[s].held /\ call[s].op # "close" /\ Locks(call[s]) = {n}
  BY <1>0, <1>4 DEF SessionOK, Flow, Locks, Want
<1>7. \A m \in Handles : HandleOK(m)
  BY DEF LockInv
<1>8. Owns(s, call[s], {n})
  <2>1. /\ Flow(call[s]) /\ (InCkpt(call[s]) => metalock' = s) /\ (UnderSchema(call[s]) => schema' = s)
        /\ cursor'[s] \subseteq (cursor[s] \ {n}) \intersect cache'[s]
        /\ \A m \in cache'[s] : h'[m].listed
    BY SMTT(20), <1>0, <1>1, <1>2, <1>4 DEF SessionOK, LockInv, LockTypes
  <2>2. \A m \in Handles : h[m].listed \/ h'[m].open \/ h'[m].writer # None => h'[m].listed
    BY <1>1, <1>7 DEF HandleOK
  <2>3. \A m \in Locks(call[s]) : h'[m].writer = s /\ h'[m].special = "none" /\ \A r \in Sessions : m \notin cursor'[r]
    BY <1>0, <1>1, <1>2, <1>6
  <2> QED BY <1>0, <1>1, <1>3, <1>4, <1>5, <1>6, <2>1, <2>2, <2>3 DEF Owns
<1> QED BY <1>8, OwnStep

\* A handle that could not be opened is unlocked; the reference may be kept.
LEMMA OpenFailsStep ==
  ASSUME Locking, NEW s \in Sessions, OpenGone(s) \/ OpenFails(s)
  PROVE  Locking'
<1> LockInv
  BY DEF Locking
<1> DEFINE n == Want(s)
<1>0. /\ n \in Handles /\ schema = s /\ h[n].writer = s /\ h[n].listed /\ h[n].special = "none"
      /\ h[n].refcnt \in Nat /\ h[n].refcnt > Cardinality(Cachers(n)) /\ Cardinality(Cachers(n)) \in Nat
      /\ \A r \in Sessions : n \notin cursor[r]
      /\ \A r \in Sessions \ {s} : ~Uses(r, n)
      /\ call[s].pc = "open" /\ GetFailed(s) /\ UNCHANGED <<cache, cursor>>
  BY Opening DEF OpenGone, OpenFails
<1>1. /\ h' \in [Handles -> States] /\ \A m \in Handles \ {n} : h'[m] = h[m]
      /\ h'[n].listed /\ h'[n].refcnt \in {h[n].refcnt, h[n].refcnt - 1} /\ h'[n].special = "none"
      /\ h'[n].writer = None
  <2>1. CASE OpenGone(s)
    BY <1>0, <2>1 DEF OpenGone, Released, LockInv, LockTypes, States, Sids
  <2>2. CASE OpenFails(s)
    BY SMTT(20), <1>0, <2>2 DEF OpenFails, Released, LockInv, LockTypes, States, Sids
  <2> QED BY <2>1, <2>2
<1>2. PICK c : /\ c \in Calls /\ Flow(c) /\ call' = [call EXCEPT ![s] = c]
               /\ c.pc \in {"list", "last", "idle"} /\ c.op \in {"checkpoint", "last", "none"}
               /\ Locks(c) = {} /\ ~c.held
               /\ UnderSchema(c) => schema' = s
               /\ InCkpt(c) => metalock' = s
               /\ Passes(s, schema, schema') /\ metalock' = metalock
  BY <1>0, FailedCall
<1>3. Alone(s) /\ Typed' /\ call'[s] = c
  BY <1>0, <1>1, <1>2 DEF Alone, Passes, LockInv, LockTypes, Sids, Typed
<1>4. Counted'
  <2>1. ASSUME NEW m \in Handles PROVE h'[m].refcnt >= Cardinality(Cachers(m)')
    <3>1. Cachers(m)' = Cachers(m) /\ h[m].refcnt >= Cardinality(Cachers(m))
      BY <1>0 DEF Cachers, LockInv, Counted
    <3> QED BY SMTT(20), <1>0, <1>1, <3>1
  <2> QED BY <1>0, <1>2, <1>3, <2>1, CountedStep
<1>5. SessionOK(s) /\ \A m \in Handles : HandleOK(m)
  BY DEF LockInv
<1>6. Owns(s, c, {n})
  BY SMTT(20), Z3T(20), <1>0, <1>1, <1>2, <1>3, <1>4, <1>5 DEF Owns, SessionOK, HandleOK, LockInv, LockTypes
<1> QED BY <1>6, OwnStep

\* References are counted when a step changes neither the counts nor the caches.
LEMMA SameCount ==
  ASSUME Locking, NEW s \in Sessions, Alone(s), Typed', cache' = cache, call'[s].pc \notin {"lock", "open"},
         \A m \in Handles : h'[m].refcnt = h[m].refcnt
  PROVE  Counted'
<1> LockInv /\ LockTypes'
  BY DEF Locking, Typed
<1>1. ASSUME NEW m \in Handles PROVE h'[m].refcnt >= Cardinality(Cachers(m)')
  BY DEF Cachers, LockInv, Counted
<1> QED BY <1>1, CountedStep

\* A checkpoint handle in use by a cursor or a backup is passed over, or is an
\* error; the reference taken may be kept (__wt_checkpoint).
LEMMA InUseStep ==
  ASSUME Locking, NEW s \in Sessions, At(s, "cklock"), NEW n \in Handles, InUse(s, n), UNCHANGED <<cache, cursor, schema, metalock>>,
         h' \in [Handles -> States],
         \A m \in Handles : /\ h'[m].refcnt >= h[m].refcnt /\ h'[m].listed = h[m].listed /\ h'[m].open = h[m].open
                            /\ h'[m].writer = h[m].writer /\ h'[m].special = h[m].special
  PROVE  Locking'
<1> LockInv
  BY DEF Locking
<1>0. SessionOK(s) /\ call[s] \in Calls /\ call[s].pc = "cklock" /\ \A m \in Handles : HandleOK(m)
  BY DEF LockInv, LockTypes, At
<1>1. call[s].op = "checkpoint" /\ schema = s /\ metalock = s
  <2>1. call[s].op = "checkpoint"
    BY <1>0 DEF SessionOK, Flow
  <2> QED BY <1>0, <2>1 DEF SessionOK, UnderSchema, InCkpt
<1>2. PICK c : /\ c \in Calls /\ call' = [call EXCEPT ![s] = c] /\ c.pc \in {"cklock", "off"}
               /\ c.op = call[s].op /\ c.want = call[s].want /\ c.name = call[s].name /\ c.held = call[s].held
               /\ c.trk = call[s].trk
  <2> DEFINE d == [call[s] EXCEPT !.marked = @ \ {n}, !.todo = @ \ {n}]
             e == [call[s] EXCEPT !.failed = TRUE, !.pc = "off"]
             c == IF IsInternal(n) THEN d ELSE e
  <2>1. call' = [call EXCEPT ![s] = c]
    <3>1. CASE IsInternal(n)
      BY <3>1 DEF InUse
    <3>2. CASE ~IsInternal(n)
      BY <3>2 DEF InUse
    <3> QED BY <3>1, <3>2
  <2>2. /\ d \in Calls /\ d.pc = call[s].pc /\ d.op = call[s].op /\ d.want = call[s].want /\ d.name = call[s].name
        /\ d.held = call[s].held /\ d.trk = call[s].trk
    BY <1>0 DEF Calls
  <2>3. /\ e \in Calls /\ e.pc = "off" /\ e.op = call[s].op /\ e.want = call[s].want /\ e.name = call[s].name
        /\ e.held = call[s].held /\ e.trk = call[s].trk
    BY <1>0 DEF Calls, PCs
  <2> QED BY <1>0, <2>1, <2>2, <2>3
<1>3. Flow(c) /\ Locks(c) = Locks(call[s])
  BY <1>0, <1>1, <1>2 DEF SessionOK, Flow, Locks
<1>4. Alone(s) /\ Typed' /\ call'[s] = c
  BY <1>2 DEF Alone, Passes, LockInv, LockTypes, Typed
<1>5. Counted'
  <2>1. ASSUME NEW m \in Handles PROVE h'[m].refcnt >= Cardinality(Cachers(m)')
    <3>1. Cachers(m)' = Cachers(m) /\ h[m].refcnt >= Cardinality(Cachers(m))
      BY DEF Cachers, LockInv, Counted
    <3>2. h[m].refcnt \in Nat /\ h'[m].refcnt \in Nat /\ Cardinality(Cachers(m)) \in Nat
      BY <1>4, CachersCount DEF LockInv, LockTypes, States
    <3> QED BY SMTT(20), <3>1, <3>2
  <2> QED BY <1>1, <1>2, <1>4, <2>1, CountedStep
<1>6. Owns(s, c, {})
  <2>1. /\ cursor'[s] \subseteq cursor[s] \intersect cache'[s] /\ \A m \in cache'[s] : h'[m].listed
    BY <1>0 DEF SessionOK, LockInv, LockTypes
  <2>2. \A m \in Handles : h[m].listed \/ h'[m].open \/ h'[m].writer # None => h'[m].listed
    BY <1>0 DEF HandleOK
  <2>3. \A m \in Locks(c) : h'[m].writer = s /\ h'[m].special = "none" /\ \A r \in Sessions : m \notin cursor'[r]
    <3>1. Locks(c) \subseteq Handles
      BY <1>1, <1>2 DEF Locks, Calls
    <3> QED BY <1>0, <1>3, <3>1 DEF SessionOK, At
  <2> QED BY <1>0, <1>1, <1>2, <1>3, <1>4, <1>5, <2>1, <2>2, <2>3 DEF Owns
<1> QED BY <1>6, OwnStep

\* Locking the handles of the checkpoints to be deleted (__wt_checkpoint).
LEMMA LockCkptStep ==
  ASSUME Locking, NEW s \in Sessions, LockCkpt(s)
  PROVE  Locking'
<1> LockInv
  BY DEF Locking
<1>0. /\ SessionOK(s) /\ call[s] \in Calls /\ call[s].pc = "cklock" /\ At(s, "cklock")
      /\ UNCHANGED <<cursor, schema, metalock>> /\ \A m \in Handles : HandleOK(m)
  BY DEF LockInv, LockTypes, At, LockCkpt
<1>1. call[s].op = "checkpoint" /\ schema = s /\ metalock = s
  <2>1. call[s].op = "checkpoint"
    BY <1>0 DEF SessionOK, Flow
  <2> QED BY <1>0, <2>1 DEF SessionOK, UnderSchema, InCkpt
<1>2. PICK n \in call[s].todo :
        \/ InUse(s, n) /\ UNCHANGED <<h, cache>>
        \/ /\ Unlocked(n)
           /\ h' = LockedHandle(s, n)
           /\ cache' = [cache EXCEPT ![s] = @ \union {n}]
           /\ call' = [call EXCEPT ![s].todo = @ \ {n}, ![s].trk = @ \union {n}]
        \/ /\ h' = [h EXCEPT ![n].refcnt = IF n \in cache[s] THEN @ ELSE @ + 1]
           /\ InUse(s, n) /\ UNCHANGED cache
  BY DEF LockCkpt
<1>3. n \in Handles /\ h \in [Handles -> States]
  BY <1>0 DEF Calls, LockInv, LockTypes
<1>4. CASE InUse(s, n) /\ UNCHANGED <<h, cache>>
  <2>1. \A m \in Handles : h[m].refcnt \in Nat
    BY <1>3 DEF States
  <2> QED BY SMTT(20), Z3T(20), <1>0, <1>3, <1>4, <2>1, InUseStep
<1>5. CASE h' = [h EXCEPT ![n].refcnt = IF n \in cache[s] THEN @ ELSE @ + 1] /\ InUse(s, n) /\ UNCHANGED cache
  <2>1. /\ h' \in [Handles -> States]
        /\ \A m \in Handles : /\ h'[m].refcnt >= h[m].refcnt /\ h'[m].listed = h[m].listed /\ h'[m].open = h[m].open
                               /\ h'[m].writer = h[m].writer /\ h'[m].special = h[m].special
    BY SMTT(20), <1>3, <1>5 DEF States
  <2> QED BY <1>0, <1>3, <1>5, <2>1, InUseStep
<1>6. CASE /\ Unlocked(n) /\ h' = LockedHandle(s, n) /\ cache' = [cache EXCEPT ![s] = @ \union {n}]
           /\ call' = [call EXCEPT ![s].todo = @ \ {n}, ![s].trk = @ \union {n}]
  <2>0. h[n].writer = None /\ h[n].special = "none" /\ (\A r \in Sessions : ~Uses(r, n)) /\ s # None
    BY <1>3, <1>6, UnlockedUnused, SessionsAssumption
  <2> DEFINE c == [call[s] EXCEPT !.todo = @ \ {n}, !.trk = @ \union {n}]
  <2>1. call' = [call EXCEPT ![s] = c]
    BY <1>6
  <2>2. /\ c \in Calls /\ c.pc = call[s].pc /\ c.op = call[s].op /\ c.want = call[s].want /\ c.name = call[s].name
        /\ c.held = call[s].held /\ c.trk = call[s].trk \union {n}
    BY <1>0, <1>3 DEF Calls
  <2> HIDE DEF c
  <2>3. Flow(c) /\ Locks(c) = Locks(call[s]) \union {n}
    BY <1>0, <1>1, <2>2 DEF SessionOK, Flow, Locks
  <2>4. /\ h' \in [Handles -> States] /\ \A m \in Handles \ {n} : h'[m] = h[m]
        /\ h'[n].listed /\ h'[n].writer = s /\ h'[n].special = "none"
        /\ h'[n].refcnt = IF n \in cache[s] THEN h[n].refcnt ELSE h[n].refcnt + 1
    <3> DEFINE k == LockedHandle(s, n)
    <3>1. /\ k \in [Handles -> States] /\ \A m \in Handles \ {n} : k[m] = h[m]
          /\ k[n].listed /\ k[n].writer = s /\ k[n].special = h[n].special
          /\ k[n].refcnt = IF n \in cache[s] THEN h[n].refcnt ELSE h[n].refcnt + 1
      BY SMTT(20), <1>3, LockedIsHandle
    <3>2. h' = k
      BY <1>6
    <3> HIDE DEF k
    <3> QED BY <2>0, <3>1, <3>2
  <2>5. /\ cache' \in [Sessions -> SUBSET Handles] /\ cache'[s] = cache[s] \union {n}
        /\ \A r \in Sessions \ {s} : cache'[r] = cache[r]
    BY <1>3, <1>6 DEF LockInv, LockTypes
  <2>6. Alone(s) /\ Typed' /\ call'[s] = c
    BY <1>0, <2>1, <2>2, <2>4, <2>5 DEF Alone, Passes, LockInv, LockTypes, Typed
  <2>7. Counted'
    <3>1. ASSUME NEW m \in Handles PROVE h'[m].refcnt >= Cardinality(Cachers(m)')
      <4>1. h[m].refcnt >= Cardinality(Cachers(m)) /\ h[m].refcnt \in Nat
        BY <1>3 DEF LockInv, Counted, States
      <4> QED BY SMTT(20), Z3T(20), <1>3, <2>4, <2>5, <2>6, <4>1, CachersCount
    <3> QED BY <1>0, <1>1, <2>2, <2>6, <3>1, CountedStep
  <2>8. Owns(s, c, {n})
    <3>1. /\ cursor'[s] \subseteq (cursor[s] \ {n}) \intersect cache'[s] /\ \A m \in cache'[s] : h'[m].listed
      BY SMTT(20), Z3T(20), <1>0, <1>3, <2>0, <2>4, <2>5 DEF SessionOK, LockInv, LockTypes, Uses
    <3>2. \A m \in Handles : h[m].listed \/ h'[m].open \/ h'[m].writer # None => h'[m].listed
      BY <1>0, <2>4 DEF HandleOK
    <3>3. \A m \in Locks(c) : h'[m].writer = s /\ h'[m].special = "none" /\ \A r \in Sessions : m \notin cursor'[r]
      <4>1. Locks(c) \subseteq Handles /\ n \notin Locks(call[s])
        BY <1>1, <1>0, <2>0, <2>2 DEF Locks, Calls, Uses
      <4>2. \A r \in Sessions : n \notin cursor'[r]
        BY <1>0, <2>0 DEF Uses
      <4>3. \A m \in Locks(call[s]) : h[m].writer = s /\ h[m].special = "none" /\ \A r \in Sessions : m \notin cursor[r]
        BY <1>0 DEF SessionOK, At
      <4> QED BY <1>0, <2>3, <2>4, <4>1, <4>2, <4>3
    <3>4. c.held => Live # n
      BY <2>0, <2>2 DEF Uses
    <3> QED BY SMTT(20), Z3T(20), <1>0, <1>1, <2>0, <2>1, <2>2, <2>3, <2>4, <2>6, <2>7, <3>1, <3>2, <3>3, <3>4 DEF
             Owns
  <2> QED BY <2>8, OwnStep
<1> QED BY <1>2, <1>4, <1>5, <1>6

\* The call of the session s ends, and it has used the handles of W alone.
Releases(s, W) ==
  /\ call' = [call EXCEPT ![s] = Idle] /\ cache' = cache
  /\ Passes(s, schema, schema') /\ Passes(s, metalock, metalock')
  /\ h' \in [Handles -> States] /\ cursor' \in [Sessions -> SUBSET Handles]
  /\ cursor'[s] \subseteq cursor[s] \ W /\ \A r \in Sessions \ {s} : cursor'[r] = cursor[r]
  /\ \A m \in Handles : /\ h[m].listed \/ h'[m].open \/ h'[m].writer # None => h'[m].listed
                        /\ h'[m].refcnt >= h[m].refcnt
                        /\ m \notin W => /\ h'[m].writer = h[m].writer /\ h'[m].open = h[m].open
                                         /\ h'[m].special = h[m].special
                        /\ m \in W => h'[m].special = "none" /\ \A r \in Sessions \ {s} : ~Uses(r, m)
  /\ call[s].pc = "verify" => Live \in W
  /\ schema \in {None, s} \/ \A m \in Handles : h'[m].refcnt = h[m].refcnt

\* Such a step keeps the invariant.
LEMMA ReleaseStep ==
  ASSUME Locking, NEW s \in Sessions, NEW W, Releases(s, W)
  PROVE  Locking'
<1> LockInv
  BY DEF Locking
<1>0. SessionOK(s)
  BY DEF LockInv
<1>1. Alone(s) /\ Typed' /\ call'[s] = Idle
  BY IdleIsCall DEF Releases, Alone, Passes, LockInv, LockTypes, Sids, Typed
<1>2. Counted'
  <2>1. ASSUME NEW m \in Handles PROVE h'[m].refcnt >= Cardinality(Cachers(m)')
    <3>1. Cachers(m)' = Cachers(m) /\ h[m].refcnt >= Cardinality(Cachers(m))
      BY DEF Cachers, LockInv, Counted, Releases
    <3>2. h[m].refcnt \in Nat /\ h'[m].refcnt \in Nat /\ Cardinality(Cachers(m)) \in Nat
      BY <1>1, CachersCount DEF LockInv, LockTypes, States, Typed
    <3> QED BY SMTT(20), <3>1, <3>2 DEF Releases
  <2> QED BY <1>1, <2>1, CountedStep, IdleIsCall DEF Releases
<1>3. cursor'[s] \subseteq (cursor[s] \ W) \intersect cache'[s] /\ \A m \in cache'[s] : h'[m].listed
  BY <1>0 DEF SessionOK, LockInv, LockTypes, Releases
<1>4. Owns(s, Idle, W)
  BY <1>1, <1>2, <1>3, IdleIsCall DEF Owns, Releases
<1> QED BY <1>4, OwnStep

\* Turning tracking off releases what was tracked (__wt_meta_track_off).
LEMMA TrackOffStep ==
  ASSUME Locking, NEW s \in Sessions, TrackOff(s)
  PROVE  Locking'
<1> LockInv
  BY DEF Locking
<1>0. /\ SessionOK(s) /\ call[s] \in Calls /\ call[s].pc = "off" /\ Return(s) /\ h' = Unlock(h, call[s].trk)
      /\ UNCHANGED <<cache, cursor>> /\ h \in [Handles -> States]
  BY DEF LockInv, LockTypes, At, TrackOff
<1> DEFINE W == call[s].trk
<1>1. W \in SUBSET Handles /\ W \subseteq Locks(call[s])
  BY <1>0 DEF Calls, Locks
<1>2. \A m \in W : h[m].special = "none" /\ m \notin cursor[s]
  BY <1>0, <1>1 DEF SessionOK, At
<1>3. \A m \in W : \A r \in Sessions \ {s} : ~Uses(r, m)
  BY <1>1, LockedAlone
<1> HIDE DEF W
<1>4. /\ h' \in [Handles -> States] /\ \A m \in Handles \ W : h'[m] = h[m]
      /\ \A m \in Handles : h'[m].listed = h[m].listed /\ h'[m].refcnt = h[m].refcnt
      /\ \A m \in W : h'[m].writer = None /\ h'[m].special = "none" /\ (h'[m].open => h[m].open)
  BY <1>0, <1>1, <1>2, UnlockHandles DEF W
<1>5. \A m \in Handles : /\ h[m].listed \/ h'[m].open \/ h'[m].writer # None => h'[m].listed
                         /\ h'[m].refcnt >= h[m].refcnt /\ HandleOK(m)
  BY SMTT(20), <1>4 DEF LockInv, LockTypes, States, HandleOK
<1>6. /\ call' = [call EXCEPT ![s] = Idle] /\ Passes(s, schema, schema') /\ Passes(s, metalock, metalock')
      /\ cursor' \in [Sessions -> SUBSET Handles] /\ cursor' = cursor /\ cursor'[s] \subseteq cursor[s] \ W
  BY <1>0, <1>2 DEF Return, Passes, LockInv, LockTypes
<1>7. Releases(s, W)
  BY <1>0, <1>1, <1>3, <1>4, <1>5, <1>6 DEF Releases
<1> QED BY <1>7, ReleaseStep

\* The end of a verify (__wt_session_release_btree).
LEMMA VerifyDoneStep ==
  ASSUME Locking, NEW s \in Sessions, VerifyDone(s)
  PROVE  Locking'
<1> LockInv
  BY DEF Locking
<1>0. /\ SessionOK(s) /\ call[s].pc = "verify" /\ Return(s) /\ h' = Released(Closed(h, Live), Live)
      /\ UNCHANGED <<cache, cursor>> /\ h \in [Handles -> States] /\ Live \in Handles
  BY DEF LockInv, LockTypes, At, VerifyDone, Handles
<1>1. Live \in Locks(call[s])
  BY <1>0 DEF Locks
<1>2. Live \notin cursor[s] /\ \A r \in Sessions \ {s} : ~Uses(r, Live)
  BY <1>0, <1>1, LockedAlone DEF SessionOK
<1>3. /\ h' \in [Handles -> States] /\ \A m \in Handles \ {Live} : h'[m] = h[m]
      /\ \A m \in Handles : h'[m].listed = h[m].listed /\ h'[m].refcnt = h[m].refcnt
      /\ h'[Live].writer = None /\ h'[Live].special = "none" /\ ~h'[Live].open
  <2> DEFINE k == Released(Closed(h, Live), Live)
  <2>1. /\ k \in [Handles -> States] /\ \A m \in Handles \ {Live} : k[m] = h[m]
        /\ k[Live].listed = h[Live].listed /\ k[Live].refcnt = h[Live].refcnt
        /\ k[Live].writer = None /\ k[Live].special = "none" /\ ~k[Live].open
    BY SMTT(20), <1>0, ShutHandle
  <2>2. h' = k
    BY <1>0
  <2> HIDE DEF k
  <2> QED BY <2>1, <2>2
<1>4. \A m \in Handles : /\ h[m].listed \/ h'[m].open \/ h'[m].writer # None => h'[m].listed
                         /\ h'[m].refcnt >= h[m].refcnt
  BY SMTT(20), <1>3 DEF LockInv, LockTypes, States, HandleOK
<1>5. /\ call' = [call EXCEPT ![s] = Idle] /\ Passes(s, schema, schema') /\ Passes(s, metalock, metalock')
      /\ cursor' \in [Sessions -> SUBSET Handles] /\ cursor' = cursor /\ cursor'[s] \subseteq cursor[s] \ {Live}
  BY <1>0, <1>2 DEF Return, Passes, LockInv, LockTypes
<1>6. Releases(s, {Live})
  BY <1>0, <1>2, <1>3, <1>4, <1>5 DEF Releases
<1> QED BY <1>6, ReleaseStep

\* The end of a bulk load closes its handle (__wt_bulk_end).
LEMMA BulkCloseStep ==
  ASSUME Locking, NEW s \in Sessions, BulkClose(s)
  PROVE  Locking'
<1> LockInv
  BY DEF Locking
<1>0. /\ SessionOK(s) /\ call[s].pc = "endbulk" /\ h' = Released(Closed(h, Live), Live)
      /\ UNCHANGED <<cache, schema, metalock>> /\ h \in [Handles -> States] /\ Live \in Handles
      /\ Live \in cursor[s] /\ h[Live].special = "bulk" /\ call' = [call EXCEPT ![s] = Idle]
  BY DEF LockInv, LockTypes, At, BulkClose, Handles, SessionOK
<1>1. h[Live].writer = s
  BY <1>0 DEF SessionOK
<1>2. ASSUME NEW r \in Sessions \ {s} PROVE ~Uses(r, Live)
  <2>1. SessionOK(r)
    BY DEF LockInv
  <2> QED BY <1>0, <1>1, <2>1, SessionsAssumption DEF SessionOK, Uses
<1>3. /\ h' \in [Handles -> States] /\ \A m \in Handles \ {Live} : h'[m] = h[m]
      /\ \A m \in Handles : h'[m].listed = h[m].listed /\ h'[m].refcnt = h[m].refcnt
      /\ h'[Live].writer = None /\ h'[Live].special = "none" /\ ~h'[Live].open
  <2> DEFINE k == Released(Closed(h, Live), Live)
  <2>1. /\ k \in [Handles -> States] /\ \A m \in Handles \ {Live} : k[m] = h[m]
        /\ k[Live].listed = h[Live].listed /\ k[Live].refcnt = h[Live].refcnt
        /\ k[Live].writer = None /\ k[Live].special = "none" /\ ~k[Live].open
    BY SMTT(20), <1>0, ShutHandle
  <2>2. h' = k
    BY <1>0
  <2> HIDE DEF k
  <2> QED BY <2>1, <2>2
<1>4. \A m \in Handles : /\ h[m].listed \/ h'[m].open \/ h'[m].writer # None => h'[m].listed
                         /\ h'[m].refcnt >= h[m].refcnt
  BY SMTT(20), <1>3 DEF LockInv, LockTypes, States, HandleOK
<1>5. /\ Passes(s, schema, schema') /\ Passes(s, metalock, metalock')
      /\ cursor' \in [Sessions -> SUBSET Handles] /\ \A r \in Sessions \ {s} : cursor'[r] = cursor[r]
      /\ cursor'[s] \subseteq cursor[s] \ {Live}
  BY <1>0 DEF BulkClose, Passes, LockInv, LockTypes
<1>6. Releases(s, {Live})
  BY <1>0, <1>2, <1>3, <1>4, <1>5 DEF Releases
<1> QED BY <1>6, ReleaseStep

\* Creating a file opens its handle (__create_file).
LEMMA CreateFileStep ==
  ASSUME Locking, NEW s \in Sessions, CreateFile(s)
  PROVE  Locking'
<1> LockInv
  BY DEF Locking
<1>0. /\ SessionOK(s) /\ call[s].pc = "create" /\ Return(s) /\ UNCHANGED <<cache, cursor>> /\ Live \in Handles
      /\ h \in [Handles -> States]
  BY DEF LockInv, LockTypes, At, CreateFile, Handles
<1>1. CASE h' = h
  BY <1>0, <1>1, ReturnStep DEF At
<1>2. CASE /\ Unlocked(Live)
           /\ h' = [h EXCEPT ![Live] = [@ EXCEPT !.listed = TRUE, !.refcnt = h[Live].refcnt + 1, !.open = TRUE,
                                                 !.addr = Fake]]
  <2>1. h[Live].writer = None /\ h[Live].special = "none" /\ \A r \in Sessions : ~Uses(r, Live)
    BY <1>0, <1>2, UnlockedUnused
  <2>2. /\ h' \in [Handles -> States] /\ \A m \in Handles \ {Live} : h'[m] = h[m]
        /\ h'[Live].listed /\ h'[Live].refcnt = h[Live].refcnt + 1
        /\ h'[Live].writer = None /\ h'[Live].special = "none" /\ h'[Live].open
    <3> DEFINE k == h[Live].refcnt + 1
               x == [h[Live] EXCEPT !.listed = TRUE, !.refcnt = k, !.open = TRUE, !.addr = Fake]
    <3>1. h[Live] \in States /\ Fake \in Addrs /\ k \in Nat
      BY SMTT(20), <1>0 DEF Addrs, States
    <3>2. h' = [h EXCEPT ![Live] = x]
      BY <1>2
    <3> HIDE DEF k
    <3>3. /\ x \in States /\ x.listed /\ x.open /\ x.refcnt = k /\ x.writer = h[Live].writer
          /\ x.special = h[Live].special
      BY <3>1 DEF States
    <3> HIDE DEF x
    <3> QED BY <1>0, <2>1, <3>2, <3>3 DEF k
  <2>3. \A m \in Handles : /\ h[m].listed \/ h'[m].open \/ h'[m].writer # None => h'[m].listed
                           /\ h'[m].refcnt >= h[m].refcnt
    BY SMTT(20), <2>2 DEF LockInv, LockTypes, States, HandleOK
  <2>4. /\ call' = [call EXCEPT ![s] = Idle] /\ Passes(s, schema, schema') /\ Passes(s, metalock, metalock')
        /\ cursor' \in [Sessions -> SUBSET Handles] /\ cursor' = cursor /\ cursor'[s] \subseteq cursor[s] \ {Live}
    BY <1>0, <2>1 DEF Return, Passes, LockInv, LockTypes, Uses
  <2>5. schema = s
    BY <1>0 DEF SessionOK, Flow, UnderSchema
  <2>6. Releases(s, {Live})
    BY <1>0, <2>1, <2>2, <2>3, <2>4, <2>5 DEF Releases
  <2> QED BY <2>6, ReleaseStep
<1> QED BY <1>1, <1>2 DEF CreateFile

\* Discarding a handle of the session's cache (__wt_conn_btree_close).
LEMMA DiscardBtreeStep ==
  ASSUME Locking, NEW s \in Sessions, DiscardBtree(s)
  PROVE  Locking'
<1> LockInv
  BY DEF Locking
<1>0. /\ SessionOK(s) /\ call[s] \in Calls /\ call[s].pc = "discard" /\ UNCHANGED <<cursor, schema, metalock, call>>
      /\ h \in [Handles -> States] /\ \A m \in Handles : HandleOK(m)
  BY DEF LockInv, LockTypes, At, DiscardBtree
<1>1. call[s].op = "close" /\ schema = s /\ cursor[s] = {} /\ Locks(call[s]) = {} /\ ~InCkpt(call[s]) /\ ~call[s].held
  <2>1. call[s].op = "close"
    BY <1>0 DEF SessionOK, Flow
  <2> QED BY <1>0, <2>1 DEF SessionOK, Flow, UnderSchema, InCkpt, Locks
<1>2. PICK n \in cache[s] :
        /\ cache' = [cache EXCEPT ![s] = @ \ {n}]
        /\ \/ h' = [h EXCEPT ![n].refcnt = @ - 1]
           \/ Unlocked(n) /\ ~(h[n].refcnt > 1) /\ h' = [Closed(h, n) EXCEPT ![n].refcnt = 0]
  BY DEF DiscardBtree
<1>3. n \in Handles /\ n \in cache[s] /\ h[n].refcnt \in Nat /\ h[n].refcnt >= Cardinality(Cachers(n))
  BY <1>0 DEF LockInv, LockTypes, Counted, States
<1>4. /\ cache' \in [Sessions -> SUBSET Handles] /\ cache'[s] = cache[s] \ {n}
      /\ \A r \in Sessions \ {s} : cache'[r] = cache[r]
  BY <1>2 DEF LockInv, LockTypes
<1>5. Cardinality(Cachers(n)) \in Nat /\ Cardinality(Cachers(n)) # 0
  <2>1. IsFiniteSet(Cachers(n)) /\ s \in Cachers(n)
    BY <1>3, SessionsAssumption, FS_Subset DEF Cachers
  <2> QED BY <2>1, FS_CardinalityType, FS_EmptySet
<1>6. PICK W \in {{}, {n}} :
        /\ h' \in [Handles -> States]
        /\ h'[n].refcnt >= Cardinality(Cachers(n)) - 1
        /\ \A m \in Handles : /\ h'[m].listed = h[m].listed /\ h'[m].writer = h[m].writer
                              /\ h'[m].open => h[m].open
                              /\ m # n => h'[m] = h[m]
                              /\ m \notin W => h'[m].open = h[m].open /\ h'[m].special = h[m].special
                              /\ m \in W => h'[m].special = "none" /\ Unlocked(m)
  <2>1. CASE h' = [h EXCEPT ![n].refcnt = @ - 1]
    <3>1. /\ h' \in [Handles -> States] /\ h'[n].refcnt = h[n].refcnt - 1
          /\ \A m \in Handles : /\ h'[m].listed = h[m].listed /\ h'[m].writer = h[m].writer /\ h'[m].open = h[m].open
                                /\ h'[m].special = h[m].special /\ (m # n => h'[m] = h[m])
      BY SMTT(20), Z3T(20), <1>0, <1>3, <1>5, <2>1 DEF States
    <3> QED BY SMTT(20), Z3T(20), <1>3, <1>5, <3>1
  <2>2. CASE Unlocked(n) /\ ~(h[n].refcnt > 1) /\ h' = [Closed(h, n) EXCEPT ![n].refcnt = 0]
    <3> DEFINE k == Closed(h, n)
    <3>1. /\ k \in [Handles -> States] /\ \A m \in Handles \ {n} : k[m] = h[m]
          /\ ~k[n].open /\ k[n].special = "none" /\ k[n].listed = h[n].listed /\ k[n].writer = h[n].writer
      BY <1>0, <1>3, ClosedHandle
    <3>2. h' = [k EXCEPT ![n].refcnt = 0]
      BY <2>2
    <3> HIDE DEF k
    <3>3. /\ h' \in [Handles -> States] /\ h'[n].refcnt = 0 /\ \A m \in Handles \ {n} : h'[m] = h[m]
          /\ ~h'[n].open /\ h'[n].special = "none" /\ h'[n].listed = h[n].listed /\ h'[n].writer = h[n].writer
      BY <1>3, <3>1, <3>2 DEF States
    <3>4. h'[n].refcnt >= Cardinality(Cachers(n)) - 1
      BY SMTT(20), <1>3, <1>5, <2>2, <3>3
    <3> QED BY <1>3, <2>2, <3>3, <3>4
  <2> QED BY <1>2, <2>1, <2>2
<1>7. Alone(s) /\ Typed' /\ call' = [call EXCEPT ![s] = call[s]]
  BY <1>0, <1>4, <1>6 DEF Alone, Passes, LockInv, LockTypes, Typed
<1>8. Counted'
  <2>1. ASSUME NEW m \in Handles PROVE h'[m].refcnt >= Cardinality(Cachers(m)')
    <3>1. h[m].refcnt >= Cardinality(Cachers(m))
      BY DEF LockInv, Counted
    <3>2. CASE m = n
      <4>1. Cardinality(Cachers(n)') = Cardinality(Cachers(n)) - 1
        BY <1>3, <1>4, <1>7, CachersCount
      <4> QED BY <1>6, <3>2, <4>1
    <3>3. CASE m # n
      <4>1. Cachers(m)' = Cachers(m)
        BY <1>4, <1>7, <3>3, CachersCount
      <4> QED BY <1>6, <3>1, <3>3, <4>1
    <3> QED BY <3>2, <3>3
  <2>2. call'[s].pc = "discard"
    BY <1>0
  <2> QED BY <1>1, <1>7, <2>1, <2>2, CountedStep
<1>9. \A m \in W : m \in Handles /\ \A r \in Sessions \ {s} : ~Uses(r, m)
  BY <1>3, <1>6, UnlockedUnused
<1>10. Owns(s, call[s], W)
  <2>1. cursor'[s] \subseteq (cursor[s] \ W) \intersect cache'[s] /\ \A m \in cache'[s] : h'[m].listed
    BY <1>0, <1>1, <1>4, <1>6 DEF SessionOK, LockInv, LockTypes
  <2>2. \A m \in Handles : h[m].listed \/ h'[m].open \/ h'[m].writer # None => h'[m].listed
    BY <1>0, <1>6 DEF HandleOK
  <2>3. Flow(call[s])
    BY <1>0 DEF SessionOK
  <2> QED BY <1>0, <1>1, <1>6, <1>7, <1>8, <1>9, <2>1, <2>2, <2>3 DEF Owns
<1> QED BY <1>10, OwnStep

\* Closing a cursor releases its handle, unless it was bulk-loading (__wt_cursor_close).
LEMMA CloseCursorStep ==
  ASSUME Locking, NEW s \in Sessions, CloseCursor(s)
  PROVE  Locking'
<1> LockInv
  BY DEF Locking
<1>0. /\ SessionOK(s) /\ call[s] \in Calls /\ call[s].pc = "idle" /\ UNCHANGED <<h, cache, schema, metalock>>
      /\ \A m \in Handles : HandleOK(m)
  BY DEF LockInv, LockTypes, At, CloseCursor
<1>1. call[s].op = "none" /\ ~call[s].held /\ call[s].trk = {} /\ call[s].want = Live
  BY <1>0 DEF SessionOK, Flow
<1>2. PICK n \in cursor[s] :
        \/ cursor' = [cursor EXCEPT ![s] = @ \ {n}] /\ UNCHANGED call
        \/ /\ h[n].special # "none" /\ call' = [call EXCEPT ![s].op = "endbulk", ![s].pc = "endbulk"]
           /\ UNCHANGED cursor
  BY DEF CloseCursor
<1>3. CASE cursor' = [cursor EXCEPT ![s] = @ \ {n}] /\ UNCHANGED call
  <2>1. /\ cursor' \in [Sessions -> SUBSET Handles] /\ cursor'[s] = cursor[s] \ {n}
        /\ \A r \in Sessions \ {s} : cursor'[r] = cursor[r]
    BY <1>3 DEF LockInv, LockTypes
  <2>2. Alone(s) /\ Typed' /\ call' = [call EXCEPT ![s] = call[s]]
    BY <1>0, <1>3, <2>1 DEF Alone, Passes, LockInv, LockTypes, Typed
  <2>3. Counted'
    BY <1>0, <1>3, <2>2, SameCount
  <2>4. Flow(call[s]) /\ ~UnderSchema(call[s]) /\ ~InCkpt(call[s]) /\ Locks(call[s]) = {}
    BY <1>0, <1>1 DEF SessionOK, UnderSchema, InCkpt, Locks
  <2>5. cursor'[s] \subseteq cursor[s] \intersect cache'[s] /\ \A m \in cache'[s] : h'[m].listed
    BY <1>0, <2>1 DEF SessionOK
  <2>6. \A m \in Handles : h[m].listed \/ h'[m].open \/ h'[m].writer # None => h'[m].listed
    BY <1>0 DEF HandleOK
  <2>7. Owns(s, call[s], {})
    BY <1>0, <1>1, <2>2, <2>3, <2>4, <2>5, <2>6 DEF Owns
  <2> QED BY <2>7, OwnStep
<1>4. CASE /\ h[n].special # "none" /\ call' = [call EXCEPT ![s].op = "endbulk", ![s].pc = "endbulk"]
           /\ UNCHANGED cursor
  <2>1. n \in Handles /\ h[n].writer = s /\ h[n].special \in {"bulk", "verify"}
    BY <1>0, <1>4 DEF SessionOK, LockInv, LockTypes, States
  <2>2. n = Live /\ h[n].special = "bulk"
    BY <1>0, <1>4, <2>1 DEF HandleOK, At
  <2> DEFINE c == [call[s] EXCEPT !.op = "endbulk", !.pc = "endbulk"]
  <2>3. call' = [call EXCEPT ![s] = c]
    BY <1>4
  <2>4. "endbulk" \in PCs /\ "endbulk" \in Ops
    BY DEF PCs, Ops
  <2>5. /\ c \in Calls /\ c.pc = "endbulk" /\ c.op = "endbulk" /\ c.want = call[s].want /\ c.held = call[s].held
        /\ c.trk = call[s].trk
    BY <1>0, <2>4 DEF Calls
  <2> HIDE DEF c
  <2>6. Flow(c) /\ ~UnderSchema(c) /\ ~InCkpt(c) /\ Locks(c) = {}
    BY <1>1, <2>5 DEF Flow, UnderSchema, InCkpt, Locks
  <2>7. Quiet(s, c)
    BY <1>0, <1>1, <1>2, <1>4, <2>2, <2>3, <2>5, <2>6 DEF Quiet, Passes
  <2> QED BY <2>7, QuietStep
<1> QED BY <1>2, <1>3, <1>4

\* Closing the handle n of a file that is dropped; other handles of W, which
\* nobody has locked, are closed with the live tree's.
Shuts(s, n, W) ==
  /\ n \in W /\ W \subseteq Handles /\ \A m \in W \ {Live} : Unlocked(m)
  /\ call' = [call EXCEPT ![s].todo = @ \union {n}, ![s].trk = @ \union {n, Live}]
  /\ h' \in [Handles -> States]
  /\ \A m \in Handles : /\ h[m].listed \/ h'[m].open \/ h'[m].writer # None => h'[m].listed
                        /\ m \notin W => h'[m] = h[m]
                        /\ m \in W => h'[m].special = "none" /\ h'[m].listed
                        /\ h'[m].refcnt >= Cardinality(Cachers(m)')
  /\ h'[n].writer = s /\ h'[Live].writer = s
  /\ cache' \in [Sessions -> SUBSET Handles] /\ \A r \in Sessions \ {s} : cache'[r] = cache[r]
  /\ cache[s] \subseteq cache'[s] /\ cache'[s] \subseteq cache[s] \union W

\* Such a step keeps the invariant.
LEMMA ShutStep ==
  ASSUME Locking, NEW s \in Sessions, At(s, "closeall"), NEW n, NEW W, Shuts(s, n, W),
         UNCHANGED <<cursor, schema, metalock>>
  PROVE  Locking'
<1> LockInv
  BY DEF Locking
<1>0. /\ SessionOK(s) /\ call[s] \in Calls /\ call[s].pc = "closeall" /\ Live \in Handles
      /\ h \in [Handles -> States]
  BY DEF LockInv, LockTypes, At, Handles
<1>1. call[s].op = "drop" /\ schema = s /\ Live \in Locks(call[s]) /\ ~call[s].held
  <2>1. call[s].op = "drop" /\ ~call[s].held
    BY <1>0 DEF SessionOK, Flow
  <2> QED BY <1>0, <2>1 DEF SessionOK, UnderSchema, Locks
<1>2. /\ Locks(call[s]) = {Live} \union call[s].trk /\ Locks(call[s]) \subseteq Handles
      /\ \A m \in Locks(call[s]) : h[m].writer = s /\ h[m].special = "none" /\ \A r \in Sessions : m \notin cursor[r]
  BY <1>0, <1>1 DEF Locks, Calls, SessionOK, At
<1>3. n \in Handles /\ \A m \in W : m \in Handles /\ (\A r \in Sessions : m \notin cursor[r]) /\ (\A r \in Sessions \ {s} : ~Uses(r, m))
  <2>1. n \in Handles /\ W \subseteq Handles /\ \A m \in W \ {Live} : Unlocked(m)
    BY DEF Shuts
  <2>2. \A m \in W \ {Live} : \A r \in Sessions : ~Uses(r, m)
    BY <2>1, UnlockedUnused
  <2>3. \A r \in Sessions \ {s} : ~Uses(r, Live)
    BY <1>1, LockedAlone
  <2> QED BY <1>1, <1>2, <2>1, <2>2, <2>3 DEF Uses
<1> DEFINE c == [call[s] EXCEPT !.todo = @ \union {n}, !.trk = @ \union {n, Live}]
<1>4. call' = [call EXCEPT ![s] = c]
  BY DEF Shuts
<1>5. /\ c \in Calls /\ c.pc = call[s].pc /\ c.op = call[s].op /\ c.want = call[s].want /\ c.name = call[s].name
      /\ c.held = call[s].held /\ c.trk = call[s].trk \union {n, Live}
  <2>1. {n, Live} \subseteq Handles
    BY <1>0, <1>3
  <2> QED BY <1>0, <2>1 DEF Calls
<1> HIDE DEF c
<1>6. Flow(c) /\ Locks(c) = Locks(call[s]) \union {n}
  BY <1>0, <1>1, <1>2, <1>5 DEF SessionOK, Flow, Locks
<1>7. Alone(s) /\ Typed' /\ call'[s] = c
  <2>1. call' \in [Sessions -> Calls] /\ call'[s] = c /\ \A r \in Sessions \ {s} : call'[r] = call[r]
    BY <1>4, <1>5 DEF LockInv, LockTypes, Typed
  <2> QED BY <2>1 DEF Shuts, Alone, Passes, LockInv, LockTypes, Typed
<1>8. Counted'
  BY <1>0, <1>1, <1>5, <1>7, CountedStep DEF Shuts
<1>9. cursor'[s] \subseteq (cursor[s] \ W) \intersect cache'[s] /\ \A m \in cache'[s] : h'[m].listed
  <2>1. cursor'[s] \subseteq (cursor[s] \ W) \intersect cache'[s]
    BY <1>0, <1>3 DEF SessionOK, Shuts
  <2>2. \A m \in cache[s] : m \in Handles /\ h[m].listed
    BY <1>0 DEF SessionOK, LockInv, LockTypes
  <2> QED BY <2>1, <2>2 DEF Shuts
<1>10. \A m \in Locks(c) : h'[m].writer = s /\ h'[m].special = "none" /\ \A r \in Sessions : m \notin cursor'[r]
  <2>1. ASSUME NEW m \in Locks(c) PROVE h'[m].writer = s
    <3>1. CASE m \in {n, Live}
      BY <3>1 DEF Shuts
    <3>2. CASE m \notin {n, Live}
      <4>1. m \in Locks(call[s]) /\ m \in Handles /\ m \notin W
        BY SMTT(20), Z3T(20), <1>2, <1>6, <3>2, UnlockedUnused, SessionsAssumption DEF Shuts
      <4> QED BY <1>2, <4>1 DEF Shuts
    <3> QED BY <3>1, <3>2
  <2>2. ASSUME NEW m \in Locks(c) PROVE h'[m].special = "none" /\ \A r \in Sessions : m \notin cursor'[r]
    <3>1. m \in Handles
      BY <1>2, <1>3, <1>6
    <3>2. CASE m \in W
      BY <1>3, <3>1, <3>2 DEF Shuts
    <3>3. CASE m \notin W
      <4>1. m \in Locks(call[s])
        BY <1>6, <3>3 DEF Shuts
      <4> QED BY <1>2, <3>1, <3>3, <4>1 DEF Shuts
    <3> QED BY <3>2, <3>3
  <2> QED BY <2>1, <2>2
<1>11. Owns(s, c, W)
  <2>1. c.op = "drop" /\ c.pc = "closeall" /\ ~c.held /\ ~InCkpt(c)
    BY <1>0, <1>1, <1>5 DEF InCkpt
  <2>2. \A m \in Handles : /\ h[m].listed \/ h'[m].open \/ h'[m].writer # None => h'[m].listed
                           /\ m \notin W => /\ h'[m].writer = h[m].writer /\ h'[m].open = h[m].open
                                            /\ h'[m].special = h[m].special
                           /\ m \in W => h'[m].special = "none" /\ \A r \in Sessions \ {s} : ~Uses(r, m)
    BY <1>3 DEF Shuts
  <2> QED BY <1>0, <1>1, <1>4, <1>5, <1>6, <1>7, <1>8, <1>9, <1>10, <2>1, <2>2 DEF Owns
<1> QED BY <1>11, OwnStep

\* Closing the handles of a file one by one (__wt_conn_btree_close_all).
LEMMA CloseOneStep ==
  ASSUME Locking, MetaTypes, NEW s \in Sessions, CloseOne(s)
  PROVE  Locking'
<1> LockInv
  BY DEF Locking
<1>0. /\ SessionOK(s) /\ call[s] \in Calls /\ call[s].pc = "closeall" /\ UNCHANGED <<cursor, schema, metalock>>
      /\ h \in [Handles -> States] /\ (\A m \in Handles : HandleOK(m)) /\ s # None /\ Live \in Handles
  BY SessionsAssumption DEF LockInv, LockTypes, At, CloseOne, Handles
<1>1. call[s].op = "drop" /\ schema = s /\ Live \in Locks(call[s]) /\ ~call[s].held
  <2>1. call[s].op = "drop" /\ ~call[s].held
    BY <1>0 DEF SessionOK, Flow
  <2> QED BY <1>0, <2>1 DEF SessionOK, UnderSchema, Locks
<1>2. /\ Locks(call[s]) = {Live} \union call[s].trk /\ Locks(call[s]) \subseteq Handles
      /\ \A m \in Locks(call[s]) : h[m].writer = s /\ h[m].special = "none" /\ \A r \in Sessions : m \notin cursor[r]
  BY <1>0, <1>1 DEF Locks, Calls, SessionOK, At
<1>3. PICK n \in Handles :
        /\ h[n].listed
        /\ \/ /\ n # Live
              /\ call' = [call EXCEPT ![s].failed = TRUE, ![s].pc = "off", ![s].trk = @ \union {Live}]
              /\ UNCHANGED <<h, cache>>
           \/ /\ n # Live /\ Unlocked(n)
              /\ h' = [Closed(h, n) EXCEPT ![n].writer = s]
              /\ call' = [call EXCEPT ![s].todo = @ \union {n}, ![s].trk = @ \union {n, Live}]
              /\ UNCHANGED cache
           \/ /\ n = Live
              /\ LET old == IF h[Live].open /\ live.modified THEN CanDelete(s) ELSE {}
                 IN /\ h' = [m \in Handles |->
                               IF m = Live THEN Closed(h, Live)[Live]
                               ELSE IF m \in old THEN Unlock(LockedHandle(s, m), {m})[m] ELSE h[m]]
                    /\ cache' = [cache EXCEPT ![s] = @ \union old]
              /\ call' = [call EXCEPT ![s].todo = @ \union {n}, ![s].trk = @ \union {n}]
  BY DEF CloseOne
<1>4. CASE /\ call' = [call EXCEPT ![s].failed = TRUE, ![s].pc = "off", ![s].trk = @ \union {Live}]
           /\ UNCHANGED <<h, cache>>
  <2> DEFINE c == [call[s] EXCEPT !.failed = TRUE, !.pc = "off", !.trk = @ \union {Live}]
  <2>1. call' = [call EXCEPT ![s] = c]
    BY <1>4
  <2>2. "off" \in PCs
    BY DEF PCs
  <2>3. /\ c \in Calls /\ c.pc = "off" /\ c.op = call[s].op /\ c.want = call[s].want /\ c.name = call[s].name
        /\ c.held = call[s].held /\ c.trk = call[s].trk \union {Live}
    BY <1>0, <2>2 DEF Calls
  <2> HIDE DEF c
  <2> QED BY <1>0, <1>2, <1>4, <2>1, <2>3, OnwardStep
<1>5. CASE /\ n # Live /\ Unlocked(n) /\ h' = [Closed(h, n) EXCEPT ![n].writer = s]
           /\ call' = [call EXCEPT ![s].todo = @ \union {n}, ![s].trk = @ \union {n, Live}] /\ UNCHANGED cache
  <2> DEFINE k == Closed(h, n)
  <2>1. /\ k \in [Handles -> States] /\ \A m \in Handles \ {n} : k[m] = h[m]
        /\ ~k[n].open /\ k[n].special = "none" /\ k[n].listed = h[n].listed /\ k[n].refcnt = h[n].refcnt
    BY <1>0, ClosedHandle
  <2>2. h' = [k EXCEPT ![n].writer = s]
    BY <1>5
  <2> HIDE DEF k
  <2>3. /\ h' \in [Handles -> States] /\ \A m \in Handles \ {n} : h'[m] = h[m]
        /\ h'[n].special = "none" /\ h'[n].listed /\ h'[n].refcnt = h[n].refcnt /\ h'[n].writer = s
    <3>1. k[n] \in States /\ s \in Sids
      BY <2>1 DEF Sids
    <3>2. h' = [k EXCEPT ![n] = [k[n] EXCEPT !.writer = s]]
      BY <2>2
    <3> QED BY <1>3, <2>1, <3>1, <3>2 DEF States
  <2>4. \A m \in Handles : h'[m].refcnt >= Cardinality(Cachers(m)')
    BY <1>5, <2>3 DEF Cachers, LockInv, Counted
  <2>5. Shuts(s, n, {n})
    <3>1. h'[Live].writer = s
      BY <1>0, <1>1, <1>2, <1>5, <2>3
    <3>2. \A m \in Handles : h[m].listed \/ h'[m].open \/ h'[m].writer # None => h'[m].listed
      BY <1>0, <2>3 DEF HandleOK
    <3> QED BY <1>5, <2>3, <2>4, <3>1, <3>2 DEF Shuts, LockInv, LockTypes
  <2> QED BY <1>0, <2>5, ShutStep DEF At
<1>6. CASE /\ n = Live
           /\ LET old == IF h[Live].open /\ live.modified THEN CanDelete(s) ELSE {}
              IN /\ h' = [m \in Handles |->
                            IF m = Live THEN Closed(h, Live)[Live]
                            ELSE IF m \in old THEN Unlock(LockedHandle(s, m), {m})[m] ELSE h[m]]
                 /\ cache' = [cache EXCEPT ![s] = @ \union old]
           /\ call' = [call EXCEPT ![s].todo = @ \union {n}, ![s].trk = @ \union {n}]
  <2> DEFINE old == IF h[Live].open /\ live.modified THEN CanDelete(s) ELSE {}
             W == {Live} \union old
  <2>1. old \subseteq Handles \ {Live} /\ \A m \in old : Unlocked(m)
    <3>1. Internals \subseteq Handles \ {Live}
      BY DEF Internals, NamesOf, MetaTypes, Ckpts
    <3> QED BY <3>1 DEF CanDelete
  <2>2. /\ cache' = [cache EXCEPT ![s] = @ \union old]
        /\ h' = [m \in Handles |-> IF m = Live THEN Closed(h, Live)[Live]
                                   ELSE IF m \in old THEN Unlock(LockedHandle(s, m), {m})[m] ELSE h[m]]
    BY <1>6
  <2> HIDE DEF old
  <2>3. /\ cache' \in [Sessions -> SUBSET Handles] /\ (\A r \in Sessions \ {s} : cache'[r] = cache[r])
        /\ cache'[s] = cache[s] \union old
    BY <2>1, <2>2 DEF LockInv, LockTypes
  <2>4. ASSUME NEW m \in old
        PROVE  /\ h'[m] \in States /\ h'[m].listed /\ h'[m].special = "none" /\ h'[m].writer = None /\ ~h'[m].open
               /\ h'[m].refcnt = IF m \in cache[s] THEN h[m].refcnt ELSE h[m].refcnt + 1
    <3> DEFINE k == LockedHandle(s, m)
    <3>1. m \in Handles /\ m # Live /\ h[m].special = "none"
      BY <2>1, UnlockedUnused
    <3>2. /\ k \in [Handles -> States] /\ k[m].listed /\ k[m].writer = s /\ k[m].special = h[m].special /\ k[m].discard
          /\ k[m].refcnt = IF m \in cache[s] THEN h[m].refcnt ELSE h[m].refcnt + 1
      BY SMTT(20), Z3T(20), <1>0, <3>1, LockedIsHandle
    <3>3. h'[m] = Unlock(k, {m})[m]
      BY <2>2, <3>1
    <3> HIDE DEF k
    <3> QED BY SMTT(20), Z3T(20), <3>1, <3>2, <3>3, UnlockHandles
  <2>5. /\ h'[Live] \in States /\ h'[Live].special = "none" /\ h'[Live].listed /\ h'[Live].refcnt = h[Live].refcnt
        /\ h'[Live].writer = s
    BY SMTT(20), Z3T(20), <1>0, <1>1, <1>2, <1>3, <1>6, <2>2, ClosedHandle
  <2>6. \A m \in Handles \ W : h'[m] = h[m]
    BY <2>2
  <2>7. h' \in [Handles -> States]
    <3>1. \A m \in Handles : h'[m] \in States
      BY <1>0, <2>4, <2>5, <2>6
    <3> QED BY <2>2, <3>1
  <2>8. ASSUME NEW m \in Handles PROVE h'[m].refcnt >= Cardinality(Cachers(m)')
    <3>1. h[m].refcnt >= Cardinality(Cachers(m)) /\ h[m].refcnt \in Nat
      BY <1>0 DEF LockInv, Counted, States
    <3>2. IsFiniteSet(Cachers(m)) /\ Cardinality(Cachers(m)) \in Nat
      BY SessionsAssumption, FS_Subset, FS_CardinalityType DEF Cachers
    <3>3. CASE m \in old /\ m \notin cache[s]
      <4>1. Cachers(m)' = Cachers(m) \union {s} /\ s \notin Cachers(m)
        BY <2>3, <3>3 DEF Cachers
      <4>2. Cardinality(Cachers(m)') = Cardinality(Cachers(m)) + 1
        BY <3>2, <4>1, FS_AddElement
      <4> QED BY SMTT(20), Z3T(20), <2>4, <3>1, <3>2, <3>3, <4>2
    <3>4. CASE ~(m \in old /\ m \notin cache[s])
      <4>1. Cachers(m)' = Cachers(m)
        BY <2>3, <3>4 DEF Cachers
      <4>2. h'[m].refcnt = h[m].refcnt
        BY <2>4, <2>5, <2>6, <3>4
      <4> QED BY <3>1, <4>1, <4>2
    <3> QED BY <3>3, <3>4
  <2>9. Shuts(s, n, W)
    <3>1. call' = [call EXCEPT ![s].todo = @ \union {n}, ![s].trk = @ \union {n, Live}]
      <4>1. {n, Live} = {n}
        BY <1>6
      <4> QED BY <1>6, <4>1
    <3>2. \A m \in Handles : h[m].listed \/ h'[m].open \/ h'[m].writer # None => h'[m].listed
      BY <1>0, <2>4, <2>5, <2>6 DEF HandleOK
    <3>3. \A m \in W : h'[m].special = "none" /\ h'[m].listed
      BY <2>4, <2>5
    <3>4. n \in W /\ W \subseteq Handles /\ \A m \in W \ {Live} : Unlocked(m)
      BY <1>0, <1>6, <2>1
    <3>5. cache[s] \subseteq cache'[s] /\ cache'[s] \subseteq cache[s] \union W
      BY <2>3
    <3> HIDE DEF W
    <3> QED BY <1>6, <2>3, <2>5, <2>6, <2>7, <2>8, <3>1, <3>2, <3>3, <3>4, <3>5 DEF Shuts
  <2> QED BY <1>0, <2>9, ShutStep DEF At
<1> QED BY <1>3, <1>4, <1>5, <1>6

\* The actions of the locks: what the other components of the state do is not
\* needed, but for the type of the checkpoints' list.
LEMMA LockNext ==
  ASSUME Locking, MetaTypes, Next
  PROVE  Locking'
<1> LockInv
  BY DEF Locking
<1>1. ASSUME NEW s \in Sessions, Application(s) \/ Working(s) \/ CkptFails(s) PROVE Locking'
  <2>1. CASE Application(s)
    BY <2>1, ApplicationStep
  <2>2. CASE \/ LastName(s) \/ SessionLock(s) \/ ReadLock(s) \/ FindHandle(s) \/ OpenLock(s) \/ Reopen(s)
             \/ OpenGone(s) \/ OpenFails(s) \/ OpenHandle(s) \/ SchemaLock(s) \/ MetaLock(s)
    BY <2>2, LastNameStep, SessionLockStep, ReadLockStep, FindHandleStep, OpenLockStep,
         ReopenStep, OpenFailsStep, OpenHandleStep, SchemaLockStep, MetaLockStep
  <2>3. CASE \/ ListCkpts(s) \/ LockCkpt(s) \/ FakeCkpt(s) \/ ClearModified(s) \/ FlushCkpt(s) \/ TrackOff(s)
             \/ CloseOne(s) \/ DropFile(s) \/ CkptFails(s)
    BY <2>3, ListCkptsStep, LockCkptStep, WriteSteps, TrackOffStep, CloseOneStep, CkptFailsStep
  <2>4. CASE VerifyDone(s) \/ CreateFile(s) \/ DiscardBtree(s) \/ CloseCursor(s) \/ BulkClose(s)
    BY <2>4, VerifyDoneStep, CreateFileStep, DiscardBtreeStep, CloseCursorStep, BulkCloseStep
  <2>5. CASE CloseDone(s) \/ BackupStart(s)
    BY <2>5, ReturnStep DEF CloseDone, BackupStart, At
  <2> QED BY <1>1, <2>1, <2>2, <2>3, <2>4, <2>5 DEF Working
<1>2. CASE BackupStop
  BY <1>2, ElsewhereStep DEF BackupStop
<1> QED BY <1>1, <1>2 DEF Next
=============================================================================

---------------------------- MODULE HandleFacts -----------------------------
(***************************************************************************)
(* Proofs about Handles, for any finite set of sessions, any names of      *)
(* checkpoints and any files to start from.  Here: facts about lists of    *)
(* checkpoints, calls and handles; and what a step must leave alone, or    *)
(* change alone, to keep MetaInv: which checkpoints the file has, and      *)
(* which of them its handles, a backup and a checkpoint that is undone     *)
(* rely on.                                                                *)
(***************************************************************************)
EXTENDS Handles, FiniteSetTheorems, WellFoundedInduction, TLAPS

\* The prover of a leaf that names no other.
USE ZenonT(60)

\* The invariants under the names that the statements below use: a proof that
\* opens LockInv then does not open it in the statement of every other lemma.
Locking == LockInv
Listing == MetaInv
Typed == LockTypes

-----------------------------------------------------------------------------
(* The lists of checkpoints *)

\* The order of the natural numbers, as a relation.
Less == {p \in Nat \X Nat : p[1] < p[2]}

\* Every set of natural numbers that is not empty has a least element.
LEMMA LeastOf ==
  ASSUME NEW T \in SUBSET Nat, T # {}
  PROVE  \E x \in T : \A y \in T : x <= y
<1>1. IsWellFoundedOn(Less, Nat)
  BY NatLessThanWellFounded DEF Less, OpToRel
<1>2. PICK x \in T : \A y \in T : ~ (<<y, x>> \in Less)
  BY <1>1, WFMin
<1>3. ASSUME NEW y \in T PROVE x <= y
  <2>1. ~ (<<y, x>> \in Less) /\ y \in Nat /\ x \in Nat
    BY <1>2
  <2>2. ~ (y < x)
    BY <2>1 DEF Less
  <2> QED BY SMTT(20), <2>1, <2>2
<1> QED BY <1>3

\* The orders of a list of checkpoints have a greatest one.
LEMMA GreatestOf ==
  ASSUME NEW S \in SUBSET (1 .. MaxOrder), S # {}
  PROVE  \E m \in S : \A x \in S : x <= m
<1> DEFINE U == {u \in Nat : \A x \in S : x <= u}
<1>1. MaxOrder \in Nat /\ U \in SUBSET Nat /\ MaxOrder \in U
  BY SMTT(20), NamesAssumption
<1>2. PICK m \in U : \A y \in U : m <= y
  BY <1>1, LeastOf
<1>3. m \in S
  <2>1. SUFFICES ASSUME m \notin S PROVE FALSE
    OBVIOUS
  <2>2. \A x \in S : x < m /\ x \in Nat
    BY SMTT(20), <2>1, <1>1
  <2>3. m # 0
    <3>1. PICK x : x \in S
      OBVIOUS
    <3> QED BY SMTT(20), <2>2, <3>1
  <2>4. m - 1 \in U
    BY SMTT(20), <2>2, <2>3
  <2> QED BY SMTT(20), <2>4, <1>2, <1>1
<1> QED BY <1>3

\* MaxOf is the last order of a list of checkpoints, or 0.
LEMMA MaxOfIsGreatest ==
  ASSUME NEW S \in SUBSET (1 .. MaxOrder)
  PROVE  MaxOf(S) \in 0 .. MaxOrder /\ \A x \in S : x <= MaxOf(S)
<1>1. CASE S = {}
  BY SMTT(20), <1>1, NamesAssumption DEF MaxOf
<1>2. CASE S # {}
  <2>1. MaxOf(S) \in S /\ \A x \in S : x <= MaxOf(S)
    BY <1>2, GreatestOf DEF MaxOf
  <2>2. MaxOf(S) \in 1 .. MaxOrder
    BY <2>1
  <2> QED BY SMTT(20), <2>1, <2>2
<1> QED BY <1>1, <1>2

\* Latest is the checkpoint with the last order.
LEMMA LatestIsIn ==
  ASSUME NEW cs \in SUBSET Ckpts, cs # {}
  PROVE  Latest(cs) \in cs /\ \A d \in cs : d.order <= Latest(cs).order
<1>1. Orders(cs) \in SUBSET (1 .. MaxOrder) /\ Orders(cs) # {}
  BY DEF Orders, Ckpts
<1>2. PICK m \in Orders(cs) : \A x \in Orders(cs) : x <= m
  BY <1>1, GreatestOf
<1>3. PICK c \in cs : c.order = m
  BY <1>2 DEF Orders
<1>4. \A d \in cs : d.order <= c.order
  BY <1>2, <1>3 DEF Orders
<1> QED BY <1>4 DEF Latest

\* A new checkpoint has an order and a name of its own type.
LEMMA SavedIsList ==
  ASSUME NEW cs \in SUBSET Ckpts, NEW marked, NEW name \in Names \union {Internal(0)}, NEW addr \in Addrs,
         MaxOf(Orders(cs)) < MaxOrder
  PROVE  Saved(cs, marked, name, addr) \in SUBSET Ckpts
<1> DEFINE k == MaxOf(Orders(cs)) + 1
<1>1. Orders(cs) \in SUBSET (1 .. MaxOrder)
  BY DEF Orders, Ckpts
<1>2. k \in 1 .. MaxOrder
  BY SMTT(20), <1>1, MaxOfIsGreatest, NamesAssumption
<1>3. Internal(k) \in Handles \ {Live}
  BY <1>2 DEF Handles, Internal, Live
<1>4. IsInternal(name) \/ name \in Handles \ {Live}
  BY SMTT(20), NamesAssumption DEF Handles, IsInternal, Internal
<1> HIDE DEF k
<1> QED BY SMTT(20), <1>2, <1>3, <1>4 DEF Saved, Ckpts, k

-----------------------------------------------------------------------------
(* The steps *)

\* The record of a session that is in no call.
LEMMA IdleIsCall ==
  /\ Idle \in Calls /\ Flow(Idle) /\ Locks(Idle) = {}
  /\ ~UnderSchema(Idle) /\ ~InCkpt(Idle) /\ ~Idle.held /\ Idle.op = "none" /\ Idle.pc = "idle"
BY DEF Idle, Calls, Ops, PCs, Handles, Ckpts, Flow, Locks, UnderSchema, InCkpt

\* A call that goes on to another step.
LEMMA JumpIsCall ==
  ASSUME Locking, NEW s \in Sessions, NEW pc \in PCs, NEW c, c = [call[s] EXCEPT !.pc = pc]
  PROVE  /\ c \in Calls /\ c.pc = pc /\ c.op = call[s].op /\ c.want = call[s].want /\ c.trk = call[s].trk
         /\ c.held = call[s].held /\ c.name = call[s].name
         /\ [call EXCEPT ![s].pc = pc] = [call EXCEPT ![s] = c]
<1> LockInv
  BY DEF Locking
<1> QED BY DEF LockInv, LockTypes, Calls

\* The checkpoints to delete are names of the file's list (__ckpt_name_ok, __drop).
LEMMA MarkedNames ==
  ASSUME NEW cs \in SUBSET Ckpts, NEW drop \in Drops \union {<<"none", Live>>}, NEW name
  PROVE  Marked(cs, drop, name) \subseteq NamesOf(cs) /\ NamesOf(cs) \subseteq Handles \ {Live}
<1>1. \A n : DropName(cs, n) \subseteq NamesOf(cs)
  BY DEF DropName
<1>2. \A n : DropFrom(cs, n) \subseteq NamesOf(cs) /\ DropTo(cs, n) \subseteq NamesOf(cs)
  BY DEF DropFrom, DropTo, NamesOf
<1>3. drop[1] \in {"from", "to", "name", "none"}
  BY SMTT(20), NamesAssumption
<1>4. NamesOf(cs) \subseteq Handles \ {Live}
  BY DEF NamesOf, Ckpts
<1> QED BY <1>1, <1>2, <1>3, <1>4 DEF Marked

\* The calls an application makes.
LEMMA BegunCall ==
  ASSUME NEW s \in Sessions, Application(s), ~Modify(s)
  PROVE  \E c \in Calls :
           /\ Begin(s, c) /\ c.trk = {} /\ c.todo = {} /\ ~c.held /\ ~c.failed
           /\ \/ c.pc = "get" /\ c.op \in {"open", "bulk"}
              \/ c.pc = "last" /\ c.op = "last"
              \/ c.pc = "start" /\ c.op \in {"verify", "drop", "create", "backup", "checkpoint", "close"}
           /\ c.op # "open" => c.want = Live
           /\ c.op = "checkpoint" => c.name # Live
           /\ c.op = "close" => cursor[s] = {}
<1>0. Live \in Handles /\ Names \subseteq Handles /\ Live # Internal(0) /\ Live \notin Names
  BY NamesAssumption DEF Handles, Live, Internal
<1>1. CASE OpenCursor(s)
  <2>p. PICK n \in {Live} \union Names : Begin(s, [Idle EXCEPT !.op = "open", !.pc = "get", !.want = n])
    BY <1>1 DEF OpenCursor
  <2> DEFINE c == [Idle EXCEPT !.op = "open", !.pc = "get", !.want = n]
  <2>1. Begin(s, c)
    BY <2>p
  <2>2. c \in Calls /\ c.trk = {} /\ c.todo = {} /\ ~c.held /\ ~c.failed /\ c.op = "open" /\ c.pc = "get"
    BY <1>0 DEF Idle, Calls, Ops, PCs, Ckpts
  <2> HIDE DEF c
  <2> QED BY <2>1, <2>2, <1>0
<1>2. CASE OpenLast(s)
  <2> DEFINE c == [Idle EXCEPT !.op = "last", !.pc = "last"]
  <2>1. Begin(s, c)
    BY <1>2 DEF OpenLast
  <2>2. c \in Calls /\ c.trk = {} /\ c.todo = {} /\ ~c.held /\ ~c.failed /\ c.op = "last" /\ c.pc = "last" /\ c.want = Live
    BY <1>0 DEF Idle, Calls, Ops, PCs, Ckpts
  <2> HIDE DEF c
  <2> QED BY <2>1, <2>2, <1>0
<1>3. CASE OpenBulk(s)
  <2> DEFINE c == [Idle EXCEPT !.op = "bulk", !.pc = "get"]
  <2>1. Begin(s, c)
    BY <1>3 DEF OpenBulk
  <2>2. c \in Calls /\ c.trk = {} /\ c.todo = {} /\ ~c.held /\ ~c.failed /\ c.op = "bulk" /\ c.pc = "get" /\ c.want = Live
    BY <1>0 DEF Idle, Calls, Ops, PCs, Ckpts
  <2> HIDE DEF c
  <2> QED BY <2>1, <2>2, <1>0
<1>4. CASE Checkpoint(s)
  <2>p. PICK n \in {Internal(0)} \union Names, d \in Drops :
          Begin(s, [Idle EXCEPT !.op = "checkpoint", !.pc = "start", !.name = n, !.drop = d])
    BY <1>4 DEF Checkpoint
  <2> DEFINE c == [Idle EXCEPT !.op = "checkpoint", !.pc = "start", !.name = n, !.drop = d]
  <2>1. Begin(s, c)
    BY <2>p
  <2>2. c \in Calls /\ c.trk = {} /\ c.todo = {} /\ ~c.held /\ ~c.failed /\ c.op = "checkpoint" /\ c.pc = "start" /\ c.want = Live /\ c.name # Live
    BY <1>0 DEF Idle, Calls, Ops, PCs, Ckpts
  <2> HIDE DEF c
  <2> QED BY <2>1, <2>2, <1>0
<1>5. CASE SchemaCall(s)
  <2>p. PICK op \in {"verify", "drop", "create", "backup"} : Begin(s, [Idle EXCEPT !.op = op, !.pc = "start"])
    BY <1>5 DEF SchemaCall
  <2> DEFINE c == [Idle EXCEPT !.op = op, !.pc = "start"]
  <2>1. Begin(s, c)
    BY <2>p
  <2>2. c \in Calls /\ c.trk = {} /\ c.todo = {} /\ ~c.held /\ ~c.failed /\ c.op = op /\ c.pc = "start" /\ c.want = Live
    BY <1>0 DEF Idle, Calls, Ops, PCs, Ckpts
  <2> HIDE DEF c
  <2> QED BY <2>1, <2>2, <1>0
<1>6. CASE CloseSession(s)
  <2> DEFINE c == [Idle EXCEPT !.op = "close", !.pc = "start"]
  <2>1. Begin(s, c) /\ cursor[s] = {}
    BY <1>6 DEF CloseSession
  <2>2. c \in Calls /\ c.trk = {} /\ c.todo = {} /\ ~c.held /\ ~c.failed /\ c.op = "close" /\ c.pc = "start" /\ c.want = Live
    BY <1>0 DEF Idle, Calls, Ops, PCs, Ckpts
  <2> HIDE DEF c
  <2> QED BY <2>1, <2>2, <1>0
<1> QED BY <1>1, <1>2, <1>3, <1>4, <1>5, <1>6 DEF Application

\* The address of a checkpoint in the metadata.
LEMMA AddrIsIn ==
  ASSUME NEW cs \in SUBSET Ckpts, NEW n \in NamesOf(cs)
  PROVE  Named(cs, n) \in cs /\ Named(cs, n).name = n /\ Named(cs, n).addr \in Addrs
<1>1. \E c \in cs : c.name = n
  BY DEF NamesOf
<1> QED BY <1>1 DEF Named, Ckpts

\* The address of the last checkpoint.
LEMMA LastAddrIsIn ==
  ASSUME NEW cs \in SUBSET Ckpts
  PROVE  LastAddr(cs) \in Addrs /\ Content(LastAddr(cs)) \in Nat
<1>1. CASE Real(cs) = {}
  BY <1>1 DEF LastAddr, Addrs, Content
<1>2. CASE Real(cs) # {}
  <2>1. Real(cs) \in SUBSET Ckpts /\ Latest(Real(cs)) \in Real(cs)
    BY <1>2, LatestIsIn DEF Real
  <2> QED BY <1>2, <2>1 DEF LastAddr, Addrs, Content, Ckpts, Real
<1> QED BY <1>1, <1>2

\* Closing a handle, and releasing its lock.
LEMMA ClosedHandle ==
  ASSUME NEW hs \in [Handles -> States], NEW n \in Handles
  PROVE  /\ Closed(hs, n) \in [Handles -> States] /\ \A m \in Handles \ {n} : Closed(hs, n)[m] = hs[m]
         /\ ~Closed(hs, n)[n].open /\ Closed(hs, n)[n].special = "none" /\ ~Closed(hs, n)[n].discard
         /\ Closed(hs, n)[n].listed = hs[n].listed /\ Closed(hs, n)[n].refcnt = hs[n].refcnt
         /\ Closed(hs, n)[n].writer = hs[n].writer /\ Closed(hs, n)[n].addr = hs[n].addr
<1> DEFINE x == [hs[n] EXCEPT !.open = FALSE, !.special = "none", !.discard = FALSE]
<1>1. Closed(hs, n) = [hs EXCEPT ![n] = x]
  BY DEF Closed
<1>2. /\ x \in States /\ ~x.open /\ x.special = "none" /\ ~x.discard /\ x.listed = hs[n].listed
      /\ x.refcnt = hs[n].refcnt /\ x.writer = hs[n].writer /\ x.addr = hs[n].addr
  BY DEF States
<1> QED BY <1>1, <1>2

\* Releasing the lock of a handle.
LEMMA ReleasedHandle ==
  ASSUME NEW hs \in [Handles -> States], NEW n \in Handles
  PROVE  /\ Released(hs, n) \in [Handles -> States] /\ \A m \in Handles \ {n} : Released(hs, n)[m] = hs[m]
         /\ Released(hs, n)[n].writer = None /\ Released(hs, n)[n].open = hs[n].open
         /\ Released(hs, n)[n].special = hs[n].special /\ Released(hs, n)[n].discard = hs[n].discard
         /\ Released(hs, n)[n].listed = hs[n].listed /\ Released(hs, n)[n].refcnt = hs[n].refcnt
         /\ Released(hs, n)[n].addr = hs[n].addr
BY DEF Released, States, Sids

\* The handle of a checkpoint that is locked to be deleted.
LEMMA LockedIsHandle ==
  ASSUME h \in [Handles -> States], NEW s \in Sessions, NEW n \in Handles, NEW k, k = LockedHandle(s, n)
  PROVE  /\ k \in [Handles -> States] /\ \A m \in Handles \ {n} : k[m] = h[m]
         /\ k[n].listed /\ k[n].writer = s /\ k[n].special = h[n].special /\ k[n].discard
         /\ k[n].open = h[n].open /\ k[n].addr = h[n].addr
         /\ k[n].refcnt = IF n \in cache[s] THEN h[n].refcnt ELSE h[n].refcnt + 1
<1> DEFINE j == IF n \in cache[s] THEN h[n].refcnt ELSE h[n].refcnt + 1
           x == [h[n] EXCEPT !.listed = TRUE, !.writer = s, !.discard = TRUE, !.refcnt = j]
<1>1. h[n] \in States /\ j \in Nat
  BY SMTT(20) DEF States
<1>2. k = [h EXCEPT ![n] = x]
  BY DEF LockedHandle
<1> HIDE DEF j
<1>3. /\ x \in States /\ x.listed /\ x.writer = s /\ x.special = h[n].special /\ x.refcnt = j /\ x.discard
      /\ x.open = h[n].open /\ x.addr = h[n].addr
  BY <1>1 DEF States, Sids
<1> HIDE DEF x
<1>4. k \in [Handles -> States] /\ (\A m \in Handles \ {n} : k[m] = h[m]) /\ k[n] = x
  BY <1>2, <1>3
<1> QED BY <1>3, <1>4 DEF j

\* Closing a handle and releasing its lock.
LEMMA ShutHandle ==
  ASSUME NEW hs \in [Handles -> States], NEW n \in Handles, NEW k, k = Released(Closed(hs, n), n)
  PROVE  /\ k \in [Handles -> States] /\ \A m \in Handles \ {n} : k[m] = hs[m]
         /\ k[n].writer = None /\ ~k[n].open /\ k[n].special = "none" /\ ~k[n].discard
         /\ k[n].listed = hs[n].listed /\ k[n].refcnt = hs[n].refcnt /\ k[n].addr = hs[n].addr
<1> DEFINE c == Closed(hs, n)
<1>1. /\ c \in [Handles -> States] /\ \A m \in Handles \ {n} : c[m] = hs[m]
      /\ ~c[n].open /\ c[n].special = "none" /\ ~c[n].discard
      /\ c[n].listed = hs[n].listed /\ c[n].refcnt = hs[n].refcnt /\ c[n].addr = hs[n].addr
  BY ClosedHandle
<1>2. k = Released(c, n)
  OBVIOUS
<1> HIDE DEF c
<1> QED BY SMTT(20), <1>1, <1>2, ReleasedHandle

\* Releasing the locks of handles, closing those that are to be discarded.
LEMMA UnlockHandles ==
  ASSUME NEW hs \in [Handles -> States], NEW ns \in SUBSET Handles
  PROVE  /\ Unlock(hs, ns) \in [Handles -> States]
         /\ \A m \in Handles \ ns : Unlock(hs, ns)[m] = hs[m]
         /\ \A m \in Handles : Unlock(hs, ns)[m].listed = hs[m].listed /\ Unlock(hs, ns)[m].refcnt = hs[m].refcnt
         /\ \A m \in ns : /\ Unlock(hs, ns)[m].writer = None
                          /\ Unlock(hs, ns)[m].special \in {"none", hs[m].special}
                          /\ (Unlock(hs, ns)[m].open <=> hs[m].open /\ ~hs[m].discard)
                          /\ Unlock(hs, ns)[m].addr = hs[m].addr
                          /\ ~Unlock(hs, ns)[m].discard
<1>1. ASSUME NEW m \in ns
      PROVE  /\ Unlock(hs, ns)[m] \in States
             /\ Unlock(hs, ns)[m].listed = hs[m].listed /\ Unlock(hs, ns)[m].refcnt = hs[m].refcnt
             /\ Unlock(hs, ns)[m].writer = None /\ Unlock(hs, ns)[m].special \in {"none", hs[m].special}
             /\ (Unlock(hs, ns)[m].open <=> hs[m].open /\ ~hs[m].discard)
             /\ Unlock(hs, ns)[m].addr = hs[m].addr
             /\ ~Unlock(hs, ns)[m].discard
  <2>0. m \in Handles /\ hs[m] \in States
    OBVIOUS
  <2>1. CASE hs[m].discard
    <3>1. Unlock(hs, ns)[m] = Released(Closed(hs, m), m)[m]
      BY <2>0, <2>1 DEF Unlock
    <3> QED BY SMTT(20), <2>0, <2>1, <3>1, ShutHandle
  <2>2. CASE ~hs[m].discard
    <3>1. Unlock(hs, ns)[m] = Released(hs, m)[m]
      BY <2>0, <2>2 DEF Unlock
    <3> QED BY SMTT(20), <2>0, <2>2, <3>1, ReleasedHandle
  <2> QED BY <2>1, <2>2
<1>2. \A m \in Handles \ ns : Unlock(hs, ns)[m] = hs[m]
  BY DEF Unlock
<1>3. \A m \in Handles : Unlock(hs, ns)[m] \in States
  BY <1>1, <1>2
<1>4. Unlock(hs, ns) \in [Handles -> States]
  BY <1>3 DEF Unlock
<1> QED BY <1>1, <1>2, <1>4

-----------------------------------------------------------------------------
(* Steps that leave the checkpoints alone                                  *)

\* A step of the session s that only gets, locks, releases or counts handles: no
\* handle is opened or closed, and one that is unlocked is not a checkpoint's.
Frame(s) ==
  /\ UNCHANGED <<file, live, backup, orphans, unsaved>>
  /\ \A r \in Sessions \ {s} : call'[r] = call[r]
  /\ \A n \in Handles : h'[n].open = h[n].open /\ h'[n].addr = h[n].addr
  /\ \A n \in Handles \ {Live} : h'[n].open /\ h'[n].writer = None => h[n].writer = None
  /\ h'[Live].special = h[Live].special /\ ~h'[Live].discard
  /\ h' = h \/ schema \in {None, s}

\* It keeps what a list of checkpoints is good for.
LEMMA FrameGood ==
  ASSUME NEW s \in Sessions, Frame(s), NEW cs, Good(cs)
  PROVE  Good(cs)'
<1>1. Current(cs)'
  BY SMTT(20) DEF Frame, Good, Current
<1>2. BulkLoads' => BulkLoads
  BY DEF Frame, BulkLoads
<1> QED BY <1>1, <1>2 DEF Frame, Good, FakesFirst, FakeOnly, Real, NamesOf

\* A checkpoint that can go on, can go on after such a step.
LEMMA FrameCkpt ==
  ASSUME NEW s \in Sessions, Frame(s), NEW c, CkptOK(c), \A n \in c.trk : h[n].discard => h'[n].discard
  PROVE  CkptOK(c)'
<1>1. CASE ~InCkpt(c)
  BY <1>1 DEF CkptOK, InCkpt
<1>2. CASE InCkpt(c)
  <2>1. Good(c.before)'
    BY <1>2, FrameGood DEF CkptOK
  <2>2. BulkLoads' => BulkLoads
    BY DEF Frame, BulkLoads
  <2>3. h'[Live].open = h[Live].open /\ h'[Live].special = h[Live].special
    BY DEF Frame, Handles
  <2>4. UNCHANGED <<file, live, backup, unsaved>>
    BY DEF Frame
  <2> QED BY <1>2, <2>1, <2>2, <2>3, <2>4 DEF CkptOK, InCkpt, MaxOf, Orders
<1> QED BY <1>1, <1>2

\* What the other sessions of a step are in: a session that has the schema lock,
\* or finds the metadata lock free, is alone to change the file.
LEMMA NoOtherCkpt ==
  ASSUME Locking, NEW s \in Sessions, schema \in {None, s} \/ metalock \in {None, s}, NEW r \in Sessions, r # s
  PROVE  ~InCkpt(call[r])
<1> LockInv
  BY DEF Locking
<1>1. SessionOK(r) /\ r # None
  BY SessionsAssumption DEF LockInv
<1> QED BY <1>1 DEF SessionOK, InCkpt, UnderSchema

\* Such a step keeps MetaInv if the session's own call is as good as it was.
LEMMA FrameStep ==
  ASSUME Locking, Typed', Listing, NEW s \in Sessions, Frame(s), call[s].pc # "flush",
         NEW c, c = call'[s], CkptOK(c)', CallOK(c)
  PROVE  Listing'
<1> LockInv /\ MetaInv /\ LockTypes'
  BY DEF Locking, Listing, Typed
<1>1. MetaTypes' /\ Good(file.ckpts)'
  <2>1. Good(file.ckpts) /\ file' = file
    BY DEF MetaInv, Frame
  <2>2. PICK cs : cs = file.ckpts
    OBVIOUS
  <2>3. Good(cs)'
    BY <2>1, <2>2, FrameGood
  <2>4. MetaTypes'
    BY DEF MetaInv, MetaTypes, Frame
  <2> QED BY <2>1, <2>2, <2>3, <2>4
<1>2. ChangesAreSaved'
  <2>1. Checkpointing => Checkpointing'
    BY DEF Checkpointing, Frame
  <2>2. UNCHANGED <<file, live, unsaved>> /\ ChangesAreSaved
    BY DEF Frame, MetaInv
  <2> QED BY <2>1, <2>2 DEF ChangesAreSaved
<1>3. ASSUME NEW r \in Sessions PROVE CkptOK(call[r])' /\ CallOK(call[r])'
  <2>0. PICK d : d = call'[r]
    OBVIOUS
  <2>1. CallOK(d)
    BY <2>0 DEF MetaInv, Frame
  <2>2. CallOK(d)'
    <3>1. d \in Calls
      BY <2>0 DEF LockTypes
    <3>2. d.want \in Handles /\ d.todo \union (d.trk \ {Live}) \subseteq Handles
      BY <3>1 DEF Calls
    <3> QED BY <2>1, <3>2 DEF CallOK, Frame
  <2>3. CkptOK(d)'
    <3>1. CASE r = s
      BY <3>1, <2>0
    <3>2. CASE r # s
      <4>1. CkptOK(d) /\ d = call[r]
        BY <3>2, <2>0 DEF MetaInv, Frame
      <4>2. CASE h' = h
        BY <4>1, <4>2, FrameCkpt
      <4>3. CASE schema \in {None, s}
        BY <4>1, <4>3, <3>2, NoOtherCkpt DEF CkptOK, InCkpt
      <4> QED BY <4>2, <4>3 DEF Frame
    <3> QED BY <3>1, <3>2
  <2> QED BY <2>0, <2>2, <2>3
<1>4. /\ ~file'.exists => file'.ckpts = {} /\ \A n \in Handles : ~h'[n].open
      /\ ~h'[Live].discard /\ (live'.modified => h'[Live].open /\ h'[Live].special # "verify")
      /\ ~backup'.on => backup'.has = {}
  BY DEF MetaInv, Frame, Handles
<1> QED BY <1>1, <1>2, <1>3, <1>4 DEF MetaInv, Listing

\* A call that returns.
LEMMA IdleIsOK ==
  ASSUME NEW c, c = Idle
  PROVE  CkptOK(c) /\ CkptOK(c)' /\ CallOK(c)
BY IdleIsCall DEF CkptOK, CallOK, InCkpt

\* A step that changes no handle is one of those.
LEMMA SameFrame ==
  ASSUME Listing, NEW s \in Sessions, UNCHANGED <<h, file, live, backup, orphans, unsaved>>,
         \A r \in Sessions \ {s} : call'[r] = call[r]
  PROVE  Frame(s)
BY DEF MetaInv, Frame, Listing

\* Only the session's own call changes.
LEMMA OwnCall ==
  ASSUME Locking, NEW s \in Sessions,
         GetFailed(s) \/ Granted(s) \/ Return(s) \/ WriteLocked(s) \/ \E pc : Jump(s, pc)
  PROVE  \A r \in Sessions \ {s} : call'[r] = call[r]
BY DEF LockInv, LockTypes, GetFailed, Granted, Return, WriteLocked, Jump, Locking

\* A list that a checkpoint can be added to.
Saves(cs, name, addr) ==
  /\ cs \in SUBSET Ckpts /\ MaxOf(Orders(cs)) < MaxOrder
  /\ name \in Names \union {Internal(0)} /\ addr \in Addrs

\* The list k with it: the kept ones are in it, and the new one is its last.
Follows(cs, marked, addr, k) ==
  /\ k \in SUBSET Ckpts /\ \A c \in cs : c.name \notin marked => c \in k
  /\ addr # Fake => LastAddr(k) = addr
  /\ addr = Fake /\ FakeOnly(cs) => FakeOnly(k)
  /\ FakesFirst(cs) /\ (addr # Fake \/ FakeOnly(cs)) => FakesFirst(k)

\* What Saved gives (__ckpt_process and __wt_meta_ckptlist_set).
LEMMA SavedFacts ==
  ASSUME NEW cs, NEW marked, NEW name, NEW addr, Saves(cs, name, addr)
  PROVE  Follows(cs, marked, addr, Saved(cs, marked, name, addr))
<1>0. PICK k : k = Saved(cs, marked, name, addr)
  OBVIOUS
<1>s. cs \in SUBSET Ckpts /\ MaxOf(Orders(cs)) < MaxOrder /\ name \in Names \union {Internal(0)} /\ addr \in Addrs
  BY DEF Saves
<1> DEFINE order == MaxOf(Orders(cs)) + 1
           e == [name |-> IF IsInternal(name) THEN Internal(order) ELSE name, order |-> order, addr |-> addr]
<1>1. k = {c \in cs : c.name \notin marked} \union {e}
  BY <1>0 DEF Saved
<1>2. k \in SUBSET Ckpts
  BY <1>0, <1>s, SavedIsList
<1>3. order \in Int /\ \A c \in cs : c.order \in Int /\ c.order < order
  <2>1. Orders(cs) \in SUBSET Nat /\ \A x \in Orders(cs) : x \in 1 .. MaxOrder
    BY SMTT(20), <1>s DEF Orders, Ckpts
  <2> QED BY SMTT(20), <1>s, <2>1, MaxOfIsGreatest DEF Orders, Ckpts
<1>4. e \in k /\ e.order = order /\ e.addr = addr
  BY <1>1
<1> HIDE DEF e, order
<1>5. ASSUME addr # Fake PROVE LastAddr(k) = addr
  <2>1. e \in Real(k) /\ \A d \in Real(k) : d = e \/ (d.order \in Int /\ d.order < order)
    BY <1>1, <1>3, <1>4, <1>5 DEF Real
  <2>2. \A d \in Real(k) : d.order <= e.order
    BY SMTT(20), <1>3, <1>4, <2>1
  <2>3. Latest(Real(k)) \in Real(k) /\ e.order <= Latest(Real(k)).order
    BY <2>1, <2>2 DEF Latest
  <2>4. Latest(Real(k)) = e
    BY SMTT(20), <1>3, <1>4, <2>1, <2>3
  <2> QED BY <1>4, <2>1, <2>4 DEF LastAddr
<1>6. addr = Fake /\ FakeOnly(cs) => FakeOnly(k)
  BY <1>1, <1>4 DEF FakeOnly, Real
<1>7. FakesFirst(cs) /\ (addr # Fake \/ FakeOnly(cs)) => FakesFirst(k)
  BY SMTT(20), <1>1, <1>3, <1>4 DEF FakesFirst, FakeOnly, Real
<1>8. Follows(cs, marked, addr, k)
  BY <1>1, <1>2, <1>5, <1>6, <1>7 DEF Follows
<1> QED BY <1>0, <1>8

\* A session that is alone to change the file: it has the schema lock, or the
\* metadata lock is free and it opens no handle.
Solo(s) ==
  /\ \A r \in Sessions \ {s} : call'[r] = call[r]
  /\ \/ schema \in {None, s}
     \/ metalock \in {None, s} /\ \A n \in Handles : h'[n].open => h[n].open

\* The calls of the others are as good as they were.
LEMMA OthersMeta ==
  ASSUME Locking, Listing, NEW s \in Sessions, Solo(s), NEW r \in Sessions, r # s
  PROVE  CkptOK(call[r])' /\ CallOK(call[r])'
<1> LockInv /\ MetaInv
  BY DEF Locking, Listing
<1>1. PICK d : d = call[r]
  OBVIOUS
<1>2. d = call'[r] /\ ~InCkpt(d) /\ CallOK(d) /\ SessionOK(r) /\ r # None /\ d \in Calls
  BY <1>1, NoOtherCkpt, SessionsAssumption DEF Solo, MetaInv, LockInv, LockTypes
<1>3. CkptOK(d)'
  BY <1>2 DEF CkptOK, InCkpt
<1>4. CallOK(d)'
  <2>0. d.want \in Handles /\ d.todo \subseteq Handles /\ d.trk \subseteq Handles
    BY <1>2 DEF Calls
  <2>1. CASE schema \in {None, s}
    <3>1. d.pc # "open" /\ (d.op = "drop" => d.pc \notin {"closeall", "off"})
      BY <1>1, <1>2, <2>1 DEF SessionOK, UnderSchema
    <3> QED BY <1>2, <3>1 DEF CallOK
  <2>2. CASE \A n \in Handles : h'[n].open => h[n].open
    BY <1>2, <2>0, <2>2 DEF CallOK
  <2> QED BY <2>1, <2>2 DEF Solo
<1> QED BY <1>2, <1>3, <1>4

\* What such a step has to show.
LEMMA SoloStep ==
  ASSUME Locking, Listing, NEW s \in Sessions, Solo(s), NEW c, c = call'[s], CkptOK(c)', CallOK(c)',
         MetaTypes', Good(file.ckpts)', ChangesAreSaved',
         ~file'.exists => file'.ckpts = {} /\ \A n \in Handles : ~h'[n].open,
         ~h'[Live].discard, live'.modified => h'[Live].open /\ h'[Live].special # "verify",
         ~backup'.on => backup'.has = {}
  PROVE  Listing'
<1> LockInv /\ MetaInv
  BY DEF Locking, Listing
<1>1. ASSUME NEW r \in Sessions PROVE CkptOK(call[r])' /\ CallOK(call[r])'
  BY OthersMeta
<1> QED BY <1>1 DEF MetaInv, Listing

\* A list that keeps the checkpoints whose handle is not locked.
LEMMA KeepsGood ==
  ASSUME Listing, NEW k, FakesFirst(k), BulkLoads' => FakeOnly(k), backup'.has \subseteq backup.has,
         orphans \subseteq orphans',
         \A n \in Handles \ {Live} : h'[n].open /\ h'[n].writer = None => h[n].open /\ h[n].writer = None /\ h'[n].addr = h[n].addr,
         \A c \in file.ckpts : c \in k \/ c.name \in orphans'
                               \/ ((c.name \in Handles => ~h'[c.name].open \/ h'[c.name].writer # None) /\ c.name \notin backup'.has)
  PROVE  Good(k)'
<1> MetaInv
  BY DEF Listing
<1>1. Good(file.ckpts)
  BY DEF MetaInv
<1>2. Current(k)'
  BY SMTT(20), <1>1 DEF Good, Current
<1>3. backup'.has \ orphans' \subseteq NamesOf(k)
  BY SMTT(20), <1>1 DEF Good, NamesOf
<1>4. FakesFirst(k)' /\ (BulkLoads' => FakeOnly(k)') /\ NamesOf(k)' = NamesOf(k)
  BY DEF FakesFirst, FakeOnly, Real, NamesOf
<1> QED BY <1>2, <1>3, <1>4 DEF Good
=============================================================================

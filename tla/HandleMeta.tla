----------------------------- MODULE HandleMeta -----------------------------
(***************************************************************************)
(* The steps of Handles keep MetaInv, which checkpoints the file has and   *)
(* who relies on them: the steps that get, open and close a handle, those  *)
(* of a checkpoint, a drop, a create and a backup, and the changes of the  *)
(* tree.                                                                   *)
(***************************************************************************)
EXTENDS HandleFacts

\* The prover of a leaf that names no other.
USE ZenonT(60)

\* The steps of a call that wants a handle.
LEMMA JumpMeta ==
  ASSUME Locking, Typed', Listing, NEW s \in Sessions, Frame(s), NEW pc \in {"get", "read", "find", "lock", "open", "start", "metalock"},
         Jump(s, pc), call[s].pc \in {"start", "get", "read", "find", "lock", "open"},
         pc = "open" => call[s].op # "drop" /\ (call[s].want # Live => ~h[call[s].want].open),
         pc \in {"get", "metalock"} => call[s].pc = "start", pc = "metalock" <=> call[s].pc = "start" /\ call[s].op = "checkpoint"
  PROVE  Listing'
<1> LockInv /\ MetaInv /\ LockTypes'
  BY DEF Locking, Listing, Typed
<1>0. SessionOK(s) /\ CkptOK(call[s]) /\ CallOK(call[s]) /\ call[s] \in Calls
  BY DEF LockInv, LockTypes, MetaInv
<1>1. PICK c : c = call'[s]
  OBVIOUS
<1>2. /\ c.pc = pc /\ c.op = call[s].op /\ c.want = call[s].want /\ c.trk = call[s].trk /\ c.todo = call[s].todo
      /\ c.marked = call[s].marked /\ c.before = call[s].before /\ c.failed = call[s].failed
  BY <1>0, <1>1 DEF Jump, Calls, LockInv, LockTypes
<1>3. CkptOK(c)
  <2>1. CASE call[s].op # "checkpoint" \/ pc = "metalock"
    BY <2>1, <1>2 DEF CkptOK, InCkpt
  <2>2. CASE call[s].op = "checkpoint" /\ pc # "metalock"
    <3>1. InCkpt(call[s]) /\ call[s].pc # "off"
      BY <2>2 DEF InCkpt
    <3> QED BY <1>0, <1>2, <3>1 DEF CkptOK
  <2> QED BY <2>1, <2>2
<1>4. CallOK(c)
  BY <1>0, <1>2 DEF CallOK
<1>5. CkptOK(c)'
  <2>1. c.trk = {}
    BY <1>0, <1>2 DEF SessionOK, Flow
  <2> QED BY <1>3, <2>1, FrameCkpt
<1> QED BY <1>1, <1>4, <1>5, FrameStep

\* A handle that could not be had.
LEMMA FailMeta ==
  ASSUME Locking, Typed', Listing, NEW s \in Sessions, Frame(s), GetFailed(s),
         call[s].pc \in {"get", "lock", "open"},
         call[s].op = "checkpoint" => h[Live].open /\ h[Live].special # "verify"
  PROVE  Listing'
<1> LockInv /\ MetaInv /\ LockTypes'
  BY DEF Locking, Listing, Typed
<1>0. SessionOK(s) /\ CkptOK(call[s]) /\ CallOK(call[s]) /\ call[s] \in Calls
  BY DEF LockInv, LockTypes, MetaInv
<1>1. PICK c : c = call'[s]
  OBVIOUS
<1>2. c = CASE call[s].op = "checkpoint" -> [call[s] EXCEPT !.pc = "list"]
            [] call[s].op = "last" -> [call[s] EXCEPT !.pc = "last"]
            [] OTHER -> Idle
  BY <1>1 DEF GetFailed, LockInv, LockTypes
<1>3. CASE call[s].op = "checkpoint"
  <2>1. /\ c.pc = "list" /\ c.op = "checkpoint" /\ c.want = call[s].want /\ c.trk = call[s].trk
        /\ c.before = call[s].before /\ c.failed = call[s].failed
    BY <1>0, <1>2, <1>3 DEF Calls
  <2>2. InCkpt(call[s]) /\ call[s].pc # "off"
    BY <1>3 DEF InCkpt
  <2>3. CkptOK(c)
    BY <1>0, <1>3, <2>1, <2>2 DEF CkptOK
  <2>4. c.trk = {}
    BY <1>0, <2>1 DEF SessionOK, Flow
  <2>5. CkptOK(c)' /\ CallOK(c)
    BY <1>0, <1>3, <2>1, <2>2, <2>3, <2>4, FrameCkpt DEF CallOK
  <2> QED BY <1>1, <2>5, FrameStep
<1>4. CASE call[s].op = "last"
  <2>1. c.pc = "last" /\ c.op = "last"
    BY <1>0, <1>2, <1>4 DEF Calls
  <2>2. CkptOK(c)' /\ CallOK(c)
    BY <2>1 DEF CkptOK, InCkpt, CallOK
  <2> QED BY <1>1, <2>2, FrameStep
<1>5. CASE call[s].op \notin {"checkpoint", "last"}
  BY <1>1, <1>2, <1>5, IdleIsOK, FrameStep
<1> QED BY <1>3, <1>4, <1>5

\* A handle that was had.
LEMMA GrantMeta ==
  ASSUME Locking, Typed', Listing, NEW s \in Sessions, Frame(s), Granted(s),
         call[s].pc \in {"get", "read", "find", "lock", "open"},
         call[s].op = "checkpoint" => h[Live].open /\ h[Live].special # "verify"
  PROVE  Listing'
<1> LockInv /\ MetaInv /\ LockTypes'
  BY DEF Locking, Listing, Typed
<1>0. SessionOK(s) /\ CkptOK(call[s]) /\ CallOK(call[s]) /\ call[s] \in Calls
  BY DEF LockInv, LockTypes, MetaInv
<1>1. PICK c : c = call'[s]
  OBVIOUS
<1>2. c = IF ForCursor(s) THEN Idle ELSE [call[s] EXCEPT !.pc = Onward(call[s].op), !.held = ~Excl(s)]
  BY <1>1 DEF Granted, LockInv, LockTypes
<1>3. CASE ForCursor(s)
  BY <1>1, <1>2, <1>3, IdleIsOK, FrameStep
<1>4. CASE ~ForCursor(s)
  <2>1. call[s].op \in {"verify", "drop", "checkpoint"} /\ call[s].trk = {}
    BY <1>0, <1>4 DEF SessionOK, Flow, ForCursor
  <2>2. /\ c.pc = Onward(call[s].op) /\ c.op = call[s].op /\ c.want = call[s].want /\ c.trk = call[s].trk
        /\ c.before = call[s].before /\ c.failed = call[s].failed /\ c.todo = call[s].todo
    BY <1>0, <1>2, <1>4 DEF Calls
  <2>3. c.pc = CASE call[s].op = "verify" -> "verify" [] call[s].op = "drop" -> "closeall"
                 [] call[s].op = "checkpoint" -> "list"
    BY <2>2 DEF Onward
  <2>4. CkptOK(c)
    <3>1. CASE call[s].op # "checkpoint"
      BY <3>1, <2>2 DEF CkptOK, InCkpt
    <3>2. CASE call[s].op = "checkpoint"
      <4>1. InCkpt(call[s]) /\ call[s].pc # "off" /\ c.pc = "list"
        BY <2>3, <3>2 DEF InCkpt
      <4> QED BY <1>0, <2>1, <2>2, <3>2, <4>1 DEF CkptOK
    <3> QED BY <3>1, <3>2
  <2>5. CallOK(c)
    BY <1>0, <2>1, <2>2, <2>3 DEF CallOK
  <2>6. CkptOK(c)'
    BY <2>1, <2>2, <2>4, FrameCkpt
  <2> QED BY <1>1, <2>5, <2>6, FrameStep
<1> QED BY <1>3, <1>4

\* A checkpoint finds the live tree open when it is open for a special operation,
\* which is no verify, or has no writer.
LEMMA LiveIsOpen ==
  ASSUME Locking, NEW s \in Sessions, call[s].op = "checkpoint", call[s].pc \in {"get", "read", "find", "lock", "open"},
         h[Live].special # "none" \/ (h[Live].open /\ h[Live].writer = None)
  PROVE  h[Live].open /\ h[Live].special # "verify"
<1> LockInv
  BY DEF Locking
<1>1. HandleOK(Live) /\ SessionOK(s) /\ h[Live].writer \in Sids /\ s # None
  BY SessionsAssumption DEF LockInv, LockTypes, States, Handles
<1>2. schema = s
  BY <1>1 DEF SessionOK, UnderSchema
<1>3. ASSUME h[Live].special = "verify" PROVE FALSE
  <2>1. At(h[Live].writer, "verify") /\ h[Live].writer \in Sessions
    BY <1>1, <1>3 DEF HandleOK, Sids
  <2>2. SessionOK(h[Live].writer) /\ call[h[Live].writer].op = "verify"
    BY <2>1 DEF LockInv, SessionOK, Flow, At
  <2>3. schema = h[Live].writer
    BY <2>1, <2>2 DEF SessionOK, UnderSchema, At
  <2> QED BY <1>2, <2>2, <2>3
<1> QED BY <1>1, <1>3 DEF HandleOK

\* What is known of the handle a session wants.
LEMMA Wanted ==
  ASSUME Locking, Listing, NEW s \in Sessions, call[s].op # "none"
  PROVE  /\ Want(s) \in Handles /\ Live \in Handles /\ HandleOK(Want(s)) /\ SessionOK(s) /\ s # None /\ ~h[Live].discard
         /\ (call[s].op \notin {"open", "last"} => Want(s) = Live)
         /\ h \in [Handles -> States] /\ call[s] \in Calls
<1> LockInv /\ MetaInv
  BY DEF Locking, Listing
<1>1. SessionOK(s) /\ call[s] \in Calls /\ h \in [Handles -> States] /\ Live \in Handles /\ s # None
  BY SessionsAssumption DEF LockInv, LockTypes, Handles
<1>2. Want(s) \in Handles /\ (call[s].op \notin {"open", "last"} => Want(s) = Live)
  BY <1>1 DEF SessionOK, Flow, Want, Calls
<1> QED BY <1>1, <1>2 DEF LockInv, MetaInv

\* Locking a handle of the session's cache.
LEMMA SessionLockMeta ==
  ASSUME Locking, Typed', Listing, NEW s \in Sessions, SessionLock(s) \/ ReadLock(s)
  PROVE  Listing'
<1> LockInv /\ MetaInv /\ LockTypes'
  BY DEF Locking, Listing, Typed
<1> DEFINE n == Want(s)
<1>0. call[s].pc \in {"get", "read"} /\ UNCHANGED <<file, live, backup, orphans, unsaved>>
  BY DEF SessionLock, ReadLock, At
<1>1. /\ n \in Handles /\ Live \in Handles /\ HandleOK(n) /\ SessionOK(s) /\ s # None /\ ~h[Live].discard
      /\ (call[s].op \notin {"open", "last"} => n = Live)
      /\ h \in [Handles -> States]
  <2>1. call[s].op # "none"
    BY <1>0 DEF LockInv, SessionOK, Flow
  <2> QED BY <2>1, Wanted
<1>2. CASE Excl(s) /\ Special(s) = "none" /\ h' = [h EXCEPT ![n].writer = s] /\ Granted(s)
  <2>1. call[s].op # "checkpoint" /\ schema = s
    <3>1. call[s].op = "drop"
      BY <1>2 DEF Excl, Special
    <3> QED BY <1>0, <1>1, <3>1 DEF SessionOK, UnderSchema
  <2>2. Frame(s)
    BY <1>0, <1>1, <1>2, <2>1, OwnCall DEF Frame, States
  <2> QED BY <1>0, <2>1, <2>2, <1>2, GrantMeta
<1>3. CASE h' = h /\ GetFailed(s) /\ (Excl(s) \/ h[n].special # "none") /\ call[s].pc = "get"
  <2>1. Frame(s)
    BY <1>0, <1>3, SameFrame, OwnCall
  <2>2. call[s].op = "checkpoint" => h[Live].open /\ h[Live].special # "verify"
    BY <1>0, <1>1, <1>3, LiveIsOpen DEF Excl
  <2> QED BY <1>3, <2>1, <2>2, FailMeta
<1>4. CASE h' = h /\ \E pc \in {"read", "find"} : Jump(s, pc)
  <2>1. Frame(s)
    BY <1>0, <1>4, SameFrame, OwnCall
  <2> QED BY <1>0, <1>4, <2>1, JumpMeta
<1>5. CASE h' = h /\ Granted(s) /\ h[n].open /\ h[n].writer = None
  <2>1. Frame(s)
    BY <1>0, <1>5, SameFrame, OwnCall
  <2>2. call[s].op = "checkpoint" => h[Live].open /\ h[Live].special # "verify"
    BY <1>0, <1>1, <1>5, LiveIsOpen
  <2> QED BY <1>0, <1>5, <2>1, <2>2, GrantMeta
<1> QED BY <1>2, <1>3, <1>4, <1>5 DEF SessionLock, ReadLock, At

\* Finding and locking a handle of the connection's list.
LEMMA FindMeta ==
  ASSUME Locking, Typed', Listing, NEW s \in Sessions, FindHandle(s) \/ OpenLock(s)
  PROVE  Listing'
<1> LockInv /\ MetaInv /\ LockTypes'
  BY DEF Locking, Listing, Typed
<1> DEFINE n == Want(s)
<1>0. /\ call[s].pc \in {"get", "find", "lock"} /\ UNCHANGED <<file, live, backup, orphans, unsaved>>
      /\ schema \in {None, s}
  <2>1. CASE FindHandle(s)
    BY <2>1 DEF FindHandle, At
  <2>2. CASE OpenLock(s)
    BY <2>2 DEF OpenLock, At, LockInv, SessionOK, UnderSchema
  <2> QED BY <2>1, <2>2
<1>1. /\ n \in Handles /\ Live \in Handles /\ HandleOK(n) /\ SessionOK(s) /\ s # None /\ ~h[Live].discard
      /\ (call[s].op \notin {"open", "last"} => n = Live)
      /\ h \in [Handles -> States]
  <2>1. call[s].op # "none"
    BY <1>0 DEF LockInv, SessionOK, Flow
  <2> QED BY <2>1, Wanted
<1>2. CASE h' = [h EXCEPT ![n].refcnt = @ + 1] /\ Jump(s, "lock") /\ call[s].pc \in {"get", "find"}
  <2>0. \A m \in Handles : /\ h'[m].open = h[m].open /\ h'[m].addr = h[m].addr /\ h'[m].special = h[m].special
                            /\ h'[m].discard = h[m].discard /\ h'[m].writer = h[m].writer
    BY <1>1, <1>2 DEF States
  <2>1. Frame(s)
    BY <1>0, <1>1, <1>2, <2>0, OwnCall DEF Frame
  <2> QED BY <1>0, <2>1, <1>2, JumpMeta
<1>3. CASE /\ h' = [h EXCEPT ![n] = [@ EXCEPT !.listed = TRUE, !.refcnt = 1, !.writer = s]] \/ h' = [h EXCEPT ![n].writer = s]
           /\ WriteLocked(s) /\ (Excl(s) \/ ~h[n].open)
  <2>0. \A m \in Handles : /\ h'[m].open = h[m].open /\ h'[m].addr = h[m].addr /\ h'[m].special = h[m].special
                            /\ h'[m].discard = h[m].discard /\ h'[m].writer \in {h[m].writer, s}
    <3>1. CASE h' = [h EXCEPT ![n].writer = s]
      BY <1>1, <3>1 DEF States
    <3>2. CASE h' = [h EXCEPT ![n] = [@ EXCEPT !.listed = TRUE, !.refcnt = 1, !.writer = s]]
      BY <1>1, <3>2 DEF States
    <3> QED BY <1>3, <3>1, <3>2
  <2>1. Frame(s)
    BY <1>0, <1>1, <1>3, <2>0, OwnCall DEF Frame
  <2>2. CASE call[s].op = "drop"
    <3>1. Granted(s)
      BY <1>3, <2>2 DEF WriteLocked
    <3> QED BY <1>0, <2>1, <2>2, <3>1, GrantMeta
  <2>3. CASE call[s].op # "drop"
    <3>1. Jump(s, "open") /\ (call[s].want # Live => ~h[call[s].want].open)
      BY <1>1, <1>3, <2>3 DEF WriteLocked, Excl, Want
    <3> QED BY <1>0, <2>1, <2>3, <3>1, JumpMeta
  <2> QED BY <2>2, <2>3
<1>4. CASE h' = h /\ GetFailed(s) /\ (Excl(s) \/ h[n].special # "none") /\ call[s].pc = "lock"
  <2>1. Frame(s)
    BY <1>0, <1>4, SameFrame, OwnCall
  <2>2. call[s].op = "checkpoint" => h[Live].open /\ h[Live].special # "verify"
    BY <1>0, <1>1, <1>4, LiveIsOpen DEF Excl
  <2> QED BY <1>4, <2>1, <2>2, FailMeta
<1>5. CASE h' = h /\ Granted(s) /\ h[n].open /\ h[n].writer = None
  <2>1. Frame(s)
    BY <1>0, <1>5, SameFrame, OwnCall
  <2>2. call[s].op = "checkpoint" => h[Live].open /\ h[Live].special # "verify"
    BY <1>0, <1>1, <1>5, LiveIsOpen
  <2> QED BY <1>0, <1>5, <2>1, <2>2, GrantMeta
<1>6. CASE FindHandle(s)
  <2>1. ~h[n].listed => ~h[n].open
    BY <1>1 DEF HandleOK
  <2> QED BY <1>6, <2>1, <1>2, <1>3 DEF FindHandle, At
<1>7. CASE OpenLock(s)
  BY <1>7, <1>3, <1>4, <1>5 DEF OpenLock, At
<1> QED BY <1>6, <1>7

\* A handle that could not be opened.
LEMMA OpenFailsMeta ==
  ASSUME Locking, Typed', Listing, NEW s \in Sessions, OpenGone(s) \/ OpenFails(s)
  PROVE  Listing'
<1> LockInv /\ MetaInv /\ LockTypes'
  BY DEF Locking, Listing, Typed
<1> DEFINE n == Want(s)
<1>0. /\ call[s].pc = "open" /\ UNCHANGED <<file, live, backup, orphans, unsaved>> /\ GetFailed(s)
  BY DEF OpenGone, OpenFails, At
<1>1. /\ n \in Handles /\ Live \in Handles /\ SessionOK(s) /\ s # None /\ ~h[Live].discard
      /\ (call[s].op \notin {"open", "last"} => n = Live)
      /\ h \in [Handles -> States] /\ schema = s
  <2>1. call[s].op # "none" /\ schema = s
    BY <1>0 DEF LockInv, SessionOK, Flow, UnderSchema
  <2> QED BY <2>1, Wanted
<1>2. n # Live => ~h[n].open
  BY <1>0 DEF MetaInv, CallOK, Want
<1>3. call[s].op # "checkpoint"
  <2>1. ASSUME call[s].op = "checkpoint" PROVE file.exists /\ CanOpen(s)
    <3>1. CkptOK(call[s]) /\ InCkpt(call[s])
      BY <1>0, <2>1 DEF MetaInv, InCkpt
    <3> QED BY <1>0, <1>1, <2>1, <3>1 DEF CkptOK, CanOpen, Special
  <2> QED BY <2>1 DEF OpenGone, OpenFails
<1>4. /\ \A m \in Handles : h'[m].open = h[m].open /\ h'[m].addr = h[m].addr /\ (m # n => h'[m] = h[m])
      /\ h'[n].special = h[n].special /\ h'[n].discard = h[n].discard
  <2>1. CASE OpenGone(s)
    BY <1>1, <2>1 DEF OpenGone, Released, States
  <2>2. CASE OpenFails(s)
    BY <1>1, <2>2 DEF OpenFails, Released, States
  <2> QED BY <2>1, <2>2
<1>5. Frame(s)
  BY <1>0, <1>1, <1>2, <1>4, OwnCall DEF Frame
<1> QED BY <1>0, <1>3, <1>5, FailMeta

\* Calls that are in no checkpoint yet, and have closed nothing.
LEMMA PlainMeta ==
  ASSUME Locking, Typed', Listing, NEW s \in Sessions, Frame(s), call[s].pc # "flush",
         NEW c, c = call'[s], ~InCkpt(c), c.pc # "open", c.op = "checkpoint" => ~c.failed,
         c.op = "drop" => c.todo = {} /\ c.trk = {}
  PROVE  Listing'
<1> LockInv /\ MetaInv /\ LockTypes'
  BY DEF Locking, Listing, Typed
<1>1. CkptOK(c)' /\ CallOK(c)
  BY DEF CkptOK, InCkpt, CallOK
<1> QED BY <1>1, FrameStep

\* Calls that only end.
LEMMA ReturnMeta ==
  ASSUME Locking, Typed', Listing, NEW s \in Sessions, Frame(s), call[s].pc # "flush",
         call' = [call EXCEPT ![s] = Idle]
  PROVE  Listing'
<1> LockInv /\ MetaInv /\ LockTypes'
  BY DEF Locking, Listing, Typed
<1>1. PICK c : c = call'[s]
  OBVIOUS
<1>2. c = Idle
  BY <1>1 DEF LockInv, LockTypes
<1> QED BY <1>1, <1>2, IdleIsOK, FrameStep

\* The calls an application makes.
LEMMA BeginMeta ==
  ASSUME Locking, Typed', Listing, NEW s \in Sessions, Application(s), ~Modify(s)
  PROVE  Listing'
<1> LockInv /\ MetaInv /\ LockTypes'
  BY DEF Locking, Listing, Typed
<1>1. PICK c : /\ Begin(s, c) /\ c.trk = {} /\ c.todo = {} /\ ~c.failed
               /\ \/ c.pc = "get" /\ c.op \in {"open", "bulk"}
                  \/ c.pc = "last" /\ c.op = "last"
                  \/ c.pc = "start" /\ c.op \in {"verify", "drop", "create", "backup", "checkpoint", "close"}
  BY BegunCall
<1>2. c = call'[s] /\ call[s].pc = "idle" /\ \A r \in Sessions \ {s} : call'[r] = call[r]
  BY <1>1 DEF Begin, LockInv, LockTypes, At
<1>3. Frame(s)
  BY <1>1, <1>2, SameFrame DEF Begin
<1>4. ~InCkpt(c)
  BY <1>1 DEF InCkpt
<1> QED BY <1>1, <1>2, <1>3, <1>4, PlainMeta

\* Calls that choose what to do next, or release a cursor or a reference.
LEMMA ChooseMeta ==
  ASSUME Locking, Typed', Listing, NEW s \in Sessions, LastName(s) \/ SchemaLock(s) \/ CloseDone(s)
  PROVE  Listing'
<1> LockInv /\ MetaInv /\ LockTypes'
  BY DEF Locking, Listing, Typed
<1>0. /\ UNCHANGED <<h, file, live, backup, orphans, unsaved>> /\ call[s].pc \in {"last", "start", "discard"}
      /\ SessionOK(s) /\ call[s] \in Calls /\ CallOK(call[s])
  BY DEF LastName, SchemaLock, CloseDone, At, LockInv, LockTypes, MetaInv
<1>1. CASE LastName(s) \/ CloseDone(s)
  <2>1. CASE Return(s)
    <3>1. Frame(s)
      BY <1>0, <2>1, SameFrame, OwnCall
    <3> QED BY <1>0, <2>1, <3>1, ReturnMeta DEF Return
  <2>2. CASE call' = [call EXCEPT ![s].pc = "get", ![s].want = LastInternal(file.ckpts)] /\ call[s].pc = "last"
    <3>1. PICK c : c = call'[s]
      OBVIOUS
    <3>2. c.op = "last" /\ c.pc = "get" /\ \A r \in Sessions \ {s} : call'[r] = call[r]
      <4>1. call[s].op = "last"
        BY <1>0, <2>2 DEF SessionOK, Flow
      <4> QED BY <1>0, <2>2, <3>1, <4>1 DEF LockInv, LockTypes, Calls
    <3>3. Frame(s) /\ ~InCkpt(c)
      BY <1>0, <3>2, SameFrame DEF InCkpt
    <3> QED BY <1>0, <3>1, <3>2, <3>3, PlainMeta
  <2> QED BY <1>1, <2>1, <2>2 DEF LastName, CloseDone, At
<1>2. CASE SchemaLock(s)
  <2>1. PICK c : c = call'[s]
    OBVIOUS
  <2>2. PICK pc \in {"get", "metalock", "discard", "create", "backup"} :
          /\ call[s].pc = "start" /\ Jump(s, pc)
          /\ call[s].op = "checkpoint" => pc = "metalock"
    <3>1. call[s].pc = "start" /\ call[s].op \in {"verify", "drop", "create", "backup", "checkpoint", "close"}
      BY <1>0, <1>2 DEF SchemaLock, At, SessionOK, Flow
    <3> QED BY <1>2, <3>1 DEF SchemaLock
  <2>3. /\ c.op = call[s].op /\ c.pc = pc /\ c.todo = call[s].todo /\ c.trk = call[s].trk /\ c.failed = call[s].failed
        /\ \A r \in Sessions \ {s} : call'[r] = call[r]
    BY <1>0, <2>1, <2>2 DEF Jump, LockInv, LockTypes, Calls
  <2>4. c.trk = {} /\ (c.op = "drop" => c.todo = {}) /\ (c.op = "checkpoint" => ~c.failed)
    BY <1>0, <2>2, <2>3 DEF SessionOK, Flow, CallOK
  <2>5. Frame(s) /\ ~InCkpt(c)
    BY <1>0, <2>2, <2>3, SameFrame DEF InCkpt
  <2> QED BY <1>0, <2>1, <2>2, <2>3, <2>4, <2>5, PlainMeta
<1> QED BY <1>1, <1>2

\* A checkpoint starts: what it would undo is what there is.
LEMMA MetaLockMeta ==
  ASSUME Locking, Typed', Listing, NEW s \in Sessions, MetaLock(s)
  PROVE  Listing'
<1> LockInv /\ MetaInv /\ LockTypes'
  BY DEF Locking, Listing, Typed
<1>0. /\ UNCHANGED <<h, file, live, backup, orphans, unsaved>> /\ call[s].pc = "metalock"
      /\ SessionOK(s) /\ call[s] \in Calls /\ CallOK(call[s])
  BY DEF MetaLock, At, LockInv, LockTypes, MetaInv
<1>1. PICK c : c = call'[s]
  OBVIOUS
<1>2. PICK pc \in {"list", "off", "get"} :
        /\ call' = [call EXCEPT ![s] = [@ EXCEPT !.snap = live.data, !.before = file.ckpts, !.pc = pc]]
        /\ pc = "list" => h[Live].open
        /\ pc = "get" => file.exists
  BY DEF MetaLock
<1>3. /\ c.op = call[s].op /\ c.pc = pc /\ c.trk = call[s].trk /\ c.failed = call[s].failed /\ c.before = file.ckpts
      /\ \A r \in Sessions \ {s} : call'[r] = call[r]
  BY <1>0, <1>1, <1>2 DEF LockInv, LockTypes, Calls
<1>4. c.trk = {} /\ c.op = "checkpoint" /\ ~c.failed
  BY <1>0, <1>3 DEF SessionOK, Flow, CallOK
<1>5. Frame(s) /\ Good(c.before)
  BY <1>0, <1>3, SameFrame DEF MetaInv
<1>6. ~file.exists => c.pc = "off" /\ c.before = {}
  BY <1>2, <1>3 DEF MetaInv, Handles
<1>7. c.pc = "list" => h[Live].open /\ h[Live].special # "verify"
  <2>1. HandleOK(Live) /\ h[Live].writer \in Sids /\ schema = s
    BY <1>0, <1>3, <1>4 DEF LockInv, LockTypes, States, Handles, SessionOK, UnderSchema
  <2>2. ASSUME h[Live].special = "verify" PROVE FALSE
    <3>1. At(h[Live].writer, "verify") /\ h[Live].writer \in Sessions
      BY <2>1, <2>2, SessionsAssumption DEF HandleOK, Sids
    <3>2. SessionOK(h[Live].writer) /\ call[h[Live].writer].op = "verify"
      BY <3>1 DEF LockInv, SessionOK, Flow, At
    <3>3. schema = h[Live].writer
      BY <3>1, <3>2 DEF SessionOK, UnderSchema, At
    <3> QED BY <1>0, <2>1, <3>1, <3>3 DEF At
  <2> QED BY <1>2, <1>3, <2>2
<1>8. CkptOK(c) /\ CallOK(c)
  BY <1>2, <1>3, <1>4, <1>5, <1>6, <1>7 DEF CkptOK, CallOK
<1>9. CkptOK(c)'
  BY <1>4, <1>5, <1>8, FrameCkpt
<1> QED BY <1>0, <1>1, <1>5, <1>8, <1>9, FrameStep

\* A checkpoint chooses what to delete.
LEMMA ListMeta ==
  ASSUME Locking, Typed', Listing, NEW s \in Sessions, ListCkpts(s)
  PROVE  Listing'
<1> LockInv /\ MetaInv /\ LockTypes'
  BY DEF Locking, Listing, Typed
<1>0. /\ UNCHANGED <<h, file, live, backup, orphans, unsaved>> /\ call[s].pc = "list"
      /\ SessionOK(s) /\ call[s] \in Calls /\ CallOK(call[s]) /\ CkptOK(call[s]) /\ MaxOf(Orders(file.ckpts)) < MaxOrder
  BY DEF ListCkpts, At, LockInv, LockTypes, MetaInv
<1>1. PICK c : c = call'[s]
  OBVIOUS
<1>2. PICK marked : \/ call' = [call EXCEPT ![s] = [@ EXCEPT !.pc = "off"]]
                    \/ call' = [call EXCEPT ![s] = [@ EXCEPT !.pc = "cklock", !.marked = marked, !.todo = marked]]
  BY DEF ListCkpts
<1>3. /\ c.op = call[s].op /\ c.pc \in {"off", "cklock"} /\ c.trk = call[s].trk /\ c.failed = call[s].failed
      /\ c.before = call[s].before /\ (c.pc = "cklock" => c.todo = c.marked)
      /\ \A r \in Sessions \ {s} : call'[r] = call[r]
  <2>1. CASE call' = [call EXCEPT ![s] = [@ EXCEPT !.pc = "off"]]
    BY <1>0, <1>1, <2>1 DEF LockInv, LockTypes, Calls
  <2>2. CASE call' = [call EXCEPT ![s] = [@ EXCEPT !.pc = "cklock", !.marked = marked, !.todo = marked]]
    <3>1. c = [call[s] EXCEPT !.pc = "cklock", !.marked = marked, !.todo = marked]
      BY <1>1, <2>2 DEF LockInv, LockTypes
    <3> QED BY <1>0, <2>2, <3>1 DEF LockInv, LockTypes, Calls
  <2> QED BY <1>2, <2>1, <2>2
<1>4. c.trk = {} /\ c.op = "checkpoint" /\ ~c.failed /\ InCkpt(call[s])
  BY <1>0, <1>3 DEF SessionOK, Flow, CallOK, InCkpt
<1>5. Frame(s)
  BY <1>0, <1>3, SameFrame
<1>6. CkptOK(c) /\ CallOK(c)
  BY <1>0, <1>3, <1>4 DEF CkptOK, CallOK
<1>7. CkptOK(c)'
  BY <1>4, <1>5, <1>6, FrameCkpt
<1> QED BY <1>0, <1>1, <1>5, <1>6, <1>7, FrameStep

\* A checkpoint locks the handle of one it deletes.
LEMMA LockCkptMeta ==
  ASSUME Locking, Typed', Listing, NEW s \in Sessions, LockCkpt(s)
  PROVE  Listing'
<1> LockInv /\ MetaInv /\ LockTypes'
  BY DEF Locking, Listing, Typed
<1>0. /\ UNCHANGED <<file, live, backup, orphans, unsaved>> /\ call[s].pc = "cklock" /\ ~h[Live].discard
      /\ SessionOK(s) /\ call[s] \in Calls /\ CallOK(call[s]) /\ CkptOK(call[s]) /\ h \in [Handles -> States]
      /\ s # None /\ Live \in Handles
  BY SessionsAssumption DEF LockCkpt, At, LockInv, LockTypes, MetaInv, Handles
<1>1. PICK d : d = call[s]
  OBVIOUS
<1>2. PICK c : c = call'[s]
  OBVIOUS
<1>3. /\ d.op = "checkpoint" /\ InCkpt(d) /\ CkptOK(d) /\ d.pc = "cklock" /\ schema = s /\ ~d.failed
      /\ d.todo \subseteq d.marked /\ d.marked \subseteq Handles \ {Live} /\ d.trk \subseteq Handles
  <2>1. d.op = "checkpoint" /\ InCkpt(d) /\ d.pc = "cklock"
    BY <1>0, <1>1 DEF SessionOK, Flow, InCkpt
  <2> QED BY <1>0, <1>1, <2>1 DEF SessionOK, UnderSchema, CkptOK, CallOK, Calls
<1>4. PICK n \in d.todo :
        \/ InUse(s, n) /\ (h' = h \/ h' = [h EXCEPT ![n].refcnt = IF n \in cache[s] THEN @ ELSE @ + 1])
        \/ /\ ~backup.on /\ h' = LockedHandle(s, n)
           /\ call' = [call EXCEPT ![s].todo = @ \ {n}, ![s].trk = @ \union {n}]
  BY <1>1 DEF LockCkpt
<1>5. n \in Handles \ {Live}
  BY <1>3
<1>6. CASE InUse(s, n) /\ (h' = h \/ h' = [h EXCEPT ![n].refcnt = IF n \in cache[s] THEN @ ELSE @ + 1])
  <2>1. \A m \in Handles : /\ h'[m].open = h[m].open /\ h'[m].addr = h[m].addr /\ h'[m].special = h[m].special
                           /\ h'[m].discard = h[m].discard /\ h'[m].writer = h[m].writer
    BY SMTT(20), <1>0, <1>5, <1>6 DEF States
  <2>2. /\ c.op = d.op /\ c.before = d.before /\ c.trk = d.trk
        /\ \/ c.failed = d.failed /\ c.marked = d.marked \ {n} /\ c.todo = d.todo \ {n} /\ c.pc = d.pc
           \/ c.failed /\ c.pc = "off"
        /\ \A r \in Sessions \ {s} : call'[r] = call[r]
    BY <1>0, <1>1, <1>2, <1>6 DEF InUse, LockInv, LockTypes, Calls
  <2>3. Frame(s)
    BY <1>0, <1>3, <2>1, <2>2 DEF Frame
  <2>4. CkptOK(c) /\ CallOK(c)
    BY <1>3, <2>2 DEF CkptOK, CallOK, InCkpt
  <2>5. CkptOK(c)'
    BY <1>3, <2>1, <2>2, <2>3, <2>4, FrameCkpt
  <2> QED BY <1>0, <1>2, <2>3, <2>4, <2>5, FrameStep
<1>7. CASE /\ ~backup.on /\ h' = LockedHandle(s, n)
           /\ call' = [call EXCEPT ![s].todo = @ \ {n}, ![s].trk = @ \union {n}]
  <2> DEFINE k == LockedHandle(s, n)
  <2>1. /\ \A m \in Handles \ {n} : k[m] = h[m]
        /\ k[n].writer = s /\ k[n].special = h[n].special /\ k[n].discard /\ k[n].open = h[n].open /\ k[n].addr = h[n].addr
    BY SMTT(20), <1>0, <1>5, LockedIsHandle
  <2>2. h' = k
    BY <1>7
  <2> HIDE DEF k
  <2>3. /\ c.op = d.op /\ c.before = d.before /\ c.trk = d.trk \union {n} /\ c.pc = d.pc
        /\ c.failed = d.failed /\ c.marked = d.marked /\ c.todo = d.todo \ {n}
        /\ \A r \in Sessions \ {s} : call'[r] = call[r]
    BY <1>0, <1>1, <1>2, <1>7 DEF LockInv, LockTypes, Calls
  <2>4. Frame(s)
    BY <1>0, <1>3, <1>5, <2>1, <2>2, <2>3 DEF Frame
  <2>5. CkptOK(d)' /\ h'[n].discard /\ ~backup'.on
    <3>1. \A m \in d.trk : h[m].discard => h'[m].discard
      BY <1>3, <2>1, <2>2
    <3> QED BY <1>0, <1>3, <1>7, <2>1, <2>2, <2>4, <3>1, FrameCkpt
  <2>6. CkptOK(c)' /\ CallOK(c)
    BY <1>3, <2>3, <2>5 DEF CkptOK, CallOK, InCkpt
  <2> QED BY <1>0, <1>2, <2>4, <2>6, FrameStep
<1> QED BY <1>4, <1>6, <1>7

\* Closing a handle outside a tracked operation.
Shut(n) ==
  /\ SyncAndClose(n) /\ UNCHANGED backup /\ h' \in [Handles -> States]
  /\ \A m \in Handles \ {n} : h'[m] = h[m]
  /\ ~h'[n].open /\ h'[n].special = "none" /\ ~h'[n].discard

\* It writes the changes of the live tree, and keeps what is not internal.
LEMMA ShutMeta ==
  ASSUME Locking, Listing, NEW s \in Sessions, Solo(s), NEW n \in Handles, Shut(n), call[s].pc # "flush",
         NEW c, c = call'[s], CkptOK(c)', CallOK(c)', c.pc # "flush"
  PROVE  Listing'
<1> LockInv /\ MetaInv
  BY DEF Locking, Listing
<1>0. /\ file.ckpts \in SUBSET Ckpts /\ live.data \in Nat /\ live.data # Fake /\ live.data \in Addrs /\ Live \in Handles
      /\ h \in [Handles -> States] /\ MetaTypes /\ ~Checkpointing
  <2>1. ~Checkpointing
    <3>1. ASSUME NEW r \in Sessions, r # s PROVE ~InCkpt(call[r])
      BY <3>1, NoOtherCkpt DEF Solo
    <3> QED BY <3>1 DEF Checkpointing, InCkpt
  <2> QED BY SMTT(20), <2>1 DEF MetaInv, MetaTypes, Fake, Addrs, Handles, LockInv, LockTypes
<1>1. PICK k : k = file'.ckpts
  OBVIOUS
<1>2. /\ k \in SUBSET Ckpts /\ FakesFirst(k) /\ file'.exists = file.exists
      /\ Writes(n) => /\ LastAddr(k) = live.data /\ orphans' = orphans \union Internals
                      /\ \A x \in file.ckpts : x.name \notin Internals => x \in k
      /\ ~Writes(n) => k = file.ckpts /\ file' = file /\ orphans' = orphans
      /\ file' \in [exists : BOOLEAN, ckpts : SUBSET Ckpts]
  <2>1. CASE Writes(n)
    <3>1. k = Saved(file.ckpts, Internals, Internal(0), live.data) /\ MaxOf(Orders(file.ckpts)) < MaxOrder
      BY <1>0, <1>1, <2>1 DEF Shut, SyncAndClose, Written, Writes, RoomToClose, MetaTypes
    <3>2. FakesFirst(file.ckpts)
      BY DEF MetaInv, Good
    <3>3. /\ k \in SUBSET Ckpts /\ LastAddr(k) = live.data /\ FakesFirst(k)
          /\ \A x \in file.ckpts : x.name \notin Internals => x \in k
      <4>1. Saves(file.ckpts, Internal(0), live.data)
        BY <1>0, <3>1 DEF Saves
      <4>2. Follows(file.ckpts, Internals, live.data, k)
        BY <3>1, <4>1, SavedFacts
      <4> QED BY <1>0, <3>2, <4>2 DEF Follows
    <3> QED BY <1>0, <1>1, <2>1, <3>3 DEF Shut, SyncAndClose, MetaTypes
  <2>2. CASE ~Writes(n)
    BY <1>0, <1>1, <2>2 DEF Shut, SyncAndClose, MetaTypes, MetaInv, Good
  <2> QED BY <2>1, <2>2
<1>3. /\ live'.data = live.data /\ (live'.modified <=> live.modified /\ ~Writes(n)) /\ (live'.bulkok <=> live.bulkok /\ n # Live)
      /\ (unsaved' <=> unsaved /\ ~Writes(n)) /\ live' \in [data : Nat, modified : BOOLEAN, bulkok : BOOLEAN]
      /\ unsaved' \in BOOLEAN /\ backup' = backup
  BY <1>0 DEF Shut, SyncAndClose, MetaTypes
<1>4. MetaTypes'
  BY <1>0, <1>2, <1>3 DEF MetaTypes
<1>5. Good(k)'
  <2>1. BulkLoads' => FakeOnly(k)
    <3>1. CASE n = Live
      BY <1>3, <3>1 DEF BulkLoads, Shut
    <3>2. CASE n # Live
      <4>1. k = file.ckpts /\ h'[Live] = h[Live] /\ (live'.bulkok => live.bulkok)
        BY <1>0, <1>2, <1>3, <3>2 DEF Writes, Shut
      <4> QED BY <4>1 DEF BulkLoads, MetaInv, Good
    <3> QED BY <3>1, <3>2
  <2>2. orphans \subseteq orphans' /\ \A x \in file.ckpts : x \in k \/ x.name \in orphans'
    BY <1>2
  <2>3. \A m \in Handles \ {Live} : h'[m].open => h'[m] = h[m]
    BY DEF Shut
  <2> QED BY <1>2, <1>3, <2>1, <2>2, <2>3, KeepsGood
<1>6. ChangesAreSaved'
  <2>1. CASE Writes(n)
    <3>1. Content(LastAddr(k)) = live'.data
      BY <1>0, <1>2, <1>3, <2>1 DEF Content
    <3> QED BY <1>1, <3>1 DEF ChangesAreSaved
  <2>2. CASE ~Writes(n)
    BY <1>0, <1>2, <1>3, <2>2 DEF ChangesAreSaved, MetaInv
  <2> QED BY <2>1, <2>2
<1>7. live'.modified => h'[Live].open /\ h'[Live].special # "verify"
  <2>1. CASE n = Live
    BY <1>3, <2>1 DEF MetaInv, Writes
  <2>2. CASE n # Live
    BY <1>0, <1>3, <2>2 DEF MetaInv, Shut
  <2> QED BY <2>1, <2>2
<1>8. ~h'[Live].discard /\ (~backup'.on => backup'.has = {})
  BY <1>0, <1>3 DEF MetaInv, Shut
<1>9. ~file'.exists => file'.ckpts = {} /\ \A m \in Handles : ~h'[m].open
  <2>1. ASSUME ~file'.exists PROVE ~Writes(n)
    BY <1>0, <1>2, <2>1 DEF MetaInv, Writes
  <2> QED BY <1>0, <1>2, <2>1 DEF MetaInv, Shut
<1> QED BY <1>1, <1>4, <1>5, <1>6, <1>7, <1>8, <1>9, SoloStep

\* A handle that is closed to be opened in another mode, or after a verify or a
\* bulk load.
LEMMA ReopenMeta ==
  ASSUME Locking, Typed', Listing, NEW s \in Sessions, Reopen(s) \/ VerifyDone(s) \/ BulkClose(s)
  PROVE  Listing'
<1> LockInv /\ MetaInv /\ LockTypes'
  BY DEF Locking, Listing, Typed
<1>0. /\ Live \in Handles /\ h \in [Handles -> States] /\ SessionOK(s) /\ CallOK(call[s]) /\ call[s] \in Calls
      /\ call[s].pc \in {"open", "verify", "endbulk"} /\ UNCHANGED backup
  BY DEF LockInv, LockTypes, MetaInv, Handles, Reopen, VerifyDone, BulkClose, At
<1>1. SyncAndClose(Live) /\ (h' = Closed(h, Live) \/ h' = Released(Closed(h, Live), Live))
  <2>1. CASE Reopen(s)
    <3>1. Want(s) = Live
      BY <1>0, <2>1 DEF Reopen, Special, SessionOK, Flow, Want
    <3> QED BY <2>1, <3>1 DEF Reopen
  <2> QED BY <2>1 DEF VerifyDone, BulkClose
<1>2. Shut(Live)
  <2>1. CASE h' = Closed(h, Live)
    <3> DEFINE k == Closed(h, Live)
    <3>1. /\ k \in [Handles -> States] /\ \A m \in Handles \ {Live} : k[m] = h[m]
          /\ ~k[Live].open /\ k[Live].special = "none" /\ ~k[Live].discard
      BY <1>0, ClosedHandle
    <3>2. h' = k
      BY <2>1
    <3> HIDE DEF k
    <3> QED BY <1>0, <1>1, <3>1, <3>2 DEF Shut
  <2>2. CASE h' = Released(Closed(h, Live), Live)
    <3> DEFINE k == Released(Closed(h, Live), Live)
    <3>1. /\ k \in [Handles -> States] /\ \A m \in Handles \ {Live} : k[m] = h[m]
          /\ ~k[Live].open /\ k[Live].special = "none" /\ ~k[Live].discard
      BY SMTT(20), <1>0, ShutHandle
    <3>2. h' = k
      BY <2>2
    <3> HIDE DEF k
    <3> QED BY <1>0, <1>1, <3>1, <3>2 DEF Shut
  <2> QED BY <1>1, <2>1, <2>2
<1>3. \A r \in Sessions \ {s} : call'[r] = call[r]
  BY OwnCall DEF Reopen, VerifyDone, BulkClose, LockInv, LockTypes
<1>4. Solo(s)
  <2>1. CASE BulkClose(s)
    BY <1>2, <1>3, <2>1 DEF BulkClose, Solo, Shut
  <2>2. CASE ~BulkClose(s)
    <3>1. call[s].pc \in {"open", "verify"}
      BY <2>2 DEF Reopen, VerifyDone, At
    <3>2. schema = s
      BY <1>0, <3>1 DEF SessionOK, Flow, UnderSchema
    <3> QED BY <1>3, <3>2 DEF Solo
  <2> QED BY <2>1, <2>2
<1>5. PICK c : c = call'[s]
  OBVIOUS
<1>6. CkptOK(c)' /\ CallOK(c)' /\ c.pc # "flush"
  <2>1. CASE Reopen(s)
    <3>1. c = call[s] /\ call[s].op \in {"bulk", "verify"} /\ call[s].pc = "open" /\ call[s].want = Live
      BY <1>0, <1>5, <2>1 DEF Reopen, Special, SessionOK, Flow, At
    <3> QED BY <1>0, <3>1 DEF CkptOK, CallOK, InCkpt
  <2>2. CASE ~Reopen(s)
    <3>1. c = Idle
      BY <1>5, <2>2 DEF VerifyDone, BulkClose, Return, LockInv, LockTypes
    <3> QED BY <3>1, IdleIsCall DEF CkptOK, CallOK, InCkpt
  <2> QED BY <2>1, <2>2
<1> QED BY <1>0, <1>2, <1>4, <1>5, <1>6, ShutMeta

\* A session gives up a handle of its cache.
LEMMA DiscardMeta ==
  ASSUME Locking, Typed', Listing, NEW s \in Sessions, DiscardBtree(s)
  PROVE  Listing'
<1> LockInv /\ MetaInv /\ LockTypes'
  BY DEF Locking, Listing, Typed
<1>0. /\ Live \in Handles /\ h \in [Handles -> States] /\ SessionOK(s) /\ CallOK(call[s]) /\ call[s] \in Calls
      /\ call[s].pc = "discard" /\ UNCHANGED <<backup, call>> /\ cache[s] \subseteq Handles /\ ~h[Live].discard
  BY DEF LockInv, LockTypes, MetaInv, Handles, DiscardBtree, At
<1>1. call[s].op = "close" /\ schema = s
  <2>1. call[s].op = "close"
    BY <1>0 DEF SessionOK, Flow
  <2> QED BY <1>0, <2>1 DEF SessionOK, UnderSchema
<1>2. PICK c : c = call'[s]
  OBVIOUS
<1>3. c = call[s] /\ CkptOK(c)' /\ CallOK(c) /\ CallOK(c)' /\ c.pc # "flush"
  BY <1>0, <1>1, <1>2 DEF CkptOK, CallOK, InCkpt
<1>4. PICK n \in cache[s] :
        \/ h' = [h EXCEPT ![n].refcnt = @ - 1] /\ UNCHANGED <<file, live, orphans, unsaved>>
        \/ SyncAndClose(n) /\ h' = [Closed(h, n) EXCEPT ![n].refcnt = 0]
  BY DEF DiscardBtree
<1>5. CASE h' = [h EXCEPT ![n].refcnt = @ - 1] /\ UNCHANGED <<file, live, orphans, unsaved>>
  <2>1. \A m \in Handles : /\ h'[m].open = h[m].open /\ h'[m].addr = h[m].addr /\ h'[m].special = h[m].special
                           /\ h'[m].discard = h[m].discard /\ h'[m].writer = h[m].writer
    BY <1>0, <1>5 DEF States
  <2>2. Frame(s)
    BY <1>0, <1>1, <1>5, <2>1 DEF Frame
  <2> QED BY <1>0, <1>2, <1>3, <2>2, FrameStep
<1>6. CASE SyncAndClose(n) /\ h' = [Closed(h, n) EXCEPT ![n].refcnt = 0]
  <2> DEFINE k == Closed(h, n)
  <2>1. /\ k \in [Handles -> States] /\ \A m \in Handles \ {n} : k[m] = h[m]
        /\ ~k[n].open /\ k[n].special = "none" /\ ~k[n].discard
    BY <1>0, ClosedHandle
  <2>2. h' = [k EXCEPT ![n].refcnt = 0] /\ h' \in [Handles -> States] /\ n \in Handles
    BY <1>0, <1>6 DEF LockTypes
  <2> HIDE DEF k
  <2>3. Shut(n)
    BY <1>0, <1>6, <2>1, <2>2 DEF Shut, States
  <2>4. Solo(s)
    BY <1>0, <1>1 DEF Solo
  <2> QED BY <1>0, <1>2, <1>3, <2>2, <2>3, <2>4, ShutMeta
<1> QED BY <1>4, <1>5, <1>6

\* A handle is opened at the address the metadata has.
LEMMA OpenHandleMeta ==
  ASSUME Locking, Typed', Listing, NEW s \in Sessions, OpenHandle(s)
  PROVE  Listing'
<1> LockInv /\ MetaInv /\ LockTypes'
  BY DEF Locking, Listing, Typed
<1> DEFINE n == Want(s)
<1>0. /\ call[s].pc = "open" /\ UNCHANGED <<file, backup, orphans>> /\ file.exists /\ ~h[n].open /\ CanOpen(s)
      /\ live' = (IF n = Live THEN OpenedTree(s) ELSE live) /\ unsaved' = (unsaved /\ n # Live)
      /\ CallOK(call[s]) /\ CkptOK(call[s]) /\ MetaTypes
  BY DEF OpenHandle, At, MetaInv
<1>1. /\ n \in Handles /\ Live \in Handles /\ SessionOK(s) /\ s # None /\ ~h[Live].discard /\ HandleOK(n)
      /\ (call[s].op \notin {"open", "last"} => n = Live) /\ call[s] \in Calls
      /\ h \in [Handles -> States] /\ schema = s /\ call[s].op # "drop"
  <2>1. call[s].op \notin {"none", "drop"} /\ schema = s
    BY <1>0 DEF LockInv, SessionOK, Flow, UnderSchema
  <2> QED BY <2>1, Wanted
<1>2. /\ h'[n].open /\ h'[n].special = Special(s) /\ h'[n].addr = AddrOf(n) /\ h'[n].discard = h[n].discard
      /\ \A m \in Handles \ {n} : h'[m] = h[m]
  BY <1>1 DEF OpenHandle, States
<1>3. file.ckpts \in SUBSET Ckpts /\ (LastAddr(file.ckpts) = Fake => FakeOnly(file.ckpts))
  <2>1. file.ckpts \in SUBSET Ckpts
    BY <1>0 DEF MetaTypes
  <2>2. ASSUME Real(file.ckpts) # {} PROVE LastAddr(file.ckpts) # Fake
    <3>1. Real(file.ckpts) \in SUBSET Ckpts
      BY <2>1 DEF Real
    <3>2. Latest(Real(file.ckpts)) \in Real(file.ckpts)
      BY <2>2, <3>1, LatestIsIn
    <3> QED BY <2>2, <3>2 DEF LastAddr, Real
  <2> QED BY <2>1, <2>2 DEF FakeOnly
<1>4. Good(file.ckpts) /\ ChangesAreSaved /\ (~backup.on => backup.has = {}) /\ (live.modified => h[Live].open /\ h[Live].special # "verify")
  BY DEF MetaInv
<1>5. Good(file.ckpts)'
  <2>1. Current(file.ckpts)'
    <3>1. ASSUME n # Live PROVE \E c \in file.ckpts : c.name = n /\ c.addr = h'[n].addr
      <4>1. n \in NamesOf(file.ckpts) /\ AddrOf(n) = Named(file.ckpts, n).addr
        BY <1>0, <3>1 DEF CanOpen, AddrOf
      <4> QED BY <1>2, <1>3, <4>1, AddrIsIn
    <3> QED BY SMTT(20), <1>0, <1>2, <1>4, <3>1 DEF Current, Good
  <2>2. BulkLoads' => FakeOnly(file.ckpts)
    <3>1. CASE n = Live
      BY <1>0, <1>2, <1>3, <3>1 DEF BulkLoads, OpenedTree, CanOpen, AddrOf
    <3>2. CASE n # Live
      BY <1>0, <1>1, <1>2, <1>4, <3>2 DEF BulkLoads, Good
    <3> QED BY <3>1, <3>2
  <2> QED BY <1>0, <1>4, <2>1, <2>2 DEF Good, FakesFirst, FakeOnly, Real, NamesOf
<1>6. MetaTypes' /\ ChangesAreSaved' /\ (live'.modified => h'[Live].open /\ h'[Live].special # "verify")
  <2>1. CASE n = Live
    <3>1. /\ live'.data = Content(LastAddr(file.ckpts)) /\ ~live'.modified
          /\ live' \in [data : Nat, modified : BOOLEAN, bulkok : BOOLEAN]
      BY <1>0, <1>3, <2>1, LastAddrIsIn DEF OpenedTree, AddrOf
    <3> QED BY <1>0, <3>1 DEF MetaTypes, ChangesAreSaved
  <2>2. CASE n # Live
    <3>1. Checkpointing => Checkpointing'
      <4>1. \A r \in Sessions \ {s} : call'[r] = call[r]
        BY OwnCall DEF OpenHandle
      <4> QED BY <1>0, <4>1 DEF Checkpointing
    <3> QED BY <1>0, <1>1, <1>2, <1>4, <2>2, <3>1 DEF MetaTypes, ChangesAreSaved
  <2> QED BY <2>1, <2>2
<1>7. PICK c : c = call'[s]
  OBVIOUS
<1>8. CkptOK(c)' /\ CallOK(c)'
  <2>1. CASE Excl(s)
    <3>1. call[s].op \in {"bulk", "verify"} /\ Granted(s)
      BY <1>1, <2>1 DEF Excl, OpenHandle
    <3>2. c.op \in {"none", "bulk", "verify"} /\ c.pc # "open"
      BY <1>1, <1>7, <3>1, IdleIsCall DEF Granted, LockInv, LockTypes, Calls, Onward, ForCursor
    <3> QED BY <3>2 DEF CkptOK, CallOK, InCkpt
  <2>2. CASE ~Excl(s)
    <3>1. /\ c.op = call[s].op /\ c.pc = "lock" /\ c.trk = call[s].trk /\ c.failed = call[s].failed
          /\ c.before = call[s].before
      BY SMTT(20), <1>1, <1>7, <2>2 DEF OpenHandle, Jump, LockInv, LockTypes, Calls
    <3>2. c.trk = {} /\ (c.op = "checkpoint" => ~c.failed /\ InCkpt(call[s]))
      BY <1>0, <1>1, <3>1 DEF SessionOK, Flow, CallOK, InCkpt
    <3>3. c.op = "checkpoint" => c.before = file.ckpts
      BY <1>0, <3>1, <3>2 DEF CkptOK
    <3>4. c.op = "checkpoint" => Good(c.before)'
      BY <1>0, <1>5, <3>3
    <3>5. CallOK(c)'
      BY <1>1, <3>1, <3>2 DEF CallOK
    <3>6. CkptOK(c)'
      <4>1. c.op = "checkpoint" => file'.ckpts = c.before /\ file'.exists /\ ~c.failed
        BY <1>0, <3>2, <3>3
      <4> QED BY <3>1, <3>2, <3>4, <4>1 DEF CkptOK, InCkpt
    <3> QED BY <3>5, <3>6
  <2> QED BY <2>1, <2>2
<1>9. Solo(s) /\ ~h'[Live].discard
  <2>1. \A r \in Sessions \ {s} : call'[r] = call[r]
    BY OwnCall DEF OpenHandle
  <2> QED BY <1>1, <1>2, <2>1 DEF Solo
<1> QED BY <1>0, <1>4, <1>5, <1>6, <1>7, <1>8, <1>9, SoloStep

\* What a checkpoint that is about to write relies on: the handles of the
\* checkpoints it deletes are locked, and no backup copies them.
LEMMA Writing ==
  ASSUME Locking, Listing, NEW s \in Sessions, call[s].pc \in {"cklock", "flush"}, call[s].todo = {}
  PROVE  /\ call[s].op = "checkpoint" /\ schema = s /\ file.ckpts = call[s].before /\ file.exists /\ ~call[s].failed
         /\ MaxOf(Orders(file.ckpts)) < MaxOrder /\ call[s].name \in Names \union {Internal(0)}
         /\ h[Live].open /\ h[Live].special # "verify"
         /\ call[s].marked \subseteq Handles /\ \A n \in call[s].marked : h[n].writer = s /\ n \notin backup.has
         /\ s # None /\ call[s] \in Calls /\ CkptOK(call[s]) /\ InCkpt(call[s]) /\ ~InCkpt(Idle)
         /\ call[s].pc = "cklock" => ~Checkpointing
<1> LockInv /\ MetaInv
  BY DEF Locking, Listing
<1>1. SessionOK(s) /\ call[s] \in Calls /\ CkptOK(call[s]) /\ CallOK(call[s]) /\ s # None
  BY SessionsAssumption DEF LockInv, LockTypes, MetaInv
<1>2. call[s].op = "checkpoint" /\ InCkpt(call[s]) /\ call[s].name # Live
  BY <1>1 DEF SessionOK, Flow, InCkpt
<1>3. schema = s /\ ~call[s].failed
  BY <1>1, <1>2 DEF SessionOK, UnderSchema, CallOK
<1>4. /\ file.ckpts = call[s].before /\ file.exists /\ h[Live].open /\ h[Live].special # "verify"
      /\ MaxOf(Orders(file.ckpts)) < MaxOrder /\ call[s].marked \subseteq call[s].trk /\ (backup.on => call[s].trk = {})
  BY <1>1, <1>2 DEF CkptOK
<1>5. \A n \in call[s].marked : h[n].writer = s /\ n \notin backup.has
  <2>1. \A n \in call[s].trk : h[n].writer = s
    BY <1>1 DEF SessionOK, Locks
  <2>2. ~backup.on => backup.has = {}
    BY DEF MetaInv
  <2> QED BY <1>4, <2>1, <2>2
<1>6. call[s].pc = "cklock" => ~Checkpointing
  <2>1. ASSUME NEW r \in Sessions, r # s PROVE ~InCkpt(call[r])
    BY <1>3, <2>1, NoOtherCkpt
  <2> QED BY <2>1 DEF Checkpointing, InCkpt
<1>7. call[s].name \in Names \union {Internal(0)} /\ call[s].marked \subseteq Handles
  BY <1>1, <1>2 DEF Calls
<1>8. ~InCkpt(Idle)
  BY IdleIsCall DEF InCkpt
<1> QED BY <1>1, <1>2, <1>3, <1>4, <1>5, <1>6, <1>7, <1>8

\* A checkpoint is written: without an address, or with one that has the changes.
LEMMA WriteMeta ==
  ASSUME Locking, Listing, NEW s \in Sessions, call[s].pc \in {"cklock", "flush"}, call[s].todo = {},
         Jump(s, "off"), UNCHANGED <<h, backup, orphans>>, NEW addr \in Addrs,
         file' = [file EXCEPT !.ckpts = Saved(file.ckpts, call[s].marked, call[s].name, addr)],
         live' \in [data : Nat, modified : BOOLEAN, bulkok : BOOLEAN], live'.bulkok = live.bulkok, unsaved' \in BOOLEAN,
         BulkLoads <=> addr = Fake,
         ~live'.modified /\ ~unsaved' => Content(addr) = live'.data
  PROVE  Listing'
<1> LockInv /\ MetaInv
  BY DEF Locking, Listing
<1>1. /\ call[s].op = "checkpoint" /\ schema = s /\ file.ckpts = call[s].before /\ file.exists /\ ~call[s].failed
      /\ MaxOf(Orders(file.ckpts)) < MaxOrder /\ call[s].name \in Names \union {Internal(0)}
      /\ h[Live].open /\ h[Live].special # "verify"
      /\ call[s].marked \subseteq Handles /\ \A n \in call[s].marked : h[n].writer = s /\ n \notin backup.has
      /\ s # None /\ call[s] \in Calls /\ CkptOK(call[s]) /\ InCkpt(call[s])
  BY Writing
<1>2. /\ file.ckpts \in SUBSET Ckpts /\ MetaTypes /\ Good(file.ckpts) /\ ~h[Live].discard /\ (~backup.on => backup.has = {})
  BY DEF MetaInv, MetaTypes
<1>3. PICK k : k = file'.ckpts
  OBVIOUS
<1>4. k = Saved(file.ckpts, call[s].marked, call[s].name, addr) /\ file'.exists = file.exists
  BY <1>2, <1>3 DEF MetaTypes
<1>5. /\ k \in SUBSET Ckpts /\ \A x \in file.ckpts : x.name \notin call[s].marked => x \in k
      /\ addr # Fake => LastAddr(k) = addr
      /\ addr = Fake /\ FakeOnly(file.ckpts) => FakeOnly(k)
      /\ FakesFirst(file.ckpts) /\ (addr # Fake \/ FakeOnly(file.ckpts)) => FakesFirst(k)
  <2>1. Saves(file.ckpts, call[s].name, addr)
    BY <1>1, <1>2 DEF Saves
  <2>2. Follows(file.ckpts, call[s].marked, addr, k)
    BY <1>4, <2>1, SavedFacts
  <2> QED BY <2>2 DEF Follows
<1>6. FakesFirst(k) /\ (BulkLoads => FakeOnly(k)) /\ LastAddr(k) = addr
  <2>1. FakesFirst(file.ckpts) /\ (BulkLoads => FakeOnly(file.ckpts))
    BY <1>2 DEF Good
  <2>2. FakeOnly(k) => LastAddr(k) = Fake
    BY DEF FakeOnly, LastAddr
  <2> QED BY <1>5, <2>1, <2>2
<1>7. Good(k)'
  <2>1. BulkLoads' => FakeOnly(k)
    BY <1>6 DEF BulkLoads
  <2>2. \A x \in file.ckpts : x \in k \/ (h'[x.name].writer # None /\ x.name \notin backup'.has)
    BY <1>1, <1>5
  <2> QED BY <1>6, <2>1, <2>2, KeepsGood
<1>8. MetaTypes' /\ ChangesAreSaved'
  <2>1. MetaTypes'
    BY <1>2, <1>3, <1>5 DEF MetaTypes
  <2>2. ~live'.modified /\ ~unsaved' => Content(LastAddr(k)) = live'.data
    BY <1>6
  <2> QED BY <1>3, <2>1, <2>2 DEF ChangesAreSaved
<1>9. PICK c : c = call'[s]
  OBVIOUS
<1>10. /\ c.op = "checkpoint" /\ c.pc = "off" /\ c.trk = call[s].trk /\ c.failed = call[s].failed /\ c.before = call[s].before
       /\ \A r \in Sessions \ {s} : call'[r] = call[r]
  BY <1>1, <1>9 DEF Jump, LockInv, LockTypes, Calls
<1>11. CkptOK(c)' /\ CallOK(c)'
  <2>1. Good(c.before)'
    <3>1. Good(c.before)
      BY <1>1, <1>2, <1>10
    <3>2. BulkLoads' <=> BulkLoads
      BY DEF BulkLoads
    <3> QED BY <3>1, <3>2 DEF Good, Current, FakesFirst, FakeOnly, Real, NamesOf
  <2>2. (\A n \in c.trk : h[n].discard) /\ (backup.on => c.trk = {})
    BY <1>1, <1>10 DEF CkptOK
  <2> QED BY <1>1, <1>4, <1>10, <2>1, <2>2 DEF CkptOK, CallOK
<1>12. Solo(s)
  BY <1>1, <1>10 DEF Solo
<1>13. ~file'.exists => file'.ckpts = {} /\ \A n \in Handles : ~h'[n].open
  BY <1>1, <1>4
<1> QED BY <1>1, <1>2, <1>3, <1>7, <1>8, <1>9, <1>11, <1>12, <1>13, SoloStep

\* The checkpoint of a file that may be bulk-loaded, and that of a tree.
LEMMA FakeFlushMeta ==
  ASSUME Locking, Listing, NEW s \in Sessions, FakeCkpt(s) \/ FlushCkpt(s)
  PROVE  Listing'
<1> LockInv /\ MetaInv
  BY DEF Locking, Listing
<1>0. MetaTypes /\ Good(file.ckpts) /\ CkptOK(call[s]) /\ ChangesAreSaved /\ call[s] \in Calls
  BY DEF MetaInv, LockInv, LockTypes
<1>1. CASE FakeCkpt(s)
  <2>1. call[s].pc = "cklock" /\ call[s].todo = {} /\ Jump(s, "off") /\ UNCHANGED <<live, h, backup, orphans, unsaved>>
    BY <1>1 DEF FakeCkpt, Ready, At
  <2>2. file.exists /\ ~Checkpointing
    BY <2>1, Writing
  <2>3. BulkLoads /\ FakeOnly(file.ckpts)
    BY <1>0, <1>1 DEF FakeCkpt, BulkLoads, Good
  <2>4. LastAddr(file.ckpts) = Fake /\ Fake \in Addrs
    BY <2>3 DEF FakeOnly, LastAddr, Addrs
  <2>5. file' = [file EXCEPT !.ckpts = Saved(file.ckpts, call[s].marked, call[s].name, Fake)]
    BY <1>1, <2>3 DEF FakeCkpt
  <2>6. ~live.modified /\ ~unsaved => Content(Fake) = live.data
    BY <1>0, <2>2, <2>4 DEF ChangesAreSaved
  <2> QED BY <1>0, <2>1, <2>3, <2>4, <2>5, <2>6, WriteMeta DEF MetaTypes
<1>2. CASE FlushCkpt(s)
  <2> DEFINE addr == call[s].snap
  <2>1. call[s].pc = "flush" /\ Jump(s, "off") /\ UNCHANGED <<h, backup, orphans>>
    BY <1>2 DEF FlushCkpt, At
  <2>2. call[s].op = "checkpoint"
    BY <2>1 DEF LockInv, SessionOK, Flow
  <2>3. call[s].todo = {} /\ ~BulkLoads
    BY <1>0, <2>1, <2>2 DEF CkptOK, InCkpt
  <2>4. addr \in Nat /\ addr \in Addrs /\ addr # Fake /\ Content(addr) = addr
    BY SMTT(20), <1>0 DEF Calls, Addrs, Fake, Content
  <2>5. file' = [file EXCEPT !.ckpts = Saved(file.ckpts, call[s].marked, call[s].name, addr)]
    BY <1>2 DEF FlushCkpt
  <2>6. /\ live' \in [data : Nat, modified : BOOLEAN, bulkok : BOOLEAN] /\ live'.bulkok = live.bulkok /\ unsaved' \in BOOLEAN
        /\ live'.data = live.data /\ (~live'.modified => live.data = addr)
    BY <1>0, <1>2 DEF FlushCkpt, MetaTypes
  <2> HIDE DEF addr
  <2> QED BY <2>1, <2>3, <2>4, <2>5, <2>6, WriteMeta
<1> QED BY <1>1, <1>2

\* The tree is marked clean before it is written, or the write fails.
LEMMA ClearFailMeta ==
  ASSUME Locking, Listing, NEW s \in Sessions, ClearModified(s) \/ CkptFails(s)
  PROVE  Listing'
<1> LockInv /\ MetaInv
  BY DEF Locking, Listing
<1>0. /\ UNCHANGED <<file, h, backup, orphans>> /\ MetaTypes /\ Good(file.ckpts) /\ CkptOK(call[s])
      /\ call[s] \in Calls /\ SessionOK(s) /\ call[s].pc \in {"cklock", "flush", "off"}
  BY DEF ClearModified, CkptFails, Ready, At, MetaInv, LockInv, LockTypes
<1>1. call[s].op = "checkpoint" /\ schema = s /\ InCkpt(call[s])
  <2>1. call[s].op = "checkpoint"
    BY <1>0 DEF SessionOK, Flow, CkptFails, ClearModified, Ready, At
  <2> QED BY <1>0, <2>1 DEF SessionOK, UnderSchema, InCkpt
<1>2. PICK c : c = call'[s]
  OBVIOUS
<1>3. /\ live' \in [data : Nat, modified : BOOLEAN, bulkok : BOOLEAN] /\ live'.bulkok = live.bulkok /\ unsaved' \in BOOLEAN
      /\ (live'.modified => live.modified)
  BY <1>0 DEF ClearModified, CkptFails, MetaTypes
<1>4. /\ c.op = "checkpoint" /\ c.trk = call[s].trk /\ c.before = call[s].before /\ c.todo = call[s].todo /\ c.marked = call[s].marked
      /\ \A r \in Sessions \ {s} : call'[r] = call[r]
      /\ ClearModified(s) => c.pc = "flush" /\ c.failed = call[s].failed
      /\ CkptFails(s) => c.pc = "off" /\ c.failed
  BY SMTT(20), <1>0, <1>1, <1>2 DEF ClearModified, CkptFails, Jump, LockInv, LockTypes, Calls
<1>5. (BulkLoads' <=> BulkLoads) /\ \A cs : Good(cs) => Good(cs)'
  <2>1. BulkLoads' <=> BulkLoads
    BY <1>0, <1>3 DEF BulkLoads
  <2> QED BY <1>0, <2>1 DEF Good, Current, FakesFirst, FakeOnly, Real, NamesOf
<1>6. Good(c.before)' /\ Good(file.ckpts)'
  <2>1. Good(c.before)
    BY <1>0, <1>1, <1>4 DEF CkptOK
  <2>2. PICK cs : cs = file.ckpts
    OBVIOUS
  <2>3. Good(cs)' /\ cs = file'.ckpts
    BY <1>0, <1>5, <2>2
  <2> QED BY <1>5, <2>1, <2>3
<1>7. CkptOK(c)' /\ CallOK(c)'
  <2>1. CASE ClearModified(s)
    <3>1. call[s].pc = "cklock" /\ call[s].todo = {} /\ ~BulkLoads
      BY <2>1 DEF ClearModified, Ready, At, BulkLoads
    <3>2. ~call[s].failed
      BY <3>1, Writing
    <3> QED BY <1>0, <1>1, <1>4, <1>5, <1>6, <2>1, <3>1, <3>2 DEF CkptOK, CallOK
  <2>2. CASE CkptFails(s)
    <3>1. unsaved' \/ live'.modified
      BY <2>2 DEF CkptFails
    <3>2. file.exists
      <4>1. call[s].pc = "flush" \/ file.ckpts # call[s].before
        BY <2>2 DEF CkptFails, At
      <4>2. ~file.exists => file.ckpts = {}
        BY DEF MetaInv
      <4> QED BY <1>0, <1>1, <4>1, <4>2 DEF CkptOK
    <3> QED BY <1>0, <1>1, <1>4, <1>6, <2>2, <3>1, <3>2 DEF CkptOK, CallOK
  <2> QED BY <2>1, <2>2
<1>8. MetaTypes' /\ ChangesAreSaved'
  <2>1. MetaTypes'
    BY <1>0, <1>3 DEF MetaTypes
  <2>2. ChangesAreSaved'
    <3>1. CASE ClearModified(s)
      BY <1>2, <1>4, <3>1 DEF ChangesAreSaved, Checkpointing
    <3>2. CASE CkptFails(s)
      BY <3>2 DEF CkptFails, ChangesAreSaved
    <3> QED BY <3>1, <3>2
  <2> QED BY <2>1, <2>2
<1>9. Solo(s)
  BY <1>1, <1>4 DEF Solo
<1>10. /\ ~file'.exists => file'.ckpts = {} /\ \A n \in Handles : ~h'[n].open
       /\ ~h'[Live].discard /\ (live'.modified => h'[Live].open /\ h'[Live].special # "verify")
       /\ ~backup'.on => backup'.has = {}
  BY <1>0, <1>3 DEF MetaInv
<1> QED BY <1>2, <1>6, <1>7, <1>8, <1>9, <1>10, SoloStep

\* Tracking is turned off: a failed checkpoint is undone, the handles of deleted
\* checkpoints are closed.
LEMMA TrackOffMeta ==
  ASSUME Locking, Listing, NEW s \in Sessions, TrackOff(s)
  PROVE  Listing'
<1> LockInv /\ MetaInv
  BY DEF Locking, Listing
<1>0. /\ UNCHANGED <<live, backup, orphans, unsaved>> /\ MetaTypes /\ Good(file.ckpts) /\ CkptOK(call[s]) /\ CallOK(call[s])
      /\ call[s] \in Calls /\ SessionOK(s) /\ call[s].pc = "off" /\ Live \in Handles /\ Return(s) /\ h \in [Handles -> States]
      /\ ~h[Live].discard
  BY DEF TrackOff, At, MetaInv, LockInv, LockTypes, Handles
<1>1. schema = s /\ call[s].op \in {"checkpoint", "drop"}
  <2>1. call[s].op \in {"checkpoint", "drop"}
    BY <1>0 DEF SessionOK, Flow
  <2> QED BY <1>0, <2>1 DEF SessionOK, UnderSchema
<1> DEFINE W == call[s].trk
           k == Unlock(h, W)
<1>2. W \subseteq Handles /\ (call[s].op = "checkpoint" => Live \notin W) /\ \A n \in W \ {Live} : ~h[n].open \/ h[n].discard
  <2>1. CASE call[s].op = "checkpoint"
    <3>1. \A n \in W : h[n].discard
      BY <1>0, <2>1 DEF CkptOK, InCkpt
    <3> QED BY <1>0, <2>1, <3>1 DEF Calls
  <2>2. CASE call[s].op = "drop"
    BY <1>0, <2>2 DEF CallOK, Calls
  <2> QED BY <1>1, <2>1, <2>2
<1>3. /\ \A m \in Handles \ W : k[m] = h[m]
      /\ \A m \in W : k[m].special \in {"none", h[m].special} /\ (k[m].open <=> h[m].open /\ ~h[m].discard) /\ ~k[m].discard
  BY SMTT(20), <1>0, <1>2, UnlockHandles
<1>4. h' = k
  BY DEF TrackOff
<1> HIDE DEF k
<1>5. /\ \A m \in Handles \ {Live} : h'[m].open => h'[m] = h[m]
      /\ h'[Live].open = h[Live].open /\ h'[Live].special \in {"none", h[Live].special} /\ ~h'[Live].discard
      /\ \A m \in Handles : h'[m].open => h[m].open
  <2>1. \A m \in Handles \ {Live} : h'[m].open => h'[m] = h[m]
    BY <1>2, <1>3, <1>4
  <2>2. h'[Live].open = h[Live].open /\ h'[Live].special \in {"none", h[Live].special} /\ ~h'[Live].discard
    <3>1. CASE Live \in W
      <4>1. (h'[Live].open <=> h[Live].open) /\ h'[Live].special \in {"none", h[Live].special} /\ ~h'[Live].discard
        BY <1>0, <1>3, <1>4, <3>1
      <4>2. h'[Live].open \in BOOLEAN /\ h[Live].open \in BOOLEAN
        BY SMTT(20), <1>0, <1>2, <1>4, UnlockHandles DEF States, k
      <4> QED BY <4>1, <4>2
    <3>2. CASE Live \notin W
      BY <1>0, <1>3, <1>4, <3>2
    <3> QED BY <3>1, <3>2
  <2> QED BY <2>1, <2>2
<1>6. \A cs : Good(cs) => Good(cs)'
  <2>1. BulkLoads' => BulkLoads
    BY <1>0, <1>5 DEF BulkLoads
  <2> QED BY SMTT(20), <1>0, <1>5, <2>1 DEF Good, Current, FakesFirst, FakeOnly, Real, NamesOf
<1>7. PICK cs : cs = file'.ckpts
  OBVIOUS
<1>8. /\ cs \in SUBSET Ckpts /\ Good(cs) /\ file' \in [exists : BOOLEAN, ckpts : SUBSET Ckpts] /\ file'.exists = file.exists
      /\ cs = file.ckpts \/ (file.exists /\ (unsaved \/ live.modified))
  <2>1. CASE call[s].failed /\ call[s].op = "checkpoint"
    <3>1. cs = call[s].before /\ file' = [file EXCEPT !.ckpts = call[s].before] /\ call[s].before \in SUBSET Ckpts
      BY <1>0, <1>7, <2>1 DEF TrackOff, MetaTypes, Calls
    <3>2. /\ Good(call[s].before) /\ file.exists
          /\ call[s].before = file.ckpts \/ unsaved \/ live.modified
      BY <1>0, <2>1 DEF CkptOK, InCkpt
    <3> QED BY <1>0, <3>1, <3>2 DEF MetaTypes
  <2>2. CASE ~(call[s].failed /\ call[s].op = "checkpoint")
    BY <1>0, <1>7, <2>2 DEF TrackOff, MetaTypes
  <2> QED BY <2>1, <2>2
<1>9. Good(cs)' /\ MetaTypes'
  BY <1>0, <1>6, <1>8 DEF MetaTypes
<1>10. ChangesAreSaved'
  <2>1. ~Checkpointing
    <3>1. ASSUME NEW r \in Sessions, r # s PROVE ~InCkpt(call[r])
      BY <1>1, <3>1, NoOtherCkpt
    <3> QED BY <1>0, <3>1 DEF Checkpointing, InCkpt
  <2>2. ChangesAreSaved
    BY DEF MetaInv
  <2> QED BY <1>0, <1>7, <1>8, <2>1, <2>2 DEF ChangesAreSaved
<1>11. PICK c : c = call'[s]
  OBVIOUS
<1>12. c = Idle /\ \A r \in Sessions \ {s} : call'[r] = call[r]
  BY <1>0, <1>11 DEF Return, LockInv, LockTypes
<1>13. Solo(s) /\ CkptOK(c)' /\ CallOK(c)'
  <2>1. CkptOK(c)' /\ CallOK(c)'
    BY <1>12, IdleIsCall DEF CkptOK, CallOK, InCkpt
  <2> QED BY <1>1, <1>12, <2>1 DEF Solo
<1>14. /\ ~file'.exists => file'.ckpts = {} /\ \A n \in Handles : ~h'[n].open
       /\ ~h'[Live].discard /\ (live'.modified => h'[Live].open /\ h'[Live].special # "verify")
       /\ ~backup'.on => backup'.has = {}
  BY <1>0, <1>5, <1>7, <1>8 DEF MetaInv
<1> QED BY <1>7, <1>9, <1>10, <1>11, <1>13, <1>14, SoloStep

\* A drop closes the handles one by one.
LEMMA CloseOneMeta ==
  ASSUME Locking, Typed', Listing, NEW s \in Sessions, CloseOne(s)
  PROVE  Listing'
<1> LockInv /\ MetaInv /\ LockTypes'
  BY DEF Locking, Listing, Typed
<1>0. /\ UNCHANGED <<backup, orphans>> /\ MetaTypes /\ Good(file.ckpts) /\ CallOK(call[s]) /\ ChangesAreSaved
      /\ call[s] \in Calls /\ SessionOK(s) /\ call[s].pc = "closeall" /\ Live \in Handles /\ h \in [Handles -> States]
      /\ ~h[Live].discard /\ (live.modified => h[Live].open /\ h[Live].special # "verify") /\ (~backup.on => backup.has = {})
      /\ s # None /\ cache \in [Sessions -> SUBSET Handles]
  BY SessionsAssumption DEF CloseOne, At, MetaInv, LockInv, LockTypes, Handles
<1>1. schema = s /\ call[s].op = "drop"
  <2>1. call[s].op = "drop"
    BY <1>0 DEF SessionOK, Flow
  <2> QED BY <1>0, <2>1 DEF SessionOK, UnderSchema
<1>2. ~Checkpointing
  <2>1. ASSUME NEW r \in Sessions, r # s PROVE ~InCkpt(call[r])
    BY <1>1, <2>1, NoOtherCkpt
  <2> QED BY <1>0, <2>1 DEF Checkpointing, InCkpt
<1>3. PICK c : c = call'[s]
  OBVIOUS
<1>4. PICK n \in Handles :
       \/ /\ call' = [call EXCEPT ![s].failed = TRUE, ![s].pc = "off", ![s].trk = @ \union {Live}]
          /\ UNCHANGED <<file, live, h, cache, unsaved>>
       \/ /\ n # Live
          /\ h' = [Closed(h, n) EXCEPT ![n].writer = s]
          /\ call' = [call EXCEPT ![s].todo = @ \union {n}, ![s].trk = @ \union {n, Live}]
          /\ UNCHANGED <<file, live, cache, unsaved>>
       \/ /\ n = Live /\ RoomToClose
          /\ LET old == IF h[Live].open /\ live.modified THEN CanDelete(s) ELSE {}
             IN /\ file' = IF h[Live].open THEN [file EXCEPT !.ckpts = Written(old)] ELSE file
                /\ h' = [m \in Handles |->
                           IF m = Live THEN Closed(h, Live)[Live]
                           ELSE IF m \in old THEN Unlock(LockedHandle(s, m), {m})[m] ELSE h[m]]
          /\ live' = [live EXCEPT !.modified = FALSE, !.bulkok = FALSE]
          /\ unsaved' = (unsaved /\ ~live.modified)
          /\ call' = [call EXCEPT ![s].todo = @ \union {n}, ![s].trk = @ \union {n}]
  BY DEF CloseOne
<1>5. CASE /\ call' = [call EXCEPT ![s].failed = TRUE, ![s].pc = "off", ![s].trk = @ \union {Live}]
           /\ UNCHANGED <<file, live, h, cache, unsaved>>
  <2>1. /\ c.op = "drop" /\ c.pc = "off" /\ c.todo = call[s].todo /\ c.trk = call[s].trk \union {Live}
        /\ \A r \in Sessions \ {s} : call'[r] = call[r]
    BY <1>0, <1>1, <1>3, <1>5 DEF LockInv, LockTypes, Calls
  <2>2. Frame(s)
    BY <1>0, <1>5, <2>1, SameFrame
  <2>3. CkptOK(c)' /\ CallOK(c)
    BY <1>0, <1>1, <2>1 DEF CkptOK, InCkpt, CallOK
  <2> QED BY <1>0, <1>3, <2>2, <2>3, FrameStep
<1>6. CASE /\ n # Live
           /\ h' = [Closed(h, n) EXCEPT ![n].writer = s]
           /\ call' = [call EXCEPT ![s].todo = @ \union {n}, ![s].trk = @ \union {n, Live}]
           /\ UNCHANGED <<file, live, cache, unsaved>>
  <2> DEFINE k == Closed(h, n)
  <2>1. k \in [Handles -> States] /\ (\A m \in Handles \ {n} : k[m] = h[m]) /\ ~k[n].open
    BY <1>0, ClosedHandle
  <2>2. h' = [k EXCEPT ![n].writer = s]
    BY <1>6
  <2> HIDE DEF k
  <2>3. (\A m \in Handles \ {n} : h'[m] = h[m]) /\ ~h'[n].open
    BY <2>1, <2>2 DEF States
  <2>4. /\ c.op = "drop" /\ c.pc = "closeall" /\ c.todo = call[s].todo \union {n} /\ c.trk = call[s].trk \union {n, Live}
        /\ c.todo \subseteq Handles /\ c.trk \subseteq Handles
        /\ \A r \in Sessions \ {s} : call'[r] = call[r]
    BY <1>0, <1>1, <1>3, <1>6 DEF LockInv, LockTypes, Calls
  <2>5. CkptOK(c)' /\ CallOK(c)' /\ Solo(s)
    BY <1>0, <1>1, <2>3, <2>4 DEF CkptOK, InCkpt, CallOK, Solo
  <2>6. Good(file.ckpts)'
    <3>1. BulkLoads' <=> BulkLoads
      BY <1>0, <1>6, <2>3 DEF BulkLoads
    <3> QED BY SMTT(20), <1>0, <1>6, <2>3, <3>1 DEF Good, Current, FakesFirst, FakeOnly, Real, NamesOf
  <2>7. MetaTypes' /\ ChangesAreSaved'
    BY <1>0, <1>2, <1>6 DEF MetaTypes, ChangesAreSaved
  <2>8. /\ ~file'.exists => file'.ckpts = {} /\ \A m \in Handles : ~h'[m].open
        /\ ~h'[Live].discard /\ (live'.modified => h'[Live].open /\ h'[Live].special # "verify")
        /\ ~backup'.on => backup'.has = {}
    BY <1>0, <1>6, <2>3 DEF MetaInv
  <2> QED BY <1>3, <2>5, <2>6, <2>7, <2>8, SoloStep
<1>7. CASE /\ n = Live /\ RoomToClose
           /\ LET old == IF h[Live].open /\ live.modified THEN CanDelete(s) ELSE {}
              IN /\ file' = IF h[Live].open THEN [file EXCEPT !.ckpts = Written(old)] ELSE file
                 /\ h' = [m \in Handles |->
                            IF m = Live THEN Closed(h, Live)[Live]
                            ELSE IF m \in old THEN Unlock(LockedHandle(s, m), {m})[m] ELSE h[m]]
           /\ live' = [live EXCEPT !.modified = FALSE, !.bulkok = FALSE]
           /\ unsaved' = (unsaved /\ ~live.modified)
           /\ call' = [call EXCEPT ![s].todo = @ \union {n}, ![s].trk = @ \union {n}]
  <2>1. PICK old : /\ old = IF h[Live].open /\ live.modified THEN CanDelete(s) ELSE {}
                   /\ file' = IF h[Live].open THEN [file EXCEPT !.ckpts = Written(old)] ELSE file
                   /\ h' = [m \in Handles |->
                              IF m = Live THEN Closed(h, Live)[Live]
                              ELSE IF m \in old THEN Unlock(LockedHandle(s, m), {m})[m] ELSE h[m]]
    BY <1>7
  <2>2. old \cap backup.has = {} /\ (~live.modified => old = {})
    BY <1>0, <2>1 DEF CanDelete
  <2>3. /\ ~h'[Live].open /\ h'[Live].special = "none" /\ ~h'[Live].discard
        /\ \A m \in Handles \ ({Live} \union old) : h'[m] = h[m]
    <3>1. h'[Live] = Closed(h, Live)[Live]
      BY <1>0, <2>1
    <3>2. ~Closed(h, Live)[Live].open /\ Closed(h, Live)[Live].special = "none" /\ ~Closed(h, Live)[Live].discard
      BY <1>0, ClosedHandle
    <3> QED BY <2>1, <3>1, <3>2
  <2>4. \A m \in Handles \cap old : m # Live => ~h'[m].open
    <3>1. ASSUME NEW m \in Handles \cap old, m # Live PROVE ~h'[m].open
      <4> DEFINE k == LockedHandle(s, m)
      <4>1. k \in [Handles -> States] /\ k[m].discard
        BY <1>0, LockedIsHandle
      <4> HIDE DEF k
      <4>2. Unlock(k, {m})[m].open <=> k[m].open /\ ~k[m].discard
        BY SMTT(20), <4>1, UnlockHandles
      <4>3. h'[m] = Unlock(k, {m})[m]
        BY <2>1, <3>1 DEF k
      <4> QED BY <4>1, <4>2, <4>3
    <3> QED BY <3>1
  <2>5. PICK k : k = file'.ckpts
    OBVIOUS
  <2>6. /\ k \in SUBSET Ckpts /\ FakesFirst(k) /\ file'.exists = file.exists /\ file' \in [exists : BOOLEAN, ckpts : SUBSET Ckpts]
        /\ (live.modified => LastAddr(k) = live.data) /\ (~live.modified => k = file.ckpts) /\ (~file.exists => k = file.ckpts)
        /\ \A x \in file.ckpts : x.name \notin old => x \in k
    <3>1. CASE live.modified
      <4>1. k = Saved(file.ckpts, old, Internal(0), live.data) /\ MaxOf(Orders(file.ckpts)) < MaxOrder
        BY <1>0, <1>7, <2>1, <2>5, <3>1 DEF Written, RoomToClose, MetaTypes
      <4>2. /\ FakesFirst(file.ckpts) /\ file.ckpts \in SUBSET Ckpts /\ live.data \in Nat /\ live.data # Fake /\ live.data \in Addrs
        BY SMTT(20), <1>0 DEF Good, MetaTypes, Fake, Addrs
      <4>3. /\ k \in SUBSET Ckpts /\ LastAddr(k) = live.data /\ FakesFirst(k)
            /\ \A x \in file.ckpts : x.name \notin old => x \in k
        <5>1. Saves(file.ckpts, Internal(0), live.data)
          BY <4>1, <4>2 DEF Saves
        <5>2. Follows(file.ckpts, old, live.data, k)
          BY <4>1, <5>1, SavedFacts
        <5> QED BY <4>2, <5>2 DEF Follows
      <4>4. file.exists
        BY <1>0, <3>1 DEF MetaInv
      <4> QED BY <1>0, <2>1, <2>5, <3>1, <4>3, <4>4 DEF MetaTypes
    <3>2. CASE ~live.modified
      <4>1. file' = file
        BY <1>0, <2>1, <3>2 DEF Written, MetaTypes
      <4> QED BY <1>0, <2>5, <3>2, <4>1 DEF Good, MetaTypes
    <3> QED BY <3>1, <3>2
  <2>7. /\ ~live'.modified /\ ~live'.bulkok /\ live'.data = live.data /\ live' \in [data : Nat, modified : BOOLEAN, bulkok : BOOLEAN]
        /\ (unsaved' <=> unsaved /\ ~live.modified) /\ unsaved' \in BOOLEAN
    BY <1>0, <1>7 DEF MetaTypes
  <2>8. Good(k)'
    <3>1. ~BulkLoads'
      BY <2>3, <2>7 DEF BulkLoads
    <3>2. \A m \in Handles \ {Live} : h'[m].open => h'[m] = h[m]
      BY <2>3, <2>4
    <3>3. \A x \in file.ckpts : x \in k \/ ((x.name \in Handles => ~h'[x.name].open) /\ x.name \notin backup'.has)
      <4>1. ASSUME NEW x \in file.ckpts, x.name \in old, x.name \in Handles PROVE ~h'[x.name].open
        BY <2>3, <2>4, <4>1
      <4> QED BY <1>0, <2>2, <2>6, <4>1
    <3> QED BY <1>0, <2>6, <3>1, <3>2, <3>3, KeepsGood
  <2>9. MetaTypes' /\ ChangesAreSaved'
    <3>1. CASE live.modified
      <4>1. Content(LastAddr(k)) = live'.data
        BY SMTT(20), Z3T(20), <1>0, <2>6, <2>7, <3>1 DEF Content, Fake, MetaTypes
      <4> QED BY <1>0, <2>5, <2>6, <2>7, <4>1 DEF MetaTypes, ChangesAreSaved
    <3>2. CASE ~live.modified
      BY <1>0, <1>2, <2>5, <2>6, <2>7, <3>2 DEF MetaTypes, ChangesAreSaved
    <3> QED BY <3>1, <3>2
  <2>10. /\ c.op = "drop" /\ c.pc = "closeall" /\ c.todo = call[s].todo \union {Live} /\ c.trk = call[s].trk \union {Live}
         /\ c.todo \subseteq Handles /\ c.trk \subseteq Handles
         /\ \A r \in Sessions \ {s} : call'[r] = call[r]
    BY <1>0, <1>1, <1>3, <1>7 DEF LockInv, LockTypes, Calls
  <2>11. CkptOK(c)' /\ CallOK(c)' /\ Solo(s)
    <3>1. \A m \in Handles : h'[m].open => h[m].open /\ m # Live
      BY <2>3, <2>4
    <3> QED BY <1>0, <1>1, <2>10, <3>1 DEF CkptOK, InCkpt, CallOK, Solo
  <2>12. /\ ~file'.exists => file'.ckpts = {} /\ \A m \in Handles : ~h'[m].open
         /\ ~backup'.on => backup'.has = {}
    <3>1. ~file.exists => file.ckpts = {} /\ \A m \in Handles : ~h[m].open
      BY DEF MetaInv
    <3> QED BY <1>0, <2>3, <2>4, <2>5, <2>6, <3>1
  <2> QED BY <1>3, <2>3, <2>5, <2>7, <2>8, <2>9, <2>11, <2>12, SoloStep
<1> QED BY <1>4, <1>5, <1>6, <1>7

\* A file is removed once every handle is closed, and created when there is none.
LEMMA DropCreateMeta ==
  ASSUME Locking, Typed', Listing, NEW s \in Sessions, DropFile(s) \/ (CreateFile(s) /\ ~file.exists)
  PROVE  Listing'
<1> LockInv /\ MetaInv /\ LockTypes'
  BY DEF Locking, Listing, Typed
<1>0. /\ UNCHANGED backup \/ backup' = [backup EXCEPT !.has = {}]
      /\ MetaTypes /\ Good(file.ckpts) /\ CallOK(call[s]) /\ (~backup.on => backup.has = {})
      /\ call[s] \in Calls /\ SessionOK(s) /\ call[s].pc \in {"closeall", "create"} /\ Live \in Handles /\ h \in [Handles -> States]
      /\ ~h[Live].discard /\ (live.modified => h[Live].open) /\ \A m \in Handles : HandleOK(m)
  BY DEF DropFile, CreateFile, At, MetaInv, LockInv, LockTypes, Handles
<1>1. schema = s /\ call[s].op \in {"drop", "create"}
  <2>1. call[s].op \in {"drop", "create"}
    BY <1>0 DEF SessionOK, Flow
  <2> QED BY <1>0, <2>1 DEF SessionOK, UnderSchema
<1>2. \A m \in Handles : ~h[m].open /\ h[m].special = "none"
  <2>1. \A m \in Handles : ~h[m].open
    <3>1. CASE DropFile(s)
      <4>1. call[s].op = "drop" /\ \A m \in Handles : h[m].listed => m \in call[s].todo
        BY <1>0, <1>1, <3>1 DEF DropFile, At, SessionOK, Flow
      <4> QED BY <1>0, <4>1 DEF CallOK, HandleOK
    <3>2. CASE ~file.exists
      BY <3>2 DEF MetaInv
    <3> QED BY <3>1, <3>2
  <2> QED BY <1>0, <2>1 DEF HandleOK
<1>3. PICK c : c = call'[s]
  OBVIOUS
<1>4. /\ file' \in [exists : BOOLEAN, ckpts : SUBSET Ckpts] /\ file'.ckpts = {}
      /\ live' \in [data : Nat, modified : BOOLEAN, bulkok : BOOLEAN] /\ ~live'.modified /\ live'.data = 0
      /\ unsaved' \in BOOLEAN
      /\ \A m \in Handles \ {Live} : h'[m] = h[m]
      /\ h'[Live].special = "none" /\ ~h'[Live].discard
      /\ (~file'.exists => h' = h)
  <2>1. CASE DropFile(s)
    BY <1>0, <1>2, <2>1 DEF DropFile, MetaTypes
  <2>2. CASE CreateFile(s) /\ ~file.exists
    <3>1. file' = [exists |-> TRUE, ckpts |-> {}] /\ live' = [data |-> 0, modified |-> FALSE, bulkok |-> TRUE] /\ unsaved' = unsaved
      BY <2>2 DEF CreateFile
    <3>2. (\A m \in Handles \ {Live} : h'[m] = h[m]) /\ h'[Live].special = h[Live].special /\ h'[Live].discard = h[Live].discard
      <4>1. h' = [h EXCEPT ![Live] = [h[Live] EXCEPT !.listed = TRUE, !.refcnt = h[Live].refcnt + 1, !.open = TRUE, !.addr = Fake]]
        BY <2>2 DEF CreateFile
      <4>2. h[Live] \in States
        BY <1>0
      <4> QED BY <1>0, <4>1, <4>2 DEF States
    <3> QED BY <1>0, <1>2, <3>1, <3>2 DEF MetaTypes
  <2> QED BY <2>1, <2>2
<1>5. backup' \in [on : BOOLEAN, has : SUBSET Handles] /\ (~backup'.on => backup'.has = {}) /\ backup'.has \ orphans' = {}
  <2>1. CASE DropFile(s)
    BY <1>0, <2>1 DEF DropFile, MetaTypes
  <2>2. CASE CreateFile(s) /\ ~file.exists
    <3>1. file.ckpts = {} /\ UNCHANGED <<backup, orphans>>
      BY <2>2 DEF MetaInv, CreateFile
    <3> QED BY <1>0, <3>1 DEF Good, NamesOf, MetaTypes
  <2> QED BY <2>1, <2>2
<1>6. MetaTypes' /\ Good(file.ckpts)' /\ ChangesAreSaved'
  <2>1. Good(file.ckpts)'
    BY <1>2, <1>4, <1>5 DEF Good, Current, FakesFirst, FakeOnly, Real
  <2>2. LastAddr(file'.ckpts) = Fake
    BY <1>4 DEF LastAddr, Real
  <2>3. Content(LastAddr(file'.ckpts)) = live'.data
    BY <1>4, <2>2 DEF Content
  <2> QED BY <1>4, <1>5, <2>1, <2>3 DEF MetaTypes, ChangesAreSaved
<1>7. CkptOK(c)' /\ CallOK(c)' /\ Solo(s)
  <2>1. CASE DropFile(s)
    <3>1. /\ c.op = "drop" /\ c.pc = "off" /\ c.todo = call[s].todo /\ c.trk = call[s].trk
          /\ c.todo \subseteq Handles /\ c.trk \subseteq Handles /\ h' = h
          /\ \A r \in Sessions \ {s} : call'[r] = call[r]
      <4>1. call[s].op = "drop"
        BY <1>0, <2>1 DEF DropFile, At, SessionOK, Flow
      <4> QED BY <1>0, <1>3, <2>1, <4>1 DEF DropFile, Jump, LockInv, LockTypes, Calls
    <3> QED BY <1>1, <1>2, <3>1 DEF CkptOK, InCkpt, CallOK, Solo
  <2>2. CASE CreateFile(s)
    <3>1. c = Idle /\ \A r \in Sessions \ {s} : call'[r] = call[r]
      BY <1>3, <2>2 DEF CreateFile, Return, LockInv, LockTypes
    <3>2. CkptOK(c)' /\ CallOK(c)'
      BY <3>1, IdleIsCall DEF CkptOK, CallOK, InCkpt
    <3> QED BY <1>1, <3>1, <3>2 DEF Solo
  <2> QED BY <2>1, <2>2
<1> QED BY <1>2, <1>3, <1>4, <1>5, <1>6, <1>7, SoloStep

\* Creating a file that exists does nothing, and a backup starts.
LEMMA CreateBackupMeta ==
  ASSUME Locking, Typed', Listing, NEW s \in Sessions, (CreateFile(s) /\ file.exists) \/ BackupStart(s)
  PROVE  Listing'
<1> LockInv /\ MetaInv /\ LockTypes'
  BY DEF Locking, Listing, Typed
<1>0. /\ UNCHANGED <<h, file, live, orphans, unsaved>> /\ Return(s) /\ call[s].pc \in {"create", "backup"} /\ SessionOK(s)
  BY DEF CreateFile, BackupStart, At, LockInv
<1>1. PICK c : c = call'[s]
  OBVIOUS
<1>2. c = Idle /\ \A r \in Sessions \ {s} : call'[r] = call[r]
  BY <1>0, <1>1 DEF Return, LockInv, LockTypes
<1>3. CASE CreateFile(s)
  <2>1. Frame(s)
    BY <1>0, <1>2, <1>3, SameFrame DEF CreateFile
  <2> QED BY <1>0, <2>1, ReturnMeta DEF Return
<1>4. CASE BackupStart(s)
  <2>1. backup' \in [on : BOOLEAN, has : SUBSET Handles] /\ backup'.on /\ backup'.has \subseteq backup.has \union NamesOf(file.ckpts)
    <3>1. NamesOf(file.ckpts) \subseteq Handles /\ MetaTypes
      BY DEF MetaInv, MetaTypes, NamesOf, Ckpts
    <3> QED BY <1>4, <3>1 DEF BackupStart, MetaTypes
  <2>2. MetaTypes' /\ Good(file.ckpts)' /\ ChangesAreSaved'
    <3>0. MetaTypes /\ Good(file.ckpts) /\ ChangesAreSaved
      BY DEF MetaInv
    <3>1. MetaTypes'
      BY <1>0, <2>1, <3>0 DEF MetaTypes
    <3>2. Good(file.ckpts)'
      <4>1. BulkLoads' <=> BulkLoads
        BY <1>0 DEF BulkLoads
      <4> QED BY <1>0, <2>1, <3>0, <4>1 DEF Good, Current, FakesFirst, FakeOnly, Real, NamesOf
    <3>3. ChangesAreSaved'
      <4>1. Checkpointing => Checkpointing'
        BY <1>0, <1>2 DEF Checkpointing
      <4> QED BY <1>0, <3>0, <4>1 DEF ChangesAreSaved
    <3> QED BY <3>1, <3>2, <3>3
  <2>3. Solo(s) /\ CkptOK(c)' /\ CallOK(c)'
    <3>1. schema = s
      BY <1>0 DEF SessionOK, Flow, UnderSchema
    <3>2. CkptOK(c)' /\ CallOK(c)'
      BY <1>2, IdleIsCall DEF CkptOK, CallOK, InCkpt
    <3> QED BY <1>2, <3>1, <3>2 DEF Solo
  <2>4. /\ ~file'.exists => file'.ckpts = {} /\ \A n \in Handles : ~h'[n].open
        /\ ~h'[Live].discard /\ (live'.modified => h'[Live].open /\ h'[Live].special # "verify")
    BY <1>0 DEF MetaInv
  <2> QED BY <1>1, <2>1, <2>2, <2>3, <2>4, SoloStep
<1> QED BY <1>3, <1>4

\* A step that only changes the tree, or ends a backup: it may be taken during a
\* checkpoint of another session.
Light ==
  /\ UNCHANGED <<file, h, orphans, unsaved>>
  /\ live' = live \/ (live'.modified /\ h[Live].open /\ h[Live].special # "verify" /\ (live'.bulkok => live.bulkok))
  /\ live' \in [data : Nat, modified : BOOLEAN, bulkok : BOOLEAN]
  /\ backup' = backup \/ backup' = [on |-> FALSE, has |-> {}]
  /\ \A r \in Sessions : call'[r] = call[r] \/ (call'[r].op = "endbulk" /\ call'[r].pc = "endbulk"
                                                /\ call[r].op # "checkpoint")

\* Such a step keeps MetaInv.
LEMMA LightMeta ==
  ASSUME Locking, Listing, Light
  PROVE  Listing'
<1> LockInv /\ MetaInv
  BY DEF Locking, Listing
<1>0. /\ MetaTypes /\ Good(file.ckpts) /\ ChangesAreSaved /\ (~backup.on => backup.has = {})
  BY DEF MetaInv
<1>1. MetaTypes' /\ (~backup'.on => backup'.has = {}) /\ (backup'.on => backup.on) /\ backup'.has \subseteq backup.has
  <2>1. backup' \in [on : BOOLEAN, has : SUBSET Handles] /\ (~backup'.on => backup'.has = {}) /\ (backup'.on => backup.on)
        /\ backup'.has \subseteq backup.has
    <3>1. backup \in [on : BOOLEAN, has : SUBSET Handles] /\ (backup' = backup \/ backup' = [on |-> FALSE, has |-> {}])
      BY <1>0 DEF Light, MetaTypes
    <3>2. CASE backup' = backup
      BY <1>0, <3>1, <3>2
    <3>3. CASE backup' = [on |-> FALSE, has |-> {}]
      <4>1. ~backup'.on /\ backup'.has = {}
        BY <3>3
      <4>2. backup' \in [on : BOOLEAN, has : SUBSET Handles]
        BY <3>3
      <4> QED BY <4>1, <4>2
    <3> QED BY <3>1, <3>2, <3>3
  <2> QED BY <1>0, <2>1 DEF Light, MetaTypes
<1>2. (BulkLoads' => BulkLoads) /\ \A cs : Good(cs) => Good(cs)'
  <2>1. BulkLoads' => BulkLoads
    BY DEF BulkLoads, Light
  <2> QED BY <1>1, <2>1 DEF Good, Current, FakesFirst, FakeOnly, Real, NamesOf, Light
<1>3. Good(file.ckpts)'
  <2>1. PICK cs : cs = file.ckpts
    OBVIOUS
  <2>2. Good(cs)' /\ cs = file'.ckpts
    BY <1>0, <1>2, <2>1 DEF Light
  <2> QED BY <2>2
<1>4. ChangesAreSaved'
  <2>1. Checkpointing => Checkpointing'
    BY DEF Checkpointing, Light
  <2> QED BY <1>0, <2>1 DEF ChangesAreSaved, Light
<1>5. ASSUME NEW r \in Sessions PROVE CkptOK(call[r])' /\ CallOK(call[r])'
  <2>0. PICK c : c = call'[r]
    OBVIOUS
  <2>1. CASE c = call[r]
    <3>0. CkptOK(c) /\ CallOK(c) /\ UNCHANGED <<file, h, unsaved>> /\ (live.modified => live'.modified)
      BY <2>1 DEF MetaInv, Light
    <3>1. CkptOK(c)'
      BY <1>1, <1>2, <3>0 DEF CkptOK
    <3>2. CallOK(c)'
      BY <3>0 DEF CallOK
    <3> QED BY <2>0, <3>1, <3>2
  <2>2. CASE c.op = "endbulk" /\ c.pc = "endbulk"
    BY <2>0, <2>2 DEF CkptOK, CallOK, InCkpt
  <2> QED BY <2>0, <2>1, <2>2 DEF Light
<1>6. /\ ~file'.exists => file'.ckpts = {} /\ \A n \in Handles : ~h'[n].open
      /\ ~h'[Live].discard /\ (live'.modified => h'[Live].open /\ h'[Live].special # "verify")
  BY DEF MetaInv, Light
<1> QED BY <1>1, <1>3, <1>4, <1>5, <1>6 DEF MetaInv, Listing

\* A change to the tree, closing a cursor and the end of a backup keep MetaInv.
LEMMA LightSteps ==
  ASSUME Locking, Listing, NEW s \in Sessions, Modify(s) \/ CloseCursor(s) \/ BackupStop
  PROVE  Listing'
<1> LockInv /\ MetaInv
  BY DEF Locking, Listing
<1>0. /\ SessionOK(s) /\ h \in [Handles -> States] /\ Live \in Handles /\ call \in [Sessions -> Calls]
      /\ live \in [data : Nat, modified : BOOLEAN, bulkok : BOOLEAN] /\ UNCHANGED <<file, h, orphans, unsaved>>
      /\ s # None /\ cursor[s] \subseteq Handles
  BY SessionsAssumption DEF LockInv, LockTypes, MetaInv, MetaTypes, Modify, CloseCursor, BackupStop,
       Handles
<1>1. CASE Modify(s)
  <2>1. live' = [data |-> live.data + 1, modified |-> TRUE, bulkok |-> FALSE] /\ UNCHANGED <<backup, call>>
        /\ h[Live].special = "none" /\ Live \in cursor[s]
    BY <1>1 DEF Modify
  <2>2. live'.modified /\ ~live'.bulkok /\ live' \in [data : Nat, modified : BOOLEAN, bulkok : BOOLEAN]
    BY SMTT(20), <1>0, <2>1
  <2>3. h[Live].open
    BY <1>0, <2>1 DEF SessionOK
  <2>4. Light
    BY <1>0, <2>1, <2>2, <2>3 DEF Light
  <2> QED BY <2>4, LightMeta
<1>2. CASE CloseCursor(s)
  <2>0. PICK n \in cursor[s] : IF h[n].special = "none"
           THEN cursor' = [cursor EXCEPT ![s] = @ \ {n}] /\ UNCHANGED <<live, call>>
           ELSE /\ live' = [data |-> 1, modified |-> TRUE, bulkok |-> live.bulkok]
                /\ call' = [call EXCEPT ![s].op = "endbulk", ![s].pc = "endbulk"]
                /\ UNCHANGED cursor
    BY <1>2 DEF CloseCursor
  <2>1. UNCHANGED backup /\ call[s].pc = "idle" /\ n \in Handles /\ HandleOK(n)
    BY <1>0, <1>2, <2>0 DEF CloseCursor, At, LockInv
  <2>2. CASE h[n].special = "none"
    <3>1. Light
      BY <1>0, <2>0, <2>1, <2>2 DEF Light
    <3> QED BY <3>1, LightMeta
  <2>3. CASE h[n].special # "none"
    <3>1. n = Live /\ h[Live].open /\ h[Live].special # "verify"
      <4>1. h[n].writer = s
        BY <1>0, <2>0, <2>3 DEF SessionOK
      <4> QED BY <2>1, <2>3, <4>1 DEF HandleOK, At
    <3>2. live'.modified /\ live'.bulkok = live.bulkok /\ live' \in [data : Nat, modified : BOOLEAN, bulkok : BOOLEAN]
      <4>1. live' = [data |-> 1, modified |-> TRUE, bulkok |-> live.bulkok] /\ live.bulkok \in BOOLEAN
        BY <1>0, <2>0, <2>3
      <4> QED BY <4>1
    <3>3. \A r \in Sessions : call'[r] = call[r] \/ (call'[r].op = "endbulk" /\ call'[r].pc = "endbulk"
                                                     /\ call[r].op # "checkpoint")
      <4>1. call[s].op = "none" /\ call[s] \in Calls
        BY <1>0, <2>1 DEF SessionOK, Flow
      <4>2. call'[s].op = "endbulk" /\ call'[s].pc = "endbulk"
        BY <1>0, <2>0, <2>3 DEF Calls
      <4>3. \A r \in Sessions \ {s} : call'[r] = call[r]
        BY <1>0, <2>0, <2>3
      <4> QED BY <4>1, <4>2, <4>3
    <3>4. Light
      BY <1>0, <2>1, <3>1, <3>2, <3>3 DEF Light
    <3> QED BY <3>4, LightMeta
  <2> QED BY <2>2, <2>3
<1>3. CASE BackupStop
  <2>1. Light
    BY <1>0, <1>3 DEF Light, BackupStop
  <2> QED BY <2>1, LightMeta
<1> QED BY <1>1, <1>2, <1>3
=============================================================================

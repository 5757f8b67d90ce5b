---------------------------- MODULE HazardSteps -----------------------------
(***************************************************************************)
(* Proofs about Hazard, for every tree, every number of cursors and of     *)
(* evicting threads, and every amount of memory.  The inductive invariant  *)
(* is Inv; one lemma for each action shows that the action preserves it.   *)
(* Here: which variables each part of Inv depends on, and the steps in     *)
(* which cursors lock, read, acquire and release pages.                    *)
(***************************************************************************)
EXTENDS Hazard, TLAPS

\* The prover of a leaf that names no other.
USE ZenonT(60)

USE NoRefAssumption, NoPageAssumption, ParentAssumption
USE DEF refVars, serverVars, cursorVars, evictVars, OnDisk, InMem

\* A child that __rec_review has passed cannot be reached by any cursor: the
\* page it is in is locked and has no hazard reference.
LEMMA VisitedUnreached ==
  ASSUME Inv, NEW c \in Cursors, NEW r \in Refs, Reaches(c, r),
         NEW e \in Evictors
  PROVE  r \notin visited[e]
<1> SUFFICES ASSUME r \in visited[e] PROVE FALSE
  OBVIOUS
<1>1. Reviewing(e) /\ Parent[r] \in excl[e] /\ Parent[r] # cur[e]
  BY DEF Inv, ReviewInv
<1>2. Parent[r] \in Refs
  BY <1>1 DEF Inv, TypeOK, EvictTypes
<1>3. Acquired(c, Parent[r])
  BY <1>2 DEF Reaches, Acquired
<1> QED BY <1>1, <1>2, <1>3 DEF Inv, CleanInv

\* No cursor holds a page that has been locked and looked for in the slots.
LEMMA ReviewedUnheld ==
  ASSUME Inv, NEW e \in Evictors, epc[e] \in {"review", "publish"},
         NEW r \in excl[e], NEW c \in Cursors
  PROVE  ~ Acquired(c, r)
<1>1. Reviewing(e) /\ cur[e] = NoRef
  BY DEF Inv, ExclInv, Reviewing
<1>2. r # NoRef
  BY SMTT(20) DEF Inv, TypeOK, EvictTypes
<1> QED BY <1>1, <1>2 DEF Inv, CleanInv

\* The types of references and server pointers depend on these variables only.
LEMMA RefTypesFrame ==
  ASSUME RefTypes, UNCHANGED <<state, page, owner, lru, evictPage>>
  PROVE  RefTypes'
BY DEF RefTypes

\* The types of the cursors depend on these variables only.
LEMMA CursorTypesFrame ==
  ASSUME CursorTypes, UNCHANGED <<hazard, holds, got, pc, at, prev, cand>>
  PROVE  CursorTypes'
BY DEF CursorTypes

\* The types of the evicting threads depend on these variables only.
LEMMA EvictTypesFrame ==
  ASSUME EvictTypes, UNCHANGED <<epc, top, excl, cur, scanned, visited, dying>>
  PROVE  EvictTypes'
BY DEF EvictTypes

\* How states and pages of WT_REFs fit together depends on these variables only.
LEMMA RefInvFrame ==
  ASSUME RefInv, UNCHANGED <<state, page, owner>>
  PROVE  RefInv'
BY DEF RefInv

\* Where cursors are, and what they read, depends on these variables only.
LEMMA ReaderInvFrame ==
  ASSUME ReaderInv, UNCHANGED <<pc, at, holds, state, page>>
  PROVE  ReaderInv'
BY DEF ReaderInv, Reading, Reaches

\* What cursors have acquired depends on these variables only.
LEMMA HoldInvFrame ==
  ASSUME HoldInv, UNCHANGED <<holds, pc, at, state, page, hazard, got>>
  PROVE  HoldInv'
BY SMTT(20) DEF HoldInv, Acquired

\* What evicting threads have locked depends on these variables only.
LEMMA ExclInvFrame ==
  ASSUME ExclInv, UNCHANGED <<excl, state, page, epc, top, visited, cur>>
  PROVE  ExclInv'
BY DEF ExclInv, Reviewing

\* What __rec_review has passed depends on these variables only.
LEMMA ReviewInvFrame ==
  ASSUME ReviewInv, UNCHANGED <<epc, visited, excl, cur, state>>
  PROVE  ReviewInv'
BY DEF ReviewInv, Reviewing

\* Whether locked pages can be held depends on these variables only.
LEMMA CleanInvFrame ==
  ASSUME CleanInv, UNCHANGED <<epc, excl, holds, pc, at, cur, scanned>>
  PROVE  CleanInv'
BY DEF CleanInv, Acquired, Reviewing

\* What is about to be freed depends on these variables only.
LEMMA DyingInvFrame ==
  ASSUME DyingInv, UNCHANGED <<epc, dying, owner, page, excl, top>>
  PROVE  DyingInv'
BY SMTT(20) DEF DyingInv

\* The path of the walk depends on these variables only.
LEMMA WalkInvFrame ==
  ASSUME WalkInv, UNCHANGED <<evictPage, owner, page, state>>
  PROVE  WalkInv'
BY DEF WalkInv, WalkRef

\* The eviction list depends on these variables only.
LEMMA LruInvFrame ==
  ASSUME LruInv, UNCHANGED <<lru, owner, epc, top, page>>
  PROVE  LruInv'
BY DEF LruInv

\* That parents are in memory depends on these variables only.
LEMMA TreeInvFrame ==
  ASSUME TreeInv, UNCHANGED <<state>>
  PROVE  TreeInv'
BY DEF TreeInv

\* A step in which no cursor acquires a page leaves locked pages unheld.
LEMMA CleanUnacquired ==
  ASSUME Inv, UNCHANGED <<epc, excl, cur, scanned>>,
         \A d \in Cursors, q \in Refs : Acquired(d, q)' => Acquired(d, q)
  PROVE  CleanInv'
BY DEF Inv, TypeOK, EvictTypes, CleanInv, Reviewing

\* A step in which no cursor acquires a page, and no page leaves memory,
\* leaves acquired pages as they are.
LEMMA HoldUnacquired ==
  ASSUME Inv, UNCHANGED <<page, hazard, got, holds>>,
         \A q \in Refs : state[q] \in InMem => state'[q] \in InMem,
         \A d \in Cursors, q \in Refs : Acquired(d, q)' => Acquired(d, q)
  PROVE  HoldInv'
BY DEF Inv, HoldInv

\* ReadStart(c) preserves the invariant.
LEMMA ReadStartStep ==
  ASSUME Inv, ~ raced', NEW c \in Cursors, ReadStart(c)
  PROVE  Inv'
<1>1. /\ pc[c] = "read"
      /\ UNCHANGED <<page, owner, serverVars, hazard, holds, got, at, cand, evictVars, raced>>
  BY DEF ReadStart
<1>2. CASE state[at[c]] \in OnDisk
  <2>1. /\ prev' = [prev EXCEPT ![c] = state[at[c]]]
        /\ state' = [state EXCEPT ![at[c]] = "reading"]
        /\ pc' = [pc EXCEPT ![c] = "build"]
    BY <1>2 DEF ReadStart, Goto, SetState
  <2>2. RefTypes'
    BY <1>1, <1>2, <2>1 DEF Inv, TypeOK, RefTypes, States, ReaderInv, Reading, Reaches
  <2>3. CursorTypes'
    BY <1>1, <1>2, <2>1 DEF Inv, TypeOK, CursorTypes, CursorLabels, ReaderInv, Reading, Reaches
  <2>4. RefInv'
    BY <1>1, <1>2, <2>1 DEF Inv, TypeOK, RefTypes, RefInv
  <2>5. ReaderInv'
    BY SMTT(20), <1>1, <1>2, <2>1 DEF Inv, TypeOK, CursorTypes, RefTypes, ReaderInv, Reading, Reaches,
         RefInv
  <2>6. HoldInv'
    <3>1. \A d \in Cursors, q \in Refs : Acquired(d, q)' => Acquired(d, q)
      BY <1>1, <2>1 DEF Inv, TypeOK, CursorTypes, Acquired
    <3>2. \A q \in Refs : state[q] \in InMem => state'[q] \in InMem
      BY <1>2, <2>1 DEF Inv, TypeOK, RefTypes
    <3> QED BY <1>1, <3>1, <3>2, HoldUnacquired
  <2>7. ExclInv'
    BY SMTT(20), <1>1, <1>2, <2>1 DEF Inv, TypeOK, RefTypes, ExclInv, Reviewing
  <2>8. ReviewInv'
    BY SMTT(20), <1>1, <1>2, <2>1, VisitedUnreached DEF Inv, TypeOK, RefTypes, ReviewInv, Reviewing,
         CleanInv, Acquired, ReaderInv, Reading, Reaches
  <2>9. CleanInv'
    BY SMTT(20), <1>1, <1>2, <2>1 DEF Inv, TypeOK, CursorTypes, CleanInv, Acquired, Reviewing
  <2>10. WalkInv'
    BY <1>1, <1>2, <2>1 DEF Inv, TypeOK, RefTypes, WalkInv, WalkRef
  <2>11. TreeInv'
    BY SMTT(20), <1>1, <1>2, <2>1 DEF Inv, TypeOK, RefTypes, TreeInv, ReaderInv, Reading, Reaches,
         HoldInv, Acquired
  <2>12. EvictTypes' /\ DyingInv' /\ LruInv'
    BY <1>1, <1>2, <2>1, EvictTypesFrame, DyingInvFrame, LruInvFrame DEF Inv, TypeOK
  <2> QED BY <2>2, <2>3, <2>4, <2>5, <2>6, <2>7, <2>8, <2>9, <2>10, <2>11, <2>12 DEF Inv, TypeOK
<1>3. CASE state[at[c]] \notin OnDisk
  <2>1. /\ pc' = [pc EXCEPT ![c] = "in"]
        /\ UNCHANGED <<prev, state>>
    BY <1>3 DEF ReadStart, Goto, SetState
  <2>2. CursorTypes'
    BY <1>1, <1>3, <2>1 DEF Inv, TypeOK, CursorTypes, CursorLabels, ReaderInv, Reading, Reaches
  <2>3. ReaderInv'
    BY SMTT(20), <1>1, <1>3, <2>1 DEF Inv, TypeOK, CursorTypes, ReaderInv, Reading, Reaches, RefInv
  <2>4. HoldInv'
    BY SMTT(20), <1>1, <1>3, <2>1 DEF Inv, TypeOK, CursorTypes, HoldInv, Acquired, ReaderInv, Reading,
         Reaches
  <2>5. CleanInv'
    BY SMTT(20), <1>1, <1>3, <2>1 DEF Inv, TypeOK, CursorTypes, CleanInv, Acquired, Reviewing
  <2>6. RefTypes' /\ EvictTypes' /\ RefInv' /\ ExclInv' /\ ReviewInv' /\
        DyingInv' /\ WalkInv' /\ LruInv' /\ TreeInv'
    BY <1>1, <1>3, <2>1, RefTypesFrame, EvictTypesFrame, RefInvFrame, ExclInvFrame, ReviewInvFrame,
         DyingInvFrame, WalkInvFrame, LruInvFrame, TreeInvFrame DEF Inv, TypeOK
  <2> QED BY <2>2, <2>3, <2>4, <2>5, <2>6 DEF Inv, TypeOK
<1> QED BY <1>2, <1>3

\* ReadError(c) preserves the invariant.
LEMMA ReadErrorStep ==
  ASSUME Inv, ~ raced', NEW c \in Cursors, ReadError(c)
  PROVE  Inv'
<1> USE DEF ReadError, Return, SetState
<1>1. RefTypes'
  BY DEF Inv, TypeOK, RefTypes, States, CursorTypes, ReaderInv, Reading, Reaches
<1>2. CursorTypes'
  BY DEF Inv, TypeOK, CursorTypes, CursorLabels, ReaderInv, Reading, Reaches
<1>3. RefInv'
  BY SMTT(20) DEF Inv, TypeOK, RefTypes, RefInv, CursorTypes, ReaderInv, Reading, Reaches
<1>4. ReaderInv'
  BY SMTT(20) DEF Inv, TypeOK, CursorTypes, RefTypes, ReaderInv, Reading, Reaches
<1>5. HoldInv'
  <2>1. \A d \in Cursors, q \in Refs : Acquired(d, q)' => Acquired(d, q)
    BY DEF Inv, TypeOK, CursorTypes, Acquired
  <2>2. \A q \in Refs : state[q] \in InMem => state'[q] \in InMem
    BY DEF Inv, TypeOK, RefTypes, ReaderInv, Reading
  <2> QED BY <2>1, <2>2, HoldUnacquired
<1>6. ExclInv'
  BY SMTT(20) DEF Inv, TypeOK, RefTypes, ExclInv, Reviewing, ReaderInv, Reading, Reaches
<1>7. ReviewInv'
  BY SMTT(20) DEF Inv, TypeOK, RefTypes, ReviewInv, Reviewing, CursorTypes, ReaderInv, Reading, Reaches,
       ExclInv
<1>8. CleanInv'
  <2>1. \A d \in Cursors, q \in Refs : Acquired(d, q)' => Acquired(d, q)
    BY DEF Inv, TypeOK, CursorTypes, Acquired
  <2> QED BY <2>1, CleanUnacquired
<1>9. WalkInv'
  BY SMTT(20) DEF Inv, TypeOK, RefTypes, WalkInv, WalkRef, CursorTypes, ReaderInv, Reading, Reaches
<1>10. TreeInv'
  BY SMTT(20) DEF Inv, TypeOK, RefTypes, TreeInv, ReaderInv, Reading, Reaches
<1>11. EvictTypes' /\ DyingInv' /\ LruInv'
  BY EvictTypesFrame, DyingInvFrame, LruInvFrame DEF Inv, TypeOK
<1> QED BY <1>1, <1>2, <1>3, <1>4, <1>5, <1>6, <1>7, <1>8, <1>9, <1>10, <1>11 DEF Inv, TypeOK

\* ReadPublish(c) preserves the invariant.
LEMMA ReadPublishStep ==
  ASSUME Inv, ~ raced', NEW c \in Cursors, ReadPublish(c)
  PROVE  Inv'
<1> USE DEF ReadPublish, Goto, SetState
<1>1. RefTypes'
  BY DEF Inv, TypeOK, RefTypes, States, ReaderInv, Reading, Reaches
<1>2. CursorTypes'
  BY DEF Inv, TypeOK, CursorTypes, CursorLabels, ReaderInv, Reading, Reaches
<1>3. RefInv'
  BY DEF Inv, TypeOK, RefTypes, RefInv, ReaderInv, Reading, Reaches
<1>4. ReaderInv'
  BY SMTT(20) DEF Inv, TypeOK, CursorTypes, RefTypes, ReaderInv, Reading, Reaches
<1>5. HoldInv'
  <2>1. \A d \in Cursors, q \in Refs : Acquired(d, q)' => Acquired(d, q)
    BY DEF Inv, TypeOK, CursorTypes, Acquired
  <2>2. \A q \in Refs : state[q] \in InMem => state'[q] \in InMem
    BY DEF Inv, TypeOK, RefTypes
  <2> QED BY <2>1, <2>2, HoldUnacquired
<1>6. ExclInv'
  BY SMTT(20) DEF Inv, TypeOK, RefTypes, ExclInv, Reviewing, ReaderInv, Reading, Reaches
<1>7. ReviewInv'
  BY SMTT(20) DEF Inv, TypeOK, RefTypes, ReviewInv, Reviewing, ReaderInv, Reading, Reaches, ExclInv
<1>8. CleanInv'
  <2>1. \A d \in Cursors, q \in Refs : Acquired(d, q)' => Acquired(d, q)
    BY DEF Inv, TypeOK, CursorTypes, Acquired
  <2> QED BY <2>1, CleanUnacquired
<1>9. WalkInv'
  BY SMTT(20) DEF Inv, TypeOK, RefTypes, WalkInv, WalkRef, ReaderInv, Reading, Reaches
<1>10. TreeInv'
  BY SMTT(20) DEF Inv, TypeOK, RefTypes, TreeInv, ReaderInv, Reading, Reaches
<1>11. EvictTypes' /\ DyingInv' /\ LruInv'
  BY EvictTypesFrame, DyingInvFrame, LruInvFrame DEF Inv, TypeOK
<1> QED BY <1>1, <1>2, <1>3, <1>4, <1>5, <1>6, <1>7, <1>8, <1>9, <1>10, <1>11 DEF Inv, TypeOK

\* ReadPage(c, p) preserves the invariant.
LEMMA ReadPageStep ==
  ASSUME Inv, ~ raced', NEW c \in Cursors, NEW p \in Pages, ReadPage(c, p)
  PROVE  Inv'
<1> USE DEF ReadPage, Goto
<1>1. RefTypes'
  BY DEF Inv, TypeOK, RefTypes, States, ReaderInv, Reading, Reaches
<1>2. CursorTypes'
  BY DEF Inv, TypeOK, CursorTypes, CursorLabels, ReaderInv, Reading, Reaches
<1>3. RefInv'
  BY SMTT(20) DEF Inv, TypeOK, RefTypes, RefInv, ReaderInv, Reading, Reaches
<1>4. ReaderInv'
  BY SMTT(20) DEF Inv, TypeOK, RefTypes, CursorTypes, ReaderInv, Reading, Reaches
<1>5. HoldInv'
  BY SMTT(20) DEF Inv, TypeOK, RefTypes, CursorTypes, HoldInv, Acquired, ReaderInv, Reading, Reaches
<1>6. ExclInv'
  BY SMTT(20) DEF Inv, TypeOK, RefTypes, ExclInv, Reviewing
<1>7. CleanInv'
  <2>1. pc' = [pc EXCEPT ![c] = "publish"] /\ UNCHANGED <<at, holds>>
    OBVIOUS
  <2>2. \A d \in Cursors, q \in Refs : Acquired(d, q)' => Acquired(d, q)
    <3> HIDE DEF ReadPage
    <3> QED BY <2>1 DEF Inv, TypeOK, CursorTypes, Acquired
  <2> QED BY <2>2, CleanUnacquired
<1>8. DyingInv'
  BY SMTT(20) DEF Inv, TypeOK, RefTypes, DyingInv
<1>9. WalkInv'
  BY SMTT(20) DEF Inv, TypeOK, RefTypes, WalkInv, WalkRef, ReaderInv, Reading, Reaches
<1>10. LruInv'
  BY SMTT(20) DEF Inv, TypeOK, RefTypes, LruInv, ExclInv, Reviewing, ReaderInv, Reading, Reaches
<1>11. EvictTypes' /\ ReviewInv' /\ TreeInv'
  BY EvictTypesFrame, ReviewInvFrame, TreeInvFrame DEF Inv, TypeOK
<1> QED BY <1>1, <1>2, <1>3, <1>4, <1>5, <1>6, <1>7, <1>8, <1>9, <1>10, <1>11 DEF Inv, TypeOK

\* RefLock(c, r) preserves the invariant.
LEMMA RefLockStep ==
  ASSUME Inv, ~ raced', NEW c \in Cursors, NEW r \in Refs, RefLock(c, r)
  PROVE  Inv'
<1> USE DEF RefLock, Goto, SetState, Reaches
<1>1. RefTypes'
  BY DEF Inv, TypeOK, RefTypes, States
<1>2. CursorTypes'
  BY DEF Inv, TypeOK, CursorTypes, CursorLabels
<1>3. RefInv'
  BY DEF Inv, TypeOK, RefTypes, RefInv
<1>4. ReaderInv'
  BY SMTT(20) DEF Inv, TypeOK, CursorTypes, RefTypes, ReaderInv, Reading, Reaches, HoldInv, Acquired,
       RefInv
<1>5. HoldInv'
  <2>1. \A d \in Cursors, q \in Refs : Acquired(d, q)' => Acquired(d, q)
    BY DEF Inv, TypeOK, CursorTypes, Acquired
  <2>2. \A q \in Refs : state[q] \in InMem => state'[q] \in InMem
    BY DEF Inv, TypeOK, RefTypes
  <2> QED BY <2>1, <2>2, HoldUnacquired
<1>6. ExclInv'
  BY SMTT(20) DEF Inv, TypeOK, RefTypes, ExclInv, Reviewing
<1>7. ReviewInv'
  BY SMTT(20), VisitedUnreached DEF Inv, TypeOK, RefTypes, ReviewInv, Reviewing, CleanInv, Acquired,
       HoldInv
<1>8. CleanInv'
  <2>1. \A d \in Cursors, q \in Refs : Acquired(d, q)' => Acquired(d, q)
    BY DEF Inv, TypeOK, CursorTypes, Acquired
  <2> QED BY <2>1, CleanUnacquired
<1>9. WalkInv'
  BY DEF Inv, TypeOK, RefTypes, WalkInv, WalkRef
<1>10. TreeInv'
  BY SMTT(20) DEF Inv, TypeOK, RefTypes, TreeInv, HoldInv, Acquired
<1>11. EvictTypes' /\ DyingInv' /\ LruInv'
  BY EvictTypesFrame, DyingInvFrame, LruInvFrame DEF Inv, TypeOK
<1> QED BY <1>1, <1>2, <1>3, <1>4, <1>5, <1>6, <1>7, <1>8, <1>9, <1>10, <1>11 DEF Inv, TypeOK

\* RefUnlock(c, s) preserves the invariant.
LEMMA RefUnlockStep ==
  ASSUME Inv, ~ raced', NEW c \in Cursors, NEW s \in OnDisk, RefUnlock(c, s)
  PROVE  Inv'
<1> USE DEF RefUnlock, SetState, Return
<1>1. RefTypes'
  BY DEF Inv, TypeOK, RefTypes, States, ReaderInv, Reading, Reaches
<1>2. CursorTypes'
  BY DEF Inv, TypeOK, CursorTypes, CursorLabels, ReaderInv, Reading, Reaches
<1>3. RefInv'
  BY DEF Inv, TypeOK, RefTypes, RefInv, ReaderInv, Reading, Reaches
<1>4. ReaderInv'
  BY SMTT(20) DEF Inv, TypeOK, CursorTypes, RefTypes, ReaderInv, Reading, Reaches
<1>5. HoldInv'
  <2>1. \A d \in Cursors, q \in Refs : Acquired(d, q)' => Acquired(d, q)
    BY DEF Inv, TypeOK, CursorTypes, Acquired
  <2>2. \A q \in Refs : state[q] \in InMem => state'[q] \in InMem
    BY DEF Inv, TypeOK, RefTypes, ReaderInv, Reading
  <2> QED BY <2>1, <2>2, HoldUnacquired
<1>6. ExclInv'
  BY SMTT(20) DEF Inv, TypeOK, RefTypes, ExclInv, Reviewing, ReaderInv, Reading, Reaches
<1>7. ReviewInv'
  BY SMTT(20) DEF Inv, TypeOK, RefTypes, ReviewInv, Reviewing
<1>8. CleanInv'
  <2>1. \A d \in Cursors, q \in Refs : Acquired(d, q)' => Acquired(d, q)
    BY DEF Inv, TypeOK, CursorTypes, Acquired
  <2> QED BY <2>1, CleanUnacquired
<1>9. WalkInv'
  BY SMTT(20) DEF Inv, TypeOK, RefTypes, WalkInv, WalkRef, ReaderInv, Reading, Reaches
<1>10. TreeInv'
  BY SMTT(20) DEF Inv, TypeOK, RefTypes, TreeInv, ReaderInv, Reading, Reaches
<1>11. EvictTypes' /\ DyingInv' /\ LruInv'
  BY EvictTypesFrame, DyingInvFrame, LruInvFrame DEF Inv, TypeOK
<1> QED BY <1>1, <1>2, <1>3, <1>4, <1>5, <1>6, <1>7, <1>8, <1>9, <1>10, <1>11 DEF Inv, TypeOK

\* PageRelease(c, r) preserves the invariant.
LEMMA PageReleaseStep ==
  ASSUME Inv, ~ raced', NEW c \in Cursors, NEW r \in Refs, PageRelease(c, r)
  PROVE  Inv'
<1> USE DEF PageRelease, HazardClear
<1>1. CursorTypes'
  BY SMTT(20) DEF Inv, TypeOK, CursorTypes, CursorLabels
<1>2. ReaderInv'
  BY SMTT(20) DEF Inv, TypeOK, CursorTypes, ReaderInv, Reading, Reaches
<1>3. HoldInv'
  BY SMTT(20) DEF Inv, TypeOK, CursorTypes, HoldInv, Acquired
<1>4. CleanInv'
  <2>1. \A d \in Cursors, q \in Refs : Acquired(d, q)' => Acquired(d, q)
    BY DEF Inv, TypeOK, CursorTypes, Acquired
  <2> QED BY <2>1, CleanUnacquired
<1>5. RefTypes' /\ EvictTypes' /\ RefInv' /\ ExclInv' /\ ReviewInv' /\
      DyingInv' /\ WalkInv' /\ LruInv' /\ TreeInv'
  BY RefTypesFrame, EvictTypesFrame, RefInvFrame, ExclInvFrame, ReviewInvFrame, DyingInvFrame,
       WalkInvFrame, LruInvFrame, TreeInvFrame DEF Inv, TypeOK
<1> QED BY <1>1, <1>2, <1>3, <1>4, <1>5 DEF Inv, TypeOK

\* HazardCheckState(c) preserves the invariant.
LEMMA HazardCheckStateStep ==
  ASSUME Inv, ~ raced', NEW c \in Cursors, HazardCheckState(c)
  PROVE  Inv'
<1>1. /\ pc[c] = "checkstate"
      /\ UNCHANGED <<refVars, serverVars, hazard, holds, got, at, prev, cand, evictVars>>
  BY DEF HazardCheckState
<1>2. CASE state[at[c]] \in {"mem", "walk"}
  <2>1. /\ pc' = [pc EXCEPT ![c] = "use"]
        /\ page[at[c]] = hazard[c][at[c]]
    BY <1>2 DEF HazardCheckState, Goto
  <2>2. CursorTypes'
    BY <1>1, <1>2, <2>1 DEF Inv, TypeOK, CursorTypes, CursorLabels, ReaderInv, Reading, Reaches
  <2>3. ReaderInv'
    BY SMTT(20), <1>1, <1>2, <2>1 DEF Inv, TypeOK, CursorTypes, ReaderInv, Reading, Reaches
  <2>4. HoldInv'
    BY SMTT(20), Z3T(20), <1>1, <1>2, <2>1 DEF Inv, TypeOK, CursorTypes, HoldInv, Acquired, ReaderInv,
         Reading, Reaches, RefInv
  <2>5. CleanInv'
    BY SMTT(20), <1>1, <1>2, <2>1 DEF Inv, TypeOK, CursorTypes, CleanInv, Acquired, Reviewing, ReaderInv,
         Reading, Reaches, ExclInv
  <2>6. RefTypes' /\ EvictTypes' /\ RefInv' /\ ExclInv' /\ ReviewInv' /\
        DyingInv' /\ WalkInv' /\ LruInv' /\ TreeInv'
    BY <1>1, <1>2, <2>1, RefTypesFrame, EvictTypesFrame, RefInvFrame, ExclInvFrame, ReviewInvFrame,
         DyingInvFrame, WalkInvFrame, LruInvFrame, TreeInvFrame DEF Inv, TypeOK
  <2> QED BY <2>2, <2>3, <2>4, <2>5, <2>6 DEF Inv, TypeOK
<1>3. CASE state[at[c]] \notin {"mem", "walk"}
  <2>1. pc' = [pc EXCEPT ![c] = "busy"]
    BY <1>3 DEF HazardCheckState, Goto
  <2>2. CursorTypes'
    BY <1>1, <1>3, <2>1 DEF Inv, TypeOK, CursorTypes, CursorLabels, ReaderInv, Reading, Reaches
  <2>3. ReaderInv'
    BY SMTT(20), <1>1, <1>3, <2>1 DEF Inv, TypeOK, CursorTypes, ReaderInv, Reading, Reaches
  <2>4. HoldInv'
    BY SMTT(20), <1>1, <1>3, <2>1 DEF Inv, TypeOK, CursorTypes, HoldInv, Acquired, ReaderInv,
         Reading, Reaches, RefInv
  <2>5. CleanInv'
    BY SMTT(20), <1>1, <1>3, <2>1 DEF Inv, TypeOK, CursorTypes, CleanInv, Acquired, Reviewing, ReaderInv,
         Reading, Reaches, ExclInv
  <2>6. RefTypes' /\ EvictTypes' /\ RefInv' /\ ExclInv' /\ ReviewInv' /\
        DyingInv' /\ WalkInv' /\ LruInv' /\ TreeInv'
    BY <1>1, <1>3, <2>1, RefTypesFrame, EvictTypesFrame, RefInvFrame, ExclInvFrame, ReviewInvFrame,
         DyingInvFrame, WalkInvFrame, LruInvFrame, TreeInvFrame DEF Inv, TypeOK
  <2> QED BY <2>2, <2>3, <2>4, <2>5, <2>6 DEF Inv, TypeOK
<1> QED BY <1>2, <1>3

\* PageInUse(c) preserves the invariant.
LEMMA PageInUseStep ==
  ASSUME Inv, ~ raced', NEW c \in Cursors, PageInUse(c)
  PROVE  Inv'
<1> USE DEF PageInUse, Return
<1>1. CursorTypes'
  BY SMTT(20) DEF Inv, TypeOK, CursorTypes, CursorLabels, RefTypes, ReaderInv, Reading, Reaches
<1>2. ReaderInv'
  BY SMTT(20) DEF Inv, TypeOK, CursorTypes, ReaderInv, Reading, Reaches
<1>3. HoldInv'
  BY SMTT(20) DEF Inv, TypeOK, CursorTypes, HoldInv, Acquired
<1>4. CleanInv'
  <2>1. \A d \in Cursors, q \in Refs : Acquired(d, q)' => Acquired(d, q)
    BY DEF Inv, TypeOK, CursorTypes, Acquired
  <2> QED BY <2>1, CleanUnacquired
<1>5. RefTypes' /\ EvictTypes' /\ RefInv' /\ ExclInv' /\ ReviewInv' /\
      DyingInv' /\ WalkInv' /\ LruInv' /\ TreeInv'
  BY RefTypesFrame, EvictTypesFrame, RefInvFrame, ExclInvFrame, ReviewInvFrame, DyingInvFrame,
       WalkInvFrame, LruInvFrame, TreeInvFrame DEF Inv, TypeOK
<1> QED BY <1>1, <1>2, <1>3, <1>4, <1>5 DEF Inv, TypeOK

\* HazardStore(c) preserves the invariant.
LEMMA HazardStoreStep ==
  ASSUME Inv, ~ raced', NEW c \in Cursors, HazardStore(c)
  PROVE  Inv'
<1> USE DEF HazardStore, Goto
<1>1. CursorTypes'
  BY SMTT(20) DEF Inv, TypeOK, CursorTypes, CursorLabels, ReaderInv, Reading, Reaches
<1>2. ReaderInv'
  BY SMTT(20) DEF Inv, TypeOK, CursorTypes, ReaderInv, Reading, Reaches
<1>3. HoldInv'
  BY SMTT(20) DEF Inv, TypeOK, CursorTypes, HoldInv, Acquired, ReaderInv, Reading, Reaches
<1>4. CleanInv'
  <2>1. \A d \in Cursors, q \in Refs : Acquired(d, q)' => Acquired(d, q)
    BY DEF Inv, TypeOK, CursorTypes, Acquired
  <2> QED BY <2>1, CleanUnacquired
<1>5. RefTypes' /\ EvictTypes' /\ RefInv' /\ ExclInv' /\ ReviewInv' /\
      DyingInv' /\ WalkInv' /\ LruInv' /\ TreeInv'
  BY RefTypesFrame, EvictTypesFrame, RefInvFrame, ExclInvFrame, ReviewInvFrame, DyingInvFrame,
       WalkInvFrame, LruInvFrame, TreeInvFrame DEF Inv, TypeOK
<1> QED BY <1>1, <1>2, <1>3, <1>4, <1>5 DEF Inv, TypeOK

\* HazardLoad(c) preserves the invariant.
LEMMA HazardLoadStep ==
  ASSUME Inv, ~ raced', NEW c \in Cursors, HazardLoad(c)
  PROVE  Inv'
<1> USE DEF HazardLoad, Goto
<1>1. CursorTypes'
  BY SMTT(20) DEF Inv, TypeOK, CursorTypes, CursorLabels, RefTypes, ReaderInv, Reading, Reaches
<1>2. ReaderInv'
  BY SMTT(20) DEF Inv, TypeOK, CursorTypes, ReaderInv, Reading, Reaches
<1>3. HoldInv'
  <2>1. \A d \in Cursors, q \in Refs : Acquired(d, q)' => Acquired(d, q)
    BY DEF Inv, TypeOK, CursorTypes, Acquired
  <2>2. \A q \in Refs : state[q] \in InMem => state'[q] \in InMem
    BY DEF Inv, TypeOK, RefTypes
  <2> QED BY <2>1, <2>2, HoldUnacquired
<1>4. CleanInv'
  <2>1. \A d \in Cursors, q \in Refs : Acquired(d, q)' => Acquired(d, q)
    BY DEF Inv, TypeOK, CursorTypes, Acquired
  <2> QED BY <2>1, CleanUnacquired
<1>5. RefTypes' /\ EvictTypes' /\ RefInv' /\ ExclInv' /\ ReviewInv' /\
      DyingInv' /\ WalkInv' /\ LruInv' /\ TreeInv'
  BY RefTypesFrame, EvictTypesFrame, RefInvFrame, ExclInvFrame, ReviewInvFrame, DyingInvFrame,
       WalkInvFrame, LruInvFrame, TreeInvFrame DEF Inv, TypeOK
<1> QED BY <1>1, <1>2, <1>3, <1>4, <1>5 DEF Inv, TypeOK

\* HazardCheckPage(c) preserves the invariant.
LEMMA HazardCheckPageStep ==
  ASSUME Inv, ~ raced', NEW c \in Cursors, HazardCheckPage(c)
  PROVE  Inv'
<1> USE DEF HazardCheckPage, Goto
<1>1. CursorTypes'
  BY DEF Inv, TypeOK, CursorTypes, CursorLabels
<1>2. ReaderInv'
  BY SMTT(20) DEF Inv, TypeOK, CursorTypes, ReaderInv, Reading, Reaches
<1>3. HoldInv'
  <2>1. \A d \in Cursors, q \in Refs : Acquired(d, q)' => Acquired(d, q)
    BY DEF Inv, TypeOK, CursorTypes, Acquired
  <2>2. \A q \in Refs : state[q] \in InMem => state'[q] \in InMem
    BY DEF Inv, TypeOK, RefTypes
  <2> QED BY <2>1, <2>2, HoldUnacquired
<1>4. CleanInv'
  <2>1. \A d \in Cursors, q \in Refs : Acquired(d, q)' => Acquired(d, q)
    BY DEF Inv, TypeOK, CursorTypes, Acquired
  <2> QED BY <2>1, CleanUnacquired
<1>5. RefTypes' /\ EvictTypes' /\ RefInv' /\ ExclInv' /\ ReviewInv' /\
      DyingInv' /\ WalkInv' /\ LruInv' /\ TreeInv'
  BY RefTypesFrame, EvictTypesFrame, RefInvFrame, ExclInvFrame, ReviewInvFrame, DyingInvFrame,
       WalkInvFrame, LruInvFrame, TreeInvFrame DEF Inv, TypeOK
<1> QED BY <1>1, <1>2, <1>3, <1>4, <1>5 DEF Inv, TypeOK

\* HazardBusy(c) preserves the invariant.
LEMMA HazardBusyStep ==
  ASSUME Inv, ~ raced', NEW c \in Cursors, HazardBusy(c)
  PROVE  Inv'
<1> USE DEF HazardBusy, Goto
<1>1. CursorTypes'
  BY SMTT(20) DEF Inv, TypeOK, CursorTypes, CursorLabels, ReaderInv, Reading, Reaches
<1>2. ReaderInv'
  BY SMTT(20) DEF Inv, TypeOK, CursorTypes, ReaderInv, Reading, Reaches
<1>3. HoldInv'
  BY SMTT(20) DEF Inv, TypeOK, CursorTypes, HoldInv, Acquired, ReaderInv, Reading, Reaches
<1>4. CleanInv'
  <2>1. \A d \in Cursors, q \in Refs : Acquired(d, q)' => Acquired(d, q)
    BY DEF Inv, TypeOK, CursorTypes, Acquired
  <2> QED BY <2>1, CleanUnacquired
<1>5. RefTypes' /\ EvictTypes' /\ RefInv' /\ ExclInv' /\ ReviewInv' /\
      DyingInv' /\ WalkInv' /\ LruInv' /\ TreeInv'
  BY RefTypesFrame, EvictTypesFrame, RefInvFrame, ExclInvFrame, ReviewInvFrame, DyingInvFrame,
       WalkInvFrame, LruInvFrame, TreeInvFrame DEF Inv, TypeOK
<1> QED BY <1>1, <1>2, <1>3, <1>4, <1>5 DEF Inv, TypeOK

\* PageInAncient(c) preserves the invariant.
LEMMA PageInAncientStep ==
  ASSUME Inv, ~ raced', NEW c \in Cursors, PageInAncient(c)
  PROVE  Inv'
<1> USE DEF PageInAncient, HazardClear, Goto
<1>1. CursorTypes'
  BY SMTT(20) DEF Inv, TypeOK, CursorTypes, CursorLabels, ReaderInv, Reading, Reaches
<1>2. ReaderInv'
  BY SMTT(20) DEF Inv, TypeOK, CursorTypes, ReaderInv, Reading, Reaches
<1>3. HoldInv'
  BY SMTT(20) DEF Inv, TypeOK, CursorTypes, HoldInv, Acquired, ReaderInv, Reading, Reaches
<1>4. CleanInv'
  <2>1. \A d \in Cursors, q \in Refs : Acquired(d, q)' => Acquired(d, q)
    BY DEF Inv, TypeOK, CursorTypes, Acquired
  <2> QED BY <2>1, CleanUnacquired
<1>5. RefTypes' /\ EvictTypes' /\ RefInv' /\ ExclInv' /\ ReviewInv' /\
      DyingInv' /\ WalkInv' /\ LruInv' /\ TreeInv'
  BY RefTypesFrame, EvictTypesFrame, RefInvFrame, ExclInvFrame, ReviewInvFrame, DyingInvFrame,
       WalkInvFrame, LruInvFrame, TreeInvFrame DEF Inv, TypeOK
<1> QED BY <1>1, <1>2, <1>3, <1>4, <1>5 DEF Inv, TypeOK

\* PageInError(c) preserves the invariant.
LEMMA PageInErrorStep ==
  ASSUME Inv, ~ raced', NEW c \in Cursors, PageInError(c)
  PROVE  Inv'
<1> USE DEF PageInError, HazardClear, Return
<1>1. CursorTypes'
  BY SMTT(20) DEF Inv, TypeOK, CursorTypes, CursorLabels, ReaderInv, Reading, Reaches
<1>2. ReaderInv'
  BY SMTT(20) DEF Inv, TypeOK, CursorTypes, ReaderInv, Reading, Reaches
<1>3. HoldInv'
  BY SMTT(20) DEF Inv, TypeOK, CursorTypes, HoldInv, Acquired, ReaderInv, Reading, Reaches
<1>4. CleanInv'
  <2>1. \A d \in Cursors, q \in Refs : Acquired(d, q)' => Acquired(d, q)
    BY DEF Inv, TypeOK, CursorTypes, Acquired
  <2> QED BY <2>1, CleanUnacquired
<1>5. RefTypes' /\ EvictTypes' /\ RefInv' /\ ExclInv' /\ ReviewInv' /\
      DyingInv' /\ WalkInv' /\ LruInv' /\ TreeInv'
  BY RefTypesFrame, EvictTypesFrame, RefInvFrame, ExclInvFrame, ReviewInvFrame, DyingInvFrame,
       WalkInvFrame, LruInvFrame, TreeInvFrame DEF Inv, TypeOK
<1> QED BY <1>1, <1>2, <1>3, <1>4, <1>5 DEF Inv, TypeOK

\* PageIn(c, r) preserves the invariant.
LEMMA PageInStep ==
  ASSUME Inv, ~ raced', NEW c \in Cursors, NEW r \in Refs, PageIn(c, r)
  PROVE  Inv'
<1> USE DEF PageIn, Goto, Reaches
<1>1. CursorTypes'
  BY DEF Inv, TypeOK, CursorTypes, CursorLabels
<1>2. ReaderInv'
  BY SMTT(20) DEF Inv, TypeOK, CursorTypes, ReaderInv, Reading, Reaches
<1>3. HoldInv'
  <2>1. \A d \in Cursors, q \in Refs : Acquired(d, q)' => Acquired(d, q)
    BY DEF Inv, TypeOK, CursorTypes, Acquired
  <2>2. \A q \in Refs : state[q] \in InMem => state'[q] \in InMem
    BY DEF Inv, TypeOK, RefTypes
  <2> QED BY <2>1, <2>2, HoldUnacquired
<1>4. CleanInv'
  <2>1. \A d \in Cursors, q \in Refs : Acquired(d, q)' => Acquired(d, q)
    BY DEF Inv, TypeOK, CursorTypes, Acquired
  <2> QED BY <2>1, CleanUnacquired
<1>5. RefTypes' /\ EvictTypes' /\ RefInv' /\ ExclInv' /\ ReviewInv' /\
      DyingInv' /\ WalkInv' /\ LruInv' /\ TreeInv'
  BY RefTypesFrame, EvictTypesFrame, RefInvFrame, ExclInvFrame, ReviewInvFrame, DyingInvFrame,
       WalkInvFrame, LruInvFrame, TreeInvFrame DEF Inv, TypeOK
<1> QED BY <1>1, <1>2, <1>3, <1>4, <1>5 DEF Inv, TypeOK

\* PageInSwitch(c) preserves the invariant.
LEMMA PageInSwitchStep ==
  ASSUME Inv, ~ raced', NEW c \in Cursors, PageInSwitch(c)
  PROVE  Inv'
<1> USE DEF PageInSwitch, Goto
<1>1. CursorTypes'
  BY DEF Inv, TypeOK, CursorTypes, CursorLabels
<1>2. ReaderInv'
  BY SMTT(20) DEF Inv, TypeOK, CursorTypes, ReaderInv, Reading, Reaches
<1>3. HoldInv'
  <2>1. \A d \in Cursors, q \in Refs : Acquired(d, q)' => Acquired(d, q)
    BY DEF Inv, TypeOK, CursorTypes, Acquired
  <2>2. \A q \in Refs : state[q] \in InMem => state'[q] \in InMem
    BY DEF Inv, TypeOK, RefTypes
  <2> QED BY <2>1, <2>2, HoldUnacquired
<1>4. CleanInv'
  <2>1. \A d \in Cursors, q \in Refs : Acquired(d, q)' => Acquired(d, q)
    BY DEF Inv, TypeOK, CursorTypes, Acquired
  <2> QED BY <2>1, CleanUnacquired
<1>5. RefTypes' /\ EvictTypes' /\ RefInv' /\ ExclInv' /\ ReviewInv' /\
      DyingInv' /\ WalkInv' /\ LruInv' /\ TreeInv'
  BY RefTypesFrame, EvictTypesFrame, RefInvFrame, ExclInvFrame, ReviewInvFrame, DyingInvFrame,
       WalkInvFrame, LruInvFrame, TreeInvFrame DEF Inv, TypeOK
<1> QED BY <1>1, <1>2, <1>3, <1>4, <1>5 DEF Inv, TypeOK

\* PageInFail(c) preserves the invariant.
LEMMA PageInFailStep ==
  ASSUME Inv, ~ raced', NEW c \in Cursors, PageInFail(c)
  PROVE  Inv'
<1> USE DEF PageInFail, Return
<1>1. CursorTypes'
  BY DEF Inv, TypeOK, CursorTypes, CursorLabels, ReaderInv, Reading, Reaches
<1>2. ReaderInv'
  BY SMTT(20) DEF Inv, TypeOK, CursorTypes, ReaderInv, Reading, Reaches
<1>3. HoldInv'
  <2>1. \A d \in Cursors, q \in Refs : Acquired(d, q)' => Acquired(d, q)
    BY DEF Inv, TypeOK, CursorTypes, Acquired
  <2>2. \A q \in Refs : state[q] \in InMem => state'[q] \in InMem
    BY DEF Inv, TypeOK, RefTypes
  <2> QED BY <2>1, <2>2, HoldUnacquired
<1>4. CleanInv'
  <2>1. \A d \in Cursors, q \in Refs : Acquired(d, q)' => Acquired(d, q)
    BY DEF Inv, TypeOK, CursorTypes, Acquired
  <2> QED BY <2>1, CleanUnacquired
<1>5. RefTypes' /\ EvictTypes' /\ RefInv' /\ ExclInv' /\ ReviewInv' /\
      DyingInv' /\ WalkInv' /\ LruInv' /\ TreeInv'
  BY RefTypesFrame, EvictTypesFrame, RefInvFrame, ExclInvFrame, ReviewInvFrame, DyingInvFrame,
       WalkInvFrame, LruInvFrame, TreeInvFrame DEF Inv, TypeOK
<1> QED BY <1>1, <1>2, <1>3, <1>4, <1>5 DEF Inv, TypeOK
=============================================================================

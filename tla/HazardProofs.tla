---------------------------- MODULE HazardProofs ----------------------------
(***************************************************************************)
(* Theorems about Hazard.  The steps of the eviction server's walk, and    *)
(* those in which evicting threads lock pages, look for hazard references  *)
(* to them, unlock, unlink and free them preserve the invariant too; so it *)
(* holds always, and the properties follow from it.                        *)
(***************************************************************************)
EXTENDS HazardSteps

\* The prover of a leaf that names no other.
USE ZenonT(60)

USE NoRefAssumption, NoPageAssumption, ParentAssumption
USE DEF refVars, serverVars, cursorVars, evictVars, OnDisk, InMem

\* WalkAscend preserves the invariant.
LEMMA WalkAscendStep ==
  ASSUME Inv, ~ raced', WalkAscend
  PROVE  Inv'
<1> USE DEF WalkAscend, SetState
<1>1. RefTypes'
  BY DEF Inv, TypeOK, RefTypes, States, WalkInv, WalkRef
<1>2. RefInv'
  BY DEF Inv, TypeOK, RefTypes, RefInv
<1>3. ReaderInv'
  BY DEF Inv, TypeOK, RefTypes, ReaderInv, Reading, Reaches
<1>4. HoldInv'
  BY SMTT(20) DEF Inv, TypeOK, RefTypes, HoldInv, Acquired
<1>5. ExclInv'
  BY SMTT(20) DEF Inv, TypeOK, RefTypes, ExclInv, Reviewing
<1>6. ReviewInv'
  BY SMTT(20) DEF Inv, TypeOK, RefTypes, ReviewInv, Reviewing
<1>7. WalkInv'
  BY SMTT(20) DEF Inv, TypeOK, RefTypes, WalkInv, WalkRef, RefInv
<1>8. TreeInv'
  BY DEF Inv, TypeOK, RefTypes, TreeInv
<1>9. CursorTypes' /\ EvictTypes' /\ CleanInv' /\ DyingInv' /\ LruInv'
  BY CursorTypesFrame, EvictTypesFrame, CleanInvFrame, DyingInvFrame, LruInvFrame DEF Inv, TypeOK
<1> QED BY <1>1, <1>2, <1>3, <1>4, <1>5, <1>6, <1>7, <1>8, <1>9 DEF Inv, TypeOK

\* WalkDescend(r) preserves the invariant.
LEMMA WalkDescendStep ==
  ASSUME Inv, ~ raced', NEW r \in Refs, WalkDescend(r)
  PROVE  Inv'
<1> USE DEF WalkDescend, SetState, WalkRef
<1>1. RefTypes'
  BY DEF Inv, TypeOK, RefTypes, States
<1>2. RefInv'
  BY DEF Inv, TypeOK, RefTypes, RefInv
<1>3. ReaderInv'
  BY DEF Inv, TypeOK, RefTypes, ReaderInv, Reading, Reaches
<1>4. HoldInv'
  BY SMTT(20) DEF Inv, TypeOK, RefTypes, HoldInv, Acquired
<1>5. ExclInv'
  BY SMTT(20) DEF Inv, TypeOK, RefTypes, ExclInv, Reviewing
<1>6. ReviewInv'
  BY SMTT(20) DEF Inv, TypeOK, RefTypes, ReviewInv, Reviewing
<1>7. WalkInv'
  BY SMTT(20) DEF Inv, TypeOK, RefTypes, WalkInv, WalkRef, RefInv
<1>8. TreeInv'
  BY DEF Inv, TypeOK, RefTypes, TreeInv
<1>9. CursorTypes' /\ EvictTypes' /\ CleanInv' /\ DyingInv' /\ LruInv'
  BY CursorTypesFrame, EvictTypesFrame, CleanInvFrame, DyingInvFrame, LruInvFrame DEF Inv, TypeOK
<1> QED BY <1>1, <1>2, <1>3, <1>4, <1>5, <1>6, <1>7, <1>8, <1>9 DEF Inv, TypeOK

\* WalkQueue preserves the invariant.
LEMMA WalkQueueStep ==
  ASSUME Inv, ~ raced', WalkQueue
  PROVE  Inv'
<1> USE DEF WalkQueue
<1>1. RefTypes'
  BY DEF Inv, TypeOK, RefTypes, States
<1>2. LruInv'
  BY SMTT(20) DEF Inv, TypeOK, RefTypes, LruInv, EvictTypes, ExclInv, Reviewing, WalkInv, WalkRef, RefInv
<1>3. CursorTypes' /\ EvictTypes' /\ RefInv' /\ ReaderInv' /\ HoldInv' /\
      ExclInv' /\ ReviewInv' /\ CleanInv' /\ DyingInv' /\ WalkInv' /\
      TreeInv'
  BY CursorTypesFrame, EvictTypesFrame, RefInvFrame, ReaderInvFrame, HoldInvFrame, ExclInvFrame,
       ReviewInvFrame, CleanInvFrame, DyingInvFrame, WalkInvFrame, TreeInvFrame DEF Inv, TypeOK
<1> QED BY <1>1, <1>2, <1>3 DEF Inv, TypeOK

\* ListClear(p) preserves the invariant.
LEMMA ListClearStep ==
  ASSUME Inv, ~ raced', NEW p \in Pages, ListClear(p)
  PROVE  Inv'
<1> USE DEF ListClear
<1>1. RefTypes'
  BY DEF Inv, TypeOK, RefTypes, States
<1>2. LruInv'
  BY DEF Inv, TypeOK, RefTypes, LruInv
<1>3. CursorTypes' /\ EvictTypes' /\ RefInv' /\ ReaderInv' /\ HoldInv' /\
      ExclInv' /\ ReviewInv' /\ CleanInv' /\ DyingInv' /\ WalkInv' /\
      TreeInv'
  BY CursorTypesFrame, EvictTypesFrame, RefInvFrame, ReaderInvFrame, HoldInvFrame, ExclInvFrame,
       ReviewInvFrame, CleanInvFrame, DyingInvFrame, WalkInvFrame, TreeInvFrame DEF Inv, TypeOK
<1> QED BY <1>1, <1>2, <1>3 DEF Inv, TypeOK

\* EvictChild(e, r) preserves the invariant.
LEMMA EvictChildStep ==
  ASSUME Inv, ~ raced', NEW e \in Evictors, NEW r \in Refs, EvictChild(e, r)
  PROVE  Inv'
<1>1. /\ epc[e] = "review" /\ Parent[r] \in excl[e] /\ r \notin visited[e]
      /\ UNCHANGED <<page, owner, serverVars, cursorVars, dying, raced>>
  BY DEF EvictChild
<1>2. CASE state[r] \in OnDisk
  <2>1. /\ visited' = [visited EXCEPT ![e] = @ \union {r}]
        /\ UNCHANGED <<state, cur, scanned, epc, excl, top>>
    BY <1>2 DEF EvictChild, SetState, EGoto
  <2>2. EvictTypes'
    BY <1>1, <1>2, <2>1 DEF Inv, TypeOK, EvictTypes, EvictLabels
  <2>3. ExclInv'
    BY SMTT(20), <1>1, <1>2, <2>1 DEF Inv, TypeOK, EvictTypes, ExclInv, Reviewing
  <2>4. ReviewInv'
    BY SMTT(20), <1>1, <1>2, <2>1 DEF Inv, TypeOK, EvictTypes, ReviewInv, Reviewing, ExclInv
  <2>5. RefTypes' /\ CursorTypes' /\ RefInv' /\ ReaderInv' /\ HoldInv' /\
        CleanInv' /\ DyingInv' /\ WalkInv' /\ LruInv' /\ TreeInv'
    BY <1>1, <1>2, <2>1, RefTypesFrame, CursorTypesFrame, RefInvFrame, ReaderInvFrame, HoldInvFrame,
         CleanInvFrame, DyingInvFrame, WalkInvFrame, LruInvFrame, TreeInvFrame DEF Inv, TypeOK
  <2> QED BY <2>2, <2>3, <2>4, <2>5 DEF Inv, TypeOK
<1>3. CASE state[r] = "mem"
  <2>1. /\ visited' = [visited EXCEPT ![e] = @ \union {r}]
        /\ excl' = [excl EXCEPT ![e] = @ \union {r}]
        /\ Exclusive(e, r)
        /\ UNCHANGED top
    BY <1>3 DEF EvictChild, SetState, EGoto
  <2> USE DEF Exclusive, EGoto, SetState
  <2>2. RefTypes'
    BY <1>1, <1>3, <2>1 DEF Inv, TypeOK, RefTypes, States
  <2>3. EvictTypes'
    BY <1>1, <1>3, <2>1 DEF Inv, TypeOK, EvictTypes, EvictLabels
  <2>4. RefInv'
    BY <1>1, <1>3, <2>1 DEF Inv, TypeOK, RefTypes, RefInv
  <2>5. ReaderInv'
    BY SMTT(20), <1>1, <1>3, <2>1 DEF Inv, TypeOK, RefTypes, ReaderInv, Reading, Reaches
  <2>6. HoldInv'
    BY SMTT(20), <1>1, <1>3, <2>1 DEF Inv, TypeOK, RefTypes, HoldInv, Acquired
  <2>7. ExclInv'
    BY SMTT(20), Z3T(20), <1>1, <1>3, <2>1 DEF Inv, TypeOK, EvictTypes, RefTypes, ExclInv, Reviewing, RefInv
  <2>8. ReviewInv'
    BY SMTT(20), Z3T(20), <1>1, <1>3, <2>1 DEF Inv, TypeOK, EvictTypes, RefTypes, ReviewInv, Reviewing, ExclInv
  <2>9. CleanInv'
    BY SMTT(20), Z3T(20), <1>1, <1>3, <2>1 DEF Inv, TypeOK, EvictTypes, CleanInv, Acquired, Reviewing, ExclInv
  <2>10. DyingInv'
    BY SMTT(20), <1>1, <1>3, <2>1 DEF Inv, TypeOK, EvictTypes, DyingInv
  <2>11. WalkInv'
    BY <1>1, <1>3, <2>1 DEF Inv, TypeOK, RefTypes, WalkInv, WalkRef
  <2>12. LruInv'
    BY <1>1, <1>3, <2>1 DEF Inv, TypeOK, EvictTypes, LruInv
  <2>13. TreeInv'
    BY <1>1, <1>3, <2>1 DEF Inv, TypeOK, RefTypes, TreeInv
  <2>14. CursorTypes'
    BY <1>1, <1>3, <2>1, CursorTypesFrame DEF Inv, TypeOK
  <2> QED BY <2>2, <2>3, <2>4, <2>5, <2>6, <2>7, <2>8, <2>9, <2>10, <2>11, <2>12, <2>13, <2>14 DEF
           Inv, TypeOK
<1>4. CASE state[r] \notin OnDisk \union {"mem"}
  <2>1. Fail(e) /\ UNCHANGED <<state, excl>>
    BY <1>4 DEF EvictChild, SetState, EGoto
  <2> USE DEF Fail, EGoto
  <2>2. EvictTypes'
    BY <1>1, <1>4, <2>1 DEF Inv, TypeOK, EvictTypes, EvictLabels
  <2>3. ExclInv'
    BY SMTT(20), Z3T(20), <1>1, <1>4, <2>1 DEF Inv, TypeOK, EvictTypes, ExclInv, Reviewing
  <2>4. ReviewInv'
    BY SMTT(20), <1>1, <1>4, <2>1 DEF Inv, TypeOK, EvictTypes, ReviewInv, Reviewing
  <2>5. CleanInv'
    BY SMTT(20), <1>1, <1>4, <2>1 DEF Inv, TypeOK, EvictTypes, CleanInv, Acquired, Reviewing
  <2>6. DyingInv'
    BY SMTT(20), <1>1, <1>4, <2>1 DEF Inv, TypeOK, EvictTypes, DyingInv
  <2>7. LruInv'
    BY <1>1, <1>4, <2>1 DEF Inv, TypeOK, EvictTypes, LruInv
  <2>8. RefTypes' /\ CursorTypes' /\ RefInv' /\ ReaderInv' /\ HoldInv' /\
        WalkInv' /\ TreeInv'
    BY <1>1, <1>4, <2>1, RefTypesFrame, CursorTypesFrame, RefInvFrame, ReaderInvFrame, HoldInvFrame,
         WalkInvFrame, TreeInvFrame DEF Inv, TypeOK
  <2> QED BY <2>2, <2>3, <2>4, <2>5, <2>6, <2>7, <2>8 DEF Inv, TypeOK
<1> QED BY <1>2, <1>3, <1>4

\* EvictGet(e, p) preserves the invariant.
LEMMA EvictGetStep ==
  ASSUME Inv, ~ raced', NEW e \in Evictors, NEW p \in Pages, EvictGet(e, p)
  PROVE  Inv'
<1> USE DEF EvictGet, Exclusive, SetState, EGoto
<1>1. RefTypes'
  BY DEF Inv, TypeOK, RefTypes, States, LruInv
<1>2. EvictTypes'
  BY SMTT(20) DEF Inv, TypeOK, EvictTypes, EvictLabels, RefTypes, LruInv
<1>3. RefInv'
  BY DEF Inv, TypeOK, RefTypes, RefInv
<1>4. ReaderInv'
  BY SMTT(20) DEF Inv, TypeOK, RefTypes, ReaderInv, Reading, Reaches, LruInv
<1>5. HoldInv'
  BY SMTT(20) DEF Inv, TypeOK, RefTypes, HoldInv, Acquired
<1>6. ExclInv'
  BY SMTT(20) DEF Inv, TypeOK, EvictTypes, RefTypes, ExclInv, Reviewing, LruInv, RefInv, ReviewInv
<1>7. ReviewInv'
  BY SMTT(20) DEF Inv, TypeOK, EvictTypes, RefTypes, ReviewInv, Reviewing
<1>8. CleanInv'
  BY SMTT(20) DEF Inv, TypeOK, EvictTypes, CleanInv, Acquired, Reviewing
<1>9. DyingInv'
  BY SMTT(20) DEF Inv, TypeOK, EvictTypes, DyingInv
<1>10. WalkInv'
  BY DEF Inv, TypeOK, RefTypes, WalkInv, WalkRef
<1>11. LruInv'
  BY DEF Inv, TypeOK, EvictTypes, RefTypes, LruInv
<1>12. TreeInv'
  BY DEF Inv, TypeOK, RefTypes, TreeInv
<1>13. CursorTypes'
  BY CursorTypesFrame DEF Inv, TypeOK
<1> QED BY <1>1, <1>2, <1>3, <1>4, <1>5, <1>6, <1>7, <1>8, <1>9, <1>10, <1>11, <1>12, <1>13 DEF Inv,
         TypeOK

\* EvictScan(e, k) preserves the invariant.
LEMMA EvictScanStep ==
  ASSUME Inv, ~ raced', NEW e \in Evictors, NEW k \in Slots, EvictScan(e, k)
  PROVE  Inv'
<1>1. /\ epc[e] = "scan" /\ k \notin scanned[e]
      /\ UNCHANGED <<refVars, serverVars, cursorVars, excl, dying, raced>>
  BY DEF EvictScan
<1>2. CASE hazard[k[1]][k[2]] = page[cur[e]]
  <2>1. Fail(e)
    BY <1>2 DEF EvictScan, EGoto
  <2> USE DEF Fail, EGoto
  <2>2. EvictTypes'
    BY <1>1, <1>2, <2>1 DEF Inv, TypeOK, EvictTypes, EvictLabels
  <2>3. ExclInv'
    BY SMTT(20), Z3T(20), <1>1, <1>2, <2>1 DEF Inv, TypeOK, EvictTypes, ExclInv, Reviewing
  <2>4. ReviewInv'
    BY SMTT(20), Z3T(20), <1>1, <1>2, <2>1 DEF Inv, TypeOK, EvictTypes, ReviewInv, Reviewing
  <2>5. CleanInv'
    BY SMTT(20), <1>1, <1>2, <2>1 DEF Inv, TypeOK, EvictTypes, CleanInv, Acquired, Reviewing
  <2>6. DyingInv'
    BY SMTT(20), <1>1, <1>2, <2>1 DEF Inv, TypeOK, EvictTypes, DyingInv
  <2>7. LruInv'
    BY <1>1, <1>2, <2>1 DEF Inv, TypeOK, EvictTypes, LruInv
  <2>8. RefTypes' /\ CursorTypes' /\ RefInv' /\ ReaderInv' /\ HoldInv' /\
        WalkInv' /\ TreeInv'
    BY <1>1, <1>2, <2>1, RefTypesFrame, CursorTypesFrame, RefInvFrame, ReaderInvFrame, HoldInvFrame,
         WalkInvFrame, TreeInvFrame DEF Inv, TypeOK
  <2> QED BY <2>2, <2>3, <2>4, <2>5, <2>6, <2>7, <2>8 DEF Inv, TypeOK
<1>3. CASE hazard[k[1]][k[2]] # page[cur[e]]
  <2>1. /\ scanned' = [scanned EXCEPT ![e] = @ \union {k}]
        /\ UNCHANGED <<epc, top, cur, visited>>
    BY <1>3 DEF EvictScan, EGoto
  <2>2. EvictTypes'
    BY <1>1, <1>3, <2>1 DEF Inv, TypeOK, EvictTypes, EvictLabels
  <2>3. CleanInv'
    BY SMTT(20), <1>1, <1>3, <2>1 DEF Inv, TypeOK, EvictTypes, CleanInv, Acquired, Reviewing, HoldInv,
         ExclInv
  <2>4. RefTypes' /\ CursorTypes' /\ RefInv' /\ ReaderInv' /\ HoldInv' /\
        ExclInv' /\ ReviewInv' /\ DyingInv' /\ WalkInv' /\ LruInv' /\
        TreeInv'
    BY <1>1, <1>3, <2>1, RefTypesFrame, CursorTypesFrame, RefInvFrame, ReaderInvFrame, HoldInvFrame,
         ExclInvFrame, ReviewInvFrame, DyingInvFrame, WalkInvFrame, LruInvFrame, TreeInvFrame DEF
         Inv, TypeOK
  <2> QED BY <2>2, <2>3, <2>4 DEF Inv, TypeOK
<1> QED BY <1>2, <1>3

\* EvictScanned(e) preserves the invariant.
LEMMA EvictScannedStep ==
  ASSUME Inv, ~ raced', NEW e \in Evictors, EvictScanned(e)
  PROVE  Inv'
<1> USE DEF EvictScanned, EGoto
<1>1. EvictTypes'
  BY DEF Inv, TypeOK, EvictTypes, EvictLabels
<1>2. ExclInv'
  BY SMTT(20) DEF Inv, TypeOK, EvictTypes, ExclInv, Reviewing
<1>3. ReviewInv'
  BY SMTT(20) DEF Inv, TypeOK, EvictTypes, ReviewInv, Reviewing
<1>4. CleanInv'
  BY SMTT(20) DEF Inv, TypeOK, EvictTypes, CleanInv, Acquired, Reviewing, ExclInv, Slots
<1>5. DyingInv'
  BY SMTT(20) DEF Inv, TypeOK, EvictTypes, DyingInv
<1>6. LruInv'
  BY DEF Inv, TypeOK, EvictTypes, LruInv
<1>7. RefTypes' /\ CursorTypes' /\ RefInv' /\ ReaderInv' /\ HoldInv' /\
      WalkInv' /\ TreeInv'
  BY RefTypesFrame, CursorTypesFrame, RefInvFrame, ReaderInvFrame, HoldInvFrame, WalkInvFrame,
       TreeInvFrame DEF Inv, TypeOK
<1> QED BY <1>1, <1>2, <1>3, <1>4, <1>5, <1>6, <1>7 DEF Inv, TypeOK

\* EvictGiveUp(e) preserves the invariant.
LEMMA EvictGiveUpStep ==
  ASSUME Inv, ~ raced', NEW e \in Evictors, EvictGiveUp(e)
  PROVE  Inv'
<1> USE DEF EvictGiveUp, Fail, EGoto
<1>1. EvictTypes'
  BY DEF Inv, TypeOK, EvictTypes, EvictLabels
<1>2. ExclInv'
  BY SMTT(20) DEF Inv, TypeOK, EvictTypes, ExclInv, Reviewing
<1>3. ReviewInv'
  BY SMTT(20) DEF Inv, TypeOK, EvictTypes, ReviewInv, Reviewing
<1>4. CleanInv'
  BY SMTT(20) DEF Inv, TypeOK, EvictTypes, CleanInv, Acquired, Reviewing
<1>5. DyingInv'
  BY SMTT(20) DEF Inv, TypeOK, EvictTypes, DyingInv
<1>6. LruInv'
  BY DEF Inv, TypeOK, EvictTypes, LruInv
<1>7. RefTypes' /\ CursorTypes' /\ RefInv' /\ ReaderInv' /\ HoldInv' /\
      WalkInv' /\ TreeInv'
  BY RefTypesFrame, CursorTypesFrame, RefInvFrame, ReaderInvFrame, HoldInvFrame, WalkInvFrame,
       TreeInvFrame DEF Inv, TypeOK
<1> QED BY <1>1, <1>2, <1>3, <1>4, <1>5, <1>6, <1>7 DEF Inv, TypeOK

\* EvictUnlock(e, r) preserves the invariant.
LEMMA EvictUnlockStep ==
  ASSUME Inv, ~ raced', NEW e \in Evictors, NEW r \in Refs, EvictUnlock(e, r)
  PROVE  Inv'
<1> USE DEF EvictUnlock, SetState, EGoto
<1>1. RefTypes'
  BY DEF Inv, TypeOK, RefTypes, States
<1>2. EvictTypes'
  BY DEF Inv, TypeOK, EvictTypes, EvictLabels
<1>3. RefInv'
  BY SMTT(20) DEF Inv, TypeOK, RefTypes, RefInv, ExclInv, Reviewing
<1>4. ReaderInv'
  BY SMTT(20) DEF Inv, TypeOK, RefTypes, ReaderInv, Reading, Reaches, ExclInv, Reviewing
<1>5. HoldInv'
  BY SMTT(20) DEF Inv, TypeOK, RefTypes, HoldInv, Acquired
<1>6. ExclInv'
  BY SMTT(20) DEF Inv, TypeOK, EvictTypes, RefTypes, ExclInv, Reviewing
<1>7. ReviewInv'
  BY SMTT(20) DEF Inv, TypeOK, EvictTypes, RefTypes, ReviewInv, Reviewing, ExclInv
<1>8. CleanInv'
  BY SMTT(20) DEF Inv, TypeOK, EvictTypes, CleanInv, Acquired, Reviewing
<1>9. DyingInv'
  BY SMTT(20) DEF Inv, TypeOK, EvictTypes, DyingInv
<1>10. WalkInv'
  BY SMTT(20) DEF Inv, TypeOK, RefTypes, WalkInv, WalkRef, ExclInv, Reviewing
<1>11. LruInv'
  BY DEF Inv, TypeOK, EvictTypes, LruInv
<1>12. TreeInv'
  BY SMTT(20) DEF Inv, TypeOK, RefTypes, TreeInv, ExclInv, Reviewing
<1>13. CursorTypes'
  BY CursorTypesFrame DEF Inv, TypeOK
<1> QED BY <1>1, <1>2, <1>3, <1>4, <1>5, <1>6, <1>7, <1>8, <1>9, <1>10, <1>11, <1>12, <1>13 DEF Inv,
         TypeOK

\* EvictUnlink(e) preserves the invariant.
LEMMA EvictUnlinkStep ==
  ASSUME Inv, ~ raced', NEW e \in Evictors, EvictUnlink(e)
  PROVE  Inv'
<1> USE DEF EvictUnlink, Reviewed, EGoto
<1>1. RefTypes'
  BY DEF Inv, TypeOK, RefTypes, States, ExclInv, Reviewing
<1>2. EvictTypes'
  BY SMTT(20) DEF Inv, TypeOK, EvictTypes, EvictLabels, RefTypes, ExclInv, Reviewing
<1>3. RefInv'
  BY SMTT(20), Z3T(20) DEF Inv, TypeOK, RefTypes, RefInv, ExclInv, Reviewing
<1>4. ReaderInv'
  BY SMTT(20) DEF Inv, TypeOK, RefTypes, ReaderInv, Reading, Reaches, ExclInv, Reviewing
<1>5. HoldInv'
  <2>1. top[e] \in excl[e] /\ \A c \in Cursors : ~ Acquired(c, top[e])
    BY ReviewedUnheld DEF Inv, ExclInv, Reviewing
  <2>2. \A r \in Refs : r # top[e] => page'[r] = page[r]
    BY DEF Inv, TypeOK, RefTypes
  <2> QED BY SMTT(20), <2>1, <2>2 DEF Inv, HoldInv, Acquired
<1>6. ExclInv'
  BY SMTT(20) DEF Inv, TypeOK, RefTypes, EvictTypes, ExclInv, Reviewing
<1>7. ReviewInv'
  BY SMTT(20) DEF Inv, TypeOK, EvictTypes, ReviewInv, Reviewing
<1>8. CleanInv'
  BY SMTT(20) DEF Inv, TypeOK, EvictTypes, CleanInv, Acquired, Reviewing
<1>9. DyingInv'
  BY SMTT(20), Z3T(20) DEF Inv, TypeOK, EvictTypes, RefTypes, DyingInv, ExclInv, Reviewing, RefInv
<1>10. WalkInv'
  BY SMTT(20) DEF Inv, TypeOK, RefTypes, WalkInv, WalkRef, ExclInv, Reviewing
<1>11. LruInv'
  BY SMTT(20) DEF Inv, TypeOK, RefTypes, EvictTypes, LruInv, ExclInv, Reviewing
<1>12. CursorTypes' /\ TreeInv'
  BY CursorTypesFrame, TreeInvFrame DEF Inv, TypeOK
<1> QED BY <1>1, <1>2, <1>3, <1>4, <1>5, <1>6, <1>7, <1>8, <1>9, <1>10, <1>11, <1>12 DEF Inv, TypeOK

\* EvictSplit(e, p) preserves the invariant.
LEMMA EvictSplitStep ==
  ASSUME Inv, ~ raced', NEW e \in Evictors, NEW p \in Pages, EvictSplit(e, p)
  PROVE  Inv'
<1> USE DEF EvictSplit, Reviewed, EGoto
<1>1. RefTypes'
  BY SMTT(20) DEF Inv, TypeOK, RefTypes, States, EvictTypes, ExclInv, Reviewing
<1>2. EvictTypes'
  BY SMTT(20), Z3T(20) DEF Inv, TypeOK, EvictTypes, EvictLabels, RefTypes, ExclInv, Reviewing
<1>3. RefInv'
  BY SMTT(20), Z3T(20) DEF Inv, TypeOK, RefTypes, RefInv, ExclInv, Reviewing
<1>4. ReaderInv'
  BY SMTT(20) DEF Inv, TypeOK, RefTypes, ReaderInv, Reading, Reaches, ExclInv, Reviewing
<1>5. HoldInv'
  <2>1. top[e] \in excl[e] /\ \A c \in Cursors : ~ Acquired(c, top[e])
    BY ReviewedUnheld DEF Inv, ExclInv, Reviewing
  <2>2. \A r \in Refs : r # top[e] => page'[r] = page[r]
    BY DEF Inv, TypeOK, RefTypes
  <2> QED BY SMTT(20), <2>1, <2>2 DEF Inv, HoldInv, Acquired
<1>6. ExclInv'
  BY SMTT(20) DEF Inv, TypeOK, RefTypes, EvictTypes, ExclInv, Reviewing
<1>7. ReviewInv'
  BY SMTT(20) DEF Inv, TypeOK, EvictTypes, ReviewInv, Reviewing
<1>8. CleanInv'
  BY SMTT(20), Z3T(20) DEF Inv, TypeOK, EvictTypes, CleanInv, Acquired, Reviewing
<1>9. DyingInv'
  BY SMTT(20), Z3T(20) DEF Inv, TypeOK, EvictTypes, RefTypes, DyingInv, ExclInv, Reviewing, RefInv
<1>10. WalkInv'
  BY SMTT(20) DEF Inv, TypeOK, RefTypes, WalkInv, WalkRef, ExclInv, Reviewing
<1>11. LruInv'
  BY SMTT(20) DEF Inv, TypeOK, RefTypes, EvictTypes, LruInv, ExclInv, Reviewing
<1>12. CursorTypes' /\ TreeInv'
  BY CursorTypesFrame, TreeInvFrame DEF Inv, TypeOK
<1> QED BY <1>1, <1>2, <1>3, <1>4, <1>5, <1>6, <1>7, <1>8, <1>9, <1>10, <1>11, <1>12 DEF Inv, TypeOK

\* EvictPublish(e) preserves the invariant.
LEMMA EvictPublishStep ==
  ASSUME Inv, ~ raced', NEW e \in Evictors, EvictPublish(e)
  PROVE  Inv'
<1> USE DEF EvictPublish, EGoto
<1>1. RefTypes'
  BY DEF Inv, TypeOK, RefTypes, States
<1>2. EvictTypes'
  BY DEF Inv, TypeOK, EvictTypes, EvictLabels
<1>3. RefInv'
  BY DEF Inv, TypeOK, RefTypes, RefInv
<1>4. ReaderInv'
  BY SMTT(20) DEF Inv, TypeOK, RefTypes, ReaderInv, Reading, Reaches, ExclInv, Reviewing
<1>5. HoldInv'
  <2>1. \A r \in excl[e] : \A c \in Cursors : ~ Acquired(c, r)
    BY ReviewedUnheld
  <2>2. \A r \in Refs \ excl[e] : page'[r] = page[r] /\ state'[r] = state[r]
    BY SMTT(20) DEF Inv, ExclInv, Reviewing
  <2> QED BY SMTT(20), <2>1, <2>2 DEF Inv, HoldInv, Acquired
<1>6. ExclInv'
  BY SMTT(20) DEF Inv, TypeOK, EvictTypes, RefTypes, ExclInv, Reviewing
<1>7. ReviewInv'
  BY SMTT(20) DEF Inv, TypeOK, EvictTypes, RefTypes, ReviewInv, Reviewing, ExclInv
<1>8. CleanInv'
  BY SMTT(20) DEF Inv, TypeOK, EvictTypes, CleanInv, Acquired, Reviewing
<1>9. DyingInv'
  BY SMTT(20) DEF Inv, TypeOK, RefTypes, EvictTypes, DyingInv
<1>10. WalkInv'
  BY SMTT(20) DEF Inv, TypeOK, RefTypes, WalkInv, WalkRef, ExclInv, Reviewing
<1>11. LruInv'
  BY SMTT(20) DEF Inv, TypeOK, RefTypes, EvictTypes, LruInv, ExclInv, Reviewing
<1>12. TreeInv'
  BY SMTT(20) DEF Inv, TypeOK, RefTypes, TreeInv, ExclInv, Reviewing, ReviewInv
<1>13. CursorTypes'
  BY CursorTypesFrame DEF Inv, TypeOK
<1> QED BY <1>1, <1>2, <1>3, <1>4, <1>5, <1>6, <1>7, <1>8, <1>9, <1>10, <1>11, <1>12, <1>13 DEF Inv,
         TypeOK

\* EvictDiscard(e, p) preserves the invariant.
LEMMA EvictDiscardStep ==
  ASSUME Inv, ~ raced', NEW e \in Evictors, NEW p \in Pages, EvictDiscard(e, p)
  PROVE  Inv'
<1> USE DEF EvictDiscard, EGoto
<1>1. RefTypes'
  BY DEF Inv, TypeOK, RefTypes, States
<1>2. EvictTypes'
  BY DEF Inv, TypeOK, EvictTypes, EvictLabels
<1>3. RefInv'
  BY SMTT(20) DEF Inv, TypeOK, RefTypes, RefInv, DyingInv
<1>4. ExclInv'
  BY SMTT(20) DEF Inv, TypeOK, EvictTypes, ExclInv, Reviewing
<1>5. ReviewInv'
  BY SMTT(20) DEF Inv, TypeOK, EvictTypes, ReviewInv, Reviewing
<1>6. CleanInv'
  BY SMTT(20) DEF Inv, TypeOK, EvictTypes, CleanInv, Acquired, Reviewing
<1>7. DyingInv'
  BY SMTT(20), Z3T(20) DEF Inv, TypeOK, EvictTypes, RefTypes, DyingInv
<1>8. WalkInv'
  BY SMTT(20) DEF Inv, TypeOK, RefTypes, WalkInv, WalkRef, DyingInv
<1>9. LruInv'
  BY DEF Inv, TypeOK, EvictTypes, RefTypes, LruInv
<1>10. CursorTypes' /\ ReaderInv' /\ HoldInv' /\ TreeInv'
  BY CursorTypesFrame, ReaderInvFrame, HoldInvFrame, TreeInvFrame DEF Inv, TypeOK
<1> QED BY <1>1, <1>2, <1>3, <1>4, <1>5, <1>6, <1>7, <1>8, <1>9, <1>10 DEF Inv, TypeOK

\* Every step preserves the invariant until a check is raced.
LEMMA InvNext ==
  ASSUME Inv, ~ raced, [Next]_vars, ~ raced'
  PROVE  Inv'
<1>1. ASSUME NEW c \in Cursors, CursorStep(c) PROVE Inv'
  BY <1>1, PageInStep, PageReleaseStep, RefLockStep, PageInSwitchStep, ReadStartStep,
       ReadPublishStep, ReadErrorStep, ReadPageStep, HazardLoadStep, HazardStoreStep,
       HazardCheckPageStep, HazardCheckStateStep, HazardBusyStep, PageInUseStep, PageInAncientStep,
       PageInErrorStep, PageInFailStep, RefUnlockStep DEF CursorStep
<1>2. ASSUME ServerStep PROVE Inv'
  BY <1>2, WalkDescendStep, WalkAscendStep, WalkQueueStep, ListClearStep DEF ServerStep
<1>3. ASSUME NEW e \in Evictors, EvictStep(e) PROVE Inv'
  BY <1>3, EvictGetStep, EvictSplitStep, EvictDiscardStep, EvictScanStep, EvictScannedStep,
       EvictGiveUpStep, EvictUnlinkStep, EvictPublishStep, EvictChildStep, EvictUnlockStep DEF
       EvictStep
<1>4. CASE UNCHANGED vars
  BY <1>4, RefTypesFrame, CursorTypesFrame, EvictTypesFrame, RefInvFrame, ReaderInvFrame,
       HoldInvFrame, ExclInvFrame, ReviewInvFrame, CleanInvFrame, DyingInvFrame, WalkInvFrame,
       LruInvFrame, TreeInvFrame DEF vars, Inv, TypeOK
<1> QED BY <1>1, <1>2, <1>3, <1>4 DEF Next

\* raced is never reset.
LEMMA RacedNext == ASSUME raced \in BOOLEAN, [Next]_vars
                   PROVE  raced' \in BOOLEAN /\ (raced => raced')
<1>1. ASSUME NEW c \in Cursors, HazardCheckState(c)
      PROVE  raced' \in BOOLEAN /\ (raced => raced')
  BY <1>1 DEF HazardCheckState
<1>2. ASSUME NEW c \in Cursors, CursorStep(c), ~ HazardCheckState(c)
      PROVE  raced' = raced
  BY <1>2 DEF CursorStep, PageIn, PageRelease, RefLock, PageInSwitch, ReadStart, ReadPublish,
       ReadError, ReadPage, HazardLoad, HazardStore, HazardCheckPage, HazardBusy, PageInUse,
       PageInAncient, PageInError, PageInFail, RefUnlock
<1>3. ASSUME ServerStep PROVE raced' = raced
  BY <1>3 DEF ServerStep, WalkDescend, WalkAscend, WalkQueue, ListClear
<1>4. ASSUME NEW e \in Evictors, EvictStep(e) PROVE raced' = raced
  BY <1>4 DEF EvictStep, EvictGet, EvictSplit, EvictDiscard, EvictScan, EvictScanned, EvictGiveUp,
       EvictUnlink, EvictPublish, EvictChild, EvictUnlock
<1> QED BY <1>1, <1>2, <1>3, <1>4 DEF Next, vars

\* A tree just opened satisfies the invariant.
LEMMA InvInit == Init => Inv
<1> SUFFICES ASSUME Init PROVE Inv
  OBVIOUS
<1> USE DEF Init
<1>1. TypeOK
  BY DEF TypeOK, RefTypes, CursorTypes, EvictTypes, States, CursorLabels, EvictLabels
<1>2. RefInv /\ ReaderInv /\ HoldInv
  BY DEF RefInv, ReaderInv, HoldInv, Reading, Acquired
<1>3. ExclInv /\ ReviewInv /\ CleanInv /\ DyingInv
  BY DEF ExclInv, ReviewInv, CleanInv, DyingInv, Reviewing
<1>4. WalkInv /\ LruInv /\ TreeInv
  BY DEF WalkInv, LruInv, TreeInv
<1> QED BY <1>1, <1>2, <1>3, <1>4 DEF Inv

\* The inductive invariant holds in every reachable state: cursors, the
\* eviction server and evicting threads agree on what is in memory, locked
\* and referenced, until __wt_hazard_set's check is raced.
THEOREM Invariance == Spec => []IInv
<1>1. Init => IInv
  BY InvInit DEF IInv, Init
<1>2. IInv /\ [Next]_vars => IInv'
  BY InvNext, RacedNext DEF IInv
<1> QED BY PTL, <1>1, <1>2 DEF Spec

\* What __wt_page_in returns stays allocated and in the tree until it is
\* released, whatever the eviction server and the evicting threads do, except
\* after a race between the two halves of __wt_hazard_set's check.
THEOREM HeldPages == Spec => []HeldPagesStayUnlessRaced
<1>1. IInv => HeldPagesStayUnlessRaced
  <2> SUFFICES ASSUME Inv PROVE HeldPagesStay
    BY DEF IInv, HeldPagesStayUnlessRaced
  <2> SUFFICES ASSUME NEW c \in Cursors, NEW r \in holds[c]
               PROVE  /\ got[c][r] # NoPage /\ page[r] = got[c][r]
                      /\ owner[got[c][r]] = r /\ hazard[c][r] = got[c][r]
                      /\ Parent[r] # NoRef => Parent[r] \in holds[c]
    BY DEF HeldPagesStay
  <2>1. r \in Refs
    BY DEF Inv, TypeOK, CursorTypes
  <2>2. Acquired(c, r) /\ Reaches(c, r)
    BY DEF Acquired, Inv, ReaderInv
  <2> QED BY <2>1, <2>2 DEF Inv, RefInv, HoldInv, Reaches
<1> QED BY PTL, <1>1, Invariance

\* The eviction list and the server's walk never point to freed memory.
THEOREM ServerPointers == Spec => []ServerPointersLive
<1>1. IInv => ServerPointersLive
  BY DEF IInv, Inv, WalkInv, LruInv, ServerPointersLive
<1> QED BY PTL, <1>1, Invariance

\* No page is evicted from under a child that is in memory or being read.
THEOREM ParentsStay == Spec => []ParentsInMemory
<1>1. IInv => ParentsInMemory
  BY DEF IInv, Inv, TreeInv, ParentsInMemory
<1> QED BY PTL, <1>1, Invariance
=============================================================================

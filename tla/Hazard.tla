------------------------------- MODULE Hazard -------------------------------
(***************************************************************************)
(* Pages in the cache: how cursors read pages into memory and protect them *)
(* with hazard references, while the eviction server walks the tree and    *)
(* it and application threads lock, check, unlink and free pages.  Every   *)
(* load or store of a WT_REF's state or page pointer and of a hazard slot  *)
(* is a step of its own.  A tree is the constant function Parent on its    *)
(* WT_REFs; the root page stays in memory.  A cursor keeps a hazard        *)
(* reference on each page from the root to where it is (the stack that     *)
(* __wt_stack_release gives back), so a slot is named by cursor and WT_REF *)
(* and a session is the cursors it has.  A thread that evicts is a process *)
(* of its own, also when it is an application thread.                      *)
(***************************************************************************)
CONSTANTS Refs,      \* the WT_REFs of the tree
          Pages,     \* memory a WT_PAGE can be allocated in
          Cursors,   \* cursors, each with its own hazard slots
          Evictors,  \* threads that evict pages
          NoRef,     \* no WT_REF: the root's
          NoPage,    \* the NULL page pointer
          Parent     \* the WT_REF of the page a WT_REF is in

ASSUME NoRefAssumption == NoRef \notin Refs
ASSUME NoPageAssumption == NoPage \notin Pages
ASSUME ParentAssumption ==
  /\ Parent \in [Refs -> Refs \union {NoRef}]
  /\ \A r \in Refs : Parent[r] # r

VARIABLES state,    \* WT_REF.state
          page,     \* WT_REF.page
          owner,    \* WT_PAGE.ref of allocated memory, NoRef if it is free
          lru,      \* pages on the eviction list (WT_PAGE_EVICT_LRU)
          evictPage,\* WT_BTREE.evict_page, where the server's walk is
          hazard,   \* the cursor's hazard slot for a WT_REF
          holds,    \* WT_REFs the cursor has acquired
          got,      \* the page __wt_page_in gave for each of them
          pc,       \* where the cursor is
          at,       \* the WT_REF it is working on
          prev,     \* __wt_cache_read's previous_state
          cand,     \* the page pointer it loaded
          epc,      \* where the evicting thread is
          top,      \* the WT_REF of the page it evicts
          excl,     \* WT_SESSION_IMPL.excl, the WT_REFs it has locked
          cur,      \* the WT_REF it looks for hazard references to
          scanned,  \* slots that __wt_page_hazard_check has passed
          visited,  \* children that __rec_review has passed
          dying,    \* pages to be freed
          raced     \* history: a check passed though the page had changed

refVars == <<state, page, owner>>
serverVars == <<lru, evictPage>>
cursorVars == <<hazard, holds, got, pc, at, prev, cand>>
evictVars == <<epc, top, excl, cur, scanned, visited, dying>>
vars == <<refVars, serverVars, cursorVars, evictVars, raced>>

OnDisk == {"disk", "deleted"}
InMem == {"mem", "walk", "locked"}
States == OnDisk \union InMem \union {"reading"}
Slots == Cursors \X Refs

\* A tree just opened: only the root page is in memory.
Init ==
  /\ state \in [Refs -> OnDisk]
  /\ page = [r \in Refs |-> NoPage]
  /\ owner = [p \in Pages |-> NoRef]
  /\ lru = {} /\ evictPage = NoPage
  /\ hazard = [c \in Cursors |-> [r \in Refs |-> NoPage]]
  /\ holds = [c \in Cursors |-> {}]
  /\ got = [c \in Cursors |-> [r \in Refs |-> NoPage]]
  /\ pc = [c \in Cursors |-> "app"]
  /\ at = [c \in Cursors |-> NoRef]
  /\ prev = [c \in Cursors |-> "disk"]
  /\ cand = [c \in Cursors |-> NoPage]
  /\ epc = [e \in Evictors |-> "idle"]
  /\ top = [e \in Evictors |-> NoRef]
  /\ excl = [e \in Evictors |-> {}]
  /\ cur = top
  /\ scanned = [e \in Evictors |-> {}]
  /\ visited = [e \in Evictors |-> {}]
  /\ dying = [e \in Evictors |-> {}]
  /\ raced = FALSE

Goto(c, l) == pc' = [pc EXCEPT ![c] = l]

\* Back to the caller.  Dead local variables are reset, here and below, to
\* keep the state space small.
Return(c) ==
  /\ pc' = [pc EXCEPT ![c] = "app"]
  /\ at' = [at EXCEPT ![c] = NoRef]
  /\ prev' = [prev EXCEPT ![c] = "disk"]

SetState(r, s) == state' = [state EXCEPT ![r] = s]

-----------------------------------------------------------------------------
(* A cursor moves down: __wt_page_in.                                      *)

\* The cursor is on the page that r is in.
Reaches(c, r) == Parent[r] = NoRef \/ Parent[r] \in holds[c]

\* A search or a walk of the tree calls __wt_page_in for the next page
PageIn(c, r) ==
  /\ pc[c] = "app" /\ Reaches(c, r)
  /\ \A q \in holds[c] : Parent[q] # Parent[r]
  /\ at' = [at EXCEPT ![c] = r]
  /\ Goto(c, "in")
  /\ UNCHANGED <<refVars, serverVars, hazard, holds, got, prev, cand, evictVars, raced>>

\* switch (ref->state): in the locked and reading states the cursor waits
PageInSwitch(c) ==
  /\ pc[c] = "in" /\ state[at[c]] \notin {"locked", "reading"}
  /\ Goto(c, IF state[at[c]] \in OnDisk THEN "read" ELSE "load")
  /\ UNCHANGED <<refVars, serverVars, hazard, holds, got, at, prev, cand, evictVars, raced>>

\* __wt_cache_read: whoever sets WT_REF_READING reads the page
ReadStart(c) ==
  /\ pc[c] = "read"
  /\ IF state[at[c]] \in OnDisk
     THEN /\ prev' = [prev EXCEPT ![c] = state[at[c]]]
          /\ SetState(at[c], "reading")
          /\ Goto(c, "build")
     ELSE Goto(c, "in") /\ UNCHANGED <<prev, state>>
  /\ UNCHANGED <<page, owner, serverVars, hazard, holds, got, at, cand, evictVars, raced>>

\* the page is built in free memory p; ref->page = page
ReadPage(c, p) ==
  /\ pc[c] = "build" /\ owner[p] = NoRef
  /\ owner' = [owner EXCEPT ![p] = at[c]]
  /\ page' = [page EXCEPT ![at[c]] = p]
  /\ Goto(c, "publish")
  /\ UNCHANGED <<state, serverVars, hazard, holds, got, at, prev, cand, evictVars, raced>>

\* WT_PUBLISH(ref->state, WT_REF_MEM)
ReadPublish(c) ==
  /\ pc[c] = "publish"
  /\ SetState(at[c], "mem")
  /\ prev' = [prev EXCEPT ![c] = "disk"]
  /\ Goto(c, "in")
  /\ UNCHANGED <<page, owner, serverVars, hazard, holds, got, at, cand, evictVars, raced>>

\* the read failed: the state goes back, __wt_page_in returns the error
ReadError(c) ==
  /\ pc[c] = "build"
  /\ SetState(at[c], prev[c])
  /\ Return(c)
  /\ UNCHANGED <<page, owner, serverVars, hazard, holds, got, cand, evictVars, raced>>

\* __wt_hazard_set: the load, then the store, of hp->page = ref->page
HazardLoad(c) ==
  /\ pc[c] = "load"
  /\ cand' = [cand EXCEPT ![c] = page[at[c]]]
  /\ Goto(c, "store")
  /\ UNCHANGED <<refVars, serverVars, hazard, holds, got, at, prev, evictVars, raced>>

HazardStore(c) ==
  /\ pc[c] = "store"
  /\ hazard' = [hazard EXCEPT ![c][at[c]] = cand[c]]
  /\ cand' = [cand EXCEPT ![c] = NoPage]
  /\ Goto(c, "checkpage")
  /\ UNCHANGED <<refVars, serverVars, holds, got, at, prev, evictVars, raced>>

\* ref->page == hp->page, the first half of the check
HazardCheckPage(c) ==
  /\ pc[c] = "checkpage"
  /\ Goto(c, IF page[at[c]] = hazard[c][at[c]] THEN "checkstate" ELSE "busy")
  /\ UNCHANGED <<refVars, serverVars, hazard, holds, got, at, prev, cand, evictVars, raced>>

\* ref->state is WT_REF_MEM or WT_REF_EVICT_WALK, the second half
HazardCheckState(c) ==
  /\ pc[c] = "checkstate"
  /\ IF state[at[c]] \in {"mem", "walk"}
     THEN /\ Goto(c, "use")
          /\ raced' = (raced \/ page[at[c]] # hazard[c][at[c]])
     ELSE Goto(c, "busy") /\ UNCHANGED raced
  /\ UNCHANGED <<refVars, serverVars, hazard, holds, got, at, prev, cand, evictVars>>

\* the page is not available: hp->page = NULL, and try again
HazardBusy(c) ==
  /\ pc[c] = "busy"
  /\ hazard' = [hazard EXCEPT ![c][at[c]] = NoPage]
  /\ Goto(c, "in")
  /\ UNCHANGED <<refVars, serverVars, holds, got, at, prev, cand, evictVars, raced>>

\* page = ref->page, which __wt_page_in gives to its caller
PageInUse(c) ==
  /\ pc[c] = "use"
  /\ got' = [got EXCEPT ![c][at[c]] = page[at[c]]]
  /\ holds' = [holds EXCEPT ![c] = @ \union {at[c]}]
  /\ Return(c)
  /\ UNCHANGED <<refVars, serverVars, hazard, cand, evictVars, raced>>

\* __wt_hazard_clear(session, p) finds no slot when none has p
HazardClear(c, r, p) ==
  hazard' = [hazard EXCEPT ![c][r] = IF @ = p THEN NoPage ELSE @]

\* the page has ancient updates: wait for it to be evicted
PageInAncient(c) ==
  /\ pc[c] = "use"
  /\ HazardClear(c, at[c], page[at[c]])
  /\ Goto(c, "in")
  /\ UNCHANGED <<refVars, serverVars, holds, got, at, prev, cand, evictVars, raced>>

\* __wt_txn_autocommit_check failed
PageInError(c) ==
  /\ pc[c] = "use"
  /\ HazardClear(c, at[c], page[at[c]])
  /\ Return(c)
  /\ UNCHANGED <<refVars, serverVars, holds, got, cand, evictVars, raced>>

\* __wt_cache_full_check failed, or the session has no free hazard slot
PageInFail(c) ==
  /\ pc[c] \in {"read", "load"}
  /\ Return(c)
  /\ UNCHANGED <<refVars, serverVars, hazard, holds, got, cand, evictVars, raced>>

\* __wt_page_release of the deepest page
PageRelease(c, r) ==
  /\ pc[c] = "app" /\ r \in holds[c] /\ \A q \in holds[c] : Parent[q] # r
  /\ HazardClear(c, r, got[c][r])
  /\ got' = [got EXCEPT ![c][r] = NoPage]
  /\ holds' = [holds EXCEPT ![c] = @ \ {r}]
  /\ UNCHANGED <<refVars, serverVars, pc, at, prev, cand, evictVars, raced>>

\* __tree_walk_delete and __tree_walk_read lock a WT_REF that is on disk
RefLock(c, r) ==
  /\ pc[c] = "app" /\ Reaches(c, r) /\ state[r] \in OnDisk
  /\ prev' = [prev EXCEPT ![c] = state[r]]
  /\ SetState(r, "reading")
  /\ at' = [at EXCEPT ![c] = r]
  /\ Goto(c, "locked")
  /\ UNCHANGED <<page, owner, serverVars, hazard, holds, got, cand, evictVars, raced>>

\* and unlock it: the first may have deleted the page
RefUnlock(c, s) ==
  /\ pc[c] = "locked" /\ (prev[c] = "deleted" => s = "deleted")
  /\ SetState(at[c], s)
  /\ Return(c)
  /\ UNCHANGED <<page, owner, serverVars, hazard, holds, got, cand, evictVars, raced>>

-----------------------------------------------------------------------------
(* The eviction server's walk: __wt_tree_walk with WT_TREE_EVICT.  The     *)
(* order of the slots is not modelled.                                     *)

WalkRef == IF evictPage = NoPage THEN NoRef ELSE owner[evictPage]

\* Down to a page in memory, which is kept from being evicted
WalkDescend(r) ==
  /\ Parent[r] = WalkRef /\ state[r] = "mem"
  /\ SetState(r, "walk")
  /\ evictPage' = page[r]
  /\ UNCHANGED <<page, owner, lru, cursorVars, evictVars, raced>>

\* Up again, in the walk or in __evict_clear_tree_walk
WalkAscend ==
  /\ evictPage # NoPage
  /\ LET r == owner[evictPage]
     IN /\ SetState(r, IF state[r] = "walk" THEN "mem" ELSE state[r])
        /\ evictPage' = IF Parent[r] = NoRef THEN NoPage ELSE page[Parent[r]]
  /\ UNCHANGED <<page, owner, lru, cursorVars, evictVars, raced>>

\* __evict_walk_file puts the page on the list
WalkQueue ==
  /\ evictPage # NoPage /\ state[owner[evictPage]] = "walk"
  /\ evictPage \notin lru
  /\ lru' = lru \union {evictPage}
  /\ UNCHANGED <<refVars, evictPage, cursorVars, evictVars, raced>>

\* __evict_list_clr of an entry that is not going to be used
ListClear(p) ==
  /\ p \in lru
  /\ lru' = lru \ {p}
  /\ UNCHANGED <<refVars, evictPage, cursorVars, evictVars, raced>>

-----------------------------------------------------------------------------
(* Evicting a page: __evict_get_page, __wt_rec_evict.                      *)

EGoto(e, l) == epc' = [epc EXCEPT ![e] = l]

\* Request exclusive access to r, which is locked, for e: __hazard_exclusive
Exclusive(e, r) ==
  /\ SetState(r, "locked")
  /\ cur' = [cur EXCEPT ![e] = r]
  /\ scanned' = [scanned EXCEPT ![e] = {}]
  /\ EGoto(e, "scan")

\* Mutant of EvictGet: a page where the server's walk is can be taken too.
EvictGetWalk(e, p) ==
  /\ epc[e] = "idle" /\ p \in lru
  /\ page[owner[p]] = p /\ state[owner[p]] \in {"mem", "walk"}
  /\ lru' = lru \ {p}
  /\ top' = [top EXCEPT ![e] = owner[p]]
  /\ excl' = [excl EXCEPT ![e] = {owner[p]}]
  /\ Exclusive(e, owner[p])
  /\ UNCHANGED <<page, owner, evictPage, cursorVars, visited, dying, raced>>

\* __evict_get_page takes a page from the list if it can lock it.  A page
\* that is no longer its WT_REF's is about to be discarded with its parent:
\* the WT_REF it was in stays locked until it is off the list.
EvictGet(e, p) ==
  /\ epc[e] = "idle" /\ p \in lru
  /\ page[owner[p]] = p /\ state[owner[p]] = "mem"
  /\ lru' = lru \ {p}
  /\ top' = [top EXCEPT ![e] = owner[p]]
  /\ excl' = [excl EXCEPT ![e] = {owner[p]}]
  /\ Exclusive(e, owner[p])
  /\ UNCHANGED <<page, owner, evictPage, cursorVars, visited, dying, raced>>

\* EBUSY
Fail(e) ==
  /\ EGoto(e, "fail")
  /\ top' = [top EXCEPT ![e] = NoRef]
  /\ cur' = [cur EXCEPT ![e] = NoRef]
  /\ scanned' = [scanned EXCEPT ![e] = {}]
  /\ visited' = [visited EXCEPT ![e] = {}]

\* __wt_page_hazard_check looks at one slot
EvictScan(e, k) ==
  /\ epc[e] = "scan" /\ k \notin scanned[e]
  /\ IF hazard[k[1]][k[2]] = page[cur[e]]
     THEN Fail(e)
     ELSE /\ scanned' = [scanned EXCEPT ![e] = @ \union {k}]
          /\ UNCHANGED <<epc, top, cur, visited>>
  /\ UNCHANGED <<refVars, serverVars, cursorVars, excl, dying, raced>>

\* Mutant of EvictScanned: the last hazard slot is not looked at.
EvictScannedShort(e) ==
  /\ epc[e] = "scan" /\ \E k \in Slots : Slots \ scanned[e] \subseteq {k}
  /\ EGoto(e, "review")
  /\ scanned' = [scanned EXCEPT ![e] = {}]
  /\ cur' = [cur EXCEPT ![e] = NoRef]
  /\ UNCHANGED <<refVars, serverVars, cursorVars, top, excl, visited, dying, raced>>

\* it found none
EvictScanned(e) ==
  /\ epc[e] = "scan" /\ scanned[e] = Slots
  /\ EGoto(e, "review")
  /\ scanned' = [scanned EXCEPT ![e] = {}]
  /\ cur' = [cur EXCEPT ![e] = NoRef]
  /\ UNCHANGED <<refVars, serverVars, cursorVars, top, excl, visited, dying, raced>>

\* Mutant of EvictChild: a child in memory is passed over.
EvictChildUnlocked(e, r) ==
  /\ epc[e] = "review" /\ Parent[r] \in excl[e] /\ r \notin visited[e]
  /\ IF state[r] \in OnDisk \union {"mem"}
     THEN /\ visited' = [visited EXCEPT ![e] = @ \union {r}]
          /\ UNCHANGED <<cur, scanned, epc, top>>
     ELSE Fail(e)
  /\ UNCHANGED <<refVars, serverVars, cursorVars, excl, dying, raced>>

\* __rec_review goes on to a child of a page it has locked: locks it if it
\* is in memory, gives up if another thread is working on it
EvictChild(e, r) ==
  /\ epc[e] = "review" /\ Parent[r] \in excl[e] /\ r \notin visited[e]
  /\ CASE state[r] \in OnDisk ->
            /\ visited' = [visited EXCEPT ![e] = @ \union {r}]
            /\ UNCHANGED <<state, cur, scanned, epc, excl, top>>
       [] state[r] = "mem" ->
            /\ visited' = [visited EXCEPT ![e] = @ \union {r}]
            /\ excl' = [excl EXCEPT ![e] = @ \union {r}]
            /\ Exclusive(e, r)
            /\ UNCHANGED top
       [] OTHER -> Fail(e) /\ UNCHANGED <<state, excl>>
  /\ UNCHANGED <<page, owner, serverVars, cursorVars, dying, raced>>

\* a page of the subtree cannot be merged or could not be written clean
EvictGiveUp(e) ==
  /\ epc[e] = "review"
  /\ Fail(e)
  /\ UNCHANGED <<refVars, serverVars, cursorVars, excl, dying, raced>>

\* __rec_excl_clear, one WT_REF at a time
EvictUnlock(e, r) ==
  /\ epc[e] = "fail" /\ r \in excl[e]
  /\ SetState(r, "mem")
  /\ excl' = [excl EXCEPT ![e] = @ \ {r}]
  /\ EGoto(e, IF excl[e] = {r} THEN "idle" ELSE "fail")
  /\ UNCHANGED <<page, owner, serverVars, cursorVars, top, cur, scanned, visited, dying, raced>>

\* the whole subtree is locked, has no hazard reference and is written
Reviewed(e) ==
  epc[e] = "review" /\ \A r \in Refs : Parent[r] \in excl[e] => r \in visited[e]

\* __rec_page_clean_update and WT_PM_REC_REPLACE: ref->page = NULL
EvictUnlink(e) ==
  /\ Reviewed(e)
  /\ dying' = [dying EXCEPT ![e] = {page[r] : r \in excl[e]}]
  /\ page' = [page EXCEPT ![top[e]] = NoPage]
  /\ EGoto(e, "publish")
  /\ UNCHANGED <<state, owner, serverVars, cursorVars, top, excl, cur, scanned, visited, raced>>

\* WT_PM_REC_SPLIT: ref->page = mod->u.split, a new page in memory p
EvictSplit(e, p) ==
  /\ Reviewed(e) /\ owner[p] = NoRef
  /\ dying' = [dying EXCEPT ![e] = {page[r] : r \in excl[e]}]
  /\ owner' = [owner EXCEPT ![p] = top[e]]
  /\ page' = [page EXCEPT ![top[e]] = p]
  /\ EGoto(e, "publish")
  /\ UNCHANGED <<state, serverVars, cursorVars, top, excl, cur, scanned, visited, raced>>

\* WT_PUBLISH of the new state.  The WT_REFs below top are in memory that no
\* other thread can reach and that is about to be freed: from now on Refs
\* means those that the page, read again, will have.
EvictPublish(e) ==
  /\ epc[e] = "publish"
  /\ state' = [r \in Refs |->
                 CASE r = top[e] -> IF page[r] = NoPage THEN "disk" ELSE "mem"
                   [] r \in excl[e] \ {top[e]} -> "disk"
                   [] OTHER -> state[r]]
  /\ page' = [r \in Refs |-> IF r \in excl[e] \ {top[e]} THEN NoPage ELSE page[r]]
  /\ excl' = [excl EXCEPT ![e] = {}]
  /\ visited' = [visited EXCEPT ![e] = {}]
  /\ top' = [top EXCEPT ![e] = NoRef]
  /\ EGoto(e, "discard")
  /\ UNCHANGED <<owner, serverVars, cursorVars, cur, scanned, dying, raced>>

\* Mutant of EvictDiscard: the page is left on the list.
EvictDiscardListed(e, p) ==
  /\ epc[e] = "discard" /\ p \in dying[e]
  /\ owner' = [owner EXCEPT ![p] = NoRef]
  /\ dying' = [dying EXCEPT ![e] = @ \ {p}]
  /\ EGoto(e, IF dying[e] = {p} THEN "idle" ELSE "discard")
  /\ UNCHANGED <<state, page, serverVars, cursorVars, top, excl, cur, scanned, visited, raced>>

\* __rec_discard_page: off the list, then __wt_page_out frees it
EvictDiscard(e, p) ==
  /\ epc[e] = "discard" /\ p \in dying[e]
  /\ lru' = lru \ {p}
  /\ owner' = [owner EXCEPT ![p] = NoRef]
  /\ dying' = [dying EXCEPT ![e] = @ \ {p}]
  /\ EGoto(e, IF dying[e] = {p} THEN "idle" ELSE "discard")
  /\ UNCHANGED <<state, page, evictPage, cursorVars, top, excl, cur, scanned, visited, raced>>

-----------------------------------------------------------------------------
CursorStep(c) ==
  \/ \E r \in Refs : PageIn(c, r) \/ PageRelease(c, r) \/ RefLock(c, r)
  \/ PageInSwitch(c) \/ ReadStart(c) \/ ReadPublish(c) \/ ReadError(c)
  \/ \E p \in Pages : ReadPage(c, p)
  \/ HazardLoad(c) \/ HazardStore(c) \/ HazardCheckPage(c)
  \/ HazardCheckState(c) \/ HazardBusy(c) \/ PageInUse(c)
  \/ PageInAncient(c) \/ PageInError(c) \/ PageInFail(c)
  \/ \E s \in OnDisk : RefUnlock(c, s)

ServerStep ==
  \/ \E r \in Refs : WalkDescend(r)
  \/ WalkAscend \/ WalkQueue
  \/ \E p \in Pages : ListClear(p)

EvictStep(e) ==
  \/ \E p \in Pages : EvictGet(e, p) \/ EvictSplit(e, p) \/ EvictDiscard(e, p)
  \/ \E k \in Slots : EvictScan(e, k)
  \/ EvictScanned(e) \/ EvictGiveUp(e) \/ EvictUnlink(e) \/ EvictPublish(e)
  \/ \E r \in Refs : EvictChild(e, r) \/ EvictUnlock(e, r)

Next ==
  \/ \E c \in Cursors : CursorStep(c)
  \/ ServerStep
  \/ \E e \in Evictors : EvictStep(e)

Spec == Init /\ [][Next]_vars

-----------------------------------------------------------------------------
(* Properties.                                                             *)

CursorLabels == {"app", "in", "read", "build", "publish", "load", "store",
                 "checkpage", "checkstate", "busy", "use", "locked"}
EvictLabels == {"idle", "scan", "review", "fail", "publish", "discard"}

RefTypes ==
  /\ state \in [Refs -> States]
  /\ page \in [Refs -> Pages \union {NoPage}]
  /\ owner \in [Pages -> Refs \union {NoRef}]
  /\ lru \subseteq Pages /\ evictPage \in Pages \union {NoPage}

CursorTypes ==
  /\ hazard \in [Cursors -> [Refs -> Pages \union {NoPage}]]
  /\ holds \in [Cursors -> SUBSET Refs]
  /\ got \in [Cursors -> [Refs -> Pages \union {NoPage}]]
  /\ pc \in [Cursors -> CursorLabels]
  /\ at \in [Cursors -> Refs \union {NoRef}]
  /\ prev \in [Cursors -> OnDisk]
  /\ cand \in [Cursors -> Pages \union {NoPage}]

EvictTypes ==
  /\ epc \in [Evictors -> EvictLabels]
  /\ top \in [Evictors -> Refs \union {NoRef}]
  /\ excl \in [Evictors -> SUBSET Refs]
  /\ cur \in [Evictors -> Refs \union {NoRef}]
  /\ scanned \in [Evictors -> SUBSET Slots]
  /\ visited \in [Evictors -> SUBSET Refs]
  /\ dying \in [Evictors -> SUBSET Pages]

\* The variables hold values of their C types.
TypeOK == RefTypes /\ CursorTypes /\ EvictTypes

\* A page that __wt_page_in gave to a cursor stays allocated, and stays the
\* page of its WT_REF, until the cursor releases it, and so do the pages it
\* came through.
HeldPagesStay ==
  \A c \in Cursors : \A r \in holds[c] :
    /\ got[c][r] # NoPage /\ page[r] = got[c][r] /\ owner[got[c][r]] = r
    /\ hazard[c][r] = got[c][r]
    /\ Parent[r] # NoRef => Parent[r] \in holds[c]

\* Held pages stay, unless __wt_hazard_set's check of the page pointer and
\* its check of the state saw the page before and after an eviction.
HeldPagesStayUnlessRaced == ~ raced => HeldPagesStay

\* No thread meets freed memory through the pointers the server keeps, the
\* eviction list and the walk's position, and no page is evicted twice: the
\* page a thread is evicting is not on the list, where another would find it.
ServerPointersLive ==
  ~ raced => /\ \A p \in lru : owner[p] # NoRef
             /\ evictPage # NoPage => owner[evictPage] # NoRef
             /\ \A e \in Evictors :
                  epc[e] \in {"scan", "review"} => page[top[e]] \notin lru

\* A page with a child in memory or being read is in memory (rec_evict.c,
\* __rec_review: "You can't evict a page that references such in-memory
\* pages, they must be evicted first").
ParentsInMemory ==
  ~ raced => \A r \in Refs : state[r] \notin OnDisk /\ Parent[r] # NoRef =>
                               state[Parent[r]] \in InMem

-----------------------------------------------------------------------------
(* The inductive invariant behind them.                                    *)

\* The cursor's check of its hazard reference to r has passed.
Acquired(c, r) == r \in holds[c] \/ (pc[c] = "use" /\ at[c] = r)

\* The cursor has r in the reading state.
Reading(c) == pc[c] \in {"build", "publish", "locked"}

\* The evicting thread has locked pages, and has not met a reason to give up.
Reviewing(e) == epc[e] \in {"scan", "review", "publish"}

RefInv ==
  \A r \in Refs :
    /\ state[r] \in OnDisk => page[r] = NoPage
    /\ state[r] \in {"mem", "walk"} => page[r] # NoPage
    /\ page[r] # NoPage => owner[page[r]] = r

ReaderInv ==
  \A c \in Cursors :
    /\ pc[c] # "app" => at[c] \in Refs \ holds[c] /\ Reaches(c, at[c])
    /\ Reading(c) => /\ state[at[c]] = "reading"
                     /\ pc[c] = "publish" <=> page[at[c]] # NoPage
                     /\ \A d \in Cursors \ {c} : Reading(d) => at[d] # at[c]
    /\ \A r \in holds[c] : Reaches(c, r)

HoldInv ==
  \A c \in Cursors : \A r \in Refs :
    /\ Acquired(c, r) =>
         state[r] \in InMem /\ page[r] # NoPage /\ hazard[c][r] = page[r]
    /\ r \in holds[c] => got[c][r] = page[r]

ExclInv ==
  \A e \in Evictors :
    /\ \A r \in excl[e] : state[r] = "locked" /\ (page[r] = NoPage => epc[e] = "publish" /\ r = top[e])
    /\ \A f \in Evictors \ {e} : excl[e] \intersect excl[f] = {}
    /\ Reviewing(e) => top[e] \in excl[e] \ visited[e]
    /\ epc[e] \in {"idle", "discard"} => excl[e] = {}
    /\ IF epc[e] = "scan" THEN cur[e] \in excl[e] ELSE cur[e] = NoRef

ReviewInv ==
  \A e \in Evictors :
    /\ ~ Reviewing(e) => visited[e] = {}
    /\ \A r \in visited[e] :
         /\ Parent[r] \in excl[e] \ {cur[e]}
         /\ state[r] \in OnDisk \/ r \in excl[e]
    /\ epc[e] = "publish" =>
         \A r \in Refs : Parent[r] \in excl[e] => r \in visited[e]

CleanInv ==
  \A e \in Evictors : Reviewing(e) =>
    \A c \in Cursors, r \in excl[e] :
      Acquired(c, r) => r = cur[e] /\ <<c, r>> \notin scanned[e]

DyingInv ==
  \A e \in Evictors :
    /\ epc[e] \notin {"publish", "discard"} => dying[e] = {}
    /\ \A f \in Evictors \ {e} : dying[e] \intersect dying[f] = {}
    /\ \A p \in dying[e] :
         /\ owner[p] # NoRef
         /\ \A r \in Refs : page[r] = p => epc[e] = "publish" /\ r \in excl[e] \ {top[e]}

WalkInv ==
  /\ evictPage # NoPage =>
       /\ owner[evictPage] # NoRef
       /\ page[owner[evictPage]] = evictPage
       /\ state[owner[evictPage]] = "walk"
  /\ \A r \in Refs : state[r] = "walk" =>
       /\ Parent[r] # NoRef => state[Parent[r]] = "walk"
       /\ Parent[r] # WalkRef
       /\ \A q \in Refs : state[q] = "walk" /\ Parent[q] = Parent[r] => q = r

LruInv ==
  /\ \A p \in lru : owner[p] # NoRef
  /\ \A e \in Evictors : epc[e] \in {"scan", "review"} => page[top[e]] \notin lru

TreeInv ==
  \A r \in Refs :
    state[r] \notin OnDisk /\ Parent[r] # NoRef => state[Parent[r]] \in InMem

Inv == TypeOK /\ RefInv /\ ReaderInv /\ HoldInv /\ ExclInv /\ ReviewInv
         /\ CleanInv /\ DyingInv /\ WalkInv /\ LruInv /\ TreeInv

\* The state of every page, cursor and evicting thread fits together as long
\* as no cursor has been misled by the check of its hazard reference.
IInv == raced \in BOOLEAN /\ (~ raced => Inv)
=============================================================================

----------------------------- MODULE EvictServer -----------------------------
(***************************************************************************)
(* The eviction server (src/src/btree/bt_evict.c) and the threads that     *)
(* work with it: sessions that flush a file through it and wait            *)
(* (__wt_bt_cache_flush, __wt_compact), and sessions that find the cache   *)
(* full and evict pages from its queue themselves (__wt_cache_full_check). *)
(*                                                                         *)
(* evict_lock is held by the server across steps; the others take and      *)
(* release it inside a step.  Pages are the pages below the root.  Hazard  *)
(* references, children and the inside of an eviction are in module        *)
(* Hazard: here an eviction succeeds or fails.  Read generations are left  *)
(* out: the queue is sorted in any order.  The connection stays open: the  *)
(* server does not exit.                                                   *)
(***************************************************************************)
EXTENDS Integers, FiniteSets, SequencesExt

CONSTANTS
    Sessions, Trees, Pages,
    TreeOf,         \* the tree of each page
    NULL,
    CacheSize,      \* cache_size, in pages
    Target,         \* eviction_target, in pages
    Trigger,        \* eviction_trigger, in pages
    WalkBase,       \* WT_EVICT_WALK_BASE
    WalkIncr,       \* WT_EVICT_WALK_INCR
    Group,          \* WT_EVICT_GROUP
    MaxLoop,        \* rounds without progress before the server sleeps
    Setups          \* the pages in memory at the start, the dirty ones, and the
                    \* calls each session makes, in order

ASSUME EvictConfig ==
    /\ TreeOf \in [Pages -> Trees]
    /\ \A setup \in Setups : setup.dirty \subseteq setup.mem /\ setup.mem \subseteq Pages
    /\ Target <= Trigger /\ Trigger <= CacheSize /\ Group <= WalkBase

VARIABLES
    syncRequest, syncComplete,  \* cache->sync_request, cache->sync_complete
    syncop,     \* session->syncop: an operation or NULL
    syncRet,    \* session->syncop_ret
    cond,       \* session->cond is signalled
    evictCond,  \* cache->evict_cond is signalled
    serialLock, \* conn->serial_lock: its owner
    evictLock,  \* cache->evict_lock is held by the server
    ref,        \* the state of each page's WT_REF
    dirty,      \* __wt_page_is_modified
    lru,        \* WT_PAGE_EVICT_LRU
    queue,      \* cache->evict
    current,    \* cache->evict_current, an index; 0 if NULL
    lruCount,   \* btree->lru_count
    walk,       \* btree->evict_page: a page or NULL
    open,       \* the trees with a root page
    call,       \* where each session is, and in what
    srv,        \* where the server is
    todo,       \* the calls each session has yet to make
    owed        \* history: pages dirty when a flush was asked for, not written since

page == <<ref, dirty, lru, queue, current, lruCount, walk, open>>
sync == <<syncRequest, syncComplete, syncop, syncRet, cond, serialLock>>
vars == <<sync, page, evictCond, evictLock, call, srv, todo, owed>>

Ops == {"sync", "discard", "nowrite", "compact"}
Slots == 1 .. WalkBase + WalkIncr
App == [pc |-> "app"]
InUse == Cardinality({p \in Pages : ref[p] # "disk"})   \* __wt_cache_bytes_inuse

(* The queue ***************************************************************)

\* __evict_list_clr on a set of slots.
ListClr(slots) ==
    /\ queue' = [i \in Slots |-> IF i \in slots THEN NULL ELSE queue[i]]
    /\ lru' = [p \in Pages |-> lru[p] /\ \A i \in slots : queue[i] # p]

\* __evict_get_page: from the current entry on, the first page whose reference
\* can be locked.
Candidates(isApp) == IF isApp THEN Group ELSE Group \div 2

Stops(i, n) == i > n \/ queue[i] = NULL
ScanEnd(n) == CHOOSE i \in current .. n + 1 :
                /\ Stops(i, n) \/ ref[queue[i]] = "mem"
                /\ \A j \in current .. i - 1 : ~Stops(j, n) /\ ref[queue[j]] # "mem"

GetPage(isApp, got(_), none) ==
    LET n == Candidates(isApp)
        i == ScanEnd(n)
    IN  IF current = 0 \/ current > n
        THEN none /\ UNCHANGED page
        ELSE /\ evictLock = FALSE
             /\ IF Stops(i, n)
                THEN /\ current' = IF isApp THEN 0 ELSE i
                     /\ none
                     /\ UNCHANGED <<ref, dirty, lru, queue, lruCount, walk, open>>
                ELSE /\ current' = i + 1
                     /\ ref' = [ref EXCEPT ![queue[i]] = "locked"]
                     /\ lruCount' = [lruCount EXCEPT ![TreeOf[queue[i]]] = @ + 1]
                     /\ ListClr({i})
                     /\ got(queue[i])
                     /\ UNCHANGED <<dirty, walk, open>>

\* __evict_page: a dirty page is written; one that cannot be evicted goes back
\* to WT_REF_MEM.
Evict(p, ok) ==
    /\ ref' = [ref EXCEPT ![p] = IF ok THEN "disk" ELSE "mem"]
    /\ dirty' = [dirty EXCEPT ![p] = @ /\ ~ok]
    /\ owed' = [s \in Sessions |-> IF ok THEN owed[s] \ {p} ELSE owed[s]]
    /\ UNCHANGED <<lru, queue, current, lruCount, walk, open>>

Uncount(p) ==
    /\ lruCount' = [lruCount EXCEPT ![TreeOf[p]] = @ - 1]
    /\ UNCHANGED <<ref, dirty, lru, queue, current, walk, open>>

(* Condition variables (__wt_cond_signal): the signal is remembered ********)

SignalIfWaiting(s) == cond' = [cond EXCEPT ![s] = @ \/ call[s].pc = "wait"]

Signal(s) == cond' = [cond EXCEPT ![s] = TRUE]

(* Sessions ****************************************************************)

\* Sessions that have the tree's handle, and the one that has it exclusively.
Uses(s, t) == call[s].pc # "app" /\ call[s].tree = t
Excludes(s, t) == Uses(s, t) /\ call[s].op \in {"discard", "nowrite"}
Flushes(s, t) == Uses(s, t) /\ call[s].op \in {"sync", "discard", "nowrite"}

Go(s, rec) == call' = [call EXCEPT ![s] = rec]
At(s, pc) == Go(s, [call[s] EXCEPT !.pc = pc])

\* __wt_eviction_check and the returns of __wt_cache_full_check: wake the server
\* over the trigger, and over the maximum shut out readers, except a session that
\* holds the schema lock or is in a bulk-load, no-cache or no-eviction tree.
CacheCheck(s, rec, wake) ==
    /\ Go(s, IF InUse > CacheSize /\ ~rec.exempt THEN [rec EXCEPT !.pc = "full"] ELSE rec)
    /\ evictCond' = (evictCond \/ (wake /\ InUse >= Trigger))

\* The session's next call.
Calls(s, c) ==
    /\ call[s].pc = "app" /\ todo[s] # <<>>
    /\ c = Head(todo[s])
    /\ todo' = [todo EXCEPT ![s] = Tail(@)]

\* A read or an update of a page p, perhaps by a session that is let into a full
\* cache.  It starts with __wt_cache_full_check, and goes on where "then" says.
Access(s, p, exempt) ==
    /\ Calls(s, <<IF exempt THEN "exempt" ELSE "access", p>>)
    /\ TreeOf[p] \in open
    /\ \A r \in Sessions : ~Excludes(r, TreeOf[p])
    /\ CacheCheck(s, [pc |-> "work", tree |-> TreeOf[p], op |-> "access", page |-> p,
                      exempt |-> exempt, then |-> "work", victim |-> NULL], TRUE)
    /\ UNCHANGED <<sync, page, evictLock, srv, owed>>

\* The loop of __wt_cache_full_check: it wakes the server every hundredth time.
CacheRetry(s) ==
    /\ call[s].pc = "retry"
    /\ \E wake \in BOOLEAN : CacheCheck(s, [call[s] EXCEPT !.pc = call[s].then], wake)
    /\ UNCHANGED <<sync, page, evictLock, srv, owed>>

AppGetPage(s) ==
    /\ call[s].pc = "full"
    /\ GetPage(TRUE,
               LAMBDA p : Go(s, [call[s] EXCEPT !.pc = "evict", !.victim = p]),
               At(s, "retry"))
    /\ UNCHANGED <<sync, evictCond, evictLock, srv, owed>>

AppEvict(s) ==
    /\ call[s].pc = "evict"
    /\ \E ok \in BOOLEAN : Evict(call[s].victim, ok)
    /\ At(s, "uncount")
    /\ UNCHANGED <<sync, evictCond, evictLock, srv>>

\* An eviction that failed with anything but EBUSY ends the caller's operation.
AppUncount(s) ==
    /\ call[s].pc = "uncount"
    /\ Uncount(call[s].victim)
    /\ Go(s, [call[s] EXCEPT !.pc = "retry", !.victim = NULL]) \/ Go(s, App)
    /\ UNCHANGED <<sync, evictCond, evictLock, srv, owed>>

\* __wt_page_in_func: a page on disk is read, after another check of the cache, and
\* perhaps by another session meanwhile; a locked page is waited for; a page in
\* memory is used, perhaps modified, and the call returns.
PageIn(s) ==
    /\ call[s].pc = "work" /\ ref[call[s].page] = "disk"
    /\ CacheCheck(s, [call[s] EXCEPT !.pc = "read", !.then = "read"], TRUE)
    /\ UNCHANGED <<sync, page, evictLock, srv, owed>>

Read(s) ==
    /\ call[s].pc = "read"
    /\ ref' = [ref EXCEPT ![call[s].page] = IF @ = "disk" THEN "mem" ELSE @]
    /\ At(s, "work")
    /\ UNCHANGED <<sync, dirty, lru, queue, current, lruCount, walk, open, evictCond,
                   evictLock, srv, owed>>

Work(s) ==
    /\ call[s].pc = "work" /\ ref[call[s].page] \in {"mem", "walk"}
    /\ \E m \in BOOLEAN : dirty' = [dirty EXCEPT ![call[s].page] = @ \/ m]
    /\ Go(s, App)
    /\ UNCHANGED <<sync, ref, lru, queue, current, lruCount, walk, open, evictCond,
                   evictLock, srv, owed>>

\* A closed tree is opened again: its root page is read.
Reopen(s, t) ==
    /\ Calls(s, <<"reopen", t>>)
    /\ t \notin open
    /\ \A r \in Sessions : ~Uses(r, t)
    /\ open' = open \union {t}
    /\ UNCHANGED <<sync, ref, dirty, lru, queue, current, lruCount, walk, evictCond,
                   evictLock, call, srv, owed>>

\* __wt_bt_cache_flush and __wt_compact.  First the operation is published ...
Publish(s, t, op) ==
    /\ Calls(s, <<op, t>>)
    /\ t \in open
    /\ serialLock = NULL
    /\ \A r \in Sessions : ~Excludes(r, t)
    /\ serialLock' = s
    /\ syncop' = [syncop EXCEPT ![s] = op]
    /\ owed' = [owed EXCEPT ![s] =
            {p \in Pages : TreeOf[p] = t /\ dirty[p] /\ op \in {"sync", "discard"}}]
    /\ Go(s, [pc |-> "count", tree |-> t, op |-> op])
    /\ UNCHANGED <<syncRequest, syncComplete, syncRet, cond, page, evictCond,
                   evictLock, srv>>

\* (The schema lock allows one flush of a tree at a time, and a tree is discarded
\* through an exclusive handle.)
Flush(s, t, op) ==
    /\ \A r \in Sessions : ~Flushes(r, t)
    /\ op # "sync" => \A r \in Sessions : ~Uses(r, t)
    /\ Publish(s, t, op)

\* (The pages on disk that __wt_compact then reads are calls of Access.)
Compact(s, t) == Publish(s, t, "compact")

\* ... then the request is counted, still under serial_lock ...
FlushCount(s) ==
    /\ call[s].pc = "count"
    /\ syncRequest' = syncRequest + 1
    /\ serialLock' = NULL
    /\ At(s, "wake")
    /\ UNCHANGED <<syncComplete, syncop, syncRet, cond, page, evictCond, evictLock,
                   srv, owed>>

FlushWake(s) ==
    /\ call[s].pc = "wake"
    /\ evictCond' = TRUE
    /\ At(s, "wait")
    /\ UNCHANGED <<sync, page, evictLock, srv, owed>>

\* ... and the session waits, without a timeout, for the server to signal it.
CondWait(s) == cond[s] /\ cond' = [cond EXCEPT ![s] = FALSE]

FlushWait(s) ==
    /\ call[s].pc = "wait"
    /\ CondWait(s)
    /\ Go(s, App)
    /\ owed' = [owed EXCEPT ![s] = {}]
    /\ UNCHANGED <<syncRequest, syncComplete, syncop, syncRet, serialLock, page,
                   evictCond, evictLock, srv>>

(* The server: __wt_cache_evict_server and __evict_worker ******************)

SrvAt(pc) == srv' = [srv EXCEPT !.pc = pc]
app == <<sync, call>>

\* The top of __evict_worker's loop.
Lock ==
    /\ srv.pc = "worker"
    /\ evictLock' = TRUE
    /\ SrvAt("requests")
    /\ UNCHANGED <<app, page, evictCond, owed>>

\* __evict_file_request_walk: count the request as handled, find a session with an
\* operation, clear it, and clear the queue.  A request that is not found is
\* reported, and the server goes on.
FindRequest ==
    IF \A s \in Sessions : syncop[s] = NULL
    THEN UNCHANGED <<syncop, srv, queue, lru>>
    ELSE \E s \in Sessions :
            /\ syncop[s] # NULL
            /\ syncop' = [syncop EXCEPT ![s] = NULL]
            /\ srv' = [srv EXCEPT !.pc = "drain", !.session = s]
            /\ ListClr(Slots)

RequestWalkNoCount ==
    /\ srv.pc = "requests" /\ syncComplete # syncRequest
    /\ FindRequest
    /\ UNCHANGED <<syncRequest, syncComplete, syncRet, cond, serialLock, ref, dirty,
                   current, lruCount, walk, open, evictCond, evictLock, call, owed>>

RequestWalk ==
    /\ srv.pc = "requests" /\ syncComplete # syncRequest
    /\ syncComplete' = syncComplete + 1
    /\ FindRequest
    /\ UNCHANGED <<syncRequest, syncRet, cond, serialLock, ref, dirty, current,
                   lruCount, walk, open, evictCond, evictLock, call, owed>>

\* The tree, and the operation, of the request in hand.
Tree == call[srv.session].tree
Op == call[srv.session].op

\* Other threads' evictions in the tree are waited for, with the lock released.
NotWaited == TRUE

Drained == lruCount[Tree] = 0

DrainYield ==
    /\ srv.pc = "drain" /\ ~Drained
    /\ evictLock' = FALSE
    /\ SrvAt("yield")
    /\ UNCHANGED <<app, page, evictCond, owed>>

DrainRelock ==
    /\ srv.pc = "yield"
    /\ evictLock' = TRUE
    /\ SrvAt("drain")
    /\ UNCHANGED <<app, page, evictCond, owed>>

\* __evict_clear_tree_walk
ClearTreeWalk ==
    /\ ref' = [p \in Pages |-> IF p = walk[Tree] /\ ref[p] = "walk" THEN "mem" ELSE ref[p]]
    /\ walk' = [walk EXCEPT ![Tree] = NULL]

\* __evict_file_request: clear the tree's walk, then walk its pages in memory.
RequestStart ==
    /\ srv.pc = "drain" /\ Drained
    /\ ClearTreeWalk
    /\ srv' = [srv EXCEPT !.pc = "request",
                          !.todo = {p \in Pages : TreeOf[p] = Tree /\ ref'[p] = "mem"}]
    /\ UNCHANGED <<app, dirty, lru, queue, current, lruCount, open, evictCond,
                   evictLock, owed>>

\* One page of the walk; __wt_compact_evict marks a page dirty to have it rewritten.
CompactEvict(d) == IF d THEN {TRUE} ELSE BOOLEAN

RequestPage ==
    /\ srv.pc = "request"
    /\ \E p \in srv.todo :
        /\ srv' = [srv EXCEPT !.todo = @ \ {p}]
        /\ \E d \in IF Op = "compact" THEN CompactEvict(dirty[p]) ELSE {FALSE} :
                dirty' = [dirty EXCEPT ![p] = d]
        /\ owed' = [s \in Sessions |-> IF Op \in {"sync", "discard"} THEN owed[s] \ {p} ELSE owed[s]]
        /\ ref' = [ref EXCEPT ![p] = IF Op \in {"discard", "nowrite"} THEN "disk" ELSE @]
    /\ UNCHANGED <<app, lru, queue, current, lruCount, walk, open, evictCond, evictLock>>

\* A page cannot be written, evicted or reviewed for compaction: the walk ends.
Fails(p) == Op \in {"discard", "compact"} \/ (Op = "sync" /\ dirty[p])

RequestErrorLost ==
    /\ srv.pc = "request"
    /\ \E p \in srv.todo : Fails(p)
    /\ srv' = [srv EXCEPT !.pc = "answer", !.ret = "ok", !.todo = {}]
    /\ UNCHANGED <<app, page, evictCond, evictLock, owed>>

RequestError ==
    /\ srv.pc = "request"
    /\ \E p \in srv.todo : Fails(p)
    /\ srv' = [srv EXCEPT !.pc = "answer", !.ret = "error", !.todo = {}]
    /\ UNCHANGED <<app, page, evictCond, evictLock, owed>>

\* The root page comes last; a discarded tree has none.
RequestDone ==
    /\ srv.pc = "request" /\ srv.todo = {}
    /\ open' = IF Op \in {"discard", "nowrite"} THEN open \ {Tree} ELSE open
    /\ srv' = [srv EXCEPT !.pc = "answer", !.ret = "ok"]
    /\ UNCHANGED <<app, ref, dirty, lru, queue, current, lruCount, walk, evictCond,
                   evictLock, owed>>

\* The result is published, then the session is signalled.
Answer ==
    /\ srv.pc = "answer"
    /\ syncRet' = [syncRet EXCEPT ![srv.session] = srv.ret]
    /\ Signal(srv.session)
    /\ srv' = [srv EXCEPT !.pc = "requests", !.session = NULL]
    /\ UNCHANGED <<syncRequest, syncComplete, syncop, serialLock, page, evictCond,
                   evictLock, call, owed>>

\* No more requests: unlock, and look at the cache.
Unlock ==
    /\ srv.pc = "requests" /\ syncComplete = syncRequest
    /\ evictLock' = FALSE
    /\ srv' = [srv EXCEPT !.pc = IF InUse < Target THEN "sleep" ELSE "walk", !.inuse = InUse]
    /\ UNCHANGED <<app, page, evictCond, owed>>

\* __evict_walk: fill the slots above WalkBase with pages of the open trees that
\* are not queued, and leave each tree's walk at a page or at its end.
Walk ==
    /\ srv.pc = "walk"
    /\ \E w \in [Trees -> Pages \union {NULL}] :
        LET walkable == {p \in Pages : TreeOf[p] \in open /\ ref[p] \in {"mem", "walk"}}
            new == {p \in walkable : ~lru[p]}
        IN  /\ \A t \in Trees :
                  \/ t \notin open /\ w[t] = walk[t]
                  \/ t \in open /\ w[t] \in {p \in walkable : TreeOf[p] = t} \union {NULL}
            /\ walk' = w
            /\ ref' = [p \in Pages |-> IF p = w[TreeOf[p]] THEN "walk"
                                       ELSE IF ref[p] = "walk" THEN "mem" ELSE ref[p]]
            /\ \E some \in SUBSET new :
                  /\ Cardinality(some) = IF Cardinality(new) > WalkIncr
                                         THEN WalkIncr ELSE Cardinality(new)
                  /\ queue' = [i \in Slots |->
                                 IF i - WalkBase \in 1 .. Cardinality(some)
                                 THEN SetToSeq(some)[i - WalkBase] ELSE queue[i]]
                  /\ lru' = [p \in Pages |-> lru[p] \/ p \in some]
    /\ SrvAt("sort")
    /\ UNCHANGED <<app, dirty, current, lruCount, open, evictCond, evictLock, owed>>

\* __evict_lru: sort the queue, NULLs last, drop what is beyond WalkBase, restart.
Sort ==
    /\ srv.pc = "sort"
    /\ LET queued == {p \in Pages : \E i \in Slots : queue[i] = p}
       IN  \E order \in SetToSeqs(queued) :
            /\ queue' = [i \in Slots |-> IF i <= WalkBase /\ i <= Len(order)
                                         THEN order[i] ELSE NULL]
            /\ lru' = [p \in Pages |-> lru[p] /\
                    ~\E i \in WalkBase + 1 .. Len(order) : order[i] = p]
    /\ current' = 1
    /\ SrvAt("lru")
    /\ UNCHANGED <<app, ref, dirty, lruCount, walk, open, evictCond, evictLock, owed>>

\* Evict pages until there is none to take, or one cannot be evicted.
SrvGetPage ==
    /\ srv.pc = "lru"
    /\ GetPage(FALSE,
               LAMBDA p : srv' = [srv EXCEPT !.pc = "evict", !.victim = p],
               SrvAt("progress"))
    /\ UNCHANGED <<app, evictCond, evictLock, owed>>

SrvEvict ==
    /\ srv.pc = "evict"
    /\ \E ok \in BOOLEAN :
        /\ Evict(srv.victim, ok)
        /\ SrvAt(IF ok THEN "uncount" ELSE "uncountFailed")
    /\ UNCHANGED <<app, evictCond, evictLock>>

SrvUncount ==
    /\ srv.pc \in {"uncount", "uncountFailed"}
    /\ Uncount(srv.victim)
    /\ srv' = [srv EXCEPT !.pc = IF @ = "uncount" THEN "lru" ELSE "progress", !.victim = NULL]
    /\ UNCHANGED <<app, evictCond, evictLock, owed>>

\* Another round, unless the rounds without progress reached the limit.  (After
\* progress the loop's own increment makes the count 1.)
Progress ==
    /\ srv.pc = "progress"
    /\ LET stuck == InUse >= srv.inuse
           stop  == stuck /\ srv.loop = MaxLoop
       IN  srv' = [srv EXCEPT !.pc   = IF stop THEN "sleep" ELSE "worker",
                              !.loop = IF stop THEN 0 ELSE IF stuck THEN @ + 1 ELSE 1]
    /\ UNCHANGED <<app, page, evictCond, evictLock, owed>>

\* __wt_cond_wait with a timeout: a signal or the time ends it.
Sleep ==
    /\ srv.pc = "sleep"
    /\ evictCond' = FALSE
    /\ srv' = [srv EXCEPT !.pc = "worker", !.loop = 0]
    /\ UNCHANGED <<app, page, evictLock, owed>>

Server ==
    \/ Lock \/ RequestWalk \/ DrainYield \/ DrainRelock \/ RequestStart
    \/ RequestPage \/ RequestError \/ RequestDone \/ Answer \/ Unlock
    \/ Walk \/ Sort \/ SrvGetPage \/ SrvEvict \/ SrvUncount \/ Progress \/ Sleep

\* The steps of a call that has begun.
Continue(s) ==
    \/ CacheRetry(s) \/ AppGetPage(s) \/ AppEvict(s) \/ AppUncount(s)
    \/ PageIn(s) \/ Read(s) \/ Work(s)
    \/ FlushCount(s) \/ FlushWake(s) \/ FlushWait(s)

Begin(s) ==
    \/ \E p \in Pages, exempt \in BOOLEAN : Access(s, p, exempt)
    \/ \E t \in Trees : Reopen(s, t)
    \/ \E t \in Trees, op \in Ops \ {"compact"} : Flush(s, t, op)
    \/ \E t \in Trees : Compact(s, t)

Next ==
    \/ Server /\ UNCHANGED todo
    \/ \E s \in Sessions : Begin(s)
    \/ \E s \in Sessions : Continue(s) /\ UNCHANGED todo

Init ==
    /\ syncRequest = 0 /\ syncComplete = 0
    /\ syncop = [s \in Sessions |-> NULL]
    /\ syncRet = [s \in Sessions |-> "ok"]
    /\ cond = [s \in Sessions |-> FALSE]
    /\ evictCond = FALSE /\ evictLock = FALSE /\ serialLock = NULL
    /\ \E setup \in Setups :
        /\ ref = [p \in Pages |-> IF p \in setup.mem THEN "mem" ELSE "disk"]
        /\ dirty = [p \in Pages |-> p \in setup.dirty]
        /\ todo = setup.calls
    /\ lru = [p \in Pages |-> FALSE]
    /\ queue = [i \in Slots |-> NULL]
    /\ current = 0
    /\ lruCount = [t \in Trees |-> 0]
    /\ walk = [t \in Trees |-> NULL]
    /\ open = Trees
    /\ call = [s \in Sessions |-> App]
    /\ srv = [pc |-> "worker", session |-> NULL, todo |-> {}, ret |-> "ok",
              victim |-> NULL, inuse |-> 0, loop |-> 0]
    /\ owed = [s \in Sessions |-> {}]

\* The server's thread is scheduled, and so is a session's between entering the
\* library and leaving it; nothing makes a session call.
Fairness == WF_vars(Server /\ UNCHANGED todo)
            /\ \A s \in Sessions : WF_vars(Continue(s) /\ UNCHANGED todo)

Spec == Init /\ [][Next]_vars /\ Fairness

-----------------------------------------------------------------------------
\* Types, and the lock: only a server between Lock and Unlock holds evict_lock.
TypeOK ==
    /\ syncRequest \in Nat /\ syncComplete \in Nat
    /\ syncop \in [Sessions -> Ops \union {NULL}]
    /\ cond \in [Sessions -> BOOLEAN]
    /\ ref \in [Pages -> {"disk", "mem", "walk", "locked"}]
    /\ queue \in [Slots -> Pages \union {NULL}]
    /\ current \in 0 .. Group + 1
    /\ lruCount \in [Trees -> 0 .. Cardinality(Sessions) + 1]
    /\ evictLock = (srv.pc \in {"requests", "drain", "request", "answer"})

\* A counted request is a published one: the server that counts one as handled
\* finds it, and never reports "failed to find handle's sync operation request"
\* (__evict_file_request_walk), however publications and counts interleave.
RequestFound ==
    syncRequest - syncComplete <= Cardinality({s \in Sessions : syncop[s] # NULL})

\* While the server flushes a tree no other thread is evicting in it, which
\* is what __evict_file_request_walk waits for ("there are no other threads
\* evicting in the tree"), and the tree is in no queue entry and no walk.
FlushIsAlone ==
    srv.pc \in {"request", "answer"} =>
        /\ \A s \in Sessions : call[s].pc = "evict" => TreeOf[call[s].victim] # Tree
        /\ walk[Tree] = NULL
        /\ \A i \in Slots : queue[i] = NULL \/ TreeOf[queue[i]] # Tree

\* A session's condition is signalled only as the answer to the request it is
\* waiting in (__wt_cond_wait resets the signal): it never returns from
\* __wt_bt_cache_flush on the answer of an earlier one.
WakeIsAnswer ==
    \A s \in Sessions : cond[s] =>
        /\ call[s].pc \in {"count", "wake", "wait"}
        /\ syncop[s] = NULL /\ srv.session # s

\* A flush that a session returns from with success wrote every page that was
\* dirty when it was called (__wt_bt_cache_flush), whoever wrote it, and a
\* successful discard leaves no page and no root ("the root page should be gone").
FlushComplete ==
    WakeIsAnswer /\ \A s \in Sessions :
        call[s].pc = "wait" /\ cond[s] /\ syncRet[s] = "ok" =>
            /\ owed[s] = {}
            /\ Excludes(s, call[s].tree) =>
                  /\ call[s].tree \notin open
                  /\ \A p \in Pages : TreeOf[p] = call[s].tree => ref[p] = "disk"

\* Every flush returns: a request, once published, is found by the server, its
\* tree's evictions drain, and its session is woken (__wt_cond_wait without a
\* timeout in __wt_bt_cache_flush).
FlushReturns ==
    \A s \in Sessions : (call[s].pc \in {"count", "wake", "wait"}) ~> (call[s].pc = "app")
=============================================================================

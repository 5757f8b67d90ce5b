------------------------------- MODULE LsmTree -------------------------------
(***************************************************************************)
(* The LSM tree (src/src/lsm): an array of chunks, the newest last, each   *)
(* a B-tree file.  Sessions read and write through LSM cursors, the        *)
(* checkpoint thread writes chunks that nobody writes any more, the worker *)
(* thread merges chunks and drops the ones it replaced.                    *)
(*                                                                         *)
(* The LSM lock is held across steps by the worker while it drops chunks,  *)
(* and only inside a step elsewhere; the schema lock is held across steps  *)
(* by a session that truncates or drops the tree; a step that takes a lock *)
(* waits for it.  A chunk's identifier stands for its file name, its       *)
(* contents are a function from keys to a value, the tombstone or NoRec.   *)
(* A behaviour ends where the code follows a pointer to a freed chunk and  *)
(* goes on to write there (CkptNext).                                      *)
(***************************************************************************)
EXTENDS Integers, FiniteSets, SequencesExt

CONSTANTS
    Sessions,       \* application sessions, one LSM cursor each
    Keys, Values,
    NULL, Tomb, NoRec,
    MaxId,          \* bound: chunk identifiers
    MergeMax,       \* lsm_merge_max
    Setups          \* what a behaviour starts with: records [bloom, size, start, calls]:
                    \* lsm_tree->bloom as [newest, merged, oldest], the chunk
                    \* size in records, the contents of the chunks of a tree that
                    \* was closed before, and as bounds the sessions, rows and
                    \* chunk identifiers used and how many cursors, updates, searches, truncates
                    \* or drops, restarts and failed merges there may be

ASSUME LsmConfig == MergeMax \in Nat \ {0, 1} /\ \A x \in Setups : x.size \in Nat

VARIABLES
    chunk,      \* lsm_tree->chunk[0 .. nchunks - 1], as identifiers
    old,        \* lsm_tree->old_chunks[0 .. nold_chunks - 1]
    oldAvail,   \* lsm_tree->old_avail
    last,       \* lsm_tree->last
    dskGen,     \* lsm_tree->dsk_gen
    memsizep,   \* the chunk whose size lsm_tree->memsizep points to
    refcnt,     \* lsm_tree->refcnt
    working,    \* WT_LSM_TREE_WORKING
    bloomCfg,   \* lsm_tree->bloom
    chunkSize,  \* lsm_tree->chunk_size, in records
    info,       \* the WT_LSM_CHUNK of each identifier, and its files
    meta,       \* the tree's metadata entry
    schemaLock, \* the session that holds the schema lock across steps
    conn,       \* the connection: open, closing or closed
    csr,        \* WT_CURSOR_LSM of each session
    op,         \* the call each session is in
    ck,         \* the checkpoint thread
    mg,         \* the merge thread
    calls,      \* how many calls of each bounded kind are left
    seen        \* history: what the view showed for a key while it is searched

tree == <<chunk, old, oldAvail, last, dskGen, memsizep, info, meta>>
vars == <<tree, refcnt, working, bloomCfg, chunkSize, schemaLock, conn, csr, op,
          ck, mg, calls, seen>>

Ids == 1 .. MaxId
Recs == Values \cup {Tomb, NoRec}
Empty == [k \in Keys |-> NoRec]

\* struct __wt_lsm_chunk, with the contents of the file in memory (data) and in
\* its last checkpoint, and of the Bloom filter's file; uri is NULL once the file
\* has been dropped, and no file's name where that was written to the metadata.
NoChunk == [uri |-> "own", file |-> FALSE, data |-> Empty, ckpt |-> NULL, ondisk |-> FALSE,
            bloom |-> FALSE, bloomUri |-> FALSE, bloomFile |-> NULL,
            ncursor |-> 0, count |-> 0, generation |-> 0, freed |-> FALSE]

NoCursor == [open |-> FALSE, gen |-> 0, cursors |-> << >>, primary |-> NULL,
             updated |-> FALSE]
Idle == [pc |-> "idle"]
NoMerge == [pc |-> "top"]
CkptTop == [pc |-> "top"]

(* What a reader of the tree sees ******************************************)

\* __clsm_open_cursors: a chunk that is on disk is read in its checkpoint, if it
\* has one.
IsLive(c) == ~(c.ondisk /\ c.ckpt # NULL)
Contents(c) == IF IsLive(c) THEN c.data ELSE c.ckpt

\* The newest record for a key in a sequence of contents, oldest first.
Newest(contents, k) ==
    LET hits == {i \in DOMAIN contents : contents[i][k] # NoRec}
    IN  IF hits = {} THEN NoRec
        ELSE contents[CHOOSE i \in hits : \A j \in hits : j <= i][k]

Live(r) == IF r = Tomb THEN NoRec ELSE r

\* The map an LSM tree stands for.
View == [k \in Keys |->
           LET hits == {i \in DOMAIN chunk : Contents(info[chunk[i]])[k] # NoRec}
           IN  IF hits = {} THEN NoRec ELSE Live(Contents(info[chunk[Max(hits)]])[k])]

(* Metadata ****************************************************************)

\* __wt_lsm_meta_write: chunk->bloom_uri is written whether or not the filter
\* has been created.
MetaWrite(ch, ol, la, inf) ==
    meta' = [last |-> la,
             chunks |-> [i \in DOMAIN ch |->
                [id |-> ch[i], bloomUri |-> inf[ch[i]].bloomUri,
                 count |-> inf[ch[i]].count,
                 generation |-> inf[ch[i]].generation]],
             old |-> LET kept == SelectSeq(ol, LAMBDA x : x # NULL)
                     IN  [i \in DOMAIN kept |->
                            [id |-> kept[i], bloomUri |-> inf[kept[i]].bloomUri,
                             uri |-> IF inf[kept[i]].uri = "own" THEN "own" ELSE "(null)"]]]

\* __wt_lsm_meta_read: every chunk is taken to be on disk, and to have the Bloom
\* filter that is named; the slots of old_chunks are counted as the code does.
MetaReadInfo(inf) ==
    [id \in Ids |->
        LET cs == {i \in DOMAIN meta.chunks : meta.chunks[i].id = id}
            os == {i \in DOMAIN meta.old : meta.old[i].id = id}
            file == [NoChunk EXCEPT !.file = inf[id].file,
                       !.data = inf[id].data, !.ckpt = inf[id].ckpt,
                       !.bloomFile = inf[id].bloomFile]
        IN  IF cs # {}
            THEN LET m == meta.chunks[CHOOSE i \in cs : TRUE]
                 IN  [file EXCEPT !.ondisk = TRUE, !.bloom = m.bloomUri,
                        !.bloomUri = m.bloomUri, !.count = m.count,
                        !.generation = m.generation]
            ELSE IF os # {}
            THEN LET m == meta.old[CHOOSE i \in os : TRUE]
                 IN  [file EXCEPT !.ondisk = TRUE, !.bloom = m.bloomUri,
                        !.bloomUri = m.bloomUri, !.uri = m.uri]
            ELSE file]

OldSlots == 10      \* WT_MAX(10, ...) of both places that grow old_chunks

MetaReadOld == [i \in DOMAIN meta.old |-> meta.old[i].id]
MetaReadOldAvail == IF meta.old = << >> THEN 0 ELSE OldSlots - Len(meta.old)

(* Chunks ******************************************************************)

SetupChunkNoDrop(inf, id, bloom) ==
    [inf EXCEPT ![id] = [NoChunk EXCEPT !.file = TRUE, !.bloomUri = bloom,
                             !.bloomFile = inf[id].bloomFile,
                             !.data = inf[id].data, !.ckpt = inf[id].ckpt]]

\* __wt_lsm_tree_setup_chunk: what is left in the file by an aborted merge is
\* dropped before the file is created, except for the first chunk.
SetupChunk(inf, id, bloom) ==
    [inf EXCEPT ![id] =
        IF id > 1 \/ ~inf[id].file
        THEN [NoChunk EXCEPT !.file = TRUE, !.bloomUri = bloom,
                             !.bloomFile = inf[id].bloomFile]
        ELSE [NoChunk EXCEPT !.file = TRUE, !.bloomUri = bloom,
                             !.bloomFile = inf[id].bloomFile,
                             !.data = inf[id].data, !.ckpt = inf[id].ckpt]]

\* Mutant of Switch: the new chunk takes the place of the last one.
SwitchReplaces ==
    /\ last < calls.ids
    /\ last' = last + 1
    /\ memsizep' = NULL
    /\ chunk' = Append(SubSeq(chunk, 1, Len(chunk) - 1), last + 1)
    /\ info' = SetupChunk(info, last + 1, bloomCfg.newest)
    /\ dskGen' = dskGen + 1
    /\ MetaWrite(chunk', old, last', info')
    /\ UNCHANGED <<old, oldAvail>>

\* __wt_lsm_tree_switch
Switch ==
    /\ last < calls.ids
    /\ last' = last + 1
    /\ memsizep' = NULL
    /\ chunk' = Append(chunk, last + 1)
    /\ info' = SetupChunk(info, last + 1, bloomCfg.newest)
    /\ dskGen' = dskGen + 1
    /\ MetaWrite(chunk', old, last', info')
    /\ UNCHANGED <<old, oldAvail>>

\* __wt_lsm_merge_update_tree on the array from index start (counted from 0):
\* the slots of old_chunks that are free, in order, take the replaced chunks.
GrownOld(n) ==
    IF n > oldAvail
    THEN LET slots == IF Len(old) + 2 * n > OldSlots
                      THEN Len(old) + 2 * n ELSE OldSlots
         IN  [seq |-> [i \in 1 .. slots |->
                          IF i <= Len(old) THEN old[i] ELSE NULL],
              avail |-> oldAvail + slots - Len(old)]
    ELSE [seq |-> old, avail |-> oldAvail]

OldAfter(start, n) ==
    LET g == GrownOld(n)
        free == SelectSeq([i \in DOMAIN g.seq |-> i], LAMBDA i : g.seq[i] = NULL)
        placed == IF Len(free) < n THEN Len(free) ELSE n
        SlotOf(i) == CHOOSE j \in 1 .. placed : free[j] = i
    IN  [seq |-> [i \in DOMAIN g.seq |->
                    IF \E j \in 1 .. placed : free[j] = i
                    THEN chunk[start + SlotOf(i)] ELSE g.seq[i]],
         avail |-> g.avail - placed,
         placed |-> placed]

ChunksAfter(start, n, dest) ==
    SubSeq(chunk, 1, start) \o <<dest>> \o SubSeq(chunk, start + n + 1, Len(chunk))

(* LSM cursors *************************************************************)

\* The chunk cursors a cursor holds keep the chunk's files from being dropped.
InUse(id) == \E s \in Sessions : \E i \in DOMAIN csr[s].cursors :
                                    csr[s].cursors[i].id = id
BloomInUse(id) == \E s \in Sessions : \E i \in DOMAIN csr[s].cursors :
                        csr[s].cursors[i].id = id /\ csr[s].cursors[i].bloom

\* The LSM lock, free unless __lsm_free_chunks has it.
Unlocked == mg.pc \notin {"bloom", "file"}

\* __wt_clsm_open takes a reference through __wt_lsm_tree_get.
CursorOpen(s) ==
    /\ conn = "open" /\ schemaLock = NULL /\ op[s] = Idle /\ ~csr[s].open
    /\ calls.cursor > 0
    /\ calls' = [calls EXCEPT !.cursor = @ - 1]
    /\ csr' = [csr EXCEPT ![s] = [NoCursor EXCEPT !.open = TRUE]]
    /\ refcnt' = refcnt + 1
    /\ UNCHANGED <<tree, working, bloomCfg, schemaLock, conn, op, ck, mg>>

\* __clsm_close_cursors: the old primary is left before the lock is taken.
Detached(s) ==
    IF csr[s].primary = NULL THEN info
    ELSE [info EXCEPT ![csr[s].primary].ncursor = @ - 1]

\* __clsm_close
CursorClose(s) ==
    /\ op[s] = Idle /\ csr[s].open
    /\ info' = Detached(s)
    /\ csr' = [csr EXCEPT ![s] = NoCursor]
    /\ refcnt' = refcnt - 1
    /\ UNCHANGED <<chunk, old, oldAvail, last, dskGen, memsizep, meta, working,
                   bloomCfg, schemaLock, conn, op, ck, mg, calls>>

\* A call of insert or update with "overwrite" (v a value) or of remove (v the
\* tombstone).
BeginPut(s, k, v) ==
    /\ op[s] = Idle /\ csr[s].open /\ calls.put > 0
    /\ op' = [op EXCEPT ![s] = [pc |-> "enter", next |-> "first", kind |-> "put",
                                k |-> k, v |-> v, raced |-> FALSE]]
    /\ calls' = [calls EXCEPT !.put = @ - 1]
    /\ UNCHANGED <<tree, refcnt, working, bloomCfg, schemaLock, conn, csr, ck, mg>>

BeginSearch(s, k) ==
    /\ op[s] = Idle /\ csr[s].open /\ calls.search > 0
    /\ calls' = [calls EXCEPT !.search = @ - 1]
    /\ op' = [op EXCEPT ![s] = [pc |-> "enter", next |-> "search",
                                kind |-> "search", k |-> k, i |-> 0]]
    /\ UNCHANGED <<tree, refcnt, working, bloomCfg, schemaLock, conn, csr, ck, mg>>

\* __clsm_enter: nothing to do if the cursor is in step with the tree, otherwise
\* __clsm_open_cursors starts by closing the cursors it has.
Enter(s) ==
    /\ op[s].pc = "enter"
    /\ IF csr[s].gen = dskGen
       THEN /\ op' = [op EXCEPT ![s].pc = op[s].next,
                                ![s] = IF op[s].kind = "search"
                                       THEN [@ EXCEPT !.i = Len(csr[s].cursors)]
                                       ELSE @]
            /\ UNCHANGED <<info, csr>>
       ELSE /\ op' = [op EXCEPT ![s].pc = "open"]
            /\ info' = Detached(s)
            /\ csr' = [csr EXCEPT ![s].cursors = << >>, ![s].primary = NULL]
    /\ UNCHANGED <<chunk, old, oldAvail, last, dskGen, memsizep, meta, refcnt,
                   working, bloomCfg, schemaLock, conn, ck, mg, calls>>

\* The rest of __clsm_open_cursors, under the LSM lock: a cursor on each chunk;
\* it fails at a chunk with a Bloom filter that does not exist.
ChunkCursor(id) == [id |-> id, live |-> IsLive(info[id]), bloom |-> info[id].bloom]
BadBloom(id) == info[id].bloom /\ info[id].bloomFile = NULL

OpenCursors(s) ==
    /\ op[s].pc = "open" /\ Unlocked
    /\ LET bad == {i \in DOMAIN chunk : BadBloom(chunk[i])}
           n == IF bad = {} THEN Len(chunk) ELSE CHOOSE i \in bad : \A j \in bad : i <= j
           cs == [i \in 1 .. n |-> ChunkCursor(chunk[i])]
           primary == Last(chunk)
       IN  IF bad # {}
           THEN /\ csr' = [csr EXCEPT ![s].cursors = cs]
                /\ op' = [op EXCEPT ![s] = Idle]
                /\ UNCHANGED <<info, memsizep>>
           ELSE /\ csr' = [csr EXCEPT ![s].cursors = cs, ![s].primary = primary,
                                      ![s].gen = dskGen]
                /\ info' = [info EXCEPT ![primary].ncursor = @ + 1]
                /\ memsizep' = IF memsizep = NULL /\ IsLive(info[primary])
                               THEN primary ELSE memsizep
                /\ op' = [op EXCEPT ![s].pc = op[s].next,
                                    ![s] = IF op[s].kind = "search"
                                           THEN [@ EXCEPT !.i = n] ELSE @]
    /\ UNCHANGED <<chunk, old, oldAvail, last, dskGen, meta, refcnt, working,
                   bloomCfg, schemaLock, conn, ck, mg, calls>>

\* __clsm_put: the first update of a cursor switches to a new chunk, unless the
\* structure of the tree has changed since the cursors were opened.
PutFirst(s) ==
    /\ op[s].pc = "first"
    /\ IF csr[s].updated
       THEN op' = [op EXCEPT ![s].pc = "insert"] /\ UNCHANGED <<tree, csr>>
       ELSE /\ schemaLock = NULL /\ Unlocked
            /\ IF csr[s].gen = dskGen THEN Switch ELSE UNCHANGED tree
            /\ csr' = [csr EXCEPT ![s].updated = TRUE]
            /\ op' = [op EXCEPT ![s].pc = "enter", ![s].next = "insert"]
    /\ UNCHANGED <<refcnt, working, bloomCfg, schemaLock, conn, ck, mg,
                   calls>>

\* __clsm_put: the insert.  A cursor on a checkpoint refuses it.
PutInsert(s) ==
    /\ op[s].pc = "insert"
    /\ LET c == Last(csr[s].cursors) IN
       IF ~c.live
       THEN op' = [op EXCEPT ![s] = Idle] /\ UNCHANGED info
       ELSE /\ info' = [info EXCEPT ![c.id].data[op[s].k] = op[s].v,
                                    ![c.id].count = @ + 1]
            /\ op' = [t \in Sessions |->
                        IF t = s THEN [op[s] EXCEPT !.pc = "full"]
                        ELSE IF op[t].pc # "idle" /\ op[t].kind = "put" /\ op[t].k = op[s].k
                        THEN [op[t] EXCEPT !.raced = TRUE] ELSE op[t]]
    /\ UNCHANGED <<chunk, old, oldAvail, last, dskGen, memsizep, meta, refcnt,
                   working, bloomCfg, schemaLock, conn, csr, ck, mg, calls>>

\* __clsm_put: switch to a new chunk when this one is full.  memsizep may point
\* into a chunk that has been freed since: the value read is then any value.
Full == IF memsizep = NULL THEN {FALSE}
        ELSE IF info[memsizep].freed THEN BOOLEAN
        ELSE {info[memsizep].count > chunkSize}

PutFull(s, full) ==
    /\ op[s].pc = "full" /\ full \in Full
    /\ op' = [op EXCEPT ![s] = Idle]
    /\ IF full
       THEN /\ schemaLock = NULL /\ Unlocked
            /\ IF csr[s].gen = dskGen THEN Switch ELSE UNCHANGED tree
       ELSE UNCHANGED tree
    /\ UNCHANGED <<refcnt, working, bloomCfg, schemaLock, conn, csr, ck, mg,
                   calls>>

\* __clsm_search: one chunk, newest first; the loop ends at the first record.
CursorRec(c, k) == IF c.live THEN info[c.id].data[k] ELSE info[c.id].ckpt[k]

SkipHits(c, k) == c.bloom /\ k \in info[c.id].bloomFile
Skip(c, k) == c.bloom /\ k \notin info[c.id].bloomFile

SearchStep(s) ==
    /\ op[s].pc = "search"
    /\ LET i == op[s].i
           c == csr[s].cursors[i]
           r == IF Skip(c, op[s].k) THEN NoRec ELSE CursorRec(c, op[s].k)
       IN  op' = [op EXCEPT ![s] =
                    IF i = 0 THEN [@ EXCEPT !.pc = "found", !.i = NoRec]
                    ELSE IF r # NoRec THEN [@ EXCEPT !.pc = "found", !.i = Live(r)]
                    ELSE [@ EXCEPT !.i = i - 1]]
    /\ UNCHANGED <<tree, refcnt, working, bloomCfg, schemaLock, conn, csr, ck, mg,
                   calls>>

SearchEnd(s) ==
    /\ op[s].pc = "found"
    /\ op' = [op EXCEPT ![s] = Idle]
    /\ UNCHANGED <<tree, refcnt, working, bloomCfg, schemaLock, conn, csr, ck, mg,
                   calls>>

\* __lsm_bloom_create, and the filter a merge fills: every record is inserted,
\* the tombstones too.
BloomKeys(data) == {k \in Keys : data[k] # NoRec}

(* The checkpoint thread ***************************************************)

\* __wt_lsm_checkpoint_worker, __wt_lsm_copy_chunks: all chunks but the last.
CkptCopy ==
    /\ ck.pc = "top" /\ (working => Unlocked)
    /\ ck' = IF working
             THEN [pc |-> "loop", arr |-> SubSeq(chunk, 1, Len(chunk) - 1), i |-> 1]
             ELSE [pc |-> "exit"]
    /\ UNCHANGED <<tree, refcnt, working, bloomCfg, schemaLock, conn, csr, op, mg,
                   calls>>

\* The loop over the copied chunks: it ends, passes over a chunk on disk, stops
\* at one that a cursor still has as its primary, or creates the Bloom filter
\* (__lsm_bloom_create) before the checkpoint.  Of a chunk that has been freed
\* the flags and the count read are any value: the loop passes over it, stops, or
\* goes on to write whatever file the freed memory names ("astray").
CkptIdleAny(id) == TRUE
CkptIdle(id) == info[id].ncursor = 0

CkptNext ==
    /\ ck.pc = "loop"
    /\ LET id == ck.arr[ck.i] IN
       \/ /\ ck.i > Len(ck.arr)
          /\ ck' = CkptTop /\ UNCHANGED info
       \/ /\ ck.i <= Len(ck.arr) /\ (info[id].ondisk \/ info[id].freed)
          /\ ck' = [ck EXCEPT !.i = @ + 1] /\ UNCHANGED info
       \/ /\ ck.i <= Len(ck.arr)
          /\ (~info[id].ondisk /\ ~CkptIdle(id)) \/ info[id].freed
          /\ ck' = CkptTop /\ UNCHANGED info
       \/ /\ ck.i <= Len(ck.arr)
          /\ ~info[id].ondisk /\ CkptIdle(id) /\ ~info[id].freed
          /\ ck' = [ck EXCEPT !.pc = "write"]
          /\ IF bloomCfg.newest /\ info[id].count # 0
             THEN /\ schemaLock = NULL
                  /\ info' = [info EXCEPT ![id].bloom = TRUE,
                        ![id].bloomFile = BloomKeys(info[id].data)]
             ELSE UNCHANGED info
       \/ /\ ck.i <= Len(ck.arr) /\ info[id].freed
          /\ ck' = [pc |-> "astray"] /\ UNCHANGED info
    /\ UNCHANGED <<chunk, old, oldAvail, last, dskGen, memsizep, meta, refcnt,
                   working, bloomCfg, schemaLock, conn, csr, op, mg, calls>>

\* The checkpoint itself, under the schema lock; a failure is skipped.
Checkpointed(c) == IF c.data = Empty THEN c ELSE [c EXCEPT !.ckpt = c.data]

CkptWrite(ok) ==
    /\ ck.pc = "write" /\ schemaLock = NULL
    /\ IF ok
       THEN /\ info' = [info EXCEPT ![ck.arr[ck.i]] = Checkpointed(@)]
            /\ ck' = [ck EXCEPT !.pc = "flag"]
       ELSE /\ ck' = [ck EXCEPT !.pc = "loop", !.i = @ + 1]
            /\ UNCHANGED info
    /\ UNCHANGED <<chunk, old, oldAvail, last, dskGen, memsizep, meta, refcnt,
                   working, bloomCfg, schemaLock, conn, csr, op, mg, calls>>

CkptFlag ==
    /\ ck.pc = "flag" /\ Unlocked
    /\ info' = [info EXCEPT ![ck.arr[ck.i]].ondisk = TRUE]
    /\ dskGen' = dskGen + 1
    /\ ck' = [ck EXCEPT !.pc = "loop", !.i = @ + 1]
    /\ UNCHANGED <<chunk, old, oldAvail, last, memsizep, meta, refcnt, working,
                   bloomCfg, schemaLock, conn, csr, op, mg, calls>>

(* The merge thread ********************************************************)

\* __wt_lsm_worker goes on to __lsm_free_chunks if there are old chunks; only this
\* thread changes them while it runs.
MergeOver(ol, avail) ==
    IF Len(ol) = avail \/ \A i \in DOMAIN ol : ol[i] = NULL THEN NoMerge ELSE [pc |-> "free"]

\* __wt_lsm_worker, and the unlocked read of nchunks in __wt_lsm_merge.
MergeRead ==
    /\ mg.pc = "top"
    /\ mg' = CASE ~working -> [pc |-> "exit"]
               [] working /\ Len(chunk) <= 1 -> MergeOver(old, oldAvail)
               [] OTHER -> [pc |-> "pick", n |-> Len(chunk)]
    /\ UNCHANGED <<tree, refcnt, working, bloomCfg, schemaLock, conn, csr, op, ck,
                   calls>>

\* The loop of __wt_lsm_merge that looks for a merge: from the newest chunk on
\* disk (index end, from 0) towards older ones.  nchunks counts the chunks of
\* the previous round.
Count(i) == info[chunk[i + 1]].count

RECURSIVE PickLoop(_, _, _, _, _)
PickLoop(start, end, nch, records, stalls) ==
    IF start = 0 THEN [start |-> start, end |-> end, nch |-> nch, records |-> records]
    ELSE LET n == end - start + 1
             c == Count(start - 1)
         IN  IF \/ n > 2 /\ c > (2 * records) \div n
                \/ n > 0 /\ stalls < 10 /\ c > 2 * Count(end)
             THEN [start |-> start, end |-> end, nch |-> n, records |-> records]
             ELSE IF n = MergeMax
             THEN PickLoop(start - 1, end - 1, n, records + c - Count(end), stalls)
             ELSE PickLoop(start - 1, end, n, records + c, stalls)

Pick(n, stalls) ==
    LET stable == {i \in 1 .. n - 1 : info[chunk[i + 1]].ondisk}
        end == IF stable = {} THEN 0 ELSE CHOOSE i \in stable : \A j \in stable : j <= i
    IN  PickLoop(end + 1, end, n, 0, stalls)

MergePick(stalls) ==
    /\ mg.pc = "pick"
    /\ LET p == Pick(mg.n, stalls) IN
       IF p.nch <= 1 \/ (stalls < 2 /\ p.nch < MergeMax \div 2)
       THEN mg' = MergeOver(old, oldAvail) /\ UNCHANGED last
       ELSE /\ last < calls.ids
            /\ last' = last + 1
            /\ mg' = [pc |-> "open", start |-> p.start, nch |-> p.nch,
                      dest |-> last + 1,
                      bloom |-> /\ bloomCfg.merged
                                /\ bloomCfg.oldest \/ p.start > 0
                                /\ p.records > 0,
                      generation |->
                         LET gs == {info[chunk[i + 1]].generation :
                                      i \in p.start .. p.end - 1}
                         IN  IF gs = {} THEN 0
                             ELSE CHOOSE g \in gs : \A h \in gs : h <= g]
    /\ UNCHANGED <<chunk, old, oldAvail, dskGen, memsizep, info, meta, refcnt, working,
                   bloomCfg, schemaLock, conn, csr, op, ck, calls>>

\* __wt_open_cursor and __wt_clsm_init_merge: the cursors on the chunks of the
\* merge, found by their place in the array.
MergeSource(i) == chunk[mg.start + i]

MergeOpen ==
    /\ mg.pc = "open" /\ schemaLock = NULL
    /\ LET cs == [i \in 1 .. mg.nch |-> ChunkCursor(MergeSource(i))]
           primary == cs[mg.nch].id
       IN  /\ mg' = [pc |-> "setup", src |-> cs, minor |-> mg.start # 0] @@ mg
           /\ info' = [info EXCEPT ![primary].ncursor = @ + 1]
           /\ memsizep' = IF memsizep = NULL /\ cs[mg.nch].live THEN primary ELSE memsizep
    /\ refcnt' = refcnt + 1
    /\ UNCHANGED <<chunk, old, oldAvail, last, dskGen, meta, working, bloomCfg,
                   schemaLock, conn, csr, op, ck, calls>>

MergeSetup ==
    /\ mg.pc = "setup" /\ schemaLock = NULL
    /\ info' = SetupChunk(info, mg.dest, mg.bloom)
    /\ mg' = [mg EXCEPT !.pc = "copy"]
    /\ UNCHANGED <<chunk, old, oldAvail, last, dskGen, memsizep, meta, refcnt, working,
                   bloomCfg, schemaLock, conn, csr, op, ck, calls>>

\* A merge that fails before it copies a row closes its cursors; the chunk's
\* identifier is used up, and its file stays if it was created.
MergeFail ==
    /\ mg.pc \in {"open", "setup", "copy"} /\ calls.fail > 0
    /\ calls' = [calls EXCEPT !.fail = @ - 1]
    /\ mg' = MergeOver(old, oldAvail)
    /\ IF mg.pc = "open" THEN UNCHANGED <<info, refcnt>>
       ELSE /\ info' = [info EXCEPT ![Last(mg.src).id].ncursor = @ - 1]
            /\ refcnt' = refcnt - 1
    /\ UNCHANGED <<chunk, old, oldAvail, last, dskGen, memsizep, meta, working, bloomCfg,
                   schemaLock, conn, csr, op, ck>>

\* What the merge cursor returns: tombstones are kept by a minor merge only.
MergedMajor(src, minor) ==
    LET contents == [i \in DOMAIN src |-> [k \in Keys |-> CursorRec(src[i], k)]]
    IN  [k \in Keys |-> Live(Newest(contents, k))]

Merged(src, minor) ==
    LET contents == [i \in DOMAIN src |-> [k \in Keys |-> CursorRec(src[i], k)]]
    IN  [k \in Keys |-> IF minor THEN Newest(contents, k) ELSE Live(Newest(contents, k))]

\* The copy, and the closing of both cursors; it is given up, with some of the
\* rows written, when the tree is being closed.
MergeCopy(rows) ==
    /\ mg.pc = "copy"
    /\ LET all == {k \in Keys : Merged(mg.src, mg.minor)[k] # NoRec}
           data == [k \in Keys |-> IF k \in rows THEN Merged(mg.src, mg.minor)[k] ELSE NoRec]
           closed == [info EXCEPT ![Last(mg.src).id].ncursor = @ - 1]
           file == [NoChunk EXCEPT !.file = TRUE, !.data = data]
       IN  \/ /\ rows = all
              /\ info' = [closed EXCEPT ![mg.dest] =
                            [Checkpointed(file) EXCEPT !.bloomUri = mg.bloom,
                               !.bloomFile = IF mg.bloom THEN BloomKeys(data) ELSE @]]
              /\ mg' = [mg EXCEPT !.pc = "install"]
           \/ /\ ~working /\ rows # {} /\ rows \subseteq all /\ rows # all
              /\ info' = [closed EXCEPT ![mg.dest] = Checkpointed(file)]
              /\ mg' = MergeOver(old, oldAvail)
    /\ refcnt' = refcnt - 1
    /\ UNCHANGED <<chunk, old, oldAvail, last, dskGen, memsizep, meta, working, bloomCfg,
                   schemaLock, conn, csr, op, ck, calls>>

\* The new chunk is installed under the LSM lock.
MergeInstall ==
    /\ mg.pc = "install"
    /\ LET o == OldAfter(mg.start, mg.nch) IN
       old' = o.seq /\ oldAvail' = o.avail
    /\ chunk' = ChunksAfter(mg.start, mg.nch, mg.dest)
    /\ info' = [info EXCEPT ![mg.dest].bloom = mg.bloom,
                  ![mg.dest].count = Cardinality({k \in Keys : info[mg.dest].data[k] # NoRec}),
                  ![mg.dest].generation = mg.generation + 1,
                  ![mg.dest].ondisk = TRUE]
    /\ dskGen' = dskGen + 1
    /\ MetaWrite(chunk', old', last, info')
    /\ mg' = MergeOver(old', oldAvail')
    /\ UNCHANGED <<last, memsizep, refcnt, working, bloomCfg, schemaLock, conn, csr, op,
                   ck, calls>>

\* __lsm_free_chunks: a slot of old_chunks at a time, with the LSM lock, until the
\* last or until a drop fails with another error than EBUSY; then the metadata is
\* written and the lock released.
SlotsAfter(i) == {j \in DOMAIN old : j > i /\ old[j] # NULL}
AtSlot(i) == [pc |-> IF info[old[i]].bloom THEN "bloom" ELSE "file", i |-> i]
FreeDone == mg' = NoMerge /\ MetaWrite(chunk, old', last, info')

FreeChunks ==
    /\ mg.pc = "free"
    /\ mg' = AtSlot(Min(SlotsAfter(0)))
    /\ UNCHANGED <<tree, refcnt, working, bloomCfg, schemaLock, conn, csr, op, ck, calls>>

\* The Bloom filter's file is dropped first, unless a cursor has it open; it is an
\* error that it does not exist.
FreeBloom ==
    /\ mg.pc = "bloom" /\ schemaLock = NULL
    /\ LET id == old[mg.i] IN
       IF BadBloom(id)
       THEN UNCHANGED <<old, info>> /\ FreeDone
       ELSE /\ info' = IF BloomInUse(id) THEN info
                       ELSE [info EXCEPT ![id].bloom = FALSE, ![id].bloomUri = FALSE,
                                         ![id].bloomFile = NULL]
            /\ mg' = [mg EXCEPT !.pc = "file"]
            /\ UNCHANGED <<old, meta>>
    /\ UNCHANGED <<chunk, oldAvail, last, dskGen, memsizep, refcnt, working, bloomCfg,
                   schemaLock, conn, csr, op, ck, calls>>

\* Then the chunk's own file, which the cursors that were open on it at the first
\* drop may have left since; the slot is free when both are gone.
FreeFile ==
    /\ mg.pc = "file" /\ schemaLock = NULL
    /\ LET id == old[mg.i]
           bad == info[id].uri = "(null)"
           dropped == info[id].uri = "own" /\ ~InUse(id)
           gone == ~info[id].bloom /\ (dropped \/ info[id].uri = "none")
           more == SlotsAfter(mg.i)
       IN  /\ old' = IF gone THEN [old EXCEPT ![mg.i] = NULL] ELSE old
           /\ oldAvail' = IF gone THEN oldAvail + 1 ELSE oldAvail
           /\ info' = [info EXCEPT ![id] =
                         IF gone THEN [NoChunk EXCEPT !.freed = TRUE, !.count = info[id].count]
                         ELSE IF dropped
                         THEN [@ EXCEPT !.uri = "none", !.file = FALSE, !.data = Empty,
                                        !.ckpt = NULL]
                         ELSE @]
           /\ IF bad \/ more = {} THEN FreeDone
              ELSE mg' = AtSlot(Min(more)) /\ UNCHANGED meta
    /\ UNCHANGED <<chunk, last, dskGen, memsizep, refcnt, working, bloomCfg, schemaLock,
                   conn, csr, op, ck, calls>>

(* The tree as a whole *****************************************************)

Started == /\ working' = TRUE /\ ck' = CkptTop /\ mg' = NoMerge

\* __wt_lsm_tree_create: no tree of this name; __lsm_tree_open finds no chunks
\* and switches to the first.
Create(s) ==
    /\ conn = "open" /\ schemaLock = NULL /\ op[s] = Idle /\ meta = NULL
    /\ chunk' = <<1>> /\ old' = << >> /\ oldAvail' = 0 /\ last' = 1
    /\ dskGen' = 1 /\ memsizep' = NULL
    /\ info' = SetupChunk(info, 1, bloomCfg.newest)
    /\ MetaWrite(chunk', old', last', info')
    /\ refcnt' = 0
    /\ Started
    /\ UNCHANGED <<bloomCfg, schemaLock, conn, csr, op, calls>>

\* __wt_lsm_tree_truncate and __wt_lsm_tree_drop begin alike: with the schema
\* lock held and nobody using the tree, they stop the threads and wait for them.
BeginExclusive(s, kind) ==
    /\ conn = "open" /\ schemaLock = NULL /\ op[s] = Idle /\ meta # NULL
    /\ refcnt = 0 /\ calls.clear > 0
    /\ calls' = [calls EXCEPT !.clear = @ - 1]
    /\ schemaLock' = s /\ refcnt' = 1 /\ working' = FALSE
    /\ op' = [op EXCEPT ![s] = [pc |-> kind]]
    /\ UNCHANGED <<tree, bloomCfg, conn, csr, ck, mg>>

Joined == ck.pc = "exit" /\ mg.pc = "exit"

\* __wt_lsm_tree_truncate: every chunk becomes old, a new one takes their place.
Truncate(s) ==
    /\ op[s].pc = "truncate" /\ Joined /\ last < calls.ids
    /\ LET o == OldAfter(0, Len(chunk)) IN old' = o.seq /\ oldAvail' = o.avail
    /\ last' = last + 1
    /\ chunk' = <<last + 1>>
    /\ info' = SetupChunk(info, last + 1, FALSE)
    /\ dskGen' = dskGen + 1
    /\ MetaWrite(chunk', old', last', info')
    /\ Started
    /\ refcnt' = 0 /\ schemaLock' = NULL
    /\ op' = [op EXCEPT ![s] = Idle]
    /\ UNCHANGED <<memsizep, bloomCfg, conn, csr, calls>>

\* __wt_lsm_tree_drop: every chunk and old chunk, with its Bloom filter; it
\* fails, and leaves the handle discarded, at a filter that does not exist or at an
\* old chunk without a file name.
Drop(s) ==
    /\ op[s].pc = "drop" /\ Joined
    /\ LET ids == ToSet(chunk) \cup (ToSet(old) \ {NULL}) IN
       IF \E id \in ids : BadBloom(id) \/ info[id].uri # "own"
       THEN conn' = "failed" /\ UNCHANGED tree
       ELSE /\ info' = [id \in Ids |-> IF id \in ids THEN NoChunk ELSE info[id]]
            /\ chunk' = << >> /\ old' = << >> /\ oldAvail' = 0
            /\ meta' = NULL /\ memsizep' = NULL
            /\ UNCHANGED <<last, dskGen, conn>>
    /\ refcnt' = 0 /\ schemaLock' = NULL
    /\ op' = [op EXCEPT ![s] = Idle]
    /\ UNCHANGED <<working, bloomCfg, csr, ck, mg, calls>>

\* __conn_close: the sessions are closed with their cursors, __lsm_tree_close
\* stops the threads and waits for them (without the schema lock) ...
ConnClose ==
    /\ conn = "open" /\ schemaLock = NULL /\ calls.close > 0
    /\ \A s \in Sessions : op[s] = Idle
    /\ conn' = "closing" /\ working' = FALSE
    /\ calls' = [calls EXCEPT !.close = @ - 1]
    /\ info' = [id \in Ids |-> [info[id] EXCEPT
                  !.ncursor = @ - Cardinality({s \in Sessions : csr[s].primary = id})]]
    /\ refcnt' = refcnt - Cardinality({s \in Sessions : csr[s].open})
    /\ csr' = [s \in Sessions |-> NoCursor]
    /\ UNCHANGED <<chunk, old, oldAvail, last, dskGen, memsizep, meta, bloomCfg,
                   schemaLock, op, ck, mg>>

\* ... and __wt_conn_btree_discard writes every file that is still open.
ConnClosed ==
    /\ conn = "closing"
    /\ meta # NULL => Joined
    /\ conn' = "closed"
    /\ info' = [id \in Ids |-> IF info[id].file THEN Checkpointed(info[id]) ELSE info[id]]
    /\ UNCHANGED <<chunk, old, oldAvail, last, dskGen, memsizep, meta, refcnt, working,
                   bloomCfg, schemaLock, csr, op, ck, mg, calls>>

\* __lsm_tree_open after a restart.
Reopen ==
    /\ conn = "closed" /\ meta # NULL
    /\ conn' = "open"
    /\ chunk' = [i \in DOMAIN meta.chunks |-> meta.chunks[i].id]
    /\ old' = MetaReadOld /\ oldAvail' = MetaReadOldAvail
    /\ last' = meta.last /\ dskGen' = 1 /\ memsizep' = NULL
    /\ info' = MetaReadInfo(info)
    /\ refcnt' = 0
    /\ Started
    /\ UNCHANGED <<meta, bloomCfg, schemaLock, csr, op, calls>>

\* What an earlier use of the database left: no tree, or one whose chunks have no
\* Bloom filters.  The count of the last chunk was not known when it was entered.
Held(start, i) == IF i = Len(start) THEN 0 ELSE Cardinality(BloomKeys(start[i]))
LeftMeta(start) ==
    IF start = << >> THEN NULL
    ELSE [last |-> Len(start), old |-> << >>,
          chunks |-> [i \in DOMAIN start |->
             [id |-> i, bloomUri |-> FALSE, count |-> Held(start, i), generation |-> 0]]]

Init ==
    /\ old = << >> /\ oldAvail = 0 /\ last = 0 /\ dskGen = 0
    /\ memsizep = NULL /\ refcnt = 0 /\ working = FALSE
    /\ \E x \in Setups :
          /\ bloomCfg = x.bloom /\ chunkSize = x.size /\ calls = x.calls
          /\ conn = IF x.start = << >> THEN "open" ELSE "closed"
          /\ chunk = [i \in DOMAIN x.start |-> i] /\ meta = LeftMeta(x.start)
          /\ info = [id \in Ids |->
                       IF id \in DOMAIN x.start
                       THEN Checkpointed([NoChunk EXCEPT !.file = TRUE, !.data = x.start[id]])
                       ELSE NoChunk]
    /\ schemaLock = NULL
    /\ csr = [s \in Sessions |-> NoCursor]
    /\ op = [s \in Sessions |-> Idle]
    /\ ck = [pc |-> "exit"] /\ mg = [pc |-> "exit"]
    /\ seen = [s \in Sessions |-> {}]

SessionStep(s) ==
    \/ CursorOpen(s) /\ meta # NULL
    \/ CursorClose(s)
    \/ \E r \in calls.rows : BeginPut(s, r[1], r[2])
    \/ \E k \in Keys : BeginSearch(s, k)
    \/ Enter(s) \/ OpenCursors(s) \/ PutFirst(s) \/ PutInsert(s)
    \/ \E full \in BOOLEAN : PutFull(s, full)
    \/ SearchStep(s) \/ SearchEnd(s)
    \/ Create(s)
    \/ \E kind \in {"truncate", "drop"} : BeginExclusive(s, kind)
    \/ Truncate(s) \/ Drop(s)

CkptThread == CkptCopy \/ CkptNext \/ (\E ok \in BOOLEAN : CkptWrite(ok)) \/ CkptFlag

MergeThread ==
    \/ MergeRead \/ (\E stalls \in {0, 2, 10} : MergePick(stalls)) \/ MergeOpen
    \/ MergeSetup \/ MergeFail \/ (\E rows \in SUBSET Keys : MergeCopy(rows)) \/ MergeInstall
    \/ FreeChunks \/ FreeBloom \/ FreeFile

Step == (\E s \in calls.sessions : SessionStep(s)) \/ CkptThread \/ MergeThread
        \/ ConnClose \/ ConnClosed \/ Reopen

\* What a search may return: what the view showed since it was called.
Searching(o) == o.pc # "idle" /\ "kind" \in DOMAIN o /\ o.kind = "search"
Seen == seen' = [s \in Sessions |->
           IF ~Searching(op'[s]) THEN {}
           ELSE (IF Searching(op[s]) THEN seen[s] ELSE {View[op'[s].k]})
                \cup {View'[op'[s].k]}]

Next == ck.pc # "astray" /\ Step /\ Seen /\ UNCHANGED chunkSize

Spec == Init /\ [][Next]_vars

(* Properties **************************************************************)

TypeOK ==
    /\ chunk \in Seq(Ids) /\ \A i \in DOMAIN old : old[i] \in Ids \cup {NULL}
    /\ last \in 0 .. MaxId /\ refcnt \in Nat /\ dskGen \in Nat /\ oldAvail \in Int
    /\ memsizep \in Ids \cup {NULL} /\ schemaLock \in Sessions \cup {NULL}
    /\ \A id \in Ids : info[id].data \in [Keys -> Recs] /\ info[id].ncursor \in Nat

\* The tree is a map: switches, checkpoints, merges, dropped chunks, and closing
\* and opening the connection change nothing a reader sees, each update takes
\* effect once, and an update into a chunk that is no longer the newest is hidden
\* only by one that ran at the same time (__clsm_put, __wt_lsm_merge).
Pend == [s \in Sessions |->
           IF op[s].pc # "idle" /\ "kind" \in DOMAIN op[s] /\ op[s].kind = "put"
           THEN [k |-> op[s].k, v |-> op[s].v, done |-> op[s].pc = "full",
                 raced |-> op[s].raced]
           ELSE NULL]
Map == INSTANCE LsmMap WITH kv <- View, pend <- Pend
IsMap == Map!Spec

\* A search through chunk cursors opened earlier returns what the tree held for
\* the key at some moment of the call, whatever is written, merged and dropped
\* meanwhile and whichever chunks their Bloom filters pass over (__clsm_search).
SearchIsCurrent ==
    \A s \in Sessions : op[s].pc = "found" => op[s].i \in seen[s]

\* The Bloom filter of a chunk knows every key of the chunk, so that skipping
\* the chunk in __clsm_search loses nothing.
BloomComplete ==
    \A i \in DOMAIN chunk :
        LET c == info[chunk[i]] IN
        c.bloom /\ c.bloomFile # NULL =>
            \A k \in Keys : Contents(c)[k] # NoRec => k \in c.bloomFile

\* Once a chunk is marked on disk nothing is written to it any more: what is in
\* memory is what the checkpoint has, so no update is lost when cursors move to
\* the checkpoint (ncursor in __clsm_open_cursors and the checkpoint thread).
OnDiskIsComplete ==
    BloomComplete /\ \A id \in Ids : info[id].ondisk /\ info[id].ckpt # NULL
                      => info[id].data = info[id].ckpt

\* The checkpoint thread works on a copy of the array: the chunk it is at has
\* not been freed by the merge thread (__wt_lsm_copy_chunks, __lsm_free_chunks).
CkptChunkNotFreed ==
    ck.pc \in {"loop", "write", "flag"} =>
        \A i \in ck.i .. Len(ck.arr) : ~info[ck.arr[i]].freed
=============================================================================

-------------------------------- MODULE Qed --------------------------------
(***************************************************************************)
(* The QED image format driver (block/qed.c, qed-table.c, qed-cluster.c,   *)
(* qed-l2-cache.c): asynchronous reads and writes of a virtual disk kept   *)
(* in an image file behind a two-level table.  Requests are chains of      *)
(* callbacks run by one event loop; a chain runs without interruption up   *)
(* to the point where it starts an I/O, and any number of requests may     *)
(* have an I/O in flight.  Writes to unallocated clusters are serialised   *)
(* by a queue, which the timer that clears the "image needs a check" flag  *)
(* plugs while it works.                                                   *)
(*                                                                         *)
(* An action is one function of the driver.  `run' is the call in          *)
(* progress: every call these functions make to each other is the last     *)
(* thing they do, so one call is the whole stack.  Positions on the        *)
(* virtual disk and offsets in the image file are counted in sectors.      *)
(***************************************************************************)
EXTENDS Naturals, Sequences, FiniteSets, FiniteSetsExt

CONSTANTS
    Reqs,            \* guest requests, each issued at most once
    Timer,           \* the need-check timer's own chain of I/O
    Extents,         \* the <<first, last + 1>> sectors a request may name
    Backings,        \* whether the image may have a backing file
    CacheSize,       \* MAX_L2_CACHE_SIZE
    TableNElems,     \* entries of an L1 or L2 table
    TableSize,       \* clusters of a table
    ClusterSectors,  \* sectors of a cluster
    FileSectors,     \* bound on the length of the image file
    FailOps,         \* the I/Os that may fail
    FreedReads       \* outcomes of reading an entry after its free():
                     \* TRUE, the old content; FALSE, something else

ASSUME QedAssumption ==
    /\ Timer \notin Reqs
    /\ IsFiniteSet(Reqs)
    /\ Backings \subseteq BOOLEAN
    /\ CacheSize \in Nat \ {0}
    /\ TableNElems \in Nat \ {0, 1}
    /\ TableSize \in Nat \ {0, 1}
    /\ ClusterSectors \in Nat \ {0, 1}
    \* the image of Init fits the bound
    /\ FileSectors \in Nat
    /\ (3 * TableSize + 2) * ClusterSectors <= FileSectors
    \* bdrv_check_request keeps requests inside the disk, which the tables cover
    /\ Extents \subseteq Nat \X Nat
    /\ \A e \in Extents : e[2] <= TableNElems * TableNElems * ClusterSectors
    /\ FreedReads \subseteq BOOLEAN /\ TRUE \in FreedReads

VARIABLES
    backing,     \* s->bs->backing_hd is set
    need_check,  \* QED_F_NEED_CHECK in s->header.features
    disk_check,  \* the same flag in the image file
    file_size,   \* s->file_size
    l1,          \* s->l1_table
    disk_l1,     \* the L1 table in the image file
    disk_l2,     \* the L2 tables in the image file, by offset
    data,        \* the data in the image file, by sector
    ent,         \* CachedL2Table objects
    cache,       \* s->l2_cache.entries, oldest first
    acb,         \* the QEDAIOCB of each request
    queue,       \* s->allocating_write_reqs
    plugged,     \* s->allocating_write_reqs_plugged
    timer,       \* s->need_check_timer is pending
    io,          \* the I/O each chain waits for
    run,         \* the call in progress
    abort        \* the assertion that failed, or "none"

fileVars  == <<backing, disk_check, disk_l1, disk_l2, data>>
cacheVars == <<ent, cache>>
allocVars == <<queue, plugged, timer, need_check>>
vars == <<fileVars, cacheVars, allocVars, file_size, l1, acb, io, run, abort>>

-----------------------------------------------------------------------------
(* Layout: the header cluster, the L1 table, two L2 tables, one data        *)
(* cluster.  Cluster 0 of the disk is allocated, cluster 1 is a zero        *)
(* cluster, the rest of the first two tables is unallocated.                *)

Unalloc == 0
ZeroCluster == 1
TableSectors == TableSize * ClusterSectors
L1Offset == ClusterSectors
L2Offset(i) == L1Offset + (i + 1) * TableSectors
DataOffset == L2Offset(2)

Index == 0 .. TableNElems - 1
Offsets == {k * ClusterSectors : k \in 0 .. FileSectors \div ClusterSectors}
NoTable == [j \in Index |-> Unalloc]

\* Sector contents: the request that wrote it, or "disk" for what the data
\* cluster held, "backing" for the backing file's, "zero", or "hole" for a
\* part of the file nothing was written to.
Base == IF backing THEN "backing" ELSE "zero"

Into(p) == p % ClusterSectors                        \* qed_offset_into_cluster
RoundUp(n) == n + ClusterSectors - 1 - Into(n + ClusterSectors - 1)
\* qed_bytes_to_clusters, in bytes: the division is by cluster_size - 1.
Clusters(n) == (RoundUp(n) * 512) \div (ClusterSectors * 512 - 1)
\* The sectors of all clusters that requests touch.
Sectors ==
    UNION {e[1] - Into(e[1]) .. RoundUp(e[2]) - 1 : e \in Extents}
L1Index(p) == p \div (ClusterSectors * TableNElems)  \* qed_l1_index
L2Index(p) == (p \div ClusterSectors) % TableNElems  \* qed_l2_index

qed_check_cluster_offset(o) ==
    o % ClusterSectors = 0 /\ o >= ClusterSectors /\ o < file_size

qed_check_table_offset(o) ==
    LET end == o + TableSectors - ClusterSectors
    IN  /\ end > o
        /\ qed_check_cluster_offset(o)
        /\ qed_check_cluster_offset(end)

-----------------------------------------------------------------------------
(* The L2 cache.  An entry with no reference is a freed one.                *)

Entries == 1 .. Cardinality(Reqs) + CacheSize + 1
NoEntry == 0
Freed == [offset |-> 0, table |-> NoTable, ref |-> 0]
Cached == {cache[i] : i \in 1 .. Len(cache)}

qed_unref_l2_cache_entry(es, e) ==
    CASE e = NoEntry    -> es
      [] es[e].ref = 1  -> [es EXCEPT ![e] = Freed]
      [] OTHER          -> [es EXCEPT ![e].ref = @ - 1]

qed_find_l2_cache_entry(es, c, offset) ==
    LET hits == {i \in 1 .. Len(c) : es[c[i]].offset = offset}
    IN  IF hits = {} THEN NoEntry ELSE c[Min(hits)]

\* A fresh object with one reference, held by the caller.
Alloc(es) == CHOOSE e \in Entries : es[e].ref = 0

\* Mutant: the duplicate entry is not freed.
CommitLeaks(es, e) ==
    IF qed_find_l2_cache_entry(es, cache, es[e].offset) # NoEntry
    THEN [ent |-> es, cache |-> cache, kept |-> FALSE]
    ELSE [ent |-> es, cache |-> Append(cache, e), kept |-> TRUE]

\* The entries and the cache after the caller's reference to e is handed to
\* the cache; `kept' is false if the cache already had e's table, and e was
\* freed instead.
qed_commit_l2_cache_entry(es, e) ==
    LET old == qed_find_l2_cache_entry(es, cache, es[e].offset)
    IN  IF old # NoEntry
        THEN [ent |-> qed_unref_l2_cache_entry(es, e), cache |-> cache,
              kept |-> es[e].ref > 1]
        ELSE IF Len(cache) >= CacheSize
        THEN [ent |-> qed_unref_l2_cache_entry(es, Head(cache)),
              cache |-> Append(Tail(cache), e), kept |-> TRUE]
        ELSE [ent |-> es, cache |-> Append(cache, e), kept |-> TRUE]

-----------------------------------------------------------------------------
(* Calls and I/O.                                                           *)

Idle == [fn |-> "none", r |-> Timer, ret |-> "0", off |-> 0, len |-> 0]
NoIo == [op |-> "none", st |-> "none", off |-> 0]

\* The function the completion of a's I/O calls.
Callback(a) ==
    CASE io[a].op = "l2_read"   -> "read_l2_table_cb"
      [] io[a].op = "header"    -> "prefill"
      [] io[a].op = "prefill"   -> "postfill"
      [] io[a].op = "postfill"  -> "main"
      [] io[a].op = "main"      -> (IF acb[a].found = "FOUND" THEN "next_io"
                                    ELSE IF backing THEN "flush_before"
                                    ELSE "l2_update")
      [] io[a].op = "flush"     -> "l2_update"
      [] io[a].op = "l2_new"    -> "write_table_cb"
      [] io[a].op = "l2_flush"  -> "l1_update"
      [] io[a].op = "l1_write"  -> "commit"
      [] io[a].op = "t_flush"   -> "clear"
      [] io[a].op = "t_header"  -> "cleared"
      [] OTHER                  -> "next_io"

\* fn(a) is called: by the function before it, or because the event loop
\* finds a's I/O complete.
Called(fn, a) ==
    /\ abort = "none"
    /\ \/ run.fn = fn /\ run.r = a
       \/ run = Idle /\ io[a].st \in {"0", "EIO"} /\ Callback(a) = fn

Ret(a) == IF run = Idle THEN io[a].st ELSE run.ret

\* The last thing fn(a) does: call another function, start an I/O, return.
CallWith(a, fn, b, ret, off, len) ==
    /\ run' = [fn |-> fn, r |-> b, ret |-> ret, off |-> off, len |-> len]
    /\ io' = [io EXCEPT ![a] = NoIo]
Call(a, fn, b, ret) == CallWith(a, fn, b, ret, 0, 0)
StartIo(a, op, off) ==
    /\ run' = Idle
    /\ io' = [io EXCEPT ![a] = [op |-> op, st |-> "busy", off |-> off]]
Return(a) ==
    /\ run' = Idle
    /\ io' = [io EXCEPT ![a] = NoIo]

Unused ==
    [st |-> "unused", write |-> FALSE, start |-> 0, pos |-> 0, end |-> 0,
     len |-> 0, cluster |-> 0, n |-> 0, found |-> "none", l2 |-> NoEntry,
     ret |-> "0", before |-> {},
     got |-> [p \in Sectors |-> "none"]]

Init ==
    /\ backing \in Backings
    /\ need_check = FALSE /\ disk_check = FALSE
    /\ file_size = DataOffset + ClusterSectors
    /\ l1 = [i \in Index |-> IF i < 2 THEN L2Offset(i) ELSE Unalloc]
    /\ disk_l1 = l1
    /\ disk_l2 = [o \in Offsets |->
                    IF o = L2Offset(0)
                    THEN [NoTable EXCEPT ![0] = DataOffset, ![1] = ZeroCluster]
                    ELSE NoTable]
    /\ data = [s \in 0 .. FileSectors - 1 |->
                 IF s \in DataOffset .. DataOffset + ClusterSectors - 1
                 THEN "disk" ELSE "hole"]
    /\ ent = [e \in Entries |-> Freed] /\ cache = <<>>
    /\ acb = [r \in Reqs |-> Unused]
    /\ queue = <<>> /\ plugged = FALSE /\ timer = FALSE
    /\ io = [a \in Reqs \cup {Timer} |-> NoIo]
    /\ run = Idle
    /\ abort = "none"

-----------------------------------------------------------------------------
(* Requests.                                                                *)

qed_aio_setup(r) ==
    /\ abort = "none" /\ run = Idle
    /\ acb[r].st = "unused"
    /\ \E w \in BOOLEAN, e \in Extents :
         acb' = [acb EXCEPT ![r] =
                   [Unused EXCEPT !.st = "busy", !.write = w, !.start = e[1],
                       !.pos = e[1], !.end = e[2],
                       !.before = {v \in Reqs : acb[v].st = "done"}]]
    /\ Call(r, "next_io", r, "0")
    /\ UNCHANGED <<fileVars, cacheVars, allocVars, file_size, l1, abort>>

qed_aio_next_io(r) ==
    /\ Called("next_io", r)
    /\ \/ /\ Ret(r) # "0"
          /\ Call(r, "complete", r, Ret(r))
          /\ UNCHANGED acb
       \/ /\ Ret(r) = "0"
          /\ LET pos == acb[r].pos + acb[r].len
             IN  /\ acb' = [acb EXCEPT ![r].pos = pos, ![r].len = 0]
                 /\ \/ /\ pos >= acb[r].end
                       /\ Call(r, "complete", r, "0")
                    \/ /\ pos < acb[r].end
                       /\ Call(r, "find_cluster", r, "0")
    /\ UNCHANGED <<fileVars, cacheVars, allocVars, file_size, l1, abort>>

\* The part of the request that one L2 table covers.
Limit(r) ==
    LET span == ClusterSectors * TableNElems
    IN  Min({acb[r].end, (acb[r].pos \div span + 1) * span}) - acb[r].pos

\* Take the L2 table at off from the cache or start to read it.
qed_read_l2_table(r, off) ==
    LET es  == qed_unref_l2_cache_entry(ent, acb[r].l2)
        hit == qed_find_l2_cache_entry(es, cache, off)
        new == Alloc(es)
    IN  \/ /\ hit # NoEntry
           /\ ent' = [es EXCEPT ![hit].ref = @ + 1]
           /\ acb' = [acb EXCEPT ![r].l2 = hit]
           /\ Call(r, "find_cluster_cb", r, "0")
        \/ /\ hit = NoEntry
           /\ ent' = [es EXCEPT ![new].ref = 1]
           /\ acb' = [acb EXCEPT ![r].l2 = new]
           /\ StartIo(r, "l2_read", off)

qed_find_cluster(r) ==
    /\ Called("find_cluster", r)
    /\ LET off == l1[L1Index(acb[r].pos)]
       IN  \/ /\ off = Unalloc \/ ~ qed_check_table_offset(off)
              /\ IF off = Unalloc
                 THEN CallWith(r, "data", r, "L1", 0, Limit(r))
                 ELSE CallWith(r, "data", r, "EINVAL", 0, 0)
              /\ UNCHANGED <<ent, acb>>
           \/ /\ off # Unalloc /\ qed_check_table_offset(off)
              /\ qed_read_l2_table(r, off)
    /\ UNCHANGED <<fileVars, cache, allocVars, file_size, l1, abort>>

\* r commits its entry e, then looks up e's offset again.  If the commit
\* freed e, the offset read from it is what free() left there, and the
\* assertion that the lookup succeeds may fail.
CommitAndFind(r, es, e, next, ret) ==
    LET c   == qed_commit_l2_cache_entry(es, e)
        hit == qed_find_l2_cache_entry(c.ent, c.cache, es[e].offset)
    IN  \/ /\ ent' = [c.ent EXCEPT ![hit].ref = @ + 1]
           /\ cache' = c.cache
           /\ acb' = [acb EXCEPT ![r].l2 = hit]
           /\ Call(r, next, r, ret)
           /\ UNCHANGED abort
        \/ /\ ~ c.kept /\ FALSE \in FreedReads
           /\ abort' = "commit"
           /\ ent' = c.ent /\ cache' = c.cache
           /\ acb' = [acb EXCEPT ![r].l2 = NoEntry]
           /\ Return(r)

qed_read_l2_table_cb(r) ==
    /\ Called("read_l2_table_cb", r)
    /\ \/ /\ Ret(r) # "0"
          /\ ent' = qed_unref_l2_cache_entry(ent, acb[r].l2)
          /\ acb' = [acb EXCEPT ![r].l2 = NoEntry]
          /\ Call(r, "find_cluster_cb", r, Ret(r))
          /\ UNCHANGED <<cache, abort>>
       \/ /\ Ret(r) = "0"
          /\ CommitAndFind(r, [ent EXCEPT ![acb[r].l2].offset = io[r].off],
                           acb[r].l2, "find_cluster_cb", "0")
    /\ UNCHANGED <<fileVars, allocVars, file_size, l1>>

\* How many of the n entries of t from index on continue the first one.
qed_count_contiguous_clusters(t, index, n) ==
    LET Continues(j) ==
          CASE t[index] \in {Unalloc, ZeroCluster} -> t[j] = t[index]
            [] OTHER -> t[j] = t[j - 1] + ClusterSectors
    IN  Max({k \in 1 .. Min({n, TableNElems - index}) :
               \A j \in index + 1 .. index + k - 1 : Continues(j)})

qed_find_cluster_cb(r) ==
    /\ Called("find_cluster_cb", r)
    /\ \/ /\ Ret(r) # "0"
          /\ CallWith(r, "data", r, Ret(r), 0, 0)
       \/ /\ Ret(r) = "0"
          /\ LET pos   == acb[r].pos
                 t     == ent[acb[r].l2].table
                 off   == t[L2Index(pos)]
                 n     == qed_count_contiguous_clusters(t, L2Index(pos),
                              Clusters(Into(pos) + Limit(r)))
                 found == CASE off = Unalloc -> "L2"
                            [] off = ZeroCluster -> "ZERO"
                            [] qed_check_cluster_offset(off) -> "FOUND"
                            [] OTHER -> "EINVAL"
             IN  CallWith(r, "data", r, found, off,
                          Min({Limit(r), n * ClusterSectors - Into(pos)}))
    /\ UNCHANGED <<fileVars, cacheVars, allocVars, file_size, l1, acb, abort>>

-----------------------------------------------------------------------------
(* Reads.                                                                   *)

\* A read's buffer after the sectors that part has are filled in.
Filled(got, part) ==
    [p \in Sectors |-> IF p \in DOMAIN part THEN part[p] ELSE got[p]]

\* Mutant: a zero cluster is read from the file.
ReadZeroFromFile(r) ==
    /\ Called("data", r) /\ ~ acb[r].write
    /\ acb' = [acb EXCEPT ![r].len = run.len]
    /\ IF run.ret \in {"FOUND", "ZERO"}
       THEN StartIo(r, "data_read", run.off + Into(acb[r].pos))
       ELSE Call(r, "complete", r, "EIO")
    /\ UNCHANGED <<fileVars, cacheVars, allocVars, file_size, l1, abort>>

qed_aio_read_data(r) ==
    /\ Called("data", r) /\ ~ acb[r].write
    /\ \/ /\ run.ret \in {"EIO", "EINVAL"}
          /\ Call(r, "complete", r, run.ret)
          /\ UNCHANGED acb
       \/ /\ run.ret = "ZERO" \/ (run.ret \in {"L1", "L2"} /\ ~ backing)
          /\ acb' = [acb EXCEPT ![r].len = run.len,
                       ![r].got = Filled(@,
                          [p \in acb[r].pos .. acb[r].pos + run.len - 1 |-> "zero"])]
          /\ Call(r, "next_io", r, "0")
       \/ /\ run.ret = "FOUND" \/ (run.ret \in {"L1", "L2"} /\ backing)
          /\ acb' = [acb EXCEPT ![r].len = run.len]
          /\ IF run.ret = "FOUND"
             THEN StartIo(r, "data_read", run.off + Into(acb[r].pos))
             ELSE StartIo(r, "backing_read", acb[r].pos)
    /\ UNCHANGED <<fileVars, cacheVars, allocVars, file_size, l1, abort>>

-----------------------------------------------------------------------------
(* Writes.                                                                  *)

IsHead(r) == queue # <<>> /\ Head(queue) = r

\* Mutant: the timer is not cancelled.
CancelNothing == UNCHANGED timer
qed_cancel_need_check_timer == timer' = FALSE
\* Mutant: the timer is not started.
StartNothing == UNCHANGED timer
qed_start_need_check_timer == timer' = TRUE
qed_should_set_need_check == ~ backing /\ ~ need_check

\* Mutant: only one cluster is counted.
AllocOneCluster(n) ==
    /\ file_size + ClusterSectors <= FileSectors
    /\ file_size' = file_size + ClusterSectors
\* Clusters are only ever taken from the end of the file.
qed_alloc_clusters(n) ==
    /\ file_size + n * ClusterSectors <= FileSectors
    /\ file_size' = file_size + n * ClusterSectors

\* The header's sectors are read, the flag is put in from s->header, and they are
\* written back; one I/O here, since nobody else writes them meanwhile.
qed_write_header(a, op) == StartIo(a, op, 0)

\* Mutant: the plug is ignored.
FrozenBehindHead(q, r) == Head(q) # r
Frozen(q, r) == Head(q) # r \/ plugged

\* Ask for clusters that do not exist yet: wait for the head of the queue, or
\* for the timer's work, to finish; else take them from the end of the file.
qed_aio_write_alloc(r) ==
    LET q == IF IsHead(r) THEN queue ELSE Append(queue, r)
        n == Clusters(Into(acb[r].pos) + run.len)
    IN  /\ queue' = q
        /\ IF queue = <<>> THEN qed_cancel_need_check_timer ELSE UNCHANGED timer
        /\ \/ /\ Frozen(q, r)
              /\ acb' = [acb EXCEPT ![r].found = run.ret]
              /\ Return(r)
              /\ UNCHANGED <<need_check, file_size>>
           \/ /\ ~ Frozen(q, r)
              /\ qed_alloc_clusters(n)
              /\ acb' = [acb EXCEPT ![r].found = run.ret, ![r].len = run.len,
                            ![r].cluster = file_size, ![r].n = n]
              /\ \/ /\ qed_should_set_need_check
                    /\ need_check' = TRUE
                    /\ qed_write_header(r, "header")
                 \/ /\ ~ qed_should_set_need_check
                    /\ Call(r, "prefill", r, "0")
                    /\ UNCHANGED need_check
        /\ UNCHANGED plugged

qed_aio_write_inplace(r) ==
    /\ acb' = [acb EXCEPT ![r].found = run.ret, ![r].len = run.len,
                  ![r].cluster = run.off]
    /\ Call(r, "main", r, "0")

qed_aio_write_data(r) ==
    /\ Called("data", r) /\ acb[r].write
    /\ \/ /\ run.ret = "FOUND"
          /\ qed_aio_write_inplace(r)
          /\ UNCHANGED <<allocVars, file_size>>
       \/ /\ run.ret \in {"L1", "L2", "ZERO"}
          /\ qed_aio_write_alloc(r)
       \/ /\ run.ret \in {"EIO", "EINVAL"}
          /\ acb' = [acb EXCEPT ![r].found = run.ret]
          /\ Call(r, "complete", r, run.ret)
          /\ UNCHANGED <<allocVars, file_size>>
    /\ UNCHANGED <<fileVars, cacheVars, l1, abort>>

\* The functions below that start one I/O, or call the next one at once if
\* there is nothing to transfer.
writeVars == <<fileVars, cacheVars, allocVars, file_size, l1, acb, abort>>

\* The read of the backing file and the write of what it holds are one I/O.
qed_copy_from_backing_file(r, op, len, off, next) ==
    IF len = 0 THEN Call(r, next, r, "0") ELSE StartIo(r, op, off)

\* The result of writing the header is not looked at.
qed_aio_write_prefill(r) ==
    /\ Called("prefill", r)
    /\ qed_copy_from_backing_file(r, "prefill", Into(acb[r].pos),
                                  acb[r].cluster, "postfill")
    /\ UNCHANGED writeVars

\* Where the request's part ends in the file, and the rest of that cluster.
PartEnd(r) == acb[r].cluster + Into(acb[r].pos) + acb[r].len
Tailroom(r) == RoundUp(PartEnd(r)) - PartEnd(r)

\* Mutant: the end of the cluster is not filled.
PostfillSkipped(r) ==
    /\ Called("postfill", r)
    /\ Call(r, IF Ret(r) # "0" THEN "complete" ELSE "main", r, Ret(r))
    /\ UNCHANGED writeVars

qed_aio_write_postfill(r) ==
    /\ Called("postfill", r)
    /\ IF Ret(r) # "0" THEN Call(r, "complete", r, Ret(r))
       ELSE qed_copy_from_backing_file(r, "postfill", Tailroom(r), PartEnd(r), "main")
    /\ UNCHANGED writeVars

qed_aio_write_main(r) ==
    /\ Called("main", r)
    /\ IF Ret(r) # "0" THEN Call(r, "complete", r, Ret(r))
       ELSE StartIo(r, "main", acb[r].cluster + Into(acb[r].pos))
    /\ UNCHANGED writeVars

\* The result of the write before the flush is not looked at.
qed_aio_write_flush_before_l2_update(r) ==
    /\ Called("flush_before", r)
    /\ StartIo(r, "flush", 0)
    /\ UNCHANGED writeVars

qed_update_l2_table(t, index, n, cluster) ==
    [j \in Index |-> IF j \in index .. index + n - 1
                     THEN cluster + (j - index) * ClusterSectors ELSE t[j]]

\* A table of new clusters at the end of the file.
qed_new_l2_table(es, e, t) ==
    [es EXCEPT ![e] = [offset |-> file_size, ref |-> 1, table |-> t]]

\* The code writes a copy of the sectors around the changed entries.  A table of
\* the model fits a sector, and nobody else changes it until the write ends, so
\* the write takes the whole table as it is when the I/O is performed.
qed_write_table(r, op, off) == StartIo(r, op, off)

\* The table in memory changes before it is written out.
qed_aio_write_l2_update(r) ==
    /\ Called("l2_update", r)
    /\ LET Linked(t) == qed_update_l2_table(t, L2Index(acb[r].pos),
                                            acb[r].n, acb[r].cluster)
           es  == qed_unref_l2_cache_entry(ent, acb[r].l2)
           new == Alloc(es)
       IN  \/ /\ Ret(r) # "0"
              /\ Call(r, "complete", r, Ret(r))
              /\ UNCHANGED <<ent, acb, file_size>>
           \/ /\ Ret(r) = "0" /\ acb[r].found = "L1"
              /\ qed_alloc_clusters(TableSize)
              /\ ent' = qed_new_l2_table(es, new, Linked(NoTable))
              /\ acb' = [acb EXCEPT ![r].l2 = new]
              /\ qed_write_table(r, "l2_new", file_size)
           \/ /\ Ret(r) = "0" /\ acb[r].found # "L1"
              /\ ent' = [ent EXCEPT ![acb[r].l2].table = Linked(@)]
              /\ qed_write_table(r, "l2_part", ent[acb[r].l2].offset)
              /\ UNCHANGED <<acb, file_size>>
    /\ UNCHANGED <<fileVars, cache, allocVars, l1, abort>>

qed_write_table_cb(r) ==
    /\ Called("write_table_cb", r)
    /\ IF Ret(r) # "0" THEN Call(r, "l1_update", r, Ret(r))
       ELSE StartIo(r, "l2_flush", 0)
    /\ UNCHANGED writeVars

\* So does the L1 table.
qed_aio_write_l1_update(r) ==
    /\ Called("l1_update", r)
    /\ \/ /\ Ret(r) # "0"
          /\ Call(r, "complete", r, Ret(r))
          /\ UNCHANGED l1
       \/ /\ Ret(r) = "0"
          /\ l1' = [l1 EXCEPT ![L1Index(acb[r].pos)] = ent[acb[r].l2].offset]
          /\ qed_write_table(r, "l1_write", L1Offset)
    /\ UNCHANGED <<fileVars, cacheVars, allocVars, file_size, acb, abort>>

qed_commit_l2_update(r) ==
    /\ Called("commit", r)
    /\ CommitAndFind(r, ent, acb[r].l2, "next_io", Ret(r))
    /\ UNCHANGED <<fileVars, allocVars, file_size, l1>>

-----------------------------------------------------------------------------
(* Completion.                                                              *)

qed_aio_complete(r) ==
    /\ Called("complete", r)
    /\ ent' = qed_unref_l2_cache_entry(ent, acb[r].l2)
    /\ acb' = [acb EXCEPT ![r] = [@ EXCEPT !.st = "bh", !.ret = run.ret,
                  !.l2 = NoEntry, !.pos = 0, !.len = 0, !.cluster = 0,
                  !.n = 0, !.found = "none"]]
    /\ \/ /\ ~ IsHead(r)
          /\ Return(r)
          /\ UNCHANGED <<queue, timer>>
       \/ /\ IsHead(r) /\ Len(queue) > 1
          /\ queue' = Tail(queue)
          /\ Call(r, "next_io", queue[2], "0")
          /\ UNCHANGED timer
       \/ /\ queue = <<r>>
          /\ queue' = <<>>
          /\ IF need_check THEN qed_start_need_check_timer ELSE UNCHANGED timer
          /\ Return(r)
    /\ UNCHANGED <<fileVars, cache, plugged, need_check, file_size, l1, abort>>

\* The bottom half that calls the guest device back.
qed_aio_complete_bh(r) ==
    /\ abort = "none" /\ run = Idle
    /\ acb[r].st = "bh"
    /\ acb' = [acb EXCEPT ![r].st = "done"]
    /\ UNCHANGED <<fileVars, cacheVars, allocVars, file_size, l1, io, run, abort>>

-----------------------------------------------------------------------------
(* The need-check timer: once allocating writes have drained for a while,   *)
(* flush and clear the flag, holding back new allocating writes.            *)

timerVars == <<fileVars, cacheVars, file_size, l1, acb>>

\* Mutant: the queue is not plugged.
TimerNoPlug ==
    /\ abort = "none" /\ run = Idle
    /\ timer
    /\ timer' = FALSE
    /\ StartIo(Timer, "t_flush", 0)
    /\ UNCHANGED <<timerVars, queue, plugged, need_check, abort>>

qed_need_check_timer_cb ==
    /\ abort = "none" /\ run = Idle
    /\ timer
    /\ timer' = FALSE
    /\ abort' = IF queue # <<>> THEN "timer" ELSE IF plugged THEN "plug" ELSE "none"
    /\ plugged' = TRUE
    /\ StartIo(Timer, "t_flush", 0)
    /\ UNCHANGED <<timerVars, queue, need_check>>

qed_clear_need_check ==
    /\ Called("clear", Timer)
    /\ \/ /\ Ret(Timer) # "0"
          /\ Call(Timer, "unplug", Timer, "0")
          /\ UNCHANGED need_check
       \/ /\ Ret(Timer) = "0"
          /\ need_check' = FALSE
          /\ qed_write_header(Timer, "t_header")
    /\ UNCHANGED <<timerVars, queue, plugged, timer, abort>>

\* Nothing waits for the flush this starts, so it is left out.
qed_flush_after_clear_need_check ==
    /\ Called("cleared", Timer)
    /\ Call(Timer, "unplug", Timer, "0")
    /\ UNCHANGED <<timerVars, allocVars, abort>>

\* Mutant: the head of the queue is not restarted.
UnplugNoRestart ==
    /\ Called("unplug", Timer)
    /\ plugged' = FALSE
    /\ Return(Timer)
    /\ UNCHANGED <<timerVars, queue, timer, need_check, abort>>

qed_unplug_allocating_write_reqs ==
    /\ Called("unplug", Timer)
    /\ abort' = IF plugged THEN "none" ELSE "unplug"
    /\ plugged' = FALSE
    /\ IF queue = <<>> THEN Return(Timer) ELSE Call(Timer, "next_io", Head(queue), "0")
    /\ UNCHANGED <<timerVars, queue, timer, need_check>>

-----------------------------------------------------------------------------
(* The host performs an I/O: it transfers the data and then reports         *)
(* success, or it fails, having transferred or not.  The driver hears of it *)
(* in a later step.                                                         *)

Store(off, len, v) ==
    data' = [s \in DOMAIN data |-> IF s \in off .. off + len - 1 THEN v ELSE data[s]]

Transfer(a) ==
    LET op == io[a].op  off == io[a].off
    IN  /\ UNCHANGED backing
        /\ IF op \in {"header", "t_header"} THEN disk_check' = need_check
           ELSE UNCHANGED disk_check
        /\ IF op = "l1_write" THEN disk_l1' = l1 ELSE UNCHANGED disk_l1
        /\ IF op \in {"l2_new", "l2_part"}
           THEN disk_l2' = [disk_l2 EXCEPT ![off] = ent[acb[a].l2].table]
           ELSE UNCHANGED disk_l2
        /\ CASE op = "prefill"  -> Store(off, Into(acb[a].pos), Base)
             [] op = "postfill" -> Store(off, Tailroom(a), Base)
             [] op = "main"     -> Store(off, acb[a].len, a)
             [] OTHER           -> UNCHANGED data
        /\ IF op = "l2_read"
           THEN ent' = [ent EXCEPT ![acb[a].l2].table = disk_l2[off]]
           ELSE UNCHANGED ent
        /\ LET read == acb[a].pos .. acb[a].pos + acb[a].len - 1
           IN  CASE op = "data_read" ->
                      acb' = [acb EXCEPT ![a].got = Filled(@,
                                [p \in read |-> data[off + p - acb[a].pos]])]
                 [] op = "backing_read" ->
                      acb' = [acb EXCEPT ![a].got = Filled(@, [p \in read |-> Base])]
                 [] OTHER -> UNCHANGED acb

Finished(a, ret) ==
    io' = [io EXCEPT ![a] = [op |-> io[a].op, st |-> ret, off |-> io[a].off]]

HostIo(a) ==
    /\ abort = "none" /\ run = Idle
    /\ io[a].st = "busy"
    /\ \/ Transfer(a) /\ Finished(a, "0")
       \/ io[a].op \in FailOps /\ Transfer(a) /\ Finished(a, "EIO")
       \/ /\ io[a].op \in FailOps /\ Finished(a, "EIO")
          /\ UNCHANGED <<fileVars, ent, acb>>
    /\ UNCHANGED <<cache, allocVars, file_size, l1, run, abort>>

Request(r) ==
    \/ qed_aio_next_io(r) \/ qed_find_cluster(r) \/ qed_read_l2_table_cb(r)
    \/ qed_find_cluster_cb(r) \/ qed_aio_read_data(r) \/ qed_aio_write_data(r)
    \/ qed_aio_write_prefill(r) \/ qed_aio_write_postfill(r)
    \/ qed_aio_write_main(r) \/ qed_aio_write_flush_before_l2_update(r)
    \/ qed_aio_write_l2_update(r) \/ qed_write_table_cb(r)
    \/ qed_aio_write_l1_update(r) \/ qed_commit_l2_update(r)
    \/ qed_aio_complete(r) \/ qed_aio_complete_bh(r)

NeedCheck ==
    \/ qed_need_check_timer_cb \/ qed_clear_need_check
    \/ qed_flush_after_clear_need_check \/ qed_unplug_allocating_write_reqs

\* What goes on without the guest.
Driver ==
    \/ \E r \in Reqs : Request(r)
    \/ NeedCheck
    \/ \E a \in Reqs \cup {Timer} : HostIo(a)

Next == Driver \/ \E r \in Reqs : qed_aio_setup(r)

Spec == Init /\ [][Next]_vars

\* The event loop runs, I/Os complete, and the virtual clock advances.
FairSpec == Spec /\ WF_vars(Driver)

-----------------------------------------------------------------------------
(* Properties.                                                              *)

Ops == {"none", "l2_read", "header", "prefill", "postfill", "main", "flush",
        "l2_new", "l2_part", "l2_flush", "l1_write", "data_read",
        "backing_read", "t_flush", "t_header"}
Rets == {"0", "EIO", "EINVAL"}
Found == {"FOUND", "ZERO", "L1", "L2"}
CallNames == {"none", "next_io", "find_cluster", "find_cluster_cb", "data",
              "prefill", "postfill", "main", "l1_update", "complete", "unplug"}
Contents == {"none", "hole", "disk", "backing", "zero"} \cup Reqs
Addresses == 0 .. FileSectors
Tables == [Index -> Addresses]

\* Every variable has its type, and every file offset the driver holds lies in
\* the image file.
TypeOK ==
    /\ backing \in BOOLEAN /\ need_check \in BOOLEAN /\ disk_check \in BOOLEAN
    /\ plugged \in BOOLEAN /\ timer \in BOOLEAN
    /\ file_size \in Addresses
    /\ l1 \in Tables /\ disk_l1 \in Tables
    /\ disk_l2 \in [Offsets -> Tables]
    /\ data \in [0 .. FileSectors - 1 -> Contents]
    /\ ent \in [Entries -> [offset : Offsets, table : Tables, ref : Nat]]
    /\ cache \in Seq(Entries)
    /\ queue \in Seq(Reqs)
    /\ acb \in [Reqs -> [st : {"unused", "busy", "bh", "done"}, write : BOOLEAN,
                         start : Nat, pos : Nat, end : Nat, len : Nat,
                         cluster : Addresses, n : Nat,
                         found : {"none"} \cup Found \cup Rets,
                         l2 : Entries \cup {NoEntry}, ret : Rets,
                         before : SUBSET Reqs, got : [Sectors -> Contents]]]
    /\ io \in [Reqs \cup {Timer} -> [op : Ops, off : Nat,
                                 st : {"none", "busy", "0", "EIO"}]]
    /\ run \in [fn : CallNames, r : Reqs \cup {Timer}, ret : Rets \cup Found,
                off : Addresses, len : Nat]
    /\ abort \in {"none", "timer", "plug", "unplug", "commit"}

\* The assertions of the allocating-write queue hold: the need-check timer
\* only fires when the queue has drained, it never plugs a plugged queue, and
\* nothing unplugs an open one.
QueueAssertions == abort \notin {"timer", "plug", "unplug"}

\* r is past the queue, changing the tables or filling a new cluster.
Allocating(r) ==
    \/ io[r].op \in {"header", "prefill", "postfill", "flush", "l2_new",
                     "l2_part", "l2_flush", "l1_write"}
    \/ (io[r].op = "main" /\ acb[r].found # "FOUND")

Active(r) == io[r] # NoIo \/ (run # Idle /\ run.r = r)

\* At most one allocating write is under way, it is the head of the queue, and
\* none is while the timer has the queue plugged; the requests behind it are
\* frozen and no request is queued twice.
AllocatingWritesSerial ==
    /\ \A r \in Reqs : Allocating(r) => IsHead(r) /\ ~ plugged
    /\ \A i \in 1 .. Len(queue) :
         i > 1 \/ plugged => ~ Active(queue[i])
    /\ \A i, j \in 1 .. Len(queue) : queue[i] = queue[j] => i = j

\* An entry of the L2 cache has one reference for the cache and one for each
\* request that uses it, so it is freed neither early nor never.
ReferencesExact ==
    \A e \in Entries :
        ent[e].ref = Cardinality({r \in Reqs : acb[r].l2 = e})
                     + (IF e \in Cached THEN 1 ELSE 0)

\* The cache is sound: well-formed entries with exact reference counts
\* (qed_unref_l2_cache_entry, qed_commit_l2_cache_entry).
CacheSound == TypeOK /\ ReferencesExact

\* The image file's parts that the tables t1 and T2 refer to: <<first, size>>.
Parts(t1, T2(_)) ==
    {<<<<i>>, t1[i], TableSectors>> : i \in {k \in Index : t1[k] # Unalloc}}
    \cup UNION {LET t2 == T2(t1[i])
                IN  {<<<<i, j>>, t2[j], ClusterSectors>> :
                        j \in {k \in Index : t2[k] \notin {Unalloc, ZeroCluster}}} :
                i \in {k \in Index : t1[k] # Unalloc}}

Consistent(t1, T2(_)) ==
    LET ps == Parts(t1, T2)
    IN  /\ \A p \in ps : p[2] >= L1Offset + TableSectors /\ p[2] + p[3] <= file_size
        /\ \A p, q \in ps :
              \/ p[1] = q[1]
              \/ p[2] + p[3] <= q[2]
              \/ q[2] + q[3] <= p[2]

\* The L2 table the driver would use: the cached one, or else the file's.
Table(o) ==
    LET hit == qed_find_l2_cache_entry(ent, cache, o)
    IN  IF hit = NoEntry THEN disk_l2[o] ELSE ent[hit].table

\* Each cluster is referenced at most once and within the file, by the tables
\* the driver works with and by those in the file, at every moment.
ClustersReferencedOnce ==
    /\ Consistent(l1, Table)
    /\ Consistent(disk_l1, LAMBDA o : disk_l2[o])

\* While an allocating write without a backing file is changing the tables in
\* the file, the file says that it needs a check.
DirtyWhileUpdating ==
    \A r \in Reqs :
        ~ backing /\ io[r].op \in {"l2_new", "l2_part", "l2_flush", "l1_write"}
            => disk_check

\* What a read of sector p would find.
View(p) ==
    LET o == l1[L1Index(p)]
        c == Table(o)[L2Index(p)]
    IN  CASE o = Unalloc -> Base
          [] o # Unalloc /\ c = Unalloc -> Base
          [] o # Unalloc /\ c = ZeroCluster -> "zero"
          [] OTHER -> data[c + Into(p)]

Initially(p) ==
    CASE p < ClusterSectors -> "disk"
      [] p \in ClusterSectors .. 2 * ClusterSectors - 1 -> "zero"
      [] OTHER -> Base

Covers(w, p) == acb[w].write /\ p \in acb[w].start .. acb[w].end - 1

\* v may be sector p's content for someone who knows that the requests in
\* `past' have finished: it was there in the beginning or written by a request
\* for p, and no write in `past' that succeeded was issued after v was there.
Current(p, v, past) ==
    /\ v \in {w \in Reqs : Covers(w, p)} \cup {Initially(p)}
    /\ \A w \in past : acb[w].ret = "0" /\ Covers(w, p)
                           => v \in Reqs /\ v \notin acb[w].before

Done == {r \in Reqs : acb[r].st = "done"}

\* A write reported as successful is what the disk holds from then on, until
\* another one overwrites it, and no write disturbs sectors outside its range.
AckedWritesSeen == \A p \in Sectors : Current(p, View(p), Done)

\* A read returns, for each sector, what was there at some time during the read.
ReadsCurrent ==
    \A r \in Reqs :
        acb[r].st = "done" /\ ~ acb[r].write /\ acb[r].ret = "0" =>
            \A p \in acb[r].start .. acb[r].end - 1 :
                Current(p, acb[r].got[p], acb[r].before)

\* Looking up an entry right after committing it succeeds.
CommitFindsEntry == abort # "commit"

\* Every request is answered: none is left frozen in the queue.
RequestsComplete == \A r \in Reqs : acb[r].st = "busy" ~> acb[r].st = "done"

\* Once the guest stops writing, the image is marked clean again, unless the
\* timer's own flush or header write failed.
DirtyCleared == <>[](~ disk_check /\ ~ need_check) \/ <>(io[Timer].st = "EIO")

=============================================================================

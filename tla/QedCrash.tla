------------------------------ MODULE QedCrash ------------------------------
(***************************************************************************)
(* What a crash leaves of a QED image, and what the next open makes of it  *)
(* (block/qed.c, block/qed-table.c, block/qed-check.c).                    *)
(*                                                                         *)
(* Requests run one at a time: allocating writes are serialised by the     *)
(* driver (module Qed), and in-place writes touch no metadata.  Every      *)
(* write to the image file is a step; a crash may come between any two.    *)
(* `img' is the file as the running program sees it, `stable' what storage *)
(* holds, and `cached' the writes made since the last flush.  If the host  *)
(* keeps a volatile cache (cache=writeback and a power failure), any of    *)
(* the cached writes may be lost, in any combination; else (a crash of     *)
(* QEMU alone, or cache=writethrough) none is.                             *)
(*                                                                         *)
(* A cluster has two sectors and a request writes one of them, so that     *)
(* prefill and postfill matter.  The header is cluster 0, followed by the  *)
(* L1 table.  Contents are the number of the write that made them, 0 for   *)
(* what the disk held before (the backing file or zeroes), and Hole for a  *)
(* sector of the file nothing was written to, which reads as zeroes.       *)
(***************************************************************************)
EXTENDS Integers, Sequences, FiniteSets

CONSTANTS
  Modes,          \* pairs <<backing, volatile>>
  NVirt,          \* clusters of the virtual disk
  TableNElems,    \* entries of a table
  TableSize,      \* clusters of a table
  MaxClusters,    \* bound on the image file
  MaxWrites,      \* bound on the guest's writes
  MaxCrashes      \* bound on crashes

ASSUME QedCrashAssumption ==
  /\ Modes \subseteq BOOLEAN \X BOOLEAN /\ Modes # {}
  /\ NVirt \in Nat \ {0} /\ TableNElems \in Nat \ {0}
  /\ NVirt <= TableNElems * TableNElems  \* qed_is_image_size_valid
  /\ TableSize \in Nat \ {0, 1}
  /\ MaxClusters \in Nat /\ MaxWrites \in Nat /\ MaxCrashes \in Nat
  /\ MaxClusters > TableSize             \* room for the header and the L1 table

VARIABLES
  backing, volatile,  \* the mode
  stable, cached, img,
  pc,                 \* the step the driver is at
  req,                \* the request: virtual sector, contents, new L2 table
  cur,                \* acb->cur_cluster
  need_check,         \* QED_F_NEED_CHECK in s->header.features
  l1,                 \* s->l1_table
  file_size,          \* s->file_size, in clusters
  found,              \* the repair met a cluster referenced twice
  guest,              \* what the guest must read from each sector
  may,                \* what it may read after a crash now
  lostmark,           \* a crash lost the write that set QED_F_NEED_CHECK
  nwrites, ncrash

mode == <<backing, volatile>>
disk == <<stable, cached, img>>
driver == <<req, cur, need_check, l1, file_size, found>>
expect == <<guest, may, lostmark>>
count == <<nwrites, ncrash>>
vars == <<mode, disk, pc, driver, expect, count>>

Hole == -1
Invalid == -2
Index == 0..(TableNElems - 1)
Clusters == 0..(MaxClusters - 1)
Virt == (0..(NVirt - 1)) \X {0, 1}
L1Index(v) == v \div TableNElems
L2Index(v) == v % TableNElems
NoTable == [j \in Index |-> 0]
FirstFree == 1 + TableSize
Larger(a, b) == IF a < b THEN b ELSE a

-----------------------------------------------------------------------------
(* Writes to the image file.  A write past its end extends it; size is     *)
(* counted in sectors.                                                     *)

SetFlag(b) == [kind |-> "flag", val |-> b]
SetL1(t) == [kind |-> "l1", val |-> t]
SetEntry(t, j, c) == [kind |-> "entry", at |-> t, j |-> j, val |-> c]
SetTable(t, x) == [kind |-> "table", at |-> t, val |-> x]
SetData(c, h, x) == [kind |-> "data", at |-> c, j |-> h, val |-> x]

Apply(im, w) ==
  CASE w.kind = "flag" -> [im EXCEPT !.check = w.val]
    [] w.kind = "l1" -> [im EXCEPT !.l1 = w.val]
    [] w.kind = "entry" -> [im EXCEPT !.l2[w.at][w.j] = w.val]
    [] w.kind = "table" ->
         [im EXCEPT !.l2[w.at] = w.val,
                    !.size = Larger(@, 2 * (w.at + TableSize))]
    [] w.kind = "data" ->
         [im EXCEPT !.data[w.at][w.j] = w.val,
                    !.size = Larger(@, 2 * w.at + w.j + 1)]

\* The writes of `cached' whose numbers are in S, applied in order.
Survives(S) ==
  LET after[n \in 0..Len(cached)] ==
        IF n = 0 THEN stable
        ELSE IF n \in S THEN Apply(after[n - 1], cached[n])
        ELSE after[n - 1]
  IN after[Len(cached)]

Write(w) ==
  /\ img' = Apply(img, w)
  /\ IF volatile THEN cached' = Append(cached, w) /\ UNCHANGED stable
                 ELSE stable' = img' /\ UNCHANGED cached

\* bdrv_flush and bdrv_aio_flush of the image file.
Flush == stable' = img /\ cached' = <<>> /\ UNCHANGED img

-----------------------------------------------------------------------------
(* Looking up: qed_find_cluster, the offset checks of qed.h and a read.    *)

qed_check_cluster_offset(c) == c > 0 /\ c < file_size
qed_check_table_offset(t) ==
  qed_check_cluster_offset(t) /\ qed_check_cluster_offset(t + TableSize - 1)

\* The cluster behind virtual cluster v: 0 if there is none.
qed_find_cluster(v) ==
  LET t == l1[L1Index(v)]
      c == img.l2[t][L2Index(v)]
  IN CASE t = 0 -> 0
       [] t # 0 /\ ~qed_check_table_offset(t) -> Invalid
       [] t # 0 /\ qed_check_table_offset(t) /\ c = 0 -> 0
       [] OTHER -> IF qed_check_cluster_offset(c) THEN c ELSE Invalid

\* What a read of virtual sector s gives: a hole is zeroes, which is what an
\* image without backing file held; Invalid is an error.
Reads(s) ==
  LET c == qed_find_cluster(s[1])
  IN IF c \in {0, Invalid} THEN c
     ELSE IF img.data[c][s[2]] = Hole /\ ~backing THEN 0
     ELSE img.data[c][s[2]]

-----------------------------------------------------------------------------
\* qed_create: the header and an empty L1 table.
NewImage == [check |-> FALSE, size |-> 2 * FirstFree,
             l1 |-> NoTable, l2 |-> [t \in Clusters |-> NoTable],
             data |-> [c \in Clusters |-> [h \in {0, 1} |-> Hole]]]

Init ==
  /\ \E m \in Modes : backing = m[1] /\ volatile = m[2]
  /\ stable = NewImage /\ img = NewImage /\ cached = <<>>
  /\ pc = "down" /\ req = [at |-> <<0, 0>>, val |-> 0, tab |-> 0] /\ cur = 0
  /\ need_check = FALSE /\ l1 = NoTable /\ file_size = FirstFree
  /\ found = FALSE
  /\ guest = [s \in Virt |-> 0] /\ may = [s \in Virt |-> {0}]
  /\ lostmark = FALSE /\ nwrites = 0 /\ ncrash = 0

-----------------------------------------------------------------------------
(* bdrv_qed_open and qed_check.                                            *)

\* The header and the L1 table are read; file_size is rounded down to a
\* whole cluster.
bdrv_qed_open ==
  /\ pc = "down"
  /\ need_check' = img.check /\ l1' = img.l1
  /\ file_size' = img.size \div 2
  /\ found' = FALSE /\ cur' = 0 /\ req' = [req EXCEPT !.tab = 0]
  /\ pc' = IF img.check THEN "check" ELSE "opened"
  /\ UNCHANGED <<mode, disk, expect, count>>

Span(t) == t..(t + TableSize - 1)
BadEntry(c) == c # 0 /\ ~qed_check_cluster_offset(c)
GoodEntries(t) == {j \in Index : img.l2[t][j] # 0 /\ ~BadEntry(img.l2[t][j])}
DataOf(t) == {img.l2[t][j] : j \in GoodEntries(t)}

\* used_clusters before L1 entry i is looked at.
used_clusters ==
  LET used[i \in 0..TableNElems] ==
        IF i = 0 THEN Span(1)
        ELSE LET t == l1[i - 1] IN
             IF t = 0 \/ ~qed_check_table_offset(t) THEN used[i - 1]
             ELSE IF Span(t) \cap used[i - 1] # {}
               THEN used[i - 1] \cup Span(t)
               ELSE used[i - 1] \cup Span(t) \cup DataOf(t)
  IN used

\* The entries whose table is descended into: not those that overlap what
\* was referenced before.
Descended == {i \in Index : /\ l1[i] # 0 /\ qed_check_table_offset(l1[i])
                            /\ Span(l1[i]) \cap used_clusters[i] = {}}

\* result.corruptions, as far as being zero goes.
Corruptions ==
  \E i \in Index :
    /\ l1[i] # 0 /\ qed_check_table_offset(l1[i])
    /\ \/ i \notin Descended
       \/ DataOf(l1[i]) \cap (used_clusters[i] \cup Span(l1[i])) # {}
       \/ Cardinality(DataOf(l1[i])) < Cardinality(GoodEntries(l1[i]))

\* qed_check_l2_table and what follows it: the invalid offsets of a table
\* are cleared and the table is written out.
FixTable ==
  /\ pc = "check"
  /\ \E i \in Descended :
       /\ \E j \in Index : BadEntry(img.l2[l1[i]][j])
       /\ Write(SetTable(l1[i], [j \in Index |->
                  IF BadEntry(img.l2[l1[i]][j]) THEN 0 ELSE img.l2[l1[i]][j]]))
  /\ UNCHANGED <<mode, pc, driver, expect, count>>

\* qed_check_l1_table after its loop: invalid table offsets are cleared and
\* the L1 table is written out.
FixL1 ==
  /\ pc = "check"
  /\ \A i \in Descended, j \in Index : ~BadEntry(img.l2[l1[i]][j])
  /\ found' = Corruptions
  /\ l1' = [i \in Index |-> IF qed_check_table_offset(l1[i]) THEN l1[i] ELSE 0]
  /\ pc' = "checked"
  /\ IF l1' # l1 THEN Write(SetL1(l1')) ELSE UNCHANGED disk
  /\ UNCHANGED <<mode, req, cur, need_check, file_size, expect, count>>

\* Fixes reach storage before the bit is cleared; an image with a doubly
\* referenced cluster keeps the bit, and is opened all the same.
Checked ==
  /\ pc = "checked"
  /\ pc' = IF found THEN "opened" ELSE "clear"
  /\ IF found THEN UNCHANGED disk ELSE Flush
  /\ UNCHANGED <<mode, driver, expect, count>>

ClearAfterCheck ==
  /\ pc = "clear" /\ pc' = "opened"
  /\ Write(SetFlag(FALSE)) /\ need_check' = FALSE
  /\ UNCHANGED <<mode, req, cur, l1, file_size, found, expect, count>>

\* The guest starts, and must keep finding what it finds now.
Resume ==
  /\ pc = "opened" /\ pc' = "idle"
  /\ guest' = [s \in Virt |-> Reads(s)]
  /\ may' = [s \in Virt |-> {Reads(s)}]
  /\ UNCHANGED <<mode, disk, driver, lostmark, count>>

-----------------------------------------------------------------------------
(* A write request, step by step.                                          *)

\* Up to qed_aio_write_data: an allocated cluster is written in place, else
\* a cluster is allocated, and an image without backing file marked first.
qed_aio_write_data(s) ==
  /\ pc = "idle" /\ nwrites < MaxWrites
  /\ file_size + 1 + TableSize <= MaxClusters
  /\ nwrites' = nwrites + 1
  /\ req' = [at |-> s, val |-> nwrites', tab |-> 0]
  /\ may' = [may EXCEPT ![s] = @ \cup {nwrites'}]
  /\ LET c == qed_find_cluster(s[1]) IN
     /\ c # Invalid
     /\ \/ /\ c # 0
           /\ cur' = c /\ pc' = "inplace"
           /\ UNCHANGED <<file_size, need_check>>
        \/ /\ c = 0
           /\ cur' = file_size /\ file_size' = file_size + 1
           /\ need_check' = (need_check \/ ~backing)
           /\ pc' = IF ~backing /\ ~need_check THEN "mark" ELSE "fill"
  /\ UNCHANGED <<mode, disk, l1, found, guest, lostmark, ncrash>>

\* qed_write_header: the bit is written, not flushed.
Mark ==
  /\ pc = "mark" /\ pc' = "fill"
  /\ Write(SetFlag(TRUE))
  /\ UNCHANGED <<mode, driver, expect, count>>

\* qed_aio_write_prefill, qed_aio_write_postfill: the sector of the new
\* cluster that the request does not write.
Fill ==
  /\ pc = "fill" /\ pc' = "main"
  /\ Write(SetData(cur, 1 - req.at[2], 0))
  /\ UNCHANGED <<mode, driver, expect, count>>

\* Mutant: no flush before the L2 update.
MainNoFlush ==
  /\ pc \in {"main", "inplace"}
  /\ Write(SetData(cur, req.at[2], req.val))
  /\ pc' = IF pc = "inplace" THEN "done" ELSE "l2"
  /\ UNCHANGED <<mode, driver, expect, count>>

\* The data goes to the new cluster or to the one in place.
qed_aio_write_main ==
  /\ pc \in {"main", "inplace"}
  /\ Write(SetData(cur, req.at[2], req.val))
  /\ pc' = CASE pc = "inplace" -> "done"
             [] pc = "main" /\ backing -> "flush"
             [] pc = "main" /\ ~backing -> "l2"
  /\ UNCHANGED <<mode, driver, expect, count>>

qed_aio_write_flush_before_l2_update ==
  /\ pc = "flush" /\ pc' = "l2"
  /\ Flush
  /\ UNCHANGED <<mode, driver, expect, count>>

\* The entry is written to the table there is; or a new table is allocated,
\* written and flushed.
qed_aio_write_l2_update ==
  LET v == req.at[1]
      t == l1[L1Index(v)]
  IN
  /\ pc = "l2"
  /\ \/ /\ t # 0
        /\ Write(SetEntry(t, L2Index(v), cur))
        /\ pc' = "done"
        /\ UNCHANGED <<req, file_size>>
     \/ /\ t = 0
        /\ req' = [req EXCEPT !.tab = file_size]
        /\ file_size' = file_size + TableSize
        /\ Write(SetTable(file_size, [NoTable EXCEPT ![L2Index(v)] = cur]))
        /\ pc' = "l2flush"
  /\ UNCHANGED <<mode, cur, need_check, l1, found, expect, count>>

\* Mutant: the new table is linked before it is flushed.
TableNotFlushed ==
  /\ pc = "l2flush" /\ pc' = "l1"
  /\ UNCHANGED <<mode, disk, driver, expect, count>>

TableFlush ==
  /\ pc = "l2flush" /\ pc' = "l1"
  /\ Flush
  /\ UNCHANGED <<mode, driver, expect, count>>

qed_aio_write_l1_update ==
  /\ pc = "l1" /\ pc' = "done"
  /\ l1' = [l1 EXCEPT ![L1Index(req.at[1])] = req.tab]
  /\ Write(SetL1(l1'))
  /\ UNCHANGED <<mode, req, cur, need_check, file_size, found, expect, count>>

\* The guest is told; without a volatile cache its data is safe now.
qed_aio_complete ==
  /\ pc = "done" /\ pc' = "idle"
  /\ guest' = [guest EXCEPT ![req.at] = req.val]
  /\ may' = IF volatile THEN may ELSE [may EXCEPT ![req.at] = {req.val}]
  /\ UNCHANGED <<mode, disk, driver, lostmark, count>>

-----------------------------------------------------------------------------
(* Flush, the need-check timer, close and crash.                           *)

bdrv_qed_flush ==
  /\ pc = "idle"
  /\ Flush
  /\ may' = [s \in Virt |-> {guest[s]}]
  /\ UNCHANGED <<mode, pc, driver, guest, lostmark, count>>

\* Mutant: the bit is cleared without a flush.
TimerNoFlush ==
  /\ pc = "idle" /\ need_check /\ pc' = "unmark"
  /\ UNCHANGED <<mode, disk, driver, expect, count>>

\* Writes are on disk before the bit is cleared.
qed_need_check_timer_cb ==
  /\ pc = "idle" /\ need_check /\ pc' = "unmark"
  /\ Flush
  /\ UNCHANGED <<mode, driver, expect, count>>

qed_clear_need_check ==
  /\ pc = "unmark" /\ pc' = "idle"
  /\ need_check' = FALSE /\ Write(SetFlag(FALSE))
  /\ UNCHANGED <<mode, req, cur, l1, file_size, found, expect, count>>

bdrv_qed_close ==
  /\ pc = "idle"
  /\ Flush
  /\ may' = [s \in Virt |-> {guest[s]}]
  /\ pc' = IF need_check THEN "closing" ELSE "down"
  /\ UNCHANGED <<mode, driver, guest, lostmark, count>>

CloseClears ==
  /\ pc = "closing" /\ pc' = "down"
  /\ need_check' = FALSE /\ Write(SetFlag(FALSE))
  /\ UNCHANGED <<mode, req, cur, l1, file_size, found, expect, count>>

\* The machine stops.  Any of the cached writes may have reached storage.
Crash ==
  /\ ncrash < MaxCrashes /\ ncrash' = ncrash + 1
  /\ \E S \in SUBSET (1..Len(cached)) : stable' = Survives(S)
  /\ img' = stable' /\ cached' = <<>>
  /\ lostmark' = (lostmark \/ (need_check /\ ~stable'.check
                                /\ pc \notin {"down", "mark"}))
  /\ pc' = "down" /\ need_check' = FALSE
  /\ UNCHANGED <<mode, req, cur, l1, file_size, found, guest, may, nwrites>>

-----------------------------------------------------------------------------
Open == bdrv_qed_open \/ FixTable \/ FixL1 \/ Checked \/ ClearAfterCheck
        \/ Resume
WriteRequest ==
  \/ \E s \in Virt : qed_aio_write_data(s)
  \/ Mark \/ Fill \/ qed_aio_write_main
  \/ qed_aio_write_flush_before_l2_update \/ qed_aio_write_l2_update
  \/ TableFlush \/ qed_aio_write_l1_update \/ qed_aio_complete

Next == Open \/ WriteRequest \/ bdrv_qed_flush
        \/ qed_need_check_timer_cb \/ qed_clear_need_check
        \/ bdrv_qed_close \/ CloseClears \/ Crash

Spec == Init /\ [][Next]_vars

-----------------------------------------------------------------------------
ImageOK(im) ==
  /\ im.check \in BOOLEAN /\ im.size \in 0..(2 * MaxClusters)
  /\ im.l1 \in [Index -> Clusters]
  /\ im.l2 \in [Clusters -> [Index -> Clusters]]
  /\ im.data \in [Clusters -> [{0, 1} -> Hole..MaxWrites]]

TypeOK ==
  /\ backing \in BOOLEAN /\ volatile \in BOOLEAN
  /\ ImageOK(stable) /\ ImageOK(img)
  /\ need_check \in BOOLEAN /\ l1 \in [Index -> Clusters]
  /\ file_size \in 0..MaxClusters /\ cur \in Clusters
  /\ found \in BOOLEAN /\ lostmark \in BOOLEAN
  /\ guest \in [Virt -> Invalid..MaxWrites]
  /\ nwrites \in 0..MaxWrites /\ ncrash \in 0..MaxCrashes

\* No invalid offset and no cluster referenced twice, as the tables stand.
Consistent ==
  /\ ~Corruptions
  /\ \A i \in Index : l1[i] # 0 => qed_check_table_offset(l1[i])
  /\ \A i \in Descended, j \in Index : ~BadEntry(img.l2[l1[i]][j])

\* Opening an image makes it consistent whenever its bit says that it may
\* not be, and an image without the bit is consistent already: crash after
\* crash, in the middle of a repair too, the guest never starts on an image
\* with a dangling or a doubly used cluster (qed_check, bdrv_qed_open).  The
\* exception is a crash that lost the write which sets the bit.
OpenedConsistent ==
  pc = "opened" /\ ~lostmark => Consistent

\* What the guest wrote and flushed (without a volatile cache: what it
\* wrote) is there after a crash, and every other sector holds what it held
\* or something written to it since, never a part of a cluster that was not
\* filled from the backing file (qed_aio_write_flush_before_l2_update).  For
\* an image without backing file and with a volatile cache this holds for
\* the first crash only: the file may then end in a part of a cluster, which
\* is allocated again with the old data in it, and a second crash may keep
\* the table entry and lose the data.
DurableData ==
  pc = "opened" /\ ~lostmark /\ (backing \/ ~volatile \/ ncrash <= 1)
    => \A s \in Virt : Reads(s) \in may[s]

\* No write, repair or reopening disturbs another sector: two sectors never
\* share a cluster (qed_alloc_clusters from a file_size that a crash has cut
\* back).
ReadsOwn ==
  TypeOK /\ (pc = "idle" /\ ~lostmark => \A s \in Virt : Reads(s) = guest[s])

\* The bit is set before an operation that could leave the image
\* inconsistent if interrupted by a crash or power failure.
DirtyBeforeInconsistent ==
  pc = "opened" /\ ~found => Consistent
=============================================================================

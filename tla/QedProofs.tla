------------------------------ MODULE QedProofs ------------------------------
(***************************************************************************)
(* The queue of allocating writes is safe for any number of requests, any  *)
(* image geometry, cache size and I/O failures: the driver's assertions    *)
(* about it hold, and allocating writes run one at a time.  The second     *)
(* half is about the L2 cache and the layout of the file: reference counts *)
(* are exact, and no cluster is referenced twice.                          *)
(***************************************************************************)
EXTENDS Qed, SequenceTheorems, FiniteSetTheorems, WellFoundedInduction, TLAPS

\* Functions that work on a request, and the ones only the holder of the queue
\* runs.
ReqCalls == {"next_io", "find_cluster", "find_cluster_cb", "data", "prefill",
             "postfill", "main", "l1_update", "complete"}
HolderCalls == {"prefill", "postfill", "l1_update"}
HolderOps == {"header", "prefill", "postfill", "flush", "l2_new", "l2_part",
              "l2_flush", "l1_write"}
TimerOps == {"t_flush", "t_header"}

InQueue(r) == \E i \in 1 .. Len(queue) : queue[i] = r
Running(r) == run # Idle /\ run.r = r

Shape ==
    /\ queue \in Seq(Reqs)
    /\ plugged \in BOOLEAN /\ timer \in BOOLEAN
    /\ DOMAIN acb = Reqs
    /\ \A r \in Reqs : "st" \in DOMAIN acb[r] /\ "found" \in DOMAIN acb[r]
    /\ DOMAIN io = Reqs \cup {Timer}

\* The call in progress is one on a request, or the unplugging of the queue,
\* and whoever runs waits for no I/O.
CallShape ==
    /\ \/ run = Idle
       \/ run.fn \in ReqCalls /\ run.r \in Reqs
       \/ run.fn = "unplug" /\ run.r = Timer
    /\ run # Idle => io[run.r] = NoIo
    /\ \A r \in Reqs : io[r].op \notin TimerOps
    /\ io[Timer] = NoIo \/ io[Timer].op \in TimerOps

\* What runs, waits for an I/O or is queued is a request under way.
Busy ==
    \A r \in Reqs : io[r] # NoIo \/ Running(r) \/ InQueue(r) => acb[r].st = "busy"

\* No request is queued twice; the ones behind the head stand still, and so
\* does the head while the queue is plugged.
Frozens ==
    /\ \A i, j \in 1 .. Len(queue) : queue[i] = queue[j] => i = j
    /\ \A i \in 1 .. Len(queue) :
         i > 1 \/ plugged => io[queue[i]] = NoIo /\ ~ Running(queue[i])

\* Whoever allocates holds the queue.
Holds(r) ==
    \/ io[r].op \in HolderOps
    \/ (io[r].op = "main" /\ acb[r].found # "FOUND")
    \/ (Running(r) /\ run.fn \in HolderCalls)
    \/ (Running(r) /\ run.fn = "main" /\ acb[r].found # "FOUND")

HolderIsHead == \A r \in Reqs : Holds(r) => IsHead(r) /\ ~ plugged

\* The queue is plugged exactly while the timer's chain is at work, and the
\* timer is only pending while the queue is empty and open.
Plug == plugged <=> io[Timer] # NoIo \/ run.fn = "unplug"
TimerQuiet == timer => queue = <<>> /\ ~ plugged

IInv ==
    /\ Shape
    /\ CallShape
    /\ Busy
    /\ Frozens
    /\ HolderIsHead
    /\ Plug
    /\ TimerQuiet
    /\ QueueAssertions

-----------------------------------------------------------------------------
USE DEF Idle, NoIo

\* The initial state: nothing runs, nothing is queued.
LEMMA InitIInv == Init => IInv
<1> SUFFICES ASSUME Init PROVE IInv
  OBVIOUS
<1>1. Shape
  <2>1. "st" \in DOMAIN Unused /\ "found" \in DOMAIN Unused
    BY DEF Unused
  <2> QED
    BY <2>1, EmptySeq DEF Init, Shape
<1>2. CallShape /\ Plug /\ TimerQuiet /\ QueueAssertions
  BY QedAssumption DEF Init, CallShape, Plug, TimerQuiet, QueueAssertions, TimerOps
<1>3. Busy /\ Frozens /\ HolderIsHead
  BY QedAssumption DEF Init, Busy, Frozens, HolderIsHead, Holds, Running, InQueue, HolderOps
<1> QED
  BY <1>1, <1>2, <1>3 DEF IInv

\* Whoever is called was running or had its I/O finished; nobody else runs.
LEMMA CalledFacts ==
  ASSUME IInv, NEW r \in Reqs, NEW fn, fn # "none", Called(fn, r)
  PROVE  /\ io[r] # NoIo \/ Running(r)
         /\ run = Idle \/ Running(r)
         /\ acb[r].st = "busy"
         /\ \A i \in 1 .. Len(queue) : queue[i] = r => i = 1 /\ ~ plugged
<1>1. io[r] # NoIo \/ Running(r)
  BY DEF Called, Running
<1>2. run = Idle \/ Running(r)
  BY DEF Called, Running
<1>3. acb[r].st = "busy"
  BY <1>1 DEF IInv, Busy
<1>4. \A i \in 1 .. Len(queue) : queue[i] = r => i = 1 /\ ~ plugged
  BY <1>1 DEF IInv, Frozens
<1> QED
  BY <1>1, <1>2, <1>3, <1>4

\* The functions that only the holder of the queue is called with.
LEMMA CalledHolds ==
  ASSUME IInv, NEW r \in Reqs, NEW fn, Called(fn, r),
         \/ fn \in {"prefill", "postfill", "flush_before", "l2_update",
                    "write_table_cb", "l1_update", "commit"}
         \/ fn = "main" /\ acb[r].found # "FOUND"
  PROVE  Holds(r)
<1>1. CASE run = Idle
  <2>1. Callback(r) = fn
    BY <1>1 DEF Called
  <2>2. io[r].op \in HolderOps \/ (io[r].op = "main" /\ acb[r].found # "FOUND")
    BY <2>1 DEF Callback, HolderOps
  <2> QED
    BY <2>2 DEF Holds
<1>2. CASE run # Idle
  <2>1. run.fn = fn /\ run.r = r
    BY <1>2 DEF Called
  <2>2. fn \in HolderCalls \/ (fn = "main" /\ acb[r].found # "FOUND")
    BY <1>2, <2>1, QedAssumption DEF IInv, CallShape, ReqCalls, HolderCalls
  <2> QED
    BY <1>2, <2>1, <2>2 DEF Holds, Running
<1> QED
  BY <1>1, <1>2

\* What a request's step leaves alone.
Kept(r) ==
    /\ UNCHANGED <<queue, plugged, timer>>
    /\ abort' \in {abort, "commit"}
    /\ DOMAIN acb' = Reqs
    /\ \A s \in Reqs : /\ "st" \in DOMAIN acb'[s] /\ "found" \in DOMAIN acb'[s]
                       /\ acb'[s].st = acb[s].st
                       /\ s # r => acb'[s].found = acb[s].found

\* How it ends: with a call on r, with an I/O of r, or by returning.
Ends(r, fns, ops) ==
    \/ \E fn \in fns : \E ret, off, len : CallWith(r, fn, r, ret, off, len)
    \/ \E op \in ops : \E off : StartIo(r, op, off)
    \/ Return(r)

\* What such an ending does to the calls and the I/Os.
LEMMA EndsFacts ==
  ASSUME IInv, NEW r \in Reqs, NEW fns \in SUBSET ReqCalls, NEW ops, Ends(r, fns, ops)
  PROVE  /\ \A s \in Reqs : s # r => io'[s] = io[s] /\ ~ Running(s)'
         /\ io'[Timer] = io[Timer]
         /\ DOMAIN io' = DOMAIN io
         /\ run' = Idle \/ (run'.fn \in fns /\ run'.r = r /\ io'[r] = NoIo)
         /\ io'[r] = NoIo \/ (run' = Idle /\ io'[r].op \in ops)
         /\ run'.fn # "unplug"
<1> r # Timer /\ DOMAIN io = Reqs \cup {Timer}
  BY QedAssumption DEF IInv, Shape
<1>1. ASSUME NEW fn \in fns, NEW ret, NEW off, NEW len, CallWith(r, fn, r, ret, off, len)
      PROVE  run'.fn = fn /\ run'.r = r /\ io' = [io EXCEPT ![r] = NoIo] /\ fn # "unplug"
  BY <1>1 DEF CallWith, ReqCalls
<1>2. ASSUME NEW op \in ops, NEW off, StartIo(r, op, off)
      PROVE  run' = Idle /\ io' = [io EXCEPT ![r] = [op |-> op, st |-> "busy", off |-> off]]
  BY <1>2 DEF StartIo
<1>3. CASE \E fn \in fns : \E ret, off, len : CallWith(r, fn, r, ret, off, len)
  BY <1>1, <1>3 DEF Running
<1>4. CASE \E op \in ops : \E off : StartIo(r, op, off)
  BY <1>2, <1>4 DEF Running
<1>5. CASE Return(r)
  BY <1>5 DEF Return, Running
<1> QED
  BY <1>3, <1>4, <1>5 DEF Ends

\* A step of r that ends in a call on r, in an I/O of r or in a return, and
\* that enters the holder's part only as the holder.
LEMMA RequestStep ==
  ASSUME IInv, NEW r \in Reqs, NEW fn, fn # "none", Called(fn, r), Kept(r),
         NEW fns \in SUBSET ReqCalls, NEW ops, ops \cap TimerOps = {}, Ends(r, fns, ops),
         Holds(r)' => IsHead(r) /\ ~ plugged
  PROVE  IInv'
<1>0. /\ run = Idle \/ Running(r)
      /\ acb[r].st = "busy"
      /\ \A i \in 1 .. Len(queue) : queue[i] = r => i = 1 /\ ~ plugged
  BY CalledFacts
<1>1. /\ \A s \in Reqs : s # r => io'[s] = io[s] /\ ~ Running(s)'
      /\ io'[Timer] = io[Timer]
      /\ DOMAIN io' = DOMAIN io
      /\ run' = Idle \/ (run'.fn \in fns /\ run'.r = r /\ io'[r] = NoIo)
      /\ io'[r] = NoIo \/ (run' = Idle /\ io'[r].op \in ops)
      /\ run'.fn # "unplug"
  BY EndsFacts
<1>2. Shape'
  BY <1>1 DEF Shape, Kept, IInv
<1>3. CallShape'
  <2>1. NoIo.op \notin TimerOps
    BY DEF TimerOps
  <2> QED
    BY <1>1, <2>1 DEF CallShape, IInv
<1>4. Busy'
  BY <1>0, <1>1 DEF Busy, IInv, Kept, InQueue, Running
<1>5. Frozens'
  BY <1>0, <1>1, ElementOfSeq DEF Frozens, IInv, Shape, Kept, Running
<1>6. HolderIsHead'
  <2> SUFFICES ASSUME NEW s \in Reqs, Holds(s)'
               PROVE  IsHead(s)' /\ ~ plugged'
    BY DEF HolderIsHead
  <2>1. UNCHANGED <<queue, plugged>>
    BY DEF Kept
  <2>2. CASE s = r
    BY <2>1, <2>2 DEF IsHead
  <2>3. CASE s # r
    <3>1. Holds(s)
      BY <1>1, <2>3 DEF Holds, Kept
    <3> QED
      BY <3>1, <2>1 DEF IInv, HolderIsHead, IsHead
  <2> QED
    BY <2>2, <2>3
<1>7. Plug'
  BY <1>0, <1>1, QedAssumption DEF Plug, IInv, Kept, Running, CallShape, ReqCalls
<1>8. TimerQuiet' /\ QueueAssertions'
  BY DEF TimerQuiet, QueueAssertions, IInv, Kept
<1> QED
  BY <1>2, <1>3, <1>4, <1>5, <1>6, <1>7, <1>8 DEF IInv

-----------------------------------------------------------------------------
(* The steps of a request that leave the queue alone.                       *)

\* Looking up a cluster takes no part in the queue.
LookupCalls == {"next_io", "find_cluster", "find_cluster_cb", "data", "complete"}
LookupOps == {"l2_read", "data_read", "backing_read"}

\* A step of the lookup keeps the invariant.
LEMMA LookupStep ==
  ASSUME IInv, NEW r \in Reqs, NEW fn, fn # "none", Called(fn, r), Kept(r),
         Ends(r, LookupCalls, LookupOps)
  PROVE  IInv'
<1>1. LookupCalls \in SUBSET ReqCalls /\ LookupOps \cap TimerOps = {}
  BY DEF LookupCalls, ReqCalls, LookupOps, TimerOps
<1>2. /\ run' = Idle \/ run'.fn \in LookupCalls
      /\ io'[r] = NoIo \/ io'[r].op \in LookupOps
  BY <1>1, EndsFacts
<1>3. ~ Holds(r)'
  BY <1>2 DEF Holds, Running, LookupCalls, LookupOps, HolderCalls, HolderOps
<1> QED
  BY <1>1, <1>3, RequestStep

\* The holder of the queue may do anything with its own request.
HolderIo == HolderOps \cup {"main"}

\* A step of the head of an open queue keeps it.
LEMMA HolderStep ==
  ASSUME IInv, NEW r \in Reqs, NEW fn, fn # "none", Called(fn, r), Kept(r),
         Ends(r, ReqCalls, HolderIo), IsHead(r), ~ plugged
  PROVE  IInv'
<1>1. HolderIo \cap TimerOps = {}
  BY DEF HolderIo, HolderOps, TimerOps
<1> QED
  BY <1>1, RequestStep

\* The functions that look up a cluster or read end without entering the queue.
LEMMA LookupForm ==
  ASSUME IInv, NEW r \in Reqs,
         \/ qed_aio_next_io(r) \/ qed_find_cluster(r) \/ qed_read_l2_table_cb(r)
         \/ qed_find_cluster_cb(r) \/ qed_aio_read_data(r)
  PROVE  \E fn : fn # "none" /\ Called(fn, r) /\ Kept(r) /\ Ends(r, LookupCalls, LookupOps)
<1>1. CASE qed_aio_next_io(r)
  <2>1. Called("next_io", r)
    BY <1>1 DEF qed_aio_next_io
  <2>2. Kept(r)
    BY <1>1 DEF qed_aio_next_io, Kept, IInv, Shape, allocVars
  <2>3. Ends(r, LookupCalls, LookupOps)
    BY <1>1 DEF qed_aio_next_io, Ends, Call, LookupCalls, LookupOps
  <2> QED
    BY <2>1, <2>2, <2>3
<1>2. CASE qed_find_cluster(r)
  <2>1. Called("find_cluster", r)
    BY <1>2 DEF qed_find_cluster
  <2>2. Kept(r)
    BY <1>2 DEF qed_find_cluster, qed_read_l2_table, Kept, IInv, Shape, allocVars
  <2>3. Ends(r, LookupCalls, LookupOps)
    BY <1>2 DEF qed_find_cluster, qed_read_l2_table, Ends, Call, LookupCalls, LookupOps
  <2> QED
    BY <2>1, <2>2, <2>3
<1>3. CASE qed_read_l2_table_cb(r)
  <2>1. Called("read_l2_table_cb", r)
    BY <1>3 DEF qed_read_l2_table_cb
  <2>2. Kept(r)
    <3>1. \E x : acb' = [acb EXCEPT ![r].l2 = x]
      BY <1>3 DEF qed_read_l2_table_cb, CommitAndFind
    <3>2. UNCHANGED <<queue, plugged, timer>> /\ abort' \in {abort, "commit"}
      BY <1>3 DEF qed_read_l2_table_cb, CommitAndFind, allocVars
    <3> QED
      BY <3>1, <3>2 DEF Kept, IInv, Shape
  <2>3. Ends(r, LookupCalls, LookupOps)
    BY <1>3 DEF qed_read_l2_table_cb, Ends, Call, CommitAndFind, LookupCalls, LookupOps
  <2> QED
    BY <2>1, <2>2, <2>3
<1>4. CASE qed_find_cluster_cb(r)
  <2>1. Called("find_cluster_cb", r)
    BY <1>4 DEF qed_find_cluster_cb
  <2>2. Kept(r)
    BY <1>4 DEF qed_find_cluster_cb, Kept, IInv, Shape, allocVars
  <2>3. Ends(r, LookupCalls, LookupOps)
    BY <1>4 DEF qed_find_cluster_cb, Ends, Call, LookupCalls, LookupOps
  <2> QED
    BY <2>1, <2>2, <2>3
<1>5. CASE qed_aio_read_data(r)
  <2>1. Called("data", r)
    BY <1>5 DEF qed_aio_read_data
  <2>2. Kept(r)
    BY <1>5 DEF qed_aio_read_data, Kept, IInv, Shape, allocVars
  <2>3. Ends(r, LookupCalls, LookupOps)
    BY <1>5 DEF qed_aio_read_data, Ends, Call, LookupCalls, LookupOps
  <2> QED
    BY <2>1, <2>2, <2>3
<1> QED
  BY <1>1, <1>2, <1>3, <1>4, <1>5

\* So they keep the invariant.
LEMMA LookupSteps ==
  ASSUME IInv, NEW r \in Reqs,
         \/ qed_aio_next_io(r) \/ qed_find_cluster(r) \/ qed_read_l2_table_cb(r)
         \/ qed_find_cluster_cb(r) \/ qed_aio_read_data(r)
  PROVE  IInv'
BY LookupForm, LookupStep

\* The functions of an allocating write, from its fills to the L1 table, are called by
\* and go on as the holder of the queue.
LEMMA HolderForm ==
  ASSUME IInv, NEW r \in Reqs,
         \/ qed_aio_write_prefill(r) \/ qed_aio_write_postfill(r)
         \/ qed_aio_write_flush_before_l2_update(r) \/ qed_aio_write_l2_update(r)
         \/ qed_write_table_cb(r) \/ qed_aio_write_l1_update(r)
         \/ qed_commit_l2_update(r)
  PROVE  \E fn : /\ fn # "none" /\ Called(fn, r) /\ Kept(r) /\ Ends(r, ReqCalls, HolderIo)
                  /\ Holds(r)
<1>1. CASE qed_aio_write_prefill(r)
  <2>1. Called("prefill", r)
    BY <1>1 DEF qed_aio_write_prefill
  <2>2. Kept(r)
    BY <1>1 DEF qed_aio_write_prefill, Kept, IInv, Shape, allocVars, writeVars
  <2>3. Ends(r, ReqCalls, HolderIo)
    BY <1>1 DEF qed_aio_write_prefill, qed_copy_from_backing_file, Ends, Call, ReqCalls, HolderIo, HolderOps
  <2>4. Holds(r)
    BY <2>1, CalledHolds
  <2> QED
    BY <2>1, <2>2, <2>3, <2>4
<1>2. CASE qed_aio_write_postfill(r)
  <2>1. Called("postfill", r)
    BY <1>2 DEF qed_aio_write_postfill
  <2>2. Kept(r)
    BY <1>2 DEF qed_aio_write_postfill, Kept, IInv, Shape, allocVars, writeVars
  <2>3. Ends(r, ReqCalls, HolderIo)
    BY <1>2 DEF qed_aio_write_postfill, qed_copy_from_backing_file, Ends, Call, ReqCalls, HolderIo, HolderOps
  <2>4. Holds(r)
    BY <2>1, CalledHolds
  <2> QED
    BY <2>1, <2>2, <2>3, <2>4
<1>3. CASE qed_aio_write_flush_before_l2_update(r)
  <2>1. Called("flush_before", r)
    BY <1>3 DEF qed_aio_write_flush_before_l2_update
  <2>2. Kept(r)
    BY <1>3 DEF qed_aio_write_flush_before_l2_update, Kept, IInv, Shape, allocVars, writeVars
  <2>3. Ends(r, ReqCalls, HolderIo)
    BY <1>3 DEF qed_aio_write_flush_before_l2_update, Ends, Call, ReqCalls, HolderIo, HolderOps
  <2>4. Holds(r)
    BY <2>1, CalledHolds
  <2> QED
    BY <2>1, <2>2, <2>3, <2>4
<1>4. CASE qed_aio_write_l2_update(r)
  <2>1. Called("l2_update", r)
    BY <1>4 DEF qed_aio_write_l2_update
  <2>2. Kept(r)
    BY <1>4 DEF qed_aio_write_l2_update, Kept, IInv, Shape, allocVars
  <2>3. Ends(r, ReqCalls, HolderIo)
    BY <1>4 DEF qed_aio_write_l2_update, qed_write_table, Ends, Call, ReqCalls, HolderIo, HolderOps
  <2>4. Holds(r)
    BY <2>1, CalledHolds
  <2> QED
    BY <2>1, <2>2, <2>3, <2>4
<1>5. CASE qed_write_table_cb(r)
  <2>1. Called("write_table_cb", r)
    BY <1>5 DEF qed_write_table_cb
  <2>2. Kept(r)
    BY <1>5 DEF qed_write_table_cb, Kept, IInv, Shape, allocVars, writeVars
  <2>3. Ends(r, ReqCalls, HolderIo)
    BY <1>5 DEF qed_write_table_cb, Ends, Call, ReqCalls, HolderIo, HolderOps
  <2>4. Holds(r)
    BY <2>1, CalledHolds
  <2> QED
    BY <2>1, <2>2, <2>3, <2>4
<1>6. CASE qed_aio_write_l1_update(r)
  <2>1. Called("l1_update", r)
    BY <1>6 DEF qed_aio_write_l1_update
  <2>2. Kept(r)
    BY <1>6 DEF qed_aio_write_l1_update, Kept, IInv, Shape, allocVars
  <2>3. Ends(r, ReqCalls, HolderIo)
    BY <1>6 DEF qed_aio_write_l1_update, qed_write_table, Ends, Call, ReqCalls, HolderIo, HolderOps
  <2>4. Holds(r)
    BY <2>1, CalledHolds
  <2> QED
    BY <2>1, <2>2, <2>3, <2>4
<1>7. CASE qed_commit_l2_update(r)
  <2>1. Called("commit", r)
    BY <1>7 DEF qed_commit_l2_update
  <2>2. Kept(r)
    <3>1. \E x : acb' = [acb EXCEPT ![r].l2 = x]
      BY <1>7 DEF qed_commit_l2_update, CommitAndFind
    <3>2. UNCHANGED <<queue, plugged, timer>> /\ abort' \in {abort, "commit"}
      BY <1>7 DEF qed_commit_l2_update, CommitAndFind, allocVars
    <3> QED
      BY <3>1, <3>2 DEF Kept, IInv, Shape
  <2>3. Ends(r, ReqCalls, HolderIo)
    BY <1>7 DEF qed_commit_l2_update, Ends, Call, CommitAndFind, ReqCalls, HolderIo, HolderOps
  <2>4. Holds(r)
    BY <2>1, CalledHolds
  <2> QED
    BY <2>1, <2>2, <2>3, <2>4
<1> QED
  BY <1>1, <1>2, <1>3, <1>4, <1>5, <1>6, <1>7

\* So they keep the invariant.
LEMMA HolderSteps ==
  ASSUME IInv, NEW r \in Reqs,
         \/ qed_aio_write_prefill(r) \/ qed_aio_write_postfill(r)
         \/ qed_aio_write_flush_before_l2_update(r) \/ qed_aio_write_l2_update(r)
         \/ qed_write_table_cb(r) \/ qed_aio_write_l1_update(r)
         \/ qed_commit_l2_update(r)
  PROVE  IInv'
<1>1. Holds(r) => IsHead(r) /\ ~ plugged
  BY DEF IInv, HolderIsHead
<1> QED
  BY <1>1, HolderForm, HolderStep

-----------------------------------------------------------------------------
(* Writing the data, and entering the queue.                                *)

\* Writing the data: by the holder of the queue, or in place by anyone.
LEMMA WriteMainStep ==
  ASSUME IInv, NEW r \in Reqs, qed_aio_write_main(r)
  PROVE  IInv'
<1>1. Called("main", r)
  BY DEF qed_aio_write_main
<1>2. Kept(r) /\ acb' = acb
  BY DEF qed_aio_write_main, Kept, IInv, Shape, allocVars, writeVars
<1>3. Ends(r, {"complete"}, {"main"})
  BY DEF qed_aio_write_main, Ends, Call
<1>4. {"complete"} \in SUBSET ReqCalls /\ {"main"} \cap TimerOps = {}
  BY DEF ReqCalls, TimerOps
<1>5. CASE acb[r].found # "FOUND"
  <2>1. IsHead(r) /\ ~ plugged
    BY <1>1, <1>5, CalledHolds DEF IInv, HolderIsHead
  <2> QED
    BY <1>1, <1>2, <1>3, <1>4, <2>1, RequestStep
<1>6. CASE acb[r].found = "FOUND"
  <2>1. /\ run' = Idle \/ run'.fn = "complete"
        /\ io'[r] = NoIo \/ io'[r].op = "main"
    BY <1>3, <1>4, EndsFacts
  <2>2. ~ Holds(r)'
    BY <1>2, <1>6, <2>1 DEF Holds, Running, HolderCalls, HolderOps
  <2> QED
    BY <1>1, <1>2, <1>3, <1>4, <2>2, RequestStep
<1> QED
  BY <1>5, <1>6

\* A write that needs new clusters joins the queue once and goes on only as
\* its head.
LEMMA WriteAllocStep ==
  ASSUME IInv, NEW r \in Reqs, Called("data", r), qed_aio_write_alloc(r),
         UNCHANGED abort
  PROVE  IInv'
<1> DEFINE q == IF IsHead(r) THEN queue ELSE Append(queue, r)
<1>0. /\ run = Idle \/ Running(r)
      /\ acb[r].st = "busy"
      /\ \A i \in 1 .. Len(queue) : queue[i] = r => i = 1 /\ ~ plugged
  BY CalledFacts
<1>1. queue \in Seq(Reqs) /\ Len(queue) \in Nat
  BY LenProperties DEF IInv, Shape
<1>2. \/ Frozen(q, r) /\ Return(r)
      \/ ~ Frozen(q, r) /\ Ends(r, {"prefill"}, {"header"})
  BY DEF qed_aio_write_alloc, qed_write_header, Ends, Call
<1>3. /\ DOMAIN acb' = Reqs
      /\ \A s \in Reqs : /\ "st" \in DOMAIN acb'[s] /\ "found" \in DOMAIN acb'[s]
                         /\ acb'[s].st = acb[s].st
                         /\ s # r => acb'[s].found = acb[s].found
  BY DEF qed_aio_write_alloc, IInv, Shape
<1>4. queue' = q /\ plugged' = plugged
  BY DEF qed_aio_write_alloc
<1>5. {"prefill"} \in SUBSET ReqCalls /\ {"header"} \cap TimerOps = {}
  BY DEF ReqCalls, TimerOps
<1>6. CASE IsHead(r)
  <2>1. ~ plugged /\ queue # <<>>
    BY <1>0, <1>1, <1>6, HeadTailProperties, EmptySeq DEF IsHead
  <2>2. UNCHANGED <<queue, plugged, timer>>
    BY <1>4, <1>6, <2>1 DEF qed_aio_write_alloc
  <2>3. Kept(r)
    BY <1>3, <2>2 DEF Kept
  <2>4. Ends(r, ReqCalls, HolderIo)
    BY <1>2, <1>5 DEF Ends, HolderIo, HolderOps
  <2> QED
    BY <1>6, <2>1, <2>3, <2>4, HolderStep
<1>7. CASE ~ IsHead(r)
  <2>0. Ends(r, {"prefill"}, {"header"})
    BY <1>2 DEF Ends
  <2>1. /\ \A s \in Reqs : s # r => io'[s] = io[s] /\ ~ Running(s)'
        /\ io'[Timer] = io[Timer]
        /\ DOMAIN io' = DOMAIN io
        /\ run' = Idle \/ (run'.fn = "prefill" /\ run'.r = r /\ io'[r] = NoIo)
        /\ io'[r] = NoIo \/ (run' = Idle /\ io'[r].op = "header")
        /\ run'.fn # "unplug"
    BY <2>0, <1>5, EndsFacts
  <2>2. \A i \in 1 .. Len(queue) : queue[i] # r
    BY <1>0, <1>1, <1>7, HeadTailProperties, EmptySeq DEF IsHead
  <2>3. /\ queue' \in Seq(Reqs) /\ Len(queue') = Len(queue) + 1
        /\ \A i \in 1 .. Len(queue) : queue'[i] = queue[i]
        /\ queue'[Len(queue) + 1] = r
    BY <1>1, <1>4, <1>7, AppendProperties
  <2>4. timer' = FALSE
    BY DEF qed_aio_write_alloc, qed_cancel_need_check_timer, IInv, TimerQuiet, Shape
  <2>5. queue' # <<>> /\ Head(queue') = queue'[1]
    BY <1>1, <2>3, EmptySeq, HeadTailProperties
  <2>6. queue # <<>> => Head(queue') = Head(queue)
    BY <1>1, <2>3, <2>5, EmptySeq, HeadTailProperties
  <2>7. queue # <<>> \/ plugged => io'[r] = NoIo /\ ~ Running(r)'
    <3>1. ASSUME queue # <<>> PROVE Head(queue') # r
      BY <1>7, <2>6, <3>1 DEF IsHead
    <3>2. queue # <<>> \/ plugged => Frozen(q, r)
      BY <1>4, <3>1 DEF Frozen
    <3>3. Return(r) => io'[r] = NoIo /\ ~ Running(r)'
      BY DEF Return, Running, IInv, Shape
    <3> QED
      BY <1>2, <3>2, <3>3
  <2>8. Shape'
    BY <1>3, <1>4, <2>1, <2>3, <2>4 DEF IInv, Shape
  <2>9. CallShape'
    <3>1. NoIo.op \notin TimerOps /\ "header" \notin TimerOps /\ "prefill" \in ReqCalls
      BY DEF TimerOps, ReqCalls
    <3> QED
      BY <2>1, <3>1 DEF CallShape, IInv
  <2>10. Busy'
    BY <1>0, <1>1, <1>3, <2>1, <2>3, SMTT(30) DEF Busy, IInv, InQueue, Running
  <2>11. Frozens'
    <3>1. \A i, j \in 1 .. Len(queue') : queue'[i] = queue'[j] => i = j
      BY <1>1, <2>2, <2>3 DEF IInv, Frozens
    <3>2. ASSUME NEW i \in 1 .. Len(queue'), i > 1 \/ plugged'
          PROVE  io'[queue'[i]] = NoIo /\ ~ Running(queue[i])'
      <4>1. CASE i = Len(queue) + 1
        <5>1. queue # <<>> \/ plugged
          BY <1>4, <3>2, <4>1, EmptySeq
        <5> QED
          BY <2>3, <2>7, <4>1, <5>1 DEF Running
      <4>2. CASE i \in 1 .. Len(queue)
        <5>1. queue'[i] = queue[i] /\ queue[i] # r /\ queue[i] \in Reqs
          BY <1>1, <2>2, <2>3, <4>2, ElementOfSeq
        <5>2. io[queue[i]] = NoIo
          BY <1>4, <3>2, <4>2 DEF IInv, Frozens
        <5> QED
          BY <2>1, <5>1, <5>2 DEF Running
      <4> QED
        BY <1>1, <2>3, <3>2, <4>1, <4>2
    <3> QED
      BY <3>1, <3>2 DEF Frozens, Running
  <2>12. HolderIsHead'
    <3> SUFFICES ASSUME NEW s \in Reqs, Holds(s)'
                 PROVE  IsHead(s)' /\ ~ plugged'
      BY DEF HolderIsHead
    <3>1. CASE s = r
      <4>1. queue = <<>> /\ ~ plugged
        BY <2>7, <3>1 DEF Holds, HolderOps
      <4> QED
        BY <1>4, <2>3, <2>5, <3>1, <4>1, EmptySeq DEF IsHead
    <3>2. CASE s # r
      <4>1. Holds(s)
        BY <1>3, <2>1, <3>2 DEF Holds
      <4>2. IsHead(s) /\ ~ plugged
        BY <4>1 DEF IInv, HolderIsHead
      <4> QED
        BY <1>4, <2>5, <2>6, <4>2 DEF IsHead
    <3> QED
      BY <3>1, <3>2
  <2>13. Plug'
    BY <1>0, <1>4, <2>1, QedAssumption DEF Plug, IInv, Running, CallShape, ReqCalls
  <2>14. TimerQuiet' /\ QueueAssertions'
    BY <2>4 DEF TimerQuiet, QueueAssertions, IInv
  <2> QED
    BY <2>8, <2>9, <2>10, <2>11, <2>12, <2>13, <2>14 DEF IInv
<1> QED
  BY <1>6, <1>7

\* What the lookup found decides between writing in place, allocating and an
\* error.
LEMMA WriteDataStep ==
  ASSUME IInv, NEW r \in Reqs, qed_aio_write_data(r)
  PROVE  IInv'
<1>1. Called("data", r) /\ UNCHANGED abort
  BY DEF qed_aio_write_data
<1>2. CASE qed_aio_write_inplace(r) /\ run.ret = "FOUND" /\ UNCHANGED allocVars
  <2>1. Kept(r) /\ acb'[r].found = "FOUND"
    BY <1>1, <1>2 DEF qed_aio_write_inplace, Kept, IInv, Shape, allocVars
  <2>2. Ends(r, {"main"}, {}) /\ {"main"} \in SUBSET ReqCalls
    BY <1>2 DEF qed_aio_write_inplace, Ends, Call, ReqCalls
  <2>3. io'[r] = NoIo /\ (run' = Idle \/ run'.fn = "main")
    BY <2>2, EndsFacts
  <2>4. ~ Holds(r)'
    BY <2>1, <2>3 DEF Holds, Running, HolderCalls, HolderOps
  <2> QED
    BY <1>1, <2>1, <2>2, <2>4, RequestStep
<1>3. CASE qed_aio_write_alloc(r)
  BY <1>1, <1>3, WriteAllocStep
<1>4. CASE /\ acb' = [acb EXCEPT ![r].found = run.ret]
           /\ Call(r, "complete", r, run.ret)
           /\ UNCHANGED allocVars
  <2>1. Kept(r)
    BY <1>1, <1>4 DEF Kept, IInv, Shape, allocVars
  <2>2. Ends(r, LookupCalls, LookupOps)
    BY <1>4 DEF Ends, Call, LookupCalls
  <2> QED
    BY <1>1, <2>1, <2>2, LookupStep
<1> QED
  BY <1>2, <1>3, <1>4 DEF qed_aio_write_data

-----------------------------------------------------------------------------
(* Starting and completing a request.                                       *)

\* A new request is not queued and runs nothing yet.
LEMMA SetupStep ==
  ASSUME IInv, NEW r \in Reqs, qed_aio_setup(r)
  PROVE  IInv'
<1>0. r # Timer /\ DOMAIN io = Reqs \cup {Timer}
  BY QedAssumption DEF IInv, Shape
<1>1. run = Idle /\ io[r] = NoIo /\ ~ InQueue(r)
  BY DEF qed_aio_setup, IInv, Busy
<1>2. /\ UNCHANGED <<queue, plugged, timer, abort>>
      /\ run'.fn = "next_io" /\ run'.r = r /\ run' # Idle
      /\ io' = [io EXCEPT ![r] = NoIo]
  BY DEF qed_aio_setup, Call, CallWith, allocVars
<1>3. \A a \in Reqs \cup {Timer} : io'[a] = io[a]
  BY <1>0, <1>1, <1>2
<1>4. /\ DOMAIN acb' = Reqs
      /\ \A s \in Reqs : /\ "st" \in DOMAIN acb'[s] /\ "found" \in DOMAIN acb'[s]
                         /\ s # r => acb'[s] = acb[s]
      /\ acb'[r].st = "busy"
  <2>1. PICK w \in BOOLEAN, e \in Extents :
          acb' = [acb EXCEPT ![r] =
                    [Unused EXCEPT !.st = "busy", !.write = w, !.start = e[1],
                        !.pos = e[1], !.end = e[2],
                        !.before = {v \in Reqs : acb[v].st = "done"}]]
    BY DEF qed_aio_setup
  <2>2. "st" \in DOMAIN Unused /\ "found" \in DOMAIN Unused
    BY DEF Unused
  <2>3. acb'[r] = [Unused EXCEPT !.st = "busy", !.write = w, !.start = e[1],
                        !.pos = e[1], !.end = e[2],
                        !.before = {v \in Reqs : acb[v].st = "done"}]
    BY <2>1 DEF IInv, Shape
  <2>4. acb'[r].st = "busy" /\ "st" \in DOMAIN acb'[r] /\ "found" \in DOMAIN acb'[r]
    BY <2>2, <2>3
  <2> QED
    BY <2>1, <2>4 DEF IInv, Shape
<1>5. Shape'
  BY <1>2, <1>4 DEF IInv, Shape
<1>6. CallShape'
  BY <1>1, <1>2, <1>3 DEF IInv, CallShape, ReqCalls
<1>7. Busy'
  BY <1>1, <1>2, <1>3, <1>4 DEF IInv, Busy, Running, InQueue
<1>8. Frozens'
  BY <1>0, <1>1, <1>2, <1>3, ElementOfSeq DEF IInv, Shape, Frozens, Running, InQueue
<1>9. HolderIsHead'
  <2>1. \A s \in Reqs : Holds(s)' => Holds(s)
    BY <1>1, <1>2, <1>3, <1>4 DEF Holds, Running, HolderOps, HolderCalls
  <2> QED
    BY <1>2, <2>1 DEF IInv, HolderIsHead, IsHead
<1>10. Plug' /\ TimerQuiet' /\ QueueAssertions'
  BY <1>1, <1>2, <1>3 DEF IInv, Plug, TimerQuiet, QueueAssertions
<1> QED
  BY <1>5, <1>6, <1>7, <1>8, <1>9, <1>10 DEF IInv

\* A request whose bottom half runs has left the queue.
LEMMA CompleteBhStep ==
  ASSUME IInv, NEW r \in Reqs, qed_aio_complete_bh(r)
  PROVE  IInv'
<1>1. io[r] = NoIo /\ ~ InQueue(r) /\ ~ Running(r)
  BY DEF qed_aio_complete_bh, IInv, Busy
<1>2. UNCHANGED <<queue, plugged, timer, abort, run, io>>
  BY DEF qed_aio_complete_bh, allocVars
<1>3. /\ DOMAIN acb' = Reqs
      /\ \A s \in Reqs : /\ "st" \in DOMAIN acb'[s] /\ "found" \in DOMAIN acb'[s]
                         /\ acb'[s].found = acb[s].found
                         /\ s # r => acb'[s].st = acb[s].st
  BY DEF qed_aio_complete_bh, IInv, Shape
<1>4. Shape' /\ CallShape'
  BY <1>2, <1>3 DEF IInv, Shape, CallShape
<1>5. Busy'
  BY <1>1, <1>2, <1>3 DEF IInv, Busy, Running, InQueue
<1>6. Frozens' /\ Plug' /\ TimerQuiet' /\ QueueAssertions'
  BY <1>2 DEF IInv, Frozens, Running, Plug, TimerQuiet, QueueAssertions
<1>7. HolderIsHead'
  BY <1>2, <1>3 DEF IInv, HolderIsHead, Holds, Running, IsHead
<1> QED
  BY <1>4, <1>5, <1>6, <1>7 DEF IInv

\* Completing a request hands the queue to the next one.
LEMMA CompleteStep ==
  ASSUME IInv, NEW r \in Reqs, qed_aio_complete(r)
  PROVE  IInv'
<1>0. /\ run = Idle \/ Running(r)
      /\ \A i \in 1 .. Len(queue) : queue[i] = r => i = 1 /\ ~ plugged
  BY CalledFacts DEF qed_aio_complete
<1>1. queue \in Seq(Reqs) /\ r # Timer /\ DOMAIN io = Reqs \cup {Timer} /\ Len(queue) \in Nat
  BY QedAssumption, LenProperties DEF IInv, Shape
<1>2. UNCHANGED <<plugged, abort>>
  BY DEF qed_aio_complete
<1>3. /\ DOMAIN acb' = Reqs
      /\ \A s \in Reqs : /\ "st" \in DOMAIN acb'[s] /\ "found" \in DOMAIN acb'[s]
                         /\ s # r => acb'[s] = acb[s]
  BY DEF qed_aio_complete, IInv, Shape
<1>4. io' = [io EXCEPT ![r] = NoIo]
  BY DEF qed_aio_complete, Call, CallWith, Return
<1>5. /\ io'[r] = NoIo
      /\ \A a \in Reqs \cup {Timer} : a # r => io'[a] = io[a]
  BY <1>1, <1>4
<1>6. NoIo.op \notin TimerOps \cup HolderOps \cup {"main"}
  BY DEF TimerOps, HolderOps
<1>7. CASE ~ IsHead(r) /\ Return(r) /\ UNCHANGED <<queue, timer>>
  <2>1. run' = Idle /\ UNCHANGED <<queue, timer>>
    BY <1>7 DEF Return
  <2>2. \A i \in 1 .. Len(queue) : queue[i] # r
    BY <1>0, <1>1, <1>7, HeadTailProperties, EmptySeq DEF IsHead
  <2>3. Shape' /\ CallShape'
    BY <1>2, <1>3, <1>4, <1>5, <1>6, <2>1 DEF IInv, Shape, CallShape
  <2>4. Busy'
    BY <1>3, <1>5, <2>1, <2>2 DEF IInv, Busy, Running, InQueue
  <2>5. Frozens'
    BY <1>1, <1>2, <1>5, <2>1, <2>2, ElementOfSeq DEF IInv, Frozens, Running
  <2>6. HolderIsHead'
    <3>1. \A s \in Reqs : Holds(s)' => Holds(s)
      BY <1>3, <1>5, <1>6, <2>1 DEF Holds, Running
    <3> QED
      BY <1>2, <2>1, <3>1 DEF IInv, HolderIsHead, IsHead
  <2>7. Plug' /\ TimerQuiet' /\ QueueAssertions'
    BY <1>0, <1>1, <1>2, <1>5, <2>1
    DEF IInv, Plug, TimerQuiet, QueueAssertions, Running, CallShape, ReqCalls
  <2> QED
    BY <2>3, <2>4, <2>5, <2>6, <2>7 DEF IInv
<1>8. CASE IsHead(r) /\ Len(queue) > 1 /\ queue' = Tail(queue)
           /\ Call(r, "next_io", queue[2], "0") /\ UNCHANGED timer
  <2>1. queue[1] = r /\ queue # <<>>
    BY <1>1, <1>8, HeadTailProperties, EmptySeq DEF IsHead
  <2>2. /\ queue' \in Seq(Reqs) /\ Len(queue') = Len(queue) - 1
        /\ \A i \in 1 .. Len(queue') : queue'[i] = queue[i + 1]
    BY <1>1, <1>8, <2>1, HeadTailProperties
  <2>3. ~ plugged /\ ~ plugged' /\ timer' = timer
    BY <1>0, <1>1, <1>2, <1>8, <2>1
  <2>4. /\ run'.fn = "next_io" /\ run'.r = queue[2] /\ run' # Idle
    BY <1>8 DEF Call, CallWith
  <2>5. \A i \in 2 .. Len(queue) : queue[i] # r /\ queue[i] \in Reqs
                                   /\ io[queue[i]] = NoIo
    BY <1>1, <2>1, ElementOfSeq DEF IInv, Frozens
  <2>6. Shape' /\ CallShape'
    BY <1>1, <1>2, <1>3, <1>4, <1>5, <1>6, <1>8, <2>2, <2>3, <2>4, <2>5
    DEF IInv, Shape, CallShape, ReqCalls
  <2>7. Busy'
    <3>1. ASSUME NEW s \in Reqs, io'[s] # NoIo \/ Running(s)' \/ InQueue(s)'
          PROVE  s # r /\ acb[s].st = "busy"
      <4>1. CASE io'[s] # NoIo
        BY <1>5, <4>1 DEF IInv, Busy
      <4>2. CASE Running(s)'
        <5>1. 2 \in 1 .. Len(queue) /\ 2 \in 2 .. Len(queue) /\ queue[2] = s
          BY <1>1, <1>8, <2>4, <4>2 DEF Running
        <5> QED
          BY <2>5, <5>1 DEF IInv, Busy, InQueue
      <4>3. CASE InQueue(s)'
        <5>1. PICK i \in 1 .. Len(queue') : queue'[i] = s
          BY <4>3 DEF InQueue
        <5>2. i + 1 \in 2 .. Len(queue) /\ i + 1 \in 1 .. Len(queue) /\ queue[i + 1] = s
          BY <1>1, <2>2, <5>1
        <5> QED
          BY <2>5, <5>2 DEF IInv, Busy, InQueue
      <4> QED
        BY <3>1, <4>1, <4>2, <4>3
    <3> QED
      BY <1>3, <3>1 DEF Busy
  <2>8. Frozens'
    <3>1. \A i, j \in 1 .. Len(queue') : queue'[i] = queue'[j] => i = j
      BY <1>1, <2>2 DEF IInv, Frozens
    <3>2. ASSUME NEW i \in 1 .. Len(queue'), i > 1 \/ plugged'
          PROVE  io'[queue'[i]] = NoIo /\ ~ Running(queue[i])'
      <4>1. i > 1 /\ i + 1 \in 2 .. Len(queue) /\ queue'[i] = queue[i + 1]
        BY <1>1, <2>2, <2>3, <3>2
      <4>2. io'[queue'[i]] = NoIo
        BY <1>5, <2>5, <4>1
      <4>3. queue[i + 1] # queue[2]
        BY <1>1, <1>8, <4>1 DEF IInv, Frozens
      <4> QED
        BY <2>4, <4>1, <4>2, <4>3 DEF Running
    <3> QED
      BY <3>1, <3>2 DEF Frozens
  <2>9. HolderIsHead'
    <3>1. ASSUME NEW s \in Reqs, Holds(s)' PROVE FALSE
      <4>1. s # r /\ Holds(s)
        BY <1>3, <1>5, <1>6, <2>4, <3>1 DEF Holds, Running, HolderCalls
      <4>2. Head(queue) = s
        BY <4>1 DEF IInv, HolderIsHead, IsHead
      <4> QED
        BY <1>8, <4>1, <4>2 DEF IsHead
    <3> QED
      BY <3>1 DEF HolderIsHead
  <2>10. Plug' /\ TimerQuiet' /\ QueueAssertions'
    BY <1>1, <1>2, <1>5, <2>1, <2>3, <2>4 DEF IInv, Plug, TimerQuiet, QueueAssertions
  <2> QED
    BY <2>6, <2>7, <2>8, <2>9, <2>10 DEF IInv
<1>9. CASE queue = <<r>> /\ queue' = <<>> /\ Return(r) /\ timer' \in BOOLEAN
  <2>1. run' = Idle /\ Len(queue') = 0 /\ queue' \in Seq(Reqs)
    BY <1>9, EmptySeq DEF Return
  <2>2. ~ plugged /\ ~ plugged' /\ Head(queue) = r /\ queue # <<>>
    BY <1>0, <1>1, <1>2, <1>9
  <2>3. Shape' /\ CallShape'
    BY <1>2, <1>3, <1>4, <1>5, <1>6, <1>9, <2>1 DEF IInv, Shape, CallShape
  <2>4. Busy'
    BY <1>3, <1>5, <2>1 DEF IInv, Busy, Running, InQueue
  <2>5. Frozens'
    BY <2>1 DEF Frozens
  <2>6. HolderIsHead'
    <3>1. ASSUME NEW s \in Reqs, Holds(s)' PROVE FALSE
      <4>1. s # r /\ Holds(s)
        BY <1>3, <1>5, <1>6, <2>1, <3>1 DEF Holds, Running
      <4> QED
        BY <2>2, <4>1 DEF IInv, HolderIsHead, IsHead
    <3> QED
      BY <3>1 DEF HolderIsHead
  <2>7. Plug' /\ TimerQuiet' /\ QueueAssertions'
    BY <1>1, <1>2, <1>5, <1>9, <2>1, <2>2 DEF IInv, Plug, TimerQuiet, QueueAssertions
  <2> QED
    BY <2>3, <2>4, <2>5, <2>6, <2>7 DEF IInv
<1>10. timer' \in {timer, TRUE} => timer' \in BOOLEAN
  BY DEF IInv, Shape
<1> QED
  BY <1>7, <1>8, <1>9, <1>10 DEF qed_aio_complete, qed_start_need_check_timer

-----------------------------------------------------------------------------
(* The host's I/O and the need-check timer.                                 *)

\* The host changes an I/O's status, not who waits for it.
LEMMA HostIoStep ==
  ASSUME IInv, NEW a \in Reqs \cup {Timer}, HostIo(a)
  PROVE  IInv'
<1>1. UNCHANGED <<queue, plugged, timer, run, abort>> /\ run = Idle
  BY DEF HostIo, allocVars
<1>2. PICK ret \in {"0", "EIO"} : Finished(a, ret)
  BY DEF HostIo
<1>3. io[a] # NoIo /\ DOMAIN io = Reqs \cup {Timer}
  BY DEF HostIo, IInv, Shape
<1>4. /\ DOMAIN io' = Reqs \cup {Timer}
      /\ \A b \in Reqs \cup {Timer} :
           /\ io'[b].op = io[b].op
           /\ io'[b] = NoIo <=> io[b] = NoIo
  BY <1>2, <1>3 DEF Finished
<1>5. /\ DOMAIN acb' = Reqs
      /\ \A s \in Reqs : /\ "st" \in DOMAIN acb'[s] /\ "found" \in DOMAIN acb'[s]
                         /\ acb'[s].st = acb[s].st
                         /\ acb'[s].found = acb[s].found
  <2>1. acb' = acb \/ \E x : acb' = [acb EXCEPT ![a].got = x]
    BY DEF HostIo, Transfer
  <2> QED
    BY <2>1 DEF IInv, Shape
<1>6. Shape' /\ CallShape'
  BY <1>1, <1>4, <1>5 DEF IInv, Shape, CallShape
<1>7. Busy'
  BY <1>1, <1>4, <1>5 DEF IInv, Busy, Running, InQueue
<1>8. Frozens'
  BY <1>1, <1>4, ElementOfSeq DEF IInv, Shape, Frozens, Running
<1>9. HolderIsHead'
  BY <1>1, <1>4, <1>5 DEF IInv, HolderIsHead, Holds, Running, IsHead
<1>10. Plug' /\ TimerQuiet' /\ QueueAssertions'
  BY <1>1, <1>4 DEF IInv, Plug, TimerQuiet, QueueAssertions
<1> QED
  BY <1>6, <1>7, <1>8, <1>9, <1>10 DEF IInv

\* The timer fires only when the queue is empty and open, and plugs it.
LEMMA TimerCbStep ==
  ASSUME IInv, qed_need_check_timer_cb
  PROVE  IInv'
<1>1. timer /\ run = Idle /\ run' = Idle /\ timer' = FALSE /\ plugged' = TRUE
      /\ UNCHANGED <<queue, acb>>
  BY DEF qed_need_check_timer_cb, StartIo, timerVars
<1>2. queue = <<>> /\ ~ plugged
  BY <1>1 DEF IInv, TimerQuiet
<1>3. /\ DOMAIN io' = Reqs \cup {Timer}
      /\ \A s \in Reqs : io'[s] = io[s]
      /\ io'[Timer].op = "t_flush"
  BY QedAssumption DEF qed_need_check_timer_cb, StartIo, IInv, Shape
<1>4. abort' = "none"
  BY <1>2 DEF qed_need_check_timer_cb
<1>5. Len(queue) = 0
  BY <1>2, EmptySeq
<1>6. Shape' /\ CallShape'
  BY <1>1, <1>3 DEF IInv, Shape, CallShape, TimerOps
<1>7. Busy' /\ Frozens'
  BY <1>1, <1>3, <1>5 DEF IInv, Busy, Frozens, Running, InQueue
<1>8. HolderIsHead'
  <2>1. \A s \in Reqs : Holds(s)' => Holds(s)
    BY <1>1, <1>3 DEF Holds, Running
  <2> QED
    BY <1>2, <2>1 DEF IInv, HolderIsHead, IsHead
<1>9. Plug' /\ TimerQuiet' /\ QueueAssertions'
  BY <1>1, <1>3, <1>4 DEF Plug, TimerQuiet, QueueAssertions
<1> QED
  BY <1>6, <1>7, <1>8, <1>9 DEF IInv

\* The two steps in the middle of the timer's chain keep the queue plugged.
LEMMA ClearSteps ==
  ASSUME IInv, qed_clear_need_check \/ qed_flush_after_clear_need_check
  PROVE  IInv'
<1>1. run = Idle
  <2>1. Called("clear", Timer) \/ Called("cleared", Timer)
    BY DEF qed_clear_need_check, qed_flush_after_clear_need_check
  <2> QED
    BY <2>1, QedAssumption DEF Called, IInv, CallShape
<1>2. io[Timer] # NoIo /\ plugged
  BY <1>1 DEF qed_clear_need_check, qed_flush_after_clear_need_check, Called, IInv, Plug
<1>3. UNCHANGED <<queue, plugged, timer, acb, abort>>
  BY DEF qed_clear_need_check, qed_flush_after_clear_need_check, timerVars, allocVars
<1>4. /\ DOMAIN io' = Reqs \cup {Timer}
      /\ \A s \in Reqs : io'[s] = io[s]
      /\ \/ run'.fn = "unplug" /\ run'.r = Timer /\ io'[Timer] = NoIo
         \/ run' = Idle /\ io'[Timer].op = "t_header"
  BY QedAssumption
  DEF qed_clear_need_check, qed_flush_after_clear_need_check, qed_write_header, Call,
      CallWith, StartIo, IInv, Shape
<1>5. \A s \in Reqs : ~ Running(s)'
  BY <1>4, QedAssumption DEF Running
<1>6. Shape' /\ CallShape'
  BY <1>3, <1>4 DEF IInv, Shape, CallShape, TimerOps
<1>7. Busy'
  BY <1>3, <1>4, <1>5 DEF IInv, Busy, InQueue
<1>8. Frozens'
  BY <1>3, <1>4, <1>5, ElementOfSeq DEF IInv, Shape, Frozens, Running
<1>9. HolderIsHead'
  <2>1. \A s \in Reqs : Holds(s)' => Holds(s)
    BY <1>3, <1>4, <1>5 DEF Holds
  <2> QED
    BY <1>3, <2>1 DEF IInv, HolderIsHead, IsHead
<1>10. Plug' /\ TimerQuiet' /\ QueueAssertions'
  BY <1>2, <1>3, <1>4 DEF IInv, Plug, TimerQuiet, QueueAssertions
<1> QED
  BY <1>6, <1>7, <1>8, <1>9, <1>10 DEF IInv

\* Unplugging restarts the head of the queue, which was standing still.
LEMMA UnplugStep ==
  ASSUME IInv, qed_unplug_allocating_write_reqs
  PROVE  IInv'
<1>1. run.fn = "unplug" /\ run.r = Timer
  BY DEF qed_unplug_allocating_write_reqs, Called, Callback
<1>2. plugged /\ io[Timer] = NoIo /\ ~ timer
  BY <1>1 DEF IInv, Plug, CallShape, TimerQuiet
<1>3. abort' = "none" /\ plugged' = FALSE /\ UNCHANGED <<queue, timer, acb>>
  BY <1>2 DEF qed_unplug_allocating_write_reqs, timerVars
<1>4. DOMAIN io' = Reqs \cup {Timer} /\ \A a \in Reqs \cup {Timer} : io'[a] = io[a]
  BY <1>2 DEF qed_unplug_allocating_write_reqs, Return, Call, CallWith, IInv, Shape
<1>5. run' = Idle \/ (queue # <<>> /\ run'.fn = "next_io" /\ run'.r = Head(queue))
  BY DEF qed_unplug_allocating_write_reqs, Return, Call, CallWith
<1>6. queue # <<>> => /\ 1 \in 1 .. Len(queue)
                      /\ Head(queue) = queue[1] /\ queue[1] \in Reqs
                      /\ io[queue[1]] = NoIo /\ acb[queue[1]].st = "busy"
  <2>1. queue # <<>> => 1 \in 1 .. Len(queue) /\ Head(queue) = queue[1] /\ queue[1] \in Reqs
    BY HeadTailProperties, LenProperties, EmptySeq, ElementOfSeq DEF IInv, Shape
  <2> QED
    BY <1>2, <2>1 DEF IInv, Frozens, Busy, InQueue
<1>7. Shape'
  BY <1>3, <1>4 DEF IInv, Shape
<1>8. CallShape'
  BY <1>4, <1>5, <1>6 DEF IInv, CallShape, ReqCalls
<1>9. Busy'
  BY <1>3, <1>4, <1>5, <1>6 DEF IInv, Busy, Running, InQueue
<1>10. Frozens'
  <2>1. ASSUME NEW i \in 1 .. Len(queue), i > 1
        PROVE  io'[queue[i]] = NoIo /\ ~ Running(queue[i])'
    <3>1. queue[i] \in Reqs /\ io[queue[i]] = NoIo
      BY <1>2, <2>1, ElementOfSeq DEF IInv, Shape, Frozens
    <3>2. queue # <<>> => queue[i] # queue[1]
      BY <1>6, <2>1 DEF IInv, Frozens
    <3> QED
      BY <1>3, <1>4, <1>5, <1>6, <3>1, <3>2 DEF Running
  <2> QED
    BY <1>3, <2>1 DEF IInv, Frozens, Running
<1>11. HolderIsHead'
  <2>1. \A s \in Reqs : ~ Holds(s)
    BY <1>2 DEF IInv, HolderIsHead
  <2>2. \A s \in Reqs : Holds(s)' => Holds(s)
    BY <1>3, <1>4, <1>5 DEF Holds, Running, HolderCalls
  <2> QED
    BY <2>1, <2>2 DEF HolderIsHead
<1>12. Plug' /\ TimerQuiet' /\ QueueAssertions'
  BY <1>2, <1>3, <1>4, <1>5 DEF Plug, TimerQuiet, QueueAssertions
<1> QED
  BY <1>7, <1>8, <1>9, <1>10, <1>11, <1>12 DEF IInv

-----------------------------------------------------------------------------
(* The theorems.                                                            *)

\* One case per action.
LEMMA NextIInv == IInv /\ [Next]_vars => IInv'
<1> SUFFICES ASSUME IInv, [Next]_vars PROVE IInv'
  OBVIOUS
<1>1. ASSUME NEW r \in Reqs, Request(r) PROVE IInv'
  BY <1>1, LookupSteps, HolderSteps, WriteMainStep, WriteDataStep, CompleteStep,
     CompleteBhStep DEF Request
<1>2. CASE NeedCheck
  BY <1>2, TimerCbStep, ClearSteps, UnplugStep DEF NeedCheck
<1>3. ASSUME NEW a \in Reqs \cup {Timer}, HostIo(a) PROVE IInv'
  BY <1>3, HostIoStep
<1>4. ASSUME NEW r \in Reqs, qed_aio_setup(r) PROVE IInv'
  BY <1>4, SetupStep
<1>5. CASE UNCHANGED vars
  <2>1. UNCHANGED <<queue, plugged, timer, acb, io, run, abort>>
    BY <1>5 DEF vars, allocVars
  <2>2. Shape' /\ CallShape' /\ Plug' /\ TimerQuiet' /\ QueueAssertions'
    BY <2>1 DEF IInv, Shape, CallShape, Plug, TimerQuiet, QueueAssertions
  <2>3. Busy' /\ Frozens' /\ HolderIsHead'
    BY <2>1 DEF IInv, Busy, Frozens, HolderIsHead, Holds, Running, InQueue, IsHead
  <2> QED
    BY <2>2, <2>3 DEF IInv
<1> QED
  BY <1>1, <1>2, <1>3, <1>4, <1>5 DEF Next, Driver

\* The invariant implies that allocating writes are serial.
LEMMA SerialFollows == IInv => AllocatingWritesSerial
<1> SUFFICES ASSUME IInv PROVE AllocatingWritesSerial
  OBVIOUS
<1>1. \A r \in Reqs : Allocating(r) => IsHead(r) /\ ~ plugged
  BY DEF IInv, HolderIsHead, Holds, Allocating, HolderOps
<1>2. \A i \in 1 .. Len(queue) : i > 1 \/ plugged => ~ Active(queue[i])
  BY DEF IInv, Frozens, Active, Running
<1>3. \A i, j \in 1 .. Len(queue) : queue[i] = queue[j] => i = j
  BY DEF IInv, Frozens
<1> QED
  BY <1>1, <1>2, <1>3 DEF AllocatingWritesSerial

\* Every step of the driver keeps the inductive invariant.
THEOREM Invariance == Spec => []IInv
<1>1. Init => IInv
  BY InitIInv
<1>2. IInv /\ [Next]_vars => IInv'
  BY NextIInv
<1> QED
  BY <1>1, <1>2, PTL DEF Spec

\* The three assertions about the queue in qed_need_check_timer_cb,
\* qed_plug_allocating_write_reqs and qed_unplug_allocating_write_reqs never
\* fail, however requests, the timer and I/O errors interleave.
THEOREM AssertionsHold == Spec => []QueueAssertions
<1>1. IInv => QueueAssertions
  BY DEF IInv
<1> QED
  BY <1>1, Invariance, PTL

\* Writes that allocate clusters run one at a time, none of them while the
\* timer's chain has the queue plugged, for any number of requests.
THEOREM AllocatingWritesAreSerial == Spec => []AllocatingWritesSerial
<1>1. IInv => AllocatingWritesSerial
  BY SerialFollows
<1> QED
  BY <1>1, Invariance, PTL
-----------------------------------------------------------------------------
(* The dirty mark.                                                          *)

\* r's write of the header with the flag set is under way.
Marking(r) == io[r].op = "header" /\ io[r].st = "busy"

\* Without a backing file, whoever allocates has set the flag in memory; and what is
\* set in memory is set in the file, or about to be.
Marked ==
    /\ ~ backing => \A r \in Reqs : Holds(r) => need_check
    /\ need_check => disk_check \/ \E r \in Reqs : Marking(r)

\* The flag and its copy in the file stay as they are, nobody starts to allocate, and
\* no header write that is under way ends.
LEMMA MarkStays ==
  ASSUME Marked, UNCHANGED <<backing, need_check, disk_check>>,
         \A s \in Reqs : Holds(s)' => Holds(s) \/ need_check \/ backing,
         \A s \in Reqs : Marking(s) => Marking(s)'
  PROVE  Marked'
BY DEF Marked

\* Who is called has no I/O under way.
LEMMA CalledNotMarking ==
  ASSUME IInv, NEW r \in Reqs, NEW fn, fn # "none", Called(fn, r)
  PROVE  ~ Marking(r)
BY DEF Called, Marking, IInv, CallShape

\* A step of r that ends in a call on r, in an I/O of r or in a return.
LEMMA RequestMark ==
  ASSUME IInv, Marked, NEW r \in Reqs, NEW fn, fn # "none", Called(fn, r), Kept(r),
         NEW fns \in SUBSET ReqCalls, NEW ops, Ends(r, fns, ops),
         UNCHANGED <<backing, need_check, disk_check>>,
         Holds(r)' => Holds(r) \/ need_check \/ backing
  PROVE  Marked'
<1>1. \A s \in Reqs : s # r => io'[s] = io[s] /\ ~ Running(s)'
  BY EndsFacts
<1>2. \A s \in Reqs : s # r /\ Holds(s)' => Holds(s)
  BY <1>1 DEF Holds, Kept
<1>3. \A s \in Reqs : Marking(s) => Marking(s)'
  BY <1>1, CalledNotMarking DEF Marking
<1> QED
  BY <1>2, <1>3, MarkStays

\* The functions of a request that do not decide to allocate.
LEMMA RequestMarks ==
  ASSUME IInv, Marked, NEW r \in Reqs,
         \/ qed_aio_next_io(r) \/ qed_find_cluster(r) \/ qed_read_l2_table_cb(r)
         \/ qed_find_cluster_cb(r) \/ qed_aio_read_data(r)
         \/ qed_aio_write_prefill(r) \/ qed_aio_write_postfill(r)
         \/ qed_aio_write_flush_before_l2_update(r) \/ qed_aio_write_l2_update(r)
         \/ qed_write_table_cb(r) \/ qed_aio_write_l1_update(r)
         \/ qed_commit_l2_update(r) \/ qed_aio_write_main(r)
  PROVE  Marked'
<1>1. UNCHANGED <<backing, need_check, disk_check>>
  BY DEF qed_aio_next_io, qed_find_cluster, qed_read_l2_table_cb, qed_find_cluster_cb,
         qed_aio_read_data, qed_aio_write_prefill, qed_aio_write_postfill,
         qed_aio_write_flush_before_l2_update, qed_aio_write_l2_update, qed_write_table_cb,
         qed_aio_write_l1_update, qed_commit_l2_update, qed_aio_write_main,
         fileVars, allocVars, writeVars
<1>2. CASE \/ qed_aio_next_io(r) \/ qed_find_cluster(r) \/ qed_read_l2_table_cb(r)
           \/ qed_find_cluster_cb(r) \/ qed_aio_read_data(r)
  <2>1. PICK fn : fn # "none" /\ Called(fn, r) /\ Kept(r) /\ Ends(r, LookupCalls, LookupOps)
    BY <1>2, LookupForm
  <2>2. LookupCalls \in SUBSET ReqCalls
    BY DEF LookupCalls, ReqCalls
  <2>3. /\ run' = Idle \/ run'.fn \in LookupCalls
        /\ io'[r] = NoIo \/ io'[r].op \in LookupOps
    BY <2>1, <2>2, EndsFacts
  <2>4. ~ Holds(r)'
    BY <2>3 DEF Holds, Running, LookupCalls, LookupOps, HolderCalls, HolderOps
  <2> QED
    BY <1>1, <2>1, <2>2, <2>4, RequestMark
<1>3. CASE \/ qed_aio_write_prefill(r) \/ qed_aio_write_postfill(r)
           \/ qed_aio_write_flush_before_l2_update(r) \/ qed_aio_write_l2_update(r)
           \/ qed_write_table_cb(r) \/ qed_aio_write_l1_update(r)
           \/ qed_commit_l2_update(r)
  <2>1. PICK fn : /\ fn # "none" /\ Called(fn, r) /\ Kept(r) /\ Ends(r, ReqCalls, HolderIo)
                  /\ Holds(r)
    BY <1>3, HolderForm
  <2> QED
    BY <1>1, <2>1, RequestMark
<1>4. CASE qed_aio_write_main(r)
  <2>1. Called("main", r) /\ acb' = acb
    BY <1>4 DEF qed_aio_write_main, writeVars
  <2>2. Kept(r)
    BY <1>4 DEF qed_aio_write_main, Kept, IInv, Shape, allocVars, writeVars
  <2>3. Ends(r, {"complete"}, {"main"}) /\ {"complete"} \in SUBSET ReqCalls
    BY <1>4 DEF qed_aio_write_main, Ends, Call, ReqCalls
  <2>4. /\ run' = Idle \/ run'.fn = "complete"
        /\ io'[r] = NoIo \/ io'[r].op = "main"
    BY <2>3, EndsFacts
  <2>5. Holds(r)' => acb[r].found # "FOUND"
    BY <2>1, <2>4 DEF Holds, Running, HolderCalls, HolderOps
  <2>6. Holds(r)' => Holds(r)
    BY <2>1, <2>5, CalledHolds
  <2> QED
    BY <1>1, <2>1, <2>2, <2>3, <2>6, RequestMark
<1> QED
  BY <1>2, <1>3, <1>4

\* An allocating write that goes on has found the flag set, or sets it and writes the
\* header; with a backing file it needs neither.
LEMMA WriteDataMark ==
  ASSUME IInv, Marked, NEW r \in Reqs, qed_aio_write_data(r)
  PROVE  Marked'
<1>1. Called("data", r) /\ UNCHANGED <<backing, disk_check>>
  BY DEF qed_aio_write_data, fileVars
<1>2. ~ Marking(r) /\ r # Timer /\ DOMAIN io = Reqs \cup {Timer}
  BY <1>1, CalledNotMarking, QedAssumption DEF IInv, Shape
<1>3. \A s \in Reqs : s # r => acb'[s].found = acb[s].found
  BY DEF qed_aio_write_data, qed_aio_write_inplace, qed_aio_write_alloc, IInv, Shape
<1>4. \/ /\ UNCHANGED need_check
         /\ \/ Call(r, "main", r, "0") /\ acb'[r].found = "FOUND"
            \/ Call(r, "complete", r, run.ret)
            \/ Return(r)
      \/ /\ UNCHANGED need_check /\ (need_check \/ backing)
         /\ Call(r, "prefill", r, "0")
      \/ /\ need_check' = TRUE /\ ~ backing
         /\ StartIo(r, "header", 0)
  BY DEF qed_aio_write_data, qed_aio_write_inplace, qed_aio_write_alloc, qed_write_header,
         qed_should_set_need_check, allocVars, IInv, Shape
<1>5. /\ \A s \in Reqs : s # r => io'[s] = io[s] /\ ~ Running(s)'
  BY <1>2, <1>4 DEF Call, CallWith, Return, StartIo, Running
<1>6. \A s \in Reqs : s # r /\ Holds(s)' => Holds(s)
  BY <1>3, <1>5 DEF Holds
<1>7. \A s \in Reqs : Marking(s) => Marking(s)'
  BY <1>2, <1>5 DEF Marking
<1>8. CASE UNCHANGED need_check /\ (need_check \/ backing)
  BY <1>1, <1>6, <1>7, <1>8, MarkStays
<1>9. CASE /\ UNCHANGED need_check
           /\ \/ Call(r, "main", r, "0") /\ acb'[r].found = "FOUND"
              \/ Call(r, "complete", r, run.ret)
              \/ Return(r)
  <2>1. ~ Holds(r)'
    BY <1>2, <1>9 DEF Call, CallWith, Return, Holds, Running, HolderOps, HolderCalls
  <2> QED
    BY <1>1, <1>6, <1>7, <1>9, <2>1, MarkStays
<1>10. CASE need_check' = TRUE /\ ~ backing /\ StartIo(r, "header", 0)
  <2>1. Marking(r)'
    BY <1>2, <1>10 DEF StartIo, Marking
  <2> QED
    BY <1>10, <2>1 DEF Marked
<1> QED
  BY <1>4, <1>8, <1>9, <1>10

\* Starting, completing and answering a request.
LEMMA OtherMarks ==
  ASSUME IInv, Marked, NEW r \in Reqs,
         qed_aio_setup(r) \/ qed_aio_complete(r) \/ qed_aio_complete_bh(r)
  PROVE  Marked'
<1>1. UNCHANGED <<backing, need_check, disk_check>>
  BY DEF qed_aio_setup, qed_aio_complete, qed_aio_complete_bh, fileVars, allocVars
<1>2. DOMAIN io = Reqs \cup {Timer} /\ DOMAIN acb = Reqs
  BY DEF IInv, Shape
<1>3. CASE qed_aio_setup(r) \/ qed_aio_complete(r)
  <2>1. io' = [io EXCEPT ![r] = NoIo] /\ (run' = Idle \/ run'.fn = "next_io")
    <3>1. ASSUME qed_aio_setup(r)
          PROVE  io' = [io EXCEPT ![r] = NoIo] /\ run'.fn = "next_io"
      <4>1. Call(r, "next_io", r, "0")
        BY <3>1 DEF qed_aio_setup
      <4> QED
        BY <4>1 DEF Call, CallWith
    <3>2. qed_aio_complete(r) => Return(r) \/ Call(r, "next_io", queue[2], "0")
      BY DEF qed_aio_complete
    <3>3. Return(r) => io' = [io EXCEPT ![r] = NoIo] /\ run' = Idle
      BY DEF Return
    <3>4. Call(r, "next_io", queue[2], "0")
            => io' = [io EXCEPT ![r] = NoIo] /\ run'.fn = "next_io"
      BY DEF Call, CallWith
    <3> QED
      BY <1>3, <3>1, <3>2, <3>3, <3>4
  <2>2. \A s \in Reqs : s # r => acb'[s] = acb[s] /\ io'[s] = io[s]
    BY <1>2, <1>3, <2>1 DEF qed_aio_setup, qed_aio_complete
  <2>3. \A s \in Reqs : Holds(s)' => Holds(s)
    BY <1>2, <2>1, <2>2 DEF Holds, Running, HolderOps, HolderCalls
  <2>4. ~ Marking(r)
    <3>1. CASE qed_aio_setup(r)
      <4>1. acb[r].st # "busy"
        BY <3>1 DEF qed_aio_setup
      <4>2. io[r] = NoIo
        BY <4>1 DEF IInv, Busy
      <4> QED
        BY <4>2 DEF Marking
    <3>2. CASE qed_aio_complete(r)
      BY <3>2, CalledNotMarking DEF qed_aio_complete
    <3> QED
      BY <1>3, <3>1, <3>2
  <2>5. \A s \in Reqs : Marking(s) => Marking(s)'
    BY <2>2, <2>4 DEF Marking
  <2> QED
    BY <1>1, <2>3, <2>5, MarkStays
<1>4. CASE qed_aio_complete_bh(r)
  <2>1. UNCHANGED <<io, run>> /\ \A s \in Reqs : acb'[s].found = acb[s].found
    BY <1>2, <1>4 DEF qed_aio_complete_bh
  <2> QED
    BY <1>1, <2>1, MarkStays DEF Holds, Running, Marking
<1> QED
  BY <1>3, <1>4

\* The timer clears the flag while the queue is plugged, so that nobody holds it.
LEMMA TimerMark ==
  ASSUME IInv, Marked, NeedCheck
  PROVE  Marked'
<1>1. UNCHANGED <<backing, disk_check, acb>>
  BY DEF NeedCheck, qed_need_check_timer_cb, qed_clear_need_check,
         qed_flush_after_clear_need_check, qed_unplug_allocating_write_reqs, timerVars,
         fileVars
<1>2. need_check' \in {need_check, FALSE}
  BY DEF NeedCheck, qed_need_check_timer_cb, qed_clear_need_check,
         qed_flush_after_clear_need_check, qed_unplug_allocating_write_reqs, allocVars
<1>3. /\ \A s \in Reqs : io'[s] = io[s]
      /\ run' = Idle \/ run'.fn \in {"unplug", "next_io"}
  BY QedAssumption
  DEF NeedCheck, qed_need_check_timer_cb, qed_clear_need_check,
      qed_flush_after_clear_need_check, qed_unplug_allocating_write_reqs,
      qed_write_header, StartIo, Return, Call, CallWith, IInv, Shape
<1>4. \A s \in Reqs : Holds(s)' => Holds(s)
  BY <1>1, <1>3 DEF Holds, Running, HolderCalls
<1>5. \A s \in Reqs : Marking(s) => Marking(s)'
  BY <1>3 DEF Marking
<1>6. CASE UNCHANGED need_check
  BY <1>1, <1>4, <1>5, <1>6, MarkStays
<1>7. CASE ~ UNCHANGED need_check
  <2>1. qed_clear_need_check
    BY <1>7 DEF NeedCheck, qed_need_check_timer_cb,
         qed_flush_after_clear_need_check, qed_unplug_allocating_write_reqs, allocVars
  <2>2. io[Timer] # NoIo
    BY <2>1, QedAssumption DEF qed_clear_need_check, Called, IInv, CallShape
  <2>3. \A s \in Reqs : ~ Holds(s)
    BY <2>2 DEF IInv, Plug, HolderIsHead
  <2> QED
    BY <1>2, <1>4, <1>7, <2>3 DEF Marked
<1> QED
  BY <1>6, <1>7

\* A header write that succeeds puts the flag of the moment into the file.
LEMMA HostIoMark ==
  ASSUME IInv, Marked, "header" \notin FailOps, NEW a \in Reqs \cup {Timer}, HostIo(a)
  PROVE  Marked'
<1>1. UNCHANGED <<backing, need_check, run>> /\ DOMAIN io = Reqs \cup {Timer}
  BY DEF HostIo, Transfer, allocVars, fileVars, IInv, Shape
<1>2. PICK ret \in {"0", "EIO"} : Finished(a, ret)
  BY DEF HostIo
<1>3. /\ \A b \in Reqs \cup {Timer} : io'[b].op = io[b].op
      /\ \A b \in Reqs \cup {Timer} : b # a => io'[b] = io[b]
  BY <1>1, <1>2 DEF Finished
<1>4. \A s \in Reqs : acb'[s].found = acb[s].found
  <2>1. acb' = acb \/ \E x : acb' = [acb EXCEPT ![a].got = x]
    BY DEF HostIo, Transfer
  <2> QED
    BY <2>1 DEF IInv, Shape
<1>5. \A s \in Reqs : Holds(s)' => Holds(s)
  BY <1>1, <1>3, <1>4 DEF Holds, Running
<1>6. \/ UNCHANGED disk_check /\ io[a].op # "header"
      \/ disk_check' = need_check
  BY DEF HostIo, Transfer, fileVars
<1>7. CASE UNCHANGED disk_check /\ io[a].op # "header"
  <2>1. \A s \in Reqs : Marking(s) => Marking(s)'
    BY <1>3, <1>7 DEF Marking
  <2> QED
    BY <1>1, <1>5, <1>7, <2>1, MarkStays
<1>8. CASE disk_check' = need_check
  BY <1>1, <1>5, <1>8 DEF Marked
<1> QED
  BY <1>6, <1>7, <1>8

\* While an allocating write of an image without a backing file changes the tables in
\* the file, the file is marked dirty, provided no write of the header fails
\* (qed_aio_write_alloc, qed_need_check_timer_cb, qed_clear_need_check): the result of
\* that write is not looked at.
THEOREM FileIsMarked ==
  ASSUME "header" \notin FailOps
  PROVE  Spec => []DirtyWhileUpdating
<1>1. Init => Marked
  BY DEF Init, Marked, Holds, Running, HolderOps
<1>2. IInv /\ Marked /\ [Next]_vars => Marked'
  <2> SUFFICES ASSUME IInv, Marked, [Next]_vars PROVE Marked'
    OBVIOUS
  <2>1. ASSUME NEW r \in Reqs, Request(r) \/ qed_aio_setup(r) PROVE Marked'
    BY <2>1, RequestMarks, WriteDataMark, OtherMarks DEF Request
  <2>2. ASSUME NEW a \in Reqs \cup {Timer}, HostIo(a) PROVE Marked'
    BY <2>2, HostIoMark
  <2>3. CASE UNCHANGED vars
    BY <2>3 DEF vars, fileVars, allocVars, Marked, Marking, Holds, Running
  <2> QED
    BY <2>1, <2>2, <2>3, TimerMark DEF Next, Driver
<1>3. IInv /\ Marked => DirtyWhileUpdating
  <2> SUFFICES ASSUME IInv, Marked, NEW r \in Reqs, ~ backing,
                      io[r].op \in {"l2_new", "l2_part", "l2_flush", "l1_write"}
               PROVE  disk_check
    BY DEF DirtyWhileUpdating
  <2>1. Holds(r) /\ IsHead(r) /\ need_check
    BY DEF Holds, HolderOps, IInv, HolderIsHead, Marked
  <2>2. \A s \in Reqs : Marking(s) => s = r
    BY <2>1 DEF Marking, Holds, HolderOps, IInv, HolderIsHead, IsHead
  <2>3. ~ Marking(r)
    BY DEF Marking
  <2> QED
    BY <2>1, <2>2, <2>3 DEF Marked
<1> QED
  BY <1>1, <1>2, <1>3, Invariance, PTL DEF Spec

-----------------------------------------------------------------------------
(* The cache and the layout of the file.  A request's chain is looking up a *)
(* cluster, has new clusters that no table refers to yet, or has a new L2   *)
(* table that the cache does not know yet.                                  *)

Looking(r) ==
    \/ io[r].op = "l2_read"
    \/ (Running(r) /\ run.fn \in {"find_cluster", "find_cluster_cb"})

Unlinked(r) ==
    \/ io[r].op \in {"header", "prefill", "postfill", "flush"}
    \/ (io[r].op = "main" /\ acb[r].found # "FOUND")
    \/ (Running(r) /\ run.fn \in {"prefill", "postfill"})
    \/ (Running(r) /\ run.fn = "main" /\ acb[r].found # "FOUND")

NewTable(r) ==
    \/ io[r].op \in {"l2_new", "l2_flush"}
    \/ (Running(r) /\ run.fn = "l1_update")

\* Nobody but r knows its entry.
Private(r) == io[r].op \in {"l2_read", "l1_write"} \/ NewTable(r)

\* r goes on to use the table of its entry.
HasTable(r) ==
    \/ Private(r)
    \/ io[r].op = "l2_part"
    \/ (Unlinked(r) /\ acb[r].found # "L1")
    \/ (Running(r) /\ run.fn = "find_cluster_cb" /\ run.ret = "0")
    \/ (Running(r) /\ run.fn = "data" /\ run.ret \in {"FOUND", "ZERO", "L2"})

\* Freed entries are empty; the cache is within its size and has one entry
\* for an offset.
CacheShape ==
    /\ \A e \in Entries : ent[e].ref = 0 => ent[e] = Freed
    /\ Len(cache) <= CacheSize
    /\ \A i \in 1 .. Len(cache) : ent[cache[i]].offset # 0
    /\ \A i, j \in 1 .. Len(cache) :
         ent[cache[i]].offset = ent[cache[j]].offset => i = j

\* What r holds an entry for.
HeldBy(r) ==
    /\ acb[r].st # "busy" => acb[r].l2 = NoEntry
    /\ HasTable(r) => acb[r].l2 # NoEntry
    /\ Private(r) => /\ acb[r].l2 \notin Cached
                     /\ \A s \in Reqs : s # r => acb[s].l2 # acb[r].l2
    /\ acb[r].l2 # NoEntry => (io[r].op = "l2_read" <=> ent[acb[r].l2].offset = 0)
    /\ io[r].op \in {"l2_new", "l2_part"} => io[r].off = ent[acb[r].l2].offset
    /\ io[r].op = "l2_read" => io[r].off \in Offsets \ {0}

\* What r's calls hand on, and the range of its reads.
ChainBy(r) ==
    /\ acb[r].end <= TableNElems * TableNElems * ClusterSectors
    /\ Looking(r) => acb[r].pos < acb[r].end
    /\ Running(r) /\ run.fn = "data" /\ run.ret = "FOUND" =>
         run.off + Into(acb[r].pos) + run.len <= FileSectors
    /\ io[r].op = "data_read" => io[r].off + acb[r].len <= FileSectors

Chains ==
    /\ run.fn # "data" => run.ret \in Rets
    /\ \A r \in Reqs : HeldBy(r) /\ ChainBy(r)

\* The offsets that tables are at, and the clusters the versions of a table at
\* o refer to: in the file, in an entry, or being read from the file.
Tab(o) ==
    /\ o # 0
    /\ \/ \E i \in Index : l1[i] = o \/ disk_l1[i] = o
       \/ \E e \in Entries : ent[e].offset = o
       \/ \E r \in Reqs : io[r].op = "l2_read" /\ io[r].off = o

Ref(o, j, c) ==
    /\ c \notin {Unalloc, ZeroCluster}
    /\ \/ disk_l2[o][j] = c
       \/ o # 0 /\ \E e \in Entries : ent[e].offset = o /\ ent[e].table[j] = c
       \/ \E r \in Reqs : io[r].op = "l2_read" /\ io[r].off = o
                          /\ ent[acb[r].l2].table[j] = c

\* The part [o, o + size) of the file is used for tables or data.
InFile(o, size) == o \in Offsets /\ o >= L1Offset + TableSectors /\ o + size <= file_size
Apart(o, m, p, n) == o + m <= p \/ p + n <= o

\* Tables and clusters do not overlap, and no cluster belongs to two entries,
\* whichever version of a table one looks at.
Layout ==
    /\ file_size \in Offsets /\ file_size >= L1Offset + TableSectors
    /\ \A i, k \in Index : l1[i] = l1[k] /\ l1[i] # Unalloc => i = k
    /\ \A i, k \in Index : disk_l1[i] = disk_l1[k] /\ disk_l1[i] # Unalloc => i = k
    /\ \A o \in Addresses : Tab(o) => InFile(o, TableSectors)
    /\ \A o, p \in Addresses :
         Tab(o) /\ Tab(p) /\ o # p => Apart(o, TableSectors, p, TableSectors)
    /\ \A o \in Offsets, j \in Index, c \in Addresses : Ref(o, j, c) =>
         /\ InFile(c, ClusterSectors)
         /\ \A p \in Addresses : Tab(p) => Apart(c, ClusterSectors, p, TableSectors)
    /\ \A o, p \in Offsets, j, k \in Index, c \in Addresses :
         Ref(o, j, c) /\ Ref(p, k, c) => o = p /\ j = k

\* r's new clusters are behind everything that is referred to, and its new table
\* is not in the L1 table.
FreshBy(r) ==
    /\ Unlinked(r) =>
         /\ InFile(acb[r].cluster, acb[r].n * ClusterSectors)
         /\ \A o \in Addresses : Tab(o) => o + TableSectors <= acb[r].cluster
         /\ \A o \in Offsets, j \in Index, c \in Addresses :
              Ref(o, j, c) => c + ClusterSectors <= acb[r].cluster
    /\ NewTable(r) => \A i \in Index : l1[i] # ent[acb[r].l2].offset

Fresh == \A r \in Reqs : FreshBy(r)

\* The inductive invariant.
CInv ==
    /\ IInv
    /\ TypeOK
    /\ ReferencesExact
    /\ CacheShape
    /\ Chains
    /\ Layout
    /\ Fresh

-----------------------------------------------------------------------------
(* Smallest and largest elements.                                           *)

\* A set of naturals that is not empty has a smallest element, and Min is it.
LEMMA MinFacts ==
  ASSUME NEW S \in SUBSET Nat, S # {}
  PROVE  Min(S) \in S /\ \A y \in S : Min(S) <= y
<1> DEFINE R == OpToRel(<, Nat)
<1>1. PICK x \in S : \A y \in S : ~(<<y, x>> \in R)
  <2>1. IsWellFoundedOn(R, Nat)
    BY NatLessThanWellFounded
  <2> HIDE DEF R
  <2> QED
    BY <2>1, WFMin
<1>2. \A y \in Nat : <<y, x>> \in R <=> y < x
  BY DEF OpToRel
<1> HIDE DEF R
<1>3. \A y \in S : y \in Nat /\ ~(y < x)
  BY <1>1, <1>2
<1>4. \A y \in S : x <= y
  BY <1>3
<1> QED
  BY <1>4 DEF Min

\* The same for the largest one of a bounded set.
LEMMA MaxFacts ==
  ASSUME NEW b \in Nat, NEW S \in SUBSET (0 .. b), S # {}
  PROVE  Max(S) \in S
<1> DEFINE T == {b - x : x \in S}
<1>0. \A x \in S : b - x \in Nat
  OBVIOUS
<1>1. T \in SUBSET Nat /\ T # {}
  BY <1>0
<1>2. Min(T) \in T /\ \A y \in T : Min(T) <= y
  BY <1>1, MinFacts
<1>3. PICK x \in S : Min(T) = b - x
  BY <1>2
<1>4. \A y \in S : b - x <= b - y
  BY <1>2, <1>3
<1>5. \A y \in S : x >= y
  BY <1>4
<1> QED
  BY <1>5 DEF Max

\* Of two numbers.
LEMMA MinOfTwo ==
  ASSUME NEW x \in Nat, NEW y \in Nat
  PROVE  Min({x, y}) = IF x <= y THEN x ELSE y
<1>1. Min({x, y}) \in {x, y} /\ \A z \in {x, y} : Min({x, y}) <= z
  BY MinFacts
<1> QED
  BY <1>1

-----------------------------------------------------------------------------
(* Arithmetic of the layout.                                                *)

\* Quotient and remainder.
LEMMA DivMod ==
  ASSUME NEW v \in Nat, NEW n \in Nat \ {0}
  PROVE  /\ v \div n \in Nat
         /\ v = n * (v \div n) + (v % n) /\ v % n \in 0 .. n - 1
         /\ \A m \in Nat : v < m * n => v \div n < m
         /\ \A m \in Nat : v >= m * n => v \div n >= m
<1>1. v \div n \in Int /\ v = n * (v \div n) + (v % n) /\ v % n \in 0 .. n - 1
  OBVIOUS
<1> DEFINE q == v \div n
           r == v % n
<1> HIDE DEF q, r
<1>2. q \in Int /\ r \in 0 .. n - 1 /\ v = n * q + r
  BY <1>1 DEF q, r
<1>3. q >= 0
  <2> SUFFICES ASSUME q <= 0 - 1 PROVE FALSE
    BY <1>2
  <2>1. n * q <= n * (0 - 1)
    BY <1>2
  <2> QED
    BY <1>2, <2>1
<1>4. ASSUME NEW m \in Nat, v < m * n PROVE q < m
  <2> SUFFICES ASSUME q >= m PROVE FALSE
    BY <1>2
  <2>1. n * q >= n * m
    BY <1>2
  <2> QED
    BY <1>2, <1>4, <2>1
<1>5. ASSUME NEW m \in Nat, v >= m * n PROVE q >= m
  <2> SUFFICES ASSUME q <= m - 1 PROVE FALSE
    BY <1>2
  <2>1. n * q <= n * (m - 1)
    BY <1>2
  <2>2. n * (m - 1) = m * n - n
    OBVIOUS
  <2> QED
    BY <1>2, <1>5, <2>1, <2>2
<1> QED
  BY <1>1, <1>2, <1>3, <1>4, <1>5 DEF q, r

\* A position's indices.
LEMMA IndexFacts ==
  ASSUME NEW p \in Nat
  PROVE  /\ L2Index(p) \in Index
         /\ Into(p) \in 0 .. ClusterSectors - 1
         /\ p < TableNElems * TableNElems * ClusterSectors => L1Index(p) \in Index
<1>1. ClusterSectors \in Nat \ {0} /\ TableNElems \in Nat \ {0}
  BY QedAssumption
<1>2. p \div ClusterSectors \in Nat
  BY <1>1, DivMod
<1>3. L2Index(p) \in Index
  <2> DEFINE q == p \div ClusterSectors
  <2> HIDE DEF q
  <2>1. q \in Nat
    BY <1>2 DEF q
  <2>2. q % TableNElems \in 0 .. TableNElems - 1
    BY <2>1, <1>1, DivMod
  <2> QED
    BY <2>2 DEF L2Index, Index, q
<1>4. Into(p) \in 0 .. ClusterSectors - 1
  BY <1>1, DivMod DEF Into
<1>5. ASSUME p < TableNElems * TableNElems * ClusterSectors PROVE L1Index(p) \in Index
  <2> DEFINE n == ClusterSectors * TableNElems
  <2>1. n \in Nat \ {0} /\ TableNElems * TableNElems * ClusterSectors = TableNElems * n
    BY <1>1
  <2> HIDE DEF n
  <2>2. p \div n \in Nat /\ p \div n < TableNElems
    BY <1>1, <1>5, <2>1, DivMod
  <2> QED
    BY <2>2, <1>1 DEF L1Index, Index, n
<1> QED
  BY <1>3, <1>4, <1>5

\* A part that is not empty takes at least one cluster.
LEMMA ClustersFacts ==
  ASSUME NEW m \in Nat
  PROVE  Clusters(m) \in Nat /\ (m > 0 => Clusters(m) >= 1)
<1> DEFINE C == ClusterSectors
           u == m + C - 1
<1>1. C \in Nat \ {0, 1} /\ u \in Nat
  BY QedAssumption
<1> HIDE DEF C, u
<1>2. u \div C \in Nat /\ u = C * (u \div C) + (u % C) /\ u % C \in 0 .. C - 1
  BY <1>1, DivMod
<1>3. RoundUp(m) = u - (u % C) /\ u - (u % C) \in Nat
  BY <1>1, <1>2 DEF RoundUp, Into, u, C
<1>4. m > 0 => RoundUp(m) >= C
  <2> SUFFICES ASSUME m > 0 PROVE RoundUp(m) >= C
    OBVIOUS
  <2>1. u >= 1 * C
    BY <1>1 DEF u
  <2>2. u \div C >= 1
    BY <1>1, <2>1, DivMod
  <2>3. C * (u \div C) >= C
    BY <1>1, <1>2, <2>2
  <2> QED
    BY <1>1, <1>2, <1>3, <2>3
<1> DEFINE x == RoundUp(m) * 512
           y == C * 512 - 1
<1>5. x \in Nat /\ y \in Nat \ {0} /\ (m > 0 => x >= 1 * y)
  BY <1>1, <1>3, <1>4
<1> HIDE DEF x, y
<1>6. x \div y \in Nat /\ (m > 0 => x \div y >= 1)
  BY <1>5, DivMod
<1> QED
  BY <1>6 DEF Clusters, x, y, C

-----------------------------------------------------------------------------
(* The L2 cache.                                                            *)

\* An entry of the L2 cache.
EntType == [offset : Offsets, table : Tables, ref : Nat]

\* The constants, and what lies in the layout.
LEMMA Sizes ==
  /\ TableNElems \in Nat /\ TableNElems > 1 /\ CacheSize \in Nat /\ CacheSize > 0
  /\ ClusterSectors \in Nat /\ ClusterSectors > 1 /\ TableSize \in Nat /\ TableSize > 1
  /\ TableSectors \in Nat /\ TableSectors >= 2 * ClusterSectors
  /\ FileSectors \in Nat /\ 0 \in Addresses /\ Addresses \subseteq Nat
  /\ 0 \in Offsets /\ Offsets \subseteq Addresses /\ NoTable \in Tables
  /\ Freed \in EntType /\ 0 \in Index /\ 1 \in Index /\ Index \subseteq Nat
  /\ Timer \notin Reqs /\ L1Offset = ClusterSectors
<1>1. /\ TableNElems \in Nat /\ TableNElems > 1 /\ CacheSize \in Nat /\ CacheSize > 0
      /\ ClusterSectors \in Nat /\ ClusterSectors > 1 /\ TableSize \in Nat /\ TableSize > 1
      /\ FileSectors \in Nat /\ Timer \notin Reqs
  BY QedAssumption
<1>2. TableSectors \in Nat /\ TableSectors >= 2 * ClusterSectors
  <2>1. TableSize * ClusterSectors >= 2 * ClusterSectors
    BY <1>1
  <2> QED
    BY <2>1, <1>1 DEF TableSectors
<1> DEFINE q == FileSectors \div ClusterSectors
<1>3. q \in Nat /\ q * ClusterSectors <= FileSectors
  <2>0. ClusterSectors \in Nat \ {0}
    BY <1>1
  <2>1. /\ q \in Nat /\ FileSectors = ClusterSectors * q + (FileSectors % ClusterSectors)
        /\ FileSectors % ClusterSectors \in 0 .. ClusterSectors - 1
    BY <1>1, <2>0, DivMod
  <2> HIDE DEF q
  <2> QED
    BY <2>1, <1>1
<1>4. 0 \in Offsets /\ Offsets \subseteq Addresses
  <2>1. Offsets = {k * ClusterSectors : k \in 0 .. q}
    BY DEF Offsets
  <2> HIDE DEF q
  <2>2. ASSUME NEW k \in 0 .. q PROVE k * ClusterSectors \in Addresses
    <3>1. k * ClusterSectors <= q * ClusterSectors /\ k * ClusterSectors \in Nat
      BY <1>1, <1>3
    <3> QED
      BY <3>1, <1>1, <1>3 DEF Addresses
  <2>3. 0 = 0 * ClusterSectors
    BY <1>1
  <2> QED
    BY <2>1, <2>2, <2>3, <1>3
<1>5. 0 \in Addresses /\ Addresses \subseteq Nat /\ 0 \in Index /\ 1 \in Index /\ Index \subseteq Nat
  BY <1>1 DEF Addresses, Index
<1>6. NoTable \in Tables
  BY <1>5 DEF NoTable, Tables, Unalloc
<1>7. Freed \in EntType
  BY <1>4, <1>6 DEF Freed, EntType
<1> QED
  BY <1>1, <1>2, <1>4, <1>5, <1>6, <1>7 DEF L1Offset

\* What is in the layout at a multiple of the cluster size.
LEMMA OffsetFacts ==
  /\ \A o \in Addresses : o \in Offsets <=> \E k \in Nat : o = k * ClusterSectors
  /\ \A o, p \in Offsets : o # p => Apart(o, ClusterSectors, p, ClusterSectors)
  /\ \A o \in Offsets, n \in Nat :
       o + n * ClusterSectors <= FileSectors => o + n * ClusterSectors \in Offsets
<1>0. ClusterSectors \in Nat /\ ClusterSectors > 1 /\ FileSectors \in Nat
  BY Sizes
<1> DEFINE C == ClusterSectors
           q == FileSectors \div ClusterSectors
<1>1. q \in Nat /\ \A m \in Nat : FileSectors >= m * C => q >= m
  BY <1>0, DivMod
<1>2. Offsets = {k * C : k \in 0 .. q}
  BY DEF Offsets
<1> HIDE DEF q, C
<1>3. C \in Nat /\ C > 1
  BY <1>0 DEF C
<1>4. ASSUME NEW o \in Addresses PROVE o \in Offsets <=> \E k \in Nat : o = k * C
  <2>1. o <= FileSectors
    BY <1>0 DEF Addresses
  <2>2. ASSUME NEW k \in Nat, o = k * C PROVE k \in 0 .. q
    BY <2>1, <2>2, <1>1, <1>3
  <2> QED
    BY <2>2, <1>1, <1>2
<1>5. ASSUME NEW o \in Offsets, NEW p \in Offsets, o # p PROVE Apart(o, C, p, C)
  <2>1. PICK k \in 0 .. q, m \in 0 .. q : o = k * C /\ p = m * C
    BY <1>2
  <2>2. ASSUME NEW x \in Nat, NEW y \in Nat, x < y PROVE x * C + C <= y * C
    <3>1. (y - x - 1) \in Nat /\ (y - x - 1) * C >= 0
      BY <2>2, <1>3
    <3>2. (y - x - 1) * C = y * C - x * C - C
      BY <1>3
    <3>3. x * C \in Nat /\ y * C \in Nat
      BY <1>3
    <3> QED
      BY <3>1, <3>2, <3>3, <1>3
  <2>3. k < m \/ m < k
    BY <2>1, <1>5, <1>1
  <2> QED
    BY <2>1, <2>2, <2>3, <1>1 DEF Apart
<1>6. ASSUME NEW o \in Offsets, NEW n \in Nat, o + n * C <= FileSectors
      PROVE  o + n * C \in Offsets
  <2>1. PICK k \in 0 .. q : o = k * C
    BY <1>2
  <2>2. o + n * C = (k + n) * C /\ k + n \in Nat /\ (k + n) * C \in Nat
    BY <2>1, <1>1, <1>3
  <2>3. o + n * C \in Addresses
    BY <2>2, <1>6, <1>0 DEF Addresses
  <2> QED
    BY <2>2, <2>3, <1>4
<1> QED
  BY <1>4, <1>5, <1>6 DEF C

\* A lookup finds an entry of the cache at the offset, or there is none.
LEMMA FindFacts ==
  ASSUME NEW es, NEW c \in Seq(Entries), NEW off
  PROVE  LET hit == qed_find_l2_cache_entry(es, c, off)
         IN  \/ hit = NoEntry /\ \A i \in 1 .. Len(c) : es[c[i]].offset # off
             \/ hit \in Entries /\ \E i \in 1 .. Len(c) : hit = c[i] /\ es[c[i]].offset = off
<1> DEFINE hits == {i \in 1 .. Len(c) : es[c[i]].offset = off}
<1>1. CASE hits = {}
  BY <1>1 DEF qed_find_l2_cache_entry
<1>2. CASE hits # {}
  <2>1. Min(hits) \in hits
    <3>1. hits \in SUBSET Nat
      OBVIOUS
    <3> QED
      BY <3>1, <1>2, MinFacts
  <2>2. qed_find_l2_cache_entry(es, c, off) = c[Min(hits)]
    BY <1>2 DEF qed_find_l2_cache_entry
  <2>3. c[Min(hits)] \in Entries
    BY <2>1
  <2> QED
    BY <2>1, <2>2, <2>3
<1> QED
  BY <1>1, <1>2

\* An entry is not the absence of one.
LEMMA EntryFacts == NoEntry \notin Entries /\ Entries \subseteq Nat
<1>1. Cardinality(Reqs) \in Nat /\ CacheSize \in Nat
  BY QedAssumption, FS_CardinalityType
<1> QED
  BY <1>1 DEF Entries, NoEntry

\* Dropping a reference.
LEMMA UnrefFacts ==
  ASSUME NEW es \in [Entries -> EntType], NEW x \in Entries \cup {NoEntry},
         x # NoEntry => es[x].ref >= 1
  PROVE  LET u == qed_unref_l2_cache_entry(es, x)
         IN  /\ u \in [Entries -> EntType]
             /\ \A e \in Entries : /\ u[e].ref = es[e].ref - (IF e = x THEN 1 ELSE 0)
                                   /\ e # x => u[e] = es[e]
                                   /\ \/ u[e] = Freed
                                      \/ u[e].offset = es[e].offset /\ u[e].table = es[e].table
                                   /\ e = x /\ u[e].ref = 0 => u[e] = Freed
<1>1. CASE x = NoEntry
  <2>1. qed_unref_l2_cache_entry(es, x) = es /\ x \notin Entries
    BY <1>1, EntryFacts DEF qed_unref_l2_cache_entry
  <2>2. \A e \in Entries : es[e].ref \in Nat
    BY DEF EntType
  <2> QED
    BY <2>1, <2>2
<1>2. CASE x # NoEntry /\ es[x].ref = 1
  <2>1. qed_unref_l2_cache_entry(es, x) = [es EXCEPT ![x] = Freed]
    BY <1>2 DEF qed_unref_l2_cache_entry
  <2>2. Freed \in EntType /\ Freed.ref = 0
    BY Sizes DEF Freed
  <2>3. \A e \in Entries : es[e].ref \in Nat
    BY DEF EntType
  <2>4. /\ [es EXCEPT ![x] = Freed] \in [Entries -> EntType]
        /\ \A e \in Entries : [es EXCEPT ![x] = Freed][e] = IF e = x THEN Freed ELSE es[e]
    BY <2>2
  <2> QED
    BY <1>2, <2>1, <2>2, <2>3, <2>4
<1>3. CASE x # NoEntry /\ es[x].ref # 1
  <2>1. qed_unref_l2_cache_entry(es, x) = [es EXCEPT ![x].ref = @ - 1]
    BY <1>3 DEF qed_unref_l2_cache_entry
  <2>2. es[x] \in EntType /\ es[x].ref \in Nat /\ es[x].ref > 1 /\ es[x].ref - 1 \in Nat
    BY <1>3 DEF EntType
  <2> DEFINE y == [es[x] EXCEPT !.ref = @ - 1]
             u == [es EXCEPT ![x] = y]
  <2>3. /\ y \in EntType /\ y.ref = es[x].ref - 1 /\ y.ref # 0
        /\ y.offset = es[x].offset /\ y.table = es[x].table
    BY <2>2 DEF EntType
  <2>4. qed_unref_l2_cache_entry(es, x) = u
    BY <2>1, <1>3
  <2>5. \A e \in Entries : es[e].ref \in Nat
    BY DEF EntType
  <2> HIDE DEF y
  <2>6. u \in [Entries -> EntType] /\ \A e \in Entries : u[e] = IF e = x THEN y ELSE es[e]
    BY <2>3
  <2> HIDE DEF u
  <2> QED
    BY <2>3, <2>4, <2>5, <2>6
<1> QED
  BY <1>1, <1>2, <1>3

\* A request, an I/O and a call in progress.
AcbType == [st : {"unused", "busy", "bh", "done"}, write : BOOLEAN,
            start : Nat, pos : Nat, end : Nat, len : Nat,
            cluster : Addresses, n : Nat, found : {"none"} \cup Found \cup Rets,
            l2 : Entries \cup {NoEntry}, ret : Rets,
            before : SUBSET Reqs, got : [Sectors -> Contents]]
IoType == [op : Ops, off : Nat, st : {"none", "busy", "0", "EIO"}]
RunType == [fn : CallNames, r : Reqs \cup {Timer}, ret : Rets \cup Found,
            off : Addresses, len : Nat]

\* The parts of the type invariant by name.
LEMMA TypeFacts ==
  ASSUME TypeOK
  PROVE  /\ ent \in [Entries -> EntType] /\ acb \in [Reqs -> AcbType]
         /\ io \in [Reqs \cup {Timer} -> IoType] /\ run \in RunType
         /\ cache \in Seq(Entries) /\ file_size \in Addresses
         /\ l1 \in Tables /\ disk_l1 \in Tables /\ disk_l2 \in [Offsets -> Tables]
         /\ \A r \in Reqs : /\ acb[r].l2 \in Entries \cup {NoEntry} /\ acb[r].pos \in Nat
                            /\ acb[r].end \in Nat /\ acb[r].len \in Nat /\ acb[r].n \in Nat
                            /\ acb[r].cluster \in Addresses /\ io[r].off \in Nat
         /\ \A e \in Entries : /\ ent[e].offset \in Offsets /\ ent[e].table \in Tables
                               /\ ent[e].ref \in Nat
         /\ \A i \in 1 .. Len(cache) : cache[i] \in Entries
<1>1. /\ ent \in [Entries -> EntType] /\ acb \in [Reqs -> AcbType]
      /\ io \in [Reqs \cup {Timer} -> IoType] /\ run \in RunType
      /\ cache \in Seq(Entries) /\ file_size \in Addresses
      /\ l1 \in Tables /\ disk_l1 \in Tables /\ disk_l2 \in [Offsets -> Tables]
  BY DEF TypeOK, EntType, AcbType, IoType, RunType
<1>2. \A r \in Reqs : /\ acb[r].l2 \in Entries \cup {NoEntry} /\ acb[r].pos \in Nat
                      /\ acb[r].end \in Nat /\ acb[r].len \in Nat /\ acb[r].n \in Nat
                      /\ acb[r].cluster \in Addresses /\ io[r].off \in Nat
  BY <1>1 DEF AcbType, IoType
<1>3. \A e \in Entries : /\ ent[e].offset \in Offsets /\ ent[e].table \in Tables
                         /\ ent[e].ref \in Nat
  BY <1>1 DEF EntType
<1>4. \A i \in 1 .. Len(cache) : cache[i] \in Entries
  BY <1>1
<1> QED
  BY <1>1, <1>2, <1>3, <1>4

\* The requests that use e.
Users(a, e) == {s \in Reqs : a[s].l2 = e}

\* The requests that use an entry are finitely many, and when r exchanges one
\* entry for another the numbers of users follow.
LEMMA UsersMoved ==
  ASSUME NEW a, NEW b, NEW r \in Reqs, \A s \in Reqs : s # r => b[s].l2 = a[s].l2, NEW e
  PROVE  /\ Cardinality(Users(a, e)) \in Nat
         /\ Cardinality(Users(b, e)) =
              Cardinality(Users(a, e)) - (IF a[r].l2 = e THEN 1 ELSE 0)
                                       + (IF b[r].l2 = e THEN 1 ELSE 0)
<1>1. IsFiniteSet(Reqs)
  BY QedAssumption
<1> DEFINE U == Users(a, e)
           V == Users(b, e)
<1>2. IsFiniteSet(U) /\ IsFiniteSet(V)
  <2>1. U \in SUBSET Reqs /\ V \in SUBSET Reqs
    BY DEF Users
  <2> QED
    BY <1>1, <2>1, FS_Subset
<1>3. U \ {r} = V \ {r}
  BY DEF Users
<1>4. (r \in U <=> a[r].l2 = e) /\ (r \in V <=> b[r].l2 = e)
  BY DEF Users
<1> HIDE DEF U, V
<1>5. Cardinality(U) \in Nat /\ Cardinality(V) \in Nat
  BY <1>2, FS_CardinalityType
<1>6. /\ Cardinality(U \ {r}) = IF r \in U THEN Cardinality(U) - 1 ELSE Cardinality(U)
      /\ Cardinality(V \ {r}) = IF r \in V THEN Cardinality(V) - 1 ELSE Cardinality(V)
  BY <1>2, FS_RemoveElement
<1>7. Cardinality(V) = Cardinality(U) - (IF r \in U THEN 1 ELSE 0) + (IF r \in V THEN 1 ELSE 0)
  BY <1>3, <1>5, <1>6
<1> QED
  BY <1>4, <1>5, <1>7 DEF U, V

\* A step of r that changes the references as it changes its own entry and the
\* cache keeps them exact.
LEMMA RefStep ==
  ASSUME TypeOK, ReferencesExact, NEW r \in Reqs,
         \A s \in Reqs : s # r => acb'[s].l2 = acb[s].l2,
         \A e \in Entries :
            ent'[e].ref = ent[e].ref - (IF acb[r].l2 = e THEN 1 ELSE 0)
                                     + (IF acb'[r].l2 = e THEN 1 ELSE 0)
                                     - (IF e \in Cached THEN 1 ELSE 0)
                                     + (IF e \in Cached' THEN 1 ELSE 0)
  PROVE  ReferencesExact'
<1> SUFFICES ASSUME NEW e \in Entries
             PROVE  ent'[e].ref = Cardinality(Users(acb', e)) + (IF e \in Cached' THEN 1 ELSE 0)
  BY DEF ReferencesExact, Users
<1>1. ent[e].ref = Cardinality(Users(acb, e)) + (IF e \in Cached THEN 1 ELSE 0)
  BY DEF ReferencesExact, Users
<1>2. /\ Cardinality(Users(acb, e)) \in Nat
      /\ Cardinality(Users(acb', e)) =
           Cardinality(Users(acb, e)) - (IF acb[r].l2 = e THEN 1 ELSE 0)
                                      + (IF acb'[r].l2 = e THEN 1 ELSE 0)
  BY UsersMoved
<1> QED
  BY <1>1, <1>2

\* Whatever is used has references: one from the cache, one from each user.
LEMMA RefFacts ==
  ASSUME TypeOK, ReferencesExact, NEW e \in Entries
  PROVE  /\ \A r \in Reqs : acb[r].l2 = e => ent[e].ref >= 1
         /\ e \in Cached => ent[e].ref >= 1
         /\ \A r \in Reqs : acb[r].l2 = e /\ e \in Cached => ent[e].ref >= 2
         /\ \A r, s \in Reqs : r # s /\ acb[r].l2 = e /\ acb[s].l2 = e => ent[e].ref >= 2
         /\ \A r \in Reqs : acb[r].l2 = e /\ e \notin Cached
                            /\ (\A s \in Reqs : s # r => acb[s].l2 # e) => ent[e].ref = 1
         /\ ent[e].ref # 0 => e \in Cached \/ \E r \in Reqs : acb[r].l2 = e
<1> DEFINE U == Users(acb, e)
<1>1. ent[e].ref = Cardinality(U) + (IF e \in Cached THEN 1 ELSE 0)
  BY DEF ReferencesExact, Users
<1>2. IsFiniteSet(U)
  <2>1. U \in SUBSET Reqs
    BY DEF Users
  <2> QED
    BY <2>1, QedAssumption, FS_Subset
<1>3. \A s : s \in U <=> s \in Reqs /\ acb[s].l2 = e
  BY DEF Users
<1> HIDE DEF U
<1>4. Cardinality(U) \in Nat /\ (Cardinality(U) = 0 <=> U = {})
  BY <1>2, FS_CardinalityType, FS_EmptySet
<1>5. Cardinality(U) = 1 <=> \E x : U = {x}
  BY <1>2, FS_Singleton
<1>6. ASSUME NEW r \in Reqs, acb[r].l2 = e PROVE Cardinality(U) >= 1
  BY <1>3, <1>4, <1>6
<1>7. ASSUME NEW r \in Reqs, NEW s \in Reqs, r # s, acb[r].l2 = e, acb[s].l2 = e
      PROVE  Cardinality(U) >= 2
  <2>1. ~ \E x : U = {x}
    BY <1>3, <1>7
  <2> QED
    BY <1>4, <1>5, <1>6, <1>7, <2>1
<1>8. ASSUME NEW r \in Reqs, acb[r].l2 = e, \A s \in Reqs : s # r => acb[s].l2 # e
      PROVE  Cardinality(U) = 1
  <2>1. U = {r}
    BY <1>3, <1>8
  <2> QED
    BY <1>5, <2>1
<1>9. Cardinality(U) # 0 => \E r \in Reqs : acb[r].l2 = e
  BY <1>3, <1>4
<1> QED
  BY <1>1, <1>4, <1>6, <1>7, <1>8, <1>9

\* There are more objects than references, so an allocation succeeds.
LEMMA AllocFacts ==
  ASSUME TypeOK, ReferencesExact, Len(cache) <= CacheSize, NEW es,
         \A e \in Entries : ent[e].ref = 0 => es[e].ref = 0
  PROVE  Alloc(es) \in Entries /\ es[Alloc(es)].ref = 0
<1> DEFINE T == {acb[r].l2 : r \in Reqs}
<1>0. /\ cache \in Seq(Entries) /\ Len(cache) \in Nat
      /\ Cardinality(Reqs) \in Nat /\ CacheSize \in Nat /\ IsFiniteSet(Reqs)
  BY TypeFacts, QedAssumption, FS_CardinalityType
<1>1. IsFiniteSet(T) /\ Cardinality(T) <= Cardinality(Reqs)
  <2> DEFINE f == [r \in Reqs |-> acb[r].l2]
  <2>1. f \in Surjection(Reqs, T)
    BY DEF Surjection
  <2> HIDE DEF f, T
  <2> QED
    BY <2>1, <1>0, FS_Surjection
<1>2. IsFiniteSet(Cached) /\ Cardinality(Cached) <= CacheSize
  <2>1. IsFiniteSet(1 .. Len(cache)) /\ Cardinality(1 .. Len(cache)) = Len(cache)
    <3> DEFINE m == Len(cache)
    <3>1. m \in Int /\ 1 \in Int /\ m >= 0
      BY <1>0
    <3> HIDE DEF m
    <3>2. IsFiniteSet(1 .. m) /\ Cardinality(1 .. m) = IF 1 > m THEN 0 ELSE m - 1 + 1
      BY <3>1, FS_Interval
    <3>3. Cardinality(1 .. m) = m
      BY <3>1, <3>2
    <3> QED
      BY <3>2, <3>3 DEF m
  <2> DEFINE f == [i \in 1 .. Len(cache) |-> cache[i]]
  <2>2. f \in Surjection(1 .. Len(cache), Cached)
    BY DEF Surjection, Cached
  <2> HIDE DEF f
  <2>3. IsFiniteSet(Cached) /\ Cardinality(Cached) <= Len(cache)
    BY <2>1, <2>2, FS_Surjection
  <2>4. Cardinality(Cached) \in Nat
    BY <2>3, FS_CardinalityType
  <2> QED
    BY <2>3, <2>4, <1>0
<1>3. IsFiniteSet(T \cup Cached) /\ Cardinality(T \cup Cached) <= Cardinality(Reqs) + CacheSize
  <2> HIDE DEF T
  <2>1. /\ IsFiniteSet(T \cup Cached)
        /\ Cardinality(T \cup Cached) =
             Cardinality(T) + Cardinality(Cached) - Cardinality(T \cap Cached)
    BY <1>1, <1>2, FS_Union
  <2>2. Cardinality(T) \in Nat /\ Cardinality(Cached) \in Nat
    BY <1>1, <1>2, FS_CardinalityType
  <2>3. IsFiniteSet(T \cap Cached)
    BY <1>1, FS_Intersection
  <2>4. Cardinality(T \cap Cached) \in Nat
    BY <2>3, FS_CardinalityType
  <2> QED
    BY <2>1, <2>2, <2>4, <1>0, <1>1, <1>2
<1>4. ~ (Entries \subseteq T \cup Cached)
  <2> SUFFICES ASSUME Entries \in SUBSET (T \cup Cached) PROVE FALSE
    OBVIOUS
  <2> HIDE DEF T
  <2>1. Cardinality(Entries) = Cardinality(Reqs) + CacheSize + 1
    BY <1>0, FS_Interval DEF Entries
  <2>2. Cardinality(Entries) <= Cardinality(T \cup Cached)
    BY <1>3, FS_Subset
  <2>3. Cardinality(T \cup Cached) \in Nat
    BY <1>3, FS_CardinalityType
  <2> QED
    BY <2>1, <2>2, <2>3, <1>0, <1>3
<1>5. PICK e \in Entries : e \notin T \cup Cached
  BY <1>4
<1>6. ent[e].ref = 0
  BY <1>5, RefFacts
<1>7. \E x \in Entries : es[x].ref = 0
  BY <1>6
<1> QED
  BY <1>7 DEF Alloc

\* The elements of a sequence that grows at its end or loses its first one.
LEMMA GrowFacts ==
  ASSUME NEW S, NEW c \in Seq(S), NEW e \in S
  PROVE  /\ Append(c, e) \in Seq(S) /\ Len(Append(c, e)) = Len(c) + 1 /\ Len(c) \in Nat
         /\ \A i \in 1 .. Len(c) : Append(c, e)[i] = c[i] /\ c[i] \in S
         /\ Append(c, e)[Len(c) + 1] = e
         /\ c # <<>> => /\ Tail(c) \in Seq(S) /\ Len(Tail(c)) = Len(c) - 1 /\ Len(c) >= 1
                        /\ \A i \in 1 .. Len(c) - 1 : Tail(c)[i] = c[i + 1]
                        /\ Head(c) = c[1]
<1>1. /\ Append(c, e) \in Seq(S) /\ Len(Append(c, e)) = Len(c) + 1 /\ Len(c) \in Nat
      /\ \A i \in 1 .. Len(c) : Append(c, e)[i] = c[i] /\ c[i] \in S
      /\ Append(c, e)[Len(c) + 1] = e
  OBVIOUS
<1>2. ASSUME c # <<>>
      PROVE  /\ Tail(c) \in Seq(S) /\ Len(Tail(c)) = Len(c) - 1 /\ Len(c) >= 1
             /\ \A i \in 1 .. Len(c) - 1 : Tail(c)[i] = c[i + 1]
             /\ Head(c) = c[1]
  <2>1. Len(c) >= 1 /\ Head(c) = c[1]
    BY <1>2, EmptySeq
  <2>2. Tail(c) \in Seq(S) /\ Len(Tail(c)) = Len(c) - 1
    BY <1>2, HeadTailProperties
  <2>3. \A i \in 1 .. Len(c) - 1 : Tail(c)[i] = c[i + 1]
    BY <1>2, <2>2, HeadTailProperties
  <2> QED
    BY <2>1, <2>2, <2>3
<1> QED
  BY <1>1, <1>2

\* The elements of a sequence.
Elems(c) == {c[i] : i \in 1 .. Len(c)}

\* The entries and the cache after a commit, the cache's own references counted.
Committed(es, e, n, c) ==
    /\ n \in [Entries -> EntType] /\ c \in Seq(Entries) /\ Len(c) <= CacheSize
    /\ Elems(c) \subseteq Cached \cup {e}
    /\ \A x \in Entries :
         /\ n[x].ref = ent[x].ref - (IF x = e THEN 1 ELSE 0)
                                  - (IF x \in Cached THEN 1 ELSE 0)
                                  + (IF x \in Elems(c) THEN 1 ELSE 0)
         /\ n[x] = Freed \/ (n[x].offset = es[x].offset /\ n[x].table = es[x].table)
         /\ n[x].ref = 0 => n[x] = Freed
    /\ \A i \in 1 .. Len(c) : n[c[i]].offset # 0
    /\ \A i, j \in 1 .. Len(c) : n[c[i]].offset = n[c[j]].offset => i = j
    /\ \E i \in 1 .. Len(c) : n[c[i]].offset = es[e].offset

\* r holds e, which nobody else knows; es is ent but for where e's table is.
Committing(r, es, e) ==
    /\ r \in Reqs /\ e \in Entries
    /\ acb[r].l2 = e /\ e \notin Cached
    /\ \A s \in Reqs : s # r => acb[s].l2 # e
    /\ es \in [Entries -> EntType]
    /\ \A x \in Entries : x # e => es[x] = ent[x]
    /\ es[e].ref = ent[e].ref /\ es[e].offset # 0

\* What qed_commit_l2_cache_entry does in its three cases: the table is cached
\* already, the oldest entry makes room, there is room.
LEMMA CommitCases ==
  ASSUME TypeOK, ReferencesExact, CacheShape, NEW r, NEW es, NEW e, Committing(r, es, e)
  PROVE  LET c == qed_commit_l2_cache_entry(es, e)
         IN  Committed(es, e, c.ent, c.cache)
<1>0. /\ r \in Reqs /\ e \in Entries /\ acb[r].l2 = e /\ e \notin Cached
      /\ es \in [Entries -> EntType]
      /\ \A x \in Entries : x # e => es[x] = ent[x]
      /\ es[e].ref = ent[e].ref /\ es[e].offset # 0
      /\ \A s \in Reqs : s # r => acb[s].l2 # e
  BY DEF Committing
<1>1. /\ ent \in [Entries -> EntType] /\ cache \in Seq(Entries)
      /\ \A x \in Entries : ent[x].ref \in Nat
      /\ \A i \in 1 .. Len(cache) : cache[i] \in Entries
  BY TypeFacts
<1>2. ent[e].ref = 1 /\ es[e].ref = 1
  BY <1>0, RefFacts
<1>3. /\ \A i \in 1 .. Len(cache) : /\ cache[i] # e /\ es[cache[i]] = ent[cache[i]]
                                    /\ ent[cache[i]].offset # 0 /\ cache[i] \in Cached
      /\ \A i, j \in 1 .. Len(cache) :
           ent[cache[i]].offset = ent[cache[j]].offset => i = j
      /\ Len(cache) <= CacheSize /\ Cached = Elems(cache)
      /\ \A x \in Entries : ent[x].ref = 0 => ent[x] = Freed
  BY <1>0, <1>1 DEF Cached, CacheShape, Elems
<1> DEFINE old == qed_find_l2_cache_entry(es, cache, es[e].offset)
           c == qed_commit_l2_cache_entry(es, e)
<1>4. CASE old # NoEntry
  <2> DEFINE n == qed_unref_l2_cache_entry(es, e)
  <2>1. c.ent = n /\ c.cache = cache
    BY <1>4 DEF qed_commit_l2_cache_entry
  <2>2. /\ n \in [Entries -> EntType]
        /\ \A x \in Entries : /\ n[x].ref = es[x].ref - (IF x = e THEN 1 ELSE 0)
                              /\ x # e => n[x] = es[x]
                              /\ \/ n[x] = Freed
                                 \/ n[x].offset = es[x].offset /\ n[x].table = es[x].table
                              /\ x = e /\ n[x].ref = 0 => n[x] = Freed
    BY <1>0, <1>2, UnrefFacts
  <2>3. \E i \in 1 .. Len(cache) : es[cache[i]].offset = es[e].offset
    BY <1>1, <1>4, FindFacts
  <2> HIDE DEF n
  <2>4. \A x \in Entries : /\ n[x].ref = ent[x].ref - (IF x = e THEN 1 ELSE 0)
                           /\ n[x].ref = 0 => n[x] = Freed
    BY <2>2, <1>0, <1>2, <1>3
  <2>5. \A i \in 1 .. Len(cache) : n[cache[i]] = ent[cache[i]]
    BY <2>2, <1>1, <1>3
  <2>6. Committed(es, e, n, cache)
    BY <2>2, <2>3, <2>4, <2>5, <1>1, <1>3 DEF Committed
  <2> QED
    BY <2>1, <2>6
<1>5. CASE old = NoEntry /\ Len(cache) >= CacheSize
  <2> DEFINE h == Head(cache)
             n == qed_unref_l2_cache_entry(es, h)
             d == Append(Tail(cache), e)
  <2>1. c.ent = n /\ c.cache = d
    BY <1>5 DEF qed_commit_l2_cache_entry
  <2>2. cache # <<>>
    BY <1>5, Sizes
  <2>3. /\ Tail(cache) \in Seq(Entries) /\ Len(Tail(cache)) = Len(cache) - 1 /\ Len(cache) >= 1
        /\ \A i \in 1 .. Len(cache) - 1 : Tail(cache)[i] = cache[i + 1]
        /\ h = cache[1] /\ Len(cache) \in Nat
    BY <1>0, <1>1, <2>2, GrowFacts
  <2>4. /\ d \in Seq(Entries) /\ Len(d) = Len(cache)
        /\ \A i \in 1 .. Len(cache) - 1 : d[i] = cache[i + 1]
        /\ d[Len(cache)] = e
    <3> DEFINE t == Tail(cache)
    <3> HIDE DEF t
    <3>1. /\ Append(t, e) \in Seq(Entries) /\ Len(Append(t, e)) = Len(t) + 1
          /\ \A i \in 1 .. Len(t) : Append(t, e)[i] = t[i]
          /\ Append(t, e)[Len(t) + 1] = e
      BY <1>0, <2>3, GrowFacts DEF t
    <3>2. Len(t) = Len(cache) - 1 /\ \A i \in 1 .. Len(cache) - 1 : t[i] = cache[i + 1]
      BY <2>3 DEF t
    <3>3. d = Append(t, e)
      BY DEF t
    <3> HIDE DEF d
    <3> QED
      BY <3>1, <3>2, <3>3, <2>3
  <2> HIDE DEF d, h
  <2>5. h \in Cached /\ h \in Entries /\ h # e /\ es[h].ref >= 1
    <3>1. h \in Cached /\ h \in Entries /\ h # e /\ es[h] = ent[h]
      BY <2>3, <1>1, <1>3
    <3> QED
      BY <3>1, RefFacts
  <2>6. /\ n \in [Entries -> EntType]
        /\ \A x \in Entries : /\ n[x].ref = es[x].ref - (IF x = h THEN 1 ELSE 0)
                              /\ x # h => n[x] = es[x]
                              /\ \/ n[x] = Freed
                                 \/ n[x].offset = es[x].offset /\ n[x].table = es[x].table
                              /\ x = h /\ n[x].ref = 0 => n[x] = Freed
    BY <1>0, <2>5, UnrefFacts
  <2>7. \A i \in 1 .. Len(cache) : es[cache[i]].offset # es[e].offset
    BY <1>1, <1>5, FindFacts, EntryFacts
  <2> HIDE DEF n
  <2>8. /\ \A i \in 1 .. Len(cache) - 1 : i + 1 \in 1 .. Len(cache) /\ d[i] # h /\ d[i] # e
        /\ \A i \in 1 .. Len(cache) : i < Len(cache) \/ i = Len(cache)
    <3>1. \A i \in 1 .. Len(cache) - 1 : i + 1 \in 1 .. Len(cache) /\ i + 1 # 1 /\ 1 \in 1 .. Len(cache)
      BY <2>3
    <3>2. \A i \in 1 .. Len(cache) - 1 : cache[i + 1] # cache[1] /\ cache[i + 1] # e
      BY <3>1, <1>3
    <3>3. \A i \in 1 .. Len(cache) : i < Len(cache) \/ i = Len(cache)
      <4> DEFINE m == Len(cache)
      <4>1. m \in Nat
        BY <2>3
      <4> HIDE DEF m
      <4>2. \A i \in 1 .. m : i < m \/ i = m
        BY <4>1
      <4> QED
        BY <4>2 DEF m
    <3> QED
      BY <3>1, <3>2, <3>3, <2>3, <2>4
  <2>9. \A x : x \in Elems(d) <=> x = e \/ (x \in Cached /\ x # h)
    <3>1. ASSUME NEW i \in 1 .. Len(cache), cache[i] # h
          PROVE  i - 1 \in 1 .. Len(cache) - 1 /\ d[i - 1] = cache[i]
      BY <2>3, <2>4, <3>1
    <3>2. ASSUME NEW x, x \in Cached, x # h PROVE x \in Elems(d)
      <4>1. PICK i \in 1 .. Len(cache) : x = cache[i]
        BY <3>2 DEF Cached
      <4> QED
        BY <4>1, <3>1, <3>2, <2>3, <2>4 DEF Elems
    <3>3. e \in Elems(d)
      BY <2>3, <2>4 DEF Elems
    <3>4. ASSUME NEW i \in 1 .. Len(cache), d[i] # e PROVE d[i] \in Cached /\ d[i] # h
      <4>1. i \in 1 .. Len(cache) - 1 /\ i + 1 \in 1 .. Len(cache)
        <5> DEFINE m == Len(cache)
        <5>1. m \in Nat /\ i \in 1 .. m /\ i # m
          BY <3>4, <2>3, <2>4
        <5> HIDE DEF m
        <5>2. i \in 1 .. m - 1 /\ i + 1 \in 1 .. m
          BY <5>1
        <5> QED
          BY <5>2 DEF m
      <4> QED
        BY <4>1, <2>4, <2>8, <1>3
    <3> QED
      BY <3>2, <3>3, <3>4, <2>4, <2>5 DEF Elems
  <2>10. \A x \in Entries :
           /\ n[x].ref = ent[x].ref - (IF x = e THEN 1 ELSE 0)
                                    - (IF x \in Cached THEN 1 ELSE 0)
                                    + (IF x \in Elems(d) THEN 1 ELSE 0)
           /\ n[x].ref = 0 => n[x] = Freed
    BY <2>5, <2>6, <2>9, <1>0, <1>1, <1>2, <1>3
  <2>11. \A i \in 1 .. Len(cache) - 1 : /\ n[d[i]] = ent[cache[i + 1]]
                                        /\ n[d[i]].offset # es[e].offset
    BY <2>4, <2>6, <2>7, <2>8, <1>1, <1>3
  <2>12. n[d[Len(cache)]] = es[e]
    BY <2>4, <2>5, <2>6, <1>0
  <2>13. \A i \in 1 .. Len(d) : n[d[i]].offset # 0
    BY <2>4, <2>8, <2>11, <2>12, <1>0, <1>3
  <2>14. \A i, j \in 1 .. Len(d) : n[d[i]].offset = n[d[j]].offset => i = j
    <3> SUFFICES ASSUME NEW i \in 1 .. Len(cache), NEW j \in 1 .. Len(cache),
                        n[d[i]].offset = n[d[j]].offset
                 PROVE  i = j
      BY <2>4
    <3>1. CASE i < Len(cache) /\ j < Len(cache)
      <4>1. i \in 1 .. Len(cache) - 1 /\ j \in 1 .. Len(cache) - 1
        BY <3>1, <2>3
      <4>2. ent[cache[i + 1]].offset = ent[cache[j + 1]].offset
        BY <4>1, <2>11
      <4>3. i + 1 = j + 1
        BY <4>1, <4>2, <2>8, <1>3
      <4> QED
        BY <4>3
    <3>2. CASE i = Len(cache) /\ j < Len(cache)
      BY <3>2, <2>3, <2>11, <2>12
    <3>3. CASE i < Len(cache) /\ j = Len(cache)
      BY <3>3, <2>3, <2>11, <2>12
    <3> QED
      BY <3>1, <3>2, <3>3, <2>8
  <2>15. Committed(es, e, n, d)
    BY <2>3, <2>4, <2>6, <2>9, <2>10, <2>12, <2>13, <2>14, <1>3 DEF Committed
  <2> QED
    BY <2>1, <2>15
<1>6. CASE old = NoEntry /\ ~ (Len(cache) >= CacheSize)
  <2> DEFINE d == Append(cache, e)
  <2>1. c.ent = es /\ c.cache = d
    BY <1>6 DEF qed_commit_l2_cache_entry
  <2>2. /\ d \in Seq(Entries) /\ Len(d) = Len(cache) + 1 /\ Len(cache) \in Nat
        /\ \A i \in 1 .. Len(cache) : d[i] = cache[i]
        /\ d[Len(cache) + 1] = e
    BY <1>0, <1>1, GrowFacts
  <2> HIDE DEF d
  <2>3. \A i \in 1 .. Len(cache) : es[cache[i]].offset # es[e].offset
    BY <1>1, <1>6, FindFacts, EntryFacts
  <2>4. \A i \in 1 .. Len(d) : i \in 1 .. Len(cache) \/ i = Len(cache) + 1
    BY <2>2
  <2>5. \A x : x \in Elems(d) <=> x = e \/ x \in Cached
    <3>1. e \in Elems(d)
      BY <2>2 DEF Elems
    <3>2. \A i \in 1 .. Len(cache) : i \in 1 .. Len(d)
      BY <2>2
    <3> QED
      BY <3>1, <3>2, <2>2, <2>4 DEF Elems, Cached
  <2>6. \A x \in Entries :
           /\ es[x].ref = ent[x].ref - (IF x = e THEN 1 ELSE 0)
                                     - (IF x \in Cached THEN 1 ELSE 0)
                                     + (IF x \in Elems(d) THEN 1 ELSE 0)
           /\ es[x].ref = 0 => es[x] = Freed
    BY <2>5, <1>0, <1>1, <1>2, <1>3
  <2>7. \A i, j \in 1 .. Len(d) : es[d[i]].offset = es[d[j]].offset => i = j
    BY <2>2, <2>3, <2>4, <1>3
  <2>8. Len(d) <= CacheSize
    BY <1>6, <2>2, Sizes
  <2>9. Committed(es, e, es, d)
    <3>1. Elems(d) \subseteq Cached \cup {e}
      BY <2>5
    <3>2. \A i \in 1 .. Len(d) : es[d[i]].offset # 0
      BY <2>2, <2>4, <1>0, <1>3
    <3>3. Len(cache) + 1 \in 1 .. Len(d)
      BY <2>2
    <3> QED
      BY <3>1, <3>2, <3>3, <2>2, <2>6, <2>7, <2>8, <1>0 DEF Committed
  <2> QED
    BY <2>1, <2>9
<1> QED
  BY <1>4, <1>5, <1>6

\* Committing e and looking it up again: r ends with a cached entry, or with none
\* if the freed entry was read.
LEMMA CommitStep ==
  ASSUME TypeOK, ReferencesExact, CacheShape, NEW r, NEW es, NEW e, Committing(r, es, e),
         NEW next, NEW ret, CommitAndFind(r, es, e, next, ret)
  PROVE  /\ ent' \in [Entries -> EntType] /\ cache' \in Seq(Entries)
         /\ \E x : acb' = [acb EXCEPT ![r].l2 = x]
         /\ \/ UNCHANGED abort /\ Call(r, next, r, ret) /\ acb'[r].l2 \in Entries
               /\ acb'[r].l2 \in Cached' /\ ent'[acb'[r].l2].offset # 0
            \/ abort' = "commit" /\ Return(r) /\ acb'[r].l2 = NoEntry
         /\ ReferencesExact' /\ CacheShape'
         /\ Cached' \subseteq Cached \cup {e}
         /\ \A x \in Entries :
              \/ ent'[x] = Freed
              \/ ent'[x].offset = es[x].offset /\ ent'[x].table = es[x].table
<1> DEFINE c == qed_commit_l2_cache_entry(es, e)
           hit == qed_find_l2_cache_entry(c.ent, c.cache, es[e].offset)
           n == c.ent
           d == c.cache
<1>0. r \in Reqs /\ e \in Entries /\ acb[r].l2 = e /\ acb \in [Reqs -> AcbType]
  BY TypeFacts DEF Committing
<1>1. Committed(es, e, n, d)
  BY CommitCases
<1>2. \/ /\ ent' = [n EXCEPT ![hit].ref = @ + 1] /\ cache' = d
         /\ acb' = [acb EXCEPT ![r].l2 = hit]
         /\ Call(r, next, r, ret) /\ UNCHANGED abort
      \/ /\ abort' = "commit" /\ ent' = n /\ cache' = d
         /\ acb' = [acb EXCEPT ![r].l2 = NoEntry] /\ Return(r)
  BY DEF CommitAndFind
<1>3. hit \in Entries /\ hit \in Elems(d)
  <2> HIDE DEF c
  <2>1. d \in Seq(Entries) /\ \E i \in 1 .. Len(d) : n[d[i]].offset = es[e].offset
    BY <1>1 DEF Committed
  <2>2. hit \in Entries /\ \E i \in 1 .. Len(d) : hit = d[i]
    BY <2>1, FindFacts
  <2> QED
    BY <2>2 DEF Elems
<1> HIDE DEF c, hit, n, d
<1>4. /\ n \in [Entries -> EntType] /\ d \in Seq(Entries) /\ Len(d) <= CacheSize
      /\ Elems(d) \subseteq Cached \cup {e}
      /\ \A x \in Entries :
           /\ n[x].ref = ent[x].ref - (IF x = e THEN 1 ELSE 0)
                                    - (IF x \in Cached THEN 1 ELSE 0)
                                    + (IF x \in Elems(d) THEN 1 ELSE 0)
           /\ n[x] = Freed \/ (n[x].offset = es[x].offset /\ n[x].table = es[x].table)
           /\ n[x].ref = 0 => n[x] = Freed
      /\ \A i \in 1 .. Len(d) : n[d[i]].offset # 0 /\ d[i] \in Entries
      /\ \A i, j \in 1 .. Len(d) : n[d[i]].offset = n[d[j]].offset => i = j
  BY <1>1 DEF Committed
<1>5. cache' = d /\ Cached' = Elems(d)
  BY <1>2 DEF Cached, Elems
<1>6. /\ ent' \in [Entries -> EntType]
      /\ acb'[r].l2 \in {hit, NoEntry}
      /\ \A s \in Reqs : s # r => acb'[s].l2 = acb[s].l2
      /\ \A x \in Entries : /\ ent'[x].ref = n[x].ref + (IF x = acb'[r].l2 THEN 1 ELSE 0)
                            /\ ent'[x].offset = n[x].offset /\ ent'[x].table = n[x].table
                            /\ x # acb'[r].l2 => ent'[x] = n[x]
                            /\ n[x].ref \in Nat
  <2>1. \A x \in Entries : n[x] \in EntType /\ n[x].ref \in Nat
    BY <1>4 DEF EntType
  <2>2. CASE ent' = n /\ acb' = [acb EXCEPT ![r].l2 = NoEntry]
    <3>1. acb'[r].l2 = NoEntry /\ \A s \in Reqs : s # r => acb'[s].l2 = acb[s].l2
      BY <2>2, <1>0 DEF AcbType
    <3> QED
      BY <3>1, <2>1, <2>2, <1>4, EntryFacts
  <2>3. CASE ent' = [n EXCEPT ![hit].ref = @ + 1] /\ acb' = [acb EXCEPT ![r].l2 = hit]
    <3> DEFINE y == [n[hit] EXCEPT !.ref = @ + 1]
    <3>1. /\ y \in EntType /\ y.ref = n[hit].ref + 1
          /\ y.offset = n[hit].offset /\ y.table = n[hit].table
      BY <2>1, <1>3 DEF EntType
    <3>2. ent' = [n EXCEPT ![hit] = y]
      BY <2>3
    <3> HIDE DEF y
    <3>3. ent' \in [Entries -> EntType] /\ \A x \in Entries : ent'[x] = IF x = hit THEN y ELSE n[x]
      BY <3>1, <3>2, <1>3, <1>4
    <3>4. acb'[r].l2 = hit /\ \A s \in Reqs : s # r => acb'[s].l2 = acb[s].l2
      BY <2>3, <1>0 DEF AcbType
    <3> QED
      BY <3>1, <3>3, <3>4, <2>1, <2>3
  <2> QED
    BY <2>2, <2>3, <1>2
<1>7. ReferencesExact'
  <2>1. \A x \in Entries :
            ent'[x].ref = ent[x].ref - (IF acb[r].l2 = x THEN 1 ELSE 0)
                                     + (IF acb'[r].l2 = x THEN 1 ELSE 0)
                                     - (IF x \in Cached THEN 1 ELSE 0)
                                     + (IF x \in Cached' THEN 1 ELSE 0)
    <3>1. \A x \in Entries : ent[x].ref \in Nat
      BY TypeFacts
    <3> QED
      BY <3>1, <1>0, <1>4, <1>5, <1>6
  <2> QED
    BY <2>1, <1>0, <1>6, RefStep
<1>8. CacheShape'
  <2>1. \A x \in Entries : ent'[x].ref = 0 => ent'[x] = Freed
    BY <1>4, <1>6
  <2>2. \A i \in 1 .. Len(d) : ent'[d[i]].offset = n[d[i]].offset
    BY <1>4, <1>6
  <2> QED
    BY <2>1, <2>2, <1>4, <1>5 DEF CacheShape
<1>9. \A x \in Entries : \/ ent'[x] = Freed
                         \/ ent'[x].offset = es[x].offset /\ ent'[x].table = es[x].table
  <2> SUFFICES ASSUME NEW x \in Entries, ent'[x] # Freed
               PROVE  ent'[x].offset = es[x].offset /\ ent'[x].table = es[x].table
    OBVIOUS
  <2>1. CASE n[x] # Freed
    BY <2>1, <1>4, <1>6
  <2>2. CASE n[x] = Freed
    <3>1. x = acb'[r].l2 /\ x = hit
      BY <2>2, <1>6, EntryFacts
    <3>2. n[x].offset # 0 /\ Freed.offset = 0
      BY <3>1, <1>3, <1>4 DEF Elems, Freed
    <3> QED
      BY <3>2, <2>2
  <2> QED
    BY <2>1, <2>2
<1>10. \/ UNCHANGED abort /\ Call(r, next, r, ret) /\ acb'[r].l2 \in Entries
          /\ acb'[r].l2 \in Cached' /\ ent'[acb'[r].l2].offset # 0
       \/ abort' = "commit" /\ Return(r) /\ acb'[r].l2 = NoEntry
  <2>1. n[hit].offset # 0
    BY <1>3, <1>4 DEF Elems
  <2>2. CASE acb' = [acb EXCEPT ![r].l2 = hit] /\ Call(r, next, r, ret) /\ UNCHANGED abort
    <3>1. acb'[r].l2 = hit
      BY <2>2, <1>0 DEF AcbType
    <3> QED
      BY <2>1, <2>2, <3>1, <1>3, <1>5, <1>6
  <2>3. CASE acb' = [acb EXCEPT ![r].l2 = NoEntry] /\ abort' = "commit" /\ Return(r)
    <3>1. acb'[r].l2 = NoEntry
      BY <2>3, <1>0 DEF AcbType
    <3> QED
      BY <2>3, <3>1
  <2> QED
    BY <2>2, <2>3, <1>2
<1>11. \E x : acb' = [acb EXCEPT ![r].l2 = x]
  BY <1>2
<1> QED
  BY <1>4, <1>5, <1>6, <1>7, <1>8, <1>9, <1>10, <1>11

-----------------------------------------------------------------------------
(* What a step leaves alone.                                                *)

\* s is where it was, or is about to be run from the start of its chain.
Same(s) ==
    /\ io'[s].op = io[s].op /\ io'[s].off = io[s].off
    /\ acb'[s].l2 = acb[s].l2 /\ acb'[s].found = acb[s].found
    /\ acb'[s].pos = acb[s].pos /\ acb'[s].end = acb[s].end /\ acb'[s].len = acb[s].len
    /\ acb'[s].cluster = acb[s].cluster /\ acb'[s].n = acb[s].n
    /\ acb'[s].st # "busy" => acb[s].st # "busy"
    /\ Running(s)' => run'.fn = "next_io"

\* Then it enters no stage.
LEMMA StagesKept ==
  ASSUME NEW s, Same(s)
  PROVE  /\ Looking(s)' => Looking(s)
         /\ Unlinked(s)' => Unlinked(s)
         /\ NewTable(s)' => NewTable(s)
         /\ Private(s)' => Private(s)
         /\ HasTable(s)' => HasTable(s)
<1>1. Looking(s)' => Looking(s)
  BY DEF Same, Looking
<1>2. Unlinked(s)' => Unlinked(s)
  BY DEF Same, Unlinked
<1>3. NewTable(s)' => NewTable(s)
  BY DEF Same, NewTable
<1>4. Private(s)' => Private(s)
  BY <1>3 DEF Same, Private
<1>5. HasTable(s)' => HasTable(s)
  BY <1>2, <1>4 DEF Same, HasTable
<1> QED
  BY <1>1, <1>2, <1>3, <1>4, <1>5

\* Its reads stay in range.
LEMMA SameChain ==
  ASSUME NEW s, Same(s), ChainBy(s)
  PROVE  ChainBy(s)'
BY StagesKept DEF Same, ChainBy

\* It holds what it held.
LEMMA SameHeld ==
  ASSUME NEW s, Same(s), HeldBy(s),
         acb[s].l2 # NoEntry => ent'[acb[s].l2].offset = ent[acb[s].l2].offset,
         Private(s) => /\ acb[s].l2 \notin Cached'
                       /\ \A t \in Reqs : t # s => acb'[t].l2 # acb[s].l2
  PROVE  HeldBy(s)'
<1>1. (Private(s)' => Private(s)) /\ (HasTable(s)' => HasTable(s))
  BY StagesKept
<1>2. io[s].op \in {"l2_new", "l2_part"} => acb[s].l2 # NoEntry
  BY DEF HeldBy, HasTable, Private, NewTable
<1> QED
  BY <1>1, <1>2 DEF Same, HeldBy

\* The layout has no new table and no new reference.
LayoutStays ==
    /\ \A o \in Addresses : Tab(o)' => Tab(o)
    /\ \A o \in Offsets, j \in Index, c \in Addresses : Ref(o, j, c)' => Ref(o, j, c)
    /\ file_size' \in Offsets /\ file_size' >= file_size

\* Then it is as sound as before.
LEMMA LayoutKept ==
  ASSUME TypeOK, Layout, LayoutStays, disk_l1' \in {disk_l1, l1},
         l1' = l1 \/ \A i, k \in Index : l1'[i] = l1'[k] /\ l1'[i] # Unalloc => i = k
  PROVE  Layout'
<1>1. file_size \in Nat /\ file_size' \in Nat /\ Offsets \subseteq Nat
  BY Sizes, TypeFacts DEF LayoutStays
<1>2. \A o \in Nat, m \in Nat : InFile(o, m) => InFile(o, m)'
  BY <1>1 DEF InFile, LayoutStays
<1>3. TableSectors \in Nat /\ ClusterSectors \in Nat /\ Addresses \subseteq Nat
  BY Sizes
<1>4. \A o \in Addresses : Tab(o)' => InFile(o, TableSectors)'
  BY <1>2, <1>3 DEF Layout, LayoutStays
<1>5. \A o, p \in Addresses :
         Tab(o)' /\ Tab(p)' /\ o # p => Apart(o, TableSectors, p, TableSectors)
  BY DEF Layout, LayoutStays
<1>6. \A o \in Offsets, j \in Index, c \in Addresses : Ref(o, j, c)' =>
         /\ InFile(c, ClusterSectors)'
         /\ \A p \in Addresses : Tab(p)' => Apart(c, ClusterSectors, p, TableSectors)
  BY <1>2, <1>3 DEF Layout, LayoutStays
<1>7. \A o, p \in Offsets, j, k \in Index, c \in Addresses :
         Ref(o, j, c)' /\ Ref(p, k, c)' => o = p /\ j = k
  BY DEF Layout, LayoutStays
<1>8. /\ file_size' \in Offsets /\ file_size' >= L1Offset + TableSectors
      /\ \A i, k \in Index : l1'[i] = l1'[k] /\ l1'[i] # Unalloc => i = k
      /\ \A i, k \in Index : disk_l1'[i] = disk_l1'[k] /\ disk_l1'[i] # Unalloc => i = k
  BY <1>1, Sizes DEF Layout, LayoutStays
<1> QED
  BY <1>4, <1>5, <1>6, <1>7, <1>8 DEF Layout

\* So is what a request has not linked yet.
LEMMA FreshKept ==
  ASSUME TypeOK, LayoutStays, l1' = l1, NEW s \in Reqs, FreshBy(s),
         Unlinked(s)' => /\ Unlinked(s) /\ acb'[s].cluster = acb[s].cluster
                         /\ acb'[s].n = acb[s].n,
         NewTable(s)' => NewTable(s) /\ ent'[acb'[s].l2].offset = ent[acb[s].l2].offset
  PROVE  FreshBy(s)'
<1>1. ASSUME Unlinked(s)'
      PROVE  /\ InFile(acb[s].cluster, acb[s].n * ClusterSectors)'
             /\ \A o \in Addresses : Tab(o)' => o + TableSectors <= acb'[s].cluster
             /\ \A o \in Offsets, j \in Index, c \in Addresses :
                  Ref(o, j, c)' => c + ClusterSectors <= acb'[s].cluster
  <2>1. /\ file_size \in Nat /\ file_size' \in Nat /\ acb[s].cluster \in Nat
        /\ acb[s].n * ClusterSectors \in Nat
    <3>1. /\ file_size \in Addresses /\ acb[s].cluster \in Addresses /\ acb[s].n \in Nat
          /\ file_size' \in Offsets
      BY TypeFacts DEF LayoutStays
    <3>2. ClusterSectors \in Nat
      BY Sizes
    <3>3. acb[s].n * ClusterSectors \in Nat
      BY <3>1, <3>2
    <3> QED
      BY <3>1, <3>3, Sizes
  <2>2. InFile(acb[s].cluster, acb[s].n * ClusterSectors)
    BY <1>1 DEF FreshBy
  <2>3. InFile(acb[s].cluster, acb[s].n * ClusterSectors)'
    BY <1>1, <2>1, <2>2 DEF InFile, LayoutStays
  <2> QED
    BY <1>1, <2>3 DEF FreshBy, LayoutStays
<1>2. ASSUME NewTable(s)' PROVE \A i \in Index : l1'[i] # ent'[acb'[s].l2].offset
  BY <1>2 DEF FreshBy
<1> QED
  BY <1>1, <1>2 DEF FreshBy

\* Entries that come to nothing or stay, or take over what was being read, add
\* nothing to the layout; nor does the start of a read of a table.
LEMMA EntriesKept ==
  ASSUME TypeOK, UNCHANGED <<l1, disk_l1, disk_l2>>,
         file_size' \in Offsets, file_size' >= file_size,
         \A x \in Entries :
            \/ ent'[x].offset = 0
            \/ ent'[x].offset = ent[x].offset /\ ent'[x].table = ent[x].table
            \/ \E r \in Reqs : /\ io[r].op = "l2_read" /\ io[r].off = ent'[x].offset
                               /\ ent'[x].table = ent[acb[r].l2].table,
         \A s \in Reqs : io'[s].op = "l2_read" =>
            \/ /\ io[s].op = "l2_read" /\ io'[s].off = io[s].off
               /\ ent'[acb'[s].l2].table = ent[acb[s].l2].table
            \/ Tab(io'[s].off) /\ ent'[acb'[s].l2].table = NoTable
  PROVE  LayoutStays
<1>1. ASSUME NEW o \in Addresses, Tab(o)' PROVE Tab(o)
  <2>1. CASE \E i \in Index : l1'[i] = o \/ disk_l1'[i] = o
    BY <1>1, <2>1 DEF Tab
  <2>2. CASE \E x \in Entries : ent'[x].offset = o
    BY <1>1, <2>2 DEF Tab
  <2>3. CASE \E s \in Reqs : io'[s].op = "l2_read" /\ io'[s].off = o
    BY <1>1, <2>3 DEF Tab
  <2> QED
    BY <1>1, <2>1, <2>2, <2>3 DEF Tab
<1>2. ASSUME NEW o \in Offsets, NEW j \in Index, NEW c \in Addresses, Ref(o, j, c)'
      PROVE  Ref(o, j, c)
  <2>1. CASE disk_l2'[o][j] = c
    BY <1>2, <2>1 DEF Ref
  <2>2. CASE o # 0 /\ \E x \in Entries : ent'[x].offset = o /\ ent'[x].table[j] = c
    BY <1>2, <2>2 DEF Ref
  <2>3. CASE \E s \in Reqs : io'[s].op = "l2_read" /\ io'[s].off = o
                             /\ ent'[acb'[s].l2].table[j] = c
    <3>1. NoTable[j] = Unalloc
      BY DEF NoTable
    <3> QED
      BY <1>2, <2>3, <3>1 DEF Ref
  <2> QED
    BY <1>2, <2>1, <2>2, <2>3 DEF Ref
<1> QED
  BY <1>1, <1>2 DEF LayoutStays

\* The types after a step of the driver.
LEMMA TypeStep ==
  ASSUME TypeOK, IInv', UNCHANGED <<fileVars>>,
         need_check' \in BOOLEAN, file_size' \in Addresses, l1' \in Tables,
         ent' \in [Entries -> EntType], cache' \in Seq(Entries),
         acb' \in [Reqs -> AcbType], io' \in [Reqs \cup {Timer} -> IoType],
         run' \in RunType, abort' \in {"none", "timer", "plug", "unplug", "commit"}
  PROVE  TypeOK'
<1>1. plugged' \in BOOLEAN /\ timer' \in BOOLEAN /\ queue' \in Seq(Reqs)
  BY DEF IInv, Shape
<1>2. /\ backing' \in BOOLEAN /\ disk_check' \in BOOLEAN /\ disk_l1' \in Tables
      /\ disk_l2' \in [Offsets -> Tables] /\ data' \in [0 .. FileSectors - 1 -> Contents]
  BY DEF TypeOK, fileVars
<1> QED
  BY <1>1, <1>2 DEF TypeOK, EntType, AcbType, IoType, RunType

\* How the step ends.
LEMMA CallType ==
  ASSUME TypeOK, NEW a, NEW fn \in CallNames, NEW b \in Reqs \cup {Timer},
         NEW ret \in Rets \cup Found, NEW off \in Addresses, NEW len \in Nat,
         CallWith(a, fn, b, ret, off, len)
  PROVE  io' \in [Reqs \cup {Timer} -> IoType] /\ run' \in RunType
<1>1. io \in [Reqs \cup {Timer} -> IoType] /\ NoIo \in IoType
  BY TypeFacts DEF IoType, Ops
<1>2. io' \in [Reqs \cup {Timer} -> IoType]
  BY <1>1 DEF CallWith
<1>3. run' \in RunType
  BY DEF CallWith, RunType
<1> QED
  BY <1>2, <1>3

\* And for the other endings.
LEMMA IoTypes ==
  ASSUME TypeOK, NEW a,
         Return(a) \/ \E op \in Ops, off \in Nat : StartIo(a, op, off)
  PROVE  io' \in [Reqs \cup {Timer} -> IoType] /\ run' \in RunType
<1>1. io \in [Reqs \cup {Timer} -> IoType] /\ NoIo \in IoType
  BY TypeFacts DEF IoType, Ops
<1>2. Idle \in RunType
  BY Sizes DEF RunType, CallNames, Rets
<1>3. CASE Return(a)
  BY <1>1, <1>2, <1>3 DEF Return
<1>4. ASSUME NEW op \in Ops, NEW off \in Nat, StartIo(a, op, off)
      PROVE  io' \in [Reqs \cup {Timer} -> IoType] /\ run' \in RunType
  <2>1. [op |-> op, st |-> "busy", off |-> off] \in IoType
    BY DEF IoType
  <2> QED
    BY <1>1, <1>2, <1>4, <2>1 DEF StartIo
<1> QED
  BY <1>3, <1>4

-----------------------------------------------------------------------------
(* Steps that leave the tables alone.                                       *)

\* The part of a request that one table covers.
LEMMA LimitFacts ==
  ASSUME TypeOK, NEW r \in Reqs, acb[r].pos < acb[r].end
  PROVE  Limit(r) \in Nat /\ Limit(r) >= 1
<1> DEFINE span == ClusterSectors * TableNElems
           p == acb[r].pos
           q == p \div span
<1>1. span \in Nat \ {0} /\ p \in Nat /\ acb[r].end \in Nat
  BY TypeFacts, Sizes
<1> HIDE DEF span, p
<1>2. q \in Nat /\ p = span * q + (p % span) /\ p % span \in 0 .. span - 1
  BY <1>1, DivMod
<1> HIDE DEF q
<1>3. (q + 1) * span = span * q + span /\ (q + 1) * span \in Nat /\ span * q \in Nat
  BY <1>1, <1>2
<1>4. (q + 1) * span > p
  BY <1>1, <1>2, <1>3
<1>5. Limit(r) = Min({acb[r].end, (q + 1) * span}) - p
  BY DEF Limit, q, p, span
<1>6. Min({acb[r].end, (q + 1) * span}) \in {acb[r].end, (q + 1) * span}
  BY <1>1, <1>3, MinOfTwo
<1> QED
  BY <1>1, <1>3, <1>4, <1>5, <1>6 DEF p

\* A run of contiguous clusters is within its table, and each cluster of it
\* follows the one before.
LEMMA ContiguousFacts ==
  ASSUME NEW t \in Tables, NEW x \in Index, NEW n \in Nat, n >= 1
  PROVE  LET m == qed_count_contiguous_clusters(t, x, n)
         IN  /\ m \in Nat /\ m >= 1 /\ x + m - 1 \in Index
             /\ t[x] \notin {Unalloc, ZeroCluster} =>
                  t[x + m - 1] = t[x] + (m - 1) * ClusterSectors
<1> DEFINE Continues(j) == CASE t[x] \in {Unalloc, ZeroCluster} -> t[j] = t[x]
                             [] OTHER -> t[j] = t[j - 1] + ClusterSectors
           b == Min({n, TableNElems - x})
           S == {k \in 1 .. b : \A j \in x + 1 .. x + k - 1 : Continues(j)}
           m == Max(S)
<1>0. /\ TableNElems \in Nat /\ ClusterSectors \in Nat /\ x \in Nat /\ x < TableNElems
      /\ \A i \in Index : t[i] \in Nat
      /\ \A i \in Nat : i \in Index <=> i < TableNElems
  <2>1. TableNElems \in Nat /\ ClusterSectors \in Nat /\ Addresses \subseteq Nat
    BY Sizes
  <2>2. \A i \in Index : t[i] \in Addresses
    BY DEF Tables
  <2>3. x \in Nat /\ x < TableNElems /\ \A i \in Nat : i \in Index <=> i < TableNElems
    BY <2>1 DEF Index
  <2> QED
    BY <2>1, <2>2, <2>3
<1>1. b \in Nat /\ b >= 1 /\ b <= TableNElems - x
  <2>1. TableNElems - x \in Nat /\ TableNElems - x >= 1
    BY <1>0
  <2>2. b = IF n <= TableNElems - x THEN n ELSE TableNElems - x
    BY <2>1, MinOfTwo
  <2> QED
    BY <2>1, <2>2
<1>8. ASSUME t[x] \notin {Unalloc, ZeroCluster}
      PROVE  \A j : Continues(j) => t[j] = t[j - 1] + ClusterSectors
  BY <1>8, Zenon
<1> HIDE DEF b, Continues
<1>2. S \in SUBSET (0 .. b) /\ S # {}
  <2>1. 1 \in S
    BY <1>0, <1>1
  <2>2. S \subseteq 0 .. b
    BY <1>1
  <2> QED
    BY <2>1, <2>2
<1>3. m \in S
  <2> HIDE DEF S
  <2> QED
    BY <1>1, <1>2, MaxFacts
<1>4. m \in Nat /\ m >= 1 /\ m <= b /\ \A j \in x + 1 .. x + m - 1 : Continues(j)
  BY <1>1, <1>3
<1>5. m = qed_count_contiguous_clusters(t, x, n)
  BY DEF qed_count_contiguous_clusters, b, Continues
<1> HIDE DEF m, S
<1>6. x + m - 1 \in Index
  BY <1>0, <1>1, <1>4
<1>7. ASSUME t[x] \notin {Unalloc, ZeroCluster}
      PROVE  t[x + m - 1] = t[x] + (m - 1) * ClusterSectors
  <2> DEFINE T == {k \in Nat : k < m /\ t[x + k] # t[x] + k * ClusterSectors}
  <2>1. T = {}
    <3> SUFFICES ASSUME T # {} PROVE FALSE
      OBVIOUS
    <3>1. PICK k \in T : \A y \in T : k <= y
      <4>1. T \in SUBSET Nat
        OBVIOUS
      <4> HIDE DEF T
      <4> QED
        BY <4>1, MinFacts
    <3>2. k \in Nat /\ k < m /\ t[x + k] # t[x] + k * ClusterSectors
      BY <3>1
    <3>3. k >= 1
      BY <1>0, <3>2
    <3>4. t[x + (k - 1)] = t[x] + (k - 1) * ClusterSectors
      <4>1. k - 1 \in Nat /\ k - 1 < m /\ k - 1 \notin T
        BY <3>1, <3>2, <3>3, <1>4
      <4> QED
        BY <4>1
    <3>5. Continues(x + k) /\ x + k \in Index /\ x + k - 1 = x + (k - 1)
      BY <1>0, <1>1, <1>4, <3>2, <3>3
    <3>6. t[x + k] = t[x + (k - 1)] + ClusterSectors
      <4>1. PICK y : y = x + k
        OBVIOUS
      <4>2. Continues(y)
        BY <4>1, <3>5
      <4>3. \A j : Continues(j) => t[j] = t[j - 1] + ClusterSectors
        BY <1>7, <1>8
      <4>4. t[y] = t[y - 1] + ClusterSectors
        BY <4>2, <4>3
      <4> QED
        BY <4>1, <4>4, <3>2, <3>5, <1>0
    <3>7. (k - 1) * ClusterSectors + ClusterSectors = k * ClusterSectors
      BY <1>0, <3>2, <3>3
    <3>8. t[x] \in Nat /\ (k - 1) * ClusterSectors \in Nat
      BY <1>0, <3>2, <3>3
    <3> QED
      BY <3>2, <3>4, <3>6, <3>7, <3>8, <1>0
  <2>2. m - 1 \in Nat /\ m - 1 < m /\ x + (m - 1) = x + m - 1
    BY <1>0, <1>4
  <2> QED
    BY <2>1, <2>2
<1> QED
  BY <1>4, <1>5, <1>6, <1>7

\* A request that is called does not wait for a table.
LEMMA CalledNotReading ==
  ASSUME IInv, NEW r \in Reqs, NEW fn, fn # "read_l2_table_cb", Called(fn, r)
  PROVE  io[r].op # "l2_read"
<1>1. CASE run = Idle
  BY <1>1, QedAssumption DEF Called, Callback
<1>2. CASE run # Idle
  BY <1>2 DEF Called, IInv, CallShape
<1> QED
  BY <1>1, <1>2

\* The result a call is given.
LEMMA RetFacts ==
  ASSUME CInv, NEW r \in Reqs, NEW fn, fn # "data", Called(fn, r)
  PROVE  Ret(r) \in Rets
<1>1. CASE run = Idle
  BY <1>1, QedAssumption DEF Called, Ret, Rets
<1>2. CASE run # Idle
  BY <1>2 DEF Called, Ret, CInv, Chains
<1> QED
  BY <1>1, <1>2

\* Requests that another one's step does not touch.
LEMMA OthersSame ==
  ASSUME IInv, NEW r \in Reqs, NEW fns \in SUBSET ReqCalls, NEW ops, Ends(r, fns, ops),
         \A s \in Reqs : s # r => acb'[s] = acb[s]
  PROVE  \A s \in Reqs : s # r => Same(s)
<1>1. \A s \in Reqs : s # r => io'[s] = io[s] /\ ~ Running(s)'
  BY EndsFacts
<1> QED
  BY <1>1 DEF Same

\* Nothing but file_size grows.
LEMMA TablesStay ==
  ASSUME TypeOK, UNCHANGED <<ent, l1, disk_l1, disk_l2>>,
         file_size' \in Offsets, file_size' >= file_size,
         \A s \in Reqs : io'[s].op = "l2_read" =>
            io[s].op = "l2_read" /\ io'[s].off = io[s].off /\ acb'[s].l2 = acb[s].l2
  PROVE  LayoutStays
BY EntriesKept

\* A step of r that changes no entry, no table and not the cache.
LEMMA QuietStep ==
  ASSUME CInv, IInv', TypeOK', NEW r \in Reqs,
         UNCHANGED <<ent, cache, l1, disk_l1, disk_l2>>,
         file_size' \in Offsets, file_size' >= file_size,
         acb'[r].l2 = acb[r].l2, \A s \in Reqs : s # r => Same(s),
         acb'[r].st # "busy" => acb[r].st # "busy",
         io[r].op # "l2_read", io'[r].op \notin {"l2_read", "l2_new", "l2_part"},
         run'.fn # "data" => run'.ret \in Rets,
         Private(r)' => Private(r), HasTable(r)' => acb[r].l2 # NoEntry,
         ChainBy(r)', LayoutStays => FreshBy(r)'
  PROVE  CInv'
<1>0. \A s \in Reqs : acb'[s].l2 = acb[s].l2
  BY DEF Same
<1>1. LayoutStays
  <2>1. \A s \in Reqs : io'[s].op = "l2_read" =>
            io[s].op = "l2_read" /\ io'[s].off = io[s].off /\ acb'[s].l2 = acb[s].l2
    BY DEF Same
  <2> QED
    BY <2>1, TablesStay DEF CInv
<1>2. Layout'
  BY <1>1, LayoutKept DEF CInv
<1>3. Fresh'
  <2> SUFFICES ASSUME NEW s \in Reqs PROVE FreshBy(s)'
    BY DEF Fresh
  <2>1. CASE s = r
    BY <1>1, <2>1
  <2>2. CASE s # r
    <3>1. FreshBy(s) /\ Same(s)
      BY <2>2 DEF CInv, Fresh
    <3>2. (Unlinked(s)' => Unlinked(s)) /\ (NewTable(s)' => NewTable(s))
      BY <3>1, StagesKept
    <3> QED
      BY <1>1, <3>1, <3>2, FreshKept DEF CInv, Same
  <2> QED
    BY <2>1, <2>2
<1>4. Chains'
  <2> SUFFICES ASSUME NEW s \in Reqs PROVE HeldBy(s)' /\ ChainBy(s)'
    BY DEF Chains
  <2>1. Cached' = Cached
    BY DEF Cached
  <2>2. CASE s = r
    <3>1. HeldBy(r)
      BY DEF CInv, Chains
    <3> QED
      BY <1>0, <2>1, <2>2, <3>1 DEF HeldBy
  <2>3. CASE s # r
    <3>1. HeldBy(s) /\ ChainBy(s) /\ Same(s)
      BY <2>3 DEF CInv, Chains
    <3>2. Private(s) => /\ acb[s].l2 \notin Cached'
                        /\ \A t \in Reqs : t # s => acb'[t].l2 # acb[s].l2
      BY <1>0, <2>1, <3>1 DEF HeldBy
    <3> QED
      BY <3>1, <3>2, SameHeld, SameChain
  <2> QED
    BY <2>2, <2>3
<1>5. ReferencesExact' /\ CacheShape'
  <2>1. Cached' = Cached
    BY DEF Cached
  <2>2. \A e : Users(acb', e) = Users(acb, e)
    BY <1>0 DEF Users
  <2>3. ReferencesExact'
    BY <2>1, <2>2 DEF CInv, ReferencesExact, Users
  <2>4. CacheShape'
    BY DEF CInv, CacheShape
  <2> QED
    BY <2>3, <2>4
<1> QED
  BY <1>2, <1>3, <1>4, <1>5 DEF CInv

\* A step that moves no request on.
LEMMA StillStep ==
  ASSUME CInv, IInv', TypeOK', UNCHANGED <<ent, cache, l1, disk_l1, disk_l2, file_size>>,
         \A s \in Reqs : Same(s), run'.fn # "data" => run'.ret \in Rets
  PROVE  CInv'
<1>0. \A s \in Reqs : acb'[s].l2 = acb[s].l2
  BY DEF Same
<1>1. LayoutStays
  <2>1. \A s \in Reqs : io'[s].op = "l2_read" =>
            io[s].op = "l2_read" /\ io'[s].off = io[s].off /\ acb'[s].l2 = acb[s].l2
    BY DEF Same
  <2>2. file_size' \in Offsets /\ file_size' >= file_size
    BY Sizes DEF CInv, Layout
  <2> QED
    BY <2>1, <2>2, TablesStay DEF CInv
<1>2. Layout'
  BY <1>1, LayoutKept DEF CInv
<1>3. Fresh'
  <2> SUFFICES ASSUME NEW s \in Reqs PROVE FreshBy(s)'
    BY DEF Fresh
  <2>1. FreshBy(s) /\ Same(s)
    BY DEF CInv, Fresh
  <2>2. (Unlinked(s)' => Unlinked(s)) /\ (NewTable(s)' => NewTable(s))
    BY <2>1, StagesKept
  <2> QED
    BY <1>1, <2>1, <2>2, FreshKept DEF CInv, Same
<1>4. Chains'
  <2> SUFFICES ASSUME NEW s \in Reqs PROVE HeldBy(s)' /\ ChainBy(s)'
    BY DEF Chains
  <2>1. Cached' = Cached
    BY DEF Cached
  <2>2. HeldBy(s) /\ ChainBy(s) /\ Same(s)
    BY DEF CInv, Chains
  <2>3. Private(s) => /\ acb[s].l2 \notin Cached'
                      /\ \A t \in Reqs : t # s => acb'[t].l2 # acb[s].l2
    BY <1>0, <2>1, <2>2 DEF HeldBy
  <2> QED
    BY <2>2, <2>3, SameHeld, SameChain
<1>5. ReferencesExact' /\ CacheShape'
  <2>1. Cached' = Cached
    BY DEF Cached
  <2>2. \A e : Users(acb', e) = Users(acb, e)
    BY <1>0 DEF Users
  <2>3. ReferencesExact'
    BY <2>1, <2>2 DEF CInv, ReferencesExact, Users
  <2>4. CacheShape'
    BY DEF CInv, CacheShape
  <2> QED
    BY <2>3, <2>4
<1> QED
  BY <1>2, <1>3, <1>4, <1>5 DEF CInv

\* What a step of r leaves alone that only moves its own chain on.
Quiet(r) ==
    /\ UNCHANGED <<fileVars, ent, cache, l1, abort>>
    /\ need_check' \in BOOLEAN
    /\ file_size' \in Offsets /\ file_size' >= file_size
    /\ acb' \in [Reqs -> AcbType]
    /\ \A s \in Reqs : s # r => acb'[s] = acb[s]
    /\ acb'[r].l2 = acb[r].l2 /\ acb'[r].st = acb[r].st /\ acb'[r].end = acb[r].end

\* The three endings.
LEMMA CallEnd ==
  ASSUME IInv, NEW r \in Reqs, NEW fn \in ReqCalls, NEW ret, NEW off, NEW len,
         CallWith(r, fn, r, ret, off, len), \A s \in Reqs : s # r => acb'[s] = acb[s]
  PROVE  /\ \A s \in Reqs : s # r => Same(s)
         /\ io'[r] = NoIo /\ run' = [fn |-> fn, r |-> r, ret |-> ret, off |-> off, len |-> len]
         /\ Running(r)'
<1>1. Ends(r, {fn}, {})
  BY DEF Ends
<1>2. {fn} \in SUBSET ReqCalls
  OBVIOUS
<1>3. \A s \in Reqs : s # r => Same(s)
  BY <1>1, <1>2, OthersSame
<1>4. io'[r] = NoIo /\ run' = [fn |-> fn, r |-> r, ret |-> ret, off |-> off, len |-> len]
  BY DEF CallWith, IInv, Shape
<1>5. Running(r)'
  BY <1>4 DEF Running, ReqCalls
<1> QED
  BY <1>3, <1>4, <1>5

\* An I/O is started.
LEMMA IoEnd ==
  ASSUME IInv, NEW r \in Reqs, NEW op, NEW off, StartIo(r, op, off),
         \A s \in Reqs : s # r => acb'[s] = acb[s]
  PROVE  /\ \A s \in Reqs : s # r => Same(s)
         /\ io'[r].op = op /\ io'[r].off = off /\ run' = Idle /\ ~ Running(r)'
<1>1. Ends(r, {}, {op})
  BY DEF Ends
<1>2. {} \in SUBSET ReqCalls
  OBVIOUS
<1>3. \A s \in Reqs : s # r => Same(s)
  BY <1>1, <1>2, OthersSame
<1> QED
  BY <1>3 DEF StartIo, IInv, Shape, Running

\* The chain pauses.
LEMMA ReturnEnd ==
  ASSUME IInv, NEW r \in Reqs, Return(r), \A s \in Reqs : s # r => acb'[s] = acb[s]
  PROVE  /\ \A s \in Reqs : s # r => Same(s)
         /\ io'[r] = NoIo /\ run' = Idle /\ ~ Running(r)'
<1>1. Ends(r, {}, {})
  BY DEF Ends
<1>2. {} \in SUBSET ReqCalls
  OBVIOUS
<1>3. \A s \in Reqs : s # r => Same(s)
  BY <1>1, <1>2, OthersSame
<1> QED
  BY <1>3 DEF Return, IInv, Shape, Running

\* The types after such a step.
LEMMA QuietType ==
  ASSUME CInv, IInv', NEW r \in Reqs, Quiet(r),
         io' \in [Reqs \cup {Timer} -> IoType], run' \in RunType
  PROVE  TypeOK'
<1>1. /\ file_size' \in Addresses /\ l1' \in Tables /\ ent' \in [Entries -> EntType]
      /\ cache' \in Seq(Entries) /\ acb' \in [Reqs -> AcbType] /\ need_check' \in BOOLEAN
      /\ UNCHANGED fileVars
  BY Sizes, TypeFacts DEF Quiet, CInv
<1>2. abort' \in {"none", "timer", "plug", "unplug", "commit"}
  BY DEF Quiet, CInv, TypeOK
<1> QED
  BY <1>1, <1>2, TypeStep DEF CInv

\* A step that ends in a call outside the holder's part.
LEMMA QuietCall ==
  ASSUME CInv, IInv', NEW r \in Reqs, NEW g, g # "read_l2_table_cb", Called(g, r), Quiet(r),
         NEW fn \in {"next_io", "find_cluster", "data", "main", "complete"},
         NEW ret \in Rets \cup Found, NEW off \in Addresses, NEW len \in Nat,
         CallWith(r, fn, r, ret, off, len),
         fn # "data" => ret \in Rets,
         fn = "find_cluster" => acb'[r].pos < acb[r].end,
         fn = "main" => acb'[r].found = "FOUND",
         fn = "data" /\ ret \in {"FOUND", "ZERO", "L2"} => acb[r].l2 # NoEntry,
         fn = "data" /\ ret = "FOUND" => off + Into(acb'[r].pos) + len <= FileSectors
  PROVE  CInv'
<1>1. fn \in ReqCalls /\ fn \in CallNames
  BY DEF ReqCalls, CallNames
<1>2. /\ \A s \in Reqs : s # r => Same(s)
      /\ io'[r] = NoIo /\ run' = [fn |-> fn, r |-> r, ret |-> ret, off |-> off, len |-> len]
      /\ Running(r)'
  BY <1>1, CallEnd DEF CInv, Quiet
<1>3. TypeOK'
  BY <1>1, CallType, QuietType DEF CInv
<1>4. ~ Unlinked(r)' /\ ~ NewTable(r)' /\ ~ Private(r)'
  BY <1>2 DEF Unlinked, NewTable, Private
<1>5. HasTable(r)' => acb[r].l2 # NoEntry
  BY <1>2, <1>4 DEF HasTable
<1>6. FreshBy(r)'
  BY <1>4 DEF FreshBy
<1>7. ChainBy(r)'
  <2>1. acb[r].end <= TableNElems * TableNElems * ClusterSectors
    BY DEF CInv, Chains, ChainBy
  <2> QED
    BY <1>2, <2>1 DEF ChainBy, Looking, Quiet
<1>8. io[r].op # "l2_read"
  BY CalledNotReading DEF CInv
<1>9. UNCHANGED <<ent, cache, l1, disk_l1, disk_l2>>
  BY DEF Quiet, fileVars
<1> QED
  BY <1>2, <1>3, <1>4, <1>5, <1>6, <1>7, <1>8, <1>9, QuietStep DEF Quiet

\* One that ends in reading data, or in nothing.
LEMMA QuietPause ==
  ASSUME CInv, IInv', NEW r \in Reqs, NEW g, g # "read_l2_table_cb", Called(g, r), Quiet(r),
         \/ Return(r)
         \/ \E off \in Nat : StartIo(r, "backing_read", off)
         \/ \E off \in Nat : StartIo(r, "data_read", off) /\ off + acb'[r].len <= FileSectors
  PROVE  CInv'
<1>1. /\ \A s \in Reqs : s # r => Same(s)
      /\ run' = Idle /\ ~ Running(r)'
      /\ io'[r].op \in {"none", "backing_read", "data_read"}
      /\ io'[r].op = "data_read" => io'[r].off + acb'[r].len <= FileSectors
  <2>1. CASE Return(r)
    BY <2>1, ReturnEnd DEF CInv, Quiet
  <2>2. CASE \E off \in Nat : StartIo(r, "backing_read", off)
    BY <2>2, IoEnd DEF CInv, Quiet
  <2>3. CASE \E off \in Nat : StartIo(r, "data_read", off) /\ off + acb'[r].len <= FileSectors
    BY <2>3, IoEnd DEF CInv, Quiet
  <2> QED
    BY <2>1, <2>2, <2>3
<1>2. TypeOK'
  <2>1. "backing_read" \in Ops /\ "data_read" \in Ops
    BY DEF Ops
  <2>2. io' \in [Reqs \cup {Timer} -> IoType] /\ run' \in RunType
    BY <2>1, IoTypes DEF CInv
  <2> QED
    BY <2>2, QuietType
<1>3. ~ Unlinked(r)' /\ ~ NewTable(r)' /\ ~ Private(r)'
  BY <1>1 DEF Unlinked, NewTable, Private
<1>4. ~ HasTable(r)'
  BY <1>1, <1>3 DEF HasTable
<1>5. FreshBy(r)'
  BY <1>3 DEF FreshBy
<1>6. ChainBy(r)'
  <2>1. acb[r].end <= TableNElems * TableNElems * ClusterSectors
    BY DEF CInv, Chains, ChainBy
  <2> QED
    BY <1>1, <2>1 DEF ChainBy, Looking, Quiet
<1>7. io[r].op # "l2_read"
  BY CalledNotReading DEF CInv
<1>8. UNCHANGED <<ent, cache, l1, disk_l1, disk_l2>> /\ run'.ret \in Rets
  BY <1>1 DEF Quiet, fileVars, Rets
<1> QED
  BY <1>1, <1>2, <1>3, <1>4, <1>5, <1>6, <1>7, <1>8, QuietStep DEF Quiet

HolderEnd(r) ==
    /\ \A s \in Reqs : s # r => Same(s)
    /\ io'[r].op \in {"none", "header", "prefill", "postfill", "main", "flush", "l2_flush"}
    /\ run'.fn \in {"none", "prefill", "postfill", "main", "l1_update", "complete"}
    /\ run'.ret \in Rets
    /\ io' \in [Reqs \cup {Timer} -> IoType] /\ run' \in RunType

\* A step of the holder's part: it stays among its new clusters, or with its new
\* table.
LEMMA QuietHolder ==
  ASSUME CInv, IInv', NEW r \in Reqs, NEW g, g # "read_l2_table_cb", Called(g, r), Quiet(r),
         \/ \E fn \in {"prefill", "postfill", "main", "l1_update", "complete"}, ret \in Rets :
               Call(r, fn, r, ret)
         \/ \E op \in {"header", "prefill", "postfill", "main", "flush", "l2_flush"}, off \in Nat :
               StartIo(r, op, off),
         NewTable(r)' => NewTable(r),
         HasTable(r)' => acb[r].l2 # NoEntry,
         LayoutStays => FreshBy(r)'
  PROVE  CInv'
<1>1. HolderEnd(r)
  <2>1. ASSUME NEW fn \in {"prefill", "postfill", "main", "l1_update", "complete"},
               NEW ret \in Rets, Call(r, fn, r, ret)
        PROVE  HolderEnd(r)
    <3>1. CallWith(r, fn, r, ret, 0, 0) /\ fn \in ReqCalls /\ fn \in CallNames
      BY <2>1 DEF Call, ReqCalls, CallNames
    <3>2. /\ \A s \in Reqs : s # r => Same(s)
          /\ io'[r] = NoIo /\ run' = [fn |-> fn, r |-> r, ret |-> ret, off |-> 0, len |-> 0]
      BY <3>1, CallEnd DEF CInv, Quiet
    <3>3. io' \in [Reqs \cup {Timer} -> IoType] /\ run' \in RunType
      BY <3>1, CallType, Sizes DEF CInv
    <3> QED
      BY <3>2, <3>3 DEF HolderEnd
  <2>2. ASSUME NEW op \in {"header", "prefill", "postfill", "main", "flush", "l2_flush"},
               NEW off \in Nat, StartIo(r, op, off)
        PROVE  HolderEnd(r)
    <3>1. op \in Ops
      BY DEF Ops
    <3>2. \A s \in Reqs : s # r => Same(s)
      BY <2>2, IoEnd DEF CInv, Quiet
    <3>3. io'[r].op = op /\ run' = Idle
      BY <2>2, IoEnd DEF CInv, Quiet
    <3>4. io' \in [Reqs \cup {Timer} -> IoType] /\ run' \in RunType
      BY <2>2, <3>1, IoTypes DEF CInv
    <3> QED
      BY <3>2, <3>3, <3>4 DEF HolderEnd, Rets
  <2> QED
    BY <2>1, <2>2
<1>2. TypeOK'
  BY <1>1, QuietType DEF HolderEnd
<1>3. Private(r)' => Private(r)
  BY <1>1 DEF Private, HolderEnd
<1>4. ChainBy(r)'
  <2>1. acb[r].end <= TableNElems * TableNElems * ClusterSectors
    BY DEF CInv, Chains, ChainBy
  <2> QED
    BY <1>1, <2>1 DEF ChainBy, Looking, Quiet, HolderEnd
<1>5. io[r].op # "l2_read"
  BY CalledNotReading DEF CInv
<1>6. UNCHANGED <<ent, cache, l1, disk_l1, disk_l2>>
  BY DEF Quiet, fileVars
<1> QED
  BY <1>1, <1>2, <1>3, <1>4, <1>5, <1>6, QuietStep DEF Quiet, HolderEnd

\* One request's record changes.
LEMMA AcbMoved ==
  ASSUME acb \in [Reqs -> AcbType], NEW y \in AcbType, NEW r \in Reqs,
         acb' = [acb EXCEPT ![r] = y]
  PROVE  /\ acb' \in [Reqs -> AcbType] /\ acb'[r] = y
         /\ \A s \in Reqs : s # r => acb'[s] = acb[s]
OBVIOUS

\* A step that changes nothing but calls and I/Os is quiet.
LEMMA StillQuiet ==
  ASSUME CInv, NEW r, acb' = acb, file_size' = file_size, need_check' = need_check,
         UNCHANGED <<fileVars, ent, cache, l1, abort>>
  PROVE  Quiet(r)
<1>1. acb \in [Reqs -> AcbType] /\ file_size \in Offsets /\ need_check \in BOOLEAN
  BY TypeFacts DEF CInv, TypeOK, Layout
<1>2. file_size >= file_size
  BY <1>1, Sizes
<1> QED
  BY <1>1, <1>2 DEF Quiet

\* The start of a request's next part.
LEMMA NextIoCache ==
  ASSUME CInv, IInv', NEW r \in Reqs, qed_aio_next_io(r)
  PROVE  CInv'
<1>1. Called("next_io", r)
  BY DEF qed_aio_next_io
<1>2. Ret(r) \in Rets /\ "0" \in Rets
  BY <1>1, RetFacts DEF Rets
<1>3. acb \in [Reqs -> AcbType] /\ file_size \in Offsets /\ need_check \in BOOLEAN /\ file_size \in Nat
  BY TypeFacts, Sizes DEF CInv, TypeOK, Layout
<1>4. 0 \in Addresses /\ 0 \in Nat
  BY Sizes
<1>5. CASE acb' = acb /\ Call(r, "complete", r, Ret(r))
  <2>1. Quiet(r)
    BY <1>3, <1>5 DEF qed_aio_next_io, Quiet, cacheVars, allocVars
  <2> QED
    BY <1>1, <1>2, <1>4, <1>5, <2>1, QuietCall DEF Call
<1> DEFINE pos == acb[r].pos + acb[r].len
<1>6. CASE /\ acb' = [acb EXCEPT ![r].pos = pos, ![r].len = 0]
           /\ \/ Call(r, "complete", r, "0")
              \/ pos < acb[r].end /\ Call(r, "find_cluster", r, "0")
  <2>1. pos \in Nat
    BY <1>3 DEF AcbType
  <2>2. /\ acb' \in [Reqs -> AcbType] /\ \A s \in Reqs : s # r => acb'[s] = acb[s]
        /\ acb'[r].l2 = acb[r].l2 /\ acb'[r].st = acb[r].st /\ acb'[r].end = acb[r].end
        /\ acb'[r].pos = pos
    <3> DEFINE y == [acb[r] EXCEPT !.pos = pos, !.len = 0]
    <3>1. /\ y \in AcbType /\ y.l2 = acb[r].l2 /\ y.st = acb[r].st /\ y.end = acb[r].end
          /\ y.pos = pos
      <4>1. PICK a \in AcbType : a = acb[r]
        BY <1>3
      <4>2. LET z == [a EXCEPT !.pos = pos, !.len = 0]
            IN  z \in AcbType /\ z.l2 = a.l2 /\ z.st = a.st /\ z.end = a.end /\ z.pos = pos
        BY <2>1 DEF AcbType
      <4> QED
        BY <4>1, <4>2
    <3>2. acb' = [acb EXCEPT ![r] = y]
      BY <1>3, <1>6
    <3> HIDE DEF y
    <3> QED
      BY <1>3, <3>1, <3>2, AcbMoved
  <2>3. Quiet(r)
    BY <1>3, <2>2 DEF qed_aio_next_io, Quiet, cacheVars, allocVars
  <2> QED
    BY <1>1, <1>2, <1>4, <1>6, <2>2, <2>3, QuietCall DEF Call
<1> QED
  BY <1>5, <1>6 DEF qed_aio_next_io

\* A lookup that ends at the L1 table.
LEMMA FindInL1Cache ==
  ASSUME CInv, IInv', NEW r \in Reqs, Called("find_cluster", r),
         UNCHANGED <<fileVars, ent, acb, cache, allocVars, file_size, l1, abort>>,
         \/ CallWith(r, "data", r, "L1", 0, Limit(r))
         \/ CallWith(r, "data", r, "EINVAL", 0, 0)
  PROVE  CInv'
<1>1. Looking(r)
  <2>1. run # Idle /\ run.fn = "find_cluster" /\ run.r = r
    BY QedAssumption DEF Called, Callback
  <2> QED
    BY <2>1 DEF Looking, Running
<1>2. Limit(r) \in Nat
  BY <1>1, LimitFacts DEF CInv, Chains, ChainBy
<1>3. Quiet(r)
  BY StillQuiet DEF allocVars
<1>4. "L1" \in Rets \cup Found /\ "EINVAL" \in Rets \cup Found /\ 0 \in Addresses
  BY Sizes DEF Rets, Found
<1> QED
  BY <1>2, <1>3, <1>4, QuietCall

\* A lookup in the L2 table.  A run of clusters that is found lies in the file.
LEMMA FindInL2Cache ==
  ASSUME CInv, IInv', NEW r \in Reqs, qed_find_cluster_cb(r)
  PROVE  CInv'
<1>0. Called("find_cluster_cb", r)
  BY DEF qed_find_cluster_cb
<1>1. run # Idle /\ run.fn = "find_cluster_cb" /\ run.r = r /\ Running(r) /\ Ret(r) = run.ret
  BY <1>0, QedAssumption DEF Called, Callback, Running, Ret
<1>2. Quiet(r)
  BY StillQuiet DEF qed_find_cluster_cb, cacheVars, allocVars
<1>3. Ret(r) \in Rets /\ 0 \in Addresses
  BY <1>0, RetFacts, Sizes
<1>4. CASE Ret(r) # "0"
  <2>1. CallWith(r, "data", r, Ret(r), 0, 0)
    BY <1>4 DEF qed_find_cluster_cb
  <2>2. Ret(r) \notin {"FOUND", "ZERO", "L2"}
    BY <1>3 DEF Rets
  <2> QED
    BY <1>0, <1>2, <1>3, <2>1, <2>2, QuietCall
<1>5. CASE Ret(r) = "0"
  <2> DEFINE pos == acb[r].pos
             e == acb[r].l2
             t == ent[e].table
             off == t[L2Index(pos)]
             n == qed_count_contiguous_clusters(t, L2Index(pos), Clusters(Into(pos) + Limit(r)))
             len == Min({Limit(r), n * ClusterSectors - Into(pos)})
             found == CASE off = Unalloc -> "L2"
                        [] off = ZeroCluster -> "ZERO"
                        [] qed_check_cluster_offset(off) -> "FOUND"
                        [] OTHER -> "EINVAL"
  <2>1. CallWith(r, "data", r, found, off, len)
    BY <1>5 DEF qed_find_cluster_cb
  <2>2. HeldBy(r) /\ HasTable(r) /\ Looking(r)
    BY <1>1, <1>5 DEF HasTable, Looking, CInv, Chains
  <2>3. e \in Entries /\ pos \in Nat /\ t \in Tables /\ ent[e].offset \in Offsets
    BY <2>2, TypeFacts DEF HeldBy, CInv
  <2>4. ent[e].offset # 0
    <3>1. io[r].op # "l2_read"
      BY <1>0, CalledNotReading DEF CInv
    <3> QED
      BY <2>2, <3>1 DEF HeldBy
  <2>5. L2Index(pos) \in Index /\ Into(pos) \in 0 .. ClusterSectors - 1 /\ ClusterSectors \in Nat
    BY <2>3, IndexFacts, Sizes
  <2>6. Limit(r) \in Nat /\ Limit(r) >= 1
    BY <2>2, LimitFacts DEF CInv, Chains, ChainBy
  <2>7. Clusters(Into(pos) + Limit(r)) \in Nat /\ Clusters(Into(pos) + Limit(r)) >= 1
    <3>1. Into(pos) + Limit(r) \in Nat /\ Into(pos) + Limit(r) > 0
      BY <2>5, <2>6
    <3> QED
      BY <3>1, ClustersFacts
  <2>8. /\ n \in Nat /\ n >= 1 /\ L2Index(pos) + n - 1 \in Index
        /\ off \notin {Unalloc, ZeroCluster} =>
             t[L2Index(pos) + n - 1] = off + (n - 1) * ClusterSectors
    BY <2>3, <2>5, <2>7, ContiguousFacts
  <2>9. off \in Addresses
    BY <2>3, <2>5 DEF Tables
  <2>10. found \in {"FOUND", "ZERO", "L2", "EINVAL"}
         /\ (found = "FOUND" => off \notin {Unalloc, ZeroCluster})
    <3> HIDE DEF off
    <3>0. ASSUME off \in {Unalloc, ZeroCluster} PROVE ~ qed_check_cluster_offset(off)
      <4>1. ClusterSectors \in Nat /\ ClusterSectors > 1 /\ (off = 0 \/ off = 1)
        BY <3>0, Sizes DEF Unalloc, ZeroCluster
      <4> QED
        BY <4>1 DEF qed_check_cluster_offset
    <3>1. CASE off = Unalloc
      <4>1. Unalloc # ZeroCluster
        BY DEF Unalloc, ZeroCluster
      <4> QED
        BY <3>0, <3>1, <4>1
    <3>2. CASE off # Unalloc /\ off = ZeroCluster
      BY <3>0, <3>2
    <3>3. CASE off # Unalloc /\ off # ZeroCluster /\ qed_check_cluster_offset(off)
      BY <3>3 DEF qed_check_cluster_offset
    <3>4. CASE off # Unalloc /\ off # ZeroCluster /\ ~ qed_check_cluster_offset(off)
      BY <3>4 DEF qed_check_cluster_offset
    <3> QED
      BY <3>1, <3>2, <3>3, <3>4
  <2> HIDE DEF n, found
  <2>11. n * ClusterSectors - Into(pos) \in Nat
    <3>1. n * ClusterSectors >= ClusterSectors /\ n * ClusterSectors \in Nat
      BY <2>5, <2>8
    <3> QED
      BY <2>5, <3>1
  <2>12. len \in Nat /\ len <= n * ClusterSectors - Into(pos)
    BY <2>6, <2>11, MinOfTwo
  <2> HIDE DEF len
  <2>13. found = "FOUND" => off + Into(pos) + len <= FileSectors
    <3> SUFFICES ASSUME found = "FOUND" PROVE off + Into(pos) + len <= FileSectors
      OBVIOUS
    <3> DEFINE j == L2Index(pos) + n - 1
               c == t[j]
    <3>1. c = off + (n - 1) * ClusterSectors /\ j \in Index /\ c \in Addresses
      BY <2>3, <2>8, <2>10 DEF Tables
    <3>2. c \notin {Unalloc, ZeroCluster}
      <4>1. off \in Nat /\ off # 0 /\ off # 1
        BY <2>9, <2>10, Sizes DEF Unalloc, ZeroCluster
      <4>2. (n - 1) * ClusterSectors \in Nat
        BY <2>5, <2>8
      <4> QED
        BY <3>1, <4>1, <4>2 DEF Unalloc, ZeroCluster
    <3>3. Ref(ent[e].offset, j, c)
      BY <2>3, <2>4, <3>2 DEF Ref
    <3>4. InFile(c, ClusterSectors)
      BY <2>3, <3>1, <3>3 DEF CInv, Layout
    <3>5. c + ClusterSectors <= FileSectors
      <4>1. file_size \in Nat /\ file_size <= FileSectors /\ FileSectors \in Nat /\ c \in Nat
        BY <3>1, TypeFacts, Sizes DEF CInv, Addresses
      <4> QED
        BY <3>4, <4>1, <2>5 DEF InFile
    <3>6. (n - 1) * ClusterSectors + ClusterSectors = n * ClusterSectors
      BY <2>5, <2>8
    <3>7. /\ (n - 1) * ClusterSectors \in Nat /\ n * ClusterSectors \in Nat /\ off \in Nat
          /\ FileSectors \in Nat
      <4>1. off \in Nat /\ FileSectors \in Nat
        BY <2>9, Sizes
      <4>2. n - 1 \in Nat /\ n \in Nat
        BY <2>8
      <4> QED
        BY <2>5, <4>1, <4>2
    <3> HIDE DEF c, j
    <3> QED
      BY <3>1, <3>5, <3>6, <3>7, <2>5, <2>12
  <2>14. found \in Rets \cup Found
    BY <2>10 DEF Rets, Found
  <2>15. acb' = acb /\ acb[r].l2 # NoEntry
    BY <2>2 DEF HeldBy, qed_find_cluster_cb
  <2> HIDE DEF off
  <2> QED
    BY <1>0, <1>2, <2>1, <2>9, <2>12, <2>13, <2>14, <2>15, QuietCall
<1> QED
  BY <1>4, <1>5

\* Filling a buffer.
LEMMA FilledType ==
  ASSUME NEW got \in [Sectors -> Contents], NEW part,
         \A p \in Sectors : p \in DOMAIN part => part[p] \in Contents
  PROVE  Filled(got, part) \in [Sectors -> Contents]
BY DEF Filled

\* A read of data that the lookup found, or did not find.
LEMMA ReadDataCache ==
  ASSUME CInv, IInv', NEW r \in Reqs, qed_aio_read_data(r)
  PROVE  CInv'
<1>0. Called("data", r)
  BY DEF qed_aio_read_data
<1>1. run # Idle /\ run.fn = "data" /\ run.r = r /\ Running(r)
  BY <1>0, QedAssumption DEF Called, Callback, Running
<1>2. /\ acb \in [Reqs -> AcbType] /\ file_size \in Offsets /\ need_check \in BOOLEAN
      /\ file_size \in Nat /\ acb[r].pos \in Nat
      /\ run.len \in Nat /\ run.off \in Addresses /\ run.ret \in Rets \cup Found
  BY TypeFacts, Sizes DEF CInv, TypeOK, Layout, RunType
<1>3. 0 \in Addresses /\ Addresses \subseteq Nat /\ 0 \in Nat
  BY Sizes
<1>4. UNCHANGED <<fileVars, cacheVars, allocVars, file_size, l1, abort>>
  BY DEF qed_aio_read_data
<1>5. CASE run.ret \in {"EIO", "EINVAL"} /\ Call(r, "complete", r, run.ret) /\ UNCHANGED acb
  <2>1. Quiet(r) /\ run.ret \in Rets
    BY <1>2, <1>4, <1>5 DEF Quiet, cacheVars, allocVars, Rets
  <2> QED
    BY <1>0, <1>3, <1>5, <2>1, QuietCall DEF Call
<1> DEFINE part == [p \in acb[r].pos .. acb[r].pos + run.len - 1 |-> "zero"]
<1>6. CASE /\ acb' = [acb EXCEPT ![r].len = run.len, ![r].got = Filled(@, part)]
           /\ Call(r, "next_io", r, "0")
  <2>1. Filled(acb[r].got, part) \in [Sectors -> Contents]
    <3>1. acb[r].got \in [Sectors -> Contents] /\ "zero" \in Contents
      BY <1>2 DEF AcbType, Contents
    <3> QED
      BY <3>1, FilledType
  <2> HIDE DEF part
  <2>2. /\ acb' \in [Reqs -> AcbType] /\ \A s \in Reqs : s # r => acb'[s] = acb[s]
        /\ acb'[r].l2 = acb[r].l2 /\ acb'[r].st = acb[r].st /\ acb'[r].end = acb[r].end
    <3> DEFINE g == Filled(acb[r].got, part)
    <3> HIDE DEF g
    <3> DEFINE y == [acb[r] EXCEPT !.len = run.len, !.got = g]
    <3>1. /\ y \in AcbType /\ y.l2 = acb[r].l2 /\ y.st = acb[r].st /\ y.end = acb[r].end
      <4>1. PICK a \in AcbType : a = acb[r]
        BY <1>2
      <4>2. g \in [Sectors -> Contents]
        BY <2>1 DEF g
      <4>3. LET z == [a EXCEPT !.len = run.len, !.got = g]
            IN  z \in AcbType /\ z.l2 = a.l2 /\ z.st = a.st /\ z.end = a.end
        BY <1>2, <4>2 DEF AcbType
      <4> QED
        BY <4>1, <4>3
    <3>2. acb' = [acb EXCEPT ![r] = y]
      BY <1>2, <1>6 DEF g
    <3> HIDE DEF y
    <3> QED
      BY <1>2, <3>1, <3>2, AcbMoved
  <2>3. Quiet(r) /\ "0" \in Rets
    BY <1>2, <1>4, <2>2 DEF Quiet, cacheVars, allocVars, Rets
  <2> QED
    BY <1>0, <1>3, <1>6, <2>3, QuietCall DEF Call
<1>7. CASE /\ acb' = [acb EXCEPT ![r].len = run.len]
           /\ IF run.ret = "FOUND"
              THEN StartIo(r, "data_read", run.off + Into(acb[r].pos))
              ELSE StartIo(r, "backing_read", acb[r].pos)
  <2>1. /\ acb' \in [Reqs -> AcbType] /\ \A s \in Reqs : s # r => acb'[s] = acb[s]
        /\ acb'[r].l2 = acb[r].l2 /\ acb'[r].st = acb[r].st /\ acb'[r].end = acb[r].end
        /\ acb'[r].len = run.len
    <3> DEFINE y == [acb[r] EXCEPT !.len = run.len]
    <3>1. /\ y \in AcbType /\ y.l2 = acb[r].l2 /\ y.st = acb[r].st /\ y.end = acb[r].end
          /\ y.len = run.len
      BY <1>2 DEF AcbType
    <3>2. acb' = [acb EXCEPT ![r] = y]
      BY <1>2, <1>7
    <3> HIDE DEF y
    <3> QED
      BY <1>2, <3>1, <3>2, AcbMoved
  <2>2. Quiet(r)
    BY <1>2, <1>4, <2>1 DEF Quiet, cacheVars, allocVars
  <2>3. CASE run.ret = "FOUND"
    <3>1. run.off + Into(acb[r].pos) + run.len <= FileSectors
      BY <1>1, <2>3 DEF CInv, Chains, ChainBy
    <3>2. run.off + Into(acb[r].pos) \in Nat
      <4>1. Into(acb[r].pos) \in Nat
        BY <1>2, IndexFacts, Sizes
      <4>2. run.off \in Nat
        BY <1>2, <1>3
      <4> QED
        BY <4>1, <4>2
    <3> QED
      BY <1>0, <1>7, <2>1, <2>2, <2>3, <3>1, <3>2, QuietPause
  <2>4. CASE run.ret # "FOUND"
    BY <1>0, <1>2, <1>7, <2>2, <2>4, QuietPause
  <2> QED
    BY <2>3, <2>4
<1> QED
  BY <1>5, <1>6, <1>7 DEF qed_aio_read_data

\* A write: in place, frozen, or with new clusters from the end of the file.
LEMMA WriteDataCache ==
  ASSUME CInv, IInv', NEW r \in Reqs, qed_aio_write_data(r)
  PROVE  CInv'
<1>0. Called("data", r) /\ UNCHANGED <<fileVars, cacheVars, l1, abort>>
  BY DEF qed_aio_write_data
<1>1. run # Idle /\ run.fn = "data" /\ run.r = r /\ Running(r)
  BY <1>0, QedAssumption DEF Called, Callback, Running
<1>2. /\ acb \in [Reqs -> AcbType] /\ file_size \in Offsets /\ need_check \in BOOLEAN
      /\ file_size \in Nat /\ acb[r].pos \in Nat
      /\ run.len \in Nat /\ run.off \in Addresses /\ run.ret \in Rets \cup Found
  BY TypeFacts, Sizes DEF CInv, TypeOK, Layout, RunType
<1>3. 0 \in Addresses /\ Addresses \subseteq Nat /\ 0 \in Nat /\ "0" \in Rets
  BY Sizes DEF Rets
<1>4. PICK a \in AcbType : a = acb[r]
  BY <1>2
<1>5. CASE run.ret = "FOUND" /\ qed_aio_write_inplace(r) /\ UNCHANGED <<allocVars, file_size>>
  <2> DEFINE y == [a EXCEPT !.found = run.ret, !.len = run.len, !.cluster = run.off]
  <2>1. /\ y \in AcbType /\ y.l2 = a.l2 /\ y.st = a.st /\ y.end = a.end /\ y.found = "FOUND"
    BY <1>2, <1>5 DEF AcbType
  <2>2. acb' = [acb EXCEPT ![r] = y] /\ CallWith(r, "main", r, "0", 0, 0)
    BY <1>2, <1>4, <1>5 DEF qed_aio_write_inplace, Call
  <2> HIDE DEF y
  <2>3. /\ acb' \in [Reqs -> AcbType] /\ acb'[r] = y
        /\ \A s \in Reqs : s # r => acb'[s] = acb[s]
    BY <1>2, <2>1, <2>2, AcbMoved
  <2>4. Quiet(r)
    BY <1>0, <1>2, <1>4, <1>5, <2>1, <2>3 DEF Quiet, cacheVars, allocVars
  <2> QED
    BY <1>0, <1>3, <2>1, <2>2, <2>3, <2>4, QuietCall
<1>6. CASE /\ run.ret \in {"EIO", "EINVAL"} /\ acb' = [acb EXCEPT ![r].found = run.ret]
           /\ Call(r, "complete", r, run.ret) /\ UNCHANGED <<allocVars, file_size>>
  <2> DEFINE y == [a EXCEPT !.found = run.ret]
  <2>1. /\ y \in AcbType /\ y.l2 = a.l2 /\ y.st = a.st /\ y.end = a.end
    BY <1>2, <1>6 DEF AcbType
  <2>2. /\ acb' = [acb EXCEPT ![r] = y] /\ CallWith(r, "complete", r, run.ret, 0, 0)
        /\ run.ret \in Rets
    BY <1>2, <1>4, <1>6 DEF Call, Rets
  <2> HIDE DEF y
  <2>3. /\ acb' \in [Reqs -> AcbType] /\ acb'[r] = y
        /\ \A s \in Reqs : s # r => acb'[s] = acb[s]
    BY <1>2, <2>1, <2>2, AcbMoved
  <2>4. Quiet(r)
    BY <1>0, <1>2, <1>4, <1>6, <2>1, <2>3 DEF Quiet, cacheVars, allocVars
  <2> QED
    BY <1>0, <1>3, <2>2, <2>4, QuietCall
<1>7. CASE run.ret \in {"L1", "L2", "ZERO"} /\ qed_aio_write_alloc(r)
  <2> DEFINE n == Clusters(Into(acb[r].pos) + run.len)
             m == n * ClusterSectors
  <2>1. CASE /\ acb' = [acb EXCEPT ![r].found = run.ret] /\ Return(r)
             /\ UNCHANGED <<need_check, file_size>>
    <3> DEFINE y == [a EXCEPT !.found = run.ret]
    <3>1. /\ y \in AcbType /\ y.l2 = a.l2 /\ y.st = a.st /\ y.end = a.end
      BY <1>2 DEF AcbType
    <3>2. /\ acb' = [acb EXCEPT ![r] = y]
      BY <1>2, <1>4, <2>1
    <3> HIDE DEF y
    <3>3. /\ acb' \in [Reqs -> AcbType] /\ acb'[r] = y
          /\ \A s \in Reqs : s # r => acb'[s] = acb[s]
      BY <1>2, <3>1, <3>2, AcbMoved
    <3>4. Quiet(r)
      BY <1>0, <1>2, <1>4, <2>1, <3>1, <3>3 DEF Quiet, cacheVars
    <3> QED
      BY <1>0, <2>1, <3>4, QuietPause
  <2>2. CASE /\ file_size + m <= FileSectors /\ file_size' = file_size + m
             /\ acb' = [acb EXCEPT ![r].found = run.ret, ![r].len = run.len,
                            ![r].cluster = file_size, ![r].n = n]
             /\ \/ need_check' = TRUE /\ StartIo(r, "header", 0)
                \/ UNCHANGED need_check /\ Call(r, "prefill", r, "0")
    <3>1. n \in Nat /\ ClusterSectors \in Nat /\ FileSectors \in Nat
      <4>1. Into(acb[r].pos) + run.len \in Nat
        BY <1>2, IndexFacts, Sizes
      <4> QED
        BY <4>1, ClustersFacts, Sizes
    <3> HIDE DEF n
    <3>2. m \in Nat
      BY <3>1
    <3>3. file_size' \in Offsets /\ file_size' >= file_size
      BY <1>2, <2>2, <3>1, <3>2, OffsetFacts
    <3> DEFINE y == [a EXCEPT !.found = run.ret, !.len = run.len, !.cluster = file_size, !.n = n]
    <3>4. /\ y \in AcbType /\ y.l2 = a.l2 /\ y.st = a.st /\ y.end = a.end
          /\ y.found = run.ret /\ y.cluster = file_size /\ y.n = n
      BY <1>2, <3>1, Sizes DEF AcbType
    <3>5. acb' = [acb EXCEPT ![r] = y]
      BY <1>2, <1>4, <2>2
    <3> HIDE DEF y
    <3>6. /\ acb' \in [Reqs -> AcbType] /\ acb'[r] = y
          /\ \A s \in Reqs : s # r => acb'[s] = acb[s]
      BY <1>2, <3>4, <3>5, AcbMoved
    <3>7. Quiet(r)
      BY <1>0, <1>2, <1>4, <2>2, <3>3, <3>4, <3>6 DEF Quiet, cacheVars
    <3>8. /\ run' = Idle \/ run'.fn = "prefill"
          /\ io'[r].op \in {"none", "header"}
      <4>1. CASE StartIo(r, "header", 0)
        BY <4>1, <3>6, IoEnd DEF CInv
      <4>2. CASE Call(r, "prefill", r, "0")
        <5>1. CallWith(r, "prefill", r, "0", 0, 0) /\ "prefill" \in ReqCalls
          BY <4>2 DEF Call, ReqCalls
        <5> QED
          BY <5>1, <3>6, CallEnd DEF CInv
      <4> QED
        BY <4>1, <4>2, <2>2
    <3>9. ~ NewTable(r)' /\ ~ Private(r)'
      BY <3>8 DEF NewTable, Private, Running
    <3>10. HasTable(r)' => acb[r].l2 # NoEntry
      <4> SUFFICES ASSUME HasTable(r)' PROVE acb[r].l2 # NoEntry
        OBVIOUS
      <4>1. acb'[r].found # "L1"
        BY <3>8, <3>9 DEF HasTable, Running
      <4>2. HasTable(r)
        BY <4>1, <3>4, <3>6, <1>1, <1>7 DEF HasTable
      <4> QED
        BY <4>2 DEF CInv, Chains, HeldBy
    <3>11. LayoutStays => FreshBy(r)'
      <4> SUFFICES ASSUME LayoutStays PROVE FreshBy(r)'
        OBVIOUS
      <4>1. acb'[r].cluster = file_size /\ acb'[r].n = n
        BY <3>4, <3>6
      <4>2. InFile(acb[r].cluster, acb[r].n * ClusterSectors)'
        BY <4>1, <1>2, <2>2, <3>2 DEF InFile, CInv, Layout
      <4>3. \A o \in Addresses : Tab(o)' => o + TableSectors <= acb'[r].cluster
        BY <4>1 DEF LayoutStays, CInv, Layout, InFile
      <4>4. \A o \in Offsets, j \in Index, c \in Addresses :
                  Ref(o, j, c)' => c + ClusterSectors <= acb'[r].cluster
        BY <4>1 DEF LayoutStays, CInv, Layout, InFile
      <4> QED
        BY <4>2, <4>3, <4>4, <3>9 DEF FreshBy
    <3> QED
      BY <1>0, <1>3, <2>2, <3>7, <3>9, <3>10, <3>11, QuietHolder
  <2> QED
    BY <1>7, <2>1, <2>2 DEF qed_aio_write_alloc, qed_alloc_clusters, qed_write_header
<1> QED
  BY <1>5, <1>6, <1>7 DEF qed_aio_write_data

\* In its part the holder has its clusters or its table before it goes on.
LEMMA HolderCalled ==
  ASSUME CInv, NEW r \in Reqs, NEW g, Called(g, r)
  PROVE  /\ g \in {"prefill", "postfill", "flush_before"} => Unlinked(r)
         /\ g = "main" /\ acb[r].found # "FOUND" => Unlinked(r)
         /\ g = "l2_update" => Unlinked(r)
         /\ g \in {"write_table_cb", "l1_update"} => NewTable(r)
         /\ g \in {"write_table_cb", "l1_update", "commit"} => Private(r)
         /\ g = "flush_before" => io[r].op = "main" /\ acb[r].found # "FOUND"
<1>1. CASE run = Idle
  <2>1. Callback(r) = g
    BY <1>1, QedAssumption DEF Called
  <2> QED
    BY <2>1 DEF Callback, Unlinked, NewTable, Private
<1>2. CASE run # Idle
  <2>1. run.fn = g /\ Running(r) /\ g \in ReqCalls
    BY <1>2, QedAssumption DEF Called, Running, CInv, IInv, CallShape
  <2> QED
    BY <2>1 DEF Unlinked, NewTable, Private, ReqCalls
<1> QED
  BY <1>1, <1>2

\* The steps of the holder's part that change nothing.
LEMMA HolderCache ==
  ASSUME CInv, IInv', NEW r \in Reqs, NEW g, g # "read_l2_table_cb", Called(g, r),
         UNCHANGED writeVars,
         \/ \E fn \in {"prefill", "postfill", "main", "l1_update", "complete"}, ret \in Rets :
               Call(r, fn, r, ret)
         \/ \E op \in {"header", "prefill", "postfill", "main", "flush", "l2_flush"}, off \in Nat :
               StartIo(r, op, off),
         Unlinked(r)' => Unlinked(r), NewTable(r)' => NewTable(r)
  PROVE  CInv'
<1>1. Quiet(r)
  BY StillQuiet DEF writeVars, cacheVars, allocVars
<1>2. HeldBy(r) /\ FreshBy(r) /\ TypeOK
  BY DEF CInv, Chains, Fresh
<1>3. /\ io'[r].op \in {"none", "header", "prefill", "postfill", "main", "flush", "l2_flush"}
      /\ run'.fn \in {"none", "prefill", "postfill", "main", "l1_update", "complete"}
  <2>1. ASSUME NEW fn \in {"prefill", "postfill", "main", "l1_update", "complete"},
               NEW ret \in Rets, Call(r, fn, r, ret)
        PROVE  io'[r] = NoIo /\ run'.fn = fn
    <3>1. CallWith(r, fn, r, ret, 0, 0) /\ fn \in ReqCalls
      BY <2>1 DEF Call, ReqCalls
    <3> QED
      BY <3>1, CallEnd DEF CInv, writeVars
  <2>2. ASSUME NEW op \in {"header", "prefill", "postfill", "main", "flush", "l2_flush"},
               NEW off \in Nat, StartIo(r, op, off)
        PROVE  io'[r].op = op /\ run' = Idle
    BY <2>2, IoEnd DEF CInv, writeVars
  <2> QED
    BY <2>1, <2>2
<1>4. HasTable(r)' => acb[r].l2 # NoEntry
  <2>1. HasTable(r)' => Private(r)' \/ (Unlinked(r)' /\ acb'[r].found # "L1")
    BY <1>3 DEF HasTable
  <2>2. Private(r)' => Private(r)
    BY <1>3 DEF Private
  <2>3. Private(r) \/ (Unlinked(r) /\ acb[r].found # "L1") => HasTable(r)
    BY DEF HasTable
  <2> QED
    BY <1>2, <2>1, <2>2, <2>3 DEF HeldBy, writeVars
<1>5. LayoutStays => FreshBy(r)'
  <2> SUFFICES ASSUME LayoutStays PROVE FreshBy(r)'
    OBVIOUS
  <2>1. acb' = acb /\ ent' = ent /\ l1' = l1
    BY DEF writeVars, cacheVars
  <2> QED
    BY <1>2, <2>1, FreshKept
<1> QED
  BY <1>1, <1>4, <1>5, QuietHolder

\* Those steps.
LEMMA HolderStepsCache ==
  ASSUME CInv, IInv', NEW r \in Reqs,
         \/ qed_aio_write_prefill(r) \/ qed_aio_write_postfill(r)
         \/ qed_aio_write_main(r) \/ qed_aio_write_flush_before_l2_update(r)
         \/ qed_write_table_cb(r)
  PROVE  CInv'
<1>0. /\ acb[r].cluster \in Nat /\ acb[r].len \in Nat /\ acb[r].pos \in Nat
      /\ Into(acb[r].pos) \in Nat
  <2>1. acb[r].cluster \in Addresses /\ acb[r].len \in Nat /\ acb[r].pos \in Nat
    BY TypeFacts DEF CInv
  <2>2. acb[r].cluster \in Nat
    BY <2>1, Sizes
  <2>3. Into(acb[r].pos) \in Nat
    BY <2>1, IndexFacts, Sizes
  <2> QED
    BY <2>1, <2>2, <2>3
<1>00. /\ acb[r].cluster + Into(acb[r].pos) \in Nat /\ PartEnd(r) \in Nat
       /\ "0" \in Rets /\ 0 \in Nat
  BY <1>0 DEF PartEnd, Rets
<1>1. CASE qed_aio_write_prefill(r)
  <2>1. Called("prefill", r) /\ UNCHANGED writeVars
        /\ (Call(r, "postfill", r, "0") \/ StartIo(r, "prefill", acb[r].cluster))
    BY <1>1 DEF qed_aio_write_prefill, qed_copy_from_backing_file
  <2>2. Unlinked(r)
    BY <2>1, HolderCalled
  <2>3. ~ NewTable(r)'
    <3>1. io'[r].op \in {"none", "prefill"} /\ run'.fn \in {"none", "postfill"}
      BY <2>1, QedAssumption DEF Call, CallWith, StartIo, CInv, IInv, Shape
    <3> QED
      BY <3>1 DEF NewTable
  <2> QED
    BY <1>0, <1>00, <2>1, <2>2, <2>3, HolderCache
<1>2. CASE qed_aio_write_postfill(r)
  <2>1. Called("postfill", r) /\ UNCHANGED writeVars
        /\ \/ Call(r, "complete", r, Ret(r))
           \/ Call(r, "main", r, "0") \/ StartIo(r, "postfill", PartEnd(r))
    BY <1>2 DEF qed_aio_write_postfill, qed_copy_from_backing_file
  <2>2. Unlinked(r) /\ Ret(r) \in Rets
    BY <2>1, HolderCalled, RetFacts
  <2>3. ~ NewTable(r)'
    <3>1. io'[r].op \in {"none", "postfill"} /\ run'.fn \in {"none", "complete", "main"}
      BY <2>1, QedAssumption DEF Call, CallWith, StartIo, CInv, IInv, Shape
    <3> QED
      BY <3>1 DEF NewTable
  <2> QED
    BY <1>00, <2>1, <2>2, <2>3, HolderCache
<1>3. CASE qed_aio_write_main(r)
  <2>1. Called("main", r) /\ UNCHANGED writeVars
        /\ \/ Call(r, "complete", r, Ret(r))
           \/ StartIo(r, "main", acb[r].cluster + Into(acb[r].pos))
    BY <1>3 DEF qed_aio_write_main
  <2>2. (acb[r].found # "FOUND" => Unlinked(r)) /\ Ret(r) \in Rets
    BY <2>1, HolderCalled, RetFacts
  <2>3. ~ NewTable(r)' /\ (Unlinked(r)' => acb[r].found # "FOUND")
    <3>1. io'[r].op \in {"none", "main"} /\ run'.fn \in {"none", "complete"} /\ acb' = acb
      BY <2>1, QedAssumption DEF Call, CallWith, StartIo, CInv, IInv, Shape, writeVars
    <3> QED
      BY <3>1 DEF NewTable, Unlinked
  <2> QED
    BY <1>00, <2>1, <2>2, <2>3, HolderCache
<1>4. CASE qed_aio_write_flush_before_l2_update(r)
  <2>1. Called("flush_before", r) /\ UNCHANGED writeVars /\ StartIo(r, "flush", 0)
    BY <1>4 DEF qed_aio_write_flush_before_l2_update
  <2>2. Unlinked(r)
    BY <2>1, HolderCalled
  <2>3. ~ NewTable(r)'
    <3>1. io'[r].op = "flush" /\ run'.fn = "none"
      BY <2>1, QedAssumption DEF StartIo, CInv, IInv, Shape
    <3> QED
      BY <3>1 DEF NewTable
  <2> QED
    BY <1>00, <2>1, <2>2, <2>3, HolderCache
<1>5. CASE qed_write_table_cb(r)
  <2>1. Called("write_table_cb", r) /\ UNCHANGED writeVars
        /\ (Call(r, "l1_update", r, Ret(r)) \/ StartIo(r, "l2_flush", 0))
    BY <1>5 DEF qed_write_table_cb
  <2>2. NewTable(r) /\ Ret(r) \in Rets
    BY <2>1, HolderCalled, RetFacts
  <2>3. ~ Unlinked(r)'
    <3>1. io'[r].op \in {"none", "l2_flush"} /\ run'.fn \in {"none", "l1_update"}
      BY <2>1, QedAssumption DEF Call, CallWith, StartIo, CInv, IInv, Shape
    <3> QED
      BY <3>1 DEF Unlinked
  <2> QED
    BY <1>00, <2>1, <2>2, <2>3, HolderCache
<1> QED
  BY <1>1, <1>2, <1>3, <1>4, <1>5

\* The error exits of the table updates.
LEMMA UpdateFailedCache ==
  ASSUME CInv, IInv', NEW r \in Reqs, NEW g \in {"l2_update", "l1_update"}, Called(g, r),
         UNCHANGED writeVars, Call(r, "complete", r, Ret(r))
  PROVE  CInv'
<1>1. Ret(r) \in Rets
  BY RetFacts
<1>2. io'[r].op = "none" /\ run'.fn = "complete"
  BY QedAssumption DEF Call, CallWith, CInv, IInv, Shape
<1>3. ~ Unlinked(r)' /\ ~ NewTable(r)'
  BY <1>2 DEF Unlinked, NewTable
<1> QED
  BY <1>1, <1>3, HolderCache

\* A request that was not issued yet.
LEMMA UnusedType == Unused \in AcbType /\ Unused.l2 = NoEntry
<1>1. "none" \in Contents /\ "0" \in Rets /\ 0 \in Addresses
  BY Sizes DEF Contents, Rets
<1>2. [p \in Sectors |-> "none"] \in [Sectors -> Contents]
  BY <1>1
<1> QED
  BY <1>1, <1>2 DEF Unused, AcbType

\* A request is issued.
LEMMA SetupCache ==
  ASSUME CInv, IInv', NEW r \in Reqs, qed_aio_setup(r)
  PROVE  CInv'
<1>0. /\ run = Idle /\ acb[r].st = "unused" /\ CallWith(r, "next_io", r, "0", 0, 0)
      /\ UNCHANGED <<fileVars, cacheVars, allocVars, file_size, l1, abort>>
  BY DEF qed_aio_setup, Call
<1>1. acb[r].l2 = NoEntry /\ io[r] = NoIo
  BY <1>0 DEF CInv, Chains, HeldBy, IInv, Busy
<1>2. /\ acb \in [Reqs -> AcbType] /\ file_size \in Offsets /\ need_check \in BOOLEAN
      /\ file_size \in Nat /\ file_size \in Addresses
      /\ l1 \in Tables /\ ent \in [Entries -> EntType] /\ cache \in Seq(Entries)
      /\ abort \in {"none", "timer", "plug", "unplug", "commit"}
  BY TypeFacts, Sizes DEF CInv, TypeOK, Layout
<1>3. PICK w \in BOOLEAN, e \in Extents :
         acb' = [acb EXCEPT ![r] =
                   [Unused EXCEPT !.st = "busy", !.write = w, !.start = e[1],
                       !.pos = e[1], !.end = e[2],
                       !.before = {v \in Reqs : acb[v].st = "done"}]]
  BY DEF qed_aio_setup
<1>4. e[1] \in Nat /\ e[2] \in Nat /\ e[2] <= TableNElems * TableNElems * ClusterSectors
  BY QedAssumption
<1> DEFINE b == {v \in Reqs : acb[v].st = "done"}
<1>5. b \in SUBSET Reqs
  OBVIOUS
<1> HIDE DEF b
<1> DEFINE y == [Unused EXCEPT !.st = "busy", !.write = w, !.start = e[1],
                    !.pos = e[1], !.end = e[2], !.before = b]
<1>6. y \in AcbType /\ y.l2 = NoEntry /\ y.end = e[2] /\ y.st = "busy"
  <2>1. Unused \in AcbType /\ Unused.l2 = NoEntry
    BY UnusedType
  <2>2. PICK u \in AcbType : u = Unused
    BY <2>1
  <2>3. LET z == [u EXCEPT !.st = "busy", !.write = w, !.start = e[1],
                    !.pos = e[1], !.end = e[2], !.before = b]
        IN  z \in AcbType /\ z.l2 = u.l2 /\ z.end = e[2] /\ z.st = "busy"
    BY <1>4, <1>5 DEF AcbType
  <2> QED
    BY <2>1, <2>2, <2>3
<1>7. acb' = [acb EXCEPT ![r] = y]
  BY <1>3 DEF b
<1> HIDE DEF y
<1>8. /\ acb' \in [Reqs -> AcbType] /\ acb'[r] = y
      /\ \A s \in Reqs : s # r => acb'[s] = acb[s]
  BY <1>2, <1>6, <1>7, AcbMoved
<1>9. /\ \A s \in Reqs : s # r => Same(s)
      /\ io'[r] = NoIo /\ run' = [fn |-> "next_io", r |-> r, ret |-> "0", off |-> 0, len |-> 0]
  <2>1. "next_io" \in ReqCalls
    BY DEF ReqCalls
  <2> QED
    BY <1>0, <1>8, <2>1, CallEnd DEF CInv
<1>10. TypeOK'
  <2>1. "next_io" \in CallNames /\ "0" \in Rets \cup Found /\ 0 \in Addresses
    BY Sizes DEF CallNames, Rets
  <2>2. io' \in [Reqs \cup {Timer} -> IoType] /\ run' \in RunType
    BY <1>0, <2>1, CallType DEF CInv
  <2> QED
    BY <1>0, <1>2, <1>8, <2>2, TypeStep DEF CInv, cacheVars, allocVars
<1>11. ~ Unlinked(r)' /\ ~ NewTable(r)' /\ ~ Private(r)' /\ ~ Looking(r)' /\ run'.ret \in Rets
  BY <1>9 DEF Unlinked, NewTable, Private, Looking, Rets
<1>12. ~ HasTable(r)'
  BY <1>9, <1>11 DEF HasTable
<1>13. FreshBy(r)' /\ ChainBy(r)'
  BY <1>4, <1>6, <1>8, <1>9, <1>11 DEF FreshBy, ChainBy
<1>14. UNCHANGED <<ent, cache, l1, disk_l1, disk_l2, file_size>>
  BY <1>0 DEF cacheVars, fileVars
<1>15. file_size' \in Offsets /\ file_size' >= file_size
  BY <1>2, <1>14
<1> QED
  BY <1>0, <1>1, <1>6, <1>8, <1>9, <1>10, <1>11, <1>12, <1>13, <1>14, <1>15, QuietStep

\* A request is answered.
LEMMA CompleteBhCache ==
  ASSUME CInv, IInv', NEW r \in Reqs, qed_aio_complete_bh(r)
  PROVE  CInv'
<1>0. /\ run = Idle /\ acb[r].st = "bh" /\ acb' = [acb EXCEPT ![r].st = "done"]
      /\ UNCHANGED <<fileVars, cacheVars, allocVars, file_size, l1, io, run, abort>>
  BY DEF qed_aio_complete_bh
<1>1. acb \in [Reqs -> AcbType] /\ run \in RunType /\ io \in [Reqs \cup {Timer} -> IoType]
  BY TypeFacts DEF CInv
<1> DEFINE y == [acb[r] EXCEPT !.st = "done"]
<1>2. /\ y \in AcbType /\ y.l2 = acb[r].l2 /\ y.found = acb[r].found /\ y.pos = acb[r].pos
      /\ y.end = acb[r].end /\ y.len = acb[r].len /\ y.cluster = acb[r].cluster
      /\ y.n = acb[r].n
  <2>1. PICK a \in AcbType : a = acb[r]
    BY <1>1
  <2>2. LET z == [a EXCEPT !.st = "done"]
        IN  /\ z \in AcbType /\ z.l2 = a.l2 /\ z.found = a.found /\ z.pos = a.pos
            /\ z.end = a.end /\ z.len = a.len /\ z.cluster = a.cluster /\ z.n = a.n
    BY DEF AcbType
  <2> QED
    BY <2>1, <2>2
<1>3. acb' = [acb EXCEPT ![r] = y]
  BY <1>0, <1>1
<1> HIDE DEF y
<1>4. /\ acb' \in [Reqs -> AcbType] /\ acb'[r] = y
      /\ \A s \in Reqs : s # r => acb'[s] = acb[s]
  BY <1>1, <1>2, <1>3, AcbMoved
<1>5. \A s \in Reqs : Same(s)
  BY <1>0, <1>2, <1>4 DEF Same, Running
<1>6. TypeOK'
  <2>1. need_check \in BOOLEAN /\ abort \in {"none", "timer", "plug", "unplug", "commit"}
    BY DEF CInv, TypeOK
  <2> QED
    BY <1>0, <1>1, <1>4, <2>1, TypeFacts, TypeStep DEF CInv, cacheVars, allocVars
<1>7. run'.ret \in Rets
  BY <1>0 DEF Rets
<1> QED
  BY <1>0, <1>5, <1>6, <1>7, StillStep DEF cacheVars, fileVars

\* The need-check timer's chain.
LEMMA TimerCache ==
  ASSUME CInv, IInv', NeedCheck
  PROVE  CInv'
<1>0. UNCHANGED timerVars
  BY DEF NeedCheck, qed_need_check_timer_cb, qed_clear_need_check,
         qed_flush_after_clear_need_check, qed_unplug_allocating_write_reqs
<1>1. \/ Return(Timer)
      \/ \E op \in {"t_flush", "t_header"} : StartIo(Timer, op, 0)
      \/ Call(Timer, "unplug", Timer, "0")
      \/ queue # <<>> /\ Call(Timer, "next_io", Head(queue), "0")
  BY DEF NeedCheck, qed_need_check_timer_cb, qed_clear_need_check, qed_write_header,
         qed_flush_after_clear_need_check, qed_unplug_allocating_write_reqs
<1>2. queue # <<>> => Head(queue) \in Reqs
  BY DEF CInv, IInv, Shape
<1>3. /\ \A s \in Reqs : io'[s] = io[s] /\ (Running(s)' => run'.fn = "next_io")
      /\ run'.ret \in Rets
  BY <1>1, QedAssumption DEF Call, CallWith, StartIo, Return, Running, CInv, IInv, Shape, Rets
<1>4. \A s \in Reqs : Same(s)
  BY <1>0, <1>3 DEF Same, timerVars
<1>5. io' \in [Reqs \cup {Timer} -> IoType] /\ run' \in RunType
  <2>1. /\ "t_flush" \in Ops /\ "t_header" \in Ops /\ "unplug" \in CallNames
        /\ "next_io" \in CallNames /\ "0" \in Rets \cup Found /\ 0 \in Addresses
    BY Sizes DEF Ops, CallNames, Rets
  <2>2. TypeOK
    BY DEF CInv
  <2>3. CASE Return(Timer) \/ \E op \in {"t_flush", "t_header"} : StartIo(Timer, op, 0)
    BY <2>1, <2>2, <2>3, IoTypes
  <2>4. CASE Call(Timer, "unplug", Timer, "0")
    BY <2>1, <2>2, <2>4, CallType DEF Call
  <2>5. CASE queue # <<>> /\ Call(Timer, "next_io", Head(queue), "0")
    BY <1>2, <2>1, <2>2, <2>5, CallType DEF Call
  <2> QED
    BY <1>1, <2>3, <2>4, <2>5
<1>6. /\ need_check' \in BOOLEAN
      /\ abort' \in {"none", "timer", "plug", "unplug", "commit"}
  BY DEF NeedCheck, qed_need_check_timer_cb, qed_clear_need_check,
         qed_flush_after_clear_need_check, qed_unplug_allocating_write_reqs,
         CInv, TypeOK, allocVars
<1>7. TypeOK'
  <2>1. /\ file_size \in Addresses /\ l1 \in Tables /\ ent \in [Entries -> EntType]
        /\ cache \in Seq(Entries) /\ acb \in [Reqs -> AcbType]
    BY TypeFacts DEF CInv
  <2> QED
    BY <1>0, <1>5, <1>6, <2>1, TypeStep DEF CInv, timerVars, cacheVars
<1> QED
  BY <1>0, <1>3, <1>4, <1>7, StillStep DEF timerVars, cacheVars, fileVars

-----------------------------------------------------------------------------
(* Steps that exchange r's entry.                                           *)

\* An entry in use has a user.
LEMMA UserCount ==
  ASSUME NEW a, NEW e, NEW s \in Reqs, a[s].l2 = e
  PROVE  Cardinality(Users(a, e)) \in Nat /\ Cardinality(Users(a, e)) >= 1
<1>1. IsFiniteSet(Users(a, e))
  <2>1. Users(a, e) \in SUBSET Reqs
    BY DEF Users
  <2> QED
    BY <2>1, QedAssumption, FS_Subset
<1>2. s \in Users(a, e)
  BY DEF Users
<1>3. Cardinality(Users(a, e)) \in Nat /\ (Cardinality(Users(a, e)) = 0 <=> Users(a, e) = {})
  BY <1>1, FS_CardinalityType, FS_EmptySet
<1> QED
  BY <1>2, <1>3

\* A step of r that adds nothing to the layout and disturbs no entry that
\* somebody else uses.
LEMMA EntryStep ==
  ASSUME CInv, IInv', TypeOK', ReferencesExact', CacheShape', LayoutStays, NEW r \in Reqs,
         l1' = l1, disk_l1' \in {disk_l1, l1},
         \A s \in Reqs : s # r => Same(s),
         \A e \in Entries : e # acb[r].l2 =>
            ent'[e].ref = 0 \/ ent'[e].offset = ent[e].offset \/ ent[e].ref = 0,
         Cached' \subseteq Cached \cup {acb[r].l2},
         acb'[r].l2 = NoEntry \/ acb'[r].l2 \in Cached' \/ ent[acb'[r].l2].ref = 0
            \/ acb'[r].l2 = acb[r].l2,
         \A s \in Reqs : s # r /\ acb[s].l2 = acb[r].l2 /\ acb[r].l2 # NoEntry =>
            ent'[acb[r].l2].offset = ent[acb[r].l2].offset,
         run'.fn # "data" => run'.ret \in Rets,
         HeldBy(r)', ChainBy(r)', FreshBy(r)'
  PROVE  CInv'
<1>1. ASSUME NEW s \in Reqs, s # r, acb[s].l2 # NoEntry
      PROVE  ent'[acb[s].l2].offset = ent[acb[s].l2].offset
  <2> DEFINE e == acb[s].l2
  <2>1. e \in Entries /\ Same(s)
    BY <1>1, TypeFacts DEF CInv
  <2>2. ent[e].ref >= 1
    BY <2>1, RefFacts DEF CInv
  <2>3. ent'[e].ref # 0
    <3>1. acb'[s].l2 = e
      BY <2>1 DEF Same
    <3>2. Cardinality(Users(acb', e)) \in Nat /\ Cardinality(Users(acb', e)) >= 1
      BY <3>1, UserCount
    <3>3. ent'[e].ref = Cardinality(Users(acb', e)) + (IF e \in Cached' THEN 1 ELSE 0)
      BY <2>1 DEF ReferencesExact, Users
    <3> QED
      BY <3>2, <3>3
  <2>4. ent[e].ref # 0
    BY <2>1, <2>2, TypeFacts DEF CInv
  <2> QED
    BY <1>1, <2>1, <2>3, <2>4
<1>2. ASSUME NEW s \in Reqs, s # r, Private(s)
      PROVE  /\ acb[s].l2 # NoEntry /\ acb[s].l2 \notin Cached'
             /\ \A t \in Reqs : t # s => acb'[t].l2 # acb[s].l2
  <2>1. HeldBy(s) /\ HasTable(s) /\ HeldBy(r)
    BY <1>2 DEF CInv, Chains, HasTable
  <2>2. acb[s].l2 # NoEntry /\ acb[s].l2 \notin Cached /\ acb[r].l2 # acb[s].l2
    BY <1>2, <2>1 DEF HeldBy
  <2>3. acb[s].l2 \in Entries
    BY <2>2, TypeFacts DEF CInv
  <2>4. ent[acb[s].l2].ref # 0
    <3>1. ent[acb[s].l2].ref >= 1
      BY <2>3, RefFacts DEF CInv
    <3> QED
      BY <2>3, <3>1, TypeFacts DEF CInv
  <2>5. acb[s].l2 \notin Cached'
    BY <2>2
  <2>6. acb'[r].l2 # acb[s].l2
    BY <2>2, <2>4, <2>5
  <2>7. ASSUME NEW t \in Reqs, t # s PROVE acb'[t].l2 # acb[s].l2
    <3>1. CASE t = r
      BY <2>6, <3>1
    <3>2. CASE t # r
      BY <1>2, <2>1, <2>7, <3>2 DEF HeldBy, Same
    <3> QED
      BY <3>1, <3>2
  <2> QED
    BY <2>2, <2>5, <2>7
<1>3. Layout'
  BY LayoutKept DEF CInv
<1>4. Fresh'
  <2> SUFFICES ASSUME NEW s \in Reqs PROVE FreshBy(s)'
    BY DEF Fresh
  <2>1. CASE s = r
    BY <2>1
  <2>2. CASE s # r
    <3>1. FreshBy(s) /\ Same(s)
      BY <2>2 DEF CInv, Fresh
    <3>2. (Unlinked(s)' => Unlinked(s)) /\ (NewTable(s)' => NewTable(s))
      BY <3>1, StagesKept
    <3>3. NewTable(s)' => ent'[acb'[s].l2].offset = ent[acb[s].l2].offset
      <4>1. NewTable(s) => Private(s)
        BY DEF Private
      <4> QED
        BY <1>1, <1>2, <2>2, <3>1, <3>2, <4>1 DEF Same
    <3> QED
      BY <3>1, <3>2, <3>3, FreshKept DEF CInv, Same
  <2> QED
    BY <2>1, <2>2
<1>5. Chains'
  <2> SUFFICES ASSUME NEW s \in Reqs PROVE HeldBy(s)' /\ ChainBy(s)'
    BY DEF Chains
  <2>1. CASE s = r
    BY <2>1
  <2>2. CASE s # r
    <3>1. HeldBy(s) /\ ChainBy(s) /\ Same(s)
      BY <2>2 DEF CInv, Chains
    <3> QED
      BY <1>1, <1>2, <2>2, <3>1, SameHeld, SameChain
  <2> QED
    BY <2>1, <2>2
<1> QED
  BY <1>3, <1>4, <1>5 DEF CInv

\* The entries after r drops its own.
LEMMA OwnUnref ==
  ASSUME CInv, NEW r \in Reqs
  PROVE  LET x == acb[r].l2
             es == qed_unref_l2_cache_entry(ent, x)
         IN  /\ es \in [Entries -> EntType]
             /\ \A e \in Entries :
                  /\ es[e].ref = ent[e].ref - (IF e = x THEN 1 ELSE 0)
                  /\ es[e].ref \in Nat
                  /\ e # x => es[e] = ent[e]
                  /\ \/ es[e] = Freed
                     \/ es[e].offset = ent[e].offset /\ es[e].table = ent[e].table
                  /\ es[e].ref = 0 => es[e] = Freed
                  /\ ent[e].ref = 0 => es[e].ref = 0
                  /\ e \in Cached => /\ es[e].offset = ent[e].offset /\ es[e].table = ent[e].table
                                     /\ es[e].ref >= 1
                  /\ \A s \in Reqs : s # r /\ acb[s].l2 = e =>
                        /\ es[e].offset = ent[e].offset /\ es[e].table = ent[e].table
                        /\ es[e].ref >= 1
<1> DEFINE x == acb[r].l2
           es == qed_unref_l2_cache_entry(ent, x)
<1>1. /\ ent \in [Entries -> EntType] /\ x \in Entries \cup {NoEntry}
      /\ \A e \in Entries : ent[e].ref \in Nat
  BY TypeFacts DEF CInv
<1>2. x # NoEntry => ent[x].ref >= 1
  BY <1>1, RefFacts DEF CInv
<1>3. /\ es \in [Entries -> EntType]
      /\ \A e \in Entries : /\ es[e].ref = ent[e].ref - (IF e = x THEN 1 ELSE 0)
                            /\ e # x => es[e] = ent[e]
                            /\ \/ es[e] = Freed
                               \/ es[e].offset = ent[e].offset /\ es[e].table = ent[e].table
                            /\ e = x /\ es[e].ref = 0 => es[e] = Freed
  BY <1>1, <1>2, UnrefFacts
<1> HIDE DEF es
<1>4. ASSUME NEW e \in Entries
      PROVE  /\ es[e].ref = 0 => es[e] = Freed
             /\ es[e].ref \in Nat
             /\ ent[e].ref = 0 => es[e].ref = 0
             /\ e \in Cached => es[e].ref >= 1
             /\ \A s \in Reqs : s # r /\ acb[s].l2 = e => es[e].ref >= 1
  <2>1. ent[e].ref = 0 => ent[e] = Freed
    BY DEF CInv, CacheShape
  <2>2. e = x => ent[e].ref >= 1
    BY <1>2, EntryFacts
  <2>3. /\ e \in Cached => ent[e].ref >= 1
        /\ e \in Cached /\ e = x => ent[e].ref >= 2
        /\ \A s \in Reqs : acb[s].l2 = e => ent[e].ref >= 1
        /\ \A s \in Reqs : s # r /\ acb[s].l2 = e /\ e = x => ent[e].ref >= 2
    BY RefFacts DEF CInv
  <2>4. es[e].ref \in Nat /\ ent[e].ref \in Nat
    BY <1>1, <1>3, <2>2
  <2> QED
    BY <1>1, <1>3, <2>1, <2>2, <2>3, <2>4
<1>5. Freed.ref = 0
  BY DEF Freed
<1>6. \A e \in Entries : e \in Cached \/ (\E s \in Reqs : s # r /\ acb[s].l2 = e) =>
         es[e].offset = ent[e].offset /\ es[e].table = ent[e].table
  BY <1>3, <1>4, <1>5
<1> QED
  BY <1>3, <1>4, <1>6 DEF es

\* An entry's reference count is set.
LEMMA RefSet ==
  ASSUME NEW es \in [Entries -> EntType], NEW h \in Entries, NEW v \in Nat
  PROVE  LET n == [es EXCEPT ![h].ref = v]
         IN  /\ n \in [Entries -> EntType]
             /\ \A e \in Entries : /\ n[e].offset = es[e].offset /\ n[e].table = es[e].table
                                   /\ n[e].ref = IF e = h THEN v ELSE es[e].ref
                                   /\ e # h => n[e] = es[e]
<1> DEFINE y == [es[h] EXCEPT !.ref = v]
           n == [es EXCEPT ![h].ref = v]
<1>1. y \in EntType /\ y.offset = es[h].offset /\ y.table = es[h].table /\ y.ref = v
  BY DEF EntType
<1>2. n = [es EXCEPT ![h] = y]
  OBVIOUS
<1> HIDE DEF y, n
<1>3. /\ n \in [Entries -> EntType]
      /\ \A e \in Entries : /\ n[e].offset = es[e].offset /\ n[e].table = es[e].table
                            /\ n[e].ref = IF e = h THEN v ELSE es[e].ref
                            /\ e # h => n[e] = es[e]
  BY <1>1, <1>2
<1> QED
  BY <1>3 DEF n

\* The cache keeps its shape while its entries keep their offsets.
LEMMA ShapeStep ==
  ASSUME CInv, cache' = cache, \A e \in Entries : ent'[e].ref = 0 => ent'[e] = Freed,
         \A e \in Cached : ent'[e].offset = ent[e].offset
  PROVE  CacheShape'
<1>1. \A i \in 1 .. Len(cache) : ent'[cache[i]].offset = ent[cache[i]].offset
  BY DEF Cached
<1> QED
  BY <1>1 DEF CInv, CacheShape

\* r drops its entry, and takes none, a cached one or a fresh one.
Exchange(r, y) ==
    LET es == qed_unref_l2_cache_entry(ent, acb[r].l2)
    IN  \/ y = NoEntry /\ ent' = es
        \/ y \in Entries /\ y \in Cached /\ ent' = [es EXCEPT ![y].ref = es[y].ref + 1]
        \/ y \in Entries /\ es[y].ref = 0 /\ ent' = [es EXCEPT ![y].ref = 1]

\* What that leaves.
LEMMA ExchangeFacts ==
  ASSUME CInv, NEW r \in Reqs, NEW y, Exchange(r, y), cache' = cache,
         acb'[r].l2 = y, \A s \in Reqs : s # r => acb'[s].l2 = acb[s].l2
  PROVE  /\ ent' \in [Entries -> EntType] /\ ReferencesExact' /\ CacheShape' /\ Cached' = Cached
         /\ \A e \in Entries : \/ ent'[e].offset = 0
                               \/ ent'[e].offset = ent[e].offset /\ ent'[e].table = ent[e].table
         /\ \A e \in Entries : e # acb[r].l2 =>
              ent'[e].offset = ent[e].offset /\ ent'[e].table = ent[e].table
         /\ \A s \in Reqs : s # r /\ acb[s].l2 # NoEntry =>
              /\ ent'[acb[s].l2].offset = ent[acb[s].l2].offset
              /\ ent'[acb[s].l2].table = ent[acb[s].l2].table
         /\ \/ y = NoEntry
            \/ y \in Entries /\ y \in Cached /\ ent'[y].offset = ent[y].offset
            \/ /\ y \in Entries /\ y \notin Cached /\ ent'[y].offset = 0
               /\ ent'[y].table = NoTable
               /\ \A s \in Reqs : s # r => acb[s].l2 # y
               /\ ent[y].ref = 0 \/ y = acb[r].l2
<1> DEFINE x == acb[r].l2
           es == qed_unref_l2_cache_entry(ent, x)
<1>1. /\ es \in [Entries -> EntType]
      /\ \A e \in Entries :
           /\ es[e].ref = ent[e].ref - (IF e = x THEN 1 ELSE 0)
           /\ es[e].ref \in Nat
           /\ e # x => es[e] = ent[e]
           /\ \/ es[e] = Freed
              \/ es[e].offset = ent[e].offset /\ es[e].table = ent[e].table
           /\ es[e].ref = 0 => es[e] = Freed
           /\ e \in Cached => es[e].offset = ent[e].offset /\ es[e].ref >= 1
           /\ \A s \in Reqs : s # r /\ acb[s].l2 = e =>
                 /\ es[e].offset = ent[e].offset /\ es[e].table = ent[e].table
                 /\ es[e].ref >= 1
  BY OwnUnref
<1>2. Freed.ref = 0 /\ Freed.offset = 0 /\ Freed.table = NoTable
  BY DEF Freed
<1>3. \/ y = NoEntry /\ ent' = es
      \/ y \in Entries /\ y \in Cached /\ ent' = [es EXCEPT ![y].ref = es[y].ref + 1]
      \/ y \in Entries /\ es[y].ref = 0 /\ ent' = [es EXCEPT ![y].ref = 1]
  BY DEF Exchange
<1> HIDE DEF es
<1>4. /\ ent' \in [Entries -> EntType]
      /\ \A e \in Entries : /\ ent'[e].offset = es[e].offset /\ ent'[e].table = es[e].table
                            /\ ent'[e].ref = es[e].ref + (IF e = y THEN 1 ELSE 0)
                            /\ e # y => ent'[e] = es[e]
  <2>1. CASE y = NoEntry /\ ent' = es
    BY <1>1, <2>1, EntryFacts
  <2>2. CASE y \in Entries /\ y \in Cached /\ ent' = [es EXCEPT ![y].ref = es[y].ref + 1]
    <3>1. es[y].ref + 1 \in Nat
      BY <1>1, <2>2
    <3> HIDE DEF x
    <3>2. /\ ent' \in [Entries -> EntType]
          /\ \A e \in Entries : /\ ent'[e].offset = es[e].offset /\ ent'[e].table = es[e].table
                                /\ ent'[e].ref = IF e = y THEN es[y].ref + 1 ELSE es[e].ref
                                /\ e # y => ent'[e] = es[e]
      <4>1. PICK v \in Nat : v = es[y].ref + 1
        BY <3>1
      <4>2. es \in [Entries -> EntType] /\ y \in Entries /\ ent' = [es EXCEPT ![y].ref = v]
        BY <1>1, <2>2, <4>1
      <4>3. /\ ent' \in [Entries -> EntType]
            /\ \A e \in Entries : /\ ent'[e].offset = es[e].offset /\ ent'[e].table = es[e].table
                                  /\ ent'[e].ref = IF e = y THEN v ELSE es[e].ref
                                  /\ e # y => ent'[e] = es[e]
        <5> DEFINE n == [es EXCEPT ![y].ref = v]
        <5>1. /\ n \in [Entries -> EntType]
              /\ \A e \in Entries : /\ n[e].offset = es[e].offset /\ n[e].table = es[e].table
                                    /\ n[e].ref = IF e = y THEN v ELSE es[e].ref
                                    /\ e # y => n[e] = es[e]
          BY <4>2, RefSet
        <5> HIDE DEF n
        <5>2. ent' = n
          BY <4>2 DEF n
        <5> QED
          BY <5>1, <5>2
      <4> QED
        BY <4>1, <4>3
    <3> QED
      BY <1>1, <3>2
  <2>3. CASE y \in Entries /\ es[y].ref = 0 /\ ent' = [es EXCEPT ![y].ref = 1]
    <3> HIDE DEF x
    <3>2. /\ ent' \in [Entries -> EntType]
          /\ \A e \in Entries : /\ ent'[e].offset = es[e].offset /\ ent'[e].table = es[e].table
                                /\ ent'[e].ref = IF e = y THEN 1 ELSE es[e].ref
                                /\ e # y => ent'[e] = es[e]
      <4>1. PICK v \in Nat : v = 1
        OBVIOUS
      <4>2. es \in [Entries -> EntType] /\ y \in Entries /\ ent' = [es EXCEPT ![y].ref = v]
        BY <1>1, <2>3, <4>1
      <4>3. /\ ent' \in [Entries -> EntType]
            /\ \A e \in Entries : /\ ent'[e].offset = es[e].offset /\ ent'[e].table = es[e].table
                                  /\ ent'[e].ref = IF e = y THEN v ELSE es[e].ref
                                  /\ e # y => ent'[e] = es[e]
        <5> DEFINE n == [es EXCEPT ![y].ref = v]
        <5>1. /\ n \in [Entries -> EntType]
              /\ \A e \in Entries : /\ n[e].offset = es[e].offset /\ n[e].table = es[e].table
                                    /\ n[e].ref = IF e = y THEN v ELSE es[e].ref
                                    /\ e # y => n[e] = es[e]
          BY <4>2, RefSet
        <5> HIDE DEF n
        <5>2. ent' = n
          BY <4>2 DEF n
        <5> QED
          BY <5>1, <5>2
      <4> QED
        BY <4>1, <4>3
    <3> QED
      BY <1>1, <2>3, <3>2
  <2> QED
    BY <1>3, <2>1, <2>2, <2>3
<1>5. Cached' = Cached
  BY DEF Cached
<1>6. ReferencesExact'
  <2>1. \A e \in Entries :
            ent'[e].ref = ent[e].ref - (IF acb[r].l2 = e THEN 1 ELSE 0)
                                     + (IF acb'[r].l2 = e THEN 1 ELSE 0)
                                     - (IF e \in Cached THEN 1 ELSE 0)
                                     + (IF e \in Cached' THEN 1 ELSE 0)
    <3> SUFFICES ASSUME NEW e \in Entries
                 PROVE  ent'[e].ref = ent[e].ref - (IF acb[r].l2 = e THEN 1 ELSE 0)
                                     + (IF acb'[r].l2 = e THEN 1 ELSE 0)
                                     - (IF e \in Cached THEN 1 ELSE 0)
                                     + (IF e \in Cached' THEN 1 ELSE 0)
      OBVIOUS
    <3>1. ent[e].ref \in Nat
      BY TypeFacts DEF CInv
    <3> QED
      BY <1>1, <1>4, <1>5, <3>1
  <2> QED
    BY <2>1, RefStep DEF CInv
<1>7. CacheShape'
  <2>1. ASSUME NEW e \in Entries, ent'[e].ref = 0 PROVE ent'[e] = Freed
    <3>1. e # y /\ es[e].ref = 0
      BY <1>1, <1>4, <2>1
    <3> QED
      BY <1>1, <1>4, <3>1
  <2>2. Cached \subseteq Entries
    BY TypeFacts DEF CInv, Cached
  <2> QED
    BY <1>1, <1>4, <2>1, <2>2, ShapeStep
<1>8. /\ \A e \in Entries : \/ ent'[e].offset = 0
                            \/ ent'[e].offset = ent[e].offset /\ ent'[e].table = ent[e].table
      /\ \A e \in Entries : e # acb[r].l2 =>
              ent'[e].offset = ent[e].offset /\ ent'[e].table = ent[e].table
  BY <1>1, <1>2, <1>4
<1>9. \A s \in Reqs : s # r /\ acb[s].l2 # NoEntry =>
        /\ ent'[acb[s].l2].offset = ent[acb[s].l2].offset
        /\ ent'[acb[s].l2].table = ent[acb[s].l2].table
  <2>1. \A s \in Reqs : acb[s].l2 # NoEntry => acb[s].l2 \in Entries
    BY TypeFacts DEF CInv
  <2> QED
    BY <1>1, <1>4, <2>1
<1>10. ASSUME y \in Entries, es[y].ref = 0
       PROVE  /\ y \notin Cached /\ ent'[y].offset = 0 /\ ent'[y].table = NoTable
              /\ \A s \in Reqs : s # r => acb[s].l2 # y
              /\ ent[y].ref = 0 \/ y = acb[r].l2
  BY <1>1, <1>2, <1>4, <1>10
<1>11. y \in Entries /\ y \in Cached => ent'[y].offset = ent[y].offset
  BY <1>1, <1>4
<1> QED
  BY <1>3, <1>4, <1>5, <1>6, <1>7, <1>8, <1>9, <1>10, <1>11

\* One field of r's record changes: its entry.
LEMMA L2Moved ==
  ASSUME acb \in [Reqs -> AcbType], NEW r \in Reqs, NEW y \in Entries \cup {NoEntry},
         acb' = [acb EXCEPT ![r].l2 = y]
  PROVE  /\ acb' \in [Reqs -> AcbType] /\ acb'[r].l2 = y
         /\ acb'[r].pos = acb[r].pos /\ acb'[r].end = acb[r].end /\ acb'[r].len = acb[r].len
         /\ acb'[r].found = acb[r].found /\ acb'[r].st = acb[r].st
         /\ acb'[r].cluster = acb[r].cluster /\ acb'[r].n = acb[r].n
         /\ \A s \in Reqs : s # r => acb'[s] = acb[s]
<1>1. PICK a \in AcbType : a = acb[r]
  OBVIOUS
<1> DEFINE z == [a EXCEPT !.l2 = y]
<1>2. /\ z \in AcbType /\ z.l2 = y /\ z.found = a.found /\ z.pos = a.pos /\ z.st = a.st
      /\ z.end = a.end /\ z.len = a.len /\ z.cluster = a.cluster /\ z.n = a.n
  BY DEF AcbType
<1>3. acb' = [acb EXCEPT ![r] = z]
  BY <1>1
<1> HIDE DEF z
<1>4. /\ acb' \in [Reqs -> AcbType] /\ acb'[r] = z
      /\ \A s \in Reqs : s # r => acb'[s] = acb[s]
  BY <1>2, <1>3, AcbMoved
<1> QED
  BY <1>1, <1>2, <1>4

\* The exchange adds nothing to the layout, unless r starts to read a table that
\* is already there.
LEMMA ExchangeLayout ==
  ASSUME CInv, NEW r \in Reqs, NEW y, Exchange(r, y), cache' = cache,
         acb'[r].l2 = y, \A s \in Reqs : s # r => Same(s),
         UNCHANGED <<l1, disk_l1, disk_l2, file_size>>,
         io'[r].op = "l2_read" =>
            y \in Entries /\ y \notin Cached /\ Tab(io'[r].off)
  PROVE  LayoutStays
<1>1. \A s \in Reqs : s # r => acb'[s].l2 = acb[s].l2
  BY DEF Same
<1>2. /\ \A e \in Entries : \/ ent'[e].offset = 0
                            \/ ent'[e].offset = ent[e].offset /\ ent'[e].table = ent[e].table
      /\ \A s \in Reqs : s # r /\ acb[s].l2 # NoEntry =>
              ent'[acb[s].l2].table = ent[acb[s].l2].table
      /\ y \in Entries /\ y \notin Cached => ent'[y].table = NoTable
  <2>1. NoEntry \notin Entries
    BY EntryFacts
  <2> QED
    BY <1>1, <2>1, ExchangeFacts
<1>3. \A s \in Reqs : io'[s].op = "l2_read" =>
            \/ /\ io[s].op = "l2_read" /\ io'[s].off = io[s].off
               /\ ent'[acb'[s].l2].table = ent[acb[s].l2].table
            \/ Tab(io'[s].off) /\ ent'[acb'[s].l2].table = NoTable
  <2> SUFFICES ASSUME NEW s \in Reqs, io'[s].op = "l2_read"
               PROVE  \/ /\ io[s].op = "l2_read" /\ io'[s].off = io[s].off
                         /\ ent'[acb'[s].l2].table = ent[acb[s].l2].table
                      \/ Tab(io'[s].off) /\ ent'[acb'[s].l2].table = NoTable
    OBVIOUS
  <2>1. CASE s = r
    BY <1>2, <2>1
  <2>2. CASE s # r
    <3>1. Same(s)
      BY <2>2
    <3>2. io[s].op = "l2_read" /\ io'[s].off = io[s].off
      BY <3>1 DEF Same
    <3>3. acb[s].l2 # NoEntry
      BY <3>2 DEF CInv, Chains, HeldBy, HasTable, Private
    <3> QED
      BY <1>1, <1>2, <2>2, <3>2, <3>3
  <2> QED
    BY <2>1, <2>2
<1>4. file_size' \in Offsets /\ file_size' >= file_size
  BY Sizes DEF CInv, Layout
<1> QED
  BY <1>2, <1>3, <1>4, EntriesKept DEF CInv

\* A lookup in the cache.
LEMMA FindCached ==
  ASSUME TypeOK, NEW es, NEW off
  PROVE  LET hit == qed_find_l2_cache_entry(es, cache, off)
         IN  hit = NoEntry \/ (hit \in Entries /\ hit \in Cached /\ es[hit].offset = off)
<1>1. cache \in Seq(Entries)
  BY TypeFacts
<1> DEFINE hits == {i \in 1 .. Len(cache) : es[cache[i]].offset = off}
<1>2. CASE hits = {}
  BY <1>2 DEF qed_find_l2_cache_entry
<1>3. CASE hits # {}
  <2>1. Min(hits) \in hits
    <3>1. hits \in SUBSET Nat
      OBVIOUS
    <3> QED
      BY <3>1, <1>3, MinFacts
  <2>2. qed_find_l2_cache_entry(es, cache, off) = cache[Min(hits)]
    BY <1>3 DEF qed_find_l2_cache_entry
  <2>3. cache[Min(hits)] \in Entries /\ cache[Min(hits)] \in Cached
    <3>1. PICK m \in 1 .. Len(cache) : m = Min(hits)
      BY <2>1
    <3>2. cache[m] \in Entries
      BY <1>1
    <3>3. cache[m] \in Cached
      BY DEF Cached
    <3> QED
      BY <3>1, <3>2, <3>3
  <2> QED
    BY <2>1, <2>2, <2>3
<1> QED
  BY <1>2, <1>3

\* A lookup that goes on in the cache, or starts to read the table.
LEMMA FindReadCache ==
  ASSUME CInv, IInv', NEW r \in Reqs, Called("find_cluster", r),
         UNCHANGED <<fileVars, cache, allocVars, file_size, l1, abort>>,
         l1[L1Index(acb[r].pos)] # Unalloc,
         qed_read_l2_table(r, l1[L1Index(acb[r].pos)])
  PROVE  CInv'
<1> DEFINE off == l1[L1Index(acb[r].pos)]
           es == qed_unref_l2_cache_entry(ent, acb[r].l2)
           hit == qed_find_l2_cache_entry(es, cache, off)
           new == Alloc(es)
<1>1. run # Idle /\ run.fn = "find_cluster" /\ run.r = r /\ Running(r) /\ Looking(r)
  BY QedAssumption DEF Called, Callback, Running, Looking
<1>2. /\ acb \in [Reqs -> AcbType] /\ l1 \in Tables /\ cache \in Seq(Entries)
      /\ file_size \in Addresses /\ acb[r].pos \in Nat /\ acb[r].end \in Nat
      /\ need_check \in BOOLEAN /\ abort \in {"none", "timer", "plug", "unplug", "commit"}
  BY TypeFacts DEF CInv, TypeOK
<1>3. /\ acb[r].end <= TableNElems * TableNElems * ClusterSectors
      /\ acb[r].pos < acb[r].end
  BY <1>1 DEF CInv, Chains, ChainBy
<1>4. L1Index(acb[r].pos) \in Index
  <2>1. TableNElems * TableNElems * ClusterSectors \in Nat
    <3>1. TableNElems * TableNElems \in Nat
      BY Sizes
    <3> QED
      BY <3>1, Sizes
  <2>2. acb[r].pos < TableNElems * TableNElems * ClusterSectors
    BY <1>2, <1>3, <2>1
  <2> QED
    BY <1>2, <2>2, IndexFacts
<1>5. off \in Addresses /\ off # 0 /\ Tab(off)
  BY <1>2, <1>4 DEF Tables, Tab, Unalloc
<1>6. off \in Offsets \ {0} /\ off \in Nat
  BY <1>5, Sizes DEF CInv, Layout, InFile
<1>7. acb[r].st = "busy"
  BY CalledFacts DEF CInv
<1>9. ASSUME NEW y \in Entries, Exchange(r, y), acb' = [acb EXCEPT ![r].l2 = y],
             \/ /\ y \in Cached /\ ent[y].offset # 0
                /\ CallWith(r, "find_cluster_cb", r, "0", 0, 0)
             \/ /\ y \notin Cached
                /\ StartIo(r, "l2_read", off)
      PROVE  CInv'
  <2> HIDE DEF off
  <2>1. /\ acb' \in [Reqs -> AcbType] /\ acb'[r].l2 = y
        /\ acb'[r].pos = acb[r].pos /\ acb'[r].end = acb[r].end /\ acb'[r].st = acb[r].st
        /\ \A s \in Reqs : s # r => acb'[s] = acb[s]
    BY <1>2, <1>9, L2Moved
  <2>2. /\ ent' \in [Entries -> EntType] /\ ReferencesExact' /\ CacheShape' /\ Cached' = Cached
        /\ \A e \in Entries : e # acb[r].l2 => ent'[e].offset = ent[e].offset
        /\ \A s \in Reqs : s # r /\ acb[s].l2 # NoEntry =>
              ent'[acb[s].l2].offset = ent[acb[s].l2].offset
        /\ y \in Cached => ent'[y].offset = ent[y].offset
        /\ y \notin Cached => /\ ent'[y].offset = 0
                              /\ \A s \in Reqs : s # r => acb[s].l2 # y
                              /\ ent[y].ref = 0 \/ y = acb[r].l2
    <3>1. NoEntry \notin Entries
      BY EntryFacts
    <3> QED
      BY <1>9, <2>1, <3>1, ExchangeFacts
  <2>3. /\ \A s \in Reqs : s # r => Same(s)
        /\ \/ /\ y \in Cached /\ ent[y].offset # 0 /\ io'[r] = NoIo
              /\ run'.fn = "find_cluster_cb" /\ run'.ret = "0" /\ Running(r)'
           \/ /\ y \notin Cached /\ io'[r].op = "l2_read" /\ io'[r].off = off
              /\ run' = Idle /\ ~ Running(r)'
        /\ io' \in [Reqs \cup {Timer} -> IoType] /\ run' \in RunType
    <3>1. CASE y \in Cached /\ ent[y].offset # 0
               /\ CallWith(r, "find_cluster_cb", r, "0", 0, 0)
      <4>1. /\ "find_cluster_cb" \in ReqCalls /\ "find_cluster_cb" \in CallNames
            /\ "0" \in Rets \cup Found /\ 0 \in Addresses
        BY Sizes DEF ReqCalls, CallNames, Rets
      <4>2. /\ \A s \in Reqs : s # r => Same(s)
            /\ io'[r] = NoIo
            /\ run' = [fn |-> "find_cluster_cb", r |-> r, ret |-> "0", off |-> 0, len |-> 0]
            /\ Running(r)'
        BY <2>1, <3>1, <4>1, CallEnd DEF CInv
      <4>3. io' \in [Reqs \cup {Timer} -> IoType] /\ run' \in RunType
        BY <3>1, <4>1, CallType DEF CInv
      <4> QED
        BY <3>1, <4>2, <4>3
    <3>2. CASE y \notin Cached /\ StartIo(r, "l2_read", off)
      <4>1. /\ \A s \in Reqs : s # r => Same(s)
            /\ io'[r].op = "l2_read" /\ io'[r].off = off /\ run' = Idle /\ ~ Running(r)'
        BY <2>1, <3>2, IoEnd DEF CInv
      <4>2. "l2_read" \in Ops
        BY DEF Ops
      <4>3. io' \in [Reqs \cup {Timer} -> IoType] /\ run' \in RunType
        BY <1>6, <3>2, <4>2, IoTypes DEF CInv
      <4> QED
        BY <3>2, <4>1, <4>3
    <3> QED
      BY <1>9, <3>1, <3>2
  <2>4. TypeOK'
    BY <1>2, <2>1, <2>2, <2>3, TypeStep DEF CInv, allocVars
  <2>5. LayoutStays
    <3>1. io'[r].op = "l2_read" => y \in Entries /\ y \notin Cached /\ Tab(io'[r].off)
      BY <1>5, <2>3
    <3> QED
      BY <1>9, <2>1, <2>3, <3>1, ExchangeLayout DEF fileVars
  <2>6. ~ Unlinked(r)' /\ ~ NewTable(r)' /\ (run'.fn # "data" => run'.ret \in Rets)
    BY <2>3 DEF Unlinked, NewTable, Rets
  <2>7. HeldBy(r)'
    <3>1. Private(r)' => io'[r].op = "l2_read"
      BY <2>3, <2>6 DEF Private
    <3>2. y # NoEntry
      BY EntryFacts
    <3> QED
      BY <1>6, <1>7, <2>1, <2>2, <2>3, <3>1, <3>2 DEF HeldBy
  <2>8. ChainBy(r)'
    BY <1>3, <2>1, <2>3 DEF ChainBy
  <2>9. FreshBy(r)'
    BY <2>6 DEF FreshBy
  <2>10. l1' = l1 /\ disk_l1' = disk_l1
    BY DEF fileVars
  <2>11. y \in Cached' \/ ent[y].ref = 0 \/ y = acb[r].l2
    BY <2>2
  <2> QED
    BY <2>1, <2>2, <2>3, <2>4, <2>5, <2>6, <2>7, <2>8, <2>9, <2>10, <2>11, EntryStep
<1>10. /\ es \in [Entries -> EntType] /\ \A e \in Entries : ent[e].ref = 0 => es[e].ref = 0
       /\ \A e \in Entries : e \in Cached => es[e].offset = ent[e].offset /\ es[e].ref >= 1
  BY OwnUnref
<1>11. \/ hit = NoEntry
       \/ hit \in Entries /\ hit \in Cached /\ ent[hit].offset # 0
  <2> HIDE DEF es, off
  <2>1. \/ hit = NoEntry
        \/ hit \in Entries /\ hit \in Cached /\ es[hit].offset = off
    BY FindCached DEF CInv
  <2> HIDE DEF hit
  <2> QED
    BY <1>5, <1>10, <2>1
<1>12. new \in Entries /\ es[new].ref = 0
  <2> HIDE DEF es
  <2> QED
    BY <1>10, AllocFacts DEF CInv, CacheShape
<1>13. \/ /\ hit # NoEntry /\ ent' = [es EXCEPT ![hit].ref = es[hit].ref + 1]
          /\ acb' = [acb EXCEPT ![r].l2 = hit]
          /\ CallWith(r, "find_cluster_cb", r, "0", 0, 0)
       \/ /\ hit = NoEntry /\ ent' = [es EXCEPT ![new].ref = 1]
          /\ acb' = [acb EXCEPT ![r].l2 = new]
          /\ StartIo(r, "l2_read", off)
  BY DEF qed_read_l2_table, Call
<1> HIDE DEF hit, new, off
<1>14. CASE /\ hit # NoEntry /\ ent' = [es EXCEPT ![hit].ref = es[hit].ref + 1]
            /\ acb' = [acb EXCEPT ![r].l2 = hit]
            /\ CallWith(r, "find_cluster_cb", r, "0", 0, 0)
  <2>1. hit \in Entries /\ hit \in Cached /\ ent[hit].offset # 0
    BY <1>11, <1>14
  <2>2. Exchange(r, hit)
    BY <1>14, <2>1 DEF Exchange
  <2> QED
    BY <1>9, <1>14, <2>1, <2>2
<1>15. CASE /\ ent' = [es EXCEPT ![new].ref = 1]
            /\ acb' = [acb EXCEPT ![r].l2 = new]
            /\ StartIo(r, "l2_read", off)
  <2>1. Exchange(r, new)
    BY <1>12, <1>15 DEF Exchange
  <2>2. new \notin Cached
    <3> HIDE DEF es
    <3> QED
      BY <1>10, <1>12
  <2> QED
    BY <1>9, <1>12, <1>15, <2>1, <2>2
<1> QED
  BY <1>13, <1>14, <1>15

\* A table that was read, or a new one, goes into the cache.
LEMMA CommitCache ==
  ASSUME CInv, IInv', NEW r \in Reqs, NEW g, g # "none", Called(g, r), NEW es,
         Committing(r, es, acb[r].l2), es[acb[r].l2].table = ent[acb[r].l2].table,
         \/ es[acb[r].l2].offset = ent[acb[r].l2].offset
         \/ io[r].op = "l2_read" /\ es[acb[r].l2].offset = io[r].off,
         NEW next \in {"find_cluster_cb", "next_io"}, NEW ret \in Rets,
         next = "find_cluster_cb" => Looking(r),
         CommitAndFind(r, es, acb[r].l2, next, ret),
         UNCHANGED <<fileVars, allocVars, file_size, l1>>
  PROVE  CInv'
<1> DEFINE e == acb[r].l2
<1>1. /\ e \in Entries /\ \A s \in Reqs : s # r => acb[s].l2 # e
      /\ \A x \in Entries : x # e => es[x] = ent[x]
  BY DEF Committing
<1>2. /\ acb \in [Reqs -> AcbType] /\ l1 \in Tables
      /\ file_size \in Addresses /\ file_size \in Offsets /\ file_size \in Nat
      /\ need_check \in BOOLEAN /\ abort \in {"none", "timer", "plug", "unplug", "commit"}
  BY TypeFacts, Sizes DEF CInv, TypeOK, Layout
<1>3. /\ ent' \in [Entries -> EntType] /\ cache' \in Seq(Entries)
      /\ ReferencesExact' /\ CacheShape' /\ Cached' \subseteq Cached \cup {e}
      /\ \A x \in Entries :
              \/ ent'[x] = Freed
              \/ ent'[x].offset = es[x].offset /\ ent'[x].table = es[x].table
  BY CommitStep DEF CInv
<1>4. \/ UNCHANGED abort /\ Call(r, next, r, ret) /\ acb'[r].l2 \in Entries
         /\ acb'[r].l2 \in Cached' /\ ent'[acb'[r].l2].offset # 0
      \/ abort' = "commit" /\ Return(r) /\ acb'[r].l2 = NoEntry
  BY CommitStep DEF CInv
<1>5. acb' = [acb EXCEPT ![r].l2 = acb'[r].l2] /\ acb'[r].l2 \in Entries \cup {NoEntry}
  <2>1. PICK x : acb' = [acb EXCEPT ![r].l2 = x]
    BY CommitStep DEF CInv
  <2>2. PICK a \in AcbType : a = acb[r]
    BY <1>2
  <2>3. [a EXCEPT !.l2 = x].l2 = x
    BY DEF AcbType
  <2>4. acb'[r] = [a EXCEPT !.l2 = x]
    BY <1>2, <2>1, <2>2
  <2> QED
    BY <1>4, <2>1, <2>3, <2>4
<1>6. /\ acb' \in [Reqs -> AcbType]
      /\ acb'[r].pos = acb[r].pos /\ acb'[r].end = acb[r].end /\ acb'[r].st = acb[r].st
      /\ \A s \in Reqs : s # r => acb'[s] = acb[s]
  <2>1. PICK y \in Entries \cup {NoEntry} : y = acb'[r].l2
    BY <1>5
  <2>2. acb' = [acb EXCEPT ![r].l2 = y]
    BY <1>5, <2>1
  <2> QED
    BY <1>2, <2>2, L2Moved
<1>7. /\ \A s \in Reqs : s # r => Same(s)
      /\ io'[r] = NoIo /\ run'.ret \in Rets
      /\ run' = Idle \/ (run'.fn = next /\ acb'[r].l2 # NoEntry)
      /\ io' \in [Reqs \cup {Timer} -> IoType] /\ run' \in RunType
  <2>1. CASE Call(r, next, r, ret) /\ acb'[r].l2 \in Entries
    <3>1. CallWith(r, next, r, ret, 0, 0) /\ next \in ReqCalls /\ next \in CallNames
          /\ ret \in Rets \cup Found /\ 0 \in Addresses
      BY <2>1, Sizes DEF Call, ReqCalls, CallNames
    <3>2. /\ \A s \in Reqs : s # r => Same(s)
          /\ io'[r] = NoIo /\ run' = [fn |-> next, r |-> r, ret |-> ret, off |-> 0, len |-> 0]
      BY <1>6, <3>1, CallEnd DEF CInv
    <3>3. io' \in [Reqs \cup {Timer} -> IoType] /\ run' \in RunType
      BY <3>1, CallType DEF CInv
    <3> QED
      BY <2>1, <3>2, <3>3, EntryFacts
  <2>2. CASE Return(r)
    <3>1. (\A s \in Reqs : s # r => Same(s)) /\ io'[r] = NoIo /\ run' = Idle
      BY <1>6, <2>2, ReturnEnd DEF CInv
    <3>2. io' \in [Reqs \cup {Timer} -> IoType] /\ run' \in RunType
      BY <2>2, IoTypes DEF CInv
    <3> QED
      BY <3>1, <3>2 DEF Rets
  <2> QED
    BY <1>4, <2>1, <2>2
<1>8. TypeOK'
  BY <1>2, <1>3, <1>4, <1>6, <1>7, TypeStep DEF CInv, allocVars
<1>9. Freed.offset = 0 /\ Freed.table = NoTable /\ Freed.ref = 0
  BY DEF Freed
<1>10. LayoutStays
  <2>1. \A x \in Entries :
            \/ ent'[x].offset = 0
            \/ ent'[x].offset = ent[x].offset /\ ent'[x].table = ent[x].table
            \/ \E s \in Reqs : /\ io[s].op = "l2_read" /\ io[s].off = ent'[x].offset
                               /\ ent'[x].table = ent[acb[s].l2].table
    <3> SUFFICES ASSUME NEW x \in Entries, ent'[x].offset # 0,
                        ~ (ent'[x].offset = ent[x].offset /\ ent'[x].table = ent[x].table)
                 PROVE  /\ io[r].op = "l2_read" /\ io[r].off = ent'[x].offset
                        /\ ent'[x].table = ent[acb[r].l2].table
      OBVIOUS
    <3>1. ent'[x].offset = es[x].offset /\ ent'[x].table = es[x].table
      BY <1>3, <1>9
    <3>2. x = e
      BY <1>1, <3>1
    <3> QED
      BY <3>1, <3>2
  <2>2. \A s \in Reqs : io'[s].op = "l2_read" =>
            \/ /\ io[s].op = "l2_read" /\ io'[s].off = io[s].off
               /\ ent'[acb'[s].l2].table = ent[acb[s].l2].table
            \/ Tab(io'[s].off) /\ ent'[acb'[s].l2].table = NoTable
    <3> SUFFICES ASSUME NEW s \in Reqs, io'[s].op = "l2_read"
                 PROVE  \/ /\ io[s].op = "l2_read" /\ io'[s].off = io[s].off
                           /\ ent'[acb'[s].l2].table = ent[acb[s].l2].table
                        \/ Tab(io'[s].off) /\ ent'[acb'[s].l2].table = NoTable
      OBVIOUS
    <3>1. s # r /\ Same(s)
      BY <1>7
    <3>2. io[s].op = "l2_read" /\ io'[s].off = io[s].off /\ acb'[s].l2 = acb[s].l2
      BY <3>1 DEF Same
    <3>3. HeldBy(s) /\ HasTable(s)
      BY <3>2 DEF CInv, Chains, HasTable, Private
    <3>4. acb[s].l2 \in Entries /\ acb[s].l2 # e /\ Tab(io[s].off)
      BY <1>1, <3>1, <3>2, <3>3, TypeFacts DEF HeldBy, CInv, Tab
    <3> QED
      BY <1>1, <1>3, <1>9, <3>2, <3>4
  <2>3. file_size' \in Offsets /\ file_size' >= file_size
    BY <1>2
  <2> QED
    BY <2>1, <2>2, <2>3, EntriesKept DEF CInv, fileVars
<1>11. ~ Unlinked(r)' /\ ~ NewTable(r)' /\ ~ Private(r)'
  BY <1>7 DEF Unlinked, NewTable, Private, Running
<1>12. HeldBy(r)'
  <2>1. HasTable(r)' => acb'[r].l2 # NoEntry
    BY <1>7, <1>11 DEF HasTable, Running
  <2>2. acb[r].st = "busy"
    BY CalledFacts DEF CInv
  <2>3. acb'[r].l2 # NoEntry => ent'[acb'[r].l2].offset # 0
    BY <1>4
  <2> QED
    BY <1>6, <1>7, <1>11, <2>1, <2>2, <2>3 DEF HeldBy
<1>13. ChainBy(r)'
  <2>1. acb[r].end <= TableNElems * TableNElems * ClusterSectors
        /\ (Looking(r) => acb[r].pos < acb[r].end)
    BY DEF CInv, Chains, ChainBy
  <2>2. Looking(r)' => Looking(r)
    BY <1>7 DEF Looking, Running
  <2> QED
    BY <1>6, <1>7, <2>1, <2>2 DEF ChainBy, Running
<1>14. FreshBy(r)'
  BY <1>11 DEF FreshBy
<1>15. \A x \in Entries : x # acb[r].l2 =>
            ent'[x].ref = 0 \/ ent'[x].offset = ent[x].offset \/ ent[x].ref = 0
  BY <1>1, <1>3, <1>9
<1>16. l1' = l1 /\ disk_l1' = disk_l1
  BY DEF fileVars
<1>17. acb'[r].l2 = NoEntry \/ acb'[r].l2 \in Cached'
  BY <1>4
<1> QED
  BY <1>1, <1>3, <1>7, <1>8, <1>10, <1>12, <1>13, <1>14, <1>15, <1>16, <1>17, EntryStep

\* r gives up its entry, and its chain goes on without one.
LEMMA DropCache ==
  ASSUME CInv, IInv', NEW r \in Reqs,
         ent' = qed_unref_l2_cache_entry(ent, acb[r].l2), cache' = cache,
         UNCHANGED <<fileVars, file_size, l1, need_check, abort>>,
         acb' \in [Reqs -> AcbType], \A s \in Reqs : s # r => acb'[s] = acb[s],
         acb'[r].l2 = NoEntry, acb'[r].end = acb[r].end,
         \A s \in Reqs : s # r => Same(s),
         io'[r] = NoIo, run'.fn \in {"none", "find_cluster_cb", "next_io"}, run'.ret \in Rets,
         run'.fn = "find_cluster_cb" =>
            run'.ret # "0" /\ Looking(r) /\ acb'[r].pos = acb[r].pos,
         io' \in [Reqs \cup {Timer} -> IoType], run' \in RunType
  PROVE  CInv'
<1>1. Exchange(r, NoEntry) /\ \A s \in Reqs : s # r => acb'[s].l2 = acb[s].l2
  BY DEF Exchange
<1>2. /\ ent' \in [Entries -> EntType] /\ ReferencesExact' /\ CacheShape' /\ Cached' = Cached
      /\ \A e \in Entries : e # acb[r].l2 => ent'[e].offset = ent[e].offset
      /\ \A s \in Reqs : s # r /\ acb[s].l2 # NoEntry =>
            ent'[acb[s].l2].offset = ent[acb[s].l2].offset
  BY <1>1, ExchangeFacts
<1>3. TypeOK'
  <2>1. /\ l1 \in Tables /\ cache \in Seq(Entries) /\ file_size \in Addresses
        /\ need_check \in BOOLEAN /\ abort \in {"none", "timer", "plug", "unplug", "commit"}
    BY TypeFacts DEF CInv, TypeOK
  <2> QED
    BY <1>2, <2>1, TypeStep DEF CInv
<1>4. LayoutStays
  BY <1>1, ExchangeLayout DEF fileVars
<1>5. ~ Unlinked(r)' /\ ~ NewTable(r)' /\ ~ Private(r)'
  BY DEF Unlinked, NewTable, Private
<1>6. ~ HasTable(r)' /\ (Looking(r)' => run'.fn = "find_cluster_cb")
  BY <1>5 DEF HasTable, Looking
<1>7. HeldBy(r)' /\ FreshBy(r)'
  BY <1>5, <1>6 DEF HeldBy, FreshBy
<1>8. ChainBy(r)'
  <2>1. acb[r].end <= TableNElems * TableNElems * ClusterSectors
        /\ (Looking(r) => acb[r].pos < acb[r].end)
    BY DEF CInv, Chains, ChainBy
  <2> QED
    BY <1>6, <2>1 DEF ChainBy
<1>9. l1' = l1 /\ disk_l1' = disk_l1
  BY DEF fileVars
<1> QED
  BY <1>2, <1>3, <1>4, <1>7, <1>8, <1>9, EntryStep

\* A table has been read.
LEMMA ReadTableCache ==
  ASSUME CInv, IInv', NEW r \in Reqs, qed_read_l2_table_cb(r)
  PROVE  CInv'
<1>0. Called("read_l2_table_cb", r) /\ UNCHANGED <<fileVars, allocVars, file_size, l1>>
  BY DEF qed_read_l2_table_cb
<1>1. io[r].op = "l2_read" /\ run = Idle /\ Looking(r) /\ Private(r)
  <2>1. run = Idle
    BY <1>0 DEF Called, CInv, IInv, CallShape, ReqCalls
  <2> QED
    BY <1>0, <2>1, QedAssumption DEF Called, Callback, Looking, Private
<1>2. /\ HeldBy(r) /\ acb[r].l2 \in Entries /\ acb[r].l2 \notin Cached
      /\ \A s \in Reqs : s # r => acb[s].l2 # acb[r].l2
      /\ io[r].off \in Offsets \ {0}
  BY <1>1, TypeFacts DEF CInv, Chains, HeldBy, HasTable
<1>3. Ret(r) \in Rets /\ "0" \in Rets
  BY <1>0, RetFacts DEF Rets
<1>4. acb \in [Reqs -> AcbType] /\ ent \in [Entries -> EntType]
  BY TypeFacts DEF CInv
<1>5. CASE /\ Ret(r) # "0" /\ ent' = qed_unref_l2_cache_entry(ent, acb[r].l2)
           /\ acb' = [acb EXCEPT ![r].l2 = NoEntry]
           /\ Call(r, "find_cluster_cb", r, Ret(r))
           /\ UNCHANGED <<cache, abort>>
  <2>1. /\ acb' \in [Reqs -> AcbType] /\ acb'[r].l2 = NoEntry
        /\ acb'[r].pos = acb[r].pos /\ acb'[r].end = acb[r].end
        /\ \A s \in Reqs : s # r => acb'[s] = acb[s]
    BY <1>4, <1>5, L2Moved
  <2>2. CallWith(r, "find_cluster_cb", r, Ret(r), 0, 0) /\ "find_cluster_cb" \in ReqCalls
        /\ "find_cluster_cb" \in CallNames /\ Ret(r) \in Rets \cup Found /\ 0 \in Addresses
    BY <1>3, <1>5, Sizes DEF Call, ReqCalls, CallNames
  <2>3. /\ \A s \in Reqs : s # r => Same(s)
        /\ io'[r] = NoIo
        /\ run' = [fn |-> "find_cluster_cb", r |-> r, ret |-> Ret(r), off |-> 0, len |-> 0]
    BY <2>1, <2>2, CallEnd DEF CInv
  <2>4. io' \in [Reqs \cup {Timer} -> IoType] /\ run' \in RunType
    BY <2>2, CallType DEF CInv
  <2>5. run'.fn = "find_cluster_cb" /\ run'.ret = Ret(r)
    BY <2>3
  <2> QED
    BY <1>0, <1>1, <1>3, <1>5, <2>1, <2>3, <2>4, <2>5, DropCache DEF allocVars
<1> DEFINE e == acb[r].l2
           es == [ent EXCEPT ![e].offset = io[r].off]
<1>6. CASE CommitAndFind(r, es, e, "find_cluster_cb", "0")
  <2>1. Committing(r, es, e) /\ es[e].table = ent[e].table /\ es[e].offset = io[r].off
    <3> DEFINE y == [ent[e] EXCEPT !.offset = io[r].off]
    <3>1. y \in EntType /\ y.table = ent[e].table /\ y.offset = io[r].off /\ y.ref = ent[e].ref
      BY <1>2, <1>4 DEF EntType
    <3>2. es = [ent EXCEPT ![e] = y]
      BY <1>2, <1>4
    <3> HIDE DEF y, es
    <3>3. /\ es \in [Entries -> EntType] /\ es[e] = y
          /\ \A x \in Entries : x # e => es[x] = ent[x]
      BY <1>2, <1>4, <3>1, <3>2
    <3> QED
      BY <1>2, <3>1, <3>3 DEF Committing
  <2> HIDE DEF es
  <2> QED
    BY <1>0, <1>1, <1>3, <1>6, <2>1, CommitCache
<1> QED
  BY <1>5, <1>6 DEF qed_read_l2_table_cb

\* A new table is in the L1 table.
LEMMA CommitUpdateCache ==
  ASSUME CInv, IInv', NEW r \in Reqs, qed_commit_l2_update(r)
  PROVE  CInv'
<1>0. /\ Called("commit", r) /\ UNCHANGED <<fileVars, allocVars, file_size, l1>>
      /\ CommitAndFind(r, ent, acb[r].l2, "next_io", Ret(r))
  BY DEF qed_commit_l2_update
<1>1. Private(r) /\ io[r].op # "l2_read" /\ Ret(r) \in Rets
  BY <1>0, HolderCalled, CalledNotReading, RetFacts DEF CInv
<1>2. /\ HeldBy(r) /\ acb[r].l2 \in Entries /\ acb[r].l2 \notin Cached
      /\ \A s \in Reqs : s # r => acb[s].l2 # acb[r].l2
      /\ ent[acb[r].l2].offset # 0
  BY <1>1, TypeFacts DEF CInv, Chains, HeldBy, HasTable
<1>3. ent \in [Entries -> EntType]
  BY TypeFacts DEF CInv
<1>4. Committing(r, ent, acb[r].l2)
  BY <1>2, <1>3 DEF Committing
<1> QED
  BY <1>0, <1>1, <1>4, CommitCache

\* A request is over.
LEMMA CompleteCache ==
  ASSUME CInv, IInv', NEW r \in Reqs, qed_aio_complete(r)
  PROVE  CInv'
<1>0. /\ Called("complete", r) /\ ent' = qed_unref_l2_cache_entry(ent, acb[r].l2)
      /\ acb' = [acb EXCEPT ![r] = [@ EXCEPT !.st = "bh", !.ret = run.ret,
                  !.l2 = NoEntry, !.pos = 0, !.len = 0, !.cluster = 0,
                  !.n = 0, !.found = "none"]]
      /\ UNCHANGED <<fileVars, cache, plugged, need_check, file_size, l1, abort>>
  BY DEF qed_aio_complete
<1>1. run # Idle /\ run.fn = "complete" /\ run.r = r /\ run.ret \in Rets
  <2>1. run # Idle /\ run.fn = "complete" /\ run.r = r
    BY <1>0, QedAssumption DEF Called, Callback
  <2> QED
    BY <2>1 DEF CInv, Chains
<1>2. \/ Return(r)
      \/ Len(queue) > 1 /\ Call(r, "next_io", queue[2], "0")
  BY DEF qed_aio_complete
<1>3. acb \in [Reqs -> AcbType]
  BY TypeFacts DEF CInv
<1>4. PICK a \in AcbType : a = acb[r]
  BY <1>3
<1> DEFINE y == [a EXCEPT !.st = "bh", !.ret = run.ret, !.l2 = NoEntry, !.pos = 0, !.len = 0,
                    !.cluster = 0, !.n = 0, !.found = "none"]
<1>5. y \in AcbType /\ y.l2 = NoEntry /\ y.end = a.end
  BY <1>1, Sizes DEF AcbType
<1>6. acb' = [acb EXCEPT ![r] = y]
  BY <1>0, <1>3, <1>4
<1> HIDE DEF y
<1>7. /\ acb' \in [Reqs -> AcbType] /\ acb'[r] = y
      /\ \A s \in Reqs : s # r => acb'[s] = acb[s]
  BY <1>3, <1>5, <1>6, AcbMoved
<1>8. Len(queue) > 1 => queue[2] \in Reqs
  BY DEF CInv, IInv, Shape
<1>9. /\ \A s \in Reqs : s # r => io'[s] = io[s] /\ (Running(s)' => run'.fn = "next_io")
      /\ io'[r] = NoIo /\ run'.fn \in {"none", "next_io"} /\ run'.ret \in Rets
  BY <1>2, QedAssumption DEF Call, CallWith, Return, Running, CInv, IInv, Shape, Rets
<1>10. \A s \in Reqs : s # r => Same(s)
  BY <1>7, <1>9 DEF Same
<1>11. io' \in [Reqs \cup {Timer} -> IoType] /\ run' \in RunType
  <2>1. CASE Return(r)
    BY <2>1, IoTypes DEF CInv
  <2>2. CASE Len(queue) > 1 /\ Call(r, "next_io", queue[2], "0")
    <3>1. "next_io" \in CallNames /\ "0" \in Rets \cup Found /\ 0 \in Addresses
      BY Sizes DEF CallNames, Rets
    <3> QED
      BY <1>8, <2>2, <3>1, CallType DEF Call, CInv
  <2> QED
    BY <1>2, <2>1, <2>2
<1> QED
  BY <1>0, <1>4, <1>5, <1>7, <1>9, <1>10, <1>11, DropCache

-----------------------------------------------------------------------------
(* The holder links its new clusters.                                       *)

\* There is one holder.
LEMMA OneHolder ==
  ASSUME IInv, NEW r \in Reqs, Holds(r), NEW s \in Reqs, s # r
  PROVE  ~ Holds(s) /\ ~ Unlinked(s) /\ ~ NewTable(s)
<1>1. ~ Holds(s)
  BY DEF IInv, HolderIsHead, IsHead
<1>2. Unlinked(s) \/ NewTable(s) => Holds(s)
  BY DEF Unlinked, NewTable, Holds, HolderOps, HolderCalls
<1> QED
  BY <1>1, <1>2

\* A step of the holder that puts something into a table.
LEMMA LinkStep ==
  ASSUME CInv, IInv', TypeOK', Layout', ReferencesExact', CacheShape',
         NEW r \in Reqs, Holds(r), Cached' = Cached,
         \A s \in Reqs : s # r => Same(s),
         \A s \in Reqs : s # r /\ acb[s].l2 # NoEntry =>
            ent'[acb[s].l2].offset = ent[acb[s].l2].offset,
         acb'[r].l2 = acb[r].l2 \/ \A s \in Reqs : s # r => acb[s].l2 # acb'[r].l2,
         run'.ret \in Rets, HeldBy(r)', ChainBy(r)', FreshBy(r)'
  PROVE  CInv'
<1>1. Fresh'
  <2> SUFFICES ASSUME NEW s \in Reqs, s # r PROVE FreshBy(s)'
    BY DEF Fresh
  <2>1. ~ Unlinked(s) /\ ~ NewTable(s) /\ Same(s)
    BY OneHolder DEF CInv
  <2>2. ~ Unlinked(s)' /\ ~ NewTable(s)'
    BY <2>1, StagesKept
  <2> QED
    BY <2>2 DEF FreshBy
<1>2. Chains'
  <2> SUFFICES ASSUME NEW s \in Reqs, s # r PROVE HeldBy(s)' /\ ChainBy(s)'
    BY DEF Chains
  <2>1. HeldBy(s) /\ ChainBy(s) /\ Same(s)
    BY DEF CInv, Chains
  <2>2. ASSUME Private(s)
        PROVE  /\ acb[s].l2 \notin Cached'
               /\ \A t \in Reqs : t # s => acb'[t].l2 # acb[s].l2
    <3>1. acb[s].l2 \notin Cached /\ \A t \in Reqs : t # s => acb[t].l2 # acb[s].l2
      BY <2>1, <2>2 DEF HeldBy
    <3>2. ASSUME NEW t \in Reqs, t # s PROVE acb'[t].l2 # acb[s].l2
      <4>1. CASE t = r
        BY <3>1, <4>1
      <4>2. CASE t # r
        BY <3>1, <3>2, <4>2 DEF Same
      <4> QED
        BY <4>1, <4>2
    <3> QED
      BY <3>1, <3>2
  <2> QED
    BY <2>1, <2>2, SameHeld, SameChain
<1> QED
  BY <1>1, <1>2 DEF CInv

\* c is the new cluster of r that goes to index j, if the first goes to x.
NewCluster(r, x, j, c) ==
    /\ j \in x .. x + acb[r].n - 1
    /\ c = acb[r].cluster + (j - x) * ClusterSectors

\* The new clusters are in the file and behind what is referred to.
LEMMA NewClusters ==
  ASSUME CInv, NEW r \in Reqs, Unlinked(r), NEW x \in Index, NEW j \in Index, NEW c,
         NewCluster(r, x, j, c)
  PROVE  /\ c \in Offsets /\ c >= acb[r].cluster /\ c + ClusterSectors <= file_size
         /\ c \notin {Unalloc, ZeroCluster} /\ c >= L1Offset + TableSectors
         /\ acb[r].cluster \in Nat
<1> DEFINE C == ClusterSectors
           k == j - x
           b == acb[r].cluster
           n == acb[r].n
<1>1. /\ C \in Nat /\ C > 1 /\ b \in Nat /\ n \in Nat /\ file_size \in Nat /\ x \in Nat /\ j \in Nat
      /\ FileSectors \in Nat /\ file_size <= FileSectors /\ L1Offset + TableSectors \in Nat
      /\ L1Offset + TableSectors > 1
  <2>1. file_size \in 0 .. FileSectors /\ acb[r].cluster \in Addresses /\ acb[r].n \in Nat
    BY TypeFacts DEF CInv, Addresses
  <2>2. /\ C \in Nat /\ C > 1 /\ FileSectors \in Nat /\ Addresses \subseteq Nat
        /\ Index \subseteq Nat /\ TableSectors \in Nat /\ L1Offset = C
    BY Sizes
  <2>3. b \in Nat /\ x \in Nat /\ j \in Nat
    BY <2>1, <2>2
  <2>4. L1Offset + TableSectors \in Nat /\ L1Offset + TableSectors > 1
    BY <2>2
  <2>5. file_size \in Nat /\ file_size <= FileSectors
    BY <2>1, <2>2
  <2> QED
    BY <2>1, <2>2, <2>3, <2>4, <2>5
<1>2. b \in Offsets /\ b >= L1Offset + TableSectors /\ b + n * C <= file_size
  BY DEF CInv, Fresh, FreshBy, InFile
<1>3. k \in Nat /\ k < n /\ c = b + k * C
  BY <1>1 DEF NewCluster
<1> HIDE DEF k, b, n, C
<1>4. k * C \in Nat /\ n * C \in Nat /\ k * C + C <= n * C
  <2>1. k * C \in Nat /\ n * C \in Nat
    BY <1>1, <1>3
  <2>2. (n - k - 1) \in Nat /\ (n - k - 1) * C >= 0
    BY <1>1, <1>3
  <2>3. (n - k - 1) * C = n * C - k * C - C
    BY <1>1, <1>3
  <2> QED
    BY <1>1, <2>1, <2>2, <2>3
<1>5. c >= b /\ c + C <= file_size /\ b + k * C <= FileSectors
  BY <1>1, <1>2, <1>3, <1>4
<1>6. c \in Offsets
  BY <1>2, <1>3, <1>5, OffsetFacts DEF C
<1>7. c \in Nat /\ c >= L1Offset + TableSectors
  BY <1>1, <1>2, <1>3, <1>4
<1>8. c \notin {Unalloc, ZeroCluster}
  BY <1>1, <1>7 DEF Unalloc, ZeroCluster
<1> QED
  BY <1>1, <1>5, <1>6, <1>7, <1>8 DEF b, C

\* A layout with the new clusters in one table, which may itself be new.
LEMMA LinkLayout ==
  ASSUME CInv, NEW r \in Reqs, Unlinked(r), NEW x \in Index, NEW p0 \in Offsets,
         file_size' \in Offsets, file_size' >= file_size, l1' = l1, disk_l1' = disk_l1,
         \A o \in Addresses : Tab(o)' =>
            Tab(o) \/ (o = file_size /\ file_size + TableSectors <= file_size'),
         \A o \in Offsets, j \in Index, c \in Addresses : Ref(o, j, c)' =>
            Ref(o, j, c) \/ (o = p0 /\ NewCluster(r, x, j, c))
  PROVE  Layout'
<1>1. /\ file_size \in Nat /\ file_size' \in Nat /\ Offsets \subseteq Nat
      /\ TableSectors \in Nat /\ ClusterSectors \in Nat /\ ClusterSectors > 1
      /\ Addresses \subseteq Nat /\ acb[r].cluster \in Nat
      /\ L1Offset + TableSectors \in Nat /\ file_size \in Offsets
      /\ file_size >= L1Offset + TableSectors
  <2>1. /\ TableSectors \in Nat /\ ClusterSectors \in Nat /\ ClusterSectors > 1
        /\ Addresses \subseteq Nat /\ Offsets \subseteq Nat /\ L1Offset \in Nat
    BY Sizes
  <2>2. acb[r].cluster \in Nat
    BY <2>1, TypeFacts DEF CInv
  <2>3. file_size \in Offsets /\ file_size >= L1Offset + TableSectors
    BY DEF CInv, Layout
  <2>4. file_size \in Nat /\ file_size' \in Nat
    BY <2>1, <2>3
  <2> QED
    BY <2>1, <2>2, <2>3, <2>4
<1>2. \A o \in Nat, m \in Nat : InFile(o, m) => InFile(o, m)'
  BY <1>1 DEF InFile
<1>3. /\ \A o \in Addresses : Tab(o) => InFile(o, TableSectors) /\ o + TableSectors <= acb[r].cluster
      /\ \A o \in Offsets, j \in Index, c \in Addresses : Ref(o, j, c) =>
           InFile(c, ClusterSectors) /\ c + ClusterSectors <= acb[r].cluster
      /\ acb[r].cluster <= file_size
  <2>1. InFile(acb[r].cluster, acb[r].n * ClusterSectors)
    BY DEF CInv, Fresh, FreshBy
  <2>2. acb[r].n * ClusterSectors \in Nat
    <3>1. acb[r].n \in Nat
      BY TypeFacts DEF CInv
    <3> QED
      BY <1>1, <3>1
  <2>3. acb[r].cluster <= file_size
    BY <1>1, <2>1, <2>2 DEF InFile
  <2> QED
    BY <2>3 DEF CInv, Fresh, FreshBy, Layout
<1>4. \A j \in Index, c \in Addresses : NewCluster(r, x, j, c) =>
         InFile(c, ClusterSectors) /\ c >= acb[r].cluster
  BY NewClusters DEF InFile
<1>5. \A o \in Addresses : Tab(o)' => InFile(o, TableSectors)'
  <2> SUFFICES ASSUME NEW o \in Addresses, Tab(o)' PROVE InFile(o, TableSectors)'
    OBVIOUS
  <2>1. CASE Tab(o)
    BY <1>1, <1>2, <1>3, <2>1
  <2>2. CASE o = file_size /\ file_size + TableSectors <= file_size'
    BY <1>1, <2>2 DEF InFile
  <2> QED
    BY <2>1, <2>2
<1>6. ASSUME NEW o \in Addresses, NEW p \in Addresses, Tab(o)', Tab(p)', o # p
      PROVE  Apart(o, TableSectors, p, TableSectors)
  <2>1. CASE Tab(o) /\ Tab(p)
    BY <1>6, <2>1 DEF CInv, Layout
  <2>2. CASE Tab(o) /\ p = file_size
    BY <1>1, <1>3, <2>2 DEF Apart, InFile
  <2>3. CASE o = file_size /\ Tab(p)
    BY <1>1, <1>3, <2>3 DEF Apart, InFile
  <2> QED
    BY <1>6, <2>1, <2>2, <2>3
<1>7. ASSUME NEW o \in Offsets, NEW j \in Index, NEW c \in Addresses, Ref(o, j, c)'
      PROVE  /\ InFile(c, ClusterSectors)'
             /\ \A p \in Addresses : Tab(p)' => Apart(c, ClusterSectors, p, TableSectors)
  <2>0. InFile(c, ClusterSectors) /\ c \in Nat /\ c + ClusterSectors <= file_size
    BY <1>1, <1>3, <1>4, <1>7 DEF InFile
  <2>1. InFile(c, ClusterSectors)'
    BY <1>1, <1>2, <2>0
  <2>2. ASSUME NEW p \in Addresses, Tab(p)' PROVE Apart(c, ClusterSectors, p, TableSectors)
    <3>1. CASE p = file_size
      BY <2>0, <3>1 DEF Apart
    <3>2. CASE Tab(p) /\ Ref(o, j, c)
      BY <3>2 DEF CInv, Layout
    <3>3. CASE Tab(p) /\ NewCluster(r, x, j, c)
      BY <1>1, <1>3, <1>4, <3>3 DEF Apart
    <3> QED
      BY <1>7, <2>2, <3>1, <3>2, <3>3
  <2> QED
    BY <2>1, <2>2
<1>8. ASSUME NEW o \in Offsets, NEW p \in Offsets, NEW j \in Index, NEW k \in Index,
             NEW c \in Addresses, Ref(o, j, c)', Ref(p, k, c)'
      PROVE  o = p /\ j = k
  <2>1. CASE Ref(o, j, c) /\ Ref(p, k, c)
    BY <2>1 DEF CInv, Layout
  <2>2. ~ (Ref(o, j, c) /\ NewCluster(r, x, k, c)) /\ ~ (Ref(p, k, c) /\ NewCluster(r, x, j, c))
    BY <1>1, <1>3, <1>4
  <2>3. CASE o = p0 /\ NewCluster(r, x, j, c) /\ p = p0 /\ NewCluster(r, x, k, c)
    <3>1. (j - x) * ClusterSectors = (k - x) * ClusterSectors
      <4>1. /\ c = acb[r].cluster + (j - x) * ClusterSectors
            /\ c = acb[r].cluster + (k - x) * ClusterSectors
        BY <2>3 DEF NewCluster
      <4>2. x \in Nat /\ j \in Nat /\ k \in Nat
        BY Sizes
      <4>3. (j - x) * ClusterSectors \in Int /\ (k - x) * ClusterSectors \in Int
        BY <1>1, <4>2
      <4> QED
        BY <1>1, <4>1, <4>3
    <3>2. x \in Nat /\ j \in Nat /\ k \in Nat /\ ClusterSectors \in Nat /\ ClusterSectors > 1
      BY <1>1, Sizes
    <3>3. ASSUME NEW u \in Int, NEW v \in Int, u < v PROVE u * ClusterSectors < v * ClusterSectors
      BY <3>2, <3>3
    <3>4. j - x = k - x
      BY <3>1, <3>2, <3>3
    <3> QED
      BY <2>3, <3>2, <3>4
  <2> QED
    BY <1>8, <2>1, <2>2, <2>3
<1>9. /\ file_size' \in Offsets /\ file_size' >= L1Offset + TableSectors
      /\ \A i, k \in Index : l1'[i] = l1'[k] /\ l1'[i] # Unalloc => i = k
      /\ \A i, k \in Index : disk_l1'[i] = disk_l1'[k] /\ disk_l1'[i] # Unalloc => i = k
  BY <1>1 DEF CInv, Layout
<1> QED
  BY <1>5, <1>6, <1>7, <1>8, <1>9 DEF Layout

\* A table with the new clusters in it.
LEMMA LinkedFacts ==
  ASSUME CInv, NEW r \in Reqs, Unlinked(r), NEW x \in Index, NEW t \in Tables
  PROVE  LET u == qed_update_l2_table(t, x, acb[r].n, acb[r].cluster)
         IN  /\ u \in Tables
             /\ \A j \in Index : u[j] = t[j] \/ NewCluster(r, x, j, u[j])
<1> DEFINE u == qed_update_l2_table(t, x, acb[r].n, acb[r].cluster)
<1>1. \A j \in Index : u[j] = IF j \in x .. x + acb[r].n - 1
                               THEN acb[r].cluster + (j - x) * ClusterSectors ELSE t[j]
  BY DEF qed_update_l2_table
<1>2. \A j \in Index : u[j] = t[j] \/ NewCluster(r, x, j, u[j])
  BY <1>1 DEF NewCluster
<1>3. u = [j \in Index |-> u[j]]
  BY DEF qed_update_l2_table
<1> HIDE DEF u
<1>4. \A j \in Index : u[j] \in Addresses
  <2> SUFFICES ASSUME NEW j \in Index PROVE u[j] \in Addresses
    OBVIOUS
  <2>1. CASE u[j] = t[j]
    BY <2>1 DEF Tables
  <2>2. CASE NewCluster(r, x, j, u[j])
    BY <2>2, NewClusters, Sizes
  <2> QED
    BY <1>2, <2>1, <2>2
<1>5. u \in Tables
  BY <1>3, <1>4 DEF Tables
<1> QED
  BY <1>2, <1>5 DEF u

\* The holder's chain waits for a table to be written.
LEMMA WriteTableEnd ==
  ASSUME CInv, NEW r \in Reqs, NEW op \in {"l2_new", "l2_part", "l1_write"}, NEW off \in Nat,
         StartIo(r, op, off), \A s \in Reqs : s # r => acb'[s] = acb[s]
  PROVE  /\ \A s \in Reqs : s # r => Same(s)
         /\ io'[r].op = op /\ io'[r].off = off /\ run' = Idle /\ ~ Running(r)'
         /\ io' \in [Reqs \cup {Timer} -> IoType] /\ run' \in RunType
         /\ ~ Unlinked(r)' /\ ~ Looking(r)' /\ run'.ret \in Rets
         /\ NewTable(r)' => op = "l2_new"
         /\ Private(r)' => op \in {"l2_new", "l1_write"}
<1>1. /\ \A s \in Reqs : s # r => Same(s)
      /\ io'[r].op = op /\ io'[r].off = off /\ run' = Idle /\ ~ Running(r)'
  BY IoEnd DEF CInv
<1>2. op \in Ops
  BY DEF Ops
<1>3. io' \in [Reqs \cup {Timer} -> IoType] /\ run' \in RunType
  BY <1>2, IoTypes DEF CInv
<1>4. ~ Unlinked(r)' /\ ~ Looking(r)' /\ run'.ret \in Rets
  BY <1>1 DEF Unlinked, Looking, Rets
<1>5. /\ NewTable(r)' => op = "l2_new"
      /\ Private(r)' => op \in {"l2_new", "l1_write"}
  BY <1>1 DEF NewTable, Private
<1> QED
  BY <1>1, <1>3, <1>4, <1>5

\* New clusters go into a table that the cache has.
LEMMA LinkPartCache ==
  ASSUME CInv, IInv', NEW r \in Reqs, Called("l2_update", r), acb[r].found # "L1",
         ent' = [ent EXCEPT ![acb[r].l2].table =
                    qed_update_l2_table(@, L2Index(acb[r].pos), acb[r].n, acb[r].cluster)],
         StartIo(r, "l2_part", ent[acb[r].l2].offset),
         UNCHANGED <<acb, file_size, fileVars, cache, allocVars, l1, abort>>
  PROVE  CInv'
<1> DEFINE e == acb[r].l2
           x == L2Index(acb[r].pos)
           off == ent[e].offset
<1>0. Unlinked(r) /\ io[r].op # "l2_read" /\ Holds(r) /\ acb[r].st = "busy"
  BY HolderCalled, CalledNotReading, CalledHolds, CalledFacts DEF CInv
<1>1. HeldBy(r) /\ HasTable(r)
  BY <1>0 DEF CInv, Chains, HasTable
<1>2. /\ e \in Entries /\ off # 0 /\ off \in Offsets /\ ent[e].table \in Tables
      /\ ent \in [Entries -> EntType] /\ acb \in [Reqs -> AcbType] /\ off \in Nat
      /\ acb[r].pos \in Nat /\ e # NoEntry
  <2>1. e \in Entries /\ off # 0
    BY <1>0, <1>1, TypeFacts DEF CInv, HeldBy
  <2> QED
    BY <1>1, <2>1, TypeFacts, Sizes DEF CInv, HeldBy
<1>3. x \in Index
  BY <1>2, IndexFacts
<1> DEFINE u == qed_update_l2_table(ent[e].table, x, acb[r].n, acb[r].cluster)
           y == [ent[e] EXCEPT !.table = u]
<1>4. u \in Tables /\ \A j \in Index : u[j] = ent[e].table[j] \/ NewCluster(r, x, j, u[j])
  BY <1>0, <1>2, <1>3, LinkedFacts
<1>5. ent' = [ent EXCEPT ![e] = y]
  BY <1>2
<1> HIDE DEF u
<1>6. y \in EntType /\ y.table = u /\ y.offset = off /\ y.ref = ent[e].ref
  BY <1>2, <1>4 DEF EntType
<1> HIDE DEF y, x, e
<1>7. /\ ent' \in [Entries -> EntType] /\ ent'[e] = y
      /\ \A f \in Entries : /\ f # e => ent'[f] = ent[f]
                            /\ ent'[f].offset = ent[f].offset /\ ent'[f].ref = ent[f].ref
  BY <1>2, <1>5, <1>6
<1>8. /\ \A s \in Reqs : s # r => Same(s)
      /\ io'[r].op = "l2_part" /\ io'[r].off = off /\ run' = Idle /\ ~ Running(r)'
      /\ io' \in [Reqs \cup {Timer} -> IoType] /\ run' \in RunType
      /\ ~ Unlinked(r)' /\ ~ Looking(r)' /\ run'.ret \in Rets
      /\ ~ NewTable(r)' /\ ~ Private(r)'
  <2>1. \A s \in Reqs : s # r => acb'[s] = acb[s]
    OBVIOUS
  <2>2. StartIo(r, "l2_part", off)
    BY DEF e
  <2> HIDE DEF off
  <2> QED
    BY <1>2, <2>1, <2>2, WriteTableEnd
<1>9. TypeOK'
  <2>1. /\ l1 \in Tables /\ cache \in Seq(Entries) /\ file_size \in Addresses
        /\ need_check \in BOOLEAN /\ abort \in {"none", "timer", "plug", "unplug", "commit"}
    BY TypeFacts DEF CInv, TypeOK
  <2> QED
    BY <1>2, <1>7, <1>8, <2>1, TypeStep DEF CInv, allocVars
<1>10. Layout'
  <2>1. \A o \in Addresses : Tab(o)' => Tab(o)
    <3> SUFFICES ASSUME NEW o \in Addresses, Tab(o)' PROVE Tab(o)
      OBVIOUS
    <3>1. CASE \E s \in Reqs : io'[s].op = "l2_read" /\ io'[s].off = o
      BY <1>8, <3>1 DEF Tab, Same
    <3>2. CASE \E f \in Entries : ent'[f].offset = o
      BY <1>7, <3>2 DEF Tab
    <3>3. CASE \E i \in Index : l1'[i] = o \/ disk_l1'[i] = o
      BY <3>3 DEF Tab, fileVars
    <3> QED
      BY <3>1, <3>2, <3>3 DEF Tab
  <2>2. ASSUME NEW o \in Offsets, NEW j \in Index, NEW c \in Addresses, Ref(o, j, c)'
        PROVE  Ref(o, j, c) \/ (o = off /\ NewCluster(r, x, j, c))
    <3>0. c \notin {Unalloc, ZeroCluster}
      BY <2>2 DEF Ref
    <3>1. CASE disk_l2'[o][j] = c
      BY <3>0, <3>1 DEF Ref, fileVars
    <3>2. CASE o # 0 /\ \E f \in Entries : ent'[f].offset = o /\ ent'[f].table[j] = c
      <4>1. PICK f \in Entries : ent'[f].offset = o /\ ent'[f].table[j] = c
        BY <3>2
      <4>2. CASE f # e
        BY <1>7, <3>0, <3>2, <4>1, <4>2 DEF Ref
      <4>3. CASE f = e
        <5>1. o = off /\ u[j] = c
          BY <1>6, <1>7, <4>1, <4>3
        <5>2. CASE ent[e].table[j] = c
          BY <1>2, <3>0, <3>2, <5>1, <5>2 DEF Ref
        <5>3. CASE NewCluster(r, x, j, u[j])
          BY <5>1, <5>3
        <5> QED
          BY <1>4, <5>1, <5>2, <5>3
      <4> QED
        BY <4>2, <4>3
    <3>3. CASE \E s \in Reqs : io'[s].op = "l2_read" /\ io'[s].off = o
                               /\ ent'[acb'[s].l2].table[j] = c
      <4>1. PICK s \in Reqs : io'[s].op = "l2_read" /\ io'[s].off = o
                              /\ ent'[acb'[s].l2].table[j] = c
        BY <3>3
      <4>2. s # r /\ io[s].op = "l2_read" /\ io[s].off = o /\ acb'[s].l2 = acb[s].l2
        BY <1>8, <4>1 DEF Same
      <4>3. acb[s].l2 \in Entries /\ acb[s].l2 # e
        BY <4>2, TypeFacts DEF CInv, Chains, HeldBy, HasTable, Private, e
      <4> QED
        BY <1>7, <3>0, <4>1, <4>2, <4>3 DEF Ref
    <3> QED
      BY <2>2, <3>1, <3>2, <3>3 DEF Ref
  <2>3. /\ file_size' \in Offsets /\ file_size' >= file_size /\ l1' = l1 /\ disk_l1' = disk_l1
    BY Sizes DEF CInv, Layout, fileVars
  <2> HIDE DEF off
  <2> QED
    BY <1>0, <1>2, <1>3, <2>1, <2>2, <2>3, LinkLayout
<1>11. ReferencesExact' /\ CacheShape' /\ Cached' = Cached
  <2>1. Cached' = Cached /\ \A f : Users(acb', f) = Users(acb, f)
    BY DEF Cached, Users
  <2>2. ReferencesExact'
    BY <1>7, <2>1 DEF CInv, ReferencesExact, Users
  <2>3. ent[e].ref # 0
    <3>1. ent[e].ref >= 1
      BY <1>2, RefFacts DEF CInv, e
    <3> QED
      BY <1>2, <3>1, TypeFacts DEF CInv
  <2>4. \A f \in Entries : ent'[f].ref = 0 => ent'[f] = Freed
    BY <1>7, <2>3 DEF CInv, CacheShape
  <2>5. \A f \in Cached : ent'[f].offset = ent[f].offset
    BY <1>7, TypeFacts DEF CInv, Cached
  <2> QED
    BY <2>1, <2>2, <2>4, <2>5, ShapeStep
<1>12. HeldBy(r)' /\ ChainBy(r)' /\ FreshBy(r)'
  <2>1. acb' = acb /\ acb[r].end <= TableNElems * TableNElems * ClusterSectors
    BY DEF CInv, Chains, ChainBy
  <2>2. HeldBy(r)'
    BY <1>0, <1>2, <1>7, <1>8, <2>1 DEF HeldBy, e
  <2> QED
    BY <1>8, <2>1, <2>2 DEF ChainBy, FreshBy
<1>13. \A s \in Reqs : s # r /\ acb[s].l2 # NoEntry =>
            ent'[acb[s].l2].offset = ent[acb[s].l2].offset
  BY <1>7, TypeFacts DEF CInv
<1>14. acb'[r].l2 = acb[r].l2
  OBVIOUS
<1> QED
  BY <1>0, <1>8, <1>9, <1>10, <1>11, <1>12, <1>13, <1>14, LinkStep

\* New clusters go into a new table.
LEMMA LinkNewCache ==
  ASSUME CInv, IInv', NEW r \in Reqs, Called("l2_update", r), qed_alloc_clusters(TableSize),
         LET es == qed_unref_l2_cache_entry(ent, acb[r].l2)
             new == Alloc(es)
         IN  /\ ent' = qed_new_l2_table(es, new,
                          qed_update_l2_table(NoTable, L2Index(acb[r].pos),
                                              acb[r].n, acb[r].cluster))
             /\ acb' = [acb EXCEPT ![r].l2 = new],
         StartIo(r, "l2_new", file_size),
         UNCHANGED <<fileVars, cache, allocVars, l1, abort>>
  PROVE  CInv'
<1> DEFINE es == qed_unref_l2_cache_entry(ent, acb[r].l2)
           e == Alloc(es)
           x == L2Index(acb[r].pos)
           u == qed_update_l2_table(NoTable, x, acb[r].n, acb[r].cluster)
           y == [offset |-> file_size, ref |-> 1, table |-> u]
<1>0. Unlinked(r) /\ io[r].op # "l2_read" /\ Holds(r) /\ acb[r].st = "busy"
  BY HolderCalled, CalledNotReading, CalledHolds, CalledFacts DEF CInv
<1>1. ent' = [es EXCEPT ![e] = y] /\ acb' = [acb EXCEPT ![r].l2 = e]
  BY DEF qed_new_l2_table
<1>2. /\ es \in [Entries -> EntType]
      /\ \A f \in Entries :
           /\ es[f].ref = ent[f].ref - (IF f = acb[r].l2 THEN 1 ELSE 0)
           /\ es[f].ref \in Nat
           /\ f # acb[r].l2 => es[f] = ent[f]
           /\ \/ es[f] = Freed
              \/ es[f].offset = ent[f].offset /\ es[f].table = ent[f].table
           /\ es[f].ref = 0 => es[f] = Freed
           /\ ent[f].ref = 0 => es[f].ref = 0
           /\ f \in Cached => es[f].offset = ent[f].offset /\ es[f].ref >= 1
           /\ \A s \in Reqs : s # r /\ acb[s].l2 = f =>
                 /\ es[f].offset = ent[f].offset /\ es[f].table = ent[f].table
                 /\ es[f].ref >= 1
  BY OwnUnref
<1>3. /\ acb \in [Reqs -> AcbType] /\ acb[r].pos \in Nat
      /\ l1 \in Tables /\ cache \in Seq(Entries)
      /\ file_size \in Addresses /\ file_size \in Offsets /\ file_size \in Nat
      /\ need_check \in BOOLEAN /\ abort \in {"none", "timer", "plug", "unplug", "commit"}
      /\ file_size >= L1Offset + TableSectors
  BY TypeFacts, Sizes DEF CInv, TypeOK, Layout
<1>4. x \in Index
  BY <1>3, IndexFacts
<1>5. u \in Tables /\ \A j \in Index : u[j] = NoTable[j] \/ NewCluster(r, x, j, u[j])
  BY <1>0, <1>4, Sizes, LinkedFacts
<1> HIDE DEF es
<1>6. e \in Entries /\ es[e].ref = 0
  BY <1>2, AllocFacts DEF CInv, CacheShape
<1> HIDE DEF u, e
<1>7. y \in EntType /\ y.table = u /\ y.offset = file_size /\ y.ref = 1
  BY <1>3, <1>5 DEF EntType
<1> HIDE DEF y, x
<1>8. /\ ent' \in [Entries -> EntType] /\ ent'[e] = y
      /\ \A f \in Entries : f # e => ent'[f] = es[f]
  BY <1>1, <1>2, <1>6, <1>7
<1>9. /\ acb' \in [Reqs -> AcbType] /\ acb'[r].l2 = e
      /\ acb'[r].end = acb[r].end /\ acb'[r].st = acb[r].st
      /\ \A s \in Reqs : s # r => acb'[s] = acb[s]
  BY <1>1, <1>3, <1>6, L2Moved
<1>10. /\ \A s \in Reqs : s # r => Same(s)
       /\ io'[r].op = "l2_new" /\ io'[r].off = file_size /\ run' = Idle /\ ~ Running(r)'
       /\ io' \in [Reqs \cup {Timer} -> IoType] /\ run' \in RunType
       /\ ~ Unlinked(r)' /\ ~ Looking(r)' /\ run'.ret \in Rets
  BY <1>3, <1>9, WriteTableEnd
<1>11. /\ file_size' = file_size + TableSectors /\ file_size' \in Offsets
       /\ file_size' >= file_size /\ file_size' \in Addresses /\ TableSectors \in Nat
       /\ L1Offset + TableSectors > 0 /\ L1Offset + TableSectors \in Nat
  <2>1. file_size' = file_size + TableSize * ClusterSectors
        /\ file_size + TableSize * ClusterSectors <= FileSectors
    BY DEF qed_alloc_clusters
  <2>2. TableSize \in Nat /\ TableSectors = TableSize * ClusterSectors /\ TableSectors \in Nat
        /\ L1Offset \in Nat /\ L1Offset > 0
    BY Sizes DEF TableSectors
  <2>3. file_size + TableSize * ClusterSectors \in Offsets
    BY <1>3, <2>1, <2>2, OffsetFacts
  <2>4. file_size' \in Offsets
    BY <2>1, <2>3
  <2>5. file_size' \in Addresses
    BY <2>4, Sizes
  <2> HIDE DEF es
  <2> QED
    BY <1>3, <2>1, <2>2, <2>4, <2>5
<1>12. TypeOK'
  BY <1>3, <1>8, <1>9, <1>10, <1>11, TypeStep DEF CInv, allocVars
<1>13. Freed.offset = 0 /\ Freed.table = NoTable /\ Freed.ref = 0
  BY DEF Freed
<1>14. /\ e \notin Cached /\ \A s \in Reqs : s # r => acb[s].l2 # e
       /\ \A f \in Entries : f # e =>
            ent'[f].offset = 0 \/ (ent'[f].offset = ent[f].offset /\ ent'[f].table = ent[f].table)
       /\ \A s \in Reqs : s # r /\ acb[s].l2 # NoEntry =>
            /\ ent'[acb[s].l2].offset = ent[acb[s].l2].offset
            /\ ent'[acb[s].l2].table = ent[acb[s].l2].table
  <2>1. e \notin Cached /\ \A s \in Reqs : s # r => acb[s].l2 # e
    BY <1>2, <1>6
  <2>2. \A f \in Entries : f # e =>
            ent'[f].offset = 0 \/ (ent'[f].offset = ent[f].offset /\ ent'[f].table = ent[f].table)
    BY <1>2, <1>8, <1>13
  <2>3. \A s \in Reqs : acb[s].l2 # NoEntry => acb[s].l2 \in Entries
    BY TypeFacts DEF CInv
  <2>4. ASSUME NEW s \in Reqs, s # r, acb[s].l2 # NoEntry
        PROVE  /\ ent'[acb[s].l2].offset = ent[acb[s].l2].offset
               /\ ent'[acb[s].l2].table = ent[acb[s].l2].table
    <3>1. PICK f \in Entries : f = acb[s].l2
      BY <2>3, <2>4
    <3>2. f # e
      BY <2>1, <2>4, <3>1
    <3>3. ent'[f] = es[f]
      BY <1>8, <3>2
    <3>4. es[f].offset = ent[f].offset /\ es[f].table = ent[f].table
      BY <1>2, <2>4, <3>1
    <3> QED
      BY <3>1, <3>3, <3>4
  <2> QED
    BY <2>1, <2>2, <2>4
<1>15. Cached' = Cached /\ Cached \subseteq Entries
  BY TypeFacts DEF CInv, Cached
<1>16. ReferencesExact'
  <2>1. ASSUME NEW f \in Entries
        PROVE  ent'[f].ref = ent[f].ref - (IF acb[r].l2 = f THEN 1 ELSE 0)
                                     + (IF acb'[r].l2 = f THEN 1 ELSE 0)
                                     - (IF f \in Cached THEN 1 ELSE 0)
                                     + (IF f \in Cached' THEN 1 ELSE 0)
    <3>1. ent[f].ref \in Nat
      BY TypeFacts DEF CInv
    <3>2. ent'[f].ref = es[f].ref + (IF f = e THEN 1 ELSE 0)
      BY <1>2, <1>6, <1>7, <1>8
    <3> QED
      BY <1>2, <1>9, <1>15, <3>1, <3>2
  <2> QED
    BY <1>9, <2>1, RefStep DEF CInv
<1>17. CacheShape'
  <2>1. \A f \in Entries : ent'[f].ref = 0 => ent'[f] = Freed
    BY <1>2, <1>7, <1>8
  <2>2. \A f \in Cached : ent'[f].offset = ent[f].offset
    BY <1>2, <1>8, <1>14, <1>15
  <2> QED
    BY <2>1, <2>2, ShapeStep
<1>18. Layout'
  <2>1. ASSUME NEW o \in Addresses, Tab(o)'
        PROVE  Tab(o) \/ (o = file_size /\ file_size + TableSectors <= file_size')
    <3>1. CASE \E s \in Reqs : io'[s].op = "l2_read" /\ io'[s].off = o
      BY <1>10, <2>1, <3>1 DEF Tab, Same
    <3>2. CASE \E f \in Entries : ent'[f].offset = o
      BY <1>3, <1>7, <1>8, <1>11, <1>14, <2>1, <3>2 DEF Tab
    <3>3. CASE \E i \in Index : l1'[i] = o \/ disk_l1'[i] = o
      BY <2>1, <3>3 DEF Tab, fileVars
    <3> QED
      BY <2>1, <3>1, <3>2, <3>3 DEF Tab
  <2>2. ASSUME NEW o \in Offsets, NEW j \in Index, NEW c \in Addresses, Ref(o, j, c)'
        PROVE  Ref(o, j, c) \/ (o = file_size /\ NewCluster(r, x, j, c))
    <3>0. c \notin {Unalloc, ZeroCluster}
      BY <2>2 DEF Ref
    <3>1. CASE disk_l2'[o][j] = c
      BY <3>0, <3>1 DEF Ref, fileVars
    <3>2. CASE o # 0 /\ \E f \in Entries : ent'[f].offset = o /\ ent'[f].table[j] = c
      <4>1. PICK f \in Entries : ent'[f].offset = o /\ ent'[f].table[j] = c
        BY <3>2
      <4>2. CASE f # e
        BY <1>14, <3>0, <3>2, <4>1, <4>2 DEF Ref
      <4>3. CASE f = e
        <5>1. o = file_size /\ u[j] = c
          BY <1>7, <1>8, <4>1, <4>3
        <5>2. NoTable[j] = Unalloc
          BY DEF NoTable
        <5> QED
          BY <1>5, <3>0, <5>1, <5>2
      <4> QED
        BY <4>2, <4>3
    <3>3. CASE \E s \in Reqs : io'[s].op = "l2_read" /\ io'[s].off = o
                               /\ ent'[acb'[s].l2].table[j] = c
      <4>1. PICK s \in Reqs : io'[s].op = "l2_read" /\ io'[s].off = o
                              /\ ent'[acb'[s].l2].table[j] = c
        BY <3>3
      <4>2. s # r /\ io[s].op = "l2_read" /\ io[s].off = o /\ acb'[s].l2 = acb[s].l2
        BY <1>10, <4>1 DEF Same
      <4>3. acb[s].l2 # NoEntry
        BY <4>2 DEF CInv, Chains, HeldBy, HasTable, Private
      <4> QED
        BY <1>14, <3>0, <4>1, <4>2, <4>3 DEF Ref
    <3> QED
      BY <2>2, <3>1, <3>2, <3>3 DEF Ref
  <2>3. l1' = l1 /\ disk_l1' = disk_l1
    BY DEF fileVars
  <2> QED
    BY <1>0, <1>3, <1>4, <1>11, <2>1, <2>2, <2>3, LinkLayout
<1>19. HeldBy(r)' /\ ChainBy(r)' /\ FreshBy(r)'
  <2>1. acb[r].end <= TableNElems * TableNElems * ClusterSectors
    BY DEF CInv, Chains, ChainBy
  <2>2. e # NoEntry /\ file_size # 0
    BY <1>3, <1>6, <1>11, EntryFacts
  <2>3. \A s \in Reqs : s # r => acb'[s].l2 # acb'[r].l2
    BY <1>9, <1>14
  <2>4. HeldBy(r)'
    BY <1>0, <1>7, <1>8, <1>9, <1>10, <1>14, <1>15, <2>2, <2>3 DEF HeldBy
  <2>5. \A i \in Index : l1'[i] # ent'[acb'[r].l2].offset
    <3> SUFFICES ASSUME NEW i \in Index, l1[i] = file_size PROVE FALSE
      BY <1>7, <1>8, <1>9
    <3>1. Tab(file_size)
      BY <2>2 DEF Tab
    <3>2. file_size + TableSectors <= file_size
      BY <1>3, <3>1 DEF CInv, Layout, InFile
    <3>3. TableSectors > 0
      BY Sizes
    <3> QED
      BY <1>3, <1>11, <3>2, <3>3
  <2> QED
    BY <1>9, <1>10, <2>1, <2>4, <2>5 DEF ChainBy, FreshBy
<1> QED
  BY <1>0, <1>9, <1>10, <1>12, <1>14, <1>15, <1>16, <1>17, <1>18, <1>19, LinkStep

\* The L1 table gets the new table.
LEMMA LinkL1Cache ==
  ASSUME CInv, IInv', NEW r \in Reqs, Called("l1_update", r),
         l1' = [l1 EXCEPT ![L1Index(acb[r].pos)] = ent[acb[r].l2].offset],
         StartIo(r, "l1_write", L1Offset),
         UNCHANGED <<fileVars, cacheVars, allocVars, file_size, acb, abort>>
  PROVE  CInv'
<1> DEFINE e == acb[r].l2
           off == ent[e].offset
<1>0. /\ NewTable(r) /\ Private(r) /\ io[r].op # "l2_read" /\ Holds(r) /\ acb[r].st = "busy"
  BY HolderCalled, CalledNotReading, CalledHolds, CalledFacts DEF CInv
<1>1. HeldBy(r) /\ HasTable(r)
  BY <1>0 DEF CInv, Chains, HasTable
<1>2. e \in Entries /\ off # 0 /\ off \in Offsets /\ e # NoEntry
  BY <1>0, <1>1, TypeFacts DEF CInv, HeldBy
<1>3. /\ ent \in [Entries -> EntType] /\ acb \in [Reqs -> AcbType] /\ l1 \in Tables
      /\ cache \in Seq(Entries) /\ file_size \in Addresses /\ off \in Addresses
      /\ need_check \in BOOLEAN /\ abort \in {"none", "timer", "plug", "unplug", "commit"}
  BY <1>2, TypeFacts, Sizes DEF CInv, TypeOK
<1>4. UNCHANGED <<ent, cache, disk_l1, disk_l2>> /\ acb' = acb /\ file_size' = file_size
  BY DEF cacheVars, fileVars
<1> HIDE DEF off
<1>5. /\ l1' \in Tables
      /\ \A i \in Index : l1'[i] = l1[i] \/ (i = L1Index(acb[r].pos) /\ l1'[i] = off)
  BY <1>3 DEF Tables, off
<1>6. /\ \A s \in Reqs : s # r => Same(s)
      /\ io'[r].op = "l1_write" /\ run' = Idle /\ ~ Running(r)'
      /\ io' \in [Reqs \cup {Timer} -> IoType] /\ run' \in RunType
      /\ ~ Unlinked(r)' /\ ~ Looking(r)' /\ run'.ret \in Rets /\ ~ NewTable(r)'
  <2>1. L1Offset \in Nat
    BY Sizes
  <2> QED
    BY <1>4, <2>1, WriteTableEnd
<1>7. TypeOK'
  BY <1>3, <1>4, <1>5, <1>6, TypeStep DEF CInv, allocVars
<1>8. LayoutStays
  <2>1. ASSUME NEW o \in Addresses, Tab(o)' PROVE Tab(o)
    <3>1. CASE \E s \in Reqs : io'[s].op = "l2_read" /\ io'[s].off = o
      BY <1>6, <2>1, <3>1 DEF Tab, Same
    <3>2. CASE \E f \in Entries : ent'[f].offset = o
      BY <1>4, <2>1, <3>2 DEF Tab
    <3>3. CASE \E i \in Index : l1'[i] = o \/ disk_l1'[i] = o
      BY <1>2, <1>4, <1>5, <2>1, <3>3 DEF Tab, off
    <3> QED
      BY <2>1, <3>1, <3>2, <3>3 DEF Tab
  <2>2. ASSUME NEW o \in Offsets, NEW j \in Index, NEW c \in Addresses, Ref(o, j, c)'
        PROVE  Ref(o, j, c)
    <3>1. CASE \E s \in Reqs : io'[s].op = "l2_read" /\ io'[s].off = o
                               /\ ent'[acb'[s].l2].table[j] = c
      BY <1>4, <1>6, <2>2, <3>1 DEF Ref, Same
    <3>2. CASE \/ disk_l2'[o][j] = c
               \/ o # 0 /\ \E f \in Entries : ent'[f].offset = o /\ ent'[f].table[j] = c
      BY <1>4, <2>2, <3>2 DEF Ref
    <3> QED
      BY <2>2, <3>1, <3>2 DEF Ref
  <2>3. file_size' \in Offsets /\ file_size' >= file_size
    BY <1>4, Sizes DEF CInv, Layout
  <2> QED
    BY <2>1, <2>2, <2>3 DEF LayoutStays
<1>9. Layout'
  <2>1. \A i \in Index : l1[i] # off
    BY <1>0 DEF CInv, Fresh, FreshBy, off
  <2>2. \A i, k \in Index : l1'[i] = l1'[k] /\ l1'[i] # Unalloc => i = k
    BY <1>5, <2>1 DEF CInv, Layout
  <2> QED
    BY <1>4, <1>8, <2>2, LayoutKept DEF CInv
<1>10. ReferencesExact' /\ CacheShape' /\ Cached' = Cached
  <2>1. Cached' = Cached /\ \A f : Users(acb', f) = Users(acb, f)
    BY <1>4 DEF Cached, Users
  <2>2. ReferencesExact'
    BY <1>4, <2>1 DEF CInv, ReferencesExact, Users
  <2>3. CacheShape'
    BY <1>4 DEF CInv, CacheShape
  <2> QED
    BY <2>1, <2>2, <2>3
<1>11. HeldBy(r)' /\ ChainBy(r)' /\ FreshBy(r)'
  <2>1. acb[r].end <= TableNElems * TableNElems * ClusterSectors
    BY DEF CInv, Chains, ChainBy
  <2>2. /\ acb[r].l2 \notin Cached' /\ \A s \in Reqs : s # r => acb[s].l2 # acb[r].l2
    BY <1>0, <1>1, <1>10 DEF HeldBy
  <2>3. HeldBy(r)'
    BY <1>0, <1>2, <1>4, <1>6, <2>2 DEF HeldBy, off
  <2> QED
    BY <1>4, <1>6, <2>1, <2>3 DEF ChainBy, FreshBy
<1> QED
  BY <1>0, <1>4, <1>6, <1>7, <1>9, <1>10, <1>11, LinkStep

-----------------------------------------------------------------------------
(* The host's steps.                                                        *)

\* What the host stores is a sector's content.
LEMMA StoreType ==
  ASSUME TypeOK, NEW off, NEW len, NEW v \in Contents, Store(off, len, v)
  PROVE  data' \in [0 .. FileSectors - 1 -> Contents]
<1>1. data \in [0 .. FileSectors - 1 -> Contents]
  BY DEF TypeOK
<1> QED
  BY <1>1 DEF Store

\* What a transfer may write to the file.
LEMMA TransferFile ==
  ASSUME CInv, NEW a \in Reqs, Transfer(a)
  PROVE  /\ backing' = backing /\ disk_check' \in BOOLEAN /\ disk_l1' \in {disk_l1, l1}
         /\ data' \in [0 .. FileSectors - 1 -> Contents]
         /\ \/ disk_l2' = disk_l2
            \/ /\ io[a].op \in {"l2_new", "l2_part"}
               /\ disk_l2' = [disk_l2 EXCEPT ![io[a].off] = ent[acb[a].l2].table]
<1>1. TypeOK
  BY DEF CInv
<1>2. Base \in Contents /\ a \in Contents
  BY DEF Base, Contents
<1>3. data' \in [0 .. FileSectors - 1 -> Contents]
  <2>1. CASE io[a].op = "prefill"
    <3>1. Store(io[a].off, Into(acb[a].pos), Base)
      BY <2>1 DEF Transfer
    <3> QED
      BY <3>1, <1>1, <1>2, StoreType
  <2>2. CASE io[a].op = "postfill"
    <3>1. Store(io[a].off, Tailroom(a), Base)
      BY <2>2 DEF Transfer
    <3> QED
      BY <3>1, <1>1, <1>2, StoreType
  <2>3. CASE io[a].op = "main"
    <3>1. Store(io[a].off, acb[a].len, a)
      BY <2>3 DEF Transfer
    <3> QED
      BY <3>1, <1>1, <1>2, StoreType
  <2>4. CASE io[a].op \notin {"prefill", "postfill", "main"}
    <3>1. data' = data
      BY <2>4 DEF Transfer
    <3> QED
      BY <3>1, <1>1 DEF TypeOK
  <2> QED
    BY <2>1, <2>2, <2>3, <2>4
<1>4. disk_check' \in BOOLEAN
  BY <1>1 DEF Transfer, TypeOK
<1>5. backing' = backing /\ disk_l1' \in {disk_l1, l1}
  BY DEF Transfer
<1>6. \/ disk_l2' = disk_l2
      \/ /\ io[a].op \in {"l2_new", "l2_part"}
         /\ disk_l2' = [disk_l2 EXCEPT ![io[a].off] = ent[acb[a].l2].table]
  BY DEF Transfer
<1> QED
  BY <1>3, <1>4, <1>5, <1>6

\* What it may do to the entries: a table that is read arrives.
LEMMA TransferEntries ==
  ASSUME CInv, NEW a \in Reqs, Transfer(a)
  PROVE  /\ ent' \in [Entries -> EntType]
         /\ \A x \in Entries : /\ ent'[x].ref = ent[x].ref /\ ent'[x].offset = ent[x].offset
                               /\ \/ ent'[x] = ent[x]
                                  \/ /\ io[a].op = "l2_read" /\ x = acb[a].l2
                                     /\ ent'[x].table = disk_l2[io[a].off]
<1>1. ent \in [Entries -> EntType] /\ disk_l2 \in [Offsets -> Tables]
  BY TypeFacts DEF CInv
<1>2. CASE io[a].op # "l2_read"
  <2>1. ent' = ent
    BY <1>2 DEF Transfer
  <2> QED
    BY <2>1, <1>1
<1>3. CASE io[a].op = "l2_read"
  <2>1. ent' = [ent EXCEPT ![acb[a].l2].table = disk_l2[io[a].off]]
    BY <1>3 DEF Transfer
  <2>2. io[a].off \in Offsets /\ acb[a].l2 # NoEntry
    BY <1>3 DEF CInv, Chains, HeldBy, HasTable, Private
  <2>3. acb[a].l2 \in Entries
    BY <2>2, TypeFacts DEF CInv
  <2> DEFINE e == acb[a].l2
             t == disk_l2[io[a].off]
             y == [ent[e] EXCEPT !.table = t]
  <2>4. t \in Tables
    BY <2>2, <1>1
  <2>5. y \in EntType /\ y.ref = ent[e].ref /\ y.offset = ent[e].offset /\ y.table = t
    <3>1. ent[e] \in EntType
      BY <1>1, <2>3
    <3> HIDE DEF t, e
    <3> QED
      BY <3>1, <2>4 DEF EntType
  <2>6. ent' = [ent EXCEPT ![e] = y]
    BY <2>1
  <2> HIDE DEF y
  <2> QED
    BY <1>1, <1>3, <2>3, <2>5, <2>6
<1> QED
  BY <1>2, <1>3

\* What it may do to the request: its buffer is filled.
LEMMA TransferBuffer ==
  ASSUME CInv, NEW a \in Reqs, Transfer(a)
  PROVE  acb' = acb \/ \E g \in [Sectors -> Contents] : acb' = [acb EXCEPT ![a].got = g]
<1>1. acb \in [Reqs -> AcbType] /\ data \in [0 .. FileSectors - 1 -> Contents]
  BY TypeFacts DEF CInv, TypeOK
<1>2. acb[a].got \in [Sectors -> Contents]
  BY <1>1 DEF AcbType
<1>3. Base \in Contents
  BY DEF Base, Contents
<1> DEFINE pos == acb[a].pos
           len == acb[a].len
           off == io[a].off
           read == pos .. pos + len - 1
<1>4. CASE io[a].op = "data_read"
  <2> DEFINE part == [p \in read |-> data[off + p - pos]]
  <2>1. acb' = [acb EXCEPT ![a].got = Filled(@, part)]
    BY <1>4 DEF Transfer
  <2>2. pos \in Nat /\ len \in Nat /\ off \in Nat /\ FileSectors \in Nat
    BY TypeFacts, Sizes DEF CInv
  <2>3. off + len <= FileSectors
    BY <1>4 DEF CInv, Chains, ChainBy
  <2>4. \A p \in Sectors : p \in DOMAIN part => part[p] \in Contents
    <3> HIDE DEF pos, len, off
    <3>1. ASSUME NEW p \in read PROVE off + p - pos \in 0 .. FileSectors - 1
      BY <2>2, <2>3
    <3> QED
      BY <3>1, <1>1
  <2>5. Filled(acb[a].got, part) \in [Sectors -> Contents]
    <3> HIDE DEF part
    <3> QED
      BY <2>4, <1>2, FilledType
  <2>6. acb' = [acb EXCEPT ![a].got = Filled(acb[a].got, part)]
    BY <2>1, <1>1
  <2> QED
    BY <2>5, <2>6
<1>5. CASE io[a].op = "backing_read"
  <2> DEFINE part == [p \in read |-> Base]
  <2>1. acb' = [acb EXCEPT ![a].got = Filled(@, part)]
    BY <1>5 DEF Transfer
  <2>2. \A p \in Sectors : p \in DOMAIN part => part[p] \in Contents
    BY <1>3
  <2>3. Filled(acb[a].got, part) \in [Sectors -> Contents]
    <3> HIDE DEF part
    <3> QED
      BY <2>2, <1>2, FilledType
  <2>4. acb' = [acb EXCEPT ![a].got = Filled(acb[a].got, part)]
    BY <2>1, <1>1
  <2> QED
    BY <2>3, <2>4
<1>6. CASE io[a].op \notin {"data_read", "backing_read"}
  BY <1>6 DEF Transfer
<1> QED
  BY <1>4, <1>5, <1>6

\* So the request stays where it was.
LEMMA BufferFilled ==
  ASSUME CInv, NEW a \in Reqs,
         acb' = acb \/ \E g \in [Sectors -> Contents] : acb' = [acb EXCEPT ![a].got = g]
  PROVE  /\ acb' \in [Reqs -> AcbType]
         /\ \A s \in Reqs :
              /\ acb'[s].l2 = acb[s].l2 /\ acb'[s].found = acb[s].found
              /\ acb'[s].pos = acb[s].pos /\ acb'[s].end = acb[s].end
              /\ acb'[s].len = acb[s].len /\ acb'[s].cluster = acb[s].cluster
              /\ acb'[s].n = acb[s].n /\ acb'[s].st = acb[s].st
<1>1. acb \in [Reqs -> AcbType]
  BY TypeFacts DEF CInv
<1>2. ASSUME NEW g \in [Sectors -> Contents], acb' = [acb EXCEPT ![a].got = g]
      PROVE  /\ acb' \in [Reqs -> AcbType]
             /\ \A s \in Reqs :
                  /\ acb'[s].l2 = acb[s].l2 /\ acb'[s].found = acb[s].found
                  /\ acb'[s].pos = acb[s].pos /\ acb'[s].end = acb[s].end
                  /\ acb'[s].len = acb[s].len /\ acb'[s].cluster = acb[s].cluster
                  /\ acb'[s].n = acb[s].n /\ acb'[s].st = acb[s].st
  <2> DEFINE y == [acb[a] EXCEPT !.got = g]
  <2>1. PICK b \in AcbType : b = acb[a]
    BY <1>1
  <2>2. LET z == [b EXCEPT !.got = g]
        IN  /\ z \in AcbType /\ z.l2 = b.l2 /\ z.found = b.found /\ z.pos = b.pos
            /\ z.end = b.end /\ z.len = b.len /\ z.cluster = b.cluster /\ z.n = b.n
            /\ z.st = b.st
    BY DEF AcbType
  <2>3. /\ y \in AcbType /\ y.l2 = acb[a].l2 /\ y.found = acb[a].found
        /\ y.pos = acb[a].pos /\ y.end = acb[a].end /\ y.len = acb[a].len
        /\ y.cluster = acb[a].cluster /\ y.n = acb[a].n /\ y.st = acb[a].st
    BY <2>1, <2>2
  <2>4. acb' = [acb EXCEPT ![a] = y]
    BY <1>1, <1>2
  <2> HIDE DEF y
  <2>5. /\ acb' \in [Reqs -> AcbType] /\ acb'[a] = y
        /\ \A s \in Reqs : s # a => acb'[s] = acb[s]
    BY <1>1, <2>3, <2>4, AcbMoved
  <2> QED
    BY <2>3, <2>5
<1> QED
  BY <1>1, <1>2

\* A step of the host that writes a table out, or brings one in, adds nothing to
\* the layout: the versions it copies were in it.
LEMMA HostLayout ==
  ASSUME CInv, NEW a \in Reqs, UNCHANGED <<l1, file_size>>,
         \A s \in Reqs : /\ io'[s].op = io[s].op /\ io'[s].off = io[s].off
                         /\ acb'[s].l2 = acb[s].l2,
         disk_l1' \in {disk_l1, l1},
         \/ disk_l2' = disk_l2
         \/ /\ io[a].op \in {"l2_new", "l2_part"}
            /\ disk_l2' = [disk_l2 EXCEPT ![io[a].off] = ent[acb[a].l2].table],
         \A x \in Entries : /\ ent'[x].offset = ent[x].offset
                            /\ \/ ent'[x] = ent[x]
                               \/ /\ io[a].op = "l2_read" /\ x = acb[a].l2
                                  /\ ent'[x].table = disk_l2[io[a].off]
  PROVE  LayoutStays /\ disk_l2' \in [Offsets -> Tables]
<1>1. /\ disk_l2 \in [Offsets -> Tables] /\ file_size \in Offsets /\ file_size \in Nat
      /\ \A s \in Reqs : acb[s].l2 \in Entries \cup {NoEntry}
      /\ \A x \in Entries : ent[x].table \in Tables
  BY TypeFacts, Sizes DEF CInv, Layout
<1>2. HeldBy(a)
  BY DEF CInv, Chains
<1>3. ASSUME io[a].op \in {"l2_new", "l2_part", "l2_read"}
      PROVE  acb[a].l2 \in Entries
  BY <1>1, <1>2, <1>3 DEF HeldBy, HasTable, Private, NewTable
<1>4. ASSUME NEW o \in Addresses, Tab(o)' PROVE Tab(o)
  <2>1. CASE \E i \in Index : l1'[i] = o \/ disk_l1'[i] = o
    BY <1>4, <2>1 DEF Tab
  <2>2. CASE \E x \in Entries : ent'[x].offset = o
    BY <1>4, <2>2 DEF Tab
  <2>3. CASE \E s \in Reqs : io'[s].op = "l2_read" /\ io'[s].off = o
    BY <1>4, <2>3 DEF Tab
  <2> QED
    BY <1>4, <2>1, <2>2, <2>3 DEF Tab
\* an entry that a reads has no offset yet, and nobody else has it
<1>5. io[a].op = "l2_read" =>
        /\ ent[acb[a].l2].offset = 0
        /\ \A s \in Reqs : s # a => acb[s].l2 # acb[a].l2
  BY <1>2 DEF HeldBy, HasTable, Private
<1>6. ASSUME io[a].op \in {"l2_new", "l2_part"}
      PROVE  io[a].off = ent[acb[a].l2].offset /\ ent[acb[a].l2].offset # 0
  BY <1>2, <1>6 DEF HeldBy, HasTable, Private, NewTable
<1>7. ASSUME NEW o \in Offsets, NEW j \in Index, NEW c \in Addresses, Ref(o, j, c)'
      PROVE  Ref(o, j, c)
  <2>0. c \notin {Unalloc, ZeroCluster}
    BY <1>7 DEF Ref
  <2>1. CASE disk_l2'[o][j] = c
    <3>1. CASE disk_l2[o][j] = c
      BY <2>0, <3>1 DEF Ref
    <3>2. CASE disk_l2[o][j] # c
      <4>1. /\ io[a].op \in {"l2_new", "l2_part"} /\ o = io[a].off
            /\ ent[acb[a].l2].table[j] = c
        BY <2>1, <3>2, <1>1
      <4> QED
        BY <4>1, <1>3, <1>6, <2>0 DEF Ref
    <3> QED
      BY <3>1, <3>2
  <2>2. CASE o # 0 /\ \E x \in Entries : ent'[x].offset = o /\ ent'[x].table[j] = c
    <3>1. PICK x \in Entries : ent'[x].offset = o /\ ent'[x].table[j] = c
      BY <2>2
    <3>2. ent'[x] = ent[x] /\ ent[x].offset = o
      BY <3>1, <2>2, <1>5
    <3> QED
      BY <3>1, <3>2, <2>0, <2>2 DEF Ref
  <2>3. CASE \E s \in Reqs : io'[s].op = "l2_read" /\ io'[s].off = o
                             /\ ent'[acb'[s].l2].table[j] = c
    <3>1. PICK s \in Reqs : /\ io[s].op = "l2_read" /\ io[s].off = o
                            /\ ent'[acb[s].l2].table[j] = c
      BY <2>3
    <3>2. acb[s].l2 \in Entries
      BY <3>1, <1>1 DEF CInv, Chains, HeldBy, HasTable, Private
    <3>3. CASE ent'[acb[s].l2] = ent[acb[s].l2]
      BY <3>1, <3>3, <2>0 DEF Ref
    <3>4. CASE ent'[acb[s].l2] # ent[acb[s].l2]
      <4>1. /\ io[a].op = "l2_read" /\ acb[s].l2 = acb[a].l2
            /\ ent'[acb[s].l2].table = disk_l2[io[a].off]
        BY <3>2, <3>4
      <4>2. s = a
        BY <4>1, <1>5
      <4> QED
        BY <4>1, <4>2, <3>1, <2>0 DEF Ref
    <3> QED
      BY <3>3, <3>4
  <2> QED
    BY <1>7, <2>1, <2>2, <2>3 DEF Ref
<1>8. disk_l2' \in [Offsets -> Tables]
  BY <1>1, <1>3
<1>9. file_size' \in Offsets /\ file_size' >= file_size
  BY <1>1
<1> QED
  BY <1>4, <1>7, <1>8, <1>9 DEF LayoutStays

\* The invariant after it.
LEMMA HostStep ==
  ASSUME CInv, IInv', TypeOK', LayoutStays, UNCHANGED <<l1, cache, run>>,
         run = Idle, disk_l1' \in {disk_l1, l1}, \A s \in Reqs : Same(s),
         \A x \in Entries : /\ ent'[x].ref = ent[x].ref /\ ent'[x].offset = ent[x].offset
                            /\ ent[x].ref = 0 => ent'[x] = ent[x]
  PROVE  CInv'
<1>1. Cached' = Cached
  BY DEF Cached
<1>2. /\ \A s \in Reqs : acb'[s].l2 = acb[s].l2 /\ acb[s].l2 \in Entries \cup {NoEntry}
      /\ Cached \subseteq Entries
  BY TypeFacts DEF CInv, Same, Cached
<1>3. ReferencesExact'
  <2>1. \A x : Users(acb', x) = Users(acb, x)
    BY <1>2 DEF Users
  <2>2. \A x \in Entries : ent[x].ref = Cardinality(Users(acb, x)) + (IF x \in Cached THEN 1 ELSE 0)
    BY DEF CInv, ReferencesExact, Users
  <2>3. \A x \in Entries :
          ent'[x].ref = Cardinality(Users(acb', x)) + (IF x \in Cached' THEN 1 ELSE 0)
    BY <2>1, <2>2, <1>1
  <2> QED
    BY <2>3 DEF ReferencesExact, Users
<1>4. CacheShape'
  <2>1. \A x \in Entries : ent'[x].ref = 0 => ent'[x] = Freed
    BY DEF CInv, CacheShape
  <2> QED
    BY <2>1, <1>2, ShapeStep
<1>5. ASSUME NEW s \in Reqs PROVE HeldBy(s)' /\ ChainBy(s)'
  <2>1. Same(s) /\ HeldBy(s) /\ ChainBy(s)
    BY DEF CInv, Chains
  <2>2. acb[s].l2 # NoEntry => ent'[acb[s].l2].offset = ent[acb[s].l2].offset
    BY <1>2
  <2>3. Private(s) => /\ acb[s].l2 \notin Cached'
                      /\ \A t \in Reqs : t # s => acb'[t].l2 # acb[s].l2
    BY <2>1, <1>1, <1>2 DEF HeldBy
  <2> QED
    BY <2>1, <2>2, <2>3, SameHeld, SameChain
<1>6. Chains'
  BY <1>5 DEF Chains, CInv
<1>7. Layout'
  BY LayoutKept DEF CInv
<1>8. ASSUME NEW s \in Reqs PROVE FreshBy(s)'
  <2>1. Same(s) /\ FreshBy(s) /\ HeldBy(s)
    BY DEF CInv, Fresh, Chains
  <2>2. (Unlinked(s)' => Unlinked(s)) /\ (NewTable(s)' => NewTable(s))
    BY <2>1, StagesKept
  <2>3. NewTable(s) => acb[s].l2 \in Entries
    BY <2>1, <1>2 DEF HeldBy, HasTable, Private
  <2>4. acb'[s].cluster = acb[s].cluster /\ acb'[s].n = acb[s].n /\ acb'[s].l2 = acb[s].l2
    BY <2>1 DEF Same
  <2>5. NewTable(s)' => NewTable(s) /\ ent'[acb'[s].l2].offset = ent[acb[s].l2].offset
    BY <2>2, <2>3, <2>4
  <2> QED
    BY <2>1, <2>2, <2>4, <2>5, FreshKept DEF CInv
<1> QED
  BY <1>3, <1>4, <1>6, <1>7, <1>8 DEF CInv, Fresh

\* The host performs an I/O.
LEMMA HostIoCache ==
  ASSUME CInv, IInv', NEW a \in Reqs \cup {Timer}, HostIo(a)
  PROVE  CInv'
<1>0. /\ run = Idle /\ UNCHANGED <<cache, allocVars, file_size, l1, run, abort>>
      /\ Transfer(a) \/ UNCHANGED <<fileVars, ent, acb>>
      /\ Finished(a, "0") \/ Finished(a, "EIO")
  BY DEF HostIo
<1>1. /\ ent \in [Entries -> EntType] /\ acb \in [Reqs -> AcbType]
      /\ io \in [Reqs \cup {Timer} -> IoType] /\ TypeOK
  BY TypeFacts DEF CInv
<1>2. /\ io' \in [Reqs \cup {Timer} -> IoType]
      /\ \A s \in Reqs : io'[s].op = io[s].op /\ io'[s].off = io[s].off
  <2>1. ASSUME NEW ret \in {"0", "EIO"}, Finished(a, ret)
        PROVE  /\ io' \in [Reqs \cup {Timer} -> IoType]
               /\ \A s \in Reqs : io'[s].op = io[s].op /\ io'[s].off = io[s].off
    <3>1. [op |-> io[a].op, st |-> ret, off |-> io[a].off] \in IoType
      BY <1>1 DEF IoType
    <3> QED
      BY <1>1, <2>1, <3>1 DEF Finished
  <2> QED
    BY <2>1, <1>0
\* the types but for the file's
<1>3. ASSUME backing' = backing, disk_check' \in BOOLEAN, disk_l1' \in {disk_l1, l1},
             disk_l2' \in [Offsets -> Tables], data' \in [0 .. FileSectors - 1 -> Contents],
             ent' \in [Entries -> EntType], acb' \in [Reqs -> AcbType]
      PROVE  TypeOK'
  <2>1. /\ backing' \in BOOLEAN /\ need_check' \in BOOLEAN /\ disk_check' \in BOOLEAN
        /\ plugged' \in BOOLEAN /\ timer' \in BOOLEAN /\ file_size' \in Addresses
        /\ l1' \in Tables /\ disk_l1' \in Tables
        /\ cache' \in Seq(Entries) /\ queue' \in Seq(Reqs)
        /\ abort' \in {"none", "timer", "plug", "unplug", "commit"}
    BY <1>0, <1>1, <1>3 DEF TypeOK, allocVars
  <2>2. run' \in RunType
    BY <1>0, TypeFacts DEF CInv
  <2> QED
    BY <1>2, <1>3, <2>1, <2>2 DEF TypeOK, EntType, AcbType, IoType, RunType
\* nothing but the flag of the header and the I/O's state changes
<1>4. ASSUME UNCHANGED <<backing, disk_l1, disk_l2, data, ent, acb>>, disk_check' \in BOOLEAN
      PROVE  CInv'
  <2>1. TypeOK'
    BY <1>1, <1>3, <1>4 DEF TypeOK
  <2>2. \A s \in Reqs : Same(s)
    BY <1>0, <1>2, <1>4, QedAssumption DEF Same, Running
  <2>3. run'.ret \in Rets
    BY <1>0 DEF Rets
  <2> QED
    BY <1>0, <1>4, <2>1, <2>2, <2>3, StillStep
<1>5. CASE UNCHANGED <<fileVars, ent, acb>>
  BY <1>1, <1>4, <1>5 DEF fileVars, TypeOK
<1>6. CASE a = Timer /\ Transfer(a)
  <2>1. io[Timer].op \in {"none", "t_flush", "t_header"}
    BY DEF CInv, IInv, CallShape, TimerOps
  <2>2. UNCHANGED <<backing, disk_l1, disk_l2, data, ent, acb>>
    BY <1>6, <2>1 DEF Transfer
  <2>3. disk_check' \in BOOLEAN
    BY <1>1, <1>6 DEF Transfer, TypeOK
  <2> QED
    BY <1>4, <2>2, <2>3
<1>7. CASE a \in Reqs /\ Transfer(a)
  <2>1. /\ backing' = backing /\ disk_check' \in BOOLEAN /\ disk_l1' \in {disk_l1, l1}
        /\ data' \in [0 .. FileSectors - 1 -> Contents]
        /\ \/ disk_l2' = disk_l2
           \/ /\ io[a].op \in {"l2_new", "l2_part"}
              /\ disk_l2' = [disk_l2 EXCEPT ![io[a].off] = ent[acb[a].l2].table]
    BY <1>7, TransferFile
  <2>2. /\ ent' \in [Entries -> EntType]
        /\ \A x \in Entries : /\ ent'[x].ref = ent[x].ref /\ ent'[x].offset = ent[x].offset
                              /\ \/ ent'[x] = ent[x]
                                 \/ /\ io[a].op = "l2_read" /\ x = acb[a].l2
                                    /\ ent'[x].table = disk_l2[io[a].off]
    BY <1>7, TransferEntries
  <2>3. /\ acb' \in [Reqs -> AcbType]
        /\ \A s \in Reqs :
              /\ acb'[s].l2 = acb[s].l2 /\ acb'[s].found = acb[s].found
              /\ acb'[s].pos = acb[s].pos /\ acb'[s].end = acb[s].end
              /\ acb'[s].len = acb[s].len /\ acb'[s].cluster = acb[s].cluster
              /\ acb'[s].n = acb[s].n /\ acb'[s].st = acb[s].st
    BY <1>7, TransferBuffer, BufferFilled
  <2>4. LayoutStays /\ disk_l2' \in [Offsets -> Tables]
    BY <1>0, <1>2, <1>7, <2>1, <2>2, <2>3, HostLayout
  <2>5. TypeOK'
    BY <1>3, <2>1, <2>2, <2>3, <2>4
  <2>6. \A s \in Reqs : Same(s)
    BY <1>0, <1>2, <2>3, QedAssumption DEF Same, Running
  <2>7. \A x \in Entries : ent[x].ref = 0 => ent'[x] = ent[x]
    <3>1. \A x \in Entries : acb[a].l2 = x => ent[x].ref >= 1
      BY <1>7, RefFacts DEF CInv
    <3> QED
      BY <3>1, <2>2
  <2> QED
    BY <1>0, <2>1, <2>2, <2>4, <2>5, <2>6, <2>7, HostStep
<1> QED
  BY <1>0, <1>5, <1>6, <1>7

-----------------------------------------------------------------------------
(* The initial state.                                                       *)

\* Where its tables and its data cluster are.
LEMMA InitPlaces ==
  /\ L2Offset(0) = ClusterSectors + TableSectors
  /\ L2Offset(1) = ClusterSectors + 2 * TableSectors
  /\ DataOffset = ClusterSectors + 3 * TableSectors
  /\ L2Offset(0) \in Offsets /\ L2Offset(1) \in Offsets /\ DataOffset \in Offsets
  /\ DataOffset + ClusterSectors \in Offsets
<1>1. /\ ClusterSectors \in Nat /\ TableSize \in Nat /\ FileSectors \in Nat
      /\ (3 * TableSize + 2) * ClusterSectors <= FileSectors
  BY QedAssumption
<1> DEFINE C == ClusterSectors
           T == TableSectors
<1>2. /\ T \in Nat /\ T = TableSize * C
      /\ (1 + TableSize) * C = C + T /\ (1 + 2 * TableSize) * C = C + 2 * T
      /\ (1 + 3 * TableSize) * C = C + 3 * T /\ (3 * TableSize + 2) * C = C + 3 * T + C
      /\ (2 + 3 * TableSize) * C = C + 3 * T + C
  <2>1. TableSize * C \in Nat
    BY <1>1
  <2> QED
    BY <2>1, <1>1 DEF TableSectors
<1>3. L2Offset(0) = C + T /\ L2Offset(1) = C + 2 * T /\ DataOffset = C + 3 * T
  BY <1>1, <1>2 DEF L2Offset, DataOffset, L1Offset
<1>4. ASSUME NEW n \in Nat, n * C <= FileSectors PROVE n * C \in Offsets
  <2>1. 0 \in Offsets /\ n * C \in Nat
    BY <1>1, Sizes
  <2>2. 0 + n * C = n * C
    BY <2>1
  <2> QED
    BY <2>1, <2>2, <1>4, OffsetFacts
<1>5. C + 3 * T + C <= FileSectors
  BY <1>1, <1>2
<1> HIDE DEF T
<1>6. C + T \in Offsets /\ C + 2 * T \in Offsets /\ C + 3 * T \in Offsets
      /\ C + 3 * T + C \in Offsets
  <2>1. C + T <= FileSectors /\ C + 2 * T <= FileSectors /\ C + 3 * T <= FileSectors
    BY <1>1, <1>2, <1>5
  <2>2. /\ 1 + TableSize \in Nat /\ 1 + 2 * TableSize \in Nat
        /\ 1 + 3 * TableSize \in Nat /\ 2 + 3 * TableSize \in Nat
    BY <1>1
  <2>3. /\ (1 + TableSize) * C <= FileSectors /\ (1 + 2 * TableSize) * C <= FileSectors
        /\ (1 + 3 * TableSize) * C <= FileSectors /\ (2 + 3 * TableSize) * C <= FileSectors
    BY <1>2, <1>5, <2>1
  <2> DEFINE P(n) == n * C <= FileSectors => n * C \in Offsets
  <2>4. \A n \in Nat : P(n)
    BY <1>4
  <2>5. P(1 + TableSize) /\ P(1 + 2 * TableSize) /\ P(1 + 3 * TableSize) /\ P(2 + 3 * TableSize)
    <3> HIDE DEF P
    <3> QED
      BY <2>2, <2>4
  <2> QED
    BY <1>2, <2>3, <2>5
<1> QED
  BY <1>3, <1>6 DEF T

\* Every variable starts with its type.
LEMMA InitType == Init => TypeOK
<1> SUFFICES ASSUME Init PROVE TypeOK
  OBVIOUS
<1>1. /\ L2Offset(0) \in Addresses /\ L2Offset(1) \in Addresses /\ DataOffset \in Addresses
      /\ file_size \in Addresses /\ 0 \in Addresses /\ 1 \in Addresses
  <2>1. 1 \in Addresses
    <3>1. DataOffset \in Addresses /\ DataOffset = ClusterSectors + 3 * TableSectors
      BY InitPlaces, Sizes
    <3> QED
      BY <3>1, Sizes DEF Addresses
  <2> QED
    BY <2>1, InitPlaces, Sizes DEF Init
<1>2. l1 \in Tables /\ disk_l1 \in Tables
  <2>1. \A i \in Index : i < 2 => i = 0 \/ i = 1
    BY Sizes DEF Index
  <2>2. \A i \in Index : (IF i < 2 THEN L2Offset(i) ELSE Unalloc) \in Addresses
    BY <1>1, <2>1 DEF Unalloc
  <2> QED
    BY <2>2 DEF Init, Tables
<1>3. disk_l2 \in [Offsets -> Tables]
  <2>1. NoTable \in Tables
    BY Sizes
  <2>2. [NoTable EXCEPT ![0] = DataOffset, ![1] = ZeroCluster] \in Tables
    BY <2>1, <1>1 DEF Tables, ZeroCluster
  <2> QED
    BY <2>1, <2>2 DEF Init
<1>4. data \in [0 .. FileSectors - 1 -> Contents]
  <2>1. "disk" \in Contents /\ "hole" \in Contents
    BY DEF Contents
  <2> QED
    BY <2>1 DEF Init
<1>5. ent \in [Entries -> EntType]
  BY Sizes DEF Init
<1>6. acb \in [Reqs -> AcbType]
  BY UnusedType DEF Init
<1>7. io \in [Reqs \cup {Timer} -> IoType]
  <2>1. NoIo \in IoType
    BY DEF IoType, Ops
  <2> QED
    BY <2>1 DEF Init
<1>8. run \in RunType
  BY Sizes DEF Init, RunType, CallNames, Rets
<1>9. /\ backing \in BOOLEAN /\ need_check \in BOOLEAN /\ disk_check \in BOOLEAN
      /\ plugged \in BOOLEAN /\ timer \in BOOLEAN
      /\ cache \in Seq(Entries) /\ queue \in Seq(Reqs)
      /\ abort \in {"none", "timer", "plug", "unplug", "commit"}
  <2>1. Backings \subseteq BOOLEAN
    BY QedAssumption
  <2> QED
    BY <2>1, EmptySeq DEF Init
<1> QED
  BY <1>1, <1>2, <1>3, <1>4, <1>5, <1>6, <1>7, <1>8, <1>9
  DEF TypeOK, EntType, AcbType, IoType, RunType

\* The tables of the initial file.
LEMMA InitLayout == Init => Layout
<1> SUFFICES ASSUME Init PROVE Layout
  OBVIOUS
<1> DEFINE C == ClusterSectors
           T == TableSectors
<1>0. /\ L2Offset(0) = C + T /\ L2Offset(1) = C + 2 * T /\ DataOffset = C + 3 * T
      /\ L2Offset(0) \in Offsets /\ L2Offset(1) \in Offsets /\ DataOffset \in Offsets
      /\ DataOffset + C \in Offsets
      /\ C \in Nat /\ C > 1 /\ T \in Nat /\ T >= 2 * C /\ L1Offset = C
  BY InitPlaces, Sizes
<1>1. \A i \in Index : l1[i] = (IF i = 0 THEN C + T ELSE IF i = 1 THEN C + 2 * T ELSE 0)
  <2>1. \A i \in Index : i < 2 <=> i = 0 \/ i = 1
    BY Sizes DEF Index
  <2> QED
    BY <1>0, <2>1 DEF Init, Unalloc
<1>2. disk_l1 = l1 /\ file_size = C + 3 * T + C /\ file_size \in Offsets
  BY <1>0 DEF Init
<1>3. ASSUME NEW o \in Addresses, Tab(o) PROVE o \in {C + T, C + 2 * T}
  <2>1. \A e \in Entries : ent[e].offset = 0
    BY DEF Init, Freed
  <2>2. \A r \in Reqs : io[r].op # "l2_read"
    BY DEF Init
  <2> QED
    BY <1>1, <1>2, <1>3, <2>1, <2>2 DEF Tab
<1>4. ASSUME NEW o \in Offsets, NEW j \in Index, NEW c \in Addresses, Ref(o, j, c)
      PROVE  o = C + T /\ j = 0 /\ c = C + 3 * T
  <2>1. c # Unalloc /\ c # ZeroCluster
    BY <1>4 DEF Ref
  <2>2. \A e \in Entries : ent[e].offset = 0
    BY DEF Init, Freed
  <2>3. \A r \in Reqs : io[r].op # "l2_read"
    BY DEF Init
  <2>4. disk_l2[o][j] = c
    BY <1>4, <2>2, <2>3 DEF Ref
  <2>5. disk_l2[o] = IF o = L2Offset(0)
                     THEN [NoTable EXCEPT ![0] = DataOffset, ![1] = ZeroCluster]
                     ELSE NoTable
    BY DEF Init
  <2>6. NoTable[j] = Unalloc /\ NoTable = [k \in Index |-> Unalloc] /\ 0 \in Index /\ 1 \in Index
    BY Sizes DEF NoTable
  <2>7. o = L2Offset(0)
    BY <2>1, <2>4, <2>5, <2>6
  <2>8. [NoTable EXCEPT ![0] = DataOffset, ![1] = ZeroCluster][j]
          = IF j = 1 THEN ZeroCluster ELSE IF j = 0 THEN DataOffset ELSE Unalloc
    BY <2>6
  <2> QED
    BY <1>0, <2>1, <2>4, <2>5, <2>7, <2>8
<1> HIDE DEF C, T
<1>5. \A i, k \in Index : l1[i] = l1[k] /\ l1[i] # Unalloc => i = k
  BY <1>0, <1>1 DEF Unalloc
<1>6. /\ C + T \in Offsets /\ C + 2 * T \in Offsets /\ C + 3 * T \in Offsets
      /\ C + T >= C + T /\ C + 2 * T >= C + T /\ C + 3 * T >= C + T
      /\ C + T + T <= file_size /\ C + 2 * T + T <= file_size /\ C + 3 * T + C <= file_size
  BY <1>0, <1>2
<1>7. \A o \in Addresses : Tab(o) => InFile(o, TableSectors)
  BY <1>0, <1>3, <1>6 DEF InFile, T
<1>8. \A o, p \in Addresses :
         Tab(o) /\ Tab(p) /\ o # p => Apart(o, TableSectors, p, TableSectors)
  <2>1. C + T + T <= C + 2 * T
    BY <1>0
  <2> QED
    BY <1>3, <2>1 DEF Apart, T
<1>9. \A o \in Offsets, j \in Index, c \in Addresses : Ref(o, j, c) =>
         /\ InFile(c, ClusterSectors)
         /\ \A p \in Addresses : Tab(p) => Apart(c, ClusterSectors, p, TableSectors)
  <2>1. C + T + T <= C + 3 * T /\ C + 2 * T + T <= C + 3 * T
    BY <1>0
  <2>2. InFile(C + 3 * T, ClusterSectors)
    BY <1>0, <1>6 DEF InFile, C, T
  <2> QED
    BY <1>3, <1>4, <2>1, <2>2 DEF Apart, T
<1>10. \A o, p \in Offsets, j, k \in Index, c \in Addresses :
         Ref(o, j, c) /\ Ref(p, k, c) => o = p /\ j = k
  BY <1>4
<1>11. file_size >= L1Offset + TableSectors
  BY <1>0, <1>2 DEF T
<1> QED
  BY <1>2, <1>5, <1>7, <1>8, <1>9, <1>10, <1>11 DEF Layout

\* The invariant holds initially.
LEMMA InitCInv == Init => CInv
<1> SUFFICES ASSUME Init PROVE CInv
  OBVIOUS
<1>1. IInv /\ TypeOK /\ Layout
  BY InitIInv, InitType, InitLayout
<1>2. /\ run = Idle /\ \A r \in Reqs : io[r] = NoIo /\ acb[r] = Unused
      /\ \A e \in Entries : ent[e] = Freed
      /\ cache = <<>>
  BY DEF Init
<1>3. Cached = {} /\ Len(cache) = 0
  BY <1>2 DEF Cached
<1>4. ReferencesExact
  <2> SUFFICES ASSUME NEW e \in Entries
               PROVE  ent[e].ref = Cardinality({r \in Reqs : acb[r].l2 = e})
                                   + (IF e \in Cached THEN 1 ELSE 0)
    BY DEF ReferencesExact
  <2>1. {r \in Reqs : acb[r].l2 = e} = {}
    BY <1>2, UnusedType, EntryFacts
  <2>2. ent[e].ref = 0
    BY <1>2 DEF Freed
  <2> QED
    BY <1>3, <2>1, <2>2, FS_EmptySet
<1>5. CacheShape
  BY <1>2, <1>3, Sizes DEF CacheShape
<1>6. ASSUME NEW r \in Reqs
      PROVE  ~ Looking(r) /\ ~ Unlinked(r) /\ ~ NewTable(r) /\ ~ Private(r) /\ ~ HasTable(r)
  BY <1>2, QedAssumption DEF Looking, Unlinked, NewTable, Private, HasTable, Running
<1>7. Chains
  <2>1. Unused.l2 = NoEntry /\ Unused.end = 0
    BY DEF Unused
  <2>2. 0 <= TableNElems * TableNElems * ClusterSectors
    <3>1. TableNElems \in Nat /\ ClusterSectors \in Nat
      BY Sizes
    <3>2. TableNElems * TableNElems \in Nat
      BY <3>1
    <3>3. TableNElems * TableNElems * ClusterSectors \in Nat
      BY <3>1, <3>2
    <3> QED
      BY <3>3
  <2>3. \A r \in Reqs : HeldBy(r)
    BY <1>2, <1>6, <2>1 DEF HeldBy
  <2>4. \A r \in Reqs : ChainBy(r)
    BY <1>2, <1>6, <2>1, <2>2 DEF ChainBy
  <2>5. run.fn # "data" => run.ret \in Rets
    BY <1>2 DEF Rets
  <2> QED
    BY <2>3, <2>4, <2>5 DEF Chains
<1>8. Fresh
  BY <1>6 DEF Fresh, FreshBy
<1> QED
  BY <1>1, <1>4, <1>5, <1>7, <1>8 DEF CInv

-----------------------------------------------------------------------------
(* All steps.                                                               *)

\* The functions that look up a cluster in the tables.
LEMMA LookupCache ==
  ASSUME CInv, IInv', NEW r \in Reqs, qed_find_cluster(r)
  PROVE  CInv'
<1>0. /\ Called("find_cluster", r)
      /\ UNCHANGED <<fileVars, cache, allocVars, file_size, l1, abort>>
  BY DEF qed_find_cluster
<1>1. \/ /\ UNCHANGED <<ent, acb>>
         /\ \/ CallWith(r, "data", r, "L1", 0, Limit(r))
            \/ CallWith(r, "data", r, "EINVAL", 0, 0)
      \/ /\ l1[L1Index(acb[r].pos)] # Unalloc
         /\ qed_read_l2_table(r, l1[L1Index(acb[r].pos)])
  BY DEF qed_find_cluster
<1>2. CASE /\ UNCHANGED <<ent, acb>>
           /\ \/ CallWith(r, "data", r, "L1", 0, Limit(r))
              \/ CallWith(r, "data", r, "EINVAL", 0, 0)
  BY <1>0, <1>2, FindInL1Cache
<1>3. CASE /\ l1[L1Index(acb[r].pos)] # Unalloc
           /\ qed_read_l2_table(r, l1[L1Index(acb[r].pos)])
  BY <1>0, <1>3, FindReadCache
<1> QED
  BY <1>1, <1>2, <1>3

\* The functions that change the tables.
LEMMA UpdateCache ==
  ASSUME CInv, IInv', NEW r \in Reqs, qed_aio_write_l2_update(r) \/ qed_aio_write_l1_update(r)
  PROVE  CInv'
<1>1. CASE qed_aio_write_l2_update(r)
  <2>0. /\ Called("l2_update", r)
        /\ UNCHANGED <<fileVars, cache, allocVars, l1, abort>>
    BY <1>1 DEF qed_aio_write_l2_update
  <2>1. \/ Call(r, "complete", r, Ret(r)) /\ UNCHANGED <<ent, acb, file_size>>
        \/ /\ acb[r].found = "L1" /\ qed_alloc_clusters(TableSize)
           /\ LET es == qed_unref_l2_cache_entry(ent, acb[r].l2)
                  new == Alloc(es)
              IN  /\ ent' = qed_new_l2_table(es, new,
                              qed_update_l2_table(NoTable, L2Index(acb[r].pos),
                                                  acb[r].n, acb[r].cluster))
                  /\ acb' = [acb EXCEPT ![r].l2 = new]
           /\ StartIo(r, "l2_new", file_size)
        \/ /\ acb[r].found # "L1"
           /\ ent' = [ent EXCEPT ![acb[r].l2].table =
                        qed_update_l2_table(@, L2Index(acb[r].pos), acb[r].n, acb[r].cluster)]
           /\ StartIo(r, "l2_part", ent[acb[r].l2].offset)
           /\ UNCHANGED <<acb, file_size>>
    BY <1>1 DEF qed_aio_write_l2_update, qed_write_table
  <2>2. CASE Call(r, "complete", r, Ret(r)) /\ UNCHANGED <<ent, acb, file_size>>
    BY <2>0, <2>2, UpdateFailedCache DEF writeVars, cacheVars
  <2>3. CASE /\ acb[r].found = "L1" /\ qed_alloc_clusters(TableSize)
             /\ LET es == qed_unref_l2_cache_entry(ent, acb[r].l2)
                    new == Alloc(es)
                IN  /\ ent' = qed_new_l2_table(es, new,
                                qed_update_l2_table(NoTable, L2Index(acb[r].pos),
                                                    acb[r].n, acb[r].cluster))
                    /\ acb' = [acb EXCEPT ![r].l2 = new]
             /\ StartIo(r, "l2_new", file_size)
    BY <2>0, <2>3, LinkNewCache
  <2>4. CASE /\ acb[r].found # "L1"
             /\ ent' = [ent EXCEPT ![acb[r].l2].table =
                        qed_update_l2_table(@, L2Index(acb[r].pos), acb[r].n, acb[r].cluster)]
             /\ StartIo(r, "l2_part", ent[acb[r].l2].offset)
             /\ UNCHANGED <<acb, file_size>>
    BY <2>0, <2>4, LinkPartCache
  <2> QED
    BY <2>1, <2>2, <2>3, <2>4
<1>2. CASE qed_aio_write_l1_update(r)
  <2>0. /\ Called("l1_update", r)
        /\ UNCHANGED <<fileVars, cacheVars, allocVars, file_size, acb, abort>>
    BY <1>2 DEF qed_aio_write_l1_update
  <2>1. \/ Call(r, "complete", r, Ret(r)) /\ UNCHANGED l1
        \/ /\ l1' = [l1 EXCEPT ![L1Index(acb[r].pos)] = ent[acb[r].l2].offset]
           /\ StartIo(r, "l1_write", L1Offset)
    BY <1>2 DEF qed_aio_write_l1_update, qed_write_table
  <2>2. CASE Call(r, "complete", r, Ret(r)) /\ UNCHANGED l1
    BY <2>0, <2>2, UpdateFailedCache DEF writeVars
  <2>3. CASE /\ l1' = [l1 EXCEPT ![L1Index(acb[r].pos)] = ent[acb[r].l2].offset]
             /\ StartIo(r, "l1_write", L1Offset)
    BY <2>0, <2>3, LinkL1Cache
  <2> QED
    BY <2>1, <2>2, <2>3
<1> QED
  BY <1>1, <1>2

\* Nothing happens.
LEMMA StutterCache ==
  ASSUME CInv, UNCHANGED vars, IInv'
  PROVE  CInv'
<1>0. /\ UNCHANGED <<backing, disk_check, disk_l1, disk_l2, data, ent, cache>>
      /\ UNCHANGED <<queue, plugged, timer, need_check, file_size, l1, acb, io, run, abort>>
  BY DEF vars, fileVars, cacheVars, allocVars
<1>1. TypeOK' /\ ReferencesExact' /\ CacheShape'
  <2>1. TypeOK'
    <3>1. /\ need_check \in BOOLEAN /\ file_size \in Addresses /\ l1 \in Tables
          /\ abort \in {"none", "timer", "plug", "unplug", "commit"}
      BY DEF CInv, TypeOK
    <3> QED
      BY <1>0, <3>1, TypeFacts, TypeStep DEF CInv, fileVars
  <2>2. Cached' = Cached
    BY <1>0 DEF Cached
  <2>3. ReferencesExact'
    BY <1>0, <2>2 DEF CInv, ReferencesExact
  <2>4. CacheShape'
    BY <1>0 DEF CInv, CacheShape
  <2> QED
    BY <2>1, <2>3, <2>4
<1>2. Layout'
  <2>1. file_size \in Offsets /\ file_size \in Nat
    BY Sizes DEF CInv, Layout
  <2>2. LayoutStays
    BY <1>0, <2>1 DEF LayoutStays, Tab, Ref
  <2> QED
    BY <1>0, <2>2, LayoutKept DEF CInv
<1>3. ASSUME NEW r \in Reqs
      PROVE  /\ Looking(r)' = Looking(r) /\ Unlinked(r)' = Unlinked(r)
             /\ NewTable(r)' = NewTable(r) /\ Private(r)' = Private(r)
             /\ HasTable(r)' = HasTable(r)
  BY <1>0 DEF Looking, Unlinked, NewTable, Private, HasTable, Running
<1>4. ASSUME NEW r \in Reqs PROVE HeldBy(r)' /\ ChainBy(r)' /\ FreshBy(r)'
  <2>1. HeldBy(r) /\ ChainBy(r) /\ FreshBy(r)
    BY DEF CInv, Chains, Fresh
  <2>2. HeldBy(r)' /\ ChainBy(r)'
    BY <1>0, <1>3, <2>1 DEF HeldBy, ChainBy, Cached, Running
  <2>3. FreshBy(r)'
    BY <1>0, <1>3, <2>1 DEF FreshBy, InFile, Tab, Ref
  <2> QED
    BY <2>2, <2>3
<1>5. Chains' /\ Fresh'
  BY <1>0, <1>4 DEF CInv, Chains, Fresh
<1> QED
  BY <1>1, <1>2, <1>5 DEF CInv

\* One case per action.
LEMMA NextCInv == CInv /\ [Next]_vars => CInv'
<1> SUFFICES ASSUME CInv, [Next]_vars PROVE CInv'
  OBVIOUS
<1>0. IInv'
  BY NextIInv DEF CInv
<1>1. ASSUME NEW r \in Reqs, Request(r) PROVE CInv'
  <2>1. CASE qed_aio_next_io(r) \/ qed_find_cluster(r) \/ qed_read_l2_table_cb(r)
             \/ qed_find_cluster_cb(r)
    BY <1>0, <2>1, NextIoCache, LookupCache, ReadTableCache, FindInL2Cache
  <2>2. CASE qed_aio_read_data(r) \/ qed_aio_write_data(r)
    BY <1>0, <2>2, ReadDataCache, WriteDataCache
  <2>3. CASE \/ qed_aio_write_prefill(r) \/ qed_aio_write_postfill(r)
             \/ qed_aio_write_main(r) \/ qed_aio_write_flush_before_l2_update(r)
             \/ qed_write_table_cb(r)
    BY <1>0, <2>3, HolderStepsCache
  <2>4. CASE qed_aio_write_l2_update(r) \/ qed_aio_write_l1_update(r)
    BY <1>0, <2>4, UpdateCache
  <2>5. CASE qed_commit_l2_update(r) \/ qed_aio_complete(r) \/ qed_aio_complete_bh(r)
    BY <1>0, <2>5, CommitUpdateCache, CompleteCache, CompleteBhCache
  <2> QED
    BY <1>1, <2>1, <2>2, <2>3, <2>4, <2>5 DEF Request
<1>2. CASE NeedCheck
  BY <1>0, <1>2, TimerCache
<1>3. ASSUME NEW a \in Reqs \cup {Timer}, HostIo(a) PROVE CInv'
  BY <1>0, <1>3, HostIoCache
<1>4. ASSUME NEW r \in Reqs, qed_aio_setup(r) PROVE CInv'
  BY <1>0, <1>4, SetupCache
<1>5. CASE UNCHANGED vars
  BY <1>0, <1>5, StutterCache
<1> QED
  BY <1>1, <1>2, <1>3, <1>4, <1>5 DEF Next, Driver

\* A part of the file that the tables t1 and f refer to.
IsTable(p, t1) ==
    \E i \in Index : t1[i] # Unalloc /\ p = <<<<i>>, t1[i], TableSectors>>
IsCluster(p, t1, f) ==
    \E i, j \in Index :
        /\ t1[i] # Unalloc /\ f[t1[i]][j] \notin {Unalloc, ZeroCluster}
        /\ p = <<<<i, j>>, f[t1[i]][j], ClusterSectors>>
IsPart(p, t1, f) == IsTable(p, t1) \/ IsCluster(p, t1, f)

\* Such parts are in the file and apart.
LEMMA PartsApart ==
  ASSUME CInv, NEW t1 \in {l1, disk_l1}, NEW f,
         \A i, j \in Index : t1[i] # Unalloc /\ f[t1[i]][j] \notin {Unalloc, ZeroCluster} =>
            f[t1[i]][j] \in Addresses /\ Ref(t1[i], j, f[t1[i]][j]),
         NEW p, IsPart(p, t1, f), NEW q, IsPart(q, t1, f)
  PROVE  /\ p[2] >= L1Offset + TableSectors /\ p[2] + p[3] <= file_size
         /\ p[1] = q[1] \/ p[2] + p[3] <= q[2] \/ q[2] + q[3] <= p[2]
<1>1. \A i \in Index : t1[i] # Unalloc =>
        t1[i] \in Addresses /\ Tab(t1[i]) /\ t1[i] \in Offsets /\ InFile(t1[i], TableSectors)
  <2>1. \A i \in Index : t1[i] \in Addresses
    BY TypeFacts DEF CInv, Tables
  <2>2. \A i \in Index : t1[i] # Unalloc => Tab(t1[i])
    BY DEF Tab, Unalloc
  <2> QED
    BY <2>1, <2>2 DEF CInv, Layout, InFile
<1>2. \A i, k \in Index : t1[i] # Unalloc /\ t1[k] # Unalloc /\ i # k =>
        Apart(t1[i], TableSectors, t1[k], TableSectors)
  <2>1. \A i, k \in Index : t1[i] = t1[k] /\ t1[i] # Unalloc => i = k
    BY DEF CInv, Layout
  <2> QED
    BY <1>1, <2>1 DEF CInv, Layout
<1>3. ASSUME IsCluster(p, t1, f)
      PROVE  /\ InFile(p[2], ClusterSectors) /\ p[3] = ClusterSectors
             /\ \A o \in Addresses : Tab(o) => Apart(p[2], ClusterSectors, o, TableSectors)
  <2>1. PICK i, j \in Index :
        /\ t1[i] # Unalloc /\ f[t1[i]][j] \notin {Unalloc, ZeroCluster}
        /\ p = <<<<i, j>>, f[t1[i]][j], ClusterSectors>>
    BY <1>3 DEF IsCluster
  <2>2. p[2] = f[t1[i]][j] /\ p[3] = ClusterSectors
    BY <2>1
  <2> QED
    BY <1>1, <2>1, <2>2 DEF CInv, Layout
<1>4. ASSUME IsCluster(q, t1, f)
      PROVE  /\ InFile(q[2], ClusterSectors) /\ q[3] = ClusterSectors
             /\ \A o \in Addresses : Tab(o) => Apart(q[2], ClusterSectors, o, TableSectors)
  <2>1. PICK i, j \in Index :
        /\ t1[i] # Unalloc /\ f[t1[i]][j] \notin {Unalloc, ZeroCluster}
        /\ q = <<<<i, j>>, f[t1[i]][j], ClusterSectors>>
    BY <1>4 DEF IsCluster
  <2>2. q[2] = f[t1[i]][j] /\ q[3] = ClusterSectors
    BY <2>1
  <2> QED
    BY <1>1, <2>1, <2>2 DEF CInv, Layout
<1>5. CASE IsTable(p, t1) /\ IsTable(q, t1)
  BY <1>1, <1>2, <1>5 DEF IsTable, InFile, Apart
<1>6. CASE IsTable(p, t1) /\ IsCluster(q, t1, f)
  BY <1>1, <1>4, <1>6 DEF IsTable, InFile, Apart
<1>7. CASE IsCluster(p, t1, f) /\ IsTable(q, t1)
  BY <1>1, <1>3, <1>7 DEF IsTable, InFile, Apart
<1>8. CASE IsCluster(p, t1, f) /\ IsCluster(q, t1, f)
  <2>1. p[2] # q[2] => Apart(p[2], ClusterSectors, q[2], ClusterSectors)
    BY <1>3, <1>4, <1>8, OffsetFacts DEF InFile
  <2>2. p[2] = q[2] => p[1] = q[1]
    <3>1. PICK i, j \in Index :
          /\ t1[i] # Unalloc /\ f[t1[i]][j] \notin {Unalloc, ZeroCluster}
          /\ p = <<<<i, j>>, f[t1[i]][j], ClusterSectors>>
      BY <1>8 DEF IsCluster
    <3>2. PICK k, m \in Index :
          /\ t1[k] # Unalloc /\ f[t1[k]][m] \notin {Unalloc, ZeroCluster}
          /\ q = <<<<k, m>>, f[t1[k]][m], ClusterSectors>>
      BY <1>8 DEF IsCluster
    <3>3. f[t1[i]][j] = f[t1[k]][m] => t1[i] = t1[k] /\ j = m
      BY <1>1, <3>1, <3>2 DEF CInv, Layout
    <3>4. t1[i] = t1[k] => i = k
      BY <3>1, <3>2 DEF CInv, Layout
    <3> QED
      BY <3>1, <3>2, <3>3, <3>4
  <2> QED
    BY <1>3, <1>4, <1>8, <2>1, <2>2 DEF InFile, Apart
<1> QED
  BY <1>5, <1>6, <1>7, <1>8 DEF IsPart

\* The table the driver would use is a version of it.
LEMMA TableFacts ==
  ASSUME CInv, NEW o \in Offsets, o # 0, NEW j \in Index
  PROVE  /\ Table(o) \in Tables
         /\ Table(o)[j] \notin {Unalloc, ZeroCluster} => Ref(o, j, Table(o)[j])
<1> DEFINE hit == qed_find_l2_cache_entry(ent, cache, o)
<1>1. \/ hit = NoEntry
      \/ hit \in Entries /\ ent[hit].offset = o
  <2>1. cache \in Seq(Entries)
    BY TypeFacts DEF CInv
  <2> QED
    BY <2>1, FindFacts
<1>2. Table(o) = IF hit = NoEntry THEN disk_l2[o] ELSE ent[hit].table
  BY DEF Table
<1> HIDE DEF hit
<1>3. Table(o) \in Tables
  BY <1>1, <1>2, TypeFacts DEF CInv
<1>4. Table(o)[j] \notin {Unalloc, ZeroCluster} => Ref(o, j, Table(o)[j])
  BY <1>1, <1>2 DEF Ref
<1> QED
  BY <1>3, <1>4

\* Each cluster is referred to once.
LEMMA OnceFollows == CInv => ClustersReferencedOnce
<1> SUFFICES ASSUME CInv PROVE ClustersReferencedOnce
  OBVIOUS
<1>0. \A i \in Index : /\ l1[i] # Unalloc => l1[i] \in Offsets /\ l1[i] # 0
                       /\ disk_l1[i] # Unalloc => disk_l1[i] \in Offsets /\ disk_l1[i] # 0
  <2>1. \A i \in Index : l1[i] \in Addresses /\ disk_l1[i] \in Addresses
    BY TypeFacts DEF CInv, Tables
  <2>2. \A i \in Index : /\ l1[i] # Unalloc => Tab(l1[i])
                         /\ disk_l1[i] # Unalloc => Tab(disk_l1[i])
    BY DEF Tab, Unalloc
  <2> QED
    BY <2>1, <2>2 DEF CInv, Layout, InFile, Unalloc
<1>1. Consistent(l1, Table)
  <2> DEFINE f == [o \in Offsets |-> Table(o)]
             ps == Parts(l1, Table)
  <2>1. \A i \in Index : l1[i] # Unalloc => f[l1[i]] = Table(l1[i])
    BY <1>0
  <2>2. \A i, j \in Index : l1[i] # Unalloc /\ f[l1[i]][j] \notin {Unalloc, ZeroCluster} =>
            f[l1[i]][j] \in Addresses /\ Ref(l1[i], j, f[l1[i]][j])
    <3> SUFFICES ASSUME NEW i \in Index, NEW j \in Index, l1[i] # Unalloc,
                        f[l1[i]][j] \notin {Unalloc, ZeroCluster}
                 PROVE  f[l1[i]][j] \in Addresses /\ Ref(l1[i], j, f[l1[i]][j])
      OBVIOUS
    <3>1. Table(l1[i]) \in Tables /\ Table(l1[i])[j] \in Addresses
      <4>1. Table(l1[i]) \in Tables
        BY <1>0, TableFacts
      <4> QED
        BY <4>1 DEF Tables
    <3> QED
      BY <1>0, <2>1, <3>1, TableFacts
  <2> HIDE DEF f
  <2>3. \A p \in ps : IsPart(p, l1, f)
    <3> SUFFICES ASSUME NEW p \in ps PROVE IsPart(p, l1, f)
      OBVIOUS
    <3> QED
      BY <2>1 DEF Parts, IsPart, IsTable, IsCluster
  <2>4. \A p, q \in ps :
          /\ p[2] >= L1Offset + TableSectors /\ p[2] + p[3] <= file_size
          /\ p[1] = q[1] \/ p[2] + p[3] <= q[2] \/ q[2] + q[3] <= p[2]
    <3> HIDE DEF ps
    <3> QED
      BY <2>2, <2>3, PartsApart
  <2> QED
    BY <2>4 DEF Consistent
<1>2. Consistent(disk_l1, LAMBDA o : disk_l2[o])
  <2> DEFINE ps == Parts(disk_l1, LAMBDA o : disk_l2[o])
  <2>2. \A i, j \in Index :
          disk_l1[i] # Unalloc /\ disk_l2[disk_l1[i]][j] \notin {Unalloc, ZeroCluster} =>
            disk_l2[disk_l1[i]][j] \in Addresses /\ Ref(disk_l1[i], j, disk_l2[disk_l1[i]][j])
    <3> SUFFICES ASSUME NEW i \in Index, NEW j \in Index, disk_l1[i] # Unalloc,
                        disk_l2[disk_l1[i]][j] \notin {Unalloc, ZeroCluster}
                 PROVE  /\ disk_l2[disk_l1[i]][j] \in Addresses
                        /\ Ref(disk_l1[i], j, disk_l2[disk_l1[i]][j])
      OBVIOUS
    <3>1. disk_l2[disk_l1[i]][j] \in Addresses
      BY <1>0, TypeFacts DEF CInv, Tables
    <3> QED
      BY <3>1 DEF Ref
  <2>3. \A p \in ps : IsPart(p, disk_l1, disk_l2)
    <3> SUFFICES ASSUME NEW p \in ps PROVE IsPart(p, disk_l1, disk_l2)
      OBVIOUS
    <3> QED
      BY DEF Parts, IsPart, IsTable, IsCluster
  <2>4. \A p, q \in ps :
          /\ p[2] >= L1Offset + TableSectors /\ p[2] + p[3] <= file_size
          /\ p[1] = q[1] \/ p[2] + p[3] <= q[2] \/ q[2] + q[3] <= p[2]
    <3> HIDE DEF ps
    <3> QED
      BY <2>2, <2>3, PartsApart
  <2> QED
    BY <2>4 DEF Consistent
<1> QED
  BY <1>1, <1>2 DEF ClustersReferencedOnce

-----------------------------------------------------------------------------
(* The theorems about the cache and the layout.                             *)

\* Every step keeps the cache and the layout of the file sound.
THEOREM CacheInvariance == Spec => []CInv
<1>1. Init => CInv
  BY InitCInv
<1>2. CInv /\ [Next]_vars => CInv'
  BY NextCInv
<1> QED
  BY <1>1, <1>2, PTL DEF Spec

\* An entry of the L2 cache always has exactly one reference for the cache and
\* one for each request that uses it (qed_unref_l2_cache_entry,
\* qed_commit_l2_cache_entry), so that none is freed early or leaked, for any
\* number of requests, any geometry and any I/O failures.
THEOREM CacheIsSound == Spec => []CacheSound
<1>1. CInv => CacheSound
  BY DEF CInv, CacheSound
<1> QED
  BY <1>1, CacheInvariance, PTL

\* No cluster is ever referenced twice or lies outside the file, neither in the
\* tables the driver works with nor in the ones in the file (qed_alloc_clusters,
\* qed_aio_write_l2_update, qed_aio_write_l1_update).
THEOREM ClustersAreReferencedOnce == Spec => []ClustersReferencedOnce
<1>1. CInv => ClustersReferencedOnce
  BY OnceFollows
<1> QED
  BY <1>1, CacheInvariance, PTL

=============================================================================

------------------------------ MODULE TapWin32 ------------------------------
(***************************************************************************)
(* The TAP network back end on Win32 (qemu/net/tap-win32.c).               *)
(*                                                                         *)
(* A reader thread takes a buffer off a free list, fills it with a frame   *)
(* and appends it to an output queue; the main loop takes it from there,   *)
(* passes the frame to the network queue and puts the buffer back.  Both   *)
(* lists are linked through the buffers and have a critical section and a  *)
(* semaphore each; a third semaphore wakes the main loop.  In the other    *)
(* direction the main loop writes guest packets with overlapped I/O.       *)
(*                                                                         *)
(* A critical section's body is one step, a Win32 call another.  Frames    *)
(* are numbered in the order the driver delivers them.                     *)
(***************************************************************************)
EXTENDS Naturals, Sequences, FiniteSets, SequencesExt

CONSTANTS
  Buffers,     \* overlapped->buffers; TUN_MAX_BUFFER_COUNT of them
  NULL,
  MaxFrames,   \* bound: frames the driver delivers
  MaxPackets   \* bound: packets the guest sends

ASSUME TapAssumption ==
  /\ IsFiniteSet(Buffers) /\ Buffers # {}
  /\ NULL \notin Buffers
  /\ MaxFrames \in Nat /\ MaxPackets \in Nat

VARIABLES
  next,        \* tun_buffer_t.next
  frame,       \* the frame in each buffer
  free_list,
  front, back, \* output_queue_front, output_queue_back
  free_sema, out_sema, tap_sema,
  tpc, tbuf,   \* the reader thread: position and buffer
  mpc, mbuf,   \* the main loop: position and buffer
  registered,  \* tap_semaphore is one of the main loop's wait objects
  read,        \* frames the driver has delivered
  sent,        \* frames passed to qemu_send_packet, in order
  mret,        \* where the main loop goes on after writing
  wkind,       \* what it writes: a packet sent "plain", by "iov", or a queued one
  write,       \* the overlapped write: "none", "pending" or "done"
  wevent,      \* write_event
  disabled,    \* nc.receive_disabled
  packets,     \* packets the guest has sent
  queued       \* packets waiting in the queue in front of the back end

listVars == <<next, free_list, front, back>>
semaVars == <<free_sema, out_sema, tap_sema>>
writeVars == <<mret, wkind, write, wevent, disabled, packets, queued>>
vars == <<listVars, frame, semaVars, tpc, tbuf, mpc, mbuf, registered, read, sent,
          writeVars>>

Count == Cardinality(Buffers)

\* ReleaseSemaphore: has no effect at the maximum count, TUN_MAX_BUFFER_COUNT.
Released(sema) == IF sema < Count THEN sema + 1 ELSE sema

\* tap_win32_overlapped_init; the thread is created at the end of tap_win32_open.
Init ==
  /\ LET order == SetToSeq(Buffers)
         index(b) == CHOOSE i \in 1 .. Count : order[i] = b
     IN  /\ next = [b \in Buffers |-> IF index(b) = 1 THEN NULL ELSE order[index(b) - 1]]
         /\ free_list = order[Count]
  /\ front = NULL /\ back = NULL
  /\ frame = [b \in Buffers |-> 0]
  /\ free_sema = Count /\ out_sema = 0 /\ tap_sema = 0
  /\ tpc = "get" /\ tbuf = NULL
  /\ mpc = "idle" /\ mbuf = NULL
  /\ registered = TRUE
  /\ read = 0 /\ sent = << >>
  /\ mret = "idle" /\ wkind = "plain"
  /\ write = "none" /\ wevent = FALSE
  /\ disabled = FALSE /\ packets = 0 /\ queued = 0

----------------------------------------------------------------------------
(* The reader thread, tap_win32_thread_entry.                              *)

TGo(from, to) == tpc = from /\ tpc' = to

threadOnly == <<mpc, mbuf, registered, sent, writeVars>>

\* get_buffer_from_free_list: wait, then unlink the first buffer.
FreeWait ==
  /\ TGo("get", "take")
  /\ free_sema > 0
  /\ free_sema' = free_sema - 1
  /\ UNCHANGED <<listVars, frame, out_sema, tap_sema, tbuf, read, threadOnly>>

FreeTake ==
  /\ TGo("take", "read")
  /\ tbuf' = free_list
  /\ free_list' = next[free_list]
  /\ next' = [next EXCEPT ![free_list] = NULL]
  /\ UNCHANGED <<front, back, frame, semaVars, read, threadOnly>>

\* ReadFile completes at once or after a wait; an error leaves read_size 0 and
\* the loop tries again.
ReadFile ==
  /\ TGo("read", "put")
  /\ read < MaxFrames
  /\ read' = read + 1
  /\ frame' = [frame EXCEPT ![tbuf] = read + 1]
  /\ UNCHANGED <<listVars, semaVars, tbuf, threadOnly>>

\* Mutant: the buffer goes to the front of the queue.
OutPutFirst ==
  /\ TGo("put", "release_out")
  /\ front' = tbuf
  /\ next' = [next EXCEPT ![tbuf] = front]
  /\ back' = IF front = NULL THEN tbuf ELSE back
  /\ tbuf' = NULL
  /\ UNCHANGED <<free_list, frame, semaVars, read, threadOnly>>

\* put_buffer_on_output_queue: link the buffer, then count it.
OutPut ==
  /\ TGo("put", "release_out")
  /\ IF front = NULL /\ back = NULL
     THEN front' = tbuf /\ next' = next
     ELSE next' = [next EXCEPT ![tbuf] = NULL, ![back] = tbuf] /\ front' = front
  /\ back' = tbuf
  /\ tbuf' = NULL
  /\ UNCHANGED <<free_list, frame, semaVars, read, threadOnly>>

OutRelease ==
  /\ TGo("release_out", "release_tap")
  /\ out_sema' = Released(out_sema)
  /\ UNCHANGED <<listVars, frame, free_sema, tap_sema, tbuf, read, threadOnly>>

\* Mutant: the main loop is woken by an event, which does not count.
TapReleaseEvent ==
  /\ TGo("release_tap", "get")
  /\ tap_sema' = 1
  /\ UNCHANGED <<listVars, frame, free_sema, out_sema, tbuf, read, threadOnly>>

TapRelease ==
  /\ TGo("release_tap", "get")
  /\ tap_sema' = Released(tap_sema)
  /\ UNCHANGED <<listVars, frame, free_sema, out_sema, tbuf, read, threadOnly>>

tap_win32_thread_entry ==
  FreeWait \/ FreeTake \/ ReadFile \/ OutPut \/ OutRelease \/ TapRelease

----------------------------------------------------------------------------
(* The main loop: frames from the TAP device.                              *)

MGo(from, to) == mpc = from /\ mpc' = to

mainOnly == <<tpc, tbuf, read>>

\* WaitForMultipleObjects in os_host_main_loop_wait calls tap_win32_send.
MainWait ==
  /\ MGo("idle", "out_wait")
  /\ registered
  /\ tap_sema > 0
  /\ tap_sema' = tap_sema - 1
  /\ UNCHANGED <<listVars, frame, free_sema, out_sema, mbuf, registered, sent,
                 writeVars, mainOnly>>

\* get_buffer_from_output_queue with a timeout of 0: no buffer, no frame.
OutWait ==
  /\ mpc = "out_wait"
  /\ IF out_sema > 0
     THEN mpc' = "out_take" /\ out_sema' = out_sema - 1
     ELSE mpc' = "idle" /\ out_sema' = out_sema
  /\ UNCHANGED <<listVars, frame, free_sema, tap_sema, mbuf, registered, sent,
                 writeVars, mainOnly>>

\* Mutant: taking the last buffer leaves output_queue_back pointing to it.
OutTakeKeepsBack ==
  /\ MGo("out_take", "send")
  /\ mbuf' = front
  /\ front' = next[front]
  /\ UNCHANGED <<next, free_list, back, frame, semaVars, registered, sent,
                 writeVars, mainOnly>>

OutTake ==
  /\ MGo("out_take", "send")
  /\ mbuf' = front
  /\ front' = next[front]
  /\ back' = IF next[front] = NULL THEN NULL ELSE back
  /\ UNCHANGED <<next, free_list, frame, semaVars, registered, sent, writeVars,
                 mainOnly>>

\* qemu_send_packet: the NIC takes the frame, and the VLAN's queue then tries the
\* packets it holds for the TAP device; or the NIC refuses it and it is queued.
Send ==
  /\ mpc = "send"
  /\ mpc' \in {"flush", "free_put"}
  /\ sent' = Append(sent, frame[mbuf])
  /\ mret' = "free_put"
  /\ UNCHANGED <<listVars, frame, semaVars, mbuf, registered, wkind, write, wevent,
                 disabled, packets, queued, mainOnly>>

\* tap_win32_free_buffer: put_buffer_on_free_list
FreePut ==
  /\ MGo("free_put", "free_release")
  /\ next' = [next EXCEPT ![mbuf] = free_list]
  /\ free_list' = mbuf
  /\ mbuf' = NULL
  /\ UNCHANGED <<front, back, frame, semaVars, registered, sent, writeVars, mainOnly>>

FreeRelease ==
  /\ MGo("free_release", "idle")
  /\ free_sema' = Released(free_sema)
  /\ UNCHANGED <<listVars, frame, out_sema, tap_sema, mbuf, registered, sent,
                 writeVars, mainOnly>>

\* tap_cleanup only stops listening: the thread reads on until it has no buffer.
tap_cleanup ==
  /\ mpc = "idle" /\ registered
  /\ registered' = FALSE
  /\ UNCHANGED <<listVars, frame, semaVars, mpc, mbuf, sent, writeVars, mainOnly>>

----------------------------------------------------------------------------
(* The main loop: packets to the TAP device.                               *)

writeOnly == <<listVars, frame, semaVars, mbuf, registered, sent, mainOnly>>

\* The guest sends a packet.  qemu_vlan_deliver_packet does not call a client that
\* refused one; the iov variant calls it all the same.
Deliver ==
  /\ mpc = "idle" /\ registered
  /\ packets < MaxPackets
  /\ packets' = packets + 1
  /\ mret' = "idle"
  /\ \E kind \in {"plain", "iov"} :
       /\ wkind' = kind
       /\ IF kind = "plain" /\ disabled
          THEN queued' = queued + 1 /\ mpc' = "idle"
          ELSE mpc' = "w_test" /\ queued' = queued
  /\ UNCHANGED <<write, wevent, disabled, writeOnly>>

\* qemu_net_queue_flush: take the first packet and deliver it, until the queue is
\* empty or the packet is refused.
Flush ==
  /\ mpc = "flush"
  /\ IF queued = 0 \/ disabled \/ ~registered
     THEN mpc' = mret /\ UNCHANGED <<queued, wkind>>
     ELSE mpc' = "w_test" /\ queued' = queued - 1 /\ wkind' = "queued"
  /\ UNCHANGED <<mret, write, wevent, disabled, packets, writeOnly>>

\* tap_win32_write: is the previous write still in progress?
WriteTest ==
  /\ mpc = "w_test"
  /\ mpc' = IF write = "pending" THEN "w_wait" ELSE "w_file"
  /\ UNCHANGED <<writeVars, writeOnly>>

WriteWait ==
  /\ MGo("w_wait", "w_file")
  /\ wevent
  /\ wevent' = FALSE
  /\ UNCHANGED <<mret, wkind, write, disabled, packets, queued, writeOnly>>

\* WriteFile done at once (write_size) or failed (-1): both count as delivered.
WriteFileEnds ==
  /\ MGo("w_file", "flush")
  /\ write' \in {"none", "done"}
  /\ wevent' = (write' = "done")
  /\ UNCHANGED <<mret, wkind, disabled, packets, queued, writeOnly>>

\* ERROR_IO_PENDING with TUN_ASYNCHRONOUS_WRITES: write_size is 0, which the queue
\* takes for a refusal; only the plain delivery marks the client.
WriteFilePending ==
  /\ mpc = "w_file" /\ mpc' = mret
  /\ write' = "pending"
  /\ wevent' = FALSE
  /\ queued' = queued + 1
  /\ disabled' = (disabled \/ wkind # "iov")
  /\ UNCHANGED <<mret, wkind, packets, writeOnly>>

\* The driver completes the overlapped write.
WriteDone ==
  /\ write = "pending"
  /\ write' = "done"
  /\ wevent' = TRUE
  /\ UNCHANGED <<mpc, mret, wkind, disabled, packets, queued, writeOnly>>

----------------------------------------------------------------------------
tap_win32_send == MainWait \/ OutWait \/ OutTake \/ Send \/ FreePut \/ FreeRelease

tap_win32_write == WriteTest \/ WriteWait \/ WriteFileEnds \/ WriteFilePending

Next ==
  \/ tap_win32_thread_entry \/ tap_win32_send \/ tap_cleanup
  \/ Deliver \/ Flush \/ tap_win32_write \/ WriteDone

Spec == Init /\ [][Next]_vars

\* Both threads run, and the driver completes what it has accepted.
FairSpec ==
  /\ Spec
  /\ WF_vars(tap_win32_thread_entry)
  /\ WF_vars(tap_win32_send)
  /\ WF_vars(Flush \/ tap_win32_write)
  /\ WF_vars(WriteDone)

----------------------------------------------------------------------------
(* Properties.                                                             *)

TypeOK ==
  /\ next \in [Buffers -> Buffers \cup {NULL}]
  /\ frame \in [Buffers -> 0 .. MaxFrames]
  /\ {free_list, front, back, tbuf, mbuf} \subseteq Buffers \cup {NULL}
  /\ free_sema \in 0 .. Count /\ out_sema \in 0 .. Count /\ tap_sema \in 0 .. Count
  /\ tpc \in {"get", "take", "read", "put", "release_out", "release_tap"}
  /\ mpc \in {"idle", "out_wait", "out_take", "send", "flush", "free_put",
              "free_release", "w_test", "w_wait", "w_file"}
  /\ mret \in {"idle", "free_put"}
  /\ wkind \in {"plain", "iov", "queued"}
  /\ write \in {"none", "pending", "done"}
  /\ registered \in BOOLEAN /\ wevent \in BOOLEAN /\ disabled \in BOOLEAN
  /\ read \in 0 .. MaxFrames /\ sent \in Seq(1 .. MaxFrames)
  /\ packets \in 0 .. MaxPackets /\ queued \in 0 .. packets

\* The buffers on the chain from b under the links nx: at most Count of them.
Walk(nx) ==
  LET walk[k \in 0 .. Count] ==
        [c \in Buffers \cup {NULL} |->
           IF k = 0 \/ c = NULL THEN << >> ELSE <<c>> \o walk[k - 1][nx[c]]]
  IN  walk

ChainOf(nx, b) == Walk(nx)[Count][b]
Chain(b) == ChainOf(next, b)

HeldBy(b) == IF b = NULL THEN << >> ELSE <<b>>

\* A buffer is always in exactly one place: on the free list, on the output queue,
\* with the reader thread or with the main loop; and the output queue's back is the
\* last buffer of its chain (so that an append is never lost, and a filled buffer
\* never overwritten before it is sent).
BuffersConserved ==
  LET places == Chain(free_list) \o Chain(front) \o HeldBy(tbuf) \o HeldBy(mbuf)
  IN  /\ Len(places) = Count
      /\ ToSet(places) = Buffers
      /\ (front = NULL) = (back = NULL)
      /\ front # NULL => Last(Chain(front)) = back

In(pc, at) == IF pc \in at THEN 1 ELSE 0

\* Each semaphore agrees with its list, except for a step a thread still owes: hence
\* a list is never empty after its wait (the assertion that is commented out in
\* get_buffer_from_free_list, and the same of the output queue), no ReleaseSemaphore
\* is lost at the maximum, and the main loop is woken once for every frame.
SemaphoresExact ==
  /\ Len(Chain(free_list)) = free_sema + In(tpc, {"take"}) + In(mpc, {"free_release"})
  /\ Len(Chain(front)) = out_sema + In(mpc, {"out_take"}) + In(tpc, {"release_out"})
  /\ tap_sema + In(mpc, {"out_wait"}) + In(tpc, {"release_tap"}) = out_sema

\* The two lists and their semaphores stay sound under both threads
\* (get_buffer_from_free_list, put_buffer_on_output_queue and their counterparts).
ListsSound == TypeOK /\ BuffersConserved /\ SemaphoresExact

\* The frames reach the guest in the order the driver delivered them, none lost,
\* none twice.
FramesInOrder ==
  /\ \A i \in 1 .. Len(sent) : sent[i] = i
  /\ [i \in 1 .. Len(Chain(front)) |-> frame[Chain(front)[i]]]
       = [i \in 1 .. Len(Chain(front)) |-> Len(sent) + In(mpc, {"send"}) + i]

\* While the back end is registered, every frame read is passed on.
FramesSent == [](\A n \in 1 .. MaxFrames : read >= n => <>(Len(sent) >= n \/ ~registered))

\* net/queue.c: a client that returns 0 from its receive handler "will call
\* qemu_net_queue_flush() when it determines that it is once again able to deliver
\* packets".
RefusalEnds == disabled ~> (~disabled \/ ~registered)
=============================================================================

----------------------------- MODULE Migration -----------------------------
(***************************************************************************)
(* Outgoing live migration over TCP: migration.c and migration-tcp.c drive *)
(* it, savevm.c produces the stream, arch_init.c copies the dirty pages,   *)
(* and buffered_file.c holds back what the socket or the rate limit does   *)
(* not take.                                                               *)
(*                                                                         *)
(* All of it runs in the main thread, which is `pc': "idle" between two    *)
(* handlers, else the place inside one.  `call' is the place inside        *)
(* buffered_put_buffer ("put") or buffered_flush ("flush"), which any      *)
(* handler may have called.  Between two sends the peer may read and the   *)
(* connection may break; the guest runs only while pc = "idle" (one thread *)
(* runs it and the main loop).                                             *)
(*                                                                         *)
(* The stream is abstracted to one unit for each page copied, <<p, v>>     *)
(* with v the page's contents, and one unit EOF for everything that        *)
(* qemu_savevm_state_complete writes after the pages: device sections and  *)
(* QEMU_VM_EOF.  Section headers are left out, and so is block migration.  *)
(*                                                                         *)
(* The operator is assumed not to continue the guest, and not to migrate   *)
(* it again, once query-migrate says "completed".                          *)
(***************************************************************************)
EXTENDS Integers, Sequences, FiniteSets

CONSTANTS
  EOF,            \* the unit after the pages
  NPages,         \* guest pages
  IoBuf,          \* IO_BUF_SIZE of QEMUFile, in units
  SockBuf,        \* units the socket and the network hold
  Rates,          \* the values migrate_set_speed gives xfer_limit
  Builds,         \* the builds checked: TRUE for POSIX, FALSE for Windows
  MaxWrites,      \* bound on the guest's writes
  MaxMigrations,  \* bound on migrate commands
  MaxFailures     \* bound on broken connections

ASSUME MigrationAssumption ==
  /\ NPages \in Nat \ {0} /\ IoBuf \in Nat \ {0} /\ SockBuf \in Nat \ {0}
  /\ Rates \subseteq Nat /\ Rates # {} /\ IsFiniteSet(Rates)
  /\ Builds \subseteq BOOLEAN /\ Builds # {}
  /\ MaxWrites \in Nat /\ MaxMigrations \in Nat /\ MaxFailures \in Nat
  /\ EOF \notin (0..(NPages - 1)) \X (0..MaxWrites)

VARIABLES
  mem, dirty, last,  \* guest RAM, MIGRATION_DIRTY_FLAG, last_offset
  nwrites,           \* writes of the guest so far
  vm,                \* vm_running
  want,              \* the state the operator asked for with stop and cont
  old,               \* old_vm_running of migrate_fd_put_ready
  mig,               \* the FdMigrationState of current_migration; limit is
                     \* its bandwidth_limit, as an xfer_limit
  qf,                \* its QEMUFile: buf and has_error
  bf,                \* its QEMUFileBuffered
  orphan,            \* a QEMUFileBuffered whose FdMigrationState was freed
  pc, call, arg,     \* the main thread; arg is what "put" has left to put
  why,               \* who called migrate_fd_cleanup
  verdict,           \* the local `state' of migrate_fd_put_ready
  suspended,         \* suspend_cnt of the user's monitor
  throttle,          \* max_throttle, as an xfer_limit
  wire,              \* the connection: units under way, closed, down
  dst,               \* the destination: its RAM and whether it runs
  posix,             \* the build: see Builds
  accepted,          \* the socket took EOF
  senderr,           \* some send failed, in any migration
  nmig, nfail        \* migrations started, connections broken

guest == <<mem, dirty, last, nwrites>>
run == <<vm, want, old>>
file == <<qf, bf>>
thread == <<pc, call, arg, why, verdict>>
peer == <<wire, dst, accepted>>
history == <<senderr, nmig, nfail>>
vars == <<guest, run, mig, file, orphan, thread, suspended, throttle, peer,
          posix, history>>

Pages == 0..(NPages - 1)
Unit == (Pages \X (0..MaxWrites)) \cup {EOF}
MaxRate == CHOOSE r \in Rates : \A s \in Rates : s <= r
Least(a, b) == IF a < b THEN a ELSE b

NoFile == [live |-> FALSE, err |-> FALSE, frozen |-> FALSE, xfer |-> 0,
           limit |-> 0, buf |-> <<>>]
NewPeer == [ram |-> [p \in Pages |-> -1], status |-> "loading"]
Connection == [q |-> <<>>, closed |-> FALSE, down |-> FALSE]

-----------------------------------------------------------------------------
\* The current migration of a fresh process: none.
Init ==
  /\ mem = [p \in Pages |-> 0] /\ dirty = {} /\ last = 0 /\ nwrites = 0
  /\ vm = TRUE /\ want = TRUE /\ old = FALSE
  /\ mig = [state |-> "none", handler |-> "none", file |-> "null",
            mon |-> FALSE, limit |-> 0]
  /\ qf = [buf |-> <<>>, err |-> FALSE] /\ bf = NoFile /\ orphan = FALSE
  /\ pc = "idle" /\ call = "none" /\ arg = <<>>
  /\ why = "none" /\ verdict = "none"
  /\ suspended = 0 /\ throttle \in Rates
  /\ wire = Connection /\ dst = NewPeer
  /\ posix \in Builds /\ accepted = FALSE
  /\ senderr = FALSE /\ nmig = 0 /\ nfail = 0

Idle == pc = "idle"
\* Inside a handler, not inside a call into buffered_file.c.
At(p) == pc = p /\ call = "none"

-----------------------------------------------------------------------------
(* Sending: migrate_fd_put_buffer and the two loops of buffered_file.c.    *)

\* A full socket is EAGAIN on POSIX.  On Windows send gives WSAEWOULDBLOCK,
\* which is not EAGAIN and so an error like any other.
Room == SockBuf - Len(wire.q)
SendFails == wire.down \/ (Room = 0 /\ ~posix)
SendBlocks == ~wire.down /\ Room = 0 /\ posix

\* The socket takes as many of the units as it has room for.
Sends(data, n) ==
  /\ ~wire.down /\ Room > 0 /\ data # <<>>
  /\ n = Least(Room, Len(data))
  /\ wire' = [wire EXCEPT !.q = @ \o SubSeq(data, 1, n)]
  /\ accepted' = (accepted \/ \E i \in 1..n : data[i] = EOF)
Rest(data, n) == SubSeq(data, n + 1, Len(data))

\* Mutant: no handler is registered.
PutAgainForgets == mig' = mig

\* -EAGAIN: wait for the descriptor to become writable.
PutAgain == mig' = [mig EXCEPT !.handler = "notify"]

\* Any other error ends the migration at once, its file still open.
PutError ==
  /\ mig' = [mig EXCEPT !.state = "error"]
  /\ suspended' = IF mig.mon THEN suspended - 1 ELSE suspended
  /\ senderr' = TRUE

\* buffered_flush has sent all it could.
FlushReturns == call' = IF arg = <<>> THEN "none" ELSE "put"

buffered_flush ==
  /\ call = "flush"
  /\ \/ /\ bf.buf = <<>>
        /\ FlushReturns
        /\ UNCHANGED <<mig, bf, wire, accepted, suspended, senderr>>
     \/ \E n \in 1..SockBuf :
          /\ Sends(bf.buf, n)
          /\ bf' = [bf EXCEPT !.buf = Rest(@, n)]
          /\ UNCHANGED <<call, mig, suspended, senderr>>
     \/ /\ bf.buf # <<>> /\ SendBlocks
        /\ PutAgain
        /\ bf' = [bf EXCEPT !.frozen = TRUE]
        /\ FlushReturns
        /\ UNCHANGED <<wire, accepted, suspended, senderr>>
     \/ /\ bf.buf # <<>> /\ SendFails
        /\ PutError
        /\ bf' = [bf EXCEPT !.err = TRUE]
        /\ FlushReturns
        /\ UNCHANGED <<wire, accepted>>
  /\ UNCHANGED <<guest, run, qf, orphan, pc, arg, why, verdict, throttle, dst,
                 posix, nmig, nfail>>

\* What was not put is kept in the buffer.
Append_ == bf' = [bf EXCEPT !.buf = @ \o arg]
AppendFrozen == bf' = [bf EXCEPT !.buf = @ \o arg, !.frozen = TRUE]

\* The loop of buffered_put_buffer after its flush, which also goes on when
\* the flush failed.  xfer is bytes_xfer, counted to one past the limit.
PutReturns == arg' = <<>> /\ call' = "none"

buffered_put_buffer ==
  /\ call = "put"
  /\ \/ /\ bf.frozen \/ bf.xfer > bf.limit
        /\ Append_
        /\ PutReturns
        /\ UNCHANGED <<mig, qf, wire, accepted, suspended, senderr>>
     \/ /\ ~bf.frozen /\ bf.xfer <= bf.limit
        /\ \/ \E n \in 1..SockBuf :
                /\ Sends(arg, n)
                /\ arg' = Rest(arg, n)
                /\ bf' = [bf EXCEPT !.xfer = Least(@ + n, MaxRate + 1)]
                /\ call' = IF arg' = <<>> THEN "none" ELSE "put"
                /\ UNCHANGED <<mig, qf, suspended, senderr>>
           \/ /\ SendBlocks
              /\ PutAgain
              /\ AppendFrozen
              /\ PutReturns
              /\ UNCHANGED <<qf, wire, accepted, suspended, senderr>>
           \/ /\ SendFails
              /\ PutError
              /\ bf' = [bf EXCEPT !.err = TRUE]
              /\ qf' = [qf EXCEPT !.err = TRUE]
              /\ PutReturns
              /\ UNCHANGED <<wire, accepted>>
  /\ UNCHANGED <<guest, run, orphan, pc, why, verdict, throttle, dst, posix,
                 nmig, nfail>>

\* qemu_fflush of the units q: buffered_put_buffer unfreezes and flushes
\* first, and refuses a file with an error.
qemu_fflush(q) ==
  IF q = <<>> \/ bf.err
    THEN /\ qf' = [buf |-> <<>>, err |-> qf.err \/ q # <<>>]
         /\ UNCHANGED <<bf, call, arg>>
    ELSE /\ qf' = [qf EXCEPT !.buf = <<>>]
         /\ bf' = [bf EXCEPT !.frozen = FALSE]
         /\ call' = "flush" /\ arg' = q

\* qemu_put_buffer: nothing is kept after an error, a full buffer is flushed.
qemu_put_buffer(u) ==
  LET q == Append(qf.buf, u)
  IN IF ~qf.err /\ Len(q) < IoBuf
       THEN qf' = [qf EXCEPT !.buf = q] /\ UNCHANGED <<bf, call, arg>>
       ELSE qemu_fflush(IF qf.err THEN <<>> ELSE q)

-----------------------------------------------------------------------------
(* Copying pages: savevm.c and arch_init.c.                                *)

buffered_rate_limit == ~bf.err /\ (bf.frozen \/ bf.xfer > bf.limit)

\* The dirty page ram_save_block finds first, searching round from last.
NextDirty == CHOOSE p \in dirty :
               \A q \in dirty : (p - last) % NPages <= (q - last) % NPages

\* One ram_save_block; the last stage does not obey the rate limit.
ram_save_block ==
  /\ At("begin") \/ At("iterate") \/ At("complete")
  /\ pc = "complete" \/ ~buffered_rate_limit
  /\ dirty # {}
  /\ dirty' = dirty \ {NextDirty} /\ last' = NextDirty
  /\ qemu_put_buffer(<<NextDirty, mem[NextDirty]>>)
  /\ UNCHANGED <<mem, nwrites, run, mig, orphan, pc, why, verdict, suspended,
                 throttle, peer, posix, history>>

LoopEnds == dirty = {} \/ buffered_rate_limit

\* Where migrate_fd_put_ready begins: only an active migration goes on.
PutReady == IF mig.state = "active" THEN "iterate" ELSE "idle"

\* The end of migrate_fd_connect: a file with an error ends in
\* migrate_fd_error, which cleans up.
BeginEnds ==
  /\ At("begin") /\ LoopEnds
  /\ \/ /\ qf.err
        /\ mig' = [mig EXCEPT !.state = "error", !.handler = "none"]
        /\ pc' = "fclose" /\ why' = "error"
     \/ /\ ~qf.err
        /\ pc' = PutReady
        /\ UNCHANGED <<mig, why>>
  /\ UNCHANGED <<guest, run, file, orphan, call, arg, verdict, suspended,
                 throttle, peer, posix, history>>

\* The guest or a device's DMA writes the pages W.
Writes(W) ==
  /\ nwrites + Cardinality(W) <= MaxWrites
  /\ nwrites' = nwrites + Cardinality(W)
  /\ mem' = [p \in Pages |-> IF p \in W THEN mem[p] + 1 ELSE mem[p]]
  /\ dirty' = dirty \cup W
  /\ UNCHANGED last

\* The end of qemu_savevm_state_iterate: with pages left, whether they fit
\* in max_downtime depends on the bandwidth measured.  If so the guest is
\* stopped, which completes the DMA still under way.
IterateEnds ==
  /\ At("iterate") /\ LoopEnds
  /\ \/ /\ \E W \in SUBSET Pages : (vm \/ W = {}) /\ Writes(W)
        /\ old' = vm /\ vm' = FALSE
        /\ pc' = "complete"
        /\ UNCHANGED want
     \/ /\ dirty # {}
        /\ pc' = "idle"
        /\ UNCHANGED <<guest, run>>
  /\ UNCHANGED <<mig, file, orphan, call, arg, why, verdict, suspended,
                 throttle, peer, posix, history>>

\* Mutant: the last stage obeys the rate limit.
CompleteEndsLimited ==
  /\ At("complete") /\ LoopEnds
  /\ qemu_put_buffer(EOF)
  /\ pc' = "verdict"
  /\ UNCHANGED <<guest, run, mig, orphan, why, verdict, suspended, throttle,
                 peer, posix, history>>

\* The device sections and the end mark, once no page is left.
CompleteEnds ==
  /\ At("complete") /\ dirty = {}
  /\ qemu_put_buffer(EOF)
  /\ pc' = "verdict"
  /\ UNCHANGED <<guest, run, mig, orphan, why, verdict, suspended, throttle,
                 peer, posix, history>>

\* Mutant: the guest is not restarted after an error.
VerdictNoRestart ==
  /\ At("verdict")
  /\ verdict' = IF qf.err THEN "error" ELSE "completed"
  /\ mig' = [mig EXCEPT !.handler = "none"]
  /\ pc' = "fclose" /\ why' = "ready"
  /\ UNCHANGED <<guest, run, file, orphan, call, arg, suspended, throttle,
                 peer, posix, history>>

\* migrate_fd_put_ready after qemu_savevm_state_complete: an error restarts
\* the guest.  Then migrate_fd_cleanup.
Verdict ==
  /\ At("verdict")
  /\ verdict' = IF qf.err THEN "error" ELSE "completed"
  /\ vm' = (vm \/ (qf.err /\ old))
  /\ mig' = [mig EXCEPT !.handler = "none"]
  /\ pc' = "fclose" /\ why' = "ready"
  /\ UNCHANGED <<guest, want, old, file, orphan, call, arg, suspended,
                 throttle, peer, posix, history>>

-----------------------------------------------------------------------------
(* Closing: qemu_fclose, buffered_close and the rest of the cleanup.       *)

\* close(fd) of a socket; on Windows it is _close, which knows no sockets.
CloseSocket == wire' = [wire EXCEPT !.closed = posix]

\* Mutant: the file is closed without qemu_fflush.
FcloseNoFlush ==
  /\ At("fclose")
  /\ pc' = "close"
  /\ UNCHANGED <<guest, run, mig, file, orphan, call, arg, why, verdict,
                 suspended, throttle, peer, posix, history>>

Fclose ==
  /\ At("fclose")
  /\ qemu_fflush(qf.buf)
  /\ pc' = "close"
  /\ UNCHANGED <<guest, run, mig, orphan, why, verdict, suspended, throttle,
                 peer, posix, history>>

\* The loop of buffered_close.  wait_for_unfreeze is given the wrong pointer
\* and is taken to return at once, so the loop polls the socket.
CloseFlushes ==
  /\ At("close") /\ ~bf.err /\ bf.buf # <<>>
  /\ call' = "flush"
  /\ UNCHANGED <<guest, run, mig, file, orphan, pc, arg, why, verdict,
                 suspended, throttle, peer, posix, history>>

\* Mutant: the descriptor's handler is left registered.
CloseDoneKeepsHandler ==
  /\ At("close") /\ (bf.err \/ bf.buf = <<>>)
  /\ CloseSocket
  /\ bf' = NoFile
  /\ mig' = [mig EXCEPT !.file = "null",
                        !.state = IF why = "ready" THEN verdict ELSE @]
  /\ suspended' = IF mig.mon THEN suspended - 1 ELSE suspended
  /\ pc' = "idle" /\ why' = "none" /\ verdict' = "none"
  /\ UNCHANGED <<guest, run, qf, orphan, call, arg, throttle, dst, accepted,
                 posix, history>>

\* tcp_close has no error to report, so qemu_fclose returns 0 and
\* migrate_fd_put_ready stores the verdict it had before.
CloseDone ==
  /\ At("close") /\ (bf.err \/ bf.buf = <<>>)
  /\ CloseSocket
  /\ bf' = NoFile
  /\ mig' = [mig EXCEPT !.handler = "none", !.file = "null",
                        !.state = IF why = "ready" THEN verdict ELSE @]
  /\ suspended' = IF mig.mon THEN suspended - 1 ELSE suspended
  /\ pc' = "idle" /\ why' = "none" /\ verdict' = "none"
  /\ UNCHANGED <<guest, run, qf, orphan, call, arg, throttle, dst, accepted,
                 posix, history>>

-----------------------------------------------------------------------------
(* The handlers of the main loop.                                          *)

\* The start of migrate_fd_connect: it opens the file, with the rate limit
\* that migrate saved, and begins with every page dirty.
migrate_fd_connect(limit) ==
  /\ qf' = [buf |-> <<>>, err |-> FALSE]
  /\ bf' = [NoFile EXCEPT !.live = TRUE, !.limit = limit]
  /\ dirty' = Pages /\ last' = 0
  /\ pc' = "begin"

\* The connection attempt ended; a failure is migrate_fd_error, with no file.
tcp_wait_for_connect ==
  /\ Idle /\ mig.handler = "connect"
  /\ \/ /\ mig' = [mig EXCEPT !.handler = "none", !.file = "open"]
        /\ migrate_fd_connect(mig.limit)
        /\ UNCHANGED <<suspended, wire>>
     \/ /\ mig' = [mig EXCEPT !.handler = "none", !.state = "error"]
        /\ suspended' = IF mig.mon THEN suspended - 1 ELSE suspended
        /\ CloseSocket
        /\ UNCHANGED <<file, dirty, last, pc>>
  /\ UNCHANGED <<mem, nwrites, run, orphan, call, arg, why, verdict, throttle,
                 dst, accepted, posix, history>>

\* The socket is writable again: buffered_put_buffer(NULL, 0, 0).
migrate_fd_put_notify ==
  /\ Idle /\ mig.handler = "notify"
  /\ wire.down \/ wire.closed \/ Room > 0
  /\ mig' = [mig EXCEPT !.handler = "none"]
  /\ \/ /\ mig.file = "open" /\ ~bf.err
        /\ bf' = [bf EXCEPT !.frozen = FALSE]
        /\ call' = "flush"
        /\ pc' = "notified"
     \/ /\ mig.file = "open" /\ bf.err
        /\ UNCHANGED <<bf, call, pc>>
     \/ /\ mig.file # "open"
        /\ pc' = "undefined"
        /\ UNCHANGED <<bf, call>>
  /\ UNCHANGED <<guest, run, qf, orphan, arg, why, verdict, suspended,
                 throttle, peer, posix, history>>

Notified ==
  /\ At("notified")
  /\ pc' = IF bf.xfer <= bf.limit THEN PutReady ELSE "idle"
  /\ UNCHANGED <<guest, run, mig, file, orphan, call, arg, why, verdict,
                 suspended, throttle, peer, posix, history>>

\* The 100 ms timer.  A frozen file waits for migrate_fd_put_notify; a file
\* with an error is closed here, behind the back of FdMigrationState, whose
\* `file' is left pointing to it.
buffered_rate_tick ==
  /\ Idle /\ bf.live
  /\ \/ /\ bf.err
        /\ bf' = NoFile
        /\ mig' = [mig EXCEPT !.handler = "none", !.file = "stale"]
        /\ CloseSocket
        /\ UNCHANGED <<call, pc>>
     \/ /\ ~bf.err /\ ~bf.frozen
        /\ bf' = [bf EXCEPT !.xfer = 0]
        /\ call' = "flush" /\ pc' = "ticked"
        /\ UNCHANGED <<mig, wire>>
  /\ UNCHANGED <<guest, run, qf, orphan, arg, why, verdict, suspended,
                 throttle, dst, accepted, posix, history>>

Ticked ==
  /\ At("ticked")
  /\ pc' = PutReady
  /\ UNCHANGED <<guest, run, mig, file, orphan, call, arg, why, verdict,
                 suspended, throttle, peer, posix, history>>

\* The timer of a file whose FdMigrationState a later migrate released:
\* migrate_fd_close uses the freed object.
OrphanTick ==
  /\ Idle /\ orphan
  /\ pc' = "undefined"
  /\ UNCHANGED <<guest, run, mig, file, orphan, call, arg, why, verdict,
                 suspended, throttle, peer, posix, history>>

-----------------------------------------------------------------------------
(* The commands.  A user's monitor that is suspended accepts none; another *)
(* monitor (QMP) can give them at any time, and is never suspended.        *)

\* migrate, from the user's monitor without -d (sync) or otherwise.  connect
\* goes on in the background, succeeds at once or fails at once.
do_migrate(sync) ==
  /\ Idle /\ mig.state \notin {"active", "completed"} /\ nmig < MaxMigrations
  /\ sync => suspended = 0
  /\ nmig' = nmig + 1
  /\ orphan' = (orphan \/ bf.live)
  /\ wire' = Connection /\ dst' = NewPeer
  /\ \/ /\ mig' = [state |-> "active", handler |-> "connect",
                   file |-> "null", mon |-> sync, limit |-> throttle]
        /\ suspended' = IF sync THEN suspended + 1 ELSE suspended
        /\ qf' = [buf |-> <<>>, err |-> FALSE] /\ bf' = NoFile
        /\ UNCHANGED <<dirty, last, pc>>
     \/ /\ mig' = [state |-> "active", handler |-> "none",
                   file |-> "open", mon |-> sync, limit |-> throttle]
        /\ suspended' = IF sync THEN suspended + 1 ELSE suspended
        /\ migrate_fd_connect(throttle)
     \/ /\ mig' = [state |-> "error", handler |-> "none",
                   file |-> "null", mon |-> sync, limit |-> throttle]
        /\ qf' = [buf |-> <<>>, err |-> FALSE] /\ bf' = NoFile
        /\ UNCHANGED <<suspended, dirty, last, pc>>
  /\ UNCHANGED <<mem, nwrites, run, call, arg, why, verdict, throttle,
                 accepted, posix, senderr, nfail>>

\* migrate_cancel: with a file open all that is buffered is sent first.
do_migrate_cancel ==
  /\ Idle /\ mig.state = "active"
  /\ mig' = [mig EXCEPT !.state = "cancelled", !.handler = "none"]
  /\ \/ /\ mig.file = "open"
        /\ pc' = "fclose" /\ why' = "cancel"
        /\ UNCHANGED <<suspended, wire>>
     \/ /\ mig.file = "null"
        /\ suspended' = IF mig.mon THEN suspended - 1 ELSE suspended
        /\ CloseSocket
        /\ UNCHANGED <<pc, why>>
  /\ UNCHANGED <<guest, run, file, orphan, call, arg, verdict, throttle, dst,
                 accepted, posix, history>>

\* migrate_set_speed; buffered_set_rate_limit ignores a file with an error.
do_migrate_set_speed(r) ==
  /\ Idle /\ r # throttle
  /\ throttle' = r
  /\ bf' = IF mig.file = "open" /\ ~bf.err
             THEN [bf EXCEPT !.limit = r] ELSE bf
  /\ pc' = IF mig.file = "stale" THEN "undefined" ELSE pc
  /\ UNCHANGED <<guest, run, mig, qf, orphan, call, arg, why, verdict,
                 suspended, peer, posix, history>>

\* stop and cont.
StopCont ==
  /\ Idle /\ mig.state # "completed"
  /\ want' = ~want /\ vm' = ~want
  /\ UNCHANGED <<guest, old, mig, file, orphan, thread, suspended, throttle,
                 peer, posix, history>>

-----------------------------------------------------------------------------
(* The surroundings: the guest, the network and the destination.           *)

GuestWrite ==
  /\ Idle /\ vm
  /\ \E p \in Pages : Writes({p})
  /\ UNCHANGED <<run, mig, file, orphan, thread, suspended, throttle, peer,
                 posix, history>>

\* The connection breaks, and what is under way is lost.
NetFail ==
  /\ pc # "undefined" /\ nfail < MaxFailures
  /\ mig.file = "open" /\ ~wire.down
  /\ wire' = [wire EXCEPT !.q = <<>>, !.down = TRUE]
  /\ nfail' = nfail + 1
  /\ UNCHANGED <<guest, run, mig, file, orphan, thread, suspended, throttle,
                 dst, accepted, posix, senderr, nmig>>

\* process_incoming_migration: ram_load stores a page, the end of the stream
\* starts the guest, and an early end of file makes the process exit.
Receive ==
  /\ pc # "undefined" /\ dst.status = "loading"
  /\ \/ /\ wire.q # <<>>
        /\ wire' = [wire EXCEPT !.q = Tail(@)]
        /\ dst' = IF Head(wire.q) = EOF
                    THEN [dst EXCEPT !.status = "running"]
                    ELSE [dst EXCEPT !.ram[Head(wire.q)[1]] = Head(wire.q)[2]]
     \/ /\ wire.q = <<>> /\ (wire.closed \/ wire.down)
        /\ dst' = [dst EXCEPT !.status = "exited"]
        /\ UNCHANGED wire
  /\ UNCHANGED <<guest, run, mig, file, orphan, thread, suspended, throttle,
                 accepted, posix, history>>

\* A freed object was used: nothing more is defined.
Undefined == pc = "undefined" /\ UNCHANGED vars

-----------------------------------------------------------------------------
\* What the main thread does inside a handler.
MainStep ==
  \/ buffered_flush \/ buffered_put_buffer
  \/ ram_save_block \/ BeginEnds \/ IterateEnds \/ CompleteEnds \/ Verdict
  \/ Fclose \/ CloseFlushes \/ CloseDone \/ Notified \/ Ticked

\* The handlers it starts.
Handler ==
  \/ tcp_wait_for_connect \/ migrate_fd_put_notify
  \/ buffered_rate_tick \/ OrphanTick

Command ==
  \/ \E sync \in BOOLEAN : do_migrate(sync)
  \/ do_migrate_cancel
  \/ \E r \in Rates : do_migrate_set_speed(r)
  \/ StopCont

Next == MainStep \/ Handler \/ Command \/ GuestWrite \/ NetFail \/ Receive
        \/ Undefined

Spec == Init /\ [][Next]_vars

\* The main loop runs: a handler goes on, a connection attempt ends, a
\* writable socket is noticed and a timer fires.  The destination reads.
FairSpec ==
  /\ Spec
  /\ WF_vars(MainStep)
  /\ WF_vars(tcp_wait_for_connect)
  /\ WF_vars(migrate_fd_put_notify)
  /\ WF_vars(buffered_rate_tick)
  /\ WF_vars(Receive)

-----------------------------------------------------------------------------
TypeOK ==
  /\ mem \in [Pages -> 0..MaxWrites] /\ dirty \subseteq Pages
  /\ last \in Pages /\ nwrites \in 0..MaxWrites
  /\ vm \in BOOLEAN /\ want \in BOOLEAN /\ old \in BOOLEAN
  /\ mig \in [state : {"none", "active", "completed", "error", "cancelled"},
              handler : {"none", "connect", "notify"},
              file : {"null", "open", "stale"}, mon : BOOLEAN,
              limit : Rates \cup {0}]
  /\ qf \in [buf : Seq(Unit), err : BOOLEAN] /\ Len(qf.buf) < IoBuf
  /\ bf \in [live : BOOLEAN, err : BOOLEAN, frozen : BOOLEAN,
             xfer : 0..(MaxRate + 1), limit : Rates \cup {0}, buf : Seq(Unit)]
  /\ throttle \in Rates
  /\ pc \in {"idle", "begin", "iterate", "complete", "verdict", "fclose",
             "close", "notified", "ticked", "undefined"}
  /\ call \in {"none", "flush", "put"} /\ arg \in Seq(Unit)
  /\ why \in {"none", "ready", "error", "cancel"}
  /\ verdict \in {"none", "completed", "error"}
  /\ suspended \in Int
  /\ wire \in [q : Seq(Unit), closed : BOOLEAN, down : BOOLEAN]
  /\ Len(wire.q) <= SockBuf
  /\ dst \in [ram : [Pages -> -1..MaxWrites],
              status : {"loading", "running", "exited"}]
  /\ orphan \in BOOLEAN /\ posix \in BOOLEAN /\ accepted \in BOOLEAN
  /\ senderr \in BOOLEAN

\* The guest never runs on both sides, and where it runs after the handover
\* it finds its memory as it left it: no page is sent for the last time
\* before the guest's last write to it, none is lost or overtaken in the
\* buffers, whatever the network, the rate limit and the commands do
\* (ram_save_live, buffered_put_buffer, migrate_fd_put_ready).
NoSplitBrain ==
  dst.status = "running" => ~vm /\ dst.ram = mem

\* A migration that did not complete leaves the guest as the operator wants
\* it: one that fails in its last stage restarts what it stopped, and only
\* if it ran (migrate_fd_put_ready).
GuestSurvives ==
  Idle /\ mig.state # "completed" => vm = want

\* Unless a send failed, the user's monitor is suspended exactly while his
\* synchronous migration is active (migrate_fd_monitor_suspend,
\* migrate_fd_cleanup).
MonitorReleased ==
  Idle /\ ~senderr =>
    suspended = IF mig.state = "active" /\ mig.mon THEN 1 ELSE 0

\* Unless a send failed, no callback and no command uses an object that was
\* freed: closing takes the descriptor's handler and the timer with it, also
\* when the last flush has just registered the handler again
\* (migrate_fd_close, buffered_close).
NoUseAfterFree ==
  pc = "undefined" => senderr

\* A migration that ends releases what it held: the monitor, the handler, the timer
\* (migrate_fd_cleanup, buffered_close).
Released == TypeOK /\ MonitorReleased /\ NoUseAfterFree

\* A migration reported as completed was handed to the socket in full.
CompletedMeansSent ==
  Idle /\ mig.state = "completed" => accepted

\* A migration that completes without a failed send is taken over by the
\* destination unless the connection breaks: nothing stays behind in one of
\* the two buffers (qemu_fclose, buffered_close).
HandsOver ==
  (mig.state = "completed" /\ ~senderr)
    ~> (dst.status = "running" \/ wire.down)

\* A migration ends, and with it every handler and command, as long as the
\* destination reads: no unit waits for a tick or a notification that does
\* not come (buffered_rate_tick, migrate_fd_put_buffer).
MigrationEnds ==
  (mig.state = "active" \/ pc # "idle")
    ~> ((mig.state # "active" /\ pc = "idle") \/ pc = "undefined")
=============================================================================

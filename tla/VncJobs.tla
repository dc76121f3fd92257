------------------------------ MODULE VncJobs ------------------------------
(***************************************************************************)
(* The VNC encoding thread (qemu/ui/vnc-jobs-async.c) and the part of the  *)
(* VNC server that shares state with it (qemu/ui/vnc.c).                   *)
(*                                                                         *)
(* Two threads run.  The main loop accepts and drops clients, copies the   *)
(* guest's screen to the server surface, resizes it, and queues jobs; the  *)
(* worker encodes one job at a time and appends the result to its client's *)
(* output buffer.  They share the job queue (a QemuMutex and a QemuCond,   *)
(* taken from Win32Thread), one display mutex and one output mutex per     *)
(* client.  Each step is what one thread does between two operations the   *)
(* other thread can see.                                                   *)
(*                                                                         *)
(* A job is its client and the number of its rectangles; an output buffer  *)
(* is a sequence of pieces of messages: a whole message, or the head and   *)
(* the rest of one that is written with several calls of vnc_write.  The   *)
(* pixels of the server surface are left out: the steps that change them   *)
(* are what the properties speak of.                                       *)
(***************************************************************************)
EXTENDS Integers, Sequences, FiniteSets, SequencesExt

CONSTANTS
  Clients,    \* VncState structures
  CopyRect,   \* the clients with VNC_FEATURE_COPYRECT
  Main,       \* the main loop's thread
  Worker,     \* the thread started by vnc_start_worker_thread
  None,       \* no thread
  MaxRects,   \* bound: rectangles in a job
  MaxJobs,    \* bound: queued jobs
  MaxOut      \* bound: pieces in an output buffer

ASSUME VncAssumption ==
  /\ CopyRect \subseteq Clients
  /\ Main # Worker /\ None \notin {Main, Worker}
  /\ MaxRects \in Nat \ {0} /\ MaxJobs \in Nat \ {0} /\ MaxOut \in Nat \ {0}

VARIABLES
  owner, waiters, target, sema, cont, cpc, tmp,  \* queue->mutex and queue->cond
  jobs,    \* queue->jobs
  dlock,   \* VncDisplay.mutex
  olock,   \* VncState.output_mutex of each client
  cl,      \* VncState of each client
  timer,   \* vd->timer is not NULL
  stk,     \* call stack of the main loop's thread, innermost call first
  wpc,     \* position of the worker in vnc_worker_thread_loop
  job,     \* the worker's job
  local    \* the worker's local VncState holds its client's encoding state

queueVars == <<owner, waiters, target, sema, cont, cpc, tmp>>
workerVars == <<wpc, job, local>>
mainView == <<queueVars, jobs, dlock, olock, cl, timer, workerVars>>
workerView == <<queueVars, jobs, dlock, olock, cl, timer, stk>>
vars == <<queueVars, jobs, dlock, olock, cl, timer, stk, workerVars>>

Q == INSTANCE Win32Thread WITH
       Threads <- {Main, Worker}, UseSignal <- FALSE, UseBroadcast <- TRUE

Fresh ==
  [live |-> FALSE,    \* allocated, and on vd->clients
   csock |-> FALSE,   \* csock # -1
   abort |-> FALSE, need |-> FALSE, force |-> FALSE,
   dirty |-> FALSE,   \* some bit of vs->dirty is set
   out |-> << >>]     \* vs->output

NoJob == [vs |-> None, rects |-> 0]
Live == {c \in Clients : cl[c].live}

Init ==
  /\ Q!Init
  /\ jobs = << >>
  /\ dlock = None
  /\ olock = [c \in Clients |-> None]
  /\ cl = [c \in Clients |-> Fresh]
  /\ timer = FALSE
  /\ stk = << >>
  /\ wpc = "loop"
  /\ job = NoJob
  /\ local = FALSE

----------------------------------------------------------------------------
(* Calls of the main loop's thread.  A frame holds the position in the     *)
(* function, its client, the clients its loop has not visited, and a flag. *)

Frame(p, c, todo) == [pc |-> p, c |-> c, todo |-> todo, flag |-> FALSE]

At(p) == stk # << >> /\ Head(stk).pc = p /\ cpc[Main] = "out"
Cur == Head(stk).c

MGo(p) == stk' = <<[Head(stk) EXCEPT !.pc = p]>> \o Tail(stk)
MReturn == stk' = Tail(stk)
MCall(frame, p) == stk' = <<frame, [Head(stk) EXCEPT !.pc = p]>> \o Tail(stk)

\* QTAILQ_FOREACH over the clients: body for one of them, or on to p.
MVisit(c) == c \in Head(stk).todo
MLoopEnds == Head(stk).todo = {}

MainLock(c) == olock[c] = None /\ olock' = [olock EXCEPT ![c] = Main]
MainUnlock(c) == olock' = [olock EXCEPT ![c] = None]

Append1(c, piece) == cl' = [cl EXCEPT ![c].out = Append(@, piece)]

\* vnc_disconnect_start
Disconnected(v) == [v EXCEPT !.csock = FALSE]

\* vnc_client_write_locked with a non-empty buffer: send takes some pieces, or
\* would block, or fails and closes the socket.
WriteLocked(c) ==
  \/ \E n \in 0 .. Len(cl[c].out) :
       cl' = [cl EXCEPT ![c].out = SubSeq(@, n + 1, Len(@))]
  \/ cl' = [cl EXCEPT ![c] = Disconnected(@)]

----------------------------------------------------------------------------
(* vnc_jobs_join *)

HasJob(c) == \E i \in DOMAIN jobs : jobs[i].vs = c

JoinLock ==
  /\ At("join")
  /\ Q!qemu_mutex_lock(Main)
  /\ MGo("join_test")
  /\ UNCHANGED <<jobs, dlock, olock, cl, timer, workerVars>>

JoinWait ==
  /\ At("join_test")
  /\ HasJob(Cur)
  /\ Q!qemu_cond_wait(Main)
  /\ UNCHANGED <<jobs, dlock, olock, cl, timer, stk, workerVars>>

JoinDone ==
  /\ At("join_test")
  /\ ~HasJob(Cur)
  /\ Q!qemu_mutex_unlock(Main)
  /\ MReturn
  /\ UNCHANGED <<jobs, dlock, olock, cl, timer, workerVars>>

vnc_jobs_join == JoinLock \/ JoinWait \/ JoinDone

----------------------------------------------------------------------------
(* vnc_flush *)

vnc_flush ==
  /\ At("flush")
  /\ olock[Cur] = None
  /\ IF cl[Cur].csock /\ cl[Cur].out # << >> THEN WriteLocked(Cur) ELSE cl' = cl
  /\ MReturn
  /\ UNCHANGED <<queueVars, jobs, dlock, olock, timer, workerVars>>

----------------------------------------------------------------------------
(* A message written to one client in several pieces under its output lock *)
(* and then flushed, unless the frame's flag is set: vnc_desktop_resize,   *)
(* vnc_copy, vnc_colordepth, send_ext_key_event_ack, vnc_cursor_define.    *)

SendLock ==
  /\ At("send")
  /\ MainLock(Cur)
  /\ Append1(Cur, "head")
  /\ MGo("send_rest")
  /\ UNCHANGED <<queueVars, jobs, dlock, timer, workerVars>>

SendRest ==
  /\ At("send_rest")
  /\ Append1(Cur, "rest")
  /\ MainUnlock(Cur)
  /\ IF Head(stk).flag THEN MReturn ELSE MGo("flush")
  /\ UNCHANGED <<queueVars, jobs, dlock, timer, workerVars>>

SendMessage == SendLock \/ SendRest

----------------------------------------------------------------------------
(* vnc_disconnect_finish: the join is called before the output lock.       *)

\* Mutant: the client is freed without waiting for its jobs.
FinishNoJoin ==
  /\ At("finish")
  /\ MGo("finish_lock")
  /\ UNCHANGED mainView

FinishJoin ==
  /\ At("finish")
  /\ MCall(Frame("join", Cur, {}), "finish_lock")
  /\ UNCHANGED mainView

\* Removed from vd->clients, which stops the timer if it was the last one, under
\* the output lock; then freed.
FinishFree ==
  /\ At("finish_lock")
  /\ olock[Cur] = None
  /\ cl' = [cl EXCEPT ![Cur] = Fresh]
  /\ timer' = (timer /\ Live # {Cur})
  /\ MReturn
  /\ UNCHANGED <<queueVars, jobs, dlock, olock, workerVars>>

vnc_disconnect_finish == FinishJoin \/ FinishFree

----------------------------------------------------------------------------
(* vnc_update_client; the frame's flag is has_dirty.                       *)

WantsUpdate(c) == cl[c].need /\ cl[c].csock

\* Bound: a client with MaxOut pieces written or to be written, or a queue with
\* MaxJobs jobs, counts as throttled.
Room(c) ==
  /\ Len(jobs) < MaxJobs
  /\ Len(cl[c].out) + Len(SelectSeq(jobs, LAMBDA j : j.vs = c)) < MaxOut

Throttled(c) ==
  \/ ~Room(c)
  \/ ~cl[c].force /\ (cl[c].out # << >> \/ ~Head(stk).flag)

UpdateSkip ==
  /\ At("update")
  /\ IF WantsUpdate(Cur) THEN Throttled(Cur) ELSE cl[Cur].csock
  /\ MReturn
  /\ UNCHANGED mainView

\* Mutant: a disconnected client is skipped like an idle one.
UpdateGoneSkipped ==
  /\ At("update")
  /\ ~cl[Cur].csock
  /\ MReturn
  /\ UNCHANGED mainView

UpdateGone ==
  /\ At("update")
  /\ ~cl[Cur].csock
  /\ MGo("finish")
  /\ UNCHANGED mainView

\* vnc_job_new and vnc_job_add_rect build a job nobody else can see yet; then
\* vnc_job_push takes the queue lock.
PushLock ==
  /\ At("update")
  /\ WantsUpdate(Cur) /\ ~Throttled(Cur)
  /\ Q!qemu_mutex_lock(Main)
  /\ MGo("push")
  /\ UNCHANGED <<jobs, dlock, olock, cl, timer, workerVars>>

\* A job without rectangles is freed.
Push ==
  /\ At("push")
  /\ cl' = [cl EXCEPT ![Cur].dirty = FALSE, ![Cur].force = FALSE]
  /\ IF cl[Cur].dirty
     THEN /\ \E n \in 1 .. MaxRects : jobs' = Append(jobs, [vs |-> Cur, rects |-> n])
          /\ Q!qemu_cond_broadcast(Main)
     ELSE UNCHANGED <<jobs, queueVars>>
  /\ MGo("push_unlock")
  /\ UNCHANGED <<dlock, olock, timer, workerVars>>

PushUnlock ==
  /\ At("push_unlock")
  /\ Q!qemu_mutex_unlock(Main)
  /\ MReturn
  /\ UNCHANGED <<jobs, dlock, olock, cl, timer, workerVars>>

vnc_update_client == UpdateSkip \/ UpdateGone \/ PushLock \/ Push \/ PushUnlock

----------------------------------------------------------------------------
(* vnc_refresh *)

\* The surface takes a changed guest screen and every client has to be told.
Repaint ==
  cl' = [c \in Clients |-> [cl[c] EXCEPT !.dirty = @ \/ cl[c].live]]

RefreshTry ==
  /\ At("refresh")
  /\ IF dlock = None
     THEN dlock' = Main /\ MGo("refresh_surface")
     ELSE dlock' = dlock /\ MReturn
  /\ UNCHANGED <<queueVars, jobs, olock, cl, timer, workerVars>>

RefreshSurface ==
  /\ At("refresh_surface")
  /\ \E dirty \in BOOLEAN :
       /\ IF dirty THEN Repaint ELSE cl' = cl
       /\ stk' = <<[Frame("refresh_loop", None, Live) EXCEPT !.flag = dirty]>> \o Tail(stk)
  /\ dlock' = None
  /\ UNCHANGED <<queueVars, jobs, olock, timer, workerVars>>

RefreshLoop ==
  /\ At("refresh_loop")
  /\ \/ /\ MLoopEnds
        /\ MReturn
     \/ \E c \in Clients :
          /\ MVisit(c)
          /\ stk' = <<[Frame("update", c, {}) EXCEPT !.flag = Head(stk).flag],
                      [Head(stk) EXCEPT !.todo = @ \ {c}]>> \o Tail(stk)
  /\ UNCHANGED mainView

vnc_refresh == RefreshTry \/ RefreshSurface \/ RefreshLoop

----------------------------------------------------------------------------
(* vnc_dpy_resize *)

\* vnc_abort_display_jobs: abort is set for every client, ...
AbortLoop(p, value, next) ==
  /\ At(p)
  /\ \/ /\ MLoopEnds
        /\ stk' = <<Frame(next, None, Live)>> \o Tail(stk)
        /\ UNCHANGED cl
     \/ \E c \in Clients :
          /\ MVisit(c)
          /\ olock[c] = None
          /\ cl' = [cl EXCEPT ![c].abort = value]
          /\ stk' = <<[Head(stk) EXCEPT !.todo = @ \ {c}]>> \o Tail(stk)
  /\ UNCHANGED <<queueVars, jobs, dlock, olock, timer, workerVars>>

\* Mutant: the jobs are told to abort and not waited for.
AbortNoJoin ==
  /\ At("abort_join")
  /\ stk' = <<Frame("abort_reset", None, Live)>> \o Tail(stk)
  /\ UNCHANGED mainView

\* ... every client's jobs are joined, and abort is reset.
AbortJoin ==
  /\ At("abort_join")
  /\ \/ /\ MLoopEnds
        /\ stk' = <<Frame("abort_reset", None, Live)>> \o Tail(stk)
     \/ \E c \in Clients :
          /\ MVisit(c)
          /\ stk' = <<Frame("join", c, {}),
                      [Head(stk) EXCEPT !.todo = @ \ {c}]>> \o Tail(stk)
  /\ UNCHANGED mainView

vnc_abort_display_jobs ==
  \/ AbortLoop("resize", TRUE, "abort_join")
  \/ AbortJoin
  \/ AbortLoop("abort_reset", FALSE, "resize_surface")

\* The old surface is freed and a new one allocated.
ResizeSurface ==
  /\ At("resize_surface")
  /\ Repaint
  /\ stk' = <<Frame("resize_send", None, Live)>> \o Tail(stk)
  /\ UNCHANGED <<queueVars, jobs, dlock, olock, timer, workerVars>>

\* vnc_colordepth, vnc_desktop_resize and vnc_cursor_define, for every client:
\* each writes a message if the client has the feature for it, the second one
\* only to a connected client, the last one without flushing it (bound: one of
\* the three has a message).
ResizeSend ==
  /\ At("resize_send")
  /\ \/ /\ MLoopEnds
        /\ MReturn
     \/ \E c \in Clients :
          /\ MVisit(c)
          /\ LET rest == <<[Head(stk) EXCEPT !.todo = @ \ {c}]>> \o Tail(stk) IN
             \/ stk' = rest
             \/ \E flushed \in BOOLEAN :
                  stk' = <<[Frame("send", c, {}) EXCEPT !.flag = ~flushed]>> \o rest
  /\ UNCHANGED mainView

vnc_dpy_resize == vnc_abort_display_jobs \/ ResizeSurface \/ ResizeSend

----------------------------------------------------------------------------
(* vnc_dpy_copy: the surface is refreshed without the display lock.        *)

CopyRefresh ==
  /\ At("copy")
  /\ Repaint \/ cl' = cl
  /\ stk' = <<Frame("copy_update", None, Live \cap CopyRect)>> \o Tail(stk)
  /\ UNCHANGED <<queueVars, jobs, dlock, olock, timer, workerVars>>

\* vnc_update_client_sync is vnc_update_client and then vnc_jobs_join.
CopyUpdate ==
  /\ At("copy_update")
  /\ \/ /\ MLoopEnds
        /\ MGo("copy_move")
        /\ UNCHANGED cl
     \/ \E c \in Clients :
          /\ MVisit(c)
          /\ cl' = [cl EXCEPT ![c].force = TRUE]
          /\ stk' = <<[Frame("update", c, {}) EXCEPT !.flag = TRUE],
                      Frame("join", c, {}),
                      [Head(stk) EXCEPT !.todo = @ \ {c}]>> \o Tail(stk)
  /\ UNCHANGED <<queueVars, jobs, dlock, olock, timer, workerVars>>

\* The surface is moved; clients without COPYRECT have to repaint.
CopyMove ==
  /\ At("copy_move")
  /\ cl' = [c \in Clients |->
              [cl[c] EXCEPT !.dirty = @ \/ (cl[c].live /\ c \notin CopyRect)]]
  /\ stk' = <<Frame("copy_send", None, Live \cap CopyRect)>> \o Tail(stk)
  /\ UNCHANGED <<queueVars, jobs, dlock, olock, timer, workerVars>>

\* vnc_copy for every client with COPYRECT, connected or not.
CopySend ==
  /\ At("copy_send")
  /\ \/ /\ MLoopEnds
        /\ MReturn
     \/ \E c \in Clients :
          /\ MVisit(c)
          /\ stk' = <<Frame("send", c, {}),
                      [Head(stk) EXCEPT !.todo = @ \ {c}]>> \o Tail(stk)
  /\ UNCHANGED mainView

vnc_dpy_copy == CopyRefresh \/ CopyUpdate \/ CopyMove \/ CopySend

----------------------------------------------------------------------------
(* What wakes the main loop. *)

Idle == stk = << >>

OutRoom == \A c \in Clients : Len(cl[c].out) < MaxOut

\* A new client is greeted; the first one starts the timer and gets a surface.
vnc_connect(c) ==
  /\ Idle
  /\ ~cl[c].live
  /\ cl' = [cl EXCEPT ![c] = [Fresh EXCEPT !.live = TRUE, !.csock = TRUE,
                                             !.out = <<"whole">>]]
  /\ stk' = <<Frame("flush", c, {}), Frame("init_timer", None, {})>>
  /\ UNCHANGED <<queueVars, jobs, dlock, olock, timer, workerVars>>

vnc_init_timer ==
  /\ At("init_timer")
  /\ timer' = TRUE
  /\ stk' = IF timer THEN Tail(stk)
            ELSE <<Frame("resize", None, Live), Frame("refresh", None, {})>>
  /\ UNCHANGED <<queueVars, jobs, dlock, olock, cl, workerVars>>

Tick ==
  /\ Idle
  /\ timer
  /\ stk' = <<Frame("refresh", None, {})>>
  /\ UNCHANGED mainView

Resize ==
  /\ Idle
  /\ OutRoom
  /\ stk' = <<Frame("resize", None, Live)>>
  /\ UNCHANGED mainView

BitBlt ==
  /\ Idle
  /\ OutRoom
  /\ stk' = <<Frame("copy", None, {})>>
  /\ UNCHANGED mainView

\* vnc_client_read, for a client whose socket is watched: the connection is
\* broken or the message is bad, ...
ReadError(c) ==
  /\ Idle
  /\ cl[c].csock
  /\ cl' = [cl EXCEPT ![c] = Disconnected(@)]
  /\ stk' = <<Frame("finish", c, {})>>
  /\ UNCHANGED <<queueVars, jobs, dlock, olock, timer, workerVars>>

\* ... the client asks for an update (framebuffer_update_request), ...
ReadRequest(c, incremental) ==
  /\ Idle
  /\ cl[c].csock
  /\ cl' = [cl EXCEPT ![c].need = TRUE,
                      ![c].force = @ \/ ~incremental,
                      ![c].dirty = @ \/ ~incremental]
  /\ UNCHANGED <<queueVars, jobs, dlock, olock, timer, stk, workerVars>>

\* ... or the answer is a message of the main loop's, after which the socket is
\* looked at again.
ReadAck(c) ==
  /\ Idle
  /\ cl[c].csock
  /\ Len(cl[c].out) < MaxOut
  /\ stk' = <<Frame("send", c, {}), Frame("read_done", c, {})>>
  /\ UNCHANGED mainView

ReadDone ==
  /\ At("read_done")
  /\ IF cl[Cur].csock THEN MReturn ELSE MGo("finish")
  /\ UNCHANGED mainView

\* vnc_client_write, while the socket is watched for writing.
vnc_client_write(c) ==
  /\ Idle
  /\ cl[c].csock /\ cl[c].out # << >>
  /\ stk' = <<Frame("flush", c, {})>>
  /\ UNCHANGED mainView

Event ==
  \/ Tick \/ Resize \/ BitBlt
  \/ \E c \in Clients :
       \/ vnc_connect(c) \/ ReadError(c) \/ ReadAck(c) \/ vnc_client_write(c)
       \/ \E incremental \in BOOLEAN : ReadRequest(c, incremental)

MainStep ==
  \/ vnc_jobs_join \/ vnc_flush \/ SendMessage \/ vnc_disconnect_finish
  \/ vnc_update_client \/ vnc_refresh \/ vnc_dpy_resize \/ vnc_dpy_copy
  \/ vnc_init_timer \/ ReadDone

----------------------------------------------------------------------------
(* vnc_worker_thread_loop *)

WAt(p) == wpc = p /\ cpc[Worker] = "out"
Vs == job.vs
WLoop ==
  /\ WAt("loop")
  /\ Q!qemu_mutex_lock(Worker)
  /\ wpc' = "test"
  /\ UNCHANGED <<jobs, dlock, olock, cl, timer, stk, job, local>>

WWait ==
  /\ WAt("test")
  /\ jobs = << >>
  /\ Q!qemu_cond_wait(Worker)
  /\ UNCHANGED <<jobs, dlock, olock, cl, timer, stk, workerVars>>

\* The job stays on the queue while it is handled.
WFetch ==
  /\ WAt("test")
  /\ jobs # << >>
  /\ job' = Head(jobs)
  /\ Q!qemu_mutex_unlock(Worker)
  /\ wpc' = "lock"
  /\ UNCHANGED <<jobs, dlock, olock, cl, timer, stk, local>>

\* goto disconnected before vnc_async_encoding_start, with the output lock held:
\* the local VncState is uninitialised; its stack slot may hold what the last job
\* left there.
WCheckGone ==
  /\ WAt("lock")
  /\ olock[Vs] = None
  /\ ~cl[Vs].csock \/ cl[Vs].abort
  /\ olock' = [olock EXCEPT ![Vs] = Worker]
  /\ local' \in BOOLEAN
  /\ wpc' = "end"
  /\ UNCHANGED <<queueVars, jobs, dlock, cl, timer, stk, job>>

WCheck ==
  /\ WAt("lock")
  /\ olock[Vs] = None
  /\ cl[Vs].csock /\ ~cl[Vs].abort
  /\ wpc' = "start"
  /\ UNCHANGED <<workerView, job, local>>

\* vnc_async_encoding_start, then the display lock.
WStart ==
  /\ WAt("start")
  /\ local' = TRUE
  /\ wpc' = "lock_display"
  /\ UNCHANGED <<workerView, job>>

WLockDisplay ==
  /\ WAt("lock_display")
  /\ dlock = None
  /\ dlock' = Worker
  /\ wpc' = "rect"
  /\ UNCHANGED <<queueVars, jobs, olock, cl, timer, stk, job, local>>

\* Each rectangle is read from the server surface by an encoder.
WRect ==
  /\ WAt("rect")
  /\ job.rects > 0 /\ cl[Vs].csock
  /\ wpc' = "encode"
  /\ UNCHANGED <<workerView, job, local>>

WEncode ==
  /\ WAt("encode")
  /\ job' = [job EXCEPT !.rects = @ - 1]
  /\ wpc' = "rect"
  /\ UNCHANGED <<workerView, local>>

WRectsDone ==
  /\ WAt("rect")
  /\ job.rects = 0 \/ ~cl[Vs].csock
  /\ dlock' = None
  /\ wpc' = IF job.rects = 0 THEN "lock_output" ELSE "lock_gone"
  /\ UNCHANGED <<queueVars, jobs, olock, cl, timer, stk, job, local>>

WLockGone ==
  /\ WAt("lock_gone")
  /\ olock[Vs] = None
  /\ olock' = [olock EXCEPT ![Vs] = Worker]
  /\ wpc' = "end"
  /\ UNCHANGED <<queueVars, jobs, dlock, cl, timer, stk, job, local>>

\* Mutant: the output lock is not waited for.
WWriteUnlocked ==
  /\ WAt("lock_output")
  /\ olock' = [olock EXCEPT ![Vs] = Worker]
  /\ IF cl[Vs].csock THEN Append1(Vs, "whole") ELSE cl' = cl
  /\ wpc' = "end"
  /\ UNCHANGED <<queueVars, jobs, dlock, timer, stk, job, local>>

\* vnc_write of the whole encoded message, under the output lock.
WWrite ==
  /\ WAt("lock_output")
  /\ olock[Vs] = None
  /\ olock' = [olock EXCEPT ![Vs] = Worker]
  /\ IF cl[Vs].csock THEN Append1(Vs, "whole") ELSE cl' = cl
  /\ wpc' = "end"
  /\ UNCHANGED <<queueVars, jobs, dlock, timer, stk, job, local>>

\* disconnected: vnc_async_encoding_end copies the local state back.
WEnd ==
  /\ WAt("end")
  /\ wpc' = IF cl[Vs].csock /\ ~cl[Vs].abort THEN "flush" ELSE "lock_queue"
  /\ olock' = [olock EXCEPT ![Vs] = None]
  /\ local' = FALSE
  /\ UNCHANGED <<queueVars, jobs, dlock, cl, timer, stk, job>>

WFlush ==
  /\ WAt("flush")
  /\ olock[Vs] = None
  /\ IF cl[Vs].csock /\ cl[Vs].out # << >> THEN WriteLocked(Vs) ELSE cl' = cl
  /\ wpc' = "lock_queue"
  /\ UNCHANGED <<queueVars, jobs, dlock, olock, timer, stk, job, local>>

WLockQueue ==
  /\ WAt("lock_queue")
  /\ Q!qemu_mutex_lock(Worker)
  /\ wpc' = "remove"
  /\ UNCHANGED <<jobs, dlock, olock, cl, timer, stk, job, local>>

WRemove ==
  /\ WAt("remove")
  /\ jobs' = Tail(jobs)
  /\ Q!qemu_mutex_unlock(Worker)
  /\ wpc' = "broadcast"
  /\ UNCHANGED <<dlock, olock, cl, timer, stk, job, local>>

\* Mutant: the end of the job is not announced.
WNoBroadcast ==
  /\ WAt("broadcast")
  /\ wpc' = "loop"
  /\ job' = NoJob
  /\ UNCHANGED <<workerView, local>>

\* The broadcast is made after the queue has been unlocked.
WBroadcast ==
  /\ WAt("broadcast")
  /\ Q!qemu_cond_broadcast(Worker)
  /\ wpc' = "loop"
  /\ job' = NoJob
  /\ UNCHANGED <<jobs, dlock, olock, cl, timer, stk, local>>

vnc_worker_thread_loop ==
  \/ WLoop \/ WWait \/ WFetch \/ WCheckGone \/ WCheck \/ WStart \/ WLockDisplay
  \/ WRect \/ WEncode \/ WRectsDone \/ WLockGone \/ WWrite \/ WEnd \/ WFlush
  \/ WLockQueue \/ WRemove \/ WBroadcast

\* A step of either thread inside the queue's mutex and condition variable.
QueueStep(t) ==
  /\ Q!Step(t)
  /\ UNCHANGED <<jobs, dlock, olock, cl, timer, stk, workerVars>>

----------------------------------------------------------------------------
Next ==
  \/ Event \/ MainStep \/ vnc_worker_thread_loop
  \/ \E t \in {Main, Worker} : QueueStep(t)

Spec == Init /\ [][Next]_vars

\* Both threads run; main_loop_wait fires an expired timer whenever the loop
\* comes round, however often other events come first.
Fairness ==
  /\ WF_vars(MainStep)
  /\ WF_vars(vnc_worker_thread_loop)
  /\ \A t \in {Main, Worker} : WF_vars(QueueStep(t))
  /\ SF_vars(Tick)

FairSpec == Spec /\ Fairness

----------------------------------------------------------------------------
(* Properties *)

ClientType ==
  [live : BOOLEAN, csock : BOOLEAN, abort : BOOLEAN, need : BOOLEAN,
   force : BOOLEAN, dirty : BOOLEAN,
   out : Seq({"whole", "head", "rest"})]

\* The shared state has its type: queued jobs have at least one rectangle, and
\* the worker never counts rectangles below zero.
TypeOK ==
  /\ Q!TypeOK
  /\ jobs \in Seq([vs : Clients, rects : 1 .. MaxRects])
  /\ dlock \in {Main, Worker, None}
  /\ olock \in [Clients -> {Main, Worker, None}]
  /\ cl \in [Clients -> ClientType]
  /\ timer \in BOOLEAN
  /\ job \in [vs : Clients \cup {None}, rects : 0 .. MaxRects]
  /\ local \in BOOLEAN

\* vnc_disconnect_finish frees a client only when no queued job and no step of
\* the worker can still use it.
JobsUseLiveClients ==
  /\ \A i \in DOMAIN jobs : cl[jobs[i].vs].live
  /\ wpc \notin {"loop", "test", "broadcast"} => cl[Vs].live

\* Until the worker takes the queue lock again its job is still the first one on
\* the queue, so that vnc_jobs_join waits for it and QTAILQ_REMOVE finds it.
JobStaysQueued ==
  wpc \notin {"loop", "test", "broadcast"} =>
    jobs # << >> /\ Head(jobs).vs = Vs

\* No job outlives its client: a job stays queued while the worker is at it, and
\* what is queued belongs to a client that vnc_disconnect_finish has not freed.
ClientsOutliveJobs == TypeOK /\ JobStaysQueued /\ JobsUseLiveClients

\* Messages written in several pieces by the main loop are not split by the
\* worker: a head is followed by its rest, or is the last piece and the main
\* loop holds the output lock.
OutputIntact ==
  \A c \in Clients : LET o == cl[c].out IN
    \A i \in DOMAIN o :
      o[i] = "head" => IF i < Len(o) THEN o[i + 1] = "rest" ELSE olock[c] = Main

\* vnc_dpy_resize frees the server surface only while the worker is not reading
\* it, although it does not take the display lock.
ResizeWaits == [][ResizeSurface => wpc \notin {"rect", "encode"}]_vars

\* The main loop is never blocked for good by the worker: vnc_jobs_join ends,
\* because every queued job is finished and announced, and neither the three
\* locks nor the rendez-vous of an unlocked broadcast can close a circle.
MainLoopReturns == ~Idle ~> Idle

\* A client whose socket has been closed, by either thread, is freed.
GoneClientsFreed == \A c \in Clients : (cl[c].live /\ ~cl[c].csock) ~> ~cl[c].live

\* "VncDisplay global lock: mainly used for framebuffer updates to avoid screen
\* corruption if the framebuffer is updated while the worker is doing something":
\* the surface does not change while the worker encodes from it.
SurfaceLocked ==
  [][RefreshSurface \/ CopyRefresh \/ CopyMove => wpc # "encode"]_vars

\* "Copy persistent encoding data": what vnc_async_encoding_end copies back to
\* the client is the client's own encoding state.
EncodingPersists == [][WEnd => local]_vars
=============================================================================

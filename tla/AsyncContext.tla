---------------------------- MODULE AsyncContext ----------------------------
(***************************************************************************)
(* Bottom halves, async contexts and emulated block I/O (qemu/async.c,     *)
(* qemu/aio.c, the emulation in qemu/block.c).                             *)
(*                                                                         *)
(* A bottom half is a callback that the main loop runs soon.  An emulated  *)
(* asynchronous request is done at once and completes from a bottom half   *)
(* of its own.  An emulated synchronous request enters a new context,      *)
(* starts an asynchronous one there and polls until it has completed, so   *)
(* polls nest: the calls in progress are kept on a stack.  A bottom half   *)
(* belongs to the list of the context it was created in.                   *)
(*                                                                         *)
(* There are no AIO descriptors, as on Windows hosts: qemu_aio_wait polls  *)
(* the bottom halves and returns.                                          *)
(***************************************************************************)
EXTENDS Naturals, Sequences, FiniteSets, SequencesExt

CONSTANTS
  Devices,      \* bottom halves devices create once, in the first context
  IdleDevices,  \* those scheduled with qemu_bh_schedule_idle (DMA_run)
  Requests,     \* bottom halves of emulated requests, created for each
  Completers,   \* bottom halves async_context_pop creates
  NULL,
  MaxOps,       \* bound: requests and schedulings in a behaviour
  MaxContexts,  \* bound: contexts at a time
  StopOnError   \* werror=stop: a completion with an error stops the VM

ASSUME AsyncAssumption ==
  /\ IdleDevices \subseteq Devices /\ IsFiniteSet(Devices)
  /\ Devices \cap (Requests \cup Completers) = {} /\ Requests \cap Completers = {}
  /\ NULL \notin Devices \cup Requests \cup Completers
  /\ MaxOps \in Nat /\ MaxContexts \in Nat \ {0}
  /\ StopOnError \in BOOLEAN

BHs == Devices \cup Requests \cup Completers

VARIABLES
  contexts,   \* the stack of contexts, innermost last: the list of bottom halves each
  scheduled, idle, deleted,
  stack,      \* calls in progress, the innermost first
  ret,        \* what the last qemu_bh_poll returned
  done,       \* synchronous requests whose callback has run
  ops

bhVars == <<scheduled, idle, deleted>>
vars == <<contexts, bhVars, stack, ret, done, ops>>

current == Last(contexts)

InCurrent(list) == Front(contexts) \o <<list>>

Allocated(b) == \E i \in DOMAIN contexts : b \in ToSet(contexts[i])

Init ==
  /\ contexts = <<SetToSeq(Devices)>>
  /\ scheduled = {} /\ idle = {} /\ deleted = {}
  /\ stack = << >>
  /\ ret = FALSE
  /\ done = {}
  /\ ops = 0

----------------------------------------------------------------------------
(* Code.  It runs at the bottom of the stack (I/O handlers, timers, guest  *)
(* accesses) or in the callback of the bottom half that a poll runs.       *)

Idle == stack = << >>
Top == Head(stack)
On(op) == ~Idle /\ Top.op = op
Push(f) == stack' = <<f>> \o stack

InCallback == On("poll") /\ Top.run # NULL

CodeRuns == Idle \/ (InCallback /\ Top.run \notin Completers)

\* Code that starts asynchronous requests: anything but the DMA callback.
StartsRequests == CodeRuns /\ (InCallback => Top.run \notin IdleDevices)

Busy == ops < MaxOps /\ ops' = ops + 1

\* qemu_bh_schedule, qemu_bh_schedule_idle
qemu_bh_schedule(b) ==
  /\ StartsRequests \/ (InCallback /\ b \in IdleDevices)
  /\ Busy
  /\ b \in Devices /\ b \notin scheduled /\ b \notin deleted /\ Allocated(b)
  /\ scheduled' = scheduled \cup {b}
  /\ idle' = IF b \in IdleDevices THEN idle \cup {b} ELSE idle \ {b}
  /\ UNCHANGED <<contexts, deleted, stack, ret, done>>

qemu_bh_cancel(b) ==
  /\ StartsRequests
  /\ b \in Devices \cap scheduled
  /\ scheduled' = scheduled \ {b}
  /\ UNCHANGED <<contexts, idle, deleted, stack, ret, done, ops>>

\* A device is removed, or bdrv_aio_cancel_em: the bottom half is only marked.
qemu_bh_delete(b) ==
  /\ StartsRequests
  /\ b \in (Devices \ deleted) \cup (Requests \cap scheduled)
  /\ ~\E i \in DOMAIN stack : stack[i].op = "sync" /\ stack[i].req = b
  /\ Allocated(b)
  /\ scheduled' = scheduled \ {b}
  /\ deleted' = deleted \cup {b}
  /\ UNCHANGED <<contexts, idle, stack, ret, done, ops>>

\* qemu_bh_new: a fresh bottom half; its creator puts it first on the current list.
HasFresh(pool) == \E b \in pool : ~Allocated(b)
Fresh(pool) == CHOOSE b \in pool : ~Allocated(b)

\* bdrv_aio_rw_vector: the request is done, and will complete.
bdrv_aio_rw_vector ==
  /\ StartsRequests /\ HasFresh(Requests)
  /\ Busy
  /\ LET b == Fresh(Requests)
     IN  /\ contexts' = InCurrent(<<b>> \o current)
         /\ scheduled' = scheduled \cup {b}
         /\ done' = done \ {b}
  /\ UNCHANGED <<idle, deleted, stack, ret>>

\* bdrv_read_em, bdrv_write_em: async_context_push, then start the request.
bdrv_read_em ==
  /\ CodeRuns /\ HasFresh(Requests)
  /\ Busy
  /\ Len(contexts) < MaxContexts
  /\ LET b == Fresh(Requests)
     IN  /\ contexts' = Append(contexts, <<b>>)
         /\ scheduled' = scheduled \cup {b}
         /\ done' = done \ {b}
         /\ Push([op |-> "sync", req |-> b, base |-> Len(contexts) + 1, pc |-> "wait"])
  /\ UNCHANGED <<idle, deleted, ret>>

\* qemu_aio_flush from do_vm_stop: for the monitor, or for an error in the completion
\* of a device's request.
qemu_aio_flush ==
  /\ Idle \/ (StopOnError /\ InCallback /\ Top.run \in Requests /\ Len(contexts) = 1)
  /\ Busy
  /\ Push([op |-> "flush", pc |-> "wait", base |-> Len(contexts)])
  /\ UNCHANGED <<contexts, bhVars, ret, done>>

----------------------------------------------------------------------------
(* qemu_bh_poll.                                                           *)

\* Mutant: every poll walks the list of the first context.
PollFirstContext ==
  [op |-> "poll", next |-> IF contexts[1] = << >> THEN NULL ELSE Head(contexts[1]),
   ret |-> FALSE, run |-> NULL, base |-> 1]

Poll == [op |-> "poll", next |-> IF current = << >> THEN NULL ELSE Head(current),
         ret |-> FALSE, run |-> NULL, base |-> Len(contexts)]

\* bh->next; any list's element has one.
Succ(b) ==
  LET i == CHOOSE i \in DOMAIN contexts : b \in ToSet(contexts[i])
      j == CHOOSE j \in DOMAIN contexts[i] : contexts[i][j] = b
  IN  IF j = Len(contexts[i]) THEN NULL ELSE contexts[i][j + 1]

\* main_loop_wait checks the bottom halves last.
main_loop_wait ==
  /\ Idle
  /\ Push(Poll)
  /\ UNCHANGED <<contexts, bhVars, ret, done, ops>>

WalksOn == On("poll") /\ Top.run = NULL

\* Mutant: an idle bottom half is left to a later poll.
VisitSkipsIdle ==
  /\ WalksOn /\ Top.next # NULL
  /\ Allocated(Top.next)
  /\ LET b == Top.next
         runs == b \in (scheduled \ deleted) \ idle
     IN  /\ stack' = <<[Top EXCEPT !.next = Succ(b),
                                   !.run = IF runs THEN b ELSE NULL,
                                   !.ret = @ \/ runs]>> \o Tail(stack)
         /\ scheduled' = IF runs THEN scheduled \ {b} ELSE scheduled
  /\ UNCHANGED <<contexts, idle, deleted, ret, done, ops>>

\* The walk takes the next bottom half, and reads its link before it runs it.
Visit ==
  /\ WalksOn /\ Top.next # NULL
  /\ Allocated(Top.next)
  /\ LET b == Top.next
         runs == b \in scheduled \ deleted
     IN  /\ stack' = <<[Top EXCEPT !.next = Succ(b),
                                   !.run = IF runs THEN b ELSE NULL,
                                   !.ret = @ \/ (runs /\ b \notin idle)]>> \o Tail(stack)
         /\ scheduled' = scheduled \ {b}
         /\ idle' = IF runs THEN idle \ {b} ELSE idle
  /\ UNCHANGED <<contexts, deleted, ret, done, ops>>

\* A callback returns: bdrv_aio_bh_cb and bh_run_aio_completions delete their own
\* bottom half.
Return ==
  /\ InCallback
  /\ stack' = <<[Top EXCEPT !.run = NULL]>> \o Tail(stack)
  /\ deleted' = IF Top.run \in Devices THEN deleted ELSE deleted \cup {Top.run}
  /\ done' = IF Top.run \in Requests THEN done \cup {Top.run} ELSE done
  /\ UNCHANGED <<contexts, scheduled, idle, ret, ops>>

\* The list without the bottom halves in gone.
Without(list, gone) ==
  LET kept[n \in 0 .. Len(list)] ==
        IF n = 0 THEN << >>
        ELSE IF list[n] \in gone THEN kept[n - 1] ELSE Append(kept[n - 1], list[n])
  IN  kept[Len(list)]

\* The end of the walk frees the deleted bottom halves of the current context.
PollEnds ==
  /\ WalksOn /\ Top.next = NULL
  /\ contexts' = InCurrent(Without(current, deleted))
  /\ deleted' = deleted \ ToSet(current)
  /\ ret' = Top.ret
  /\ stack' = Tail(stack)
  /\ UNCHANGED <<scheduled, idle, done, ops>>

----------------------------------------------------------------------------
(* Waiting.                                                                *)

SetPc(pc) == [Top EXCEPT !.pc = pc]

Again(pc) == stack' = <<Poll, SetPc(pc)>> \o Tail(stack)

\* while (async_ret == NOT_DONE) qemu_aio_wait();
SyncWait ==
  /\ On("sync") /\ Top.pc = "wait"
  /\ IF Top.req \in done THEN stack' = <<SetPc("pop")>> \o Tail(stack) ELSE Again("wait")
  /\ UNCHANGED <<contexts, bhVars, ret, done, ops>>

\* Mutant: the context is left without polling it.
PopAtOnce ==
  /\ On("sync") /\ Top.pc = "pop"
  /\ stack' = <<SetPc("popped")>> \o Tail(stack)
  /\ ret' = FALSE
  /\ UNCHANGED <<contexts, bhVars, done, ops>>

\* async_context_pop: while (qemu_bh_poll());
PopPolls ==
  /\ On("sync") /\ Top.pc = "pop"
  /\ Again("popped")
  /\ UNCHANGED <<contexts, bhVars, ret, done, ops>>

PopPollsAgain ==
  /\ On("sync") /\ Top.pc = "popped" /\ ret
  /\ Again("popped")
  /\ UNCHANGED <<contexts, bhVars, ret, done, ops>>

\* Then back to the parent, with a bottom half for AIO completions that were queued.
\* What the old context still lists is never looked at again.
Popped ==
  /\ On("sync") /\ Top.pc = "popped" /\ ~ret
  /\ HasFresh(Completers)
  /\ LET b == Fresh(Completers)
         outer == Front(contexts)
     IN  /\ contexts' = Front(outer) \o <<(<<b>> \o Last(outer))>>
         /\ scheduled' = scheduled \cup {b}
         /\ deleted' = deleted \ ToSet(current)
  /\ stack' = Tail(stack)
  /\ UNCHANGED <<idle, ret, done, ops>>

\* qemu_aio_flush: do qemu_aio_wait(); while (qemu_bh_poll() || ...);
FlushWait ==
  /\ On("flush") /\ Top.pc = "wait"
  /\ Again("poll")
  /\ UNCHANGED <<contexts, bhVars, ret, done, ops>>

FlushPoll ==
  /\ On("flush") /\ Top.pc = "poll"
  /\ Again("test")
  /\ UNCHANGED <<contexts, bhVars, ret, done, ops>>

\* Mutant: one round is taken to be enough.
FlushTestOnce ==
  /\ On("flush") /\ Top.pc = "test"
  /\ stack' = Tail(stack)
  /\ UNCHANGED <<contexts, bhVars, ret, done, ops>>

FlushTest ==
  /\ On("flush") /\ Top.pc = "test"
  /\ stack' = IF ret THEN <<SetPc("wait")>> \o Tail(stack) ELSE Tail(stack)
  /\ UNCHANGED <<contexts, bhVars, ret, done, ops>>

----------------------------------------------------------------------------
Code ==
  \/ \E b \in BHs :
       \/ qemu_bh_schedule(b) \/ qemu_bh_cancel(b) \/ qemu_bh_delete(b)
  \/ bdrv_aio_rw_vector \/ bdrv_read_em \/ qemu_aio_flush

Step ==
  \/ main_loop_wait \/ Visit \/ Return \/ PollEnds
  \/ SyncWait \/ PopPolls \/ PopPollsAgain \/ Popped
  \/ FlushWait \/ FlushPoll \/ FlushTest

Next == Code \/ Step

Spec == Init /\ [][Next]_vars

\* The thread that runs the main loop keeps running, and callbacks return.
FairSpec == Spec /\ WF_vars(Step)

----------------------------------------------------------------------------
(* Properties.                                                             *)

TypeOK ==
  /\ \A i \in DOMAIN contexts : ToSet(contexts[i]) \subseteq BHs
  /\ Len(contexts) \in 1 .. MaxContexts
  /\ scheduled \subseteq BHs /\ idle \subseteq BHs /\ deleted \subseteq BHs
  /\ done \subseteq Requests /\ ret \in BOOLEAN /\ ops \in 0 .. MaxOps
  /\ \A i \in DOMAIN stack : stack[i].op \in {"poll", "sync", "flush"}

\* "An AsyncContext protects the callbacks of AIO requests and Bottom Halves against
\* interfering with each other": a walk that is suspended in a callback goes on to a
\* bottom half of its list that nothing freed in the meantime (qemu_bh_poll).
WalkSafe ==
  \A i \in DOMAIN stack :
    stack[i].op = "poll" /\ stack[i].next # NULL =>
      stack[i].next \in ToSet(contexts[stack[i].base])

\* No bottom half is lost: one that is scheduled is on the list of a context that will
\* be polled again, on one list only.
NoneLost ==
  /\ \A b \in scheduled : Allocated(b)
  /\ \A i, j \in DOMAIN contexts : i # j => ToSet(contexts[i]) \cap ToSet(contexts[j]) = {}
  /\ \A i \in DOMAIN contexts : IsInjective(contexts[i])

\* The lists of all contexts are sound (qemu_bh_new, qemu_bh_poll, async_context_pop).
ListsSound == TypeOK /\ NoneLost

\* While a synchronous request waits, only callbacks run that were begun after it:
\* requests and bottom halves from before are left alone.
Isolated ==
  \A i, j \in DOMAIN stack :
    i < j /\ stack[j].op = "sync" /\ stack[i].op = "poll" /\ stack[i].run # NULL =>
      \E k \in stack[j].base .. Len(contexts) : stack[i].run \in ToSet(contexts[k])

\* When qemu_aio_flush has returned, no asynchronous request is outstanding in its
\* context.
FlushDrains ==
  [][On("flush") /\ Len(stack') < Len(stack) => scheduled \cap Requests \cap ToSet(current) = {}]_vars

Waiting(r) == \E i \in DOMAIN stack : stack[i].op = "sync" /\ stack[i].req = r

\* A synchronous request returns, although the bottom halves it does not poll include
\* those of every request begun before it.
SyncReturns == \A r \in Requests : Waiting(r) ~> ~Waiting(r)

\* A bottom half that is scheduled runs, or is cancelled or deleted.
ScheduledRuns == \A b \in BHs : b \in scheduled ~> b \notin scheduled

\* Nothing waits for ever: neither a scheduled bottom half for its poll nor a
\* synchronous request for its bottom half (qemu_bh_poll, bdrv_read_em).
CallbacksRun == ScheduledRuns /\ SyncReturns
=============================================================================

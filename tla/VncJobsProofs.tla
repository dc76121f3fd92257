--------------------------- MODULE VncJobsProofs ---------------------------
(***************************************************************************)
(* For any set of clients and any bounds, the VNC server never frees a     *)
(* client that a queued job or the worker uses, never lets the worker      *)
(* split a message, and reallocates the surface only while the worker      *)
(* reads nothing from it.                                                  *)
(*                                                                         *)
(* None of this is inductive as it stands.  That a client is free of jobs  *)
(* when it is freed is known from a join that returned earlier, and stays  *)
(* true because only the main loop's thread pushes jobs and it is in that  *)
(* join: so the invariant describes which calls the thread can be in       *)
(* (StackOK), what the joins it has returned from have established         *)
(* (JoinOK), and which locks either thread holds where (MutexOK, OutOK).   *)
(* The queue's condition variable is used more freely here than            *)
(* Win32Thread assumes, since the worker broadcasts without the mutex:     *)
(* QueueOK is why, with two threads, its counts are exact all the same.    *)
(***************************************************************************)
EXTENDS VncJobs, SequenceTheorems, FiniteSetTheorems, TLAPS

----------------------------------------------------------------------------
(* The main loop's stack.                                                  *)

Updating == {"update", "push", "push_unlock", "finish", "finish_lock"}
Joining == {"join", "join_test"}
Sending == {"send", "send_rest", "flush"}
Resizing == {"resize", "abort_join", "abort_reset", "resize_surface", "resize_send"}
ClientPCs == Updating \cup Joining \cup Sending \cup {"read_done"}
MainPCs == ClientPCs \cup Resizing \cup {"refresh", "refresh_surface", "refresh_loop",
             "copy", "copy_update", "copy_move", "copy_send", "init_timer"}

Frames == [pc : MainPCs, c : Clients \cup {None}, todo : SUBSET Clients, flag : BOOLEAN]

\* What a frame may have called.
Calls(p) ==
  CASE p \in {"finish_lock", "abort_join", "copy_update"} -> Joining
    [] p \in {"join", "refresh_loop"} -> Updating
    [] p = "init_timer" -> {"flush"}
    [] p \in {"resize_send", "copy_send", "read_done"} -> Sending
    [] p = "refresh" -> Resizing
    [] OTHER -> {}

\* The frames are those of calls the code makes; a join that frees a client or
\* aborts its jobs is the innermost call.
StackOK ==
  /\ stk \in Seq(Frames)
  /\ \A i \in 1 .. Len(stk) :
       /\ stk[i].pc \in ClientPCs => stk[i].c \in Clients
       /\ stk[i].pc \in {"finish_lock", "abort_join"} => i <= 2
  /\ \A i \in 1 .. Len(stk) - 1 :
       /\ stk[i].pc \in Calls(stk[i + 1].pc)
       /\ stk[i + 1].pc = "finish_lock" => stk[i].c = stk[i + 1].c

\* The innermost call is at one of the positions ps.
InPc(ps) == stk # << >> /\ stk[1].pc \in ps

----------------------------------------------------------------------------
(* The queue's mutex and condition variable, for two threads that may      *)
(* broadcast without the mutex.                                            *)

Other(t) == IF t = Main THEN Worker ELSE Main

CountedPCs == {"wait_unlock", "wait_sema", "wait_dec"}
Counts(t) == IF cpc[t] \in CountedPCs THEN 1 ELSE 0

\* The rendez-vous of a thread in bc_wait with the other one.
Meets(u) ==
  \/ /\ sema = 1 /\ ~cont /\ cpc[u] \in {"wait_unlock", "wait_sema"}
  \/ /\ sema = 0 /\ ~cont /\ cpc[u] = "wait_dec"
  \/ /\ sema = 0 /\ ~cont /\ cpc[u] = "wait_cmp" /\ tmp[u] = 0
  \/ /\ sema = 0 /\ cont
     /\ cpc[u] \in {"out", "wait_store", "wait_unlock", "wait_sema", "wait_lock"}

\* Thread t in a call, and the other thread u.
ThreadOK(t, u) ==
  /\ cpc[t] \in {"wait_store", "wait_unlock"} => owner = t
  /\ cpc[t] = "wait_store" => tmp[t] = waiters
  /\ cpc[t] \in {"wait_dec", "wait_cmp"} => cpc[u] = "bc_wait"
  /\ cpc[t] \in {"bc_target", "bc_release"} =>
       sema = 0 /\ ~cont /\ cpc[u] \in {"wait_unlock", "wait_sema"}
  /\ cpc[t] \in {"bc_release", "bc_wait"} => target = 0
  /\ cpc[t] = "bc_wait" => Meets(u)
  /\ cpc[t] \notin Q!SignalPCs

\* waiters is exact, and no wake-up is left over from a finished broadcast.
QueueOK ==
  /\ waiters = Counts(Main) + Counts(Worker)
  /\ \A t \in {Main, Worker} : ThreadOK(t, Other(t))
  /\ cpc[Main] # "bc_wait" /\ cpc[Worker] # "bc_wait" => sema = 0 /\ ~cont

\* Where the threads hold the queue's mutex in their own code.
MutexOK ==
  /\ cpc[Main] \in Q!WaitPCs => InPc({"join_test"})
  /\ cpc[Main] \in Q!BroadcastPCs => InPc({"push_unlock"})
  /\ InPc({"join_test", "push", "push_unlock"}) /\ cpc[Main] \notin Q!WaitPCs => owner = Main
  /\ cpc[Worker] \in Q!WaitPCs => wpc = "test"
  /\ cpc[Worker] \in Q!BroadcastPCs => wpc = "loop"
  /\ wpc \in {"test", "remove"} /\ cpc[Worker] \notin Q!WaitPCs => owner = Worker

----------------------------------------------------------------------------
(* Jobs and their clients.                                                 *)

Working == wpc \notin {"loop", "test", "broadcast"}

\* Connected clients, and the one a job is being pushed for, have not been freed.
LiveOK ==
  /\ \A c \in Clients : cl[c].csock => cl[c].live
  /\ InPc({"push"}) => cl[stk[1].c].live

\* What the worker relies on.
JobsOK == JobStaysQueued /\ JobsUseLiveClients /\ (wpc = "encode" => job.rects > 0)

\* What the joins have established: no job for a client about to be freed; in a
\* resize, jobs only of clients that are still to be joined, and finally none.
JoinOK ==
  /\ InPc({"finish_lock"}) => ~HasJob(stk[1].c)
  /\ InPc({"abort_reset", "resize_surface"}) => jobs = << >>
  /\ \A i \in 1 .. Len(stk) : stk[i].pc = "abort_join" =>
       \A j \in 1 .. Len(jobs) : jobs[j].vs \in stk[i].todo \cup (IF i = 1 THEN {} ELSE {stk[1].c})

\* Who holds an output lock in the middle of a message.
OutOK ==
  /\ OutputIntact
  /\ InPc({"send_rest"}) => olock[stk[1].c] = Main
  /\ wpc = "end" => olock[Vs] = Worker

\* The inductive invariant.
IInv ==
  /\ TypeOK /\ StackOK /\ QueueOK /\ MutexOK
  /\ LiveOK /\ JobsOK /\ JoinOK /\ OutOK

----------------------------------------------------------------------------
(* The queue's mutex and condition variable.                               *)

\* What the two threads do with the queue.
QueueAct(t) ==
  \/ Q!qemu_mutex_lock(t) \/ Q!qemu_mutex_unlock(t)
  \/ owner = t /\ Q!qemu_cond_wait(t)
  \/ Q!qemu_cond_broadcast(t)
  \/ Q!Step(t)

\* The counts stay exact and a broadcast stays matched with one wake-up, for
\* whichever thread t moves.
LEMMA QueueKept ==
  ASSUME NEW t \in {Main, Worker}, Q!TypeOK, QueueOK, QueueAct(t)
  PROVE  Q!TypeOK' /\ QueueOK'
<1> DEFINE u == Other(t)
<1>1. /\ u \in {Main, Worker} /\ u # t /\ Other(u) = t /\ None # t /\ None # u
      /\ {Main, Worker} = {t, u}
  BY VncAssumption DEF Other
<1>2. /\ ThreadOK(t, u) /\ ThreadOK(u, t)
      /\ waiters = Counts(t) + Counts(u)
      /\ cpc[t] # "bc_wait" /\ cpc[u] # "bc_wait" => sema = 0 /\ ~cont
  BY <1>1 DEF QueueOK, Other, Counts
<1>3. SUFFICES /\ Q!TypeOK'
               /\ ThreadOK(t, u)' /\ ThreadOK(u, t)'
               /\ (waiters = Counts(t) + Counts(u))'
               /\ (cpc[t] # "bc_wait" /\ cpc[u] # "bc_wait" => sema = 0 /\ ~cont)'
  BY <1>1 DEF QueueOK, Other, Counts
<1> HIDE DEF u
<1> USE <1>1, <1>2 DEF Q!TypeOK, Q!Goto, Q!condVars, ThreadOK, Meets, Counts, CountedPCs, Q!PCs, Q!WaitPCs,
        Q!SignalPCs, Q!BroadcastPCs
<1>4. CASE Q!qemu_mutex_lock(t)
  BY <1>4 DEF Q!qemu_mutex_lock
<1>5. CASE Q!qemu_mutex_unlock(t)
  BY <1>5 DEF Q!qemu_mutex_unlock
<1>6. CASE owner = t /\ Q!qemu_cond_wait(t)
  BY <1>6 DEF Q!qemu_cond_wait
<1>7. CASE Q!qemu_cond_broadcast(t)
  BY <1>7 DEF Q!qemu_cond_broadcast
<1>8. CASE Q!Step(t)
  <2>1. CASE Q!WaitStore(t)
    BY <2>1 DEF Q!WaitStore
  <2>2. CASE Q!WaitUnlock(t)
    BY <2>2 DEF Q!WaitUnlock
  <2>3. CASE Q!WaitSema(t)
    BY <2>3 DEF Q!WaitSema
  <2>4. CASE Q!WaitDec(t)
    BY <2>4 DEF Q!WaitDec
  <2>5. CASE Q!WaitCmp(t)
    BY <2>5 DEF Q!WaitCmp
  <2>6. CASE Q!WaitLock(t)
    BY <2>6 DEF Q!WaitLock
  <2>7. CASE Q!BcTarget(t)
    BY <2>7 DEF Q!BcTarget
  <2>8. CASE Q!BcRelease(t)
    BY <2>8 DEF Q!BcRelease
  <2>9. CASE Q!BcWait(t)
    BY <2>9 DEF Q!BcWait
  <2>10. CASE Q!SigTarget(t) \/ Q!SigRelease(t) \/ Q!SigWait(t)
    BY <2>10 DEF Q!SigTarget, Q!SigRelease, Q!SigWait
  <2> QED  BY <1>8, <2>1, <2>2, <2>3, <2>4, <2>5, <2>6, <2>7, <2>8, <2>9, <2>10 DEF Q!Step
<1> QED  BY <1>4, <1>5, <1>6, <1>7, <1>8 DEF QueueAct
----------------------------------------------------------------------------
(* The stack.                                                              *)

\* The innermost frame is replaced.
LEMMA Replaced ==
  ASSUME NEW s \in Seq(Frames), s # << >>, NEW f \in Frames
  PROVE  /\ <<f>> \o Tail(s) \in Seq(Frames) /\ Len(<<f>> \o Tail(s)) = Len(s)
         /\ (<<f>> \o Tail(s))[1] = f
         /\ \A i \in 2 .. Len(s) : (<<f>> \o Tail(s))[i] = s[i]
  OBVIOUS

\* The innermost frame g calls f.
LEMMA Called ==
  ASSUME NEW s \in Seq(Frames), s # << >>, NEW f \in Frames, NEW g \in Frames
  PROVE  /\ <<f, g>> \o Tail(s) \in Seq(Frames) /\ Len(<<f, g>> \o Tail(s)) = Len(s) + 1
         /\ (<<f, g>> \o Tail(s))[1] = f /\ (<<f, g>> \o Tail(s))[2] = g
         /\ \A i \in 3 .. Len(s) + 1 : (<<f, g>> \o Tail(s))[i] = s[i - 1]
  OBVIOUS

\* The innermost call returns.
LEMMA Returned ==
  ASSUME NEW s \in Seq(Frames), s # << >>
  PROVE  /\ Tail(s) \in Seq(Frames) /\ Len(Tail(s)) = Len(s) - 1
         /\ \A i \in 1 .. Len(s) - 1 : Tail(s)[i] = s[i + 1]
         /\ Len(s) \in Nat \ {0} /\ Head(s) = s[1] /\ s[1] \in Frames
         /\ (Tail(s) = << >> <=> Len(s) = 1)
<1>1. /\ Tail(s) \in Seq(Frames) /\ Len(Tail(s)) = Len(s) - 1
      /\ \A i \in 1 .. Len(s) - 1 : Tail(s)[i] = s[i + 1]
      /\ Len(s) \in Nat \ {0} /\ Head(s) = s[1] /\ s[1] \in Frames
  OBVIOUS
<1>2. Tail(s) = << >> <=> Len(Tail(s)) = 0
  BY <1>1, EmptySeq
<1> QED  BY <1>1, <1>2

\* The innermost call and its caller.
LEMMA Caller ==
  ASSUME StackOK, Len(stk) > 1
  PROVE  /\ stk[1].pc \in Calls(stk[2].pc)
         /\ stk[2].pc = "finish_lock" => stk[1].c = stk[2].c
<1>1. 1 \in 1 .. Len(stk) - 1 /\ 1 + 1 = 2
  BY DEF StackOK
<1> QED  BY <1>1 DEF StackOK

\* A frame that suits its caller.
Suits(f) ==
  /\ f \in Frames /\ (f.pc \in ClientPCs => f.c \in Clients)
  /\ Len(stk) > 1 => /\ f.pc \in Calls(stk[2].pc)
                     /\ stk[2].pc = "finish_lock" => f.c = stk[2].c

\* The stack keeps its shape when the innermost frame is replaced, ...
LEMMA ReplaceOK ==
  ASSUME StackOK, stk # << >>, NEW f, Suits(f), stk' = <<f>> \o Tail(stk)
  PROVE  StackOK' /\ stk' # << >> /\ stk'[1] = f /\ Len(stk') = Len(stk)
         /\ \A i \in 2 .. Len(stk) : stk'[i] = stk[i]
<1>1. /\ stk' \in Seq(Frames) /\ Len(stk') = Len(stk) /\ stk'[1] = f
      /\ \A i \in 2 .. Len(stk) : stk'[i] = stk[i]
      /\ Len(stk) \in Nat \ {0}
  BY Replaced, Returned DEF StackOK, Suits
<1>2. ASSUME NEW i \in 1 .. Len(stk')
      PROVE  /\ stk'[i].pc \in ClientPCs => stk'[i].c \in Clients
             /\ stk'[i].pc \in {"finish_lock", "abort_join"} => i <= 2
  BY <1>1 DEF StackOK, Suits
<1>3. ASSUME NEW i \in 1 .. Len(stk') - 1
      PROVE  /\ stk'[i].pc \in Calls(stk'[i + 1].pc)
             /\ stk'[i + 1].pc = "finish_lock" => stk'[i].c = stk'[i + 1].c
  <2>1. stk'[i + 1] = stk[i + 1] /\ i + 1 \in 2 .. Len(stk)
    BY <1>1
  <2>2. CASE i = 1
    BY <1>1, <2>1, <2>2 DEF Suits
  <2>3. CASE i # 1
    <3>1. stk'[i] = stk[i]
      BY <1>1, <2>3
    <3> QED  BY <2>1, <3>1, <1>1 DEF StackOK
  <2> QED  BY <2>2, <2>3
<1>4. stk' # << >>
  BY <1>1
<1> QED  BY <1>1, <1>2, <1>3, <1>4 DEF StackOK

\* ... makes a call, ...
LEMMA CallOK ==
  ASSUME StackOK, stk # << >>, NEW f, NEW g, f \in Frames, Suits(g),
         f.pc \in ClientPCs => f.c \in Clients, f.pc \in Calls(g.pc),
         g.pc = "finish_lock" => f.c = g.c,
         f.pc \notin {"finish_lock", "abort_join"},
         Len(stk) > 1 => stk[2].pc \notin {"finish_lock", "abort_join"},
         stk' = <<f, g>> \o Tail(stk)
  PROVE  StackOK' /\ stk' # << >> /\ stk'[1] = f /\ stk'[2] = g /\ Len(stk') = Len(stk) + 1
         /\ \A i \in 3 .. Len(stk) + 1 : stk'[i] = stk[i - 1]
<1>1. /\ stk' \in Seq(Frames) /\ Len(stk') = Len(stk) + 1 /\ stk'[1] = f /\ stk'[2] = g
      /\ \A i \in 3 .. Len(stk) + 1 : stk'[i] = stk[i - 1]
      /\ Len(stk) \in Nat \ {0}
  BY Called, Returned DEF StackOK, Suits
<1>2. ASSUME NEW i \in 1 .. Len(stk')
      PROVE  /\ stk'[i].pc \in ClientPCs => stk'[i].c \in Clients
             /\ stk'[i].pc \in {"finish_lock", "abort_join"} => i <= 2
  <2>1. CASE i \in {1, 2}
    BY <1>1, <2>1 DEF Suits
  <2>2. CASE i \notin {1, 2}
    <3>1. i - 1 \in 2 .. Len(stk) /\ stk'[i] = stk[i - 1]
      BY <1>1, <2>2
    <3>2. stk[i - 1].pc \in {"finish_lock", "abort_join"} => i - 1 <= 2
      BY <3>1, <1>1 DEF StackOK
    <3>3. stk[i - 1].pc \in {"finish_lock", "abort_join"} => i - 1 = 2
      BY <3>1, <3>2
    <3>4. stk[i - 1].pc \notin {"finish_lock", "abort_join"}
      BY <3>1, <3>3, <1>1
    <3>5. stk[i - 1].pc \in ClientPCs => stk[i - 1].c \in Clients
      BY <3>1, <1>1 DEF StackOK
    <3> QED  BY <3>1, <3>4, <3>5
  <2> QED  BY <2>1, <2>2
<1>3. ASSUME NEW i \in 1 .. Len(stk') - 1
      PROVE  /\ stk'[i].pc \in Calls(stk'[i + 1].pc)
             /\ stk'[i + 1].pc = "finish_lock" => stk'[i].c = stk'[i + 1].c
  <2>1. CASE i = 1
    BY <1>1, <2>1
  <2>2. CASE i = 2
    <3>1. Len(stk) > 1 /\ stk'[3] = stk[2]
      BY <1>1, <1>3, <2>2
    <3> QED  BY <1>1, <2>2, <3>1 DEF Suits
  <2>3. CASE i \notin {1, 2}
    <3>1. /\ i - 1 \in 1 .. Len(stk) - 1 /\ stk'[i] = stk[i - 1]
          /\ stk'[i + 1] = stk[(i - 1) + 1]
      BY <1>1, <2>3
    <3> QED  BY <3>1, <1>1 DEF StackOK
  <2> QED  BY <2>1, <2>2, <2>3
<1>4. stk' # << >>
  BY <1>1
<1> QED  BY <1>1, <1>2, <1>3, <1>4 DEF StackOK

\* ... or returns.
LEMMA ReturnOK ==
  ASSUME StackOK, stk # << >>, stk' = Tail(stk)
  PROVE  StackOK' /\ Len(stk') = Len(stk) - 1
         /\ (\A i \in 1 .. Len(stk) - 1 : stk'[i] = stk[i + 1])
         /\ (stk' # << >> => Len(stk) > 1 /\ stk'[1] = stk[2] /\ stk[1].pc \in Calls(stk[2].pc))
<1>1. /\ stk' \in Seq(Frames) /\ Len(stk') = Len(stk) - 1
      /\ \A i \in 1 .. Len(stk) - 1 : stk'[i] = stk[i + 1]
      /\ Len(stk) \in Nat \ {0} /\ (stk' = << >> <=> Len(stk) = 1)
  BY Returned DEF StackOK
<1>2. ASSUME NEW i \in 1 .. Len(stk')
      PROVE  /\ stk'[i].pc \in ClientPCs => stk'[i].c \in Clients
             /\ stk'[i].pc \in {"finish_lock", "abort_join"} => i <= 2
  <2>1. i + 1 \in 1 .. Len(stk) /\ stk'[i] = stk[i + 1]
    BY <1>1
  <2> QED  BY <2>1, <1>1 DEF StackOK
<1>3. ASSUME NEW i \in 1 .. Len(stk') - 1
      PROVE  /\ stk'[i].pc \in Calls(stk'[i + 1].pc)
             /\ stk'[i + 1].pc = "finish_lock" => stk'[i].c = stk'[i + 1].c
  <2>1. /\ i + 1 \in 1 .. Len(stk) - 1 /\ stk'[i] = stk[i + 1]
        /\ stk'[i + 1] = stk[(i + 1) + 1]
    BY <1>1
  <2> QED  BY <2>1, <1>1 DEF StackOK
<1>4. stk' # << >> => Len(stk) > 1 /\ stk'[1] = stk[2] /\ stk[1].pc \in Calls(stk[2].pc)
  BY <1>1 DEF StackOK
<1> QED  BY <1>1, <1>2, <1>3, <1>4 DEF StackOK
----------------------------------------------------------------------------
(* Steps of the main loop that touch neither the queue nor an output       *)
(* buffer.                                                                 *)

Locking == {"join_test", "push", "push_unlock", "send_rest"}
Joined == {"finish_lock", "abort_join", "abort_reset", "resize_surface"}
Special == Joining \cup Locking \cup Joined

\* The clients stay what they are, but for flags the invariant does not mention and
\* sockets that are closed.
SameClients ==
  /\ cl' \in [Clients -> ClientType]
  /\ \A c \in Clients : /\ cl'[c].live = cl[c].live /\ cl'[c].out = cl[c].out
                        /\ cl'[c].csock => cl[c].csock

\* No message in o is split, for a buffer whose lock is held by l.
IntactOf(o, l) ==
  \A i \in DOMAIN o :
    o[i] = "head" => IF i < Len(o) THEN o[i + 1] = "rest" ELSE l = Main

\* No client is freed, ...
LivesKept ==
  /\ cl' \in [Clients -> ClientType]
  /\ \A c \in Clients : /\ cl[c].live => cl'[c].live
                        /\ cl'[c].csock => cl'[c].live

\* ... and what is written to one is whole.
KeptClients == LivesKept /\ \A c \in Clients : IntactOf(cl'[c].out, olock[c])

Quietly ==
  /\ cpc[Main] = "out"
  /\ UNCHANGED <<queueVars, jobs, olock, workerVars>>
  /\ dlock' \in {Main, Worker, None} /\ timer' \in BOOLEAN
  /\ KeptClients

\* Clients that stay the same are kept.
LEMMA SameKept ==
  ASSUME IInv, SameClients
  PROVE  KeptClients
BY DEF IInv, LiveOK, OutOK, OutputIntact, IntactOf, SameClients, KeptClients, LivesKept

\* Every queued job has a client.
LEMMA JobsTyped ==
  ASSUME TypeOK
  PROVE  \A i \in 1 .. Len(jobs) : jobs[i].vs \in Clients
<1> DEFINE J == [vs : Clients, rects : 1 .. MaxRects]
<1>1. jobs \in Seq(J)
  BY DEF TypeOK
<1>2. \A j \in J : j.vs \in Clients
  OBVIOUS
<1> HIDE DEF J
<1> QED  BY <1>1, <1>2

\* While the worker has a job its client is one.
LEMMA JobClient ==
  ASSUME TypeOK, JobStaysQueued, Working
  PROVE  Vs \in Clients /\ jobs # << >> /\ Len(jobs) \in Nat \ {0} /\ jobs[1].vs = Vs
<1>1. jobs # << >> /\ Head(jobs).vs = Vs
  BY DEF JobStaysQueued, Working
<1>2. Len(jobs) \in Nat \ {0} /\ Head(jobs) = jobs[1]
  BY <1>1 DEF TypeOK
<1> QED  BY <1>1, <1>2, JobsTyped

\* A quiet step keeps what does not depend on the innermost frame.
LEMMA QuietKept ==
  ASSUME IInv, Quietly, StackOK', JoinOK', stk' = << >> \/ stk'[1].pc \notin Locking
  PROVE  IInv'
<1>1. TypeOK'
  BY DEF IInv, TypeOK, Quietly, KeptClients, LivesKept, queueVars, workerVars, Q!TypeOK
<1>2. QueueOK'
  BY DEF IInv, QueueOK, ThreadOK, Meets, Counts, Quietly, queueVars
<1>3. MutexOK'
  BY DEF IInv, MutexOK, Quietly, queueVars, workerVars, InPc, Locking,
     Q!WaitPCs, Q!BroadcastPCs
<1>4. LiveOK'
  BY DEF IInv, LiveOK, Quietly, KeptClients, LivesKept, InPc, Locking
<1>5. JobsOK'
  <2>1. JobStaysQueued' /\ (wpc = "encode" => job.rects > 0)'
    BY DEF IInv, JobsOK, JobStaysQueued, Quietly, workerVars, Vs
  <2>2. \A i \in DOMAIN jobs : jobs[i].vs \in Clients
    <3>1. DOMAIN jobs = 1 .. Len(jobs)
      BY DEF IInv, TypeOK
    <3> QED  BY <3>1, JobsTyped DEF IInv
  <2>3. Working => Vs \in Clients
    BY JobClient DEF IInv, JobsOK
  <2>4. JobsUseLiveClients'
    BY <2>2, <2>3 DEF IInv, JobsOK, JobsUseLiveClients, Quietly, KeptClients, LivesKept, workerVars, Vs, Working
  <2> QED  BY <2>1, <2>4 DEF JobsOK
<1>6. OutOK'
  BY DEF IInv, OutOK, OutputIntact, IntactOf, Quietly, KeptClients, LivesKept, workerVars, Vs, InPc, Locking
<1> QED  BY <1>1, <1>2, <1>3, <1>4, <1>5, <1>6 DEF IInv

\* The innermost frame goes on, ...
LEMMA JoinReplaced ==
  ASSUME IInv, stk # << >>, NEW f, Suits(f), stk' = <<f>> \o Tail(stk),
         f.pc \notin Joined, stk[1].pc \notin Joining, UNCHANGED jobs
  PROVE  StackOK' /\ JoinOK' /\ stk' # << >> /\ stk'[1] = f
<1>1. StackOK' /\ stk' # << >> /\ stk'[1] = f /\ Len(stk') = Len(stk)
      /\ (\A i \in 2 .. Len(stk) : stk'[i] = stk[i]) /\ Len(stk) \in Nat
  BY ReplaceOK DEF IInv, StackOK
<1>2. Len(stk) > 1 => stk[2].pc # "abort_join"
  BY Caller DEF IInv, Calls
<1>3. JoinOK'
  BY <1>1, <1>2 DEF IInv, JoinOK, StackOK, InPc, Joined
<1> QED  BY <1>1, <1>3

\* ... quietly, ...
LEMMA QuietReplace ==
  ASSUME IInv, Quietly, stk # << >>, NEW f, Suits(f), stk' = <<f>> \o Tail(stk),
         f.pc \notin Special, stk[1].pc \notin Joining
  PROVE  IInv'
<1>1. UNCHANGED jobs
  BY DEF Quietly
<1> QED  BY <1>1, JoinReplaced, QuietKept DEF Special

\* ... makes a call, ...
LEMMA QuietCall ==
  ASSUME IInv, Quietly, stk # << >>, NEW f, NEW g, f \in Frames, Suits(g),
         f.pc \in ClientPCs => f.c \in Clients, f.pc \in Calls(g.pc),
         f.pc \notin Special \ {"join"}, g.pc # "abort_join", g.pc = "finish_lock" => f.c = g.c,
         stk[1].pc \notin Joining, stk' = <<f, g>> \o Tail(stk)
  PROVE  IInv'
<1>0. Len(stk) \in Nat \ {0}
  BY DEF IInv, StackOK
<1>1. Len(stk) > 1 => stk[2].pc \notin {"finish_lock", "abort_join"}
  BY Caller DEF IInv, Calls
<1>2. StackOK' /\ stk' # << >> /\ stk'[1] = f /\ stk'[2] = g /\ Len(stk') = Len(stk) + 1
      /\ (\A i \in 3 .. Len(stk) + 1 : stk'[i] = stk[i - 1])
  BY <1>1, CallOK DEF IInv, Special, Joined
<1>3. \A i \in 1 .. Len(stk') : stk'[i].pc # "abort_join"
  <2> SUFFICES ASSUME NEW i \in 1 .. Len(stk'), stk'[i].pc = "abort_join" PROVE FALSE
    OBVIOUS
  <2>1. i <= 2
    BY <1>2 DEF StackOK
  <2> QED  BY <2>1, <1>0, <1>2 DEF Special, Joined
<1>4. JoinOK'
  BY <1>2, <1>3 DEF JoinOK, InPc, Special, Joined
<1> QED  BY <1>2, <1>4, QuietKept DEF Special, Locking

\* ... or returns.
LEMMA JoinReturned ==
  ASSUME IInv, stk # << >>, stk[1].pc \notin Joining, stk' = Tail(stk)
  PROVE  StackOK' /\ JoinOK' /\ (stk' = << >> \/ stk'[1].pc \notin Special \ {"join"})
<1>0. Len(stk) \in Nat \ {0}
  BY DEF IInv, StackOK
<1>1. StackOK' /\ Len(stk') = Len(stk) - 1
      /\ (\A i \in 1 .. Len(stk) - 1 : stk'[i] = stk[i + 1])
      /\ (stk' # << >> => Len(stk) > 1 /\ stk'[1] = stk[2] /\ stk[1].pc \in Calls(stk[2].pc))
  BY ReturnOK DEF IInv
<1>2. stk' # << >> => stk'[1].pc \notin Special \ {"join"}
  BY <1>1 DEF Calls, Special, Joining, Locking, Joined
<1>3. \A i \in 1 .. Len(stk') : stk'[i].pc # "abort_join"
  <2> SUFFICES ASSUME NEW i \in 1 .. Len(stk'), stk'[i].pc = "abort_join" PROVE FALSE
    OBVIOUS
  <2>1. i + 1 \in 1 .. Len(stk) /\ stk[i + 1].pc = "abort_join"
    BY <1>0, <1>1
  <2>2. i + 1 <= 2
    BY <2>1 DEF IInv, StackOK
  <2>3. i = 1
    BY <2>2, <1>0, <1>1
  <2>4. Len(stk') # 0
    BY <1>0, <1>1
  <2>5. stk' # << >>
    BY <2>4
  <2> QED  BY <2>3, <2>5, <1>2 DEF Special, Joined
<1>4. JoinOK'
  BY <1>2, <1>3 DEF JoinOK, InPc, Special, Joined
<1> QED  BY <1>1, <1>2, <1>4

\* A quiet return.
LEMMA QuietReturn ==
  ASSUME IInv, Quietly, stk # << >>, stk[1].pc \notin Joining, stk' = Tail(stk)
  PROVE  IInv'
BY JoinReturned, QuietKept DEF Special, Locking

\* A new stack.
LEMMA QuietNew ==
  ASSUME IInv, Quietly, stk' \in Seq(Frames), stk' # << >>, Len(stk') <= 3,
         \A i \in 1 .. Len(stk') : /\ stk'[i].pc \notin Special \ {"join"}
                                   /\ stk'[i].pc \in ClientPCs => stk'[i].c \in Clients,
         Len(stk') > 1 => stk'[1].pc \in Calls(stk'[2].pc),
         Len(stk') > 2 => stk'[2].pc \in Calls(stk'[3].pc)
  PROVE  IInv'
<1>1. Len(stk') \in Nat \ {0}
  OBVIOUS
<1>2. ASSUME NEW i \in 1 .. Len(stk') - 1 PROVE stk'[i].pc \in Calls(stk'[i + 1].pc)
  <2>1. i = 1 \/ i = 2
    BY <1>1
  <2> QED  BY <2>1, <1>1, 1 + 1 = 2, 2 + 1 = 3
<1>3. StackOK'
  <2>1. \A i \in 1 .. Len(stk') : stk'[i].pc \notin {"finish_lock", "abort_join"}
    BY DEF Special, Joined
  <2>2. \A i \in 1 .. Len(stk') - 1 : stk'[i + 1].pc # "finish_lock"
    <3> SUFFICES ASSUME NEW i \in 1 .. Len(stk') - 1 PROVE stk'[i + 1].pc # "finish_lock"
      OBVIOUS
    <3>1. i + 1 \in 1 .. Len(stk')
      BY <1>1
    <3> QED  BY <3>1, <2>1
  <2> QED  BY <1>2, <2>1, <2>2 DEF StackOK
<1>4. 1 \in 1 .. Len(stk')
  BY <1>1
<1>5. JoinOK'
  BY <1>4 DEF JoinOK, InPc, Special, Joined
<1> QED  BY <1>3, <1>4, <1>5, QuietKept DEF Special, Joining, Locking

\* Where the main loop is.
LEMMA AtTop ==
  ASSUME StackOK, NEW p, At(p)
  PROVE  /\ stk # << >> /\ Head(stk) = stk[1] /\ stk[1].pc = p /\ stk[1] \in Frames
         /\ Cur = stk[1].c /\ cpc[Main] = "out" /\ Len(stk) \in Nat \ {0}
         /\ p \in ClientPCs => Cur \in Clients
<1>1. /\ stk # << >> /\ Head(stk) = stk[1] /\ stk[1].pc = p
      /\ Cur = stk[1].c /\ cpc[Main] = "out"
  BY DEF StackOK, At, Cur
<1>2. Len(stk) \in Nat \ {0} /\ stk[1] \in Frames
  BY <1>1 DEF StackOK
<1> QED  BY <1>1, <1>2 DEF StackOK

\* Positions that have the same callers; some have none.
LEMMA Families ==
  /\ \A x : \A p, q \in Updating : p \in Calls(x) => q \in Calls(x)
  /\ \A x : \A p, q \in Joining : p \in Calls(x) => q \in Calls(x)
  /\ \A x : \A p, q \in Resizing : p \in Calls(x) => q \in Calls(x)
  /\ \A x : \A p \in {"send", "send_rest"}, q \in Sending : p \in Calls(x) => q \in Calls(x)
  /\ \A x : \A p : p \notin Updating \cup Joining \cup Resizing \cup Sending => p \notin Calls(x)
<1> SUFFICES ASSUME NEW x
    PROVE /\ \A p, q \in Updating : p \in Calls(x) => q \in Calls(x)
          /\ \A p, q \in Joining : p \in Calls(x) => q \in Calls(x)
          /\ \A p, q \in Resizing : p \in Calls(x) => q \in Calls(x)
          /\ \A p \in {"send", "send_rest"}, q \in Sending : p \in Calls(x) => q \in Calls(x)
          /\ \A p : p \notin Updating \cup Joining \cup Resizing \cup Sending => p \notin Calls(x)
  OBVIOUS
<1>1. Calls(x) \in {Joining, Updating, {"flush"}, Sending, Resizing, {}}
  BY DEF Calls
<1>2. CASE Calls(x) = Joining
  BY <1>2 DEF Joining, Updating, Sending, Resizing
<1>3. CASE Calls(x) = Updating
  BY <1>3 DEF Joining, Updating, Sending, Resizing
<1>4. CASE Calls(x) = {"flush"}
  BY <1>4 DEF Joining, Updating, Sending, Resizing
<1>5. CASE Calls(x) = Sending
  BY <1>5 DEF Joining, Updating, Sending, Resizing
<1>6. CASE Calls(x) = Resizing
  BY <1>6 DEF Joining, Updating, Sending, Resizing
<1>7. CASE Calls(x) = {}
  BY <1>7
<1> QED  BY <1>1, <1>2, <1>3, <1>4, <1>5, <1>6, <1>7

\* What can follow a position for its caller, whoever that is.
LEMMA GoSuits ==
  ASSUME StackOK, stk # << >>, NEW p \in MainPCs,
         p \in ClientPCs => stk[1].pc \in ClientPCs,
         \A x : stk[1].pc \in Calls(x) => p \in Calls(x)
  PROVE  /\ Suits([stk[1] EXCEPT !.pc = p])
         /\ [stk[1] EXCEPT !.pc = p].pc = p /\ [stk[1] EXCEPT !.pc = p].c = stk[1].c
<1>1. Len(stk) \in Nat \ {0} /\ stk[1] \in Frames
  BY DEF StackOK
<1>2. /\ [stk[1] EXCEPT !.pc = p] \in Frames
      /\ [stk[1] EXCEPT !.pc = p].pc = p /\ [stk[1] EXCEPT !.pc = p].c = stk[1].c
  BY <1>1 DEF Frames
<1>3. stk[1].pc \in ClientPCs => stk[1].c \in Clients
  BY <1>1 DEF StackOK
<1> QED  BY <1>2, <1>3, Caller DEF Suits

\* A loop has one client less to visit.
LEMMA VisitSuits ==
  ASSUME StackOK, stk # << >>, NEW c
  PROVE  LET f == [stk[1] EXCEPT !.todo = @ \ {c}]
         IN  Suits(f) /\ f.pc = stk[1].pc /\ f.todo = stk[1].todo \ {c} /\ f.flag = stk[1].flag
<1> DEFINE f == [stk[1] EXCEPT !.todo = @ \ {c}]
<1>1. Len(stk) \in Nat \ {0} /\ stk[1] \in Frames
  BY DEF StackOK
<1>2. f \in Frames /\ f.pc = stk[1].pc /\ f.c = stk[1].c /\ f.todo = stk[1].todo \ {c} /\ f.flag = stk[1].flag
  BY <1>1 DEF Frames
<1>3. stk[1].pc \in ClientPCs => stk[1].c \in Clients
  BY <1>1 DEF StackOK
<1> QED  BY <1>2, <1>3, Caller DEF Suits

IsFrame(f, p, c, todo) == f \in Frames /\ f.pc = p /\ f.c = c /\ f.todo = todo

\* A new frame.
LEMMA FrameIs ==
  ASSUME NEW p \in MainPCs, NEW c \in Clients \cup {None}, NEW todo \in SUBSET Clients
  PROVE  /\ IsFrame(Frame(p, c, todo), p, c, todo)
         /\ \A b \in BOOLEAN : IsFrame([Frame(p, c, todo) EXCEPT !.flag = b], p, c, todo)
BY DEF Frame, Frames, IsFrame

\* Functions that only the main loop calls.
LEMMA Bottom ==
  ASSUME StackOK, stk # << >>,
         stk[1].pc \notin Updating \cup Joining \cup Sending \cup Resizing
  PROVE  Len(stk) = 1 /\ Tail(stk) = << >>
<1>1. Len(stk) \in Nat \ {0}
  BY DEF StackOK
<1>2. ~ (Len(stk) > 1)
  BY Caller DEF Calls, Updating, Joining, Sending, Resizing
<1> QED  BY <1>1, <1>2, Returned DEF StackOK

SameAs(w, v) == w \in ClientType /\ w.live = v.live /\ w.out = v.out /\ (w.csock => v.csock)

\* One client changes.
LEMMA OneClient ==
  ASSUME TypeOK, NEW c \in Clients, NEW v, SameAs(v, cl[c]), cl' = [cl EXCEPT ![c] = v]
  PROVE  SameClients
<1>1. cl \in [Clients -> ClientType]
  BY DEF TypeOK
<1>2. cl' \in [Clients -> ClientType] /\ \A d \in Clients : cl'[d] = IF d = c THEN v ELSE cl[d]
  BY <1>1 DEF SameAs
<1> QED  BY <1>2 DEF SameClients, SameAs

\* Flags are set and reset.
LEMMA Flagged ==
  ASSUME NEW v \in ClientType, NEW a \in BOOLEAN, NEW b \in BOOLEAN
  PROVE  /\ SameAs([v EXCEPT !.csock = FALSE], v)
         /\ SameAs([v EXCEPT !.force = a], v) /\ SameAs([v EXCEPT !.abort = a], v)
         /\ SameAs([v EXCEPT !.dirty = a], v)
         /\ SameAs([v EXCEPT !.dirty = a, !.force = b], v)
         /\ SameAs([v EXCEPT !.need = TRUE, !.force = a, !.dirty = b], v)
<1>1. SameAs([v EXCEPT !.csock = FALSE], v)
  BY DEF ClientType, SameAs
<1>2. SameAs([v EXCEPT !.force = a], v)
  BY DEF ClientType, SameAs
<1>3. SameAs([v EXCEPT !.abort = a], v)
  BY DEF ClientType, SameAs
<1>4. SameAs([v EXCEPT !.dirty = a], v)
  BY DEF ClientType, SameAs
<1>5. SameAs([v EXCEPT !.dirty = a, !.force = b], v)
  BY DEF ClientType, SameAs
<1>6. SameAs([v EXCEPT !.need = TRUE, !.force = a, !.dirty = b], v)
  BY DEF ClientType, SameAs
<1> QED  BY <1>1, <1>2, <1>3, <1>4, <1>5, <1>6

\* What is repainted, flagged or disconnected is the same client.
LEMMA ClientsSame ==
  ASSUME TypeOK
  PROVE  /\ cl' = cl => SameClients
         /\ Repaint => SameClients
         /\ cl' = [c \in Clients |-> [cl[c] EXCEPT !.dirty = @ \/ (cl[c].live /\ c \notin CopyRect)]]
              => SameClients
         /\ \A c \in Clients :
              /\ cl' = [cl EXCEPT ![c] = Disconnected(@)] => SameClients
              /\ cl' = [cl EXCEPT ![c].force = TRUE] => SameClients
              /\ \A b \in BOOLEAN : cl' = [cl EXCEPT ![c].abort = b] => SameClients
              /\ \A b \in BOOLEAN :
                   cl' = [cl EXCEPT ![c].need = TRUE, ![c].force = @ \/ b, ![c].dirty = @ \/ b]
                     => SameClients
              /\ cl' = [cl EXCEPT ![c].dirty = FALSE, ![c].force = FALSE] => SameClients
<1>1. cl \in [Clients -> ClientType]
  BY DEF TypeOK
<1>2. cl' = cl => SameClients
  BY <1>1 DEF SameClients
<1>3. ASSUME NEW B \in [Clients -> BOOLEAN],
             cl' = [c \in Clients |-> [cl[c] EXCEPT !.dirty = B[c]]]
      PROVE  SameClients
  <2>1. ASSUME NEW c \in Clients
        PROVE  SameAs(cl'[c], cl[c])
    <3> DEFINE v == cl[c]
               w == [v EXCEPT !.dirty = B[c]]
    <3>1. v \in ClientType /\ B[c] \in BOOLEAN
      BY <1>1
    <3>2. SameAs(w, v)
      BY <3>1, Flagged
    <3>3. cl'[c] = w
      BY <1>3
    <3> HIDE DEF w
    <3> QED  BY <3>2, <3>3
  <2> QED  BY <2>1, <1>3 DEF SameClients, SameAs
<1>4. Repaint => SameClients
  <2> DEFINE B == [c \in Clients |-> cl[c].dirty \/ cl[c].live]
  <2>1. B \in [Clients -> BOOLEAN]
    OBVIOUS
  <2>2. Repaint => cl' = [c \in Clients |-> [cl[c] EXCEPT !.dirty = B[c]]]
    BY DEF Repaint
  <2> HIDE DEF B
  <2> QED  BY <1>3, <2>1, <2>2
<1>5. cl' = [c \in Clients |-> [cl[c] EXCEPT !.dirty = @ \/ (cl[c].live /\ c \notin CopyRect)]]
        => SameClients
  <2> DEFINE B == [c \in Clients |-> cl[c].dirty \/ (cl[c].live /\ c \notin CopyRect)]
  <2>1. B \in [Clients -> BOOLEAN]
    OBVIOUS
  <2>2. cl' = [c \in Clients |-> [cl[c] EXCEPT !.dirty = @ \/ (cl[c].live /\ c \notin CopyRect)]]
          => cl' = [c \in Clients |-> [cl[c] EXCEPT !.dirty = B[c]]]
    OBVIOUS
  <2> HIDE DEF B
  <2> QED  BY <1>3, <2>1, <2>2
<1>6. ASSUME NEW c \in Clients
      PROVE  /\ cl' = [cl EXCEPT ![c] = Disconnected(@)] => SameClients
             /\ cl' = [cl EXCEPT ![c].force = TRUE] => SameClients
             /\ \A b \in BOOLEAN : cl' = [cl EXCEPT ![c].abort = b] => SameClients
             /\ \A b \in BOOLEAN :
                  cl' = [cl EXCEPT ![c].need = TRUE, ![c].force = @ \/ b, ![c].dirty = @ \/ b]
                    => SameClients
             /\ cl' = [cl EXCEPT ![c].dirty = FALSE, ![c].force = FALSE] => SameClients
  <2> DEFINE v == cl[c]
  <2>0. v \in ClientType
    BY <1>1
  <2>1. cl' = [cl EXCEPT ![c] = Disconnected(@)] => SameClients
    BY <2>0, OneClient, Flagged DEF Disconnected
  <2>2. cl' = [cl EXCEPT ![c].force = TRUE] => SameClients
    <3>1. [cl EXCEPT ![c].force = TRUE] = [cl EXCEPT ![c] = [v EXCEPT !.force = TRUE]]
      OBVIOUS
    <3> QED  BY <2>0, <3>1, OneClient, Flagged
  <2>3. ASSUME NEW b \in BOOLEAN PROVE cl' = [cl EXCEPT ![c].abort = b] => SameClients
    <3>1. [cl EXCEPT ![c].abort = b] = [cl EXCEPT ![c] = [v EXCEPT !.abort = b]]
      OBVIOUS
    <3> QED  BY <2>0, <3>1, OneClient, Flagged
  <2>4. cl' = [cl EXCEPT ![c].dirty = FALSE, ![c].force = FALSE] => SameClients
    <3>1. [cl EXCEPT ![c].dirty = FALSE, ![c].force = FALSE]
            = [cl EXCEPT ![c] = [v EXCEPT !.dirty = FALSE, !.force = FALSE]]
      BY <1>1
    <3> DEFINE w == [v EXCEPT !.dirty = FALSE, !.force = FALSE]
    <3>2. SameAs(w, v)
      BY <2>0, Flagged
    <3>3. [cl EXCEPT ![c].dirty = FALSE, ![c].force = FALSE] = [cl EXCEPT ![c] = w]
      BY <3>1
    <3> HIDE DEF w
    <3> QED  BY <3>2, <3>3, OneClient
  <2>5. ASSUME NEW b \in BOOLEAN
        PROVE  cl' = [cl EXCEPT ![c].need = TRUE, ![c].force = @ \/ b, ![c].dirty = @ \/ b]
                 => SameClients
    <3> DEFINE x == v.force \/ b
               y == v.dirty \/ b
    <3>1. [cl EXCEPT ![c].need = TRUE, ![c].force = @ \/ b, ![c].dirty = @ \/ b]
            = [cl EXCEPT ![c] = [v EXCEPT !.need = TRUE, !.force = x, !.dirty = y]]
      BY <1>1
    <3>2. x \in BOOLEAN /\ y \in BOOLEAN
      OBVIOUS
    <3> HIDE DEF x, y
    <3> DEFINE w == [v EXCEPT !.need = TRUE, !.force = x, !.dirty = y]
    <3>3. SameAs(w, v)
      BY <2>0, <3>2, Flagged
    <3>4. [cl EXCEPT ![c].need = TRUE, ![c].force = @ \/ b, ![c].dirty = @ \/ b]
            = [cl EXCEPT ![c] = w]
      BY <3>1
    <3> HIDE DEF w
    <3>5. cl' = [cl EXCEPT ![c] = w] => SameClients
      BY <3>3, OneClient
    <3> QED  BY <3>4, <3>5, Zenon
  <2> QED  BY <2>1, <2>2, <2>3, <2>4, <2>5
<1> QED  BY <1>2, <1>4, <1>5, <1>6
\* Nothing else of the main loop's view changes.
LEMMA QuietView ==
  ASSUME IInv, cpc[Main] = "out"
  PROVE  /\ UNCHANGED mainView => Quietly
         /\ UNCHANGED <<queueVars, jobs, dlock, olock, timer, workerVars>> /\ SameClients => Quietly
BY SameKept, ClientsSame DEF mainView, IInv, TypeOK, Quietly

\* vd->clients holds clients.
LEMMA LiveClients == Live \subseteq Clients
BY DEF Live

\* vnc_update_client without a job.
LEMMA UpdateQuiet ==
  ASSUME IInv, UpdateSkip \/ UpdateGone
  PROVE  IInv'
<1> USE DEF Special, Joining, Locking, Joined
<1>1. CASE UpdateSkip
  <2>1. /\ stk # << >> /\ stk[1].pc = "update" /\ Quietly /\ stk' = Tail(stk)
    BY <1>1, AtTop, QuietView DEF IInv, UpdateSkip, MReturn
  <2> QED  BY <2>1, QuietReturn
<1>2. CASE UpdateGone
  <2> DEFINE f == [stk[1] EXCEPT !.pc = "finish"]
  <2>1. /\ stk # << >> /\ stk[1].pc = "update" /\ Quietly /\ stk' = <<f>> \o Tail(stk)
    BY <1>2, AtTop, QuietView DEF IInv, UpdateGone, MGo
  <2>2. Suits(f) /\ f.pc = "finish"
    BY <2>1, GoSuits, Families DEF IInv, MainPCs, ClientPCs, Updating, Sending, Resizing
  <2> HIDE DEF f
  <2> QED  BY <2>1, <2>2, QuietReplace
<1> QED  BY <1>1, <1>2

\* vnc_refresh
LEMMA RefreshKeeps ==
  ASSUME IInv, vnc_refresh
  PROVE  IInv'
<1> USE DEF Special, Joining, Locking, Joined
<1>1. CASE RefreshTry
  <2>1. stk # << >> /\ stk[1].pc = "refresh" /\ Head(stk) = stk[1]
    BY <1>1, AtTop DEF IInv, RefreshTry
  <2>2. Quietly
    BY <1>1, AtTop, ClientsSame, SameKept DEF IInv, RefreshTry, Quietly, TypeOK
  <2>3. CASE stk' = Tail(stk)
    BY <2>1, <2>2, <2>3, QuietReturn
  <2>4. CASE stk' = <<[stk[1] EXCEPT !.pc = "refresh_surface"]>> \o Tail(stk)
    <3> DEFINE f == [stk[1] EXCEPT !.pc = "refresh_surface"]
    <3>1. Suits(f) /\ f.pc = "refresh_surface"
      BY <2>1, GoSuits, Families DEF IInv, MainPCs, ClientPCs, Updating, Sending, Resizing
    <3> HIDE DEF f
    <3> QED  BY <2>1, <2>2, <2>4, <3>1, QuietReplace DEF f
  <2> QED  BY <1>1, <2>1, <2>3, <2>4 DEF RefreshTry, MGo, MReturn
<1>2. CASE RefreshSurface
  <2>1. stk # << >> /\ stk[1].pc = "refresh_surface"
    BY <1>2, AtTop DEF IInv, RefreshSurface
  <2>2. Quietly
    BY <1>2, AtTop, ClientsSame, SameKept DEF IInv, RefreshSurface, Quietly, TypeOK
  <2>3. PICK b \in BOOLEAN :
          stk' = <<[Frame("refresh_loop", None, Live) EXCEPT !.flag = b]>> \o Tail(stk)
    BY <1>2 DEF RefreshSurface
  <2> DEFINE f == [Frame("refresh_loop", None, Live) EXCEPT !.flag = b]
  <2>4. Len(stk) = 1
    BY <2>1, Bottom DEF IInv, Updating, Sending, Resizing
  <2>5. IsFrame(f, "refresh_loop", None, Live)
    BY FrameIs, LiveClients DEF MainPCs
  <2> HIDE DEF f
  <2>6. Suits(f)
    BY <2>4, <2>5 DEF Suits, IsFrame, ClientPCs, Updating, Sending
  <2> QED  BY <2>1, <2>2, <2>3, <2>5, <2>6, QuietReplace DEF f, IsFrame
<1>3. CASE RefreshLoop
  <2>1. stk # << >> /\ stk[1].pc = "refresh_loop" /\ Head(stk) = stk[1] /\ Quietly /\ stk[1] \in Frames
    BY <1>3, AtTop, QuietView DEF IInv, RefreshLoop
  <2>2. CASE stk' = Tail(stk)
    BY <2>1, <2>2, QuietReturn
  <2>3. ASSUME NEW c \in Clients,
               stk' = <<[Frame("update", c, {}) EXCEPT !.flag = Head(stk).flag],
                        [Head(stk) EXCEPT !.todo = @ \ {c}]>> \o Tail(stk)
        PROVE  IInv'
    <3> DEFINE f == [Frame("update", c, {}) EXCEPT !.flag = Head(stk).flag]
               g == [stk[1] EXCEPT !.todo = @ \ {c}]
    <3>0. stk[1].flag \in BOOLEAN
      BY <2>1 DEF Frames
    <3>1. IsFrame(f, "update", c, {})
      BY <2>1, <3>0, FrameIs DEF MainPCs, ClientPCs, Updating
    <3>2. Suits(g) /\ g.pc = "refresh_loop"
      BY <2>1, VisitSuits DEF IInv
    <3>3. stk' = <<f, g>> \o Tail(stk)
      BY <2>1, <2>3
    <3> HIDE DEF f, g
    <3>4. f.pc \in Calls(g.pc)
      BY <3>1, <3>2 DEF IsFrame, Calls, Updating
    <3> QED  BY <2>1, <3>1, <3>2, <3>3, <3>4, QuietCall DEF IsFrame
  <2> QED  BY <1>3, <2>2, <2>3 DEF RefreshLoop, MReturn
<1> QED  BY <1>1, <1>2, <1>3 DEF vnc_refresh
\* A function goes on with its next loop.
LEMMA NewSuits ==
  ASSUME StackOK, stk # << >>, NEW f, NEW p, NEW todo, IsFrame(f, p, None, todo),
         p \notin ClientPCs, stk[1].pc \notin Joining,
         \A x : stk[1].pc \in Calls(x) => p \in Calls(x)
  PROVE  Suits(f)
BY Caller DEF IsFrame, Suits, Calls

\* vnc_dpy_resize, after the jobs have been aborted.
LEMMA ResizeKeeps ==
  ASSUME IInv, ResizeSurface \/ ResizeSend
  PROVE  IInv'
<1> USE DEF Special, Joining, Locking, Joined
<1>1. CASE ResizeSurface
  <2> DEFINE f == Frame("resize_send", None, Live)
  <2>1. /\ stk # << >> /\ stk[1].pc = "resize_surface" /\ Quietly /\ stk' = <<f>> \o Tail(stk)
    BY <1>1, AtTop, QuietView, ClientsSame DEF IInv, ResizeSurface
  <2>2. IsFrame(f, "resize_send", None, Live)
    BY FrameIs, LiveClients DEF MainPCs, Resizing
  <2> HIDE DEF f
  <2>3. Suits(f)
    BY <2>1, <2>2, NewSuits, Families DEF IInv, ClientPCs, Updating, Sending, Resizing
  <2> QED  BY <2>1, <2>2, <2>3, QuietReplace DEF IsFrame
<1>2. CASE ResizeSend
  <2>1. stk # << >> /\ stk[1].pc = "resize_send" /\ Head(stk) = stk[1] /\ Quietly /\ stk[1] \in Frames
    BY <1>2, AtTop, QuietView DEF IInv, ResizeSend
  <2>2. CASE stk' = Tail(stk)
    BY <2>1, <2>2, QuietReturn
  <2>3. ASSUME NEW c \in Clients,
               LET rest == <<[Head(stk) EXCEPT !.todo = @ \ {c}]>> \o Tail(stk) IN
               \/ stk' = rest
               \/ \E flushed \in BOOLEAN :
                    stk' = <<[Frame("send", c, {}) EXCEPT !.flag = ~flushed]>> \o rest
        PROVE  IInv'
    <3> DEFINE g == [stk[1] EXCEPT !.todo = @ \ {c}]
    <3>1. Suits(g) /\ g.pc = "resize_send"
      BY <2>1, VisitSuits DEF IInv
    <3>2. \/ stk' = <<g>> \o Tail(stk)
          \/ \E b \in BOOLEAN : stk' = <<[Frame("send", c, {}) EXCEPT !.flag = b]>> \o (<<g>> \o Tail(stk))
      BY <2>1, <2>3
    <3> HIDE DEF g
    <3>3. CASE stk' = <<g>> \o Tail(stk)
      BY <2>1, <3>1, <3>3, QuietReplace
    <3>4. ASSUME NEW b \in BOOLEAN,
                 stk' = <<[Frame("send", c, {}) EXCEPT !.flag = b]>> \o (<<g>> \o Tail(stk))
          PROVE  IInv'
      <4> DEFINE f == [Frame("send", c, {}) EXCEPT !.flag = b]
      <4>1. IsFrame(f, "send", c, {})
        BY FrameIs DEF MainPCs, ClientPCs, Sending
      <4> HIDE DEF f
      <4>2. Tail(stk) \in Seq(Frames)
        BY <2>1 DEF IInv, StackOK
      <4>3. <<f>> \o (<<g>> \o Tail(stk)) = <<f, g>> \o Tail(stk)
        BY <4>1, <4>2, <3>1 DEF IsFrame, Suits
      <4>4. f.pc \in Calls(g.pc)
        BY <3>1, <4>1 DEF IsFrame, Calls, Sending
      <4> QED  BY <2>1, <3>1, <3>4, <4>1, <4>3, <4>4, QuietCall DEF IsFrame, f
    <3> QED  BY <3>2, <3>3, <3>4
  <2> QED  BY <1>2, <2>2, <2>3 DEF ResizeSend, MReturn
<1> QED  BY <1>1, <1>2

\* vnc_dpy_copy
LEMMA CopyKeeps ==
  ASSUME IInv, vnc_dpy_copy
  PROVE  IInv'
<1> USE DEF Special, Joining, Locking, Joined
<1>1. CASE CopyRefresh
  <2> DEFINE f == Frame("copy_update", None, Live \cap CopyRect)
  <2>1. /\ stk # << >> /\ stk[1].pc = "copy" /\ Quietly /\ stk' = <<f>> \o Tail(stk)
    BY <1>1, AtTop, QuietView, ClientsSame DEF IInv, CopyRefresh
  <2>2. IsFrame(f, "copy_update", None, Live \cap CopyRect)
    BY FrameIs, LiveClients DEF MainPCs
  <2> HIDE DEF f
  <2>3. Suits(f)
    BY <2>1, <2>2, NewSuits, Families DEF IInv, ClientPCs, Updating, Sending, Resizing
  <2> QED  BY <2>1, <2>2, <2>3, QuietReplace DEF IsFrame
<1>2. CASE CopyUpdate
  <2>1. stk # << >> /\ stk[1].pc = "copy_update" /\ Head(stk) = stk[1] /\ stk[1] \in Frames
        /\ cpc[Main] = "out"
    BY <1>2, AtTop DEF IInv, CopyUpdate
  <2>2. CASE UNCHANGED cl /\ MGo("copy_move")
    <3> DEFINE f == [stk[1] EXCEPT !.pc = "copy_move"]
    <3>1. Quietly
      BY <1>2, <2>1, <2>2, QuietView, ClientsSame DEF IInv, CopyUpdate
    <3>2. Suits(f) /\ f.pc = "copy_move"
      BY <2>1, GoSuits, Families DEF IInv, MainPCs, ClientPCs, Updating, Sending, Resizing
    <3>3. stk' = <<f>> \o Tail(stk)
      BY <2>1, <2>2 DEF MGo
    <3> HIDE DEF f
    <3> QED  BY <2>1, <3>1, <3>2, <3>3, QuietReplace
  <2>3. ASSUME NEW c \in Clients,
               cl' = [cl EXCEPT ![c].force = TRUE],
               stk' = <<[Frame("update", c, {}) EXCEPT !.flag = TRUE], Frame("join", c, {}),
                        [Head(stk) EXCEPT !.todo = @ \ {c}]>> \o Tail(stk)
        PROVE  IInv'
    <3> DEFINE f == [Frame("update", c, {}) EXCEPT !.flag = TRUE]
               h == Frame("join", c, {})
               g == [stk[1] EXCEPT !.todo = @ \ {c}]
    <3>1. Quietly
      BY <1>2, <2>1, <2>3, QuietView, ClientsSame DEF IInv, CopyUpdate
    <3>2. IsFrame(f, "update", c, {}) /\ IsFrame(h, "join", c, {})
      BY FrameIs DEF MainPCs, ClientPCs, Updating
    <3>3. Suits(g) /\ g.pc = "copy_update"
      BY <2>1, VisitSuits DEF IInv
    <3>4. Tail(stk) = << >>
      BY <2>1, Bottom DEF IInv, Updating, Sending, Resizing
    <3>5. stk' = <<f, h, g>> \o << >>
      BY <2>1, <2>3, <3>4
    <3> HIDE DEF f, g, h
    <3>6. /\ stk' = <<f, h, g>> /\ stk' \in Seq(Frames)
          /\ Len(stk') = 3 /\ stk'[1] = f /\ stk'[2] = h /\ stk'[3] = g
      BY <3>2, <3>3, <3>5 DEF IsFrame, Suits
    <3>7. f.pc \in Calls(h.pc) /\ h.pc \in Calls(g.pc)
      BY <3>2, <3>3 DEF IsFrame, Calls, Updating
    <3>8. \A i \in 1 .. Len(stk') : stk'[i] \in {f, g, h}
      BY <3>6
    <3>9. \A x \in {f, g, h} : x.pc \notin Special \ {"join"} /\ (x.pc \in ClientPCs => x.c \in Clients)
      BY <3>2, <3>3 DEF IsFrame, Suits
    <3>10. stk' # << >>
      BY <3>6
    <3> QED  BY <3>1, <3>6, <3>7, <3>8, <3>9, <3>10, QuietNew
  <2> QED  BY <1>2, <2>2, <2>3 DEF CopyUpdate
<1>3. CASE CopyMove
  <2> DEFINE f == Frame("copy_send", None, Live \cap CopyRect)
  <2>1. /\ stk # << >> /\ stk[1].pc = "copy_move" /\ Quietly /\ stk' = <<f>> \o Tail(stk)
    BY <1>3, AtTop, QuietView, ClientsSame DEF IInv, CopyMove
  <2>2. IsFrame(f, "copy_send", None, Live \cap CopyRect)
    BY FrameIs, LiveClients DEF MainPCs
  <2> HIDE DEF f
  <2>3. Suits(f)
    BY <2>1, <2>2, NewSuits, Families DEF IInv, ClientPCs, Updating, Sending, Resizing
  <2> QED  BY <2>1, <2>2, <2>3, QuietReplace DEF IsFrame
<1>4. CASE CopySend
  <2>1. stk # << >> /\ stk[1].pc = "copy_send" /\ Head(stk) = stk[1] /\ Quietly /\ stk[1] \in Frames
    BY <1>4, AtTop, QuietView DEF IInv, CopySend
  <2>2. CASE stk' = Tail(stk)
    BY <2>1, <2>2, QuietReturn
  <2>3. ASSUME NEW c \in Clients,
               stk' = <<Frame("send", c, {}), [Head(stk) EXCEPT !.todo = @ \ {c}]>> \o Tail(stk)
        PROVE  IInv'
    <3> DEFINE f == Frame("send", c, {})
               g == [stk[1] EXCEPT !.todo = @ \ {c}]
    <3>1. IsFrame(f, "send", c, {})
      BY FrameIs DEF MainPCs, ClientPCs, Sending
    <3>2. Suits(g) /\ g.pc = "copy_send"
      BY <2>1, VisitSuits DEF IInv
    <3>3. stk' = <<f, g>> \o Tail(stk)
      BY <2>1, <2>3
    <3> HIDE DEF f, g
    <3>4. f.pc \in Calls(g.pc)
      BY <3>1, <3>2 DEF IsFrame, Calls, Sending
    <3> QED  BY <2>1, <3>1, <3>2, <3>3, <3>4, QuietCall DEF IsFrame
  <2> QED  BY <1>4, <2>2, <2>3 DEF CopySend, MReturn
<1> QED  BY <1>1, <1>2, <1>3, <1>4 DEF vnc_dpy_copy

\* One frame, or one call, for an event that wakes the main loop.
LEMMA FreshStack ==
  ASSUME IInv, Quietly, NEW p \in MainPCs, NEW c \in Clients \cup {None}, NEW todo \in SUBSET Clients,
         p \in ClientPCs => c \in Clients, p \notin Special,
         \/ stk' = <<Frame(p, c, todo)>>
         \/ \E q \in MainPCs, d \in Clients \cup {None}, todo2 \in SUBSET Clients :
              /\ q \in ClientPCs => d \in Clients
              /\ q \notin Special /\ q \in Calls(p)
              /\ stk' = <<Frame(q, d, todo2), Frame(p, c, todo)>>
  PROVE  IInv'
<1> DEFINE g == Frame(p, c, todo)
<1>1. IsFrame(g, p, c, todo)
  BY FrameIs
<1>2. CASE stk' = <<g>>
  <2> HIDE DEF g
  <2>1. stk' \in Seq(Frames) /\ Len(stk') = 1 /\ stk'[1] = g
    BY <1>1, <1>2 DEF IsFrame
  <2>2. stk' # << >>
    BY <2>1
  <2> QED  BY <1>1, <2>1, <2>2, QuietNew DEF IsFrame
<1>3. ASSUME NEW q \in MainPCs, NEW d \in Clients \cup {None}, NEW todo2 \in SUBSET Clients,
             q \in ClientPCs => d \in Clients, q \notin Special, q \in Calls(p),
             stk' = <<Frame(q, d, todo2), g>>
      PROVE  IInv'
  <2> DEFINE f == Frame(q, d, todo2)
  <2>1. IsFrame(f, q, d, todo2)
    BY FrameIs
  <2>2. stk' = <<f, g>>
    BY <1>3
  <2> HIDE DEF f, g
  <2>3. stk' \in Seq(Frames) /\ Len(stk') = 2 /\ stk'[1] = f /\ stk'[2] = g
    BY <1>1, <2>1, <2>2 DEF IsFrame
  <2>4. stk' # << >>
    BY <2>3
  <2>5. \A i \in 1 .. Len(stk') : stk'[i] \in {f, g}
    BY <2>3
  <2> QED  BY <1>1, <1>3, <2>1, <2>3, <2>4, <2>5, QuietNew DEF IsFrame
<1> QED  BY <1>2, <1>3
----------------------------------------------------------------------------
(* Output buffers.                                                         *)

Pieces == {"whole", "head", "rest"}

\* What may be appended to a buffer nobody is writing a message to.
LEMMA IntactAppend ==
  ASSUME NEW o \in Seq(Pieces), NEW l, NEW m, NEW x \in Pieces, IntactOf(o, l),
         l # Main \/ x = "rest", x = "head" => m = Main
  PROVE  IntactOf(Append(o, x), m)
<1>1. /\ Len(Append(o, x)) = Len(o) + 1 /\ Len(o) \in Nat
      /\ Append(o, x)[Len(o) + 1] = x
      /\ \A i \in 1 .. Len(o) : Append(o, x)[i] = o[i]
      /\ DOMAIN Append(o, x) = 1 .. Len(o) + 1 /\ DOMAIN o = 1 .. Len(o)
  OBVIOUS
<1> DEFINE a == Append(o, x)
<1> HIDE DEF a
<1>2. SUFFICES ASSUME NEW i \in 1 .. Len(o) + 1, a[i] = "head"
               PROVE  IF i < Len(a) THEN a[i + 1] = "rest" ELSE m = Main
  BY <1>1 DEF IntactOf, a
<1>3. CASE i = Len(o) + 1
  BY <1>1, <1>2, <1>3 DEF a
<1>4. CASE i # Len(o) + 1
  <2>1. i \in 1 .. Len(o) /\ o[i] = "head" /\ i < Len(a)
    BY <1>1, <1>2, <1>4 DEF a
  <2>2. CASE i < Len(o)
    <3>1. i + 1 \in 1 .. Len(o) /\ o[i + 1] = "rest"
      BY <1>1, <2>1, <2>2 DEF IntactOf
    <3> QED  BY <1>1, <2>1, <3>1 DEF a
  <2>3. CASE ~(i < Len(o))
    <3>0. Len(o) \in Nat /\ i \in 1 .. Len(o) /\ ~(i < Len(o))
      BY <2>1, <2>3
    <3> DEFINE n == Len(o)
    <3> HIDE DEF n
    <3>1. i = Len(o)
      BY <3>0 DEF n
    <3>2. l = Main
      BY <1>1, <2>1, <2>3 DEF IntactOf
    <3> QED  BY <1>1, <2>1, <3>1, <3>2 DEF a
  <2> QED  BY <2>2, <2>3
<1> QED  BY <1>3, <1>4

\* Sending takes pieces from the front.
LEMMA IntactSuffix ==
  ASSUME NEW o \in Seq(Pieces), NEW l, IntactOf(o, l), NEW n \in 0 .. Len(o)
  PROVE  IntactOf(SubSeq(o, n + 1, Len(o)), l) /\ SubSeq(o, n + 1, Len(o)) \in Seq(Pieces)
<1> DEFINE a == SubSeq(o, n + 1, Len(o))
<1>1. /\ a \in Seq(Pieces) /\ Len(a) = Len(o) - n /\ DOMAIN a = 1 .. Len(a)
      /\ Len(o) \in Nat /\ DOMAIN o = 1 .. Len(o)
      /\ \A i \in 1 .. Len(a) : a[i] = o[n + i]
  BY SubSeqProperties
<1> HIDE DEF a
<1>2. SUFFICES ASSUME NEW i \in 1 .. Len(a), a[i] = "head"
               PROVE  IF i < Len(a) THEN a[i + 1] = "rest" ELSE l = Main
  BY <1>1 DEF IntactOf, a
<1>3. n + i \in 1 .. Len(o) /\ o[n + i] = "head"
  BY <1>1, <1>2
<1>4. CASE i < Len(a)
  <2>1. n + i < Len(o) /\ i + 1 \in 1 .. Len(a)
    BY <1>1, <1>4
  <2>2. o[(n + i) + 1] = "rest"
    BY <1>1, <1>3, <2>1 DEF IntactOf
  <2>3. a[i + 1] = o[n + (i + 1)] /\ n + (i + 1) = (n + i) + 1
    BY <1>1, <2>1
  <2> QED  BY <1>4, <2>2, <2>3
<1>5. CASE ~(i < Len(a))
  <2>1. ~(n + i < Len(o))
    BY <1>1, <1>5
  <2> QED  BY <1>1, <1>3, <1>5, <2>1 DEF IntactOf
<1> QED  BY <1>4, <1>5

\* Only an owner of the lock other than the main loop changes.
LEMMA IntactLock ==
  ASSUME NEW o, NEW l, NEW m, IntactOf(o, l), l # Main
  PROVE  IntactOf(o, m)
BY DEF IntactOf

\* vnc_client_write_locked, for a client whose lock is free.
LEMMA WriteKeeps ==
  ASSUME IInv, NEW c \in Clients, WriteLocked(c)
  PROVE  KeptClients
<1>1. /\ cl \in [Clients -> ClientType] /\ \A d \in Clients : cl[d].csock => cl[d].live
      /\ \A d \in Clients : IntactOf(cl[d].out, olock[d])
  BY DEF IInv, TypeOK, LiveOK, OutOK, OutputIntact, IntactOf
<1>2. CASE cl' = [cl EXCEPT ![c] = Disconnected(@)]
  BY <1>2, ClientsSame, SameKept DEF IInv
<1>3. ASSUME NEW n \in 0 .. Len(cl[c].out),
             cl' = [cl EXCEPT ![c].out = SubSeq(@, n + 1, Len(@))]
      PROVE  KeptClients
  <2> DEFINE o == SubSeq(cl[c].out, n + 1, Len(cl[c].out))
             v == [cl[c] EXCEPT !.out = o]
  <2>1. cl[c] \in ClientType /\ cl[c].out \in Seq(Pieces)
    BY <1>1 DEF ClientType, Pieces
  <2>2. IntactOf(o, olock[c]) /\ o \in Seq(Pieces)
    BY <1>1, <1>3, <2>1, IntactSuffix
  <2>3. cl' = [cl EXCEPT ![c] = v]
    BY <1>3
  <2> HIDE DEF o
  <2>4. v \in ClientType /\ v.live = cl[c].live /\ v.csock = cl[c].csock /\ v.out = o
    BY <2>1, <2>2 DEF ClientType, Pieces
  <2> HIDE DEF v
  <2>5. cl' \in [Clients -> ClientType] /\ \A d \in Clients : cl'[d] = IF d = c THEN v ELSE cl[d]
    BY <1>1, <2>3, <2>4
  <2> QED  BY <1>1, <2>2, <2>4, <2>5 DEF KeptClients, LivesKept
<1> QED  BY <1>2, <1>3 DEF WriteLocked

\* vnc_flush
LEMMA FlushKeeps ==
  ASSUME IInv, vnc_flush
  PROVE  IInv'
<1>1. stk # << >> /\ stk[1].pc = "flush" /\ Cur \in Clients /\ cpc[Main] = "out"
  BY AtTop DEF IInv, vnc_flush, ClientPCs, Sending
<1>2. KeptClients
  BY <1>1, WriteKeeps, ClientsSame, SameKept DEF IInv, vnc_flush
<1>3. Quietly /\ stk' = Tail(stk)
  BY <1>1, <1>2 DEF IInv, TypeOK, vnc_flush, MReturn, Quietly
<1> QED  BY <1>1, <1>3, QuietReturn DEF Joining

----------------------------------------------------------------------------
(* Events.                                                                 *)

\* An idle main loop is outside the queue's calls.
LEMMA IdleOut ==
  ASSUME IInv, Idle
  PROVE  cpc[Main] = "out"
<1>1. cpc[Main] \in Q!PCs /\ cpc[Main] \notin Q!SignalPCs
  BY DEF IInv, TypeOK, Q!TypeOK, QueueOK, ThreadOK
<1> QED  BY <1>1 DEF IInv, MutexOK, Idle, InPc, Q!PCs

\* vnc_connect: a client that is not there has no jobs and no messages.
LEMMA ConnectKept ==
  ASSUME IInv, NEW c \in Clients, vnc_connect(c)
  PROVE  KeptClients
<1>1. /\ cl \in [Clients -> ClientType] /\ \A d \in Clients : cl[d].csock => cl[d].live
      /\ \A d \in Clients : IntactOf(cl[d].out, olock[d])
  BY DEF IInv, TypeOK, LiveOK, OutOK, OutputIntact, IntactOf
<1> DEFINE v == [Fresh EXCEPT !.live = TRUE, !.csock = TRUE, !.out = <<"whole">>]
           w == <<"whole">>
<1>2. w \in Seq(Pieces) /\ DOMAIN w = 1 .. 1 /\ w[1] = "whole" /\ w = <<"whole">>
  BY DEF Pieces
<1>3. IntactOf(w, olock[c])
  BY <1>2 DEF IntactOf
<1>4. v = [Fresh EXCEPT !.live = TRUE, !.csock = TRUE, !.out = w]
  OBVIOUS
<1> HIDE DEF w, v
<1>5. v \in ClientType /\ v.live /\ v.out = w
  BY <1>2, <1>4 DEF Fresh, ClientType, Pieces
<1>6. cl' = [cl EXCEPT ![c] = v]
  BY DEF vnc_connect, v
<1>7. cl' \in [Clients -> ClientType] /\ \A d \in Clients : cl'[d] = IF d = c THEN v ELSE cl[d]
  BY <1>1, <1>5, <1>6
<1> QED  BY <1>1, <1>3, <1>5, <1>7 DEF KeptClients, LivesKept

\* What wakes the main loop.
LEMMA EventKeeps ==
  ASSUME IInv, Event
  PROVE  IInv'
<1> USE DEF Special, Joining, Locking, Joined, MainPCs, ClientPCs, Updating, Sending, Resizing
<1>1. Idle /\ cpc[Main] = "out"
  <2>1. Idle
    BY DEF Event, Tick, Resize, BitBlt, vnc_connect, ReadError, ReadAck, vnc_client_write, ReadRequest
  <2> QED  BY <2>1, IdleOut
<1>2. CASE Tick
  BY <1>1, <1>2, QuietView, FreshStack DEF Tick
<1>3. CASE Resize
  BY <1>1, <1>3, QuietView, FreshStack, LiveClients DEF Resize
<1>4. CASE BitBlt
  BY <1>1, <1>4, QuietView, FreshStack DEF BitBlt
<1>5. ASSUME NEW c \in Clients, vnc_connect(c) PROVE IInv'
  <2>1. Quietly
    BY <1>1, <1>5, ConnectKept DEF IInv, TypeOK, vnc_connect, Quietly
  <2>2. stk' = <<Frame("flush", c, {}), Frame("init_timer", None, {})>>
    BY <1>5 DEF vnc_connect
  <2>3. "flush" \in Calls("init_timer")
    BY DEF Calls
  <2> QED  BY <2>1, <2>2, <2>3, FreshStack
<1>6. ASSUME NEW c \in Clients, ReadError(c) PROVE IInv'
  <2>1. SameClients
    BY <1>6, ClientsSame DEF IInv, ReadError
  <2>2. Quietly /\ stk' = <<Frame("finish", c, {})>>
    BY <1>1, <1>6, <2>1, QuietView DEF ReadError
  <2> QED  BY <2>2, FreshStack
<1>7. ASSUME NEW c \in Clients, ReadAck(c) PROVE IInv'
  <2>1. "send" \in Calls("read_done")
    BY DEF Calls
  <2> QED  BY <1>1, <1>7, <2>1, QuietView, FreshStack DEF ReadAck
<1>8. ASSUME NEW c \in Clients, vnc_client_write(c) PROVE IInv'
  BY <1>1, <1>8, QuietView, FreshStack DEF vnc_client_write
<1>9. ASSUME NEW c \in Clients, NEW b \in BOOLEAN, ReadRequest(c, b) PROVE IInv'
  <2> DEFINE a == ~b
  <2>1. cl' = [cl EXCEPT ![c].need = TRUE, ![c].force = @ \/ a, ![c].dirty = @ \/ a] /\ a \in BOOLEAN
    BY <1>9 DEF ReadRequest
  <2> HIDE DEF a
  <2>2. SameClients
    BY <2>1, ClientsSame DEF IInv
  <2>3. Quietly
    BY <1>1, <1>9, <2>2, QuietView DEF ReadRequest
  <2>4. stk' = << >> /\ stk = << >> /\ jobs' = jobs
    BY <1>1, <1>9 DEF ReadRequest, Idle
  <2>5. StackOK' /\ JoinOK'
    BY <2>4 DEF IInv, StackOK, JoinOK, InPc
  <2> QED  BY <2>3, <2>4, <2>5, QuietKept
<1> QED  BY <1>2, <1>3, <1>4, <1>5, <1>6, <1>7, <1>8, <1>9 DEF Event

\* The end of vnc_connect, and of an answer.
LEMMA BottomKeeps ==
  ASSUME IInv, vnc_init_timer \/ ReadDone
  PROVE  IInv'
<1> USE DEF Special, Joining, Locking, Joined
<1>1. CASE vnc_init_timer
  <2>1. stk # << >> /\ stk[1].pc = "init_timer" /\ cpc[Main] = "out"
    BY <1>1, AtTop DEF IInv, vnc_init_timer
  <2>2. Quietly
    BY <1>1, <2>1, ClientsSame, SameKept DEF IInv, TypeOK, vnc_init_timer, Quietly
  <2>3. CASE stk' = Tail(stk)
    BY <2>1, <2>2, <2>3, QuietReturn
  <2>4. CASE stk' = <<Frame("resize", None, Live), Frame("refresh", None, {})>>
    <3>1. "resize" \in Calls("refresh")
      BY DEF Calls, Resizing
    <3> QED  BY <2>2, <2>4, <3>1, FreshStack, LiveClients DEF MainPCs, ClientPCs, Updating, Sending, Resizing
  <2> QED  BY <1>1, <2>3, <2>4 DEF vnc_init_timer
<1>2. CASE ReadDone
  <2>1. stk # << >> /\ stk[1].pc = "read_done" /\ Head(stk) = stk[1] /\ Quietly
    BY <1>2, AtTop, QuietView DEF IInv, ReadDone
  <2>2. CASE stk' = Tail(stk)
    BY <2>1, <2>2, QuietReturn
  <2>3. CASE stk' = <<[stk[1] EXCEPT !.pc = "finish"]>> \o Tail(stk)
    <3> DEFINE f == [stk[1] EXCEPT !.pc = "finish"]
    <3>1. Suits(f) /\ f.pc = "finish"
      BY <2>1, GoSuits, Families DEF IInv, MainPCs, ClientPCs, Updating, Sending, Resizing
    <3> HIDE DEF f
    <3> QED  BY <2>1, <2>3, <3>1, QuietReplace DEF f
  <2> QED  BY <1>2, <2>1, <2>2, <2>3 DEF ReadDone, MGo, MReturn
<1> QED  BY <1>1, <1>2
----------------------------------------------------------------------------
(* Steps of the main loop that use the queue, write a message or free a    *)
(* client.                                                                 *)

\* What depends on neither the stack nor the queue's lock is kept.
LEMMA RestKept ==
  ASSUME IInv, UNCHANGED <<jobs, workerVars>>, LivesKept
  PROVE  /\ JobsOK' /\ (\A c \in Clients : cl[c].csock => cl[c].live)'
         /\ jobs' \in Seq([vs : Clients, rects : 1 .. MaxRects]) /\ cl' \in [Clients -> ClientType]
         /\ job' \in [vs : Clients \cup {None}, rects : 0 .. MaxRects] /\ local' \in BOOLEAN
<1>1. JobStaysQueued' /\ (wpc = "encode" => job.rects > 0)'
  BY DEF IInv, JobsOK, JobStaysQueued, workerVars, Vs
<1>2. \A i \in DOMAIN jobs : jobs[i].vs \in Clients
  <2>1. DOMAIN jobs = 1 .. Len(jobs)
    BY DEF IInv, TypeOK
  <2> QED  BY <2>1, JobsTyped DEF IInv
<1>3. Working => Vs \in Clients
  BY JobClient DEF IInv, JobsOK
<1>4. JobsUseLiveClients'
  BY <1>2, <1>3 DEF IInv, JobsOK, JobsUseLiveClients, LivesKept, workerVars, Vs, Working
<1> QED  BY <1>1, <1>4 DEF JobsOK, LivesKept, IInv, TypeOK, workerVars

\* A step with the queue's lock that changes neither jobs nor clients.
LEMMA LockStep ==
  ASSUME IInv, NEW t \in {Main, Worker}, QueueAct(t),
         UNCHANGED <<jobs, dlock, olock, cl, timer, job, local>>, wpc' = wpc \/ t = Worker,
         StackOK', JoinOK', MutexOK', LiveOK', JobsOK', OutOK'
  PROVE  IInv'
<1>1. Q!TypeOK' /\ QueueOK'
  BY QueueKept DEF IInv, TypeOK
<1> QED  BY <1>1 DEF IInv, TypeOK

\* vnc_jobs_join
LEMMA JoinKeeps ==
  ASSUME IInv, vnc_jobs_join
  PROVE  IInv'
<1>0. LivesKept /\ UNCHANGED <<jobs, dlock, olock, cl, timer, workerVars>>
  BY ClientsSame, SameKept DEF IInv, KeptClients, vnc_jobs_join, JoinLock, JoinWait, JoinDone
<1>1. JobsOK' /\ (\A c \in Clients : cl[c].csock => cl[c].live)'
  BY <1>0, RestKept
<1>2. CASE JoinLock
  <2> DEFINE f == [stk[1] EXCEPT !.pc = "join_test"]
  <2>1. stk # << >> /\ stk[1].pc = "join" /\ Head(stk) = stk[1] /\ cpc[Main] = "out"
    BY <1>2, AtTop DEF IInv, JoinLock
  <2>2. Suits(f) /\ f.pc = "join_test" /\ f.c = stk[1].c
    BY <2>1, GoSuits, Families DEF IInv, MainPCs, ClientPCs, Joining
  <2>3. stk' = <<f>> \o Tail(stk)
    BY <1>2, <2>1 DEF JoinLock, MGo
  <2> HIDE DEF f
  <2>4. /\ StackOK' /\ stk' # << >> /\ stk'[1] = f /\ Len(stk') = Len(stk)
        /\ \A i \in 2 .. Len(stk) : stk'[i] = stk[i]
    BY <2>1, <2>2, <2>3, ReplaceOK DEF IInv
  <2>5. JoinOK'
    BY <1>0, <2>1, <2>2, <2>4 DEF IInv, JoinOK, InPc
  <2>6. Q!qemu_mutex_lock(Main) /\ UNCHANGED <<cpc, wpc>> /\ owner' = Main /\ owner = None
    BY <1>0, <1>2 DEF JoinLock, Q!qemu_mutex_lock, workerVars
  <2>7. MutexOK'
    BY <2>1, <2>2, <2>4, <2>6, VncAssumption DEF IInv, MutexOK, InPc, Q!WaitPCs, Q!BroadcastPCs
  <2>8. LiveOK' /\ OutOK'
    BY <1>0, <1>1, <2>2, <2>4 DEF IInv, LiveOK, OutOK, OutputIntact, InPc, workerVars, Vs
  <2> QED  BY <1>0, <1>1, <2>4, <2>5, <2>6, <2>7, <2>8, LockStep DEF QueueAct, workerVars
<1>3. CASE JoinWait
  <2>1. stk # << >> /\ stk[1].pc = "join_test" /\ cpc[Main] = "out"
    BY <1>3, AtTop DEF IInv, JoinWait
  <2>2. owner = Main
    BY <2>1 DEF IInv, MutexOK, InPc, Q!WaitPCs
  <2>3. Q!qemu_cond_wait(Main) /\ UNCHANGED <<stk, owner, wpc>> /\ cpc' = [cpc EXCEPT ![Main] = "wait_store"]
    BY <1>0, <1>3 DEF JoinWait, Q!qemu_cond_wait, Q!Goto, workerVars
  <2>4. StackOK' /\ JoinOK'
    BY <1>0, <2>3 DEF IInv, StackOK, JoinOK, InPc, HasJob
  <2>5. MutexOK'
    BY <2>1, <2>2, <2>3, VncAssumption DEF IInv, TypeOK, Q!TypeOK, MutexOK, InPc, Q!WaitPCs, Q!BroadcastPCs
  <2>6. LiveOK' /\ OutOK'
    BY <1>0, <1>1, <2>3 DEF IInv, LiveOK, OutOK, OutputIntact, InPc, workerVars, Vs
  <2> QED  BY <1>0, <1>1, <2>2, <2>3, <2>4, <2>5, <2>6, LockStep DEF QueueAct, workerVars
<1>4. CASE JoinDone
  <2>1. stk # << >> /\ stk[1].pc = "join_test" /\ cpc[Main] = "out" /\ Cur = stk[1].c
    BY <1>4, AtTop DEF IInv, JoinDone
  <2>2. stk' = Tail(stk) /\ ~HasJob(Cur)
    BY <1>4 DEF JoinDone, MReturn
  <2>3. StackOK' /\ Len(stk') = Len(stk) - 1 /\ Len(stk) \in Nat \ {0}
        /\ (\A i \in 1 .. Len(stk) - 1 : stk'[i] = stk[i + 1])
        /\ (stk' # << >> => Len(stk) > 1 /\ stk'[1] = stk[2] /\ stk[1].pc \in Calls(stk[2].pc))
    BY <2>1, <2>2, ReturnOK DEF IInv, StackOK
  <2>4. stk' # << >> => stk'[1].pc \in {"finish_lock", "abort_join", "copy_update"}
    BY <2>1, <2>3 DEF Calls, Joining, Updating, Sending, Resizing
  <2>5. InPc({"finish_lock"})' => ~HasJob(stk[1].c)'
    <3>1. InPc({"finish_lock"})' => stk'[1].c = Cur
      BY <2>1, <2>3, Caller DEF IInv, InPc
    <3> QED  BY <1>0, <2>2, <3>1 DEF HasJob
  <2>6. ASSUME NEW i \in 1 .. Len(stk'), stk'[i].pc = "abort_join", NEW j \in 1 .. Len(jobs)
        PROVE  jobs[j].vs \in stk'[i].todo \cup (IF i = 1 THEN {} ELSE {stk'[1].c})
    <3>1. i + 1 \in 1 .. Len(stk) /\ stk'[i] = stk[i + 1] /\ i + 1 # 1
      BY <2>3
    <3>2. jobs[j].vs \in stk[i + 1].todo \cup {stk[1].c}
      BY <3>1, <2>6 DEF IInv, JoinOK
    <3>3. jobs[j].vs # Cur
      BY <2>2 DEF HasJob, IInv, TypeOK
    <3> QED  BY <2>1, <3>1, <3>2, <3>3
  <2>7. JoinOK'
    BY <1>0, <2>4, <2>5, <2>6 DEF JoinOK, InPc
  <2>8. Q!qemu_mutex_unlock(Main) /\ UNCHANGED <<cpc, wpc>> /\ owner' = None /\ owner = Main
    BY <1>0, <1>4 DEF JoinDone, Q!qemu_mutex_unlock, workerVars
  <2>9. MutexOK'
    BY <2>1, <2>4, <2>8, VncAssumption DEF IInv, MutexOK, InPc, Q!WaitPCs, Q!BroadcastPCs
  <2>10. LiveOK' /\ OutOK'
    BY <1>0, <1>1, <2>4 DEF IInv, LiveOK, OutOK, OutputIntact, InPc, workerVars, Vs
  <2> QED  BY <1>0, <1>1, <2>3, <2>7, <2>8, <2>9, <2>10, LockStep DEF QueueAct, workerVars
<1> QED  BY <1>2, <1>3, <1>4 DEF vnc_jobs_join
\* A piece is appended to a client's buffer.
LEMMA AppendClient ==
  ASSUME IInv, NEW c \in Clients, NEW x \in Pieces, Append1(c, x)
  PROVE  /\ LivesKept /\ cl[c].out \in Seq(Pieces) /\ IntactOf(cl[c].out, olock[c])
         /\ \A d \in Clients : cl'[d].out = IF d = c THEN Append(cl[c].out, x) ELSE cl[d].out
<1>1. /\ cl \in [Clients -> ClientType] /\ \A d \in Clients : cl[d].csock => cl[d].live
      /\ \A d \in Clients : IntactOf(cl[d].out, olock[d])
  BY DEF IInv, TypeOK, LiveOK, OutOK, OutputIntact, IntactOf
<1> DEFINE o == Append(cl[c].out, x)
           v == [cl[c] EXCEPT !.out = o]
<1>2. cl[c] \in ClientType /\ cl[c].out \in Seq(Pieces)
  BY <1>1 DEF ClientType, Pieces
<1>3. o \in Seq(Pieces)
  BY <1>2
<1>4. cl' = [cl EXCEPT ![c] = v]
  BY DEF Append1
<1> HIDE DEF o
<1>5. v \in ClientType /\ v.live = cl[c].live /\ v.csock = cl[c].csock /\ v.out = o
  BY <1>2, <1>3 DEF ClientType, Pieces
<1> HIDE DEF v
<1>6. cl' \in [Clients -> ClientType] /\ \A d \in Clients : cl'[d] = IF d = c THEN v ELSE cl[d]
  BY <1>1, <1>4, <1>5
<1> QED  BY <1>1, <1>2, <1>5, <1>6 DEF LivesKept, o

\* A step of the main loop outside the queue's calls, in the middle of a message.
LEMMA OutputKept ==
  ASSUME IInv, UNCHANGED <<queueVars, jobs, dlock, timer, workerVars>>, LivesKept,
         olock' \in [Clients -> {Main, Worker, None}],
         StackOK', JoinOK', OutOK', stk' = << >> \/ stk'[1].pc \notin Locking \ {"send_rest"},
         cpc[Main] = "out"
  PROVE  IInv'
<1>1. TypeOK' /\ JobsOK' /\ LiveOK'
  BY RestKept DEF IInv, TypeOK, Q!TypeOK, queueVars, LiveOK, InPc, Locking
<1>2. QueueOK'
  BY DEF IInv, QueueOK, ThreadOK, Meets, Counts, queueVars
<1>3. MutexOK'
  BY DEF IInv, MutexOK, queueVars, workerVars, InPc, Locking, Q!WaitPCs, Q!BroadcastPCs
<1> QED  BY <1>1, <1>2, <1>3 DEF IInv

\* A message in two pieces, under the client's output lock.
LEMMA SendKeeps ==
  ASSUME IInv, SendMessage
  PROVE  IInv'
<1>1. CASE SendLock
  <2> DEFINE f == [stk[1] EXCEPT !.pc = "send_rest"]
  <2>1. /\ stk # << >> /\ stk[1].pc = "send" /\ Head(stk) = stk[1] /\ cpc[Main] = "out"
        /\ Cur = stk[1].c /\ Cur \in Clients
    BY <1>1, AtTop DEF IInv, SendLock, ClientPCs, Sending
  <2>2. Suits(f) /\ f.pc = "send_rest" /\ f.c = Cur
    BY <2>1, GoSuits, Families DEF IInv, MainPCs, ClientPCs, Sending
  <2>3. stk' = <<f>> \o Tail(stk)
    BY <1>1, <2>1 DEF SendLock, MGo
  <2> HIDE DEF f
  <2>4. UNCHANGED <<queueVars, jobs, dlock, timer, workerVars>>
    BY <1>1 DEF SendLock
  <2>5. StackOK' /\ JoinOK' /\ stk' # << >> /\ stk'[1] = f
    BY <2>1, <2>2, <2>3, <2>4, JoinReplaced DEF Joining, Joined
  <2>7. Append1(Cur, "head") /\ olock[Cur] = None /\ olock' = [olock EXCEPT ![Cur] = Main]
    BY <1>1 DEF SendLock, MainLock
  <2>8. /\ LivesKept /\ cl[Cur].out \in Seq(Pieces) /\ IntactOf(cl[Cur].out, None)
        /\ \A d \in Clients : cl'[d].out = IF d = Cur THEN Append(cl[Cur].out, "head") ELSE cl[d].out
    BY <2>1, <2>7, AppendClient DEF Pieces
  <2>9. /\ olock' \in [Clients -> {Main, Worker, None}] /\ olock'[Cur] = Main
        /\ \A d \in Clients : d # Cur => olock'[d] = olock[d]
    BY <2>1, <2>7 DEF IInv, TypeOK
  <2>10. IntactOf(Append(cl[Cur].out, "head"), Main)
    BY <2>8, IntactAppend, VncAssumption DEF Pieces
  <2>11. \A d \in Clients : IntactOf(cl'[d].out, olock'[d])
    BY <2>8, <2>9, <2>10 DEF IInv, OutOK, OutputIntact, IntactOf
  <2>12. wpc = "end" => Vs # Cur /\ Vs \in Clients
    BY <2>7, JobClient, VncAssumption DEF IInv, OutOK, JobsOK, Working
  <2>13. OutOK'
    BY <2>2, <2>4, <2>5, <2>9, <2>11, <2>12 DEF IInv, OutOK, OutputIntact, IntactOf, InPc, workerVars, Vs
  <2> QED  BY <2>1, <2>2, <2>4, <2>5, <2>8, <2>9, <2>13, OutputKept DEF Locking
<1>2. CASE SendRest
  <2>1. /\ stk # << >> /\ stk[1].pc = "send_rest" /\ Head(stk) = stk[1] /\ cpc[Main] = "out"
        /\ Cur = stk[1].c /\ Cur \in Clients
    BY <1>2, AtTop DEF IInv, SendRest, ClientPCs, Sending
  <2>2. UNCHANGED <<queueVars, jobs, dlock, timer, workerVars>>
    BY <1>2 DEF SendRest
  <2>3. Append1(Cur, "rest") /\ olock' = [olock EXCEPT ![Cur] = None]
    BY <1>2 DEF SendRest, MainUnlock
  <2>4. olock[Cur] = Main
    BY <2>1 DEF IInv, OutOK, InPc
  <2>5. /\ LivesKept /\ cl[Cur].out \in Seq(Pieces) /\ IntactOf(cl[Cur].out, Main)
        /\ \A d \in Clients : cl'[d].out = IF d = Cur THEN Append(cl[Cur].out, "rest") ELSE cl[d].out
    BY <2>1, <2>3, <2>4, AppendClient DEF Pieces
  <2>6. /\ olock' \in [Clients -> {Main, Worker, None}] /\ olock'[Cur] = None
        /\ \A d \in Clients : d # Cur => olock'[d] = olock[d]
    BY <2>1, <2>3 DEF IInv, TypeOK
  <2>7. IntactOf(Append(cl[Cur].out, "rest"), None)
    BY <2>5, IntactAppend DEF Pieces
  <2>8. \A d \in Clients : IntactOf(cl'[d].out, olock'[d])
    BY <2>5, <2>6, <2>7 DEF IInv, OutOK, OutputIntact, IntactOf
  <2>9. wpc = "end" => Vs # Cur /\ Vs \in Clients
    BY <2>4, JobClient, VncAssumption DEF IInv, OutOK, JobsOK, Working
  <2>10. (stk' = << >> \/ stk'[1].pc # "send_rest") => OutOK'
    BY <2>2, <2>6, <2>8, <2>9 DEF IInv, OutOK, OutputIntact, IntactOf, InPc, workerVars, Vs
  <2>11. CASE stk' = Tail(stk)
    <3>1. StackOK' /\ JoinOK' /\ (stk' = << >> \/ stk'[1].pc \notin Special \ {"join"})
      BY <2>1, <2>11, JoinReturned DEF Joining
    <3> QED  BY <2>1, <2>2, <2>5, <2>6, <2>10, <3>1, OutputKept DEF Special, Locking
  <2>12. CASE stk' = <<[stk[1] EXCEPT !.pc = "flush"]>> \o Tail(stk)
    <3> DEFINE f == [stk[1] EXCEPT !.pc = "flush"]
    <3>1. Suits(f) /\ f.pc = "flush"
      BY <2>1, GoSuits, Families DEF IInv, MainPCs, ClientPCs, Sending
    <3>2. stk' = <<f>> \o Tail(stk)
      BY <2>12
    <3> HIDE DEF f
    <3>3. StackOK' /\ JoinOK' /\ stk' # << >> /\ stk'[1] = f
      BY <2>1, <2>2, <3>1, <3>2, JoinReplaced DEF Joining, Joined
    <3> QED  BY <2>1, <2>2, <2>5, <2>6, <2>10, <3>1, <3>3, OutputKept DEF Locking
  <2> QED  BY <1>2, <2>1, <2>11, <2>12 DEF SendRest, MGo, MReturn
<1> QED  BY <1>1, <1>2 DEF SendMessage
\* vnc_disconnect_finish: no job of the client is left when it is freed.
LEMMA FinishKeeps ==
  ASSUME IInv, vnc_disconnect_finish
  PROVE  IInv'
<1>1. CASE FinishJoin
  <2> DEFINE f == Frame("join", Cur, {})
             g == [stk[1] EXCEPT !.pc = "finish_lock"]
  <2>1. /\ stk # << >> /\ stk[1].pc = "finish" /\ Head(stk) = stk[1] /\ Quietly
        /\ Cur = stk[1].c /\ Cur \in Clients
    BY <1>1, AtTop, QuietView DEF IInv, FinishJoin, ClientPCs, Updating
  <2>2. IsFrame(f, "join", Cur, {})
    BY <2>1, FrameIs DEF MainPCs, ClientPCs, Joining
  <2>3. Suits(g) /\ g.pc = "finish_lock" /\ g.c = Cur
    BY <2>1, GoSuits, Families DEF IInv, MainPCs, ClientPCs, Updating
  <2>4. stk' = <<f, g>> \o Tail(stk)
    BY <1>1, <2>1 DEF FinishJoin, MCall
  <2> HIDE DEF f, g
  <2>5. f.pc \in Calls(g.pc)
    BY <2>2, <2>3 DEF IsFrame, Calls, Joining
  <2> QED  BY <2>1, <2>2, <2>3, <2>4, <2>5, QuietCall DEF IsFrame, Joining, Special, Locking, Joined
<1>2. CASE FinishFree
  <2>1. /\ stk # << >> /\ stk[1].pc = "finish_lock" /\ cpc[Main] = "out"
        /\ Cur = stk[1].c /\ Cur \in Clients
    BY <1>2, AtTop DEF IInv, FinishFree, ClientPCs, Updating
  <2>2. /\ UNCHANGED <<queueVars, jobs, dlock, olock, workerVars>> /\ stk' = Tail(stk)
        /\ timer' \in BOOLEAN /\ cl' = [cl EXCEPT ![Cur] = Fresh]
    BY <1>2 DEF IInv, TypeOK, FinishFree, MReturn
  <2>3. StackOK' /\ JoinOK' /\ (stk' = << >> \/ stk'[1].pc \notin Locking)
    BY <2>1, <2>2, JoinReturned DEF Joining, Special, Locking
  <2>4. Fresh \in ClientType /\ ~Fresh.csock /\ Fresh.out = << >>
    BY DEF Fresh, ClientType
  <2>5. cl' \in [Clients -> ClientType] /\ \A d \in Clients : cl'[d] = IF d = Cur THEN Fresh ELSE cl[d]
    BY <2>1, <2>2, <2>4 DEF IInv, TypeOK
  <2>6. \A i \in DOMAIN jobs : jobs[i].vs # Cur /\ jobs[i].vs \in Clients
    <3>1. ~HasJob(Cur)
      BY <2>1 DEF IInv, JoinOK, InPc
    <3>2. DOMAIN jobs = 1 .. Len(jobs)
      BY DEF IInv, TypeOK
    <3> QED  BY <3>1, <3>2, JobsTyped DEF IInv, HasJob
  <2>7. Working => Vs \in Clients /\ Vs # Cur
    <3>1. Working => Vs \in Clients /\ 1 \in DOMAIN jobs /\ jobs[1].vs = Vs
      BY JobClient DEF IInv, JobsOK, TypeOK
    <3> QED  BY <2>6, <3>1
  <2>8. JobsOK'
    <3>1. JobStaysQueued' /\ (wpc = "encode" => job.rects > 0)'
      BY <2>2 DEF IInv, JobsOK, JobStaysQueued, workerVars, Vs
    <3>2. JobsUseLiveClients'
      BY <2>2, <2>5, <2>6, <2>7 DEF IInv, JobsOK, JobsUseLiveClients, workerVars, Vs, Working
    <3> QED  BY <3>1, <3>2 DEF JobsOK
  <2>9. LiveOK'
    BY <2>3, <2>4, <2>5 DEF IInv, LiveOK, InPc, Locking
  <2>10. OutOK'
    <3>1. IntactOf(<< >>, olock[Cur])
      BY DEF IntactOf
    <3>2. \A d \in Clients : IntactOf(cl'[d].out, olock'[d])
      BY <2>2, <2>4, <2>5, <3>1 DEF IInv, OutOK, OutputIntact, IntactOf
    <3> QED  BY <2>2, <2>3, <3>2 DEF IInv, OutOK, OutputIntact, IntactOf, InPc, Locking, workerVars, Vs
  <2>11. TypeOK'
    BY <2>2, <2>5 DEF IInv, TypeOK, Q!TypeOK, queueVars, workerVars
  <2>12. QueueOK'
    BY <2>2 DEF IInv, QueueOK, ThreadOK, Meets, Counts, queueVars
  <2>13. MutexOK'
    BY <2>1, <2>2, <2>3 DEF IInv, MutexOK, queueVars, workerVars, InPc, Locking, Q!WaitPCs, Q!BroadcastPCs
  <2> QED  BY <2>3, <2>8, <2>9, <2>10, <2>11, <2>12, <2>13 DEF IInv
<1> QED  BY <1>1, <1>2 DEF vnc_disconnect_finish

\* vnc_job_push, for a client that is there.
LEMMA PushKeeps ==
  ASSUME IInv, PushLock \/ Push \/ PushUnlock
  PROVE  IInv'
<1>1. CASE PushLock
  <2> DEFINE f == [stk[1] EXCEPT !.pc = "push"]
  <2>1. /\ stk # << >> /\ stk[1].pc = "update" /\ Head(stk) = stk[1] /\ cpc[Main] = "out"
        /\ Cur = stk[1].c /\ Cur \in Clients
    BY <1>1, AtTop DEF IInv, PushLock, ClientPCs, Updating
  <2>2. Suits(f) /\ f.pc = "push" /\ f.c = Cur
    BY <2>1, GoSuits, Families DEF IInv, MainPCs, ClientPCs, Updating
  <2>3. stk' = <<f>> \o Tail(stk) /\ UNCHANGED <<jobs, dlock, olock, cl, timer, workerVars>>
    BY <1>1, <2>1 DEF PushLock, MGo
  <2> HIDE DEF f
  <2>4. StackOK' /\ JoinOK' /\ stk' # << >> /\ stk'[1] = f
    BY <2>1, <2>2, <2>3, JoinReplaced DEF Joining, Joined
  <2>5. Q!qemu_mutex_lock(Main) /\ UNCHANGED <<cpc, wpc>> /\ owner' = Main /\ owner = None
    BY <1>1, <2>3 DEF PushLock, Q!qemu_mutex_lock, workerVars
  <2>6. MutexOK'
    BY <2>1, <2>2, <2>4, <2>5, VncAssumption DEF IInv, MutexOK, InPc, Q!WaitPCs, Q!BroadcastPCs
  <2>7. JobsOK' /\ (\A c \in Clients : cl[c].csock => cl[c].live)'
    BY <2>3, RestKept, ClientsSame, SameKept DEF IInv, KeptClients
  <2>8. LiveOK' /\ OutOK'
    BY <1>1, <2>1, <2>2, <2>3, <2>4, <2>7
       DEF IInv, LiveOK, OutOK, OutputIntact, InPc, workerVars, Vs, PushLock, WantsUpdate
  <2> QED  BY <2>3, <2>4, <2>5, <2>6, <2>7, <2>8, LockStep DEF QueueAct, workerVars
<1>2. CASE Push
  <2> DEFINE f == [stk[1] EXCEPT !.pc = "push_unlock"]
  <2>1. /\ stk # << >> /\ stk[1].pc = "push" /\ Head(stk) = stk[1] /\ cpc[Main] = "out"
        /\ Cur = stk[1].c /\ Cur \in Clients /\ owner = Main /\ cl[Cur].live
    BY <1>2, AtTop DEF IInv, Push, ClientPCs, Updating, MutexOK, LiveOK, InPc, Q!WaitPCs
  <2>2. Suits(f) /\ f.pc = "push_unlock"
    BY <2>1, GoSuits, Families DEF IInv, MainPCs, ClientPCs, Updating
  <2>3. stk' = <<f>> \o Tail(stk) /\ UNCHANGED <<dlock, olock, timer, workerVars>>
    BY <1>2, <2>1 DEF Push, MGo
  <2> HIDE DEF f
  <2>4. /\ StackOK' /\ stk' # << >> /\ stk'[1] = f /\ Len(stk') = Len(stk) /\ Len(stk) \in Nat
        /\ \A i \in 2 .. Len(stk) : stk'[i] = stk[i]
    BY <2>1, <2>2, <2>3, ReplaceOK DEF IInv, StackOK
  <2>5. JoinOK'
    <3>1. Len(stk) > 1 => stk[2].pc # "abort_join"
      BY <2>1, Caller DEF IInv, Calls, Joining
    <3>2. \A i \in 1 .. Len(stk') : stk'[i].pc # "abort_join"
      BY <2>2, <2>4, <3>1 DEF StackOK
    <3> QED  BY <2>2, <2>4, <3>2 DEF JoinOK, InPc
  <2>6. SameClients
    BY <1>2, <2>1, ClientsSame DEF IInv, Push
  <2>7. \A c \in Clients : cl'[c].live = cl[c].live /\ cl'[c].out = cl[c].out
    BY <2>6 DEF SameClients
  <2>8. /\ cl' \in [Clients -> ClientType] /\ (\A c \in Clients : cl'[c].csock => cl'[c].live)
    BY <2>6 DEF SameClients, IInv, LiveOK
  <2>9. LiveOK' /\ OutOK'
    BY <2>2, <2>3, <2>4, <2>7, <2>8 DEF IInv, LiveOK, OutOK, OutputIntact, InPc, workerVars, Vs
  <2>10. CASE UNCHANGED <<jobs, queueVars>>
    <3>1. JobsOK' /\ TypeOK'
      BY <2>3, <2>6, <2>8, <2>10, RestKept, SameKept DEF IInv, KeptClients, TypeOK, Q!TypeOK, queueVars
    <3>2. QueueOK'
      BY <2>10 DEF IInv, QueueOK, ThreadOK, Meets, Counts, queueVars
    <3>3. MutexOK'
      BY <2>1, <2>2, <2>3, <2>4, <2>10
         DEF IInv, MutexOK, queueVars, workerVars, InPc, Q!WaitPCs, Q!BroadcastPCs
    <3> QED  BY <2>4, <2>5, <2>9, <3>1, <3>2, <3>3 DEF IInv
  <2>11. ASSUME NEW n \in 1 .. MaxRects, jobs' = Append(jobs, [vs |-> Cur, rects |-> n]),
                Q!qemu_cond_broadcast(Main)
         PROVE  IInv'
    <3> DEFINE J == [vs : Clients, rects : 1 .. MaxRects]
               j == [vs |-> Cur, rects |-> n]
    <3>1. j \in J /\ j.vs = Cur
      BY <2>1
    <3>2. jobs \in Seq(J) /\ jobs' = Append(jobs, j)
      BY <2>11 DEF IInv, TypeOK
    <3> HIDE DEF J, j
    <3>3. /\ jobs' \in Seq(J) /\ DOMAIN jobs' = 1 .. Len(jobs) + 1 /\ Len(jobs) \in Nat
          /\ DOMAIN jobs = 1 .. Len(jobs)
          /\ jobs'[Len(jobs) + 1] = j /\ \A i \in 1 .. Len(jobs) : jobs'[i] = jobs[i]
      BY <3>1, <3>2
    <3>4. jobs' # << >> /\ (jobs # << >> => Head(jobs') = Head(jobs))
      BY <3>1, <3>2, <3>3
    <3>5. \A i \in DOMAIN jobs : jobs[i].vs \in Clients
      BY <3>3, JobsTyped DEF IInv
    <3>6. Working => Vs \in Clients
      BY JobClient DEF IInv, JobsOK
    <3>7. JobStaysQueued' /\ (wpc = "encode" => job.rects > 0)'
      BY <2>3, <3>4 DEF IInv, JobsOK, JobStaysQueued, workerVars, Vs
    <3>8. \A i \in DOMAIN jobs' : cl'[jobs'[i].vs].live
      BY <2>1, <2>7, <3>1, <3>3, <3>5 DEF IInv, JobsOK, JobsUseLiveClients
    <3>9. JobsUseLiveClients'
      BY <2>3, <2>7, <3>6, <3>8 DEF IInv, JobsOK, JobsUseLiveClients, workerVars, Vs, Working
    <3>10. Q!TypeOK' /\ QueueOK'
      BY <2>11, QueueKept DEF IInv, TypeOK, QueueAct
    <3>11. TypeOK'
      BY <2>3, <2>8, <3>3, <3>10 DEF IInv, TypeOK, workerVars, J
    <3>12. owner' = owner /\ cpc' = [cpc EXCEPT ![Main] = IF waiters = 0 THEN "out" ELSE "bc_target"]
      BY <2>11 DEF Q!qemu_cond_broadcast, Q!Goto
    <3>13. /\ cpc'[Main] \in {"out", "bc_target"} /\ cpc'[Worker] = cpc[Worker]
      BY <3>12, VncAssumption DEF IInv, TypeOK, Q!TypeOK
    <3>14. MutexOK'
      BY <2>1, <2>2, <2>3, <2>4, <3>12, <3>13
         DEF IInv, MutexOK, workerVars, InPc, Q!WaitPCs, Q!BroadcastPCs
    <3> QED  BY <2>4, <2>5, <2>9, <3>7, <3>9, <3>10, <3>11, <3>14 DEF IInv, JobsOK
  <2> QED  BY <1>2, <2>10, <2>11 DEF Push
<1>3. CASE PushUnlock
  <2>1. /\ stk # << >> /\ stk[1].pc = "push_unlock" /\ cpc[Main] = "out"
    BY <1>3, AtTop DEF IInv, PushUnlock
  <2>2. stk' = Tail(stk) /\ UNCHANGED <<jobs, dlock, olock, cl, timer, workerVars>>
    BY <1>3 DEF PushUnlock, MReturn
  <2>3. StackOK' /\ JoinOK' /\ (stk' = << >> \/ stk'[1].pc \notin Locking)
    BY <2>1, <2>2, JoinReturned DEF Joining, Special, Locking
  <2>4. Q!qemu_mutex_unlock(Main) /\ UNCHANGED <<cpc, wpc>> /\ owner' = None /\ owner = Main
    BY <1>3, <2>2 DEF PushUnlock, Q!qemu_mutex_unlock, workerVars
  <2>5. MutexOK'
    BY <2>1, <2>3, <2>4, VncAssumption DEF IInv, MutexOK, InPc, Locking, Q!WaitPCs, Q!BroadcastPCs
  <2>6. JobsOK' /\ (\A c \in Clients : cl[c].csock => cl[c].live)'
    BY <2>2, RestKept, ClientsSame, SameKept DEF IInv, KeptClients
  <2>7. LiveOK' /\ OutOK'
    BY <2>2, <2>3, <2>6 DEF IInv, LiveOK, OutOK, OutputIntact, InPc, Locking, workerVars, Vs
  <2> QED  BY <2>2, <2>3, <2>4, <2>5, <2>6, <2>7, LockStep DEF QueueAct, workerVars
<1> QED  BY <1>1, <1>2, <1>3
\* A frame of vnc_abort_display_jobs is replaced, and what it has joined is known.
LEMMA AbortReplace ==
  ASSUME IInv, Quietly, stk # << >>, stk[1].pc \in Resizing, NEW f, Suits(f),
         stk' = <<f>> \o Tail(stk), f.pc \in Resizing,
         f.pc \in {"abort_reset", "resize_surface"} => jobs = << >>,
         f.pc = "abort_join" => \A j \in 1 .. Len(jobs) : jobs[j].vs \in f.todo
  PROVE  IInv'
<1>1. StackOK' /\ stk' # << >> /\ stk'[1] = f /\ Len(stk') = Len(stk)
      /\ (\A i \in 2 .. Len(stk) : stk'[i] = stk[i]) /\ Len(stk) \in Nat
  BY ReplaceOK DEF IInv, StackOK
<1>2. Len(stk) > 1 => stk[2].pc # "abort_join"
  BY Caller DEF IInv, Calls, Joining, Resizing
<1>3. jobs' = jobs
  BY DEF Quietly
<1>4. JoinOK'
  BY <1>1, <1>2, <1>3 DEF IInv, JoinOK, StackOK, InPc, Resizing
<1> QED  BY <1>1, <1>4, QuietKept DEF Locking, Resizing

\* A loop over the clients in vnc_abort_display_jobs.
LEMMA AbortLoopKeeps ==
  ASSUME IInv, NEW p \in Resizing \ {"abort_join"}, NEW value \in BOOLEAN, NEW next \in Resizing,
         AbortLoop(p, value, next),
         next \in {"abort_reset", "resize_surface"} => jobs = << >>,
         p \in {"abort_reset", "resize_surface"} => jobs = << >>
  PROVE  IInv'
<1>1. stk # << >> /\ stk[1].pc = p /\ Head(stk) = stk[1] /\ cpc[Main] = "out"
  BY AtTop DEF IInv, AbortLoop
<1>2. p \notin Joining /\ next \notin ClientPCs
  BY DEF Resizing, Joining, ClientPCs, Updating, Sending
<1>3. UNCHANGED <<queueVars, jobs, dlock, olock, timer, workerVars>>
  BY DEF AbortLoop
<1>4. CASE stk' = <<Frame(next, None, Live)>> \o Tail(stk) /\ UNCHANGED cl
  <2> DEFINE f == Frame(next, None, Live)
  <2>1. Quietly
    BY <1>1, <1>3, <1>4, QuietView, ClientsSame DEF IInv
  <2>2. IsFrame(f, next, None, Live)
    BY FrameIs, LiveClients DEF MainPCs
  <2>3. stk' = <<f>> \o Tail(stk)
    BY <1>4
  <2> HIDE DEF f
  <2>4. Suits(f)
    BY <1>1, <1>2, <2>2, NewSuits, Families DEF IInv
  <2>5. \A j \in 1 .. Len(jobs) : jobs[j].vs \in Live
    <3>1. DOMAIN jobs = 1 .. Len(jobs)
      BY DEF IInv, TypeOK
    <3> QED  BY <3>1, JobsTyped DEF IInv, JobsOK, JobsUseLiveClients, Live
  <2> QED  BY <1>1, <2>1, <2>2, <2>3, <2>4, <2>5, AbortReplace DEF IsFrame
<1>5. ASSUME NEW c \in Clients, cl' = [cl EXCEPT ![c].abort = value],
             stk' = <<[Head(stk) EXCEPT !.todo = @ \ {c}]>> \o Tail(stk)
      PROVE  IInv'
  <2> DEFINE f == [stk[1] EXCEPT !.todo = @ \ {c}]
  <2>1. SameClients
    BY <1>5, ClientsSame DEF IInv
  <2>2. Quietly
    BY <1>1, <1>3, <2>1, QuietView
  <2>3. Suits(f) /\ f.pc = p
    BY <1>1, VisitSuits DEF IInv
  <2>4. stk' = <<f>> \o Tail(stk)
    BY <1>1, <1>5
  <2> HIDE DEF f
  <2> QED  BY <1>1, <2>2, <2>3, <2>4, AbortReplace
<1> QED  BY <1>4, <1>5 DEF AbortLoop

\* vnc_abort_display_jobs: at its end no job is left.
LEMMA AbortKeeps ==
  ASSUME IInv, vnc_abort_display_jobs
  PROVE  IInv'
<1>1. CASE AbortLoop("resize", TRUE, "abort_join")
  BY <1>1, AbortLoopKeeps DEF Resizing
<1>2. CASE AbortLoop("abort_reset", FALSE, "resize_surface")
  <2>1. stk # << >> /\ stk[1].pc = "abort_reset"
    BY <1>2, AtTop DEF IInv, AbortLoop
  <2>2. jobs = << >>
    BY <2>1 DEF IInv, JoinOK, InPc
  <2> QED  BY <1>2, <2>2, AbortLoopKeeps DEF Resizing
<1>3. CASE AbortJoin
  <2>1. stk # << >> /\ stk[1].pc = "abort_join" /\ Head(stk) = stk[1] /\ Quietly /\ Len(stk) \in Nat \ {0}
    BY <1>3, AtTop, QuietView DEF IInv, AbortJoin
  <2>2. \A j \in 1 .. Len(jobs) : jobs[j].vs \in stk[1].todo
    BY <2>1 DEF IInv, JoinOK
  <2>3. CASE MLoopEnds /\ stk' = <<Frame("abort_reset", None, Live)>> \o Tail(stk)
    <3> DEFINE f == Frame("abort_reset", None, Live)
    <3>1. IsFrame(f, "abort_reset", None, Live)
      BY FrameIs, LiveClients DEF MainPCs, Resizing
    <3>2. stk' = <<f>> \o Tail(stk)
      BY <2>3
    <3> HIDE DEF f
    <3>3. Suits(f)
      BY <2>1, <3>1, NewSuits, Families DEF IInv, Joining, ClientPCs, Updating, Sending, Resizing
    <3>4. \A j \in 1 .. Len(jobs) : FALSE
      BY <2>1, <2>2, <2>3 DEF MLoopEnds
    <3>5. Len(jobs) = 0
      BY <3>4 DEF IInv, TypeOK
    <3>6. jobs = << >>
      BY <3>5, EmptySeq DEF IInv, TypeOK
    <3> QED  BY <2>1, <3>1, <3>2, <3>3, <3>6, AbortReplace DEF IsFrame, Resizing
  <2>4. ASSUME NEW c \in Clients,
               stk' = <<Frame("join", c, {}), [Head(stk) EXCEPT !.todo = @ \ {c}]>> \o Tail(stk)
        PROVE  IInv'
    <3> DEFINE f == Frame("join", c, {})
               g == [stk[1] EXCEPT !.todo = @ \ {c}]
    <3>1. IsFrame(f, "join", c, {})
      BY FrameIs DEF MainPCs, ClientPCs, Joining
    <3>2. Suits(g) /\ g.pc = "abort_join" /\ g.todo = stk[1].todo \ {c}
      BY <2>1, VisitSuits DEF IInv
    <3>3. stk' = <<f, g>> \o Tail(stk)
      BY <2>1, <2>4
    <3> HIDE DEF f, g
    <3>4. f.pc \in Calls(g.pc)
      BY <3>1, <3>2 DEF IsFrame, Calls, Joining
    <3>5. Len(stk) > 1 => stk[2].pc \notin {"finish_lock", "abort_join"}
      BY <2>1, Caller DEF IInv, Calls, Joining
    <3>6. StackOK' /\ stk' # << >> /\ stk'[1] = f /\ stk'[2] = g /\ Len(stk') = Len(stk) + 1
      BY <2>1, <3>1, <3>2, <3>3, <3>4, <3>5, CallOK DEF IInv, IsFrame
    <3>7. \A i \in 1 .. Len(stk') : stk'[i].pc = "abort_join" => i = 2
      <4> SUFFICES ASSUME NEW i \in 1 .. Len(stk'), stk'[i].pc = "abort_join" PROVE i = 2
        OBVIOUS
      <4>1. i <= 2 /\ i # 1
        BY <3>1, <3>6 DEF StackOK, IsFrame
      <4> QED  BY <4>1, <2>1, <3>6
    <3>8. \A j \in 1 .. Len(jobs) : jobs[j].vs \in g.todo \cup {f.c}
      BY <2>2, <3>1, <3>2 DEF IsFrame
    <3>9. jobs' = jobs
      BY <2>1 DEF Quietly
    <3>10. JoinOK'
      BY <3>1, <3>6, <3>7, <3>8, <3>9 DEF JoinOK, InPc, IsFrame
    <3> QED  BY <2>1, <3>1, <3>6, <3>10, QuietKept DEF IsFrame, Locking
  <2> QED  BY <1>3, <2>3, <2>4 DEF AbortJoin
<1> QED  BY <1>1, <1>2, <1>3 DEF vnc_abort_display_jobs

\* Every step of the main loop's thread.
LEMMA MainKeeps ==
  ASSUME IInv, MainStep
  PROVE  IInv'
<1>1. CASE vnc_jobs_join
  BY <1>1, JoinKeeps
<1>2. CASE vnc_flush
  BY <1>2, FlushKeeps
<1>3. CASE SendMessage
  BY <1>3, SendKeeps
<1>4. CASE vnc_disconnect_finish
  BY <1>4, FinishKeeps
<1>5. CASE vnc_update_client
  BY <1>5, UpdateQuiet, PushKeeps DEF vnc_update_client
<1>6. CASE vnc_refresh
  BY <1>6, RefreshKeeps
<1>7. CASE vnc_dpy_resize
  BY <1>7, AbortKeeps, ResizeKeeps DEF vnc_dpy_resize
<1>8. CASE vnc_dpy_copy
  BY <1>8, CopyKeeps
<1>9. CASE vnc_init_timer \/ ReadDone
  BY <1>9, BottomKeeps
<1> QED  BY <1>1, <1>2, <1>3, <1>4, <1>5, <1>6, <1>7, <1>8, <1>9 DEF MainStep

----------------------------------------------------------------------------
(* The worker.                                                             *)

\* The main loop's stack is not the worker's to change.
LEMMA StackSame ==
  ASSUME IInv, UNCHANGED <<stk, jobs>>
  PROVE  StackOK' /\ JoinOK'
BY DEF IInv, StackOK, JoinOK, InPc, HasJob

\* Where the worker waits for the display or an output lock, its job is at hand.
LEMMA AtWork ==
  ASSUME IInv, NEW p, WAt(p), p \notin {"loop", "test", "broadcast"}
  PROVE  /\ wpc = p /\ cpc[Worker] = "out" /\ Vs \in Clients /\ cl[Vs].live
         /\ jobs # << >> /\ Head(jobs).vs = Vs
BY JobClient DEF IInv, JobsOK, Working, WAt, JobsUseLiveClients, JobStaysQueued

\* A step of the worker that uses neither the queue nor an output buffer.
LEMMA WorkKept ==
  ASSUME IInv, UNCHANGED <<queueVars, jobs, timer, stk>>, LivesKept, cpc[Worker] = "out",
         dlock' \in {Main, Worker, None}, olock' \in [Clients -> {Main, Worker, None}],
         job' \in [vs : Clients \cup {None}, rects : 0 .. MaxRects], local' \in BOOLEAN,
         job'.vs = job.vs, Working, wpc' \notin {"loop", "test", "broadcast", "remove"},
         wpc' = "encode" => job'.rects > 0,
         OutOK'
  PROVE  IInv'
<1>1. StackOK' /\ JoinOK'
  BY StackSame
<1>2. TypeOK'
  BY DEF IInv, TypeOK, Q!TypeOK, LivesKept, queueVars
<1>3. QueueOK'
  BY DEF IInv, QueueOK, ThreadOK, Meets, Counts, queueVars
<1>4. MutexOK'
  BY DEF IInv, MutexOK, queueVars, InPc, Q!WaitPCs, Q!BroadcastPCs
<1>5. InPc({"push"}) => stk[1].c \in Clients
  BY DEF IInv, StackOK, InPc, ClientPCs, Updating
<1>6. LiveOK'
  BY <1>5 DEF IInv, LiveOK, LivesKept, InPc
<1>7. \A i \in DOMAIN jobs : jobs[i].vs \in Clients
  <2>1. DOMAIN jobs = 1 .. Len(jobs)
    BY DEF IInv, TypeOK
  <2> QED  BY <2>1, JobsTyped DEF IInv
<1>8. Vs \in Clients
  BY JobClient DEF IInv, JobsOK
<1>9. JobsOK'
  BY <1>7, <1>8 DEF IInv, JobsOK, JobStaysQueued, JobsUseLiveClients, LivesKept, Vs, Working
<1> QED  BY <1>1, <1>2, <1>3, <1>4, <1>6, <1>9 DEF IInv
\* The worker takes or gives up its client's output lock.
LEMMA OutLocked ==
  ASSUME IInv, Working, NEW l \in {Worker, None}, olock[Vs] # Main,
         olock' = [olock EXCEPT ![Vs] = l], UNCHANGED <<stk, job>>, wpc' = "end" => l = Worker,
         \A d \in Clients : IntactOf(cl'[d].out, IF d = Vs THEN l ELSE olock[d])
  PROVE  OutOK' /\ olock' \in [Clients -> {Main, Worker, None}]
<1>1. Vs \in Clients
  BY JobClient DEF IInv, JobsOK
<1>2. /\ olock' \in [Clients -> {Main, Worker, None}]
      /\ \A d \in Clients : olock'[d] = IF d = Vs THEN l ELSE olock[d]
  BY <1>1 DEF IInv, TypeOK
<1>3. InPc({"send_rest"}) => stk[1].c \in Clients /\ stk[1].c # Vs
  BY DEF IInv, OutOK, StackOK, InPc, ClientPCs, Sending
<1> QED  BY <1>1, <1>2, <1>3 DEF IInv, OutOK, OutputIntact, IntactOf, InPc, Vs

\* The output lock of the worker's client is free or the worker's.
LEMMA IntactVs ==
  ASSUME IInv, Working, olock[Vs] # Main, NEW l
  PROVE  \A d \in Clients : IntactOf(cl[d].out, IF d = Vs THEN l ELSE olock[d])
<1>1. \A d \in Clients : IntactOf(cl[d].out, olock[d])
  BY DEF IInv, OutOK, OutputIntact, IntactOf
<1> QED  BY <1>1, IntactLock

\* Handling a job: the locks are taken one at a time.
LEMMA WorkKeeps ==
  ASSUME IInv,
         WCheckGone \/ WCheck \/ WStart \/ WLockDisplay \/ WRect \/ WEncode \/ WRectsDone
           \/ WLockGone \/ WWrite \/ WEnd \/ WFlush
  PROVE  IInv'
<1>0. /\ job \in [vs : Clients \cup {None}, rects : 0 .. MaxRects] /\ local \in BOOLEAN
      /\ dlock \in {Main, Worker, None} /\ olock \in [Clients -> {Main, Worker, None}]
  BY DEF IInv, TypeOK
<1>1. UNCHANGED cl => LivesKept
  BY ClientsSame, SameKept DEF IInv, KeptClients
<1>2. UNCHANGED <<cl, olock, stk>> /\ job'.vs = job.vs /\ wpc' # "end" => OutOK'
  BY DEF IInv, OutOK, OutputIntact, InPc, Vs
<1>3. Main # Worker /\ None # Main
  BY VncAssumption
<1>4. CASE WCheckGone \/ WLockGone
  <2>1. /\ Working /\ cpc[Worker] = "out" /\ olock[Vs] # Main
        /\ UNCHANGED <<queueVars, jobs, dlock, timer, stk, cl, job>> /\ wpc' = "end"
        /\ olock' = [olock EXCEPT ![Vs] = Worker] /\ local' \in BOOLEAN
    BY <1>0, <1>3, <1>4, AtWork DEF WCheckGone, WLockGone, Working
  <2>2. \A d \in Clients : IntactOf(cl'[d].out, IF d = Vs THEN Worker ELSE olock[d])
    BY <2>1, IntactVs
  <2>3. OutOK' /\ olock' \in [Clients -> {Main, Worker, None}]
    BY <2>1, <2>2, OutLocked
  <2> QED  BY <1>0, <1>1, <2>1, <2>3, WorkKept
<1>5. CASE WCheck \/ WStart
  <2>1. /\ Working /\ cpc[Worker] = "out" /\ UNCHANGED <<workerView, job>>
        /\ wpc' \in {"start", "lock_display"}
    BY <1>5, AtWork DEF WCheck, WStart, Working
  <2>2. local' \in BOOLEAN
    BY <1>0, <1>5 DEF WCheck, WStart
  <2> QED  BY <1>0, <1>1, <1>2, <2>1, <2>2, WorkKept DEF workerView
<1>6. CASE WLockDisplay \/ WRectsDone
  <2>1. /\ Working /\ cpc[Worker] = "out" /\ UNCHANGED <<queueVars, jobs, olock, cl, timer, stk, job, local>>
        /\ wpc' \in {"rect", "lock_output", "lock_gone"} /\ dlock' \in {Main, Worker, None}
    BY <1>6, AtWork DEF WLockDisplay, WRectsDone, Working
  <2> QED  BY <1>0, <1>1, <1>2, <2>1, WorkKept
<1>7. CASE WRect
  <2>1. /\ Working /\ cpc[Worker] = "out" /\ UNCHANGED <<workerView, job, local>>
        /\ wpc' = "encode" /\ job.rects > 0
    BY <1>7, AtWork DEF WRect, Working
  <2> QED  BY <1>0, <1>1, <1>2, <2>1, WorkKept DEF workerView
<1>8. CASE WEncode
  <2>1. /\ Working /\ wpc = "encode" /\ cpc[Worker] = "out" /\ UNCHANGED <<workerView, local>>
        /\ wpc' = "rect" /\ job' = [job EXCEPT !.rects = @ - 1]
    BY <1>8, AtWork DEF WEncode, Working
  <2>2. job.rects \in 1 .. MaxRects
    BY <1>0, <2>1, VncAssumption DEF IInv, JobsOK
  <2>3. job' \in [vs : Clients \cup {None}, rects : 0 .. MaxRects] /\ job'.vs = job.vs
    BY <1>0, <2>1, <2>2, VncAssumption
  <2> QED  BY <1>0, <1>1, <1>2, <2>1, <2>3, WorkKept DEF workerView
<1>9. CASE WWrite
  <2>1. /\ Working /\ cpc[Worker] = "out" /\ olock[Vs] # Main /\ Vs \in Clients
        /\ UNCHANGED <<queueVars, jobs, dlock, timer, stk, job, local>> /\ wpc' = "end"
        /\ olock' = [olock EXCEPT ![Vs] = Worker]
    BY <1>3, <1>9, AtWork DEF WWrite, Working
  <2>2. LivesKept /\ \A d \in Clients : IntactOf(cl'[d].out, IF d = Vs THEN Worker ELSE olock[d])
    <3>1. CASE cl' = cl
      BY <1>1, <2>1, <3>1, IntactVs
    <3>2. CASE Append1(Vs, "whole")
      <4>1. /\ LivesKept /\ cl[Vs].out \in Seq(Pieces) /\ IntactOf(cl[Vs].out, olock[Vs])
            /\ \A d \in Clients : cl'[d].out = IF d = Vs THEN Append(cl[Vs].out, "whole") ELSE cl[d].out
        BY <2>1, <3>2, AppendClient DEF Pieces
      <4>2. IntactOf(Append(cl[Vs].out, "whole"), Worker)
        BY <2>1, <4>1, IntactAppend DEF Pieces
      <4>3. \A d \in Clients : IntactOf(cl[d].out, olock[d])
        BY DEF IInv, OutOK, OutputIntact, IntactOf
      <4> QED  BY <4>1, <4>2, <4>3
    <3> QED  BY <1>9, <3>1, <3>2 DEF WWrite
  <2>3. OutOK' /\ olock' \in [Clients -> {Main, Worker, None}]
    BY <2>1, <2>2, OutLocked
  <2> QED  BY <1>0, <2>1, <2>2, <2>3, WorkKept
<1>10. CASE WEnd
  <2>0. local' \in BOOLEAN
    BY <1>10 DEF WEnd
  <2>1. /\ Working /\ wpc = "end" /\ cpc[Worker] = "out"
        /\ UNCHANGED <<queueVars, jobs, dlock, timer, stk, cl, job>> /\ wpc' \in {"flush", "lock_queue"}
        /\ olock' = [olock EXCEPT ![Vs] = None]
    BY <1>10, AtWork DEF WEnd, Working
  <2>2. olock[Vs] # Main
    BY <1>3, <2>1 DEF IInv, OutOK
  <2>3. \A d \in Clients : IntactOf(cl'[d].out, IF d = Vs THEN None ELSE olock[d])
    BY <2>1, <2>2, IntactVs
  <2>4. OutOK' /\ olock' \in [Clients -> {Main, Worker, None}]
    BY <2>1, <2>2, <2>3, OutLocked
  <2> QED  BY <1>0, <1>1, <2>0, <2>1, <2>4, WorkKept
<1>11. CASE WFlush
  <2>1. /\ Working /\ cpc[Worker] = "out" /\ Vs \in Clients /\ wpc' = "lock_queue"
        /\ UNCHANGED <<queueVars, jobs, dlock, olock, timer, stk, job, local>>
    BY <1>11, AtWork DEF WFlush, Working
  <2>2. KeptClients
    BY <1>11, <2>1, WriteKeeps, ClientsSame, SameKept DEF IInv, WFlush
  <2>3. OutOK'
    BY <2>1, <2>2 DEF IInv, OutOK, OutputIntact, IntactOf, KeptClients, InPc, Vs
  <2> QED  BY <1>0, <2>1, <2>2, <2>3, WorkKept DEF KeptClients
<1> QED  BY <1>4, <1>5, <1>6, <1>7, <1>8, <1>9, <1>10, <1>11

\* A step of the worker with the queue's lock.
LEMMA WorkerLock ==
  ASSUME IInv, QueueAct(Worker), UNCHANGED <<dlock, olock, cl, timer, stk, local>>,
         jobs' \in Seq([vs : Clients, rects : 1 .. MaxRects]),
         job' \in [vs : Clients \cup {None}, rects : 0 .. MaxRects],
         wpc' \notin {"end", "encode"},
         MutexOK', JoinOK', JobStaysQueued', JobsUseLiveClients'
  PROVE  IInv'
<1>1. Q!TypeOK' /\ QueueOK'
  BY QueueKept DEF IInv, TypeOK
<1>2. TypeOK'
  BY <1>1 DEF IInv, TypeOK
<1>3. StackOK' /\ LiveOK'
  BY DEF IInv, StackOK, LiveOK, InPc
<1>4. OutOK'
  BY DEF IInv, OutOK, OutputIntact, InPc
<1> QED  BY <1>1, <1>2, <1>3, <1>4 DEF IInv, JobsOK

\* Taking a job from the queue, and putting an end to it.
LEMMA FetchKeeps ==
  ASSUME IInv, WLoop \/ WWait \/ WFetch \/ WLockQueue \/ WRemove \/ WBroadcast
  PROVE  IInv'
<1> DEFINE J == [vs : Clients, rects : 1 .. MaxRects]
<1>0. /\ job \in [vs : Clients \cup {None}, rects : 0 .. MaxRects] /\ jobs \in Seq(J)
  BY DEF IInv, TypeOK
<1>1. /\ Main # Worker /\ None # Main /\ None # Worker /\ cpc \in [{Main, Worker} -> Q!PCs]
  BY VncAssumption DEF IInv, TypeOK, Q!TypeOK
<1>2. \A j \in J : j \in [vs : Clients \cup {None}, rects : 0 .. MaxRects] /\ j.vs \in Clients
  BY VncAssumption
<1>3. NoJob \in [vs : Clients \cup {None}, rects : 0 .. MaxRects]
  BY VncAssumption DEF NoJob
<1> USE DEF Q!WaitPCs, Q!BroadcastPCs
<1>4. CASE WLoop \/ WLockQueue
  <2>1. /\ Q!qemu_mutex_lock(Worker) /\ wpc' \in {"test", "remove"} /\ cpc[Worker] = "out"
        /\ wpc' = "remove" => Working
        /\ UNCHANGED <<jobs, dlock, olock, cl, timer, stk, job, local>>
    BY <1>4 DEF WLoop, WLockQueue, WAt, Working
  <2>2. owner = None /\ owner' = Worker /\ cpc' = cpc
    BY <2>1 DEF Q!qemu_mutex_lock
  <2>3. MutexOK'
    BY <1>1, <2>1, <2>2 DEF IInv, MutexOK, InPc
  <2>4. StackOK' /\ JoinOK'
    BY <2>1, StackSame
  <2>5. JobStaysQueued' /\ JobsUseLiveClients'
    BY <2>1 DEF IInv, JobsOK, JobStaysQueued, JobsUseLiveClients, Vs, Working
  <2> QED  BY <1>0, <2>1, <2>3, <2>4, <2>5, WorkerLock DEF QueueAct
<1>5. CASE WWait
  <2>1. /\ Q!qemu_cond_wait(Worker) /\ wpc = "test" /\ cpc[Worker] = "out"
        /\ UNCHANGED <<jobs, dlock, olock, cl, timer, stk, job, local, wpc>>
    BY <1>5 DEF WWait, WAt, workerVars
  <2>2. owner = Worker
    BY <2>1 DEF IInv, MutexOK
  <2>3. owner' = owner /\ cpc'[Worker] = "wait_store" /\ cpc'[Main] = cpc[Main]
    BY <1>1, <2>1 DEF Q!qemu_cond_wait, Q!Goto
  <2>4. MutexOK'
    BY <1>1, <2>1, <2>2, <2>3 DEF IInv, MutexOK, InPc
  <2>5. StackOK' /\ JoinOK'
    BY <2>1, StackSame
  <2>6. JobStaysQueued' /\ JobsUseLiveClients'
    BY <2>1 DEF IInv, JobsOK, JobStaysQueued, JobsUseLiveClients, Vs
  <2> QED  BY <1>0, <2>1, <2>2, <2>4, <2>5, <2>6, WorkerLock DEF QueueAct
<1>6. CASE WFetch
  <2>1. /\ Q!qemu_mutex_unlock(Worker) /\ wpc = "test" /\ cpc[Worker] = "out" /\ wpc' = "lock"
        /\ jobs # << >> /\ job' = Head(jobs)
        /\ UNCHANGED <<jobs, dlock, olock, cl, timer, stk, local>>
    BY <1>6 DEF WFetch, WAt
  <2>2. owner = Worker /\ owner' = None /\ cpc' = cpc
    BY <2>1 DEF Q!qemu_mutex_unlock
  <2>3. MutexOK'
    BY <1>1, <2>1, <2>2 DEF IInv, MutexOK, InPc
  <2>4. StackOK' /\ JoinOK'
    BY <2>1, StackSame
  <2> HIDE DEF J
  <2>5. Head(jobs) \in J /\ Head(jobs) = jobs[1] /\ 1 \in DOMAIN jobs
    BY <1>0, <2>1
  <2>6. JobStaysQueued' /\ JobsUseLiveClients'
    BY <1>2, <2>1, <2>5 DEF IInv, JobsOK, JobStaysQueued, JobsUseLiveClients, Vs
  <2> QED  BY <1>0, <1>2, <2>1, <2>3, <2>4, <2>5, <2>6, WorkerLock DEF QueueAct, J
<1>7. CASE WRemove
  <2>1. /\ Q!qemu_mutex_unlock(Worker) /\ wpc = "remove" /\ cpc[Worker] = "out" /\ wpc' = "broadcast"
        /\ jobs' = Tail(jobs) /\ jobs # << >>
        /\ UNCHANGED <<dlock, olock, cl, timer, stk, job, local>>
    BY <1>7, AtWork DEF WRemove, WAt
  <2>2. owner = Worker /\ owner' = None /\ cpc' = cpc
    BY <2>1 DEF Q!qemu_mutex_unlock
  <2>3. MutexOK'
    BY <1>1, <2>1, <2>2 DEF IInv, MutexOK, InPc
  <2> HIDE DEF J
  <2>4. /\ jobs' \in Seq(J) /\ Len(jobs') = Len(jobs) - 1 /\ Len(jobs) \in Nat \ {0}
        /\ DOMAIN jobs = 1 .. Len(jobs) /\ DOMAIN jobs' = 1 .. Len(jobs')
        /\ \A i \in 1 .. Len(jobs') : jobs'[i] = jobs[i + 1] /\ i + 1 \in 1 .. Len(jobs)
    BY <1>0, <2>1
  <2>5. JoinOK'
    <3>1. ASSUME NEW c, ~HasJob(c) PROVE ~HasJob(c)'
      BY <2>4, <3>1 DEF HasJob
    <3>2. jobs # << >>
      BY <2>1
    <3> QED  BY <2>1, <2>4, <3>1, <3>2 DEF IInv, JoinOK, InPc
  <2>6. JobStaysQueued' /\ JobsUseLiveClients'
    BY <2>1, <2>4 DEF IInv, JobsOK, JobStaysQueued, JobsUseLiveClients, Vs
  <2> QED  BY <1>0, <2>1, <2>3, <2>4, <2>5, <2>6, WorkerLock DEF QueueAct, J
<1>8. CASE WBroadcast
  <2>1. /\ Q!qemu_cond_broadcast(Worker) /\ wpc = "broadcast" /\ cpc[Worker] = "out" /\ wpc' = "loop"
        /\ job' = NoJob /\ UNCHANGED <<jobs, dlock, olock, cl, timer, stk, local>>
    BY <1>8 DEF WBroadcast, WAt
  <2>2. owner' = owner /\ cpc'[Worker] \in {"out", "bc_target"} /\ cpc'[Main] = cpc[Main]
    BY <1>1, <2>1 DEF Q!qemu_cond_broadcast, Q!Goto
  <2>3. MutexOK'
    BY <1>1, <2>1, <2>2 DEF IInv, MutexOK, InPc
  <2>4. StackOK' /\ JoinOK'
    BY <2>1, StackSame
  <2>5. JobStaysQueued' /\ JobsUseLiveClients'
    BY <2>1 DEF IInv, JobsOK, JobStaysQueued, JobsUseLiveClients, Vs
  <2> QED  BY <1>0, <1>3, <2>1, <2>3, <2>4, <2>5, WorkerLock DEF QueueAct
<1> QED  BY <1>4, <1>5, <1>6, <1>7, <1>8

\* A step inside the queue's calls.
LEMMA QueueStepKeeps ==
  ASSUME IInv, NEW t \in {Main, Worker}, QueueStep(t)
  PROVE  IInv'
<1>1. Q!Step(t) /\ UNCHANGED <<jobs, dlock, olock, cl, timer, stk, wpc, job, local>>
  BY DEF QueueStep, workerVars
<1>2. StackOK' /\ JoinOK'
  BY <1>1, StackSame
<1>3. /\ Main # Worker /\ None # Main /\ None # Worker /\ cpc \in [{Main, Worker} -> Q!PCs]
      /\ owner \in {Main, Worker} \cup {None}
      /\ cpc[t] \in {"wait_store", "wait_unlock"} => owner = t
      /\ cpc[t] \notin Q!SignalPCs
  BY VncAssumption DEF IInv, TypeOK, Q!TypeOK, QueueOK, ThreadOK
<1>4. MutexOK'
  <2> USE <1>1, <1>3 DEF IInv, MutexOK, InPc, Q!Goto, Q!condVars, Q!WaitPCs, Q!BroadcastPCs, Q!SignalPCs
  <2>1. CASE Q!WaitStore(t)
    BY <2>1 DEF Q!WaitStore
  <2>2. CASE Q!WaitUnlock(t)
    BY <2>2 DEF Q!WaitUnlock
  <2>3. CASE Q!WaitSema(t)
    BY <2>3 DEF Q!WaitSema
  <2>4. CASE Q!WaitDec(t)
    BY <2>4 DEF Q!WaitDec
  <2>5. CASE Q!WaitCmp(t)
    BY <2>5 DEF Q!WaitCmp
  <2>6. CASE Q!WaitLock(t)
    BY <2>6 DEF Q!WaitLock
  <2>7. CASE Q!BcTarget(t)
    BY <2>7 DEF Q!BcTarget
  <2>8. CASE Q!BcRelease(t)
    BY <2>8 DEF Q!BcRelease
  <2>9. CASE Q!BcWait(t)
    BY <2>9 DEF Q!BcWait
  <2>10. CASE Q!SigTarget(t) \/ Q!SigRelease(t) \/ Q!SigWait(t)
    BY <2>10 DEF Q!SigTarget, Q!SigRelease, Q!SigWait
  <2> QED  BY <2>1, <2>2, <2>3, <2>4, <2>5, <2>6, <2>7, <2>8, <2>9, <2>10 DEF Q!Step
<1>5. LiveOK' /\ JobsOK' /\ OutOK'
  BY <1>1 DEF IInv, LiveOK, JobsOK, JobStaysQueued, JobsUseLiveClients, OutOK, OutputIntact, InPc, Vs
<1> QED  BY <1>1, <1>2, <1>4, <1>5, LockStep DEF QueueAct

----------------------------------------------------------------------------
(* The theorems.                                                           *)

\* Nobody is there at first.
LEMMA InitIInv == Init => IInv
<1> SUFFICES ASSUME Init PROVE IInv
  OBVIOUS
<1> USE VncAssumption DEF Init, Q!Init
<1>1. stk = << >> /\ jobs = << >> /\ wpc = "loop"
  OBVIOUS
<1>2. Fresh \in ClientType /\ ~Fresh.csock /\ Fresh.out = << >>
  BY DEF Fresh, ClientType
<1>3. TypeOK
  <2>1. Q!TypeOK
    BY DEF Q!TypeOK, Q!PCs
  <2>2. job \in [vs : Clients \cup {None}, rects : 0 .. MaxRects]
    BY DEF NoJob
  <2>3. timer \in BOOLEAN /\ local \in BOOLEAN
    BY Zenon
  <2>4. /\ jobs \in Seq([vs : Clients, rects : 1 .. MaxRects])
        /\ dlock \in {Main, Worker, None} /\ olock \in [Clients -> {Main, Worker, None}]
    OBVIOUS
  <2>5. cl \in [Clients -> ClientType]
    BY <1>2
  <2> QED  BY <2>1, <2>2, <2>3, <2>4, <2>5 DEF TypeOK
<1>4. StackOK /\ JoinOK
  BY <1>1 DEF StackOK, JoinOK, InPc
<1>5. QueueOK
  BY DEF QueueOK, ThreadOK, Counts, CountedPCs, Other, Q!SignalPCs
<1>6. MutexOK
  BY <1>1 DEF MutexOK, InPc, Q!WaitPCs, Q!BroadcastPCs
<1>7. LiveOK /\ JobsOK
  BY <1>1, <1>2 DEF LiveOK, JobsOK, JobStaysQueued, JobsUseLiveClients, InPc
<1>8. OutOK
  BY <1>1, <1>2 DEF OutOK, OutputIntact, InPc
<1> QED  BY <1>3, <1>4, <1>5, <1>6, <1>7, <1>8 DEF IInv

\* Every step of either thread keeps the inductive invariant.
LEMMA NextIInv ==
  ASSUME IInv, [Next]_vars
  PROVE  IInv'
<1>1. CASE UNCHANGED vars
  <2>1. UNCHANGED <<owner, waiters, target, sema, cont, cpc, tmp, jobs, dlock, olock, cl, timer, stk, wpc, job, local>>
    BY <1>1 DEF vars, queueVars, workerVars
  <2>2. StackOK' /\ JoinOK'
    BY <2>1, StackSame
  <2>3. TypeOK' /\ QueueOK'
    BY <2>1 DEF IInv, TypeOK, Q!TypeOK, QueueOK, ThreadOK, Meets, Counts
  <2>4. MutexOK'
    BY <2>1 DEF IInv, MutexOK, InPc
  <2>5. LiveOK' /\ JobsOK' /\ OutOK'
    BY <2>1 DEF IInv, LiveOK, JobsOK, JobStaysQueued, JobsUseLiveClients, OutOK, OutputIntact, InPc, Vs
  <2> QED  BY <2>2, <2>3, <2>4, <2>5 DEF IInv
<1>2. CASE vnc_worker_thread_loop
  BY <1>2, WorkKeeps, FetchKeeps DEF vnc_worker_thread_loop
<1> QED  BY <1>1, <1>2, EventKeeps, MainKeeps, QueueStepKeeps DEF Next

\* The inductive invariant holds in every state, for any number of clients and any
\* bounds on jobs, rectangles and output.
THEOREM Invariance == Spec => []IInv
<1>1. IInv /\ [Next]_vars => IInv'
  BY NextIInv
<1> QED  BY <1>1, InitIInv, PTL DEF Spec

\* vnc_disconnect_finish never frees a client that a queued job or the worker still
\* uses, however its joins interleave with the worker.
THEOREM JobsNeverOutliveClients == Spec => []ClientsOutliveJobs
<1>1. IInv => ClientsOutliveJobs
  BY DEF IInv, JobsOK, ClientsOutliveJobs
<1> QED  BY <1>1, Invariance, PTL

\* The worker's messages never split one that the main loop writes in pieces
\* (vnc_lock_output around vnc_write).
THEOREM OutputStaysIntact == Spec => []OutputIntact
<1>1. IInv => OutputIntact
  BY DEF IInv, OutOK
<1> QED  BY <1>1, Invariance, PTL

\* vnc_dpy_resize reallocates the server surface only while the worker reads no
\* rectangle from it: vnc_abort_display_jobs has emptied the queue.
THEOREM ResizeAlwaysWaits == Spec => ResizeWaits
<1>1. IInv /\ ResizeSurface => wpc \notin {"rect", "encode"}
  <2> SUFFICES ASSUME IInv, ResizeSurface PROVE wpc \notin {"rect", "encode"}
    OBVIOUS
  <2>1. stk # << >> /\ stk[1].pc = "resize_surface"
    BY AtTop DEF IInv, ResizeSurface
  <2>2. jobs = << >>
    BY <2>1 DEF IInv, JoinOK, InPc
  <2> QED  BY <2>2 DEF IInv, JobsOK, JobStaysQueued
<1>2. IInv /\ [Next]_vars => [ResizeSurface => wpc \notin {"rect", "encode"}]_vars
  BY <1>1
<1> QED  BY <1>2, Invariance, PTL DEF Spec, ResizeWaits
============================================================================

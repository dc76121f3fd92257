---------------------------- MODULE Win32Thread ----------------------------
(***************************************************************************)
(* QemuMutex and QemuCond on Win32 (qemu/qemu-thread-win32.c).             *)
(*                                                                         *)
(* A QemuMutex is a CRITICAL_SECTION plus an owner field.  A QemuCond is a *)
(* semaphore, an auto-reset event and two plain integers: waiters counts   *)
(* the threads inside qemu_cond_wait, and target is the value of waiters   *)
(* at which the last woken thread lets the signalling thread go on.        *)
(*                                                                         *)
(* Every access to shared memory and every Win32 call is a step of its     *)
(* own: cpc[t] is where thread t stands inside a library call ("out": in   *)
(* its own code), tmp[t] the register a load left for a later instruction. *)
(***************************************************************************)
EXTENDS Integers, FiniteSets

CONSTANTS
  Threads,       \* the threads that share the mutex and the condition
  None,          \* no owner (owner == 0)
  UseSignal,     \* whether callers use qemu_cond_signal
  UseBroadcast   \* whether callers use qemu_cond_broadcast

ASSUME ThreadsAssumption ==
  /\ IsFiniteSet(Threads)
  /\ None \notin Threads
  /\ UseSignal \in BOOLEAN
  /\ UseBroadcast \in BOOLEAN

VARIABLES
  owner,    \* QemuMutex.owner; the CRITICAL_SECTION is free iff it is None
  waiters,  \* QemuCond.waiters
  target,   \* QemuCond.target
  sema,     \* count of the semaphore QemuCond.sema
  cont,     \* state of the auto-reset event QemuCond.continue_event
  cpc,      \* position of each thread inside a library call
  tmp       \* register of each thread

mutexVars == <<owner>>
condVars == <<waiters, target, sema, cont>>
vars == <<owner, waiters, target, sema, cont, cpc, tmp>>

WaitPCs == {"wait_store", "wait_unlock", "wait_sema", "wait_dec", "wait_cmp",
            "wait_lock"}
SignalPCs == {"sig_target", "sig_release", "sig_wait"}
BroadcastPCs == {"bc_target", "bc_release", "bc_wait"}
PCs == {"out"} \cup WaitPCs \cup SignalPCs \cup BroadcastPCs

\* qemu_mutex_init and qemu_cond_init
Init ==
  /\ owner = None
  /\ waiters = 0
  /\ target = 0
  /\ sema = 0
  /\ cont = FALSE
  /\ cpc = [t \in Threads |-> "out"]
  /\ tmp = [t \in Threads |-> 0]

Goto(t, from, to) ==
  /\ cpc[t] = from
  /\ cpc' = [cpc EXCEPT ![t] = to]

----------------------------------------------------------------------------
(* The mutex.  EnterCriticalSection, the assertion and the store to owner  *)
(* are one step: no other thread reads owner while the section is held.    *)

qemu_mutex_lock(t) ==
  /\ cpc[t] = "out"
  /\ owner = None
  /\ owner' = t
  /\ UNCHANGED <<condVars, cpc, tmp>>

\* A busy section is reported to the caller and changes nothing.
qemu_mutex_trylock(t) ==
  /\ cpc[t] = "out"
  /\ owner' = IF owner = None THEN t ELSE owner
  /\ UNCHANGED <<condVars, cpc, tmp>>

qemu_mutex_unlock(t) ==
  /\ cpc[t] = "out"
  /\ owner = t
  /\ owner' = None
  /\ UNCHANGED <<condVars, cpc, tmp>>

----------------------------------------------------------------------------
(* qemu_cond_wait: entered with the mutex held.                            *)

\* Mutant: the mutex is given up before cond->waiters++ rather than after it.
CondWaitUnlockedIncrement(t) ==
  /\ Goto(t, "out", "wait_store")
  /\ owner' = None
  /\ tmp' = [tmp EXCEPT ![t] = waiters]
  /\ UNCHANGED condVars

\* cond->waiters++ is a load ...
qemu_cond_wait(t) ==
  /\ Goto(t, "out", "wait_store")
  /\ tmp' = [tmp EXCEPT ![t] = waiters]
  /\ UNCHANGED <<owner, condVars>>

\* ... and a store.
WaitStore(t) ==
  /\ Goto(t, "wait_store", "wait_unlock")
  /\ waiters' = tmp[t] + 1
  /\ UNCHANGED <<owner, target, sema, cont, tmp>>

WaitUnlock(t) ==
  /\ Goto(t, "wait_unlock", "wait_sema")
  /\ owner = t
  /\ owner' = None
  /\ UNCHANGED <<condVars, tmp>>

WaitSema(t) ==
  /\ Goto(t, "wait_sema", "wait_dec")
  /\ sema > 0
  /\ sema' = sema - 1
  /\ UNCHANGED <<owner, waiters, target, cont, tmp>>

\* InterlockedDecrement is atomic and returns the new value.
WaitDec(t) ==
  /\ Goto(t, "wait_dec", "wait_cmp")
  /\ waiters' = waiters - 1
  /\ tmp' = [tmp EXCEPT ![t] = waiters - 1]
  /\ UNCHANGED <<owner, target, sema, cont>>

\* The value it returned is compared with target, a separate load.
WaitCmp(t) ==
  /\ Goto(t, "wait_cmp", "wait_lock")
  /\ cont' = (cont \/ tmp[t] = target)
  /\ UNCHANGED <<owner, waiters, target, sema, tmp>>

WaitLock(t) ==
  /\ Goto(t, "wait_lock", "out")
  /\ owner = None
  /\ owner' = t
  /\ UNCHANGED <<condVars, tmp>>

----------------------------------------------------------------------------
(* qemu_cond_signal returns at once when it reads no waiters.              *)

\* Mutant: the early return is lost.
CondSignalNoCheck(t) ==
  /\ Goto(t, "out", "sig_target")
  /\ UNCHANGED <<owner, condVars, tmp>>

qemu_cond_signal(t) ==
  /\ Goto(t, "out", IF waiters = 0 THEN "out" ELSE "sig_target")
  /\ UNCHANGED <<owner, condVars, tmp>>

SigTarget(t) ==
  /\ Goto(t, "sig_target", "sig_release")
  /\ target' = waiters - 1
  /\ UNCHANGED <<owner, waiters, sema, cont, tmp>>

\* SignalObjectAndWait: the release ...
SigRelease(t) ==
  /\ Goto(t, "sig_release", "sig_wait")
  /\ sema' = sema + 1
  /\ UNCHANGED <<owner, waiters, target, cont, tmp>>

\* Mutant: SetEvent's partner is gone; the signalling thread does not stop.
SigNoWait(t) ==
  /\ Goto(t, "sig_wait", "out")
  /\ cont' = FALSE
  /\ UNCHANGED <<owner, waiters, target, sema, tmp>>

\* ... and the wait, which resets the event.
SigWait(t) ==
  /\ Goto(t, "sig_wait", "out")
  /\ cont
  /\ cont' = FALSE
  /\ UNCHANGED <<owner, waiters, target, sema, tmp>>

----------------------------------------------------------------------------
(* qemu_cond_broadcast                                                     *)

qemu_cond_broadcast(t) ==
  /\ Goto(t, "out", IF waiters = 0 THEN "out" ELSE "bc_target")
  /\ UNCHANGED <<owner, condVars, tmp>>

\* Mutant: broadcast uses the target of qemu_cond_signal.
BcTargetFirst(t) ==
  /\ Goto(t, "bc_target", "bc_release")
  /\ target' = waiters - 1
  /\ UNCHANGED <<owner, waiters, sema, cont, tmp>>

BcTarget(t) ==
  /\ Goto(t, "bc_target", "bc_release")
  /\ target' = 0
  /\ UNCHANGED <<owner, waiters, sema, cont, tmp>>

\* Mutant: one slice instead of one for every waiter.
BcReleaseOne(t) ==
  /\ Goto(t, "bc_release", "bc_wait")
  /\ sema' = sema + 1
  /\ UNCHANGED <<owner, waiters, target, cont, tmp>>

BcRelease(t) ==
  /\ Goto(t, "bc_release", "bc_wait")
  /\ sema' = sema + waiters
  /\ UNCHANGED <<owner, waiters, target, cont, tmp>>

BcWait(t) ==
  /\ Goto(t, "bc_wait", "out")
  /\ cont
  /\ cont' = FALSE
  /\ UNCHANGED <<owner, waiters, target, sema, tmp>>

----------------------------------------------------------------------------
(* A step of thread t inside a library call it has entered.                *)
Step(t) ==
  \/ WaitStore(t) \/ WaitUnlock(t) \/ WaitSema(t)
  \/ WaitDec(t) \/ WaitCmp(t) \/ WaitLock(t)
  \/ SigTarget(t) \/ SigRelease(t) \/ SigWait(t)
  \/ BcTarget(t) \/ BcRelease(t) \/ BcWait(t)

(* The most general caller: it holds the mutex when it waits, signals or   *)
(* broadcasts, as the comments in qemu_cond_signal and _wait require.      *)
Client(t) ==
  \/ qemu_mutex_lock(t)
  \/ owner # t /\ qemu_mutex_trylock(t)
  \/ qemu_mutex_unlock(t)
  \/ owner = t /\ qemu_cond_wait(t)
  \/ UseSignal /\ owner = t /\ qemu_cond_signal(t)
  \/ UseBroadcast /\ owner = t /\ qemu_cond_broadcast(t)

Next == \E t \in Threads : Client(t) \/ Step(t)

Spec == Init /\ [][Next]_vars

\* The scheduler runs every runnable thread: a call that can take its next
\* step eventually takes it.
FairSpec == Spec /\ \A t \in Threads : WF_vars(Step(t))

----------------------------------------------------------------------------
(* Properties *)

\* Every variable of the mutex and the condition has its type; the counts never
\* go below zero.
TypeOK ==
  /\ owner \in Threads \cup {None}
  /\ waiters \in Nat
  /\ target \in Nat
  /\ sema \in Nat
  /\ cont \in BOOLEAN
  /\ cpc \in [Threads -> PCs]
  /\ tmp \in [Threads -> Nat]

Asleep == {t \in Threads : cpc[t] = "wait_sema"}
Counted == {t \in Threads : cpc[t] \in {"wait_unlock", "wait_sema", "wait_dec"}}
Signalling == {t \in Threads : cpc[t] \in SignalPCs \cup BroadcastPCs}

\* The unlocked decrements in qemu_cond_wait never race with the locked
\* increment or with the load in qemu_cond_signal: waiters is always the number
\* of threads that have entered qemu_cond_wait and not yet left it.
WaitersExact == waiters = Cardinality(Counted)

\* "each waiter consumes exactly one slice of the semaphore, the signaling
\* thread stops until it is told by the last waiter that it can go on": when no
\* thread is inside qemu_cond_signal or qemu_cond_broadcast, no slice and no
\* continue event is left over.
Rendezvous == Signalling = {} => sema = 0 /\ ~cont

\* The implementation is a condition variable: see CondVar.
CV == INSTANCE CondVar WITH
        holder <- owner,
        waiting <- Asleep,
        woken <- {t \in Threads : cpc[t] \in {"wait_dec", "wait_cmp", "wait_lock"}},
        quota <- sema
Refines == CV!Spec

\* A signal or a broadcast that has been called returns: the woken threads
\* never need the mutex before they release the signalling thread.
SignalReturns ==
  \A t \in Threads :
    cpc[t] \in SignalPCs \cup BroadcastPCs ~> cpc[t] = "out"
=============================================================================

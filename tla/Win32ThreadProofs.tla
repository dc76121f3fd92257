------------------------- MODULE Win32ThreadProofs -------------------------
(***************************************************************************)
(* For any finite set of threads whose callers wake with qemu_cond_signal  *)
(* only or with qemu_cond_broadcast only, the Win32 condition variable     *)
(* keeps exact counts, leaves nothing behind, and implements CondVar.      *)
(***************************************************************************)
EXTENDS Win32Thread, FiniteSetTheorems, TLAPS

\* The callers of one condition variable use one of the two ways to wake.
OneWakeKind == ~(UseSignal /\ UseBroadcast)

Awake == {t \in Threads : cpc[t] = "wait_dec"}
Leaving == {t \in Threads : cpc[t] = "wait_cmp"}

HoldingPCs == {"wait_store", "wait_unlock"} \cup SignalPCs \cup BroadcastPCs

\* A thread inside a locked part of a call owns the mutex.
Holds == \A t \in Threads : cpc[t] \in HoldingPCs => owner = t

\* Nobody is inside a call that the callers do not use.
Modes ==
  \A t \in Threads :
    /\ cpc[t] \in SignalPCs => UseSignal
    /\ cpc[t] \in BroadcastPCs => UseBroadcast

\* The load half of cond->waiters++ is not stale when the store happens.
Loaded == \A t \in Threads : cpc[t] = "wait_store" => tmp[t] = waiters

\* The early return was not taken, and the count it saw still stands.
Nonzero ==
  \A t \in Threads :
    cpc[t] \in {"sig_target", "sig_release", "bc_target", "bc_release"} =>
      waiters > 0

Targets ==
  /\ ~UseSignal => target = 0
  /\ \A t \in Threads : cpc[t] = "sig_release" => target = waiters - 1

\* A thread still on its way out of an earlier wake-up can be mistaken for the
\* last waiter by no later one.
Harmless ==
  /\ UseSignal => Leaving = {}
  /\ \A t \in Leaving : tmp[t] # 0

Quiet ==
  (\A t \in Threads : cpc[t] \notin {"sig_wait", "bc_wait"}) =>
    sema = 0 /\ ~cont /\ Awake = {} /\ Harmless

\* The four stages of a signal's rendez-vous.
SigStage ==
  \/ /\ sema = 1 /\ ~cont /\ Awake = {} /\ Leaving = {} /\ waiters = target + 1
  \/ /\ sema = 0 /\ ~cont /\ Leaving = {} /\ waiters = target + 1
     /\ \E w \in Threads : Awake = {w}
  \/ /\ sema = 0 /\ ~cont /\ Awake = {} /\ waiters = target
     /\ \E w \in Threads : Leaving = {w} /\ tmp[w] = target
  \/ /\ sema = 0 /\ cont /\ Awake = {} /\ Leaving = {} /\ waiters = target

\* The three stages of a broadcast's rendez-vous.
BcStage ==
  /\ sema = Cardinality(Asleep)
  /\ \/ ~cont /\ waiters > 0 /\ \A t \in Leaving : tmp[t] # 0
     \/ /\ ~cont /\ waiters = 0
        /\ \E w \in Leaving : /\ tmp[w] = 0
                              /\ \A t \in Leaving : t # w => tmp[t] # 0
     \/ cont /\ waiters = 0 /\ \A t \in Leaving : tmp[t] # 0

Stages ==
  \A t \in Threads :
    /\ cpc[t] = "sig_wait" => SigStage
    /\ cpc[t] = "bc_wait" => BcStage

IInv ==
  /\ TypeOK
  /\ Holds
  /\ Modes
  /\ WaitersExact
  /\ Loaded
  /\ Nonzero
  /\ Targets
  /\ Quiet
  /\ Stages

----------------------------------------------------------------------------
\* The sets of threads at a given place are finite, so they can be counted.
LEMMA SetsFinite ==
  /\ IsFiniteSet(Counted) /\ Cardinality(Counted) \in Nat
  /\ IsFiniteSet(Asleep) /\ Cardinality(Asleep) \in Nat
  BY ThreadsAssumption, FS_Subset, FS_CardinalityType DEF Counted, Asleep

\* Initially nothing has been counted, released or awaited.
LEMMA InitIInv == Init => IInv
<1> SUFFICES ASSUME Init PROVE IInv
  OBVIOUS
<1>1. Counted = {} /\ Awake = {} /\ Leaving = {}
  BY DEF Init, Counted, Awake, Leaving
<1>2. TypeOK
  BY ThreadsAssumption DEF Init, TypeOK, PCs
<1>3. WaitersExact
  BY <1>1, FS_EmptySet DEF Init, WaitersExact
<1> QED
  BY <1>1, <1>2, <1>3 DEF Init, IInv, Holds, Modes, Loaded, Nonzero, Targets,
     Quiet, Harmless, Stages, HoldingPCs, SignalPCs, BroadcastPCs

\* How one thread's move changes the counts.
LEMMA Counts ==
  ASSUME NEW t
  PROVE  /\ Cardinality(Counted \cup {t}) =
              IF t \in Counted THEN Cardinality(Counted) ELSE Cardinality(Counted) + 1
         /\ Cardinality(Counted \ {t}) =
              IF t \in Counted THEN Cardinality(Counted) - 1 ELSE Cardinality(Counted)
         /\ Cardinality(Asleep \cup {t}) =
              IF t \in Asleep THEN Cardinality(Asleep) ELSE Cardinality(Asleep) + 1
         /\ Cardinality(Asleep \ {t}) =
              IF t \in Asleep THEN Cardinality(Asleep) - 1 ELSE Cardinality(Asleep)
  BY SetsFinite, FS_AddElement, FS_RemoveElement

\* While the signalling thread holds the mutex every counted thread is asleep or
\* awake; if none is awake all of them are asleep.
LEMMA CountedAsleep ==
  ASSUME IInv, NEW t \in Threads, cpc[t] \in SignalPCs \cup BroadcastPCs,
         Awake = {}
  PROVE  Counted = Asleep
  BY DEF IInv, TypeOK, Holds, HoldingPCs, SignalPCs, BroadcastPCs, Counted, Asleep, Awake

\* Every step of a call and of its caller keeps the inductive invariant.
LEMMA NextIInv ==
  ASSUME OneWakeKind, IInv, [Next]_vars
  PROVE  IInv'
<1> USE ThreadsAssumption, SetsFinite
<1> USE DEF IInv, HoldingPCs, SignalPCs, BroadcastPCs
<1>1. CASE UNCHANGED vars
  <2>1. UNCHANGED <<Counted, Asleep, Awake, Leaving>>
    BY <1>1 DEF vars, Counted, Asleep, Awake, Leaving
  <2> QED
    BY <1>1, <2>1 DEF vars, TypeOK, Holds, Modes, WaitersExact, Loaded,
       Nonzero, Targets, Quiet, Harmless, Stages, SigStage, BcStage
<1>2. SUFFICES ASSUME NEW t \in Threads, Client(t) \/ Step(t) PROVE IInv'
  BY <1>1 DEF Next
<1>3. CASE qemu_mutex_lock(t)
  <2>1. UNCHANGED <<waiters, target, sema, cont, cpc, tmp, Counted, Asleep, Awake, Leaving>>
    BY <1>3 DEF qemu_mutex_lock, condVars, Counted, Asleep, Awake, Leaving
  <2>2. TypeOK' /\ Holds'
    BY <1>3, <2>1 DEF qemu_mutex_lock, TypeOK, Holds
  <2> QED
    BY <2>1, <2>2 DEF Modes, WaitersExact, Loaded, Nonzero, Targets, Quiet,
       Harmless, Stages, SigStage, BcStage
<1>4. CASE owner # t /\ qemu_mutex_trylock(t)
  <2>1. UNCHANGED <<waiters, target, sema, cont, cpc, tmp, Counted, Asleep, Awake, Leaving>>
    BY <1>4 DEF qemu_mutex_trylock, condVars, Counted, Asleep, Awake, Leaving
  <2>2. TypeOK' /\ Holds'
    BY <1>4, <2>1 DEF qemu_mutex_trylock, TypeOK, Holds
  <2> QED
    BY <2>1, <2>2 DEF Modes, WaitersExact, Loaded, Nonzero, Targets, Quiet,
       Harmless, Stages, SigStage, BcStage
<1>5. CASE qemu_mutex_unlock(t)
  <2>1. UNCHANGED <<waiters, target, sema, cont, cpc, tmp, Counted, Asleep, Awake, Leaving>>
    BY <1>5 DEF qemu_mutex_unlock, condVars, Counted, Asleep, Awake, Leaving
  <2>2. TypeOK' /\ Holds'
    BY <1>5, <2>1 DEF qemu_mutex_unlock, TypeOK, Holds
  <2> QED
    BY <2>1, <2>2 DEF Modes, WaitersExact, Loaded, Nonzero, Targets, Quiet,
       Harmless, Stages, SigStage, BcStage
<1>6. CASE owner = t /\ qemu_cond_wait(t)
  <2>0. UNCHANGED <<Counted, Asleep, Awake, Leaving>>
    BY <1>6 DEF qemu_cond_wait, Goto, Counted, Asleep, Awake, Leaving
  <2>1. TypeOK' /\ Holds' /\ Modes'
    BY <1>6 DEF qemu_cond_wait, Goto, condVars, TypeOK, PCs, WaitPCs, Holds,
       Modes
  <2>2. WaitersExact'
    BY <1>6, <2>0 DEF qemu_cond_wait, condVars, WaitersExact
  <2>3. Loaded' /\ Nonzero' /\ Targets'
    BY <1>6 DEF qemu_cond_wait, Goto, condVars, Loaded, Nonzero, Targets,
       TypeOK
  <2>4. Quiet'
    <3>1. t \notin Leaving
      BY <1>6 DEF qemu_cond_wait, Goto, Leaving
    <3>2. Harmless => Harmless'
      BY <1>6, <2>0, <3>1 DEF qemu_cond_wait, Harmless
    <3> QED
      BY <1>6, <2>0, <3>2 DEF qemu_cond_wait, Goto, condVars, Quiet
  <2>5. Stages'
    BY <1>6 DEF qemu_cond_wait, Goto, Stages, Holds
  <2> QED
    BY <2>1, <2>2, <2>3, <2>4, <2>5
<1>7. CASE UseSignal /\ owner = t /\ qemu_cond_signal(t)
  <2>0. UNCHANGED <<Counted, Asleep, Awake, Leaving>>
    BY <1>7 DEF qemu_cond_signal, Goto, Counted, Asleep, Awake, Leaving
  <2>1. TypeOK' /\ Holds' /\ Modes'
    BY <1>7 DEF qemu_cond_signal, Goto, condVars, TypeOK, PCs, Holds, Modes
  <2>2. WaitersExact'
    BY <1>7, <2>0 DEF qemu_cond_signal, condVars, WaitersExact
  <2>3. Loaded' /\ Nonzero' /\ Targets'
    BY <1>7 DEF qemu_cond_signal, Goto, condVars, Loaded, Nonzero, Targets,
       TypeOK
  <2>4. Quiet'
    BY <1>7, <2>0 DEF qemu_cond_signal, Goto, condVars, Quiet, Harmless
  <2>5. Stages'
    BY <1>7 DEF qemu_cond_signal, Goto, Stages, Holds
  <2> QED
    BY <2>1, <2>2, <2>3, <2>4, <2>5
<1>8. CASE UseBroadcast /\ owner = t /\ qemu_cond_broadcast(t)
  <2>0. UNCHANGED <<Counted, Asleep, Awake, Leaving>>
    BY <1>8 DEF qemu_cond_broadcast, Goto, Counted, Asleep, Awake, Leaving
  <2>1. TypeOK' /\ Holds' /\ Modes'
    BY <1>8 DEF qemu_cond_broadcast, Goto, condVars, TypeOK, PCs, Holds, Modes
  <2>2. WaitersExact'
    BY <1>8, <2>0 DEF qemu_cond_broadcast, condVars, WaitersExact
  <2>3. Loaded' /\ Nonzero' /\ Targets'
    BY <1>8 DEF qemu_cond_broadcast, Goto, condVars, Loaded, Nonzero, Targets,
       TypeOK
  <2>4. Quiet'
    BY <1>8, <2>0 DEF qemu_cond_broadcast, Goto, condVars, Quiet, Harmless
  <2>5. Stages'
    BY <1>8 DEF qemu_cond_broadcast, Goto, Stages, Holds
  <2> QED
    BY <2>1, <2>2, <2>3, <2>4, <2>5
<1>9. CASE WaitStore(t)
  <2>0. Counted' = Counted \cup {t} /\ t \notin Counted /\ UNCHANGED <<Asleep, Awake, Leaving>>
    BY <1>9 DEF WaitStore, Goto, TypeOK, Counted, Asleep, Awake, Leaving
  <2>1. TypeOK' /\ Holds' /\ Modes'
    BY <1>9 DEF WaitStore, Goto, TypeOK, PCs, WaitPCs, Holds, Modes
  <2>2. WaitersExact'
    BY <1>9, <2>0, Counts DEF WaitStore, Goto, WaitersExact, Loaded
  <2>3. Loaded' /\ Nonzero' /\ Targets'
    BY <1>9 DEF WaitStore, Goto, Loaded, Nonzero, Targets, TypeOK, Holds
  <2>4. Quiet'
    BY <1>9, <2>0 DEF WaitStore, Goto, Quiet, Harmless
  <2>5. Stages'
    BY <1>9 DEF WaitStore, Goto, Stages, Holds
  <2> QED
    BY <2>1, <2>2, <2>3, <2>4, <2>5
<1>10. CASE WaitUnlock(t)
  <2>0. Asleep' = Asleep \cup {t} /\ t \notin Asleep /\ UNCHANGED <<Counted, Awake, Leaving>>
    BY <1>10 DEF WaitUnlock, Goto, TypeOK, Counted, Asleep, Awake, Leaving
  <2>1. TypeOK' /\ Holds' /\ Modes'
    BY <1>10 DEF WaitUnlock, Goto, condVars, TypeOK, PCs, WaitPCs, Holds, Modes
  <2>2. WaitersExact'
    BY <1>10, <2>0 DEF WaitUnlock, condVars, WaitersExact
  <2>3. Loaded' /\ Nonzero' /\ Targets'
    BY <1>10 DEF WaitUnlock, Goto, condVars, Loaded, Nonzero, Targets
  <2>4. Quiet'
    BY <1>10, <2>0 DEF WaitUnlock, Goto, condVars, Quiet, Harmless
  <2>5. Stages'
    BY <1>10 DEF WaitUnlock, Goto, Stages, Holds
  <2> QED
    BY <2>1, <2>2, <2>3, <2>4, <2>5
<1>11. CASE WaitSema(t)
  <2>0. Asleep' = Asleep \ {t} /\ Awake' = Awake \cup {t} /\ t \in Asleep /\ t \notin Awake /\ UNCHANGED <<Counted, Leaving>>
    BY <1>11 DEF WaitSema, Goto, TypeOK, Counted, Asleep, Awake, Leaving
  <2>1. TypeOK' /\ Holds' /\ Modes'
    BY <1>11 DEF WaitSema, Goto, TypeOK, PCs, WaitPCs, Holds, Modes
  <2>2. WaitersExact'
    BY <1>11, <2>0 DEF WaitSema, WaitersExact
  <2>3. Loaded' /\ Nonzero' /\ Targets'
    BY <1>11 DEF WaitSema, Goto, Loaded, Nonzero, Targets
  <2>4. Quiet'
    BY <1>11 DEF WaitSema, Goto, Quiet
  <2>5. Stages'
    <3> SUFFICES ASSUME NEW u \in Threads
                 PROVE  /\ cpc'[u] = "sig_wait" => SigStage'
                        /\ cpc'[u] = "bc_wait" => BcStage'
      BY DEF Stages
    <3>1. cpc'[u] \in {"sig_wait", "bc_wait"} => cpc'[u] = cpc[u]
      BY <1>11 DEF WaitSema, Goto
    <3>2. SigStage => SigStage'
      BY <1>11, <2>0 DEF WaitSema, SigStage
    <3>3. BcStage => BcStage'
      BY <1>11, <2>0, Counts DEF WaitSema, BcStage
    <3> QED
      BY <3>1, <3>2, <3>3 DEF Stages
  <2> QED
    BY <2>1, <2>2, <2>3, <2>4, <2>5
<1>12. CASE WaitDec(t)
  <2>0. Counted' = Counted \ {t} /\ Awake' = Awake \ {t} /\ Leaving' = Leaving \cup {t} /\ t \in Counted /\ t \in Awake /\ t \notin Leaving /\ UNCHANGED <<Asleep>>
    BY <1>12 DEF WaitDec, Goto, TypeOK, Counted, Asleep, Awake, Leaving
  <2>1. TypeOK' /\ Holds' /\ Modes'
    <3>1. waiters - 1 \in Nat
      BY <2>0, FS_EmptySet DEF WaitersExact
    <3> QED
      BY <1>12, <3>1 DEF WaitDec, Goto, TypeOK, PCs, WaitPCs, Holds, Modes
  <2>2. WaitersExact'
    BY <1>12, <2>0, Counts DEF WaitDec, WaitersExact
  <2>3. Loaded' /\ Nonzero' /\ Targets'
    BY <1>12, <2>0 DEF WaitDec, Goto, Loaded, Nonzero, Targets, Holds, Quiet
  <2>4. Quiet'
    BY <1>12, <2>0 DEF WaitDec, Goto, Quiet
  <2>5. Stages'
    <3> SUFFICES ASSUME NEW u \in Threads
                 PROVE  /\ cpc'[u] = "sig_wait" => SigStage'
                        /\ cpc'[u] = "bc_wait" => BcStage'
      BY DEF Stages
    <3>1. cpc'[u] \in {"sig_wait", "bc_wait"} => cpc'[u] = cpc[u]
      BY <1>12 DEF WaitDec, Goto
    <3>2. waiters > 0
      BY <2>0, FS_EmptySet DEF WaitersExact
    <3>3. tmp'[t] = waiters - 1 /\ \A w \in Threads : w # t => tmp'[w] = tmp[w]
      BY <1>12 DEF WaitDec, TypeOK
    <3>4. t \notin Leaving /\ Leaving \in SUBSET Threads
      BY <1>12 DEF WaitDec, Goto, Leaving
    <3>5. SigStage => SigStage'
      BY <1>12, <2>0 DEF WaitDec, SigStage, TypeOK
    <3>6. BcStage => BcStage'
      BY <1>12, <2>0, <3>2 DEF WaitDec, BcStage, TypeOK
    <3> QED
      BY <3>1, <3>5, <3>6 DEF Stages
  <2> QED
    BY <2>1, <2>2, <2>3, <2>4, <2>5
<1>13. CASE WaitCmp(t)
  <2>0. Leaving' = Leaving \ {t} /\ t \in Leaving /\ UNCHANGED <<Counted, Asleep, Awake>>
    BY <1>13 DEF WaitCmp, Goto, TypeOK, Counted, Asleep, Awake, Leaving
  <2>1. TypeOK' /\ Holds' /\ Modes'
    BY <1>13 DEF WaitCmp, Goto, TypeOK, PCs, WaitPCs, Holds, Modes
  <2>2. WaitersExact'
    BY <1>13, <2>0 DEF WaitCmp, WaitersExact
  <2>3. Loaded' /\ Nonzero' /\ Targets'
    BY <1>13 DEF WaitCmp, Goto, Loaded, Nonzero, Targets
  <2>4. Quiet'
    BY <1>13, <2>0 DEF WaitCmp, Goto, Quiet, Harmless, Targets
  <2>5. Stages'
    BY <1>13, <2>0 DEF WaitCmp, Goto, Stages, SigStage, BcStage, Modes,
       OneWakeKind, Targets
  <2> QED
    BY <2>1, <2>2, <2>3, <2>4, <2>5
<1>14. CASE WaitLock(t)
  <2>0. UNCHANGED <<Counted, Asleep, Awake, Leaving>>
    BY <1>14 DEF WaitLock, Goto, Counted, Asleep, Awake, Leaving
  <2>1. TypeOK' /\ Holds' /\ Modes'
    BY <1>14 DEF WaitLock, Goto, condVars, TypeOK, PCs, Holds, Modes
  <2>2. WaitersExact'
    BY <1>14, <2>0 DEF WaitLock, condVars, WaitersExact
  <2>3. Loaded' /\ Nonzero' /\ Targets'
    BY <1>14 DEF WaitLock, Goto, condVars, Loaded, Nonzero, Targets
  <2>4. Quiet'
    BY <1>14, <2>0 DEF WaitLock, condVars, Quiet, Harmless, Holds
  <2>5. Stages'
    BY <1>14 DEF WaitLock, Goto, Stages, Holds
  <2> QED
    BY <2>1, <2>2, <2>3, <2>4, <2>5
<1>15. CASE SigTarget(t)
  <2>0. UNCHANGED <<Counted, Asleep, Awake, Leaving>>
    BY <1>15 DEF SigTarget, Goto, Counted, Asleep, Awake, Leaving
  <2>1. TypeOK' /\ Holds' /\ Modes'
    BY <1>15 DEF SigTarget, Goto, TypeOK, PCs, Holds, Modes, Nonzero
  <2>2. WaitersExact'
    BY <1>15, <2>0 DEF SigTarget, WaitersExact
  <2>3. Loaded' /\ Nonzero' /\ Targets'
    BY <1>15 DEF SigTarget, Goto, Loaded, Nonzero, Targets, Modes
  <2>4. Quiet'
    BY <1>15, <2>0 DEF SigTarget, Goto, Quiet, Harmless
  <2>5. Stages'
    BY <1>15 DEF SigTarget, Goto, Stages, Holds
  <2> QED
    BY <2>1, <2>2, <2>3, <2>4, <2>5
<1>16. CASE SigRelease(t)
  <2>0. UNCHANGED <<Counted, Asleep, Awake, Leaving>>
    BY <1>16 DEF SigRelease, Goto, Counted, Asleep, Awake, Leaving
  <2>1. TypeOK' /\ Holds' /\ Modes'
    BY <1>16 DEF SigRelease, Goto, TypeOK, PCs, Holds, Modes
  <2>2. WaitersExact'
    BY <1>16, <2>0 DEF SigRelease, WaitersExact
  <2>3. Loaded' /\ Nonzero' /\ Targets'
    BY <1>16 DEF SigRelease, Goto, Loaded, Nonzero, Targets
  <2>4. Quiet'
    BY <1>16 DEF SigRelease, Goto, Quiet, TypeOK
  <2>5. Stages'
    BY <1>16, <2>0 DEF SigRelease, Goto, Quiet, TypeOK, Stages, SigStage,
       Harmless, Holds, Modes, Targets
  <2> QED
    BY <2>1, <2>2, <2>3, <2>4, <2>5
<1>17. CASE SigWait(t)
  <2>0. UNCHANGED <<Counted, Asleep, Awake, Leaving>>
    BY <1>17 DEF SigWait, Goto, Counted, Asleep, Awake, Leaving
  <2>1. TypeOK' /\ Holds' /\ Modes'
    BY <1>17 DEF SigWait, Goto, TypeOK, PCs, Holds, Modes
  <2>2. WaitersExact'
    BY <1>17, <2>0 DEF SigWait, WaitersExact
  <2>3. Loaded' /\ Nonzero' /\ Targets'
    BY <1>17 DEF SigWait, Goto, Loaded, Nonzero, Targets
  <2>4. Quiet'
    BY <1>17, <2>0 DEF SigWait, Goto, Quiet, Stages, SigStage, Harmless
  <2>5. Stages'
    BY <1>17 DEF SigWait, Goto, TypeOK, Stages, Holds
  <2> QED
    BY <2>1, <2>2, <2>3, <2>4, <2>5
<1>18. CASE BcTarget(t)
  <2>0. UNCHANGED <<Counted, Asleep, Awake, Leaving>>
    BY <1>18 DEF BcTarget, Goto, Counted, Asleep, Awake, Leaving
  <2>1. TypeOK' /\ Holds' /\ Modes'
    BY <1>18 DEF BcTarget, Goto, TypeOK, PCs, Holds, Modes
  <2>2. WaitersExact'
    BY <1>18, <2>0 DEF BcTarget, WaitersExact
  <2>3. Loaded' /\ Nonzero' /\ Targets'
    BY <1>18 DEF BcTarget, Goto, Loaded, Nonzero, Targets, Modes, OneWakeKind
  <2>4. Quiet'
    BY <1>18, <2>0 DEF BcTarget, Goto, Quiet, Harmless
  <2>5. Stages'
    BY <1>18 DEF BcTarget, Goto, Stages, Holds
  <2> QED
    BY <2>1, <2>2, <2>3, <2>4, <2>5
<1>19. CASE BcRelease(t)
  <2>0. UNCHANGED <<Counted, Asleep, Awake, Leaving>>
    BY <1>19 DEF BcRelease, Goto, Counted, Asleep, Awake, Leaving
  <2>1. TypeOK' /\ Holds' /\ Modes'
    BY <1>19 DEF BcRelease, Goto, TypeOK, PCs, Holds, Modes
  <2>2. WaitersExact'
    BY <1>19, <2>0 DEF BcRelease, WaitersExact
  <2>3. Loaded' /\ Nonzero' /\ Targets'
    BY <1>19 DEF BcRelease, Goto, Loaded, Nonzero, Targets
  <2>4. Quiet'
    BY <1>19 DEF BcRelease, Goto, Quiet, TypeOK
  <2>5. Stages'
    <3>1. cpc[t] = "bc_release" /\ owner = t
      BY <1>19 DEF BcRelease, Goto, Holds
    <3>2. \A u \in Threads : cpc[u] \notin {"sig_wait", "bc_wait"}
      BY <3>1 DEF Holds
    <3>3. sema = 0 /\ ~cont /\ Awake = {} /\ Harmless
      BY <3>2 DEF Quiet
    <3>4. waiters = Cardinality(Asleep)
      BY <3>1, <3>3, CountedAsleep DEF WaitersExact
    <3>5. BcStage'
      BY <1>19, <2>0, <3>1, <3>3, <3>4 DEF BcRelease, BcStage, Harmless,
         Nonzero
    <3> QED
      BY <1>19, <3>2, <3>5 DEF BcRelease, Goto, Stages
  <2> QED
    BY <2>1, <2>2, <2>3, <2>4, <2>5
<1>20. CASE BcWait(t)
  <2>0. UNCHANGED <<Counted, Asleep, Awake, Leaving>>
    BY <1>20 DEF BcWait, Goto, Counted, Asleep, Awake, Leaving
  <2>1. TypeOK' /\ Holds' /\ Modes'
    BY <1>20 DEF BcWait, Goto, TypeOK, PCs, Holds, Modes
  <2>2. WaitersExact'
    BY <1>20, <2>0 DEF BcWait, WaitersExact
  <2>3. Loaded' /\ Nonzero' /\ Targets'
    BY <1>20 DEF BcWait, Goto, Loaded, Nonzero, Targets
  <2>4. Quiet'
    <3>1. BcStage /\ cont
      BY <1>20 DEF BcWait, Goto, Stages
    <3>2. waiters = 0 /\ \A w \in Leaving : tmp[w] # 0
      BY <3>1 DEF BcStage
    <3>3. Counted = {}
      BY <3>2, FS_EmptySet DEF WaitersExact
    <3>4. Asleep = {} /\ Awake = {}
      BY <3>3 DEF Counted, Asleep, Awake
    <3>5. sema = 0
      BY <3>1, <3>4, FS_EmptySet DEF BcStage
    <3>6. ~UseSignal
      BY <1>20 DEF BcWait, Goto, Modes, OneWakeKind
    <3> QED
      BY <1>20, <2>0, <3>2, <3>4, <3>5, <3>6 DEF BcWait, Quiet, Harmless
  <2>5. Stages'
    BY <1>20 DEF BcWait, Goto, TypeOK, Stages, Holds
  <2> QED
    BY <2>1, <2>2, <2>3, <2>4, <2>5
<1> QED
  BY <1>2, <1>3, <1>4, <1>5, <1>6, <1>7, <1>8, <1>9, <1>10, <1>11, <1>12,
     <1>13, <1>14, <1>15, <1>16, <1>17, <1>18, <1>19, <1>20 DEF Client, Step

----------------------------------------------------------------------------
\* The inductive invariant holds in every reachable state.
THEOREM Invariance ==
  ASSUME OneWakeKind
  PROVE  Spec => []IInv
<1>1. IInv /\ [Next]_vars => IInv'
  BY NextIInv
<1> QED
  BY InitIInv, <1>1, PTL DEF Spec

\* The counters of QemuCond never go below zero, whatever the number of threads.
THEOREM TypeCorrect ==
  ASSUME OneWakeKind
  PROVE  Spec => []TypeOK
<1>1. IInv => TypeOK
  BY DEF IInv
<1> QED
  BY Invariance, <1>1, PTL

\* cond->waiters counts the threads inside qemu_cond_wait exactly, although it
\* is decremented without the mutex.
THEOREM WaitersCorrect ==
  ASSUME OneWakeKind
  PROVE  Spec => []WaitersExact
<1>1. IInv => WaitersExact
  BY DEF IInv
<1> QED
  BY Invariance, <1>1, PTL

\* A wake-up leaves no slice of the semaphore and no continue event behind.
THEOREM RendezvousCorrect ==
  ASSUME OneWakeKind
  PROVE  Spec => []Rendezvous
<1>1. IInv => Rendezvous
  BY DEF IInv, Quiet, Rendezvous, Signalling, SignalPCs, BroadcastPCs
<1> QED
  BY Invariance, <1>1, PTL

\* Every step of the Win32 condition variable is a step of CondVar or leaves its
\* state unchanged.
LEMMA StepRefines ==
  ASSUME IInv, [Next]_vars
  PROVE  [CV!Next]_CV!vars
<1> DEFINE woken == {t \in Threads : cpc[t] \in {"wait_dec", "wait_cmp", "wait_lock"}}
<1> USE DEF IInv
<1>1. CASE UNCHANGED vars
  BY <1>1 DEF vars, CV!vars, Asleep
<1>2. SUFFICES ASSUME NEW t \in Threads, Client(t) \/ Step(t)
               PROVE  CV!Next \/ UNCHANGED <<owner, Asleep, woken, sema>>
  BY <1>1 DEF Next, CV!vars
<1>3. sema # 0 => owner # None /\ \E u \in Threads : cpc[u] \in {"sig_wait", "bc_wait"}
  BY ThreadsAssumption DEF Quiet, Holds, HoldingPCs, SignalPCs, BroadcastPCs
<1>4. owner = t /\ cpc[t] \notin {"sig_wait", "bc_wait"} => sema = 0
  BY <1>3 DEF Holds, HoldingPCs, SignalPCs, BroadcastPCs
<1>5. cpc[t] \in HoldingPCs => owner = t
  BY DEF Holds
<1>6. CASE qemu_mutex_lock(t) \/ (owner # t /\ qemu_mutex_trylock(t))
  <2>1. CV!Acquire(t) \/ UNCHANGED <<owner, Asleep, woken, sema>>
    BY <1>6 DEF qemu_mutex_lock, qemu_mutex_trylock, condVars, CV!Acquire, Asleep
  <2> QED
    BY <2>1 DEF CV!Next
<1>7. CASE qemu_mutex_unlock(t)
  <2>1. CV!Release(t)
    BY <1>4, <1>7 DEF qemu_mutex_unlock, condVars, CV!Release, Asleep
  <2> QED
    BY <2>1 DEF CV!Next
<1>8. CASE WaitUnlock(t)
  <2>1. CV!Wait(t)
    BY <1>4, <1>8 DEF WaitUnlock, Goto, condVars, CV!Wait, Asleep, TypeOK
  <2> QED
    BY <2>1 DEF CV!Next
<1>9. CASE WaitSema(t)
  <2>1. CV!Wake(t)
    BY <1>3, <1>9 DEF WaitSema, Goto, CV!Wake, Asleep, TypeOK
  <2> QED
    BY <2>1 DEF CV!Next
<1>10. CASE WaitLock(t)
  <2>1. CV!Acquire(t)
    BY <1>10 DEF WaitLock, Goto, condVars, CV!Acquire, Asleep, TypeOK
  <2> QED
    BY <2>1 DEF CV!Next
<1>11. CASE SigRelease(t)
  <2>1. cpc[t] = "sig_release" /\ owner = t /\ sema = 0 /\ waiters > 0 /\ Awake = {}
    BY <1>4, <1>5, <1>11 DEF SigRelease, Goto, HoldingPCs, SignalPCs, Nonzero, Quiet,
       Holds, BroadcastPCs
  <2>2. Asleep # {}
    BY <2>1, CountedAsleep, FS_EmptySet DEF WaitersExact, SignalPCs
  <2>3. CV!Signal(t)
    BY <1>11, <2>1, <2>2 DEF SigRelease, Goto, CV!Signal, Asleep, TypeOK
  <2> QED
    BY <2>3 DEF CV!Next
<1>12. CASE BcRelease(t)
  <2>1. cpc[t] = "bc_release" /\ owner = t /\ sema = 0 /\ waiters > 0 /\ Awake = {}
    BY <1>4, <1>5, <1>12 DEF BcRelease, Goto, HoldingPCs, SignalPCs, Nonzero, Quiet,
       Holds, BroadcastPCs
  <2>2. Asleep # {} /\ waiters = Cardinality(Asleep)
    BY <2>1, CountedAsleep, FS_EmptySet DEF WaitersExact, BroadcastPCs
  <2>3. Asleep' = Asleep /\ woken' = woken
    BY <1>12 DEF BcRelease, Goto, Asleep, TypeOK
  <2>4. sema' = Cardinality(Asleep) /\ owner' = owner
    BY <1>12, <2>1, <2>2 DEF BcRelease, TypeOK
  <2>5. CV!Broadcast(t)
    BY <2>1, <2>2, <2>3, <2>4 DEF CV!Broadcast, CV!Cardinality, Cardinality
  <2> QED
    BY <2>5 DEF CV!Next
<1>13. CASE \/ owner = t /\ qemu_cond_wait(t)
            \/ UseSignal /\ owner = t /\ qemu_cond_signal(t)
            \/ UseBroadcast /\ owner = t /\ qemu_cond_broadcast(t)
            \/ WaitStore(t) \/ WaitDec(t) \/ WaitCmp(t)
            \/ SigTarget(t) \/ SigWait(t) \/ BcTarget(t) \/ BcWait(t)
  BY <1>13 DEF qemu_cond_wait, qemu_cond_signal, qemu_cond_broadcast, WaitStore,
     WaitDec, WaitCmp, SigTarget, SigWait, BcTarget, BcWait, Goto, condVars,
     Asleep, TypeOK
<1> QED
  BY <1>2, <1>6, <1>7, <1>8, <1>9, <1>10, <1>11, <1>12, <1>13 DEF Client, Step

\* The Win32 implementation of QemuMutex and QemuCond is a condition variable in
\* the sense of CondVar, for any number of threads.
THEOREM Refinement ==
  ASSUME OneWakeKind
  PROVE  Spec => Refines
<1>1. Init => CV!Init
  BY DEF Init, CV!Init, Asleep
<1>2. IInv /\ [Next]_vars => [CV!Next]_CV!vars
  BY StepRefines
<1> QED
  BY Invariance, <1>1, <1>2, PTL DEF Spec, Refines, CV!Spec
=============================================================================

------------------------------ MODULE CondVar ------------------------------
(***************************************************************************)
(* What a condition variable used under one mutex promises its callers.    *)
(*                                                                         *)
(* A thread holds the mutex, waits, has been woken, or is elsewhere.  A    *)
(* signal grants one wake-up and a broadcast one per waiting thread; the   *)
(* grants are delivered while the signalling thread still holds the mutex, *)
(* so a thread that starts to wait later can never take a grant that was   *)
(* meant for a thread already waiting, and no grant outlives the call.     *)
(***************************************************************************)
EXTENDS Naturals, FiniteSets

CONSTANTS Threads, None

VARIABLES
  holder,   \* the thread that holds the mutex, or None
  waiting,  \* threads blocked in a wait
  woken,    \* threads granted a wake-up that have not yet retaken the mutex
  quota     \* wake-ups granted and not yet delivered

vars == <<holder, waiting, woken, quota>>

Init ==
  /\ holder = None
  /\ waiting = {}
  /\ woken = {}
  /\ quota = 0

Acquire(t) ==
  /\ holder = None
  /\ t \notin waiting
  /\ holder' = t
  /\ woken' = woken \ {t}
  /\ UNCHANGED <<waiting, quota>>

\* The mutex is never given up while a wake-up is still owed.
Release(t) ==
  /\ holder = t
  /\ quota = 0
  /\ holder' = None
  /\ UNCHANGED <<waiting, woken, quota>>

Wait(t) ==
  /\ holder = t
  /\ quota = 0
  /\ holder' = None
  /\ waiting' = waiting \cup {t}
  /\ UNCHANGED <<woken, quota>>

Signal(t) ==
  /\ holder = t
  /\ quota = 0
  /\ waiting # {}
  /\ quota' = 1
  /\ UNCHANGED <<holder, waiting, woken>>

Broadcast(t) ==
  /\ holder = t
  /\ quota = 0
  /\ waiting # {}
  /\ quota' = Cardinality(waiting)
  /\ UNCHANGED <<holder, waiting, woken>>

Wake(t) ==
  /\ t \in waiting
  /\ quota > 0
  /\ holder # None
  /\ quota' = quota - 1
  /\ waiting' = waiting \ {t}
  /\ woken' = woken \cup {t}
  /\ UNCHANGED holder

Next ==
  \E t \in Threads :
    \/ Acquire(t) \/ Release(t) \/ Wait(t)
    \/ Signal(t) \/ Broadcast(t) \/ Wake(t)

Spec == Init /\ [][Next]_vars
=============================================================================

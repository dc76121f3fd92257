--------------------------- MODULE MigrationProofs ---------------------------
(***************************************************************************)
(* Proofs about Migration, for any number of pages, sizes of the buffers,  *)
(* rates, builds, and any number of writes, migrations and failures.       *)
(*                                                                         *)
(* GuestSurvives is not inductive: what the main thread does next depends  *)
(* on what it remembers of the guest it stopped (old, verdict), and a      *)
(* completed migration must leave no handler behind that could turn it     *)
(* into a failed one.  IInv says so.                                       *)
(*                                                                         *)
(* Released rests on TypeInv, the types with the bound of the guest's      *)
(* memory, and on Clean: as long as no send failed, the objects of a       *)
(* migration live exactly as long as its handlers.                         *)
(*                                                                         *)
(* NoSplitBrain rests on Stream, which looks at all that is on its way to  *)
(* the destination as one sequence, Pipe.  A step appends to Pipe, moves   *)
(* units from one of its buffers to the next, takes its head off, or drops *)
(* its end together with the end mark.  So the end mark is its last unit,  *)
(* and loading Pipe over the destination's RAM gives the guest's memory.   *)
(***************************************************************************)
EXTENDS Migration, SequenceTheorems, FiniteSetTheorems, TLAPS

-----------------------------------------------------------------------------
(* The operators that choose.                                                *)

\* Induction over the naturals, for a set in place of a predicate.
LEMMA Induction ==
  ASSUME NEW S, 0 \in S, \A n \in Nat : n \in S => n + 1 \in S
  PROVE  \A n \in Nat : n \in S
<1> SUFFICES ASSUME Nat \ S # {} PROVE FALSE
  OBVIOUS
<1> DEFINE T == Nat \ S
           R == OpToRel(<, Nat)
<1>1. PICK x \in T : \A y \in T : ~(<<y, x>> \in R)
  <2>1. T \subseteq Nat /\ T # {}
    OBVIOUS
  <2>2. IsWellFoundedOn(R, Nat)
    BY NatLessThanWellFounded
  <2> HIDE DEF T, R
  <2> QED  BY <2>1, <2>2, WFMin
<1>2. \A y \in Nat : <<y, x>> \in R <=> y < x
  BY DEF OpToRel
<1> HIDE DEF R
<1>3. \A y \in T : ~ (y < x)
  BY <1>1, <1>2
<1>4. x # 0 /\ x - 1 \in Nat
  OBVIOUS
<1> QED  BY <1>3, <1>4

\* A set of naturals that is not empty has a least element.
LEMMA LeastOf ==
  ASSUME NEW T \in SUBSET Nat, T # {}
  PROVE  \E m \in T : \A n \in T : m <= n
<1> SUFFICES ASSUME \A m \in T : \E n \in T : n < m PROVE FALSE
  OBVIOUS
<1> DEFINE S == {k \in Nat : \A n \in T : n > k}
<1>1. 0 \in S
  OBVIOUS
<1>2. ASSUME NEW k \in Nat, k \in S PROVE k + 1 \in S
  <2> SUFFICES ASSUME NEW n \in T PROVE n > k + 1
    OBVIOUS
  <2>1. n # k + 1
    <3> SUFFICES ASSUME n = k + 1 PROVE FALSE
      OBVIOUS
    <3>1. PICK m \in T : m < n
      OBVIOUS
    <3> QED  BY <1>2, <3>1
  <2> QED  BY <1>2, <2>1
<1> HIDE DEF S
<1>3. \A k \in Nat : k \in S
  BY <1>1, <1>2, Induction
<1>4. PICK n \in T : TRUE
  OBVIOUS
<1>5. n \in Nat /\ n \in S
  BY <1>3
<1>6. n > n
  BY <1>5 DEF S
<1> QED  BY <1>5, <1>6

\* A finite set of naturals that is not empty has a greatest element: MaxRate exists.
LEMMA MaxRateIs == MaxRate \in Rates /\ MaxRate \in Nat /\ \A s \in Rates : s <= MaxRate
<1>1. Rates \subseteq Nat /\ Rates # {} /\ IsFiniteSet(Rates)
  BY MigrationAssumption
<1> DEFINE n == Cardinality(Rates)
<1>2. n \in Nat /\ ExistsBijection(1..n, Rates)
  BY <1>1, FS_CardinalityType
<1>3. PICK f \in [1..n -> Rates] : \A r \in Rates : \E k \in 1..n : f[k] = r
  BY <1>2, Zenon DEF ExistsBijection, Bijection, Surjection
<1> HIDE DEF n
<1> DEFINE S == {k \in Nat : 1 <= k /\ k <= n => \E m \in Rates : \A j \in 1..k : f[j] <= m}
<1>4. 0 \in S
  OBVIOUS
<1>5. ASSUME NEW k \in Nat, k \in S PROVE k + 1 \in S
  <2> SUFFICES ASSUME k + 1 <= n PROVE \E m \in Rates : \A j \in 1..(k + 1) : f[j] <= m
    OBVIOUS
  <2>1. f[k + 1] \in Rates /\ f[k + 1] \in Nat /\ \A j \in 1..k : f[j] \in Nat
    <3>1. k + 1 \in 1..n /\ \A j \in 1..k : j \in 1..n
      BY <1>2
    <3> QED  BY <1>1, <3>1
  <2>2. CASE k = 0
    BY <2>1, <2>2
  <2>3. CASE k # 0
    <3>1. PICK m \in Rates : \A j \in 1..k : f[j] <= m
      BY <1>2, <1>5, <2>3
    <3>2. m \in Nat
      BY <1>1
    <3>3. \A j \in 1..(k + 1) : j = k + 1 \/ j \in 1..k
      OBVIOUS
    <3>4. CASE m <= f[k + 1]
      BY <2>1, <3>1, <3>2, <3>3, <3>4
    <3>5. CASE f[k + 1] <= m
      BY <2>1, <3>1, <3>2, <3>3, <3>5
    <3> QED  BY <2>1, <3>2, <3>4, <3>5
  <2> QED  BY <2>2, <2>3
<1> HIDE DEF S
<1>6. n \in S
  BY <1>2, <1>4, <1>5, Induction
<1>7. n # 0
  <2>1. \E k \in 1..n : TRUE
    BY <1>1, <1>3
  <2> QED  BY <1>2, <2>1
<1>8. \E r \in Rates : \A s \in Rates : s <= r
  BY <1>2, <1>3, <1>6, <1>7 DEF S
<1> QED  BY <1>1, <1>8 DEF MaxRate

\* ram_save_block finds a dirty page when there is one.
LEMMA NextDirtyIs ==
  ASSUME dirty \subseteq Pages, last \in Pages, dirty # {}
  PROVE  NextDirty \in dirty
<1> DEFINE D(p) == (p - last) % NPages
           T == {D(p) : p \in dirty}
<1>1. NPages \in Nat \ {0} /\ last \in Int /\ dirty \subseteq Int
  BY MigrationAssumption DEF Pages
<1>2. \A p \in dirty : D(p) \in Nat
  BY <1>1
<1>3. T \in SUBSET Nat /\ T # {}
  BY <1>2
<1> HIDE DEF D
<1>4. PICK m \in T : \A n \in T : m <= n
  BY <1>3, LeastOf
<1>5. \E p \in dirty : \A q \in dirty : D(p) <= D(q)
  BY <1>4
<1> QED  BY <1>5 DEF NextDirty, D

-----------------------------------------------------------------------------
(* The guest.                                                                *)

Types ==
  /\ vm \in BOOLEAN /\ want \in BOOLEAN /\ old \in BOOLEAN
  /\ pc \in {"idle", "begin", "iterate", "complete", "verdict", "fclose",
             "close", "notified", "ticked", "undefined"}
  /\ call \in {"none", "flush", "put"}
  /\ mig = [state |-> mig.state, handler |-> mig.handler, file |-> mig.file,
            mon |-> mig.mon, limit |-> mig.limit]
  /\ bf = [live |-> bf.live, err |-> bf.err, frozen |-> bf.frozen,
           xfer |-> bf.xfer, limit |-> bf.limit, buf |-> bf.buf]
  /\ bf.live \in BOOLEAN

\* A call into buffered_file.c is made from a handler.
Called == call # "none" => pc \notin {"idle", "undefined"}

\* After a completed migration nothing of it is left to run.
Over ==
  mig.state = "completed" =>
    /\ pc \in {"idle", "undefined"}
    /\ ~bf.live /\ mig.handler = "none"

\* Before the last stage the guest is as the operator wants it.
Untouched ==
  pc \in {"idle", "begin", "iterate", "notified", "ticked"} =>
    mig.state = "completed" \/ vm = want

\* In the last stage it is stopped, and old says what to go back to.
Stopped == pc \in {"complete", "verdict"} => ~vm /\ old = want

\* While the file is closed the guest is back unless the verdict is success.
Closing ==
  pc \in {"fclose", "close"} =>
    vm = want \/ (why = "ready" /\ verdict = "completed")

IInv == Types /\ Called /\ Over /\ Untouched /\ Stopped /\ Closing

-----------------------------------------------------------------------------
\* A fresh process has no migration.
LEMMA InitIInv == Init => IInv
<1> SUFFICES ASSUME Init PROVE IInv
  OBVIOUS
<1>1. /\ pc = "idle" /\ call = "none" /\ vm = TRUE /\ want = TRUE /\ old = FALSE
      /\ mig = [state |-> "none", handler |-> "none", file |-> "null",
                mon |-> FALSE, limit |-> 0]
      /\ bf = [live |-> FALSE, err |-> FALSE, frozen |-> FALSE, xfer |-> 0,
               limit |-> 0, buf |-> <<>>]
  BY DEF Init, NoFile
<1>2. mig.state = "none" /\ bf.live = FALSE
  BY <1>1
<1>3. Types
  BY <1>1 DEF Types
<1> QED  BY <1>1, <1>2, <1>3 DEF IInv, Called, Over, Untouched, Stopped, Closing

\* Inside buffered_file.c: the migration goes on or fails, the guest is left alone.
LEMMA SendSteps ==
  IInv /\ (buffered_flush \/ buffered_put_buffer) => IInv'
<1> SUFFICES ASSUME IInv, buffered_flush \/ buffered_put_buffer PROVE IInv'
  OBVIOUS
<1> USE DEF IInv, Types, Called, Over, Untouched, Stopped, Closing
<1>1. /\ call # "none" /\ pc \notin {"idle", "undefined"}
      /\ mig.state # "completed"
  BY DEF buffered_flush, buffered_put_buffer
<1>2. /\ UNCHANGED <<vm, want, old, pc, why, verdict>>
      /\ call' \in {"none", "flush", "put"}
  BY DEF buffered_flush, buffered_put_buffer, FlushReturns, PutReturns, run
<1>3. /\ mig'.state \in {mig.state, "error"}
      /\ mig' = [state |-> mig'.state, handler |-> mig'.handler,
                 file |-> mig'.file, mon |-> mig'.mon,
                 limit |-> mig'.limit]
  BY DEF buffered_flush, buffered_put_buffer, PutAgain, PutError
<1>4. /\ bf'.live = bf.live
      /\ bf' = [live |-> bf'.live, err |-> bf'.err, frozen |-> bf'.frozen,
                xfer |-> bf'.xfer, limit |-> bf'.limit, buf |-> bf'.buf]
  BY DEF buffered_flush, buffered_put_buffer, Append_, AppendFrozen
<1> QED  BY <1>1, <1>2, <1>3, <1>4

\* Handing units to the file changes the buffers, and leaves migration and guest alone.
LEMMA FileSteps ==
  IInv /\ (ram_save_block \/ Fclose \/ CloseFlushes) => IInv'
<1> SUFFICES ASSUME IInv, ram_save_block \/ Fclose \/ CloseFlushes PROVE IInv'
  OBVIOUS
<1> USE DEF IInv, Types, Called, Over, Untouched, Stopped, Closing, At
<1>1. UNCHANGED <<vm, want, old, mig, why, verdict>>
  BY DEF ram_save_block, Fclose, CloseFlushes, run
<1>2. /\ pc \in {"begin", "iterate", "complete", "fclose", "close"}
      /\ pc' = IF pc = "fclose" THEN "close" ELSE pc
      /\ call' \in {"none", "flush", "put"}
  BY DEF ram_save_block, Fclose, CloseFlushes, qemu_put_buffer, qemu_fflush
<1>3. /\ bf'.live = bf.live
      /\ bf' = [live |-> bf'.live, err |-> bf'.err, frozen |-> bf'.frozen,
                xfer |-> bf'.xfer, limit |-> bf'.limit, buf |-> bf'.buf]
  BY DEF ram_save_block, Fclose, CloseFlushes, qemu_put_buffer, qemu_fflush, file
<1> QED  BY <1>1, <1>2, <1>3

\* The stages of a migration, from the first pass to the verdict.
LEMMA StageSteps ==
  IInv /\ (BeginEnds \/ IterateEnds \/ CompleteEnds \/ Verdict) => IInv'
<1> SUFFICES ASSUME IInv PROVE BeginEnds \/ IterateEnds \/ CompleteEnds \/ Verdict => IInv'
  OBVIOUS
<1> USE DEF IInv, Types, Called, Over, Untouched, Stopped, Closing, At
<1>1. CASE BeginEnds
  BY <1>1 DEF BeginEnds, PutReady, file, run
<1>2. CASE IterateEnds
  BY <1>2 DEF IterateEnds, file, run
<1>3. CASE CompleteEnds
  <2>1. /\ UNCHANGED <<vm, want, old, mig, why, verdict>>
        /\ pc = "complete" /\ pc' = "verdict" /\ call' \in {"none", "flush", "put"}
    BY <1>3 DEF CompleteEnds, qemu_put_buffer, qemu_fflush, run
  <2>2. /\ bf'.live = bf.live
        /\ bf' = [live |-> bf'.live, err |-> bf'.err, frozen |-> bf'.frozen,
                  xfer |-> bf'.xfer, limit |-> bf'.limit, buf |-> bf'.buf]
    BY <1>3 DEF CompleteEnds, qemu_put_buffer, qemu_fflush
  <2> QED  BY <2>1, <2>2
<1>4. CASE Verdict
  BY <1>4 DEF Verdict, file
<1> QED  BY <1>1, <1>2, <1>3, <1>4

\* The end of a migration: the state becomes "completed" only with nothing left.
LEMMA CloseSteps == IInv /\ CloseDone => IInv'
<1> SUFFICES ASSUME IInv, CloseDone PROVE IInv'
  OBVIOUS
<1> USE DEF IInv, Types, Called, Over, Untouched, Stopped, Closing, At
<1>1. /\ UNCHANGED <<vm, want, old, call>>
      /\ pc = "close" /\ pc' = "idle" /\ call = "none"
  BY DEF CloseDone, run
<1>2. /\ bf'.live = FALSE
      /\ bf' = [live |-> bf'.live, err |-> bf'.err, frozen |-> bf'.frozen,
                xfer |-> bf'.xfer, limit |-> bf'.limit, buf |-> bf'.buf]
  BY DEF CloseDone, NoFile
<1>3. /\ mig' = [state |-> mig'.state, handler |-> mig'.handler,
                 file |-> mig'.file, mon |-> mig'.mon,
                 limit |-> mig'.limit]
      /\ mig'.handler = "none"
      /\ mig'.state = IF why = "ready" THEN verdict ELSE mig.state
  BY DEF CloseDone
<1> QED  BY <1>1, <1>2, <1>3

\* The handlers of the main loop.
LEMMA HandlerSteps == IInv /\ (Handler \/ Notified \/ Ticked) => IInv'
<1> SUFFICES ASSUME IInv PROVE Handler \/ Notified \/ Ticked => IInv'
  OBVIOUS
<1> USE DEF IInv, Types, Called, Over, Untouched, Stopped, Closing, At, Idle
<1>1. CASE tcp_wait_for_connect
  <2>1. /\ UNCHANGED <<vm, want, old, call>>
        /\ pc = "idle" /\ pc' \in {"idle", "begin"} /\ vm = want
    BY <1>1 DEF tcp_wait_for_connect, migrate_fd_connect, run
  <2>2. /\ bf' = [live |-> bf'.live, err |-> bf'.err, frozen |-> bf'.frozen,
                  xfer |-> bf'.xfer, limit |-> bf'.limit, buf |-> bf'.buf]
        /\ bf'.live \in BOOLEAN
    BY <1>1 DEF tcp_wait_for_connect, migrate_fd_connect, NoFile, file
  <2>3. /\ mig' = [state |-> mig'.state, handler |-> mig'.handler,
                   file |-> mig'.file, mon |-> mig'.mon,
                   limit |-> mig'.limit]
        /\ mig'.state \in {mig.state, "error"} /\ mig.state # "completed"
    BY <1>1 DEF tcp_wait_for_connect
  <2> QED  BY <2>1, <2>2, <2>3
<1>2. CASE migrate_fd_put_notify
  BY <1>2 DEF migrate_fd_put_notify, run
<1>3. CASE buffered_rate_tick
  <2>1. /\ UNCHANGED <<vm, want, old>>
        /\ pc = "idle" /\ call = "none" /\ mig.state # "completed" /\ vm = want
        /\ \/ pc' = "idle" /\ call' = "none"
           \/ pc' = "ticked" /\ call' = "flush"
    BY <1>3 DEF buffered_rate_tick, run
  <2>2. /\ bf' = [live |-> bf'.live, err |-> bf'.err, frozen |-> bf'.frozen,
                  xfer |-> bf'.xfer, limit |-> bf'.limit, buf |-> bf'.buf]
        /\ bf'.live \in BOOLEAN
    <3>1. bf' = NoFile \/ bf' = [bf EXCEPT !.xfer = 0]
      BY <1>3 DEF buffered_rate_tick
    <3>2. CASE bf' = NoFile
      <4>1. bf' = [live |-> FALSE, err |-> FALSE, frozen |-> FALSE, xfer |-> 0,
                   limit |-> 0, buf |-> <<>>]
        BY <3>2 DEF NoFile
      <4> QED  BY <4>1
    <3>3. CASE bf' = [bf EXCEPT !.xfer = 0]
      <4>1. bf' = [live |-> bf.live, err |-> bf.err, frozen |-> bf.frozen,
                   xfer |-> 0, limit |-> bf.limit, buf |-> bf.buf]
        BY <3>3
      <4> QED  BY <4>1
    <3> QED  BY <3>1, <3>2, <3>3
  <2>3. /\ mig' = [state |-> mig'.state, handler |-> mig'.handler,
                   file |-> mig'.file, mon |-> mig'.mon,
                   limit |-> mig'.limit]
        /\ mig'.state = mig.state
    BY <1>3 DEF buffered_rate_tick
  <2> QED  BY <2>1, <2>2, <2>3
<1>4. CASE OrphanTick
  BY <1>4 DEF OrphanTick, file, run
<1>5. CASE Notified \/ Ticked
  BY <1>5 DEF Notified, Ticked, PutReady, file, run
<1> QED  BY <1>1, <1>2, <1>3, <1>4, <1>5 DEF Handler

\* The commands, which come when the main thread is idle.
LEMMA CommandSteps == IInv /\ Command => IInv'
<1> SUFFICES ASSUME IInv PROVE Command => IInv'
  OBVIOUS
<1> USE DEF IInv, Types, Called, Over, Untouched, Stopped, Closing, Idle
<1>1. ASSUME NEW sync \in BOOLEAN, do_migrate(sync) PROVE IInv'
  <2>1. /\ UNCHANGED <<vm, want, old, call>> /\ mig.state # "completed"
        /\ pc = "idle" /\ pc' \in {"idle", "begin"}
    BY <1>1 DEF do_migrate, migrate_fd_connect, run
  <2>2. /\ bf' = [live |-> bf'.live, err |-> bf'.err, frozen |-> bf'.frozen,
                  xfer |-> bf'.xfer, limit |-> bf'.limit, buf |-> bf'.buf]
        /\ bf'.live \in BOOLEAN
    <3>1. bf' = NoFile \/ bf' = [NoFile EXCEPT !.live = TRUE, !.limit = throttle]
      BY <1>1 DEF do_migrate, migrate_fd_connect
    <3>2. CASE bf' = NoFile
      <4>1. bf' = [live |-> FALSE, err |-> FALSE, frozen |-> FALSE, xfer |-> 0,
                   limit |-> 0, buf |-> <<>>]
        BY <3>2 DEF NoFile
      <4> QED  BY <4>1
    <3>3. CASE bf' = [NoFile EXCEPT !.live = TRUE, !.limit = throttle]
      <4>1. bf' = [live |-> TRUE, err |-> FALSE, frozen |-> FALSE, xfer |-> 0,
                   limit |-> throttle, buf |-> <<>>]
        BY <3>3 DEF NoFile
      <4> QED  BY <4>1
    <3> QED  BY <3>1, <3>2, <3>3
  <2>3. /\ mig' = [state |-> mig'.state, handler |-> mig'.handler,
                   file |-> mig'.file, mon |-> mig'.mon,
                   limit |-> mig'.limit]
        /\ mig'.state \in {"active", "error"}
    BY <1>1 DEF do_migrate
  <2> QED  BY <2>1, <2>2, <2>3
<1>2. CASE do_migrate_cancel
  BY <1>2 DEF do_migrate_cancel, file, run
<1>3. ASSUME NEW r \in Rates, do_migrate_set_speed(r) PROVE IInv'
  BY <1>3 DEF do_migrate_set_speed, run
<1>4. CASE StopCont
  BY <1>4 DEF StopCont, file, thread
<1> QED  BY <1>1, <1>2, <1>3, <1>4 DEF Command

\* The surroundings change none of the variables the invariant is about.
LEMMA OtherSteps ==
  IInv /\ (GuestWrite \/ NetFail \/ Receive \/ Undefined \/ UNCHANGED vars) => IInv'
BY DEF IInv, Types, Called, Over, Untouched, Stopped, Closing, GuestWrite, NetFail,
       Receive, Undefined, vars, run, file, thread

\* Every step of the main thread, the operator and the surroundings keeps what the next
\* stage of a migration relies on.
THEOREM Invariance == Spec => []IInv
<1>1. IInv /\ [Next]_vars => IInv'
  BY SendSteps, FileSteps, StageSteps, CloseSteps, HandlerSteps, CommandSteps,
     OtherSteps DEF Next, MainStep
<1> QED  BY InitIInv, <1>1, PTL DEF Spec

\* However a migration fails or is cancelled, the guest is afterwards as the operator
\* wants it (migrate_fd_put_ready, migrate_fd_cancel, migrate_fd_error).
THEOREM GuestIsRestored == Spec => []GuestSurvives
<1>1. IInv => GuestSurvives
  BY DEF IInv, Untouched, GuestSurvives, Idle
<1> QED  BY <1>1, Invariance, PTL

-----------------------------------------------------------------------------
(* What a migration holds.                                                   *)

Working == {"begin", "iterate", "complete", "verdict", "fclose", "close",
            "notified", "ticked"}
Closes == {"fclose", "close"}

\* As long as no send failed, the objects of a migration live as long as its handlers,
\* and the monitor is suspended as long as a synchronous migration is not over.
Clean ==
  ~senderr =>
    /\ ~bf.err /\ ~qf.err /\ mig.file # "stale" /\ ~orphan /\ pc # "undefined"
    /\ bf.live <=> mig.file = "open"
    /\ pc \in Working => mig.file = "open"
    /\ mig.file = "open" /\ pc \notin Closes => mig.state = "active"
    /\ pc \in Closes /\ why # "ready" => mig.state # "active"
    /\ mig.handler = "notify" => mig.file = "open"
    /\ mig.handler = "connect" => mig.file = "null" /\ mig.state = "active" /\ pc = "idle"
    /\ suspended = IF mig.mon /\ (mig.state = "active" \/ pc \in Closes) THEN 1 ELSE 0

-----------------------------------------------------------------------------
(* The stream.                                                               *)

\* All that is on its way to the destination, oldest first.
Pipe == wire.q \o (bf.buf \o (arg \o qf.buf))

\* Nothing follows the end mark in s.
LastOnly(s) == \A i \in 1..Len(s) : s[i] = EOF => i = Len(s)
Has(s, u) == \E i \in 1..Len(s) : s[i] = u
About(u, p) == u # EOF /\ u[1] = p

\* Loading s over ram leaves v in page p.
Loads(s, ram, p, v) ==
  \/ \E i \in 1..Len(s) : s[i] = <<p, v>> /\ \A j \in (i + 1)..Len(s) : ~About(s[j], p)
  \/ ram[p] = v /\ \A j \in 1..Len(s) : ~About(s[j], p)

\* Where units wait.
Held ==
  /\ call = "none" => arg = <<>>
  /\ call = "put" => arg # <<>>
  /\ call # "none" /\ arg # <<>> => qf.buf = <<>>
  /\ arg # <<>> => pc \in {"begin", "iterate", "complete", "verdict", "close"}
  /\ pc = "close" => qf.buf = <<>>
  /\ pc \in Working \/ mig.file = "open" => bf.live
  /\ call = "flush" => ~bf.err
  /\ wire.down => wire.q = <<>>
  /\ bf.frozen => posix

\* A unit is not put past those that wait in the buffer: after a flush these are gone,
\* or the file is frozen or over its limit, or it failed.  On Windows a full socket is a
\* failure from which a send may recover, and there only the limit keeps the order.
InOrder ==
  /\ call = "put" => bf.buf = <<>> \/ bf.frozen \/ bf.xfer > bf.limit \/ bf.err
  /\ call = "put" /\ bf.err =>
       wire.down \/ bf.xfer > bf.limit \/ (pc = "close" /\ why # "ready")
  /\ pc \in {"notified", "ticked"} /\ call = "none" =>
       bf.buf = <<>> \/ bf.frozen \/ bf.err
  /\ ~posix /\ bf.buf # <<>> /\ ~bf.err
       /\ (pc \in {"begin", "iterate", "complete", "verdict"}
            \/ (pc \in Closes /\ why = "ready"))
     => bf.xfer > bf.limit

\* Once the end mark is on its way the migration can only be a completed one.
Ending ==
  Has(Pipe, EOF) \/ dst.status = "running" =>
    /\ ~vm /\ dirty = {}
    /\ \/ pc = "verdict" /\ ~qf.err
       \/ pc \in Closes /\ why = "ready" /\ verdict = "completed"
       \/ pc \in {"idle", "undefined"} /\ mig.state = "completed"

EofLast == LastOnly(Pipe)

\* The file has kept, in order, all that it was given.
Whole == bf.live /\ ~qf.err /\ ~(pc \in Closes /\ why # "ready")

\* The destination will have every page that is not dirty as the guest left it.
Faithful ==
  ~wire.down /\ (Has(Pipe, EOF) \/ Whole) =>
    \A p \in Pages \ dirty : Loads(Pipe, dst.ram, p, mem[p])

\* It has them once it runs, and nothing is on its way any more.
TakenOver ==
  dst.status = "running" =>
    dst.ram = mem /\ bf.buf = <<>> /\ arg = <<>> /\ qf.buf = <<>>

Stream == Held /\ InOrder /\ Ending /\ EofLast /\ Faithful /\ TakenOver

-----------------------------------------------------------------------------
(* Types.  A page's contents are counted in writes, so their bound comes     *)
(* with nwrites.                                                             *)

Bounded == \A p \in Pages : mem[p] <= nwrites

TypeInv == TypeOK /\ Bounded

GuestType ==
  /\ mem \in [Pages -> 0..MaxWrites] /\ dirty \subseteq Pages
  /\ last \in Pages /\ nwrites \in 0..MaxWrites
  /\ Bounded

MigType == mig \in [state : {"none", "active", "completed", "error", "cancelled"},
                    handler : {"none", "connect", "notify"},
                    file : {"null", "open", "stale"}, mon : BOOLEAN,
                    limit : Rates \cup {0}]

FileType ==
  /\ qf \in [buf : Seq(Unit), err : BOOLEAN] /\ Len(qf.buf) < IoBuf
  /\ bf \in [live : BOOLEAN, err : BOOLEAN, frozen : BOOLEAN,
             xfer : 0..(MaxRate + 1), limit : Rates \cup {0}, buf : Seq(Unit)]
  /\ call \in {"none", "flush", "put"} /\ arg \in Seq(Unit)

PeerType ==
  /\ wire \in [q : Seq(Unit), closed : BOOLEAN, down : BOOLEAN]
  /\ Len(wire.q) <= SockBuf
  /\ dst \in [ram : [Pages -> -1..MaxWrites],
              status : {"loading", "running", "exited"}]
  /\ accepted \in BOOLEAN

ThreadType ==
  /\ vm \in BOOLEAN /\ want \in BOOLEAN /\ old \in BOOLEAN
  /\ throttle \in Rates
  /\ pc \in {"idle", "begin", "iterate", "complete", "verdict", "fclose",
             "close", "notified", "ticked", "undefined"}
  /\ why \in {"none", "ready", "error", "cancel"}
  /\ verdict \in {"none", "completed", "error"}
  /\ suspended \in Int
  /\ orphan \in BOOLEAN /\ posix \in BOOLEAN /\ senderr \in BOOLEAN

\* TypeOK is the conjunction of these.
LEMMA TypeParts ==
  TypeInv <=> GuestType /\ MigType /\ FileType /\ PeerType /\ ThreadType
BY DEF TypeInv, TypeOK, GuestType, MigType, FileType, PeerType, ThreadType

\* What the files of a fresh migration are.
LEMMA FreshType ==
  /\ <<>> \in Seq(Unit)
  /\ \A l \in Rates \cup {0} : \A b \in BOOLEAN :
       [live |-> b, err |-> FALSE, frozen |-> FALSE, xfer |-> 0, limit |-> l,
        buf |-> <<>>]
         \in [live : BOOLEAN, err : BOOLEAN, frozen : BOOLEAN,
              xfer : 0..(MaxRate + 1), limit : Rates \cup {0}, buf : Seq(Unit)]
  /\ [buf |-> <<>>, err |-> FALSE] \in [buf : Seq(Unit), err : BOOLEAN]
  /\ Len(<<>>) = 0 /\ 0 < IoBuf
  /\ Connection \in [q : Seq(Unit), closed : BOOLEAN, down : BOOLEAN]
  /\ Connection.q = <<>>
  /\ NewPeer \in [ram : [Pages -> -1..MaxWrites],
                  status : {"loading", "running", "exited"}]
<1>1. <<>> \in Seq(Unit) /\ Len(<<>>) = 0
  BY EmptySeq
<1>2. 0 < IoBuf /\ MaxWrites \in Nat
  BY MigrationAssumption
<1>3. 0 \in 0..(MaxRate + 1)
  BY MaxRateIs
<1>4. -1 \in -1..MaxWrites
  BY <1>2
<1> QED  BY <1>1, <1>2, <1>3, <1>4 DEF Connection, NewPeer

\* A fresh process.
LEMMA InitType == Init => TypeInv
<1> SUFFICES ASSUME Init PROVE TypeInv
  OBVIOUS
<1>1. NPages \in Nat \ {0} /\ MaxWrites \in Nat /\ SockBuf \in Nat /\ Builds \subseteq BOOLEAN
  BY MigrationAssumption
<1>2. GuestType
  BY <1>1 DEF Init, GuestType, Bounded, Pages
<1>3. FileType
  <2>1. qf = [buf |-> <<>>, err |-> FALSE] /\ bf = NoFile /\ call = "none" /\ arg = <<>>
    BY DEF Init
  <2>2. NoFile \in [live : BOOLEAN, err : BOOLEAN, frozen : BOOLEAN,
              xfer : 0..(MaxRate + 1), limit : Rates \cup {0}, buf : Seq(Unit)]
    BY FreshType DEF NoFile
  <2> QED  BY <2>1, <2>2, FreshType DEF FileType
<1>4. PeerType
  <2>1. wire = Connection /\ dst = NewPeer /\ accepted = FALSE
    BY DEF Init
  <2>2. Len(Connection.q) <= SockBuf
    BY <1>1, FreshType
  <2> QED  BY <2>1, <2>2, FreshType DEF PeerType
<1>5. MigType
  <2>1. mig = [state |-> "none", handler |-> "none", file |-> "null",
               mon |-> FALSE, limit |-> 0]
    BY DEF Init
  <2> QED  BY <2>1 DEF MigType
<1>6. ThreadType
  <2>1. suspended = 0 /\ throttle \in Rates
    BY DEF Init
  <2>2. /\ vm \in BOOLEAN /\ want \in BOOLEAN /\ old \in BOOLEAN
        /\ orphan \in BOOLEAN /\ posix \in BOOLEAN /\ senderr \in BOOLEAN
    BY <1>1, Zenon DEF Init
  <2>3. pc = "idle" /\ why = "none" /\ verdict = "none"
    BY DEF Init
  <2> QED  BY <2>1, <2>2, <2>3 DEF ThreadType
<1> QED  BY <1>2, <1>3, <1>4, <1>5, <1>6, TypeParts

\* What the socket takes of the data leaves the rest of it.
LEMMA SendsIs ==
  ASSUME PeerType, NEW data \in Seq(Unit), NEW n \in 1..SockBuf, Sends(data, n)
  PROVE  /\ wire' \in [q : Seq(Unit), closed : BOOLEAN, down : BOOLEAN]
         /\ Len(wire'.q) <= SockBuf
         /\ wire'.closed = wire.closed /\ wire'.down = wire.down /\ ~wire.down
         /\ accepted' \in BOOLEAN
         /\ n \in 1..Len(data)
         /\ SubSeq(data, 1, n) \in Seq(Unit) /\ Rest(data, n) \in Seq(Unit)
         /\ wire'.q = wire.q \o SubSeq(data, 1, n)
         /\ SubSeq(data, 1, n) \o Rest(data, n) = data
<1>1. SockBuf \in Nat /\ Len(data) \in Nat /\ Len(wire.q) \in Nat /\ wire.q \in Seq(Unit)
  BY MigrationAssumption, LenProperties DEF PeerType
<1>2. n \in 1..Len(data) /\ n <= SockBuf - Len(wire.q)
  <2>1. Room > 0 /\ n = Least(Room, Len(data)) /\ n \in Int
    BY DEF Sends
  <2>2. n <= Room /\ n <= Len(data)
    <3>1. Room \in Int
      BY <1>1 DEF Room
    <3> QED  BY <1>1, <2>1, <3>1 DEF Least
  <2> QED  BY <1>1, <2>1, <2>2 DEF Room
<1>3. SubSeq(data, 1, n) \in Seq(Unit) /\ Len(SubSeq(data, 1, n)) = n
  <2>1. \A i \in 1..n : data[i] \in Unit
    BY <1>1, <1>2, ElementOfSeq
  <2>2. 1 \in Int /\ n \in Int /\ 1 <= n
    OBVIOUS
  <2>3. /\ SubSeq(data, 1, n) \in Seq(Unit)
        /\ Len(SubSeq(data, 1, n)) = IF 1 <= n THEN n - 1 + 1 ELSE 0
    BY <2>1, <2>2, SubSeqProperties
  <2> QED  BY <2>2, <2>3
<1>4. Rest(data, n) \in Seq(Unit)
  <2>1. \A i \in (n + 1)..Len(data) : data[i] \in Unit
    BY <1>1, <1>2, ElementOfSeq
  <2>2. n + 1 \in Int /\ Len(data) \in Int
    BY <1>1
  <2> QED  BY <2>1, <2>2, SubSeqProperties DEF Rest
<1>5. /\ wire.q \o SubSeq(data, 1, n) \in Seq(Unit)
      /\ Len(wire.q \o SubSeq(data, 1, n)) = Len(wire.q) + n
  BY <1>1, <1>3, ConcatProperties
<1>6. wire' = [wire EXCEPT !.q = wire.q \o SubSeq(data, 1, n)] /\ ~wire.down
  BY DEF Sends
<1>7. wire' \in [q : Seq(Unit), closed : BOOLEAN, down : BOOLEAN]
  BY <1>5, <1>6 DEF PeerType
<1>8. /\ wire'.q = wire.q \o SubSeq(data, 1, n)
      /\ wire'.closed = wire.closed /\ wire'.down = wire.down
  BY <1>6 DEF PeerType
<1>9. Len(wire'.q) <= SockBuf
  BY <1>1, <1>2, <1>5, <1>8
<1>10. accepted' \in BOOLEAN
  BY DEF Sends
<1>11. SubSeq(data, 1, n) \o Rest(data, n) = data
  <2>1. 1 \in 1..Len(data) + 1 /\ n \in (1 - 1)..Len(data) /\ Len(data) \in n..Len(data)
    BY <1>1, <1>2
  <2>2. SubSeq(data, 1, n) \o SubSeq(data, n + 1, Len(data)) = SubSeq(data, 1, Len(data))
    BY <2>1, ConcatAdjacentSubSeq
  <2> QED  BY <2>2, SubSeqFull DEF Rest
<1> QED  BY <1>2, <1>3, <1>4, <1>6, <1>7, <1>8, <1>9, <1>10, <1>11

\* Inside buffered_file.c.
LEMMA SendTypes == TypeInv /\ (buffered_flush \/ buffered_put_buffer) => TypeInv'
<1> SUFFICES ASSUME TypeInv, buffered_flush \/ buffered_put_buffer PROVE TypeInv'
  OBVIOUS
<1> USE TypeParts
<1>0. GuestType /\ MigType /\ FileType /\ PeerType /\ ThreadType
  OBVIOUS
<1>1. GuestType'
  BY DEF GuestType, Bounded, buffered_flush, buffered_put_buffer, guest
<1>2. MigType'
  BY DEF MigType, buffered_flush, buffered_put_buffer, PutAgain, PutError
<1>3. ThreadType'
  <2>1. suspended' \in Int
    BY DEF ThreadType, buffered_flush, buffered_put_buffer, PutError
  <2>3. senderr' \in BOOLEAN
    BY DEF ThreadType, buffered_flush, buffered_put_buffer, PutError
  <2>2. UNCHANGED <<vm, want, old, throttle, pc, why, verdict, orphan, posix>>
    BY DEF buffered_flush, buffered_put_buffer, run
  <2> QED  BY <2>1, <2>2, <2>3 DEF ThreadType
<1>4. bf.buf \in Seq(Unit) /\ arg \in Seq(Unit) /\ <<>> \in Seq(Unit)
  BY FreshType DEF FileType
<1>5. PeerType'
  <2>1. dst' = dst
    BY DEF buffered_flush, buffered_put_buffer
  <2>2. \/ UNCHANGED <<wire, accepted>>
        \/ \E n \in 1..SockBuf : Sends(bf.buf, n) \/ Sends(arg, n)
    BY DEF buffered_flush, buffered_put_buffer
  <2>3. ASSUME NEW n \in 1..SockBuf, Sends(bf.buf, n) \/ Sends(arg, n) PROVE PeerType'
    BY <1>4, <2>1, <2>3, SendsIs DEF PeerType
  <2>4. CASE UNCHANGED <<wire, accepted>>
    BY <2>1, <2>4 DEF PeerType
  <2> QED  BY <2>2, <2>3, <2>4
<1>6. qf' \in [buf : Seq(Unit), err : BOOLEAN] /\ Len(qf'.buf) < IoBuf
  BY DEF FileType, buffered_flush, buffered_put_buffer
<1>7. call' \in {"none", "flush", "put"}
  BY DEF FileType, buffered_flush, buffered_put_buffer, FlushReturns, PutReturns
<1>8. arg' \in Seq(Unit)
  <2>1. arg' = arg \/ arg' = <<>> \/ \E n \in 1..SockBuf : Sends(arg, n) /\ arg' = Rest(arg, n)
    BY DEF buffered_flush, buffered_put_buffer, PutReturns
  <2> QED  BY <1>4, <2>1, SendsIs
<1>9. bf' \in [live : BOOLEAN, err : BOOLEAN, frozen : BOOLEAN,
             xfer : 0..(MaxRate + 1), limit : Rates \cup {0}, buf : Seq(Unit)]
  <2> DEFINE BF == [live : BOOLEAN, err : BOOLEAN, frozen : BOOLEAN,
             xfer : 0..(MaxRate + 1), limit : Rates \cup {0}, buf : Seq(Unit)]
  <2>1. bf \in BF
    BY DEF FileType
  <2>2. \/ bf' = bf
        \/ \E n \in 1..SockBuf : Sends(bf.buf, n) /\ bf' = [bf EXCEPT !.buf = Rest(@, n)]
        \/ bf' = [bf EXCEPT !.frozen = TRUE]
        \/ bf' = [bf EXCEPT !.err = TRUE]
        \/ bf' = [bf EXCEPT !.buf = @ \o arg]
        \/ bf' = [bf EXCEPT !.buf = @ \o arg, !.frozen = TRUE]
        \/ \E n \in 1..SockBuf : bf' = [bf EXCEPT !.xfer = Least(@ + n, MaxRate + 1)]
    BY DEF buffered_flush, buffered_put_buffer, Append_, AppendFrozen
  <2>3. ASSUME NEW n \in 1..SockBuf, Sends(bf.buf, n), bf' = [bf EXCEPT !.buf = Rest(@, n)]
        PROVE  bf' \in BF
    <3>1. Rest(bf.buf, n) \in Seq(Unit)
      BY <1>4, <2>3, SendsIs
    <3> QED  BY <2>1, <2>3, <3>1
  <2>4. CASE bf' = [bf EXCEPT !.frozen = TRUE] \/ bf' = [bf EXCEPT !.err = TRUE] \/ bf' = bf
    BY <2>1, <2>4
  <2>5. CASE bf' = [bf EXCEPT !.buf = @ \o arg] \/ bf' = [bf EXCEPT !.buf = @ \o arg, !.frozen = TRUE]
    <3>1. bf.buf \o arg \in Seq(Unit)
      BY <1>4, ConcatProperties
    <3> QED  BY <2>1, <2>5, <3>1
  <2>6. ASSUME NEW n \in 1..SockBuf, bf' = [bf EXCEPT !.xfer = Least(@ + n, MaxRate + 1)]
        PROVE  bf' \in BF
    <3>1. MaxRate \in Nat /\ n \in Nat /\ bf.xfer \in Nat
      BY <2>1, MaxRateIs
    <3>2. Least(bf.xfer + n, MaxRate + 1) \in 0..(MaxRate + 1)
      BY <3>1 DEF Least
    <3> QED  BY <2>1, <2>6, <3>2
  <2> QED  BY <2>2, <2>3, <2>4, <2>5, <2>6
<1> QED  BY <1>1, <1>2, <1>3, <1>5, <1>6, <1>7, <1>8, <1>9 DEF FileType, TypeInv, TypeOK, GuestType, MigType, PeerType, ThreadType

\* A unit or all of the buffer is handed on, at most IoBuf - 1 stay.
LEMMA FileIs ==
  ASSUME FileType, NEW q \in Seq(Unit), qemu_fflush(q)
  PROVE  FileType'
<1>1. IoBuf \in Nat \ {0} /\ <<>> \in Seq(Unit) /\ Len(<<>>) = 0
  BY MigrationAssumption, FreshType
<1>2. CASE q = <<>> \/ bf.err
  <2>1. qf' = [buf |-> <<>>, err |-> qf.err \/ q # <<>>] /\ UNCHANGED <<bf, call, arg>>
    BY <1>2 DEF qemu_fflush
  <2>2. qf' \in [buf : Seq(Unit), err : BOOLEAN] /\ qf'.buf = <<>>
    BY <1>1, <2>1 DEF FileType
  <2> QED  BY <1>1, <2>1, <2>2 DEF FileType
<1>3. CASE ~(q = <<>> \/ bf.err)
  <2>1. /\ qf' = [qf EXCEPT !.buf = <<>>]
        /\ bf' = [bf EXCEPT !.frozen = FALSE]
        /\ call' = "flush" /\ arg' = q
    BY <1>3 DEF qemu_fflush
  <2>2. qf' \in [buf : Seq(Unit), err : BOOLEAN] /\ qf'.buf = <<>>
    BY <1>1, <2>1 DEF FileType
  <2>3. bf' \in [live : BOOLEAN, err : BOOLEAN, frozen : BOOLEAN,
             xfer : 0..(MaxRate + 1), limit : Rates \cup {0}, buf : Seq(Unit)]
    BY <2>1 DEF FileType
  <2> QED  BY <1>1, <2>1, <2>2, <2>3 DEF FileType
<1> QED  BY <1>2, <1>3

\* A unit is buffered as long as the buffer has room for one more.
LEMMA UnitIs ==
  ASSUME FileType, NEW u \in Unit, qemu_put_buffer(u)
  PROVE  FileType'
<1> DEFINE q == Append(qf.buf, u)
<1>1. q \in Seq(Unit) /\ <<>> \in Seq(Unit)
  BY AppendProperties, FreshType DEF FileType
<1>2. CASE ~qf.err /\ Len(q) < IoBuf
  <2>1. qf' = [qf EXCEPT !.buf = q] /\ UNCHANGED <<bf, call, arg>>
    BY <1>2 DEF qemu_put_buffer
  <2> HIDE DEF q
  <2>2. qf' \in [buf : Seq(Unit), err : BOOLEAN] /\ qf'.buf = q
    BY <1>1, <2>1 DEF FileType
  <2> QED  BY <1>2, <2>1, <2>2 DEF FileType
<1>3. CASE ~(~qf.err /\ Len(q) < IoBuf)
  <2>1. qemu_fflush(IF qf.err THEN <<>> ELSE q)
    BY <1>3 DEF qemu_put_buffer
  <2> QED  BY <1>1, <2>1, FileIs
<1> QED  BY <1>2, <1>3

\* The guest's writes are bounded.
LEMMA WritesIs ==
  ASSUME GuestType, NEW W \in SUBSET Pages, Writes(W)
  PROVE  GuestType'
<1>1. NPages \in Nat /\ MaxWrites \in Nat /\ nwrites \in Nat
  BY MigrationAssumption DEF GuestType
<1>2. IsFiniteSet(Pages)
  BY <1>1, FS_Interval DEF Pages
<1>3. IsFiniteSet(W) /\ Cardinality(W) \in Nat
  BY <1>2, FS_Subset, FS_CardinalityType
<1>4. ASSUME NEW p \in W PROVE Cardinality(W) >= 1
  <2>1. Cardinality(W) # 0
    BY <1>3, <1>4, FS_EmptySet
  <2> QED  BY <1>3, <2>1
<1>5. /\ nwrites + Cardinality(W) <= MaxWrites /\ nwrites' = nwrites + Cardinality(W)
      /\ mem' = [p \in Pages |-> IF p \in W THEN mem[p] + 1 ELSE mem[p]]
      /\ dirty' = dirty \cup W /\ last' = last
  BY DEF Writes
<1> HIDE DEF Writes
<1>6. nwrites' \in 0..MaxWrites /\ nwrites <= nwrites'
  BY <1>1, <1>3, <1>5
<1>7. ASSUME NEW p \in Pages PROVE mem'[p] \in 0..MaxWrites /\ mem'[p] <= nwrites'
  <2>1. mem[p] \in 0..MaxWrites /\ mem[p] <= nwrites
    BY DEF GuestType, Bounded
  <2>2. CASE p \in W
    BY <1>1, <1>3, <1>4, <1>5, <1>6, <2>1, <2>2
  <2>3. CASE p \notin W
    BY <1>1, <1>3, <1>5, <1>6, <2>1, <2>3
  <2> QED  BY <2>2, <2>3
<1>8. mem' \in [Pages -> 0..MaxWrites]
  BY <1>5, <1>7
<1> QED  BY <1>5, <1>6, <1>7, <1>8 DEF GuestType, Bounded

\* Copying pages and the stages of a migration.
LEMMA StageTypes ==
  TypeInv /\ (ram_save_block \/ BeginEnds \/ IterateEnds \/ CompleteEnds \/ Verdict)
    => TypeInv'
<1> SUFFICES ASSUME TypeInv
             PROVE  ram_save_block \/ BeginEnds \/ IterateEnds \/ CompleteEnds \/ Verdict
                      => TypeInv'
  OBVIOUS
<1>0. GuestType /\ MigType /\ FileType /\ PeerType /\ ThreadType
  BY TypeParts
<1>0a. (GuestType /\ MigType /\ FileType /\ PeerType /\ ThreadType)' => TypeInv'
  BY TypeParts, PTL
<1>1. CASE ram_save_block
  <2>1. NextDirty \in dirty /\ NextDirty \in Pages
    BY <1>0, <1>1, NextDirtyIs DEF ram_save_block, GuestType
  <2>2. <<NextDirty, mem[NextDirty]>> \in Unit
    BY <1>0, <2>1 DEF Unit, GuestType
  <2>3. FileType'
    BY <1>0, <1>1, <2>2, UnitIs DEF ram_save_block
  <2>4. GuestType'
    BY <1>0, <1>1, <2>1 DEF ram_save_block, GuestType, Bounded
  <2>5. MigType' /\ PeerType' /\ ThreadType'
    BY <1>0, <1>1 DEF ram_save_block, MigType, PeerType, ThreadType, run, peer, history
  <2> QED  BY <1>0a, <2>3, <2>4, <2>5
<1>2. CASE BeginEnds
  <2>1. GuestType' /\ FileType' /\ PeerType'
    BY <1>0, <1>2 DEF BeginEnds, GuestType, Bounded, FileType, PeerType, guest, file, peer
  <2>2. MigType'
    BY <1>0, <1>2 DEF BeginEnds, MigType
  <2>3. ThreadType'
    BY <1>0, <1>2 DEF BeginEnds, ThreadType, PutReady, run, history
  <2> QED  BY <1>0a, <2>1, <2>2, <2>3
<1>3. CASE IterateEnds
  <2>1. MigType' /\ FileType' /\ PeerType'
    BY <1>0, <1>3 DEF IterateEnds, MigType, FileType, PeerType, file, peer
  <2>2. GuestType'
    <3>1. CASE \E W \in SUBSET Pages : Writes(W)
      BY <1>0, <3>1, WritesIs
    <3>2. CASE UNCHANGED guest
      BY <1>0, <3>2 DEF GuestType, Bounded, guest
    <3> QED  BY <1>3, <3>1, <3>2 DEF IterateEnds
  <2>3. ThreadType'
    BY <1>0, <1>3 DEF IterateEnds, ThreadType, run, history
  <2> QED  BY <1>0a, <2>1, <2>2, <2>3
<1>4. CASE CompleteEnds
  <2>1. FileType'
    <3>1. EOF \in Unit
      BY DEF Unit
    <3> QED  BY <1>0, <1>4, <3>1, UnitIs DEF CompleteEnds
  <2>2. GuestType' /\ MigType' /\ PeerType'
    BY <1>0, <1>4 DEF CompleteEnds, GuestType, Bounded, MigType, PeerType, guest, peer
  <2>3. ThreadType'
    BY <1>0, <1>4 DEF CompleteEnds, ThreadType, run, history
  <2> QED  BY <1>0a, <2>1, <2>2, <2>3
<1>5. CASE Verdict
  <2>1. GuestType' /\ FileType' /\ PeerType'
    BY <1>0, <1>5 DEF Verdict, GuestType, Bounded, FileType, PeerType, guest, file, peer
  <2>2. MigType'
    BY <1>0, <1>5 DEF Verdict, MigType
  <2>3. vm' \in BOOLEAN
    BY <1>5 DEF Verdict
  <2>4. ThreadType'
    BY <1>0, <1>5, <2>3 DEF Verdict, ThreadType, history
  <2> QED  BY <1>0a, <2>1, <2>2, <2>4
<1> QED  BY <1>1, <1>2, <1>3, <1>4, <1>5

\* Closing the file.
LEMMA CloseTypes == TypeInv /\ (Fclose \/ CloseFlushes \/ CloseDone) => TypeInv'
<1> SUFFICES ASSUME TypeInv PROVE Fclose \/ CloseFlushes \/ CloseDone => TypeInv'
  OBVIOUS
<1>0. GuestType /\ MigType /\ FileType /\ PeerType /\ ThreadType
  BY TypeParts
<1>0a. (GuestType /\ MigType /\ FileType /\ PeerType /\ ThreadType)' => TypeInv'
  BY TypeParts, PTL
<1>1. CASE Fclose
  <2>1. FileType'
    <3>1. qf.buf \in Seq(Unit)
      BY <1>0 DEF FileType
    <3> QED  BY <1>0, <1>1, <3>1, FileIs DEF Fclose
  <2>2. GuestType' /\ MigType' /\ PeerType'
    BY <1>0, <1>1 DEF Fclose, GuestType, Bounded, MigType, PeerType, guest, peer
  <2>3. ThreadType'
    BY <1>0, <1>1 DEF Fclose, ThreadType, run, history
  <2> QED  BY <1>0a, <2>1, <2>2, <2>3
<1>2. CASE CloseFlushes
  <2>1. GuestType' /\ MigType' /\ PeerType' /\ FileType'
    BY <1>0, <1>2 DEF CloseFlushes, GuestType, Bounded, MigType, PeerType, FileType,
                      guest, peer, file
  <2>2. ThreadType'
    BY <1>0, <1>2 DEF CloseFlushes, ThreadType, run, history
  <2> QED  BY <1>0a, <2>1, <2>2
<1>3. CASE CloseDone
  <2>1. GuestType'
    BY <1>0, <1>3 DEF CloseDone, GuestType, Bounded, guest
  <2>2. MigType'
    BY <1>0, <1>3 DEF CloseDone, MigType, ThreadType
  <2>3. FileType'
    <3>1. NoFile \in [live : BOOLEAN, err : BOOLEAN, frozen : BOOLEAN,
              xfer : 0..(MaxRate + 1), limit : Rates \cup {0}, buf : Seq(Unit)]
      BY FreshType DEF NoFile
    <3> QED  BY <1>0, <1>3, <3>1 DEF CloseDone, FileType
  <2>4. PeerType'
    BY <1>0, <1>3 DEF CloseDone, CloseSocket, PeerType, ThreadType
  <2>5. ThreadType'
    BY <1>0, <1>3 DEF CloseDone, ThreadType, run, history
  <2> QED  BY <1>0a, <2>1, <2>2, <2>3, <2>4, <2>5
<1> QED  BY <1>1, <1>2, <1>3

\* The handlers of the main loop.
LEMMA HandlerTypes == TypeInv /\ (Handler \/ Notified \/ Ticked) => TypeInv'
<1> SUFFICES ASSUME TypeInv PROVE Handler \/ Notified \/ Ticked => TypeInv'
  OBVIOUS
<1>0. GuestType /\ MigType /\ FileType /\ PeerType /\ ThreadType
  BY TypeParts
<1>0a. (GuestType /\ MigType /\ FileType /\ PeerType /\ ThreadType)' => TypeInv'
  BY TypeParts, PTL
<1>1. CASE tcp_wait_for_connect
  <2>1. 0 \in Pages
    BY MigrationAssumption DEF Pages
  <2>2. GuestType'
    <3>1. UNCHANGED <<mem, nwrites>> /\ (UNCHANGED <<dirty, last>> \/ (dirty' = Pages /\ last' = 0))
      BY <1>1 DEF tcp_wait_for_connect, migrate_fd_connect
    <3> QED  BY <1>0, <2>1, <3>1 DEF GuestType, Bounded
  <2>3. MigType'
    BY <1>0, <1>1 DEF tcp_wait_for_connect, MigType
  <2>4. FileType'
    <3>1. CASE UNCHANGED <<qf, bf>>
      BY <1>0, <1>1, <3>1 DEF tcp_wait_for_connect, FileType
    <3>2. CASE /\ qf' = [buf |-> <<>>, err |-> FALSE]
               /\ bf' = [NoFile EXCEPT !.live = TRUE, !.limit = mig.limit]
      <4>1. bf' = [live |-> TRUE, err |-> FALSE, frozen |-> FALSE, xfer |-> 0,
                   limit |-> mig.limit, buf |-> <<>>]
        BY <3>2 DEF NoFile
      <4>2. mig.limit \in Rates \cup {0}
        BY <1>0 DEF MigType
      <4>3. bf' \in [live : BOOLEAN, err : BOOLEAN, frozen : BOOLEAN,
              xfer : 0..(MaxRate + 1), limit : Rates \cup {0}, buf : Seq(Unit)]
        BY <4>1, <4>2, FreshType
      <4>4. UNCHANGED <<call, arg>>
        BY <1>1 DEF tcp_wait_for_connect
      <4> QED  BY <1>0, <3>2, <4>3, <4>4, FreshType DEF FileType
    <3> QED  BY <1>1, <3>1, <3>2 DEF tcp_wait_for_connect, migrate_fd_connect, file
  <2>5. PeerType'
    BY <1>0, <1>1 DEF tcp_wait_for_connect, CloseSocket, PeerType, ThreadType
  <2>6. ThreadType'
    <3>1. suspended' \in Int /\ pc' \in {pc, "begin"}
      BY <1>0, <1>1 DEF tcp_wait_for_connect, migrate_fd_connect, ThreadType
    <3>2. UNCHANGED <<vm, want, old, throttle, why, verdict, orphan, posix, senderr>>
      BY <1>1 DEF tcp_wait_for_connect, run, history
    <3> QED  BY <1>0, <3>1, <3>2 DEF ThreadType
  <2> QED  BY <1>0a, <2>2, <2>3, <2>4, <2>5, <2>6
<1>2. CASE migrate_fd_put_notify
  <2>1. GuestType' /\ PeerType'
    BY <1>0, <1>2 DEF migrate_fd_put_notify, GuestType, Bounded, PeerType, guest, peer
  <2>2. MigType'
    BY <1>0, <1>2 DEF migrate_fd_put_notify, MigType
  <2>3. FileType'
    BY <1>0, <1>2 DEF migrate_fd_put_notify, FileType
  <2>4. ThreadType'
    BY <1>0, <1>2 DEF migrate_fd_put_notify, ThreadType, run, history
  <2> QED  BY <1>0a, <2>1, <2>2, <2>3, <2>4
<1>3. CASE buffered_rate_tick
  <2>1. GuestType'
    BY <1>0, <1>3 DEF buffered_rate_tick, GuestType, Bounded, guest
  <2>2. MigType'
    BY <1>0, <1>3 DEF buffered_rate_tick, MigType
  <2>3. FileType'
    <3>1. NoFile \in [live : BOOLEAN, err : BOOLEAN, frozen : BOOLEAN,
              xfer : 0..(MaxRate + 1), limit : Rates \cup {0}, buf : Seq(Unit)]
      BY FreshType DEF NoFile
    <3>2. [bf EXCEPT !.xfer = 0] \in [live : BOOLEAN, err : BOOLEAN, frozen : BOOLEAN,
              xfer : 0..(MaxRate + 1), limit : Rates \cup {0}, buf : Seq(Unit)]
      <4>1. 0 \in 0..(MaxRate + 1)
        BY MaxRateIs
      <4> QED  BY <1>0, <4>1 DEF FileType
    <3>3. /\ bf' = NoFile \/ bf' = [bf EXCEPT !.xfer = 0]
          /\ UNCHANGED <<qf, arg>> /\ call' \in {call, "flush"}
      BY <1>3 DEF buffered_rate_tick
    <3> QED  BY <1>0, <3>1, <3>2, <3>3 DEF FileType
  <2>4. PeerType'
    BY <1>0, <1>3 DEF buffered_rate_tick, CloseSocket, PeerType, ThreadType
  <2>5. ThreadType'
    BY <1>0, <1>3 DEF buffered_rate_tick, ThreadType, run, history
  <2> QED  BY <1>0a, <2>1, <2>2, <2>3, <2>4, <2>5
<1>4. CASE OrphanTick \/ Notified \/ Ticked
  <2>1. GuestType' /\ MigType' /\ PeerType' /\ FileType'
    BY <1>0, <1>4 DEF OrphanTick, Notified, Ticked, GuestType, Bounded, MigType, PeerType,
                      FileType, guest, peer, file
  <2>2. ThreadType'
    BY <1>0, <1>4 DEF OrphanTick, Notified, Ticked, PutReady, ThreadType, run, history
  <2> QED  BY <1>0a, <2>1, <2>2
<1> QED  BY <1>1, <1>2, <1>3, <1>4 DEF Handler

\* The commands.
LEMMA CommandTypes == TypeInv /\ Command => TypeInv'
<1> SUFFICES ASSUME TypeInv PROVE Command => TypeInv'
  OBVIOUS
<1>0. GuestType /\ MigType /\ FileType /\ PeerType /\ ThreadType
  BY TypeParts
<1>0a. (GuestType /\ MigType /\ FileType /\ PeerType /\ ThreadType)' => TypeInv'
  BY TypeParts, PTL
<1>1. ASSUME NEW sync \in BOOLEAN, do_migrate(sync) PROVE TypeInv'
  <2>1. GuestType'
    <3>1. 0 \in Pages
      BY MigrationAssumption DEF Pages
    <3>2. UNCHANGED <<mem, nwrites>> /\ (UNCHANGED <<dirty, last>> \/ (dirty' = Pages /\ last' = 0))
      BY <1>1 DEF do_migrate, migrate_fd_connect
    <3> QED  BY <1>0, <3>1, <3>2 DEF GuestType, Bounded
  <2>2. MigType'
    <3>1. throttle \in Rates
      BY <1>0 DEF ThreadType
    <3> QED  BY <1>1, <3>1 DEF do_migrate, MigType
  <2>3. FileType'
    <3>1. throttle \in Rates
      BY <1>0 DEF ThreadType
    <3>2. /\ NoFile \in [live : BOOLEAN, err : BOOLEAN, frozen : BOOLEAN,
              xfer : 0..(MaxRate + 1), limit : Rates \cup {0}, buf : Seq(Unit)]
          /\ [NoFile EXCEPT !.live = TRUE, !.limit = throttle]
              \in [live : BOOLEAN, err : BOOLEAN, frozen : BOOLEAN,
              xfer : 0..(MaxRate + 1), limit : Rates \cup {0}, buf : Seq(Unit)]
      BY <3>1, FreshType DEF NoFile
    <3>3. /\ qf' = [buf |-> <<>>, err |-> FALSE]
          /\ \/ bf' = NoFile
             \/ bf' = [NoFile EXCEPT !.live = TRUE, !.limit = throttle]
          /\ UNCHANGED <<call, arg>>
      BY <1>1 DEF do_migrate, migrate_fd_connect
    <3> QED  BY <1>0, <3>2, <3>3, FreshType DEF FileType
  <2>4. PeerType'
    <3>1. wire' = Connection /\ dst' = NewPeer /\ accepted' = accepted
      BY <1>1 DEF do_migrate
    <3>2. Len(Connection.q) <= SockBuf
      BY MigrationAssumption, FreshType
    <3> QED  BY <1>0, <3>1, <3>2, FreshType DEF PeerType
  <2>5. ThreadType'
    <3>1. suspended' \in Int
      BY <1>0, <1>1 DEF do_migrate, ThreadType
    <3>2. orphan' \in BOOLEAN
      BY <1>1 DEF do_migrate
    <3>3. /\ UNCHANGED <<vm, want, old, throttle, why, verdict, posix, senderr>>
          /\ pc' \in {pc, "begin"}
      BY <1>1 DEF do_migrate, migrate_fd_connect, run
    <3> QED  BY <1>0, <3>1, <3>2, <3>3 DEF ThreadType
  <2> QED  BY <1>0a, <2>1, <2>2, <2>3, <2>4, <2>5
<1>2. CASE do_migrate_cancel
  <2>1. GuestType' /\ FileType'
    BY <1>0, <1>2 DEF do_migrate_cancel, GuestType, Bounded, FileType, guest, file
  <2>2. MigType'
    BY <1>0, <1>2 DEF do_migrate_cancel, MigType
  <2>3. PeerType'
    BY <1>0, <1>2 DEF do_migrate_cancel, CloseSocket, PeerType, ThreadType
  <2>4. ThreadType'
    <3>1. /\ suspended' \in Int /\ pc' \in {pc, "fclose"} /\ why' \in {why, "cancel"}
          /\ UNCHANGED <<vm, want, old, throttle, verdict, orphan, posix, senderr>>
      BY <1>0, <1>2 DEF do_migrate_cancel, ThreadType, run, history
    <3> QED  BY <1>0, <3>1 DEF ThreadType
  <2> QED  BY <1>0a, <2>1, <2>2, <2>3, <2>4
<1>3. ASSUME NEW r \in Rates, do_migrate_set_speed(r) PROVE TypeInv'
  <2>1. GuestType' /\ MigType' /\ PeerType'
    BY <1>0, <1>3 DEF do_migrate_set_speed, GuestType, Bounded, MigType, PeerType, guest, peer
  <2>2. FileType'
    BY <1>0, <1>3 DEF do_migrate_set_speed, FileType
  <2>3. ThreadType'
    BY <1>0, <1>3 DEF do_migrate_set_speed, ThreadType, run, history
  <2> QED  BY <1>0a, <2>1, <2>2, <2>3
<1>4. CASE StopCont
  <2>1. GuestType' /\ MigType' /\ FileType' /\ PeerType'
    BY <1>0, <1>4 DEF StopCont, GuestType, Bounded, MigType, FileType, PeerType, guest,
                      file, thread, peer
  <2>2. ThreadType'
    <3>1. want' \in BOOLEAN /\ vm' \in BOOLEAN
      BY <1>4 DEF StopCont
    <3> QED  BY <1>0, <1>4, <3>1 DEF StopCont, ThreadType, thread, history
  <2> QED  BY <1>0a, <2>1, <2>2
<1> QED  BY <1>1, <1>2, <1>3, <1>4 DEF Command

\* The guest, the network and the destination, which stores what it receives.
LEMMA OtherTypes ==
  TypeInv /\ (GuestWrite \/ NetFail \/ Receive \/ Undefined \/ UNCHANGED vars) => TypeInv'
<1> SUFFICES ASSUME TypeInv
             PROVE  GuestWrite \/ NetFail \/ Receive \/ Undefined \/ UNCHANGED vars
                      => TypeInv'
  OBVIOUS
<1>0. GuestType /\ MigType /\ FileType /\ PeerType /\ ThreadType
  BY TypeParts
<1>0a. (GuestType /\ MigType /\ FileType /\ PeerType /\ ThreadType)' => TypeInv'
  BY TypeParts, PTL
<1>1. CASE GuestWrite
  <2>1. GuestType'
    <3>1. PICK p \in Pages : Writes({p})
      BY <1>1 DEF GuestWrite
    <3>2. {p} \in SUBSET Pages
      OBVIOUS
    <3> QED  BY <1>0, <3>1, <3>2, WritesIs
  <2>2. MigType' /\ FileType' /\ PeerType' /\ ThreadType'
    BY <1>0, <1>1 DEF GuestWrite, MigType, FileType, PeerType, ThreadType, run, file,
                      thread, peer, history
  <2> QED  BY <1>0a, <2>1, <2>2
<1>2. CASE NetFail
  <2>1. GuestType' /\ MigType' /\ FileType' /\ ThreadType'
    BY <1>0, <1>2 DEF NetFail, GuestType, Bounded, MigType, FileType, ThreadType, guest,
                      run, file, thread
  <2>2. PeerType'
    <3>1. 0 <= SockBuf
      BY MigrationAssumption
    <3> QED  BY <1>0, <1>2, <3>1, FreshType DEF NetFail, PeerType
  <2> QED  BY <1>0a, <2>1, <2>2
<1>3. CASE Receive
  <2>1. GuestType' /\ MigType' /\ FileType' /\ ThreadType'
    BY <1>0, <1>3 DEF Receive, GuestType, Bounded, MigType, FileType, ThreadType, guest,
                      run, file, thread, history
  <2>2. accepted' \in BOOLEAN
    BY <1>0, <1>3 DEF Receive, PeerType
  <2>3. ASSUME wire.q = <<>> PROVE PeerType'
    BY <1>0, <1>3, <2>2, <2>3 DEF Receive, PeerType
  <2>4. ASSUME wire.q # <<>> PROVE PeerType'
    <3> DEFINE h == Head(wire.q)
               t == Tail(wire.q)
    <3>1. wire.q \in Seq(Unit) /\ SockBuf \in Nat /\ Len(wire.q) \in Nat
      BY <1>0, MigrationAssumption, LenProperties DEF PeerType
    <3>2. h \in Unit /\ t \in Seq(Unit) /\ Len(t) = Len(wire.q) - 1
      BY <2>4, <3>1, HeadTailProperties
    <3>3. /\ wire' = [wire EXCEPT !.q = t]
          /\ dst' = IF h = EOF THEN [dst EXCEPT !.status = "running"]
                               ELSE [dst EXCEPT !.ram[h[1]] = h[2]]
      BY <1>3, <2>4 DEF Receive
    <3> HIDE DEF h, t
    <3>4. wire' \in [q : Seq(Unit), closed : BOOLEAN, down : BOOLEAN] /\ Len(wire'.q) <= SockBuf
      BY <1>0, <3>1, <3>2, <3>3 DEF PeerType
    <3>5. h # EOF => h[1] \in Pages /\ h[2] \in -1..MaxWrites
      <4>1. MaxWrites \in Nat
        BY MigrationAssumption
      <4> QED  BY <3>2, <4>1 DEF Unit
    <3>6. dst' \in [ram : [Pages -> -1..MaxWrites],
                    status : {"loading", "running", "exited"}]
      BY <1>0, <3>3, <3>5 DEF PeerType
    <3> QED  BY <2>2, <3>4, <3>6 DEF PeerType
  <2> QED  BY <1>0a, <2>1, <2>3, <2>4
<1>4. CASE Undefined \/ UNCHANGED vars
  <2>1. UNCHANGED vars
    BY <1>4 DEF Undefined
  <2> QED  BY <1>0, <1>0a, <2>1 DEF vars, GuestType, Bounded, MigType, FileType, PeerType,
             ThreadType, guest, run, file, thread, peer, history
<1> QED  BY <1>1, <1>2, <1>3, <1>4

\* Every variable keeps its type: in particular the buffers and the socket stay within
\* their sizes, and a dirty page is always found (qemu_put_buffer, ram_save_block).
THEOREM TypeCorrect == Spec => []TypeInv
<1>1. TypeInv /\ [Next]_vars => TypeInv'
  BY SendTypes, StageTypes, CloseTypes, HandlerTypes, CommandTypes, OtherTypes
     DEF Next, MainStep
<1> QED  BY InitType, <1>1, PTL DEF Spec

-----------------------------------------------------------------------------
(* What a migration holds.  Clean is inductive together with the types and   *)
(* what Called and Over say.                                                 *)

Base == TypeInv /\ IInv

\* A fresh process holds nothing.
LEMMA InitClean == Init => Clean
BY DEF Init, Clean, Working, Closes, NoFile

\* As long as no send failed, sending changes nothing Clean is about but the handler,
\* which is registered with the file open.
LEMMA SendClean ==
  Base /\ Clean /\ (buffered_flush \/ buffered_put_buffer) => Clean'
<1> SUFFICES ASSUME Base, Clean, buffered_flush \/ buffered_put_buffer, ~senderr'
             PROVE  Clean'
  BY DEF Clean
<1>1. MigType /\ FileType /\ ThreadType /\ pc \in Working
  BY TypeParts DEF Base, IInv, Types, Called, Working, buffered_flush, buffered_put_buffer
<1>2. ~senderr
  BY <1>1 DEF buffered_flush, buffered_put_buffer, PutError
<1>3. UNCHANGED <<suspended, orphan, pc, why, qf>>
  BY <1>2 DEF buffered_flush, buffered_put_buffer, PutError
<1>4. /\ mig'.handler \in {mig.handler, "notify"}
      /\ mig'.file = mig.file /\ mig'.state = mig.state /\ mig'.mon = mig.mon
  BY <1>1 DEF buffered_flush, buffered_put_buffer, PutError, PutAgain, MigType
<1>5. bf'.err = bf.err /\ bf'.live = bf.live
  BY <1>1 DEF buffered_flush, buffered_put_buffer, PutError, Append_, AppendFrozen, FileType
<1> QED  BY <1>1, <1>2, <1>3, <1>4, <1>5 DEF Clean

\* So does handing units to the file: without an error none is refused.
LEMMA FileClean ==
  Base /\ Clean /\ (ram_save_block \/ CompleteEnds \/ Fclose \/ CloseFlushes) => Clean'
<1> SUFFICES ASSUME Base, Clean, ram_save_block \/ CompleteEnds \/ Fclose \/ CloseFlushes,
                    ~senderr'
             PROVE  Clean'
  BY DEF Clean
<1>1. FileType
  BY TypeParts DEF Base
<1>2. UNCHANGED <<senderr, suspended, orphan, why, mig>>
  BY DEF ram_save_block, CompleteEnds, Fclose, CloseFlushes, history
<1>3. /\ pc \in Working /\ pc' \in Working
      /\ (pc' \in Closes <=> pc \in Closes)
  BY DEF ram_save_block, CompleteEnds, Fclose, CloseFlushes, At, Working, Closes
<1>4. ~bf.err /\ ~qf.err
  BY <1>2 DEF Clean
<1>5. bf'.live = bf.live /\ bf'.err = bf.err
  BY <1>1 DEF ram_save_block, CompleteEnds, Fclose, CloseFlushes, qemu_put_buffer,
              qemu_fflush, FileType, file
<1>6. ~qf'.err
  <2>1. ASSUME NEW q, qemu_fflush(q) PROVE ~qf'.err
    BY <1>1, <1>4, <2>1 DEF qemu_fflush, FileType
  <2>2. ASSUME NEW u, qemu_put_buffer(u) PROVE ~qf'.err
    BY <1>1, <1>4, <2>1, <2>2 DEF qemu_put_buffer, FileType
  <2> QED  BY <1>4, <2>1, <2>2 DEF ram_save_block, CompleteEnds, Fclose, CloseFlushes, file
<1> QED  BY <1>2, <1>3, <1>4, <1>5, <1>6 DEF Clean, Working

\* The stages of a migration; the last is left with the migration over.
LEMMA StageClean ==
  Base /\ Clean /\ (BeginEnds \/ IterateEnds \/ Verdict \/ Notified \/ Ticked \/ CloseDone)
    => Clean'
<1> SUFFICES ASSUME Base, Clean, ~senderr',
                    BeginEnds \/ IterateEnds \/ Verdict \/ Notified \/ Ticked \/ CloseDone
             PROVE  Clean'
  BY DEF Clean
<1>1. MigType /\ FileType /\ ThreadType
  BY TypeParts DEF Base
<1>2. ~senderr /\ ~senderr'
  BY DEF BeginEnds, IterateEnds, Verdict, Notified, Ticked, CloseDone, history
<1>3. CASE BeginEnds
  BY <1>1, <1>2, <1>3 DEF BeginEnds, Clean, Working, Closes, At, PutReady, file
<1>4. CASE IterateEnds
  BY <1>2, <1>4 DEF IterateEnds, Clean, Working, Closes, At, file
<1>5. CASE Verdict
  BY <1>1, <1>2, <1>5 DEF Verdict, Clean, Working, Closes, At, file, MigType
<1>6. CASE Notified \/ Ticked
  BY <1>2, <1>6 DEF Notified, Ticked, Clean, Working, Closes, At, PutReady, file
<1>7. CASE CloseDone
  <2>1. pc = "close" /\ pc' = "idle" /\ ~bf'.err /\ ~bf'.live /\ UNCHANGED <<qf, orphan>>
    BY <1>7 DEF CloseDone, At, NoFile
  <2>2. /\ mig'.handler = "none" /\ mig'.file = "null" /\ mig'.mon = mig.mon
        /\ mig'.state = IF why = "ready" THEN verdict ELSE mig.state
    BY <1>1, <1>7 DEF CloseDone, MigType
  <2>3. mig'.state # "active"
    BY <1>1, <1>2, <2>1, <2>2 DEF Clean, ThreadType, Closes
  <2>4. suspended' = 0
    BY <1>1, <1>2, <1>7, <2>1 DEF CloseDone, Clean, Closes, MigType
  <2> QED  BY <1>2, <2>1, <2>2, <2>3, <2>4 DEF Clean, Working, Closes
<1> QED  BY <1>3, <1>4, <1>5, <1>6, <1>7

\* The handlers find the objects they use.
LEMMA HandlerClean == Base /\ Clean /\ Handler => Clean'
<1> SUFFICES ASSUME Base, Clean, Handler, ~senderr' PROVE Clean'
  BY DEF Clean
<1>1. MigType /\ FileType /\ ThreadType
  BY TypeParts DEF Base
<1>2. ~senderr
  BY DEF Handler, tcp_wait_for_connect, migrate_fd_put_notify, buffered_rate_tick,
         OrphanTick, history
<1>3. CASE tcp_wait_for_connect
  <2>1. /\ pc = "idle" /\ mig.handler = "connect" /\ mig.file = "null"
        /\ mig.state = "active" /\ ~bf.live /\ UNCHANGED orphan
    BY <1>2, <1>3 DEF tcp_wait_for_connect, Idle, Clean
  <2>2. CASE /\ mig' = [mig EXCEPT !.handler = "none", !.file = "open"]
             /\ qf' = [buf |-> <<>>, err |-> FALSE]
             /\ bf' = [NoFile EXCEPT !.live = TRUE, !.limit = mig.limit]
             /\ pc' = "begin" /\ UNCHANGED suspended
    <3>1. bf'.live /\ ~bf'.err /\ ~qf'.err
      BY <2>2 DEF NoFile
    <3>2. /\ mig'.handler = "none" /\ mig'.file = "open" /\ mig'.state = "active"
          /\ mig'.mon = mig.mon
      BY <1>1, <2>1, <2>2 DEF MigType
    <3> QED  BY <1>2, <2>1, <2>2, <3>1, <3>2 DEF Clean, Working, Closes
  <2>3. CASE /\ mig' = [mig EXCEPT !.handler = "none", !.state = "error"]
             /\ suspended' = IF mig.mon THEN suspended - 1 ELSE suspended
             /\ UNCHANGED <<qf, bf, pc>>
    <3>1. /\ mig'.handler = "none" /\ mig'.file = "null" /\ mig'.state = "error"
      BY <1>1, <2>1, <2>3 DEF MigType
    <3>2. suspended' = 0
      BY <1>1, <1>2, <2>1, <2>3 DEF Clean, MigType, Closes
    <3> QED  BY <1>2, <2>1, <2>3, <3>1, <3>2 DEF Clean, Working, Closes
  <2> QED  BY <1>3, <2>2, <2>3 DEF tcp_wait_for_connect, migrate_fd_connect, file
<1>4. CASE migrate_fd_put_notify
  <2>1. /\ pc = "idle" /\ mig.handler = "notify" /\ mig.file = "open"
        /\ mig.state = "active" /\ bf.live /\ ~bf.err /\ UNCHANGED <<orphan, qf, suspended>>
    BY <1>2, <1>4 DEF migrate_fd_put_notify, Idle, Clean, Closes
  <2>2. /\ mig' = [mig EXCEPT !.handler = "none"]
        /\ bf' = [bf EXCEPT !.frozen = FALSE] /\ pc' = "notified"
    BY <1>4, <2>1 DEF migrate_fd_put_notify
  <2>3. /\ mig'.handler = "none" /\ mig'.file = "open" /\ mig'.state = "active"
        /\ mig'.mon = mig.mon /\ bf'.live = bf.live /\ bf'.err = bf.err
    BY <1>1, <2>1, <2>2 DEF MigType, FileType
  <2> QED  BY <1>2, <2>1, <2>2, <2>3 DEF Clean, Working, Closes
<1>5. CASE buffered_rate_tick
  <2>1. /\ pc = "idle" /\ mig.file = "open" /\ ~bf.err /\ bf.live
    BY <1>2, <1>5 DEF buffered_rate_tick, Idle, Clean
  <2>2. /\ bf' = [bf EXCEPT !.xfer = 0] /\ pc' = "ticked"
        /\ UNCHANGED <<mig, qf, orphan, suspended>>
    BY <1>5, <2>1 DEF buffered_rate_tick
  <2>3. bf'.live = bf.live /\ bf'.err = bf.err
    BY <1>1, <2>2 DEF FileType
  <2> QED  BY <1>2, <2>1, <2>2, <2>3 DEF Clean, Working, Closes
<1>6. CASE OrphanTick
  BY <1>2, <1>6 DEF OrphanTick, Clean
<1> QED  BY <1>3, <1>4, <1>5, <1>6 DEF Handler

\* The commands, the guest and the network.
LEMMA OtherClean ==
  Base /\ Clean /\ (Command \/ GuestWrite \/ NetFail \/ Receive \/ Undefined \/ UNCHANGED vars)
    => Clean'
<1> SUFFICES ASSUME Base, Clean, ~senderr',
               Command \/ GuestWrite \/ NetFail \/ Receive \/ Undefined \/ UNCHANGED vars
             PROVE  Clean'
  BY DEF Clean
<1>1. MigType /\ FileType /\ ThreadType
  BY TypeParts DEF Base
<1>2. ASSUME NEW sync \in BOOLEAN, do_migrate(sync) PROVE Clean'
  <2>1. ~senderr /\ pc = "idle" /\ ~bf.live /\ ~orphan'
    BY <1>2 DEF do_migrate, Clean, Idle, Closes
  <2>2. suspended = 0
    BY <1>2, <2>1 DEF do_migrate, Clean, Closes
  <2>3. CASE /\ mig' = [state |-> "active", handler |-> "connect", file |-> "null",
                        mon |-> sync, limit |-> throttle]
             /\ suspended' = IF sync THEN suspended + 1 ELSE suspended
             /\ qf' = [buf |-> <<>>, err |-> FALSE] /\ bf' = NoFile /\ pc' = pc
    <3>1. ~qf'.err /\ ~bf'.err /\ ~bf'.live
      BY <2>3 DEF NoFile
    <3>2. /\ mig'.file = "null" /\ mig'.state = "active" /\ mig'.handler = "connect"
          /\ suspended' = IF mig'.mon THEN 1 ELSE 0
      BY <2>2, <2>3
    <3> QED  BY <2>1, <2>3, <3>1, <3>2 DEF Clean, Working, Closes
  <2>4. CASE /\ mig' = [state |-> "active", handler |-> "none", file |-> "open",
                        mon |-> sync, limit |-> throttle]
             /\ suspended' = IF sync THEN suspended + 1 ELSE suspended
             /\ qf' = [buf |-> <<>>, err |-> FALSE]
             /\ bf' = [NoFile EXCEPT !.live = TRUE, !.limit = throttle]
             /\ pc' = "begin"
    <3>1. ~qf'.err /\ ~bf'.err /\ bf'.live
      BY <2>4 DEF NoFile
    <3>2. /\ mig'.file = "open" /\ mig'.state = "active" /\ mig'.handler = "none"
          /\ suspended' = IF mig'.mon THEN 1 ELSE 0
      BY <2>2, <2>4
    <3> QED  BY <2>1, <2>4, <3>1, <3>2 DEF Clean, Working, Closes
  <2>5. CASE /\ mig' = [state |-> "error", handler |-> "none", file |-> "null",
                        mon |-> sync, limit |-> throttle]
             /\ qf' = [buf |-> <<>>, err |-> FALSE] /\ bf' = NoFile
             /\ UNCHANGED <<suspended, pc>>
    <3>1. ~qf'.err /\ ~bf'.err /\ ~bf'.live
      BY <2>5 DEF NoFile
    <3>2. mig'.file = "null" /\ mig'.state = "error" /\ mig'.handler = "none"
      BY <2>5
    <3> QED  BY <2>1, <2>2, <2>5, <3>1, <3>2 DEF Clean, Working, Closes
  <2> QED  BY <1>2, <2>3, <2>4, <2>5 DEF do_migrate, migrate_fd_connect
<1>3. CASE do_migrate_cancel
  <2>1. /\ ~senderr /\ pc = "idle" /\ mig.state = "active"
        /\ UNCHANGED <<qf, bf, orphan>>
    BY <1>3 DEF do_migrate_cancel, Idle, file, history
  <2>2. /\ mig'.handler = "none" /\ mig'.state = "cancelled"
        /\ mig'.file = mig.file /\ mig'.mon = mig.mon
    BY <1>1, <1>3 DEF do_migrate_cancel, MigType
  <2>3. CASE mig.file = "open"
    <3>1. pc' = "fclose" /\ why' = "cancel" /\ suspended' = suspended
      BY <1>3, <2>3 DEF do_migrate_cancel
    <3> QED  BY <2>1, <2>2, <2>3, <3>1 DEF Clean, Working, Closes
  <2>4. CASE mig.file = "null"
    <3>1. pc' = pc /\ suspended' = IF mig.mon THEN suspended - 1 ELSE suspended
      BY <1>3, <2>4 DEF do_migrate_cancel
    <3>2. suspended' = 0
      BY <1>1, <2>1, <3>1 DEF Clean, MigType, Closes
    <3> QED  BY <2>1, <2>2, <2>4, <3>1, <3>2 DEF Clean, Working, Closes
  <2> QED  BY <1>3, <2>3, <2>4 DEF do_migrate_cancel
<1>4. ASSUME NEW r \in Rates, do_migrate_set_speed(r) PROVE Clean'
  <2>1. ~senderr /\ pc' = pc
    BY <1>4 DEF do_migrate_set_speed, Clean, history
  <2>2. bf'.live = bf.live /\ bf'.err = bf.err
    BY <1>1, <1>4 DEF do_migrate_set_speed, FileType
  <2> QED  BY <1>4, <2>1, <2>2 DEF do_migrate_set_speed, Clean
<1>5. CASE StopCont \/ GuestWrite \/ NetFail \/ Receive \/ Undefined \/ UNCHANGED vars
  BY <1>5 DEF StopCont, GuestWrite, NetFail, Receive, Undefined, vars, Clean, file, thread,
              history
<1> QED  BY <1>2, <1>3, <1>4, <1>5 DEF Command

\* The three parts together, from which the rest is proved.
THEOREM BaseInvariance == Spec => [](Base /\ Clean)
<1>1. Base /\ Clean /\ [Next]_vars => Clean'
  BY SendClean, FileClean, StageClean, HandlerClean, OtherClean DEF Next, MainStep
<1>2. Spec => []Base
  BY Invariance, TypeCorrect, PTL DEF Base
<1> QED  BY <1>1, <1>2, InitClean, PTL DEF Spec

\* Unless a send failed, the monitor is suspended exactly while a synchronous migration
\* runs and nothing that was freed is used (migrate_fd_cleanup, migrate_fd_close).
THEOREM ReleasesAll == Spec => []Released
<1>1. Base /\ Clean => Released
  <2> SUFFICES ASSUME Base, Clean PROVE Released
    OBVIOUS
  <2>1. TypeOK
    BY DEF Base, TypeInv
  <2>2. MonitorReleased
    BY DEF Clean, MonitorReleased, Idle, Closes
  <2>3. NoUseAfterFree
    BY DEF Clean, NoUseAfterFree
  <2> QED  BY <2>1, <2>2, <2>3 DEF Released
<1> QED  BY <1>1, BaseInvariance, PTL

-----------------------------------------------------------------------------
(* Facts about the stream as a sequence.                                     *)

\* A unit is in the concatenation if it is in one of the two.
LEMMA HasConcat ==
  ASSUME NEW s \in Seq(Unit), NEW t \in Seq(Unit), NEW u
  PROVE  Has(s \o t, u) <=> Has(s, u) \/ Has(t, u)
<1> DEFINE c == s \o t
<1>1. /\ Len(s) \in Nat /\ Len(t) \in Nat /\ Len(c) = Len(s) + Len(t)
      /\ \A i \in 1..(Len(s) + Len(t)) : c[i] = IF i <= Len(s) THEN s[i] ELSE t[i - Len(s)]
  BY ConcatProperties, LenProperties
<1> HIDE DEF c
<1>2. ASSUME NEW i \in 1..Len(c), c[i] = u PROVE Has(s, u) \/ Has(t, u)
  <2>1. CASE i <= Len(s)
    <3>1. i \in 1..Len(s) /\ s[i] = u
      BY <1>1, <1>2, <2>1
    <3> QED  BY <3>1 DEF Has
  <2>2. CASE ~(i <= Len(s))
    <3>1. i - Len(s) \in 1..Len(t) /\ t[i - Len(s)] = u
      BY <1>1, <1>2, <2>2
    <3> QED  BY <3>1 DEF Has
  <2> QED  BY <2>1, <2>2
<1>3. ASSUME NEW i \in 1..Len(s), s[i] = u PROVE Has(c, u)
  <2>1. i \in 1..Len(c) /\ c[i] = u
    BY <1>1, <1>3
  <2> QED  BY <2>1 DEF Has
<1>4. ASSUME NEW i \in 1..Len(t), t[i] = u PROVE Has(c, u)
  <2> DEFINE k == i + Len(s)
  <2>1. k \in 1..Len(c) /\ k \in 1..(Len(s) + Len(t)) /\ ~(k <= Len(s)) /\ k - Len(s) = i
    BY <1>1
  <2> HIDE DEF k
  <2>2. c[k] = t[k - Len(s)]
    BY <1>1, <2>1
  <2>3. c[k] = u
    BY <1>4, <2>1, <2>2
  <2> QED  BY <2>1, <2>3 DEF Has
<1>5. Has(c, u) <=> Has(s, u) \/ Has(t, u)
  BY <1>2, <1>3, <1>4 DEF Has
<1> QED  BY <1>5 DEF c

\* Nothing follows the end mark.
LEMMA LastConcat ==
  ASSUME NEW s \in Seq(Unit), NEW t \in Seq(Unit), LastOnly(s \o t)
  PROVE  /\ LastOnly(t)
         /\ Has(s, EOF) => t = <<>> /\ s \o t = s
         /\ LastOnly(s)
<1> DEFINE c == s \o t
<1>1. /\ Len(s) \in Nat /\ Len(t) \in Nat /\ Len(c) = Len(s) + Len(t)
      /\ \A i \in 1..(Len(s) + Len(t)) : c[i] = IF i <= Len(s) THEN s[i] ELSE t[i - Len(s)]
  BY ConcatProperties, LenProperties
<1>0. \A i \in 1..Len(c) : c[i] = EOF => i = Len(c)
  BY DEF LastOnly
<1> HIDE DEF c
<1>2. ASSUME NEW i \in 1..Len(t), t[i] = EOF PROVE i = Len(t)
  <2> DEFINE k == i + Len(s)
  <2>1. k \in 1..Len(c) /\ k \in 1..(Len(s) + Len(t)) /\ ~(k <= Len(s)) /\ k - Len(s) = i
    BY <1>1
  <2>2. k = Len(s) + i
    OBVIOUS
  <2> HIDE DEF k
  <2>3. c[k] = t[k - Len(s)]
    BY <1>1, <2>1
  <2>4. c[k] = EOF
    BY <1>2, <2>1, <2>3
  <2>5. k = Len(c)
    BY <1>0, <2>1, <2>4
  <2> QED  BY <1>1, <2>2, <2>5
<1>3. ASSUME NEW i \in 1..Len(s), s[i] = EOF PROVE i = Len(s) /\ Len(t) = 0
  <2>1. i \in 1..Len(c) /\ c[i] = EOF
    BY <1>1, <1>3
  <2>2. i = Len(c)
    BY <1>0, <2>1
  <2> QED  BY <1>1, <2>2
<1>4. Len(t) = 0 => t = <<>> /\ s \o t = s
  <2> SUFFICES ASSUME Len(t) = 0 PROVE t = <<>> /\ s \o t = s
    OBVIOUS
  <2>1. t = <<>>
    BY EmptySeq
  <2> QED  BY <2>1, ConcatEmptySeq
<1> QED  BY <1>2, <1>3, <1>4 DEF LastOnly, Has

\* A page appended is loaded with its contents, and leaves the others alone.
LEMMA LoadsAppend ==
  ASSUME NEW s \in Seq(Unit), NEW p \in Pages, NEW v \in 0..MaxWrites, NEW ram,
         NEW u \in Unit, u = <<p, v>> \/ (~About(u, p) /\ Loads(s, ram, p, v))
  PROVE  Loads(Append(s, u), ram, p, v)
<1> DEFINE c == Append(s, u)
<1>1. /\ Len(s) \in Nat /\ Len(c) = Len(s) + 1 /\ c[Len(s) + 1] = u
      /\ \A i \in 1..Len(s) : c[i] = s[i]
  BY AppendProperties, LenProperties
<1> HIDE DEF c
<1>2. CASE u = <<p, v>>
  <2>1. Len(c) \in 1..Len(c) /\ c[Len(c)] = <<p, v>> /\ (Len(c) + 1)..Len(c) = {}
    BY <1>1, <1>2
  <2> QED  BY <2>1 DEF Loads, c
<1>3. CASE ~About(u, p) /\ Loads(s, ram, p, v)
  <2>0. \A j \in 1..Len(c) : j \in 1..Len(s) \/ (j = Len(s) + 1 /\ c[j] = u)
    BY <1>1
  <2>1. CASE ram[p] = v /\ \A j \in 1..Len(s) : ~About(s[j], p)
    <3>1. \A j \in 1..Len(c) : ~About(c[j], p)
      BY <1>1, <1>3, <2>0, <2>1
    <3> QED  BY <2>1, <3>1 DEF Loads, c
  <2>2. ASSUME NEW i \in 1..Len(s), s[i] = <<p, v>>, \A j \in (i + 1)..Len(s) : ~About(s[j], p)
        PROVE  Loads(c, ram, p, v)
    <3>1. i \in 1..Len(c) /\ c[i] = <<p, v>>
      BY <1>1, <2>2
    <3>2. \A j \in (i + 1)..Len(c) : j \in 1..Len(c)
      BY <1>1
    <3>3. ASSUME NEW j \in (i + 1)..Len(c) PROVE ~About(c[j], p)
      <4>1. CASE j = Len(s) + 1
        BY <1>1, <1>3, <4>1
      <4>2. CASE j # Len(s) + 1
        <5>1. j \in (i + 1)..Len(s) /\ j \in 1..Len(s)
          BY <1>1, <4>2
        <5> QED  BY <1>1, <2>2, <5>1
      <4> QED  BY <4>1, <4>2
    <3> QED  BY <3>1, <3>3 DEF Loads
  <2> QED  BY <1>3, <2>1, <2>2 DEF Loads, c
<1> QED  BY <1>2, <1>3

\* The destination loads the head of the stream.
LEMMA LoadsTail ==
  ASSUME NEW s \in Seq(Unit), s # <<>>, NEW p \in Pages, NEW v \in 0..MaxWrites,
         NEW ram \in [Pages -> Int], Loads(s, ram, p, v),
         NEW new, new = IF Head(s) = EOF THEN ram ELSE [ram EXCEPT ![Head(s)[1]] = Head(s)[2]]
  PROVE  Loads(Tail(s), new, p, v)
<1> DEFINE t == Tail(s)
           h == Head(s)
<1>1. /\ Len(s) \in Nat /\ Len(t) \in Nat /\ Len(t) = Len(s) - 1 /\ s[1] = h /\ h \in Unit
      /\ \A i \in 1..Len(t) : t[i] = s[i + 1]
  BY HeadTailProperties, LenProperties
<1>2. <<p, v>> # EOF /\ <<p, v>>[1] = p /\ <<p, v>>[2] = v
  BY MigrationAssumption DEF Pages
<1>3. new = IF h = EOF THEN ram ELSE [ram EXCEPT ![h[1]] = h[2]]
  OBVIOUS
<1>4. h # EOF => h[1] \in Pages
  BY <1>1 DEF Unit
<1> HIDE DEF t, h
<1>5. ASSUME \A j \in 2..Len(s) : ~About(s[j], p), new[p] = v
      PROVE  Loads(t, new, p, v)
  <2>1. ASSUME NEW j \in 1..Len(t) PROVE ~About(t[j], p)
    <3>1. j + 1 \in 2..Len(s) /\ t[j] = s[j + 1]
      BY <1>1
    <3> QED  BY <1>5, <3>1
  <2> QED  BY <1>5, <2>1 DEF Loads
<1>6. CASE ram[p] = v /\ \A j \in 1..Len(s) : ~About(s[j], p)
  <2>1. ~About(h, p) /\ \A j \in 2..Len(s) : ~About(s[j], p)
    <3>1. 1 \in 1..Len(s)
      BY <1>1
    <3> QED  BY <1>1, <1>6, <3>1
  <2>2. new[p] = v
    BY <1>3, <1>4, <1>6, <2>1 DEF About
  <2> QED  BY <1>5, <2>1, <2>2 DEF t
<1>7. ASSUME NEW i \in 1..Len(s), s[i] = <<p, v>>, \A j \in (i + 1)..Len(s) : ~About(s[j], p)
      PROVE  Loads(t, new, p, v)
  <2>1. CASE i = 1
    <3>1. h = <<p, v>>
      BY <1>1, <1>7, <2>1
    <3>2. new[p] = v
      BY <1>2, <1>3, <3>1
    <3>3. \A j \in 2..Len(s) : ~About(s[j], p)
      BY <1>7, <2>1
    <3> QED  BY <1>5, <3>2, <3>3
  <2>2. CASE i # 1
    <3> DEFINE k == i - 1
    <3>1. k \in 1..Len(t) /\ k + 1 = i
      BY <1>1, <2>2
    <3> HIDE DEF k
    <3>2. t[k] = <<p, v>>
      BY <1>1, <1>7, <3>1
    <3>3. ASSUME NEW j \in (k + 1)..Len(t) PROVE ~About(t[j], p)
      <4>1. j \in 1..Len(t) /\ j + 1 \in (i + 1)..Len(s)
        BY <1>1, <3>1
      <4>2. t[j] = s[j + 1]
        BY <1>1, <4>1
      <4> QED  BY <1>7, <4>1, <4>2
    <3> QED  BY <3>1, <3>2, <3>3 DEF Loads
  <2> QED  BY <2>1, <2>2
<1> QED  BY <1>6, <1>7 DEF Loads, t

\* Taking the first unit off the wire takes it off the stream.
LEMMA TailConcat ==
  ASSUME NEW s \in Seq(Unit), NEW t \in Seq(Unit), s # <<>>
  PROVE  /\ s \o t # <<>> /\ Head(s \o t) = Head(s)
         /\ Tail(s \o t) = Tail(s) \o t
<1> DEFINE c == s \o t
<1>1. /\ c \in Seq(Unit) /\ Len(c) = Len(s) + Len(t) /\ Len(s) \in Nat \ {0} /\ Len(t) \in Nat
      /\ \A i \in 1..(Len(s) + Len(t)) : c[i] = IF i <= Len(s) THEN s[i] ELSE t[i - Len(s)]
  BY ConcatProperties, LenProperties, EmptySeq
<1>2. c # <<>>
  BY <1>1, EmptySeq
<1>3. /\ Tail(s) \in Seq(Unit) /\ Len(Tail(s)) = Len(s) - 1
      /\ \A i \in 1..Len(Tail(s)) : Tail(s)[i] = s[i + 1]
  BY HeadTailProperties
<1>4. /\ Tail(c) \in Seq(Unit) /\ Len(Tail(c)) = Len(c) - 1
      /\ \A i \in 1..Len(Tail(c)) : Tail(c)[i] = c[i + 1]
  BY <1>1, <1>2, HeadTailProperties
<1>5. Head(c) = Head(s)
  BY <1>1
<1> DEFINE a == Tail(s)
           d == a \o t
           b == Tail(c)
<1>6. /\ d \in Seq(Unit) /\ Len(d) = Len(a) + Len(t)
      /\ \A i \in 1..(Len(a) + Len(t)) : d[i] = IF i <= Len(a) THEN a[i] ELSE t[i - Len(a)]
  BY <1>3, ConcatProperties
<1>7. b \in Seq(Unit) /\ Len(b) = Len(c) - 1 /\ \A i \in 1..Len(b) : b[i] = c[i + 1]
  BY <1>4
<1>8. Len(a) = Len(s) - 1 /\ \A i \in 1..Len(a) : a[i] = s[i + 1]
  BY <1>3
<1> HIDE DEF a, b, c, d
<1>9. Len(b) = Len(d) /\ Len(a) \in Nat
  BY <1>1, <1>6, <1>7, <1>8
<1>10. ASSUME NEW i \in 1..Len(b) PROVE b[i] = d[i]
  <2>1. i + 1 \in 1..(Len(s) + Len(t)) /\ i \in 1..(Len(a) + Len(t)) /\ b[i] = c[i + 1]
    BY <1>1, <1>6, <1>7, <1>9
  <2>2. CASE i <= Len(a)
    <3>1. i \in 1..Len(a) /\ i + 1 <= Len(s)
      BY <1>1, <1>8, <2>2
    <3> QED  BY <1>1, <1>6, <1>8, <2>1, <2>2, <3>1
  <2>3. CASE ~(i <= Len(a))
    <3>1. ~(i + 1 <= Len(s)) /\ (i + 1) - Len(s) = i - Len(a)
      BY <1>1, <1>8, <2>3
    <3>2. c[i + 1] = t[(i + 1) - Len(s)] /\ d[i] = t[i - Len(a)]
      BY <1>1, <1>6, <2>1, <2>3, <3>1
    <3> QED  BY <2>1, <3>1, <3>2
  <2> QED  BY <2>2, <2>3
<1>11. b = d
  BY <1>6, <1>7, <1>9, <1>10, SeqEqual
<1> QED  BY <1>2, <1>5, <1>11 DEF a, b, c, d

-----------------------------------------------------------------------------
(* Steps that change the stream.                                             *)

\* Concatenation is associative, and the empty sequence its unit.
LEMMA Assoc ==
  ASSUME NEW s \in Seq(Unit), NEW t \in Seq(Unit), NEW u \in Seq(Unit)
  PROVE  /\ (s \o t) \o u = s \o (t \o u)
         /\ s \o (t \o (<<>> \o u)) = (s \o t) \o u
         /\ s \o (t \o (u \o <<>>)) = (s \o t) \o u
<1>1. (s \o t) \o u = s \o (t \o u)
  BY ConcatAssociative
<1>2. <<>> \o u = u /\ u \o <<>> = u
  BY ConcatEmptySeq
<1> QED  BY <1>1, <1>2

IsStream(s) == s \in Seq(Unit)
Cat(s, t) == s \o t

\* Associativity once more, in a form the provers instantiate.
LEMMA CatAssoc ==
  ASSUME NEW s, NEW t, NEW u, IsStream(s), IsStream(t), IsStream(u)
  PROVE  Cat(Cat(s, t), u) = Cat(s, Cat(t, u))
<1>1. s \in Seq(Unit) /\ t \in Seq(Unit) /\ u \in Seq(Unit)
  BY DEF IsStream
<1>2. (s \o t) \o u = s \o (t \o u)
  BY <1>1, ConcatAssociative
<1> QED  BY <1>2 DEF Cat

\* A part moved from one buffer to the one before it leaves the stream as it is.
LEMMA Moved ==
  ASSUME NEW s, NEW a, NEW r, NEW m, IsStream(s), IsStream(a), IsStream(r), IsStream(m)
  PROVE  Cat(Cat(s, a), Cat(r, m)) = Cat(s, Cat(Cat(a, r), m))
<1>0. s \in Seq(Unit) /\ a \in Seq(Unit) /\ r \in Seq(Unit) /\ m \in Seq(Unit)
  BY DEF IsStream
<1> DEFINE x == r \o m
<1>1. x \in Seq(Unit)
  BY <1>0, ConcatProperties
<1>2. (a \o r) \o m = a \o x
  BY <1>0, ConcatAssociative
<1> HIDE DEF x
<1>3. (s \o a) \o x = s \o (a \o x)
  BY <1>0, <1>1, ConcatAssociative, SMTT(30)
<1>4. (s \o a) \o x = s \o ((a \o r) \o m)
  BY <1>2, <1>3
<1> QED  BY <1>4 DEF x, Cat

\* The buffers the stream is made of.
LEMMA PipeType ==
  ASSUME FileType, PeerType
  PROVE  /\ wire.q \in Seq(Unit) /\ bf.buf \in Seq(Unit) /\ arg \in Seq(Unit)
         /\ qf.buf \in Seq(Unit) /\ arg \o qf.buf \in Seq(Unit)
         /\ bf.buf \o (arg \o qf.buf) \in Seq(Unit)
         /\ wire.q \o bf.buf \in Seq(Unit)
         /\ Pipe \in Seq(Unit)
<1>1. /\ wire.q \in Seq(Unit) /\ bf.buf \in Seq(Unit) /\ arg \in Seq(Unit)
      /\ qf.buf \in Seq(Unit)
  BY DEF FileType, PeerType
<1>2. arg \o qf.buf \in Seq(Unit) /\ wire.q \o bf.buf \in Seq(Unit)
  BY <1>1, ConcatProperties
<1>3. bf.buf \o (arg \o qf.buf) \in Seq(Unit)
  BY <1>1, <1>2, ConcatProperties
<1>4. Pipe \in Seq(Unit)
  BY <1>1, <1>3, ConcatProperties DEF Pipe
<1> QED  BY <1>1, <1>2, <1>3, <1>4

\* The end of the stream may be lost only together with the file, and then the end mark
\* is lost too.
LEMMA DropStep ==
  ASSUME EofLast, Faithful, NEW s \in Seq(Unit), NEW t \in Seq(Unit),
         Pipe = s \o t, Pipe' = s,
         UNCHANGED <<mem, dirty, dst>>, wire'.down = wire.down,
         Whole' => t = <<>> /\ Whole
  PROVE  EofLast' /\ Faithful' /\ (Has(Pipe', EOF) => Has(Pipe, EOF))
<1>1. LastOnly(s \o t)
  BY DEF EofLast
<1>2. LastOnly(s) /\ (Has(s, EOF) => s \o t = s)
  BY <1>1, LastConcat
<1>3. t = <<>> => s \o t = s
  BY ConcatEmptySeq
<1>4. EofLast'
  BY <1>2 DEF EofLast
<1>5. Has(Pipe', EOF) => Pipe' = Pipe
  BY <1>2
<1>6. Faithful'
  <2> SUFFICES ASSUME ~wire'.down, Has(Pipe', EOF) \/ Whole',
                      NEW p \in Pages \ dirty
               PROVE  Loads(Pipe', dst.ram, p, mem[p])
    BY DEF Faithful
  <2>1. Pipe' = Pipe
    BY <1>3, <1>5
  <2>2. Loads(Pipe, dst.ram, p, mem[p])
    BY <2>1 DEF Faithful
  <2> QED  BY <2>1, <2>2
<1> QED  BY <1>4, <1>5, <1>6

\* The stream as it is.
LEMMA SameStep ==
  ASSUME FileType, PeerType, EofLast, Faithful, Pipe' = Pipe,
         UNCHANGED <<mem, dirty, dst>>, wire'.down = wire.down,
         Whole' => Whole
  PROVE  EofLast' /\ Faithful' /\ (Has(Pipe', EOF) => Has(Pipe, EOF))
<1>1. Pipe \in Seq(Unit) /\ <<>> \in Seq(Unit)
  BY PipeType, FreshType
<1>2. Pipe = Pipe \o <<>>
  BY <1>1, ConcatEmptySeq
<1> HIDE DEF Pipe
<1>3. PICK s \in Seq(Unit) : s = Pipe
  BY <1>1
<1> QED  BY <1>1, <1>2, <1>3, DropStep

\* A stream without its end mark, of a file that failed.
LEMMA LostStep ==
  ASSUME ~Has(Pipe', EOF), ~Whole'
  PROVE  EofLast' /\ Faithful'
BY DEF EofLast, LastOnly, Has, Faithful

\* A page is appended to the stream.
LEMMA PageStep ==
  ASSUME TypeInv, Faithful, ~Has(Pipe, EOF), Whole' => Whole,
         NEW p \in dirty, Pipe' = Append(Pipe, <<p, mem[p]>>), dirty' = dirty \ {p},
         UNCHANGED <<mem, dst>>, wire'.down = wire.down
  PROVE  EofLast' /\ Faithful' /\ ~Has(Pipe', EOF)
<1> DEFINE u == <<p, mem[p]>>
<1>1. FileType /\ PeerType /\ GuestType
  BY TypeParts
<1>2. p \in Pages /\ mem[p] \in 0..MaxWrites
  BY <1>1 DEF GuestType
<1>3. u \in Unit /\ u # EOF /\ u[1] = p
  BY <1>2, MigrationAssumption DEF Unit, Pages
<1>4. Pipe \in Seq(Unit)
  BY <1>1, PipeType
<1>5. ~Has(Pipe', EOF)
  <2>1. /\ Len(Pipe) \in Nat /\ Len(Pipe') = Len(Pipe) + 1 /\ Pipe'[Len(Pipe) + 1] = u
        /\ \A i \in 1..Len(Pipe) : Pipe'[i] = Pipe[i]
    BY <1>3, <1>4, AppendProperties, LenProperties
  <2>2. \A i \in 1..Len(Pipe') : i \in 1..Len(Pipe) \/ i = Len(Pipe) + 1
    BY <2>1
  <2> QED  BY <1>3, <2>1, <2>2 DEF Has
<1>6. EofLast'
  BY <1>5 DEF EofLast, LastOnly, Has
<1>7. Faithful'
  <2> SUFFICES ASSUME ~wire'.down, Whole', NEW q \in Pages \ dirty'
               PROVE  Loads(Pipe', dst.ram, q, mem[q])
    BY <1>5 DEF Faithful
  <2>1. mem[q] \in 0..MaxWrites
    BY <1>1 DEF GuestType
  <2>2. CASE q = p
    <3>1. u = <<q, mem[q]>>
      BY <2>2
    <3>2. Pipe' = Append(Pipe, u)
      OBVIOUS
    <3>3. u \in Unit /\ q \in Pages
      BY <1>3
    <3> HIDE DEF u, Pipe
    <3>4. Loads(Append(Pipe, u), dst.ram, q, mem[q])
      BY <1>4, <2>1, <3>1, <3>3, LoadsAppend
    <3> QED  BY <3>2, <3>4
  <2>3. CASE q # p
    <3>1. Loads(Pipe, dst.ram, q, mem[q])
      BY <2>3 DEF Faithful
    <3>2. ~About(u, q)
      BY <1>3, <2>3 DEF About
    <3>3. Pipe' = Append(Pipe, u)
      OBVIOUS
    <3>4. u \in Unit /\ q \in Pages
      BY <1>3
    <3> HIDE DEF u, Pipe
    <3>5. Loads(Append(Pipe, u), dst.ram, q, mem[q])
      BY <1>4, <2>1, <3>1, <3>2, <3>4, LoadsAppend
    <3> QED  BY <3>3, <3>5
  <2> QED  BY <2>2, <2>3
<1> QED  BY <1>5, <1>6, <1>7

\* The end mark is appended to a stream that is whole and has none.
LEMMA EofStep ==
  ASSUME TypeInv, Faithful, ~Has(Pipe, EOF), Whole, Pipe' = Append(Pipe, EOF),
         UNCHANGED <<mem, dirty, dst>>, wire'.down = wire.down
  PROVE  EofLast' /\ Faithful'
<1>1. FileType /\ PeerType /\ GuestType
  BY TypeParts
<1>2. Pipe \in Seq(Unit) /\ EOF \in Unit
  BY <1>1, PipeType DEF Unit
<1>3. /\ Len(Pipe) \in Nat /\ Len(Pipe') = Len(Pipe) + 1
      /\ \A i \in 1..Len(Pipe) : Pipe'[i] = Pipe[i]
  BY <1>2, AppendProperties, LenProperties
<1>4. EofLast'
  <2>1. \A i \in 1..Len(Pipe') : i \in 1..Len(Pipe) \/ i = Len(Pipe')
    BY <1>3
  <2> QED  BY <1>3, <2>1 DEF EofLast, LastOnly, Has
<1>5. ASSUME ~wire.down, NEW p \in Pages \ dirty PROVE Loads(Pipe', dst.ram, p, mem[p])
  <2>1. mem[p] \in 0..MaxWrites /\ ~About(EOF, p)
    BY <1>1 DEF GuestType, About
  <2>2. Loads(Pipe, dst.ram, p, mem[p])
    BY <1>5 DEF Faithful
  <2> HIDE DEF Pipe
  <2> QED  BY <1>2, <2>1, <2>2, LoadsAppend
<1>6. Faithful'
  BY <1>5 DEF Faithful
<1> QED  BY <1>4, <1>6

\* qemu_fflush hands all of the units on, or drops them all for a file with an error.
LEMMA FflushPipe ==
  ASSUME FileType, PeerType, arg = <<>>, NEW q \in Seq(Unit), qemu_fflush(q), wire' = wire
  PROVE  /\ bf'.live = bf.live /\ bf'.err = bf.err /\ bf'.buf = bf.buf
         /\ bf'.xfer = bf.xfer /\ bf'.limit = bf.limit /\ (bf'.frozen => bf.frozen)
         /\ qf'.buf = <<>>
         /\ \/ Pipe' = (wire.q \o bf.buf) \o q /\ qf'.err = qf.err
            \/ Pipe' = wire.q \o bf.buf /\ bf.err /\ qf'.err
         /\ \/ UNCHANGED <<call, arg>>
            \/ call' = "flush" /\ arg' = q /\ q # <<>> /\ ~bf.err
<1>1. /\ wire.q \in Seq(Unit) /\ bf.buf \in Seq(Unit) /\ <<>> \in Seq(Unit)
      /\ wire.q \o bf.buf \in Seq(Unit)
  BY PipeType, FreshType
<1>2. CASE q = <<>> \/ bf.err
  <2>1. qf' = [buf |-> <<>>, err |-> qf.err \/ q # <<>>] /\ UNCHANGED <<bf, call, arg>>
    BY <1>2 DEF qemu_fflush
  <2>2. qf'.buf = <<>> /\ qf'.err = (qf.err \/ q # <<>>)
    BY <2>1
  <2>3. Pipe' = wire.q \o (bf.buf \o (<<>> \o <<>>))
    BY <2>1, <2>2 DEF Pipe
  <2>4. Pipe' = wire.q \o bf.buf
    BY <1>1, <2>3, ConcatEmptySeq
  <2>5. q = <<>> => (wire.q \o bf.buf) \o q = wire.q \o bf.buf
    BY <1>1, ConcatEmptySeq
  <2>6. q = <<>> => qf'.err = qf.err
    BY <2>2 DEF FileType
  <2>7. q # <<>> => bf.err /\ qf'.err
    BY <1>2, <2>2
  <2> QED  BY <2>1, <2>2, <2>4, <2>5, <2>6, <2>7
<1>3. CASE ~(q = <<>> \/ bf.err)
  <2>1. /\ qf' = [qf EXCEPT !.buf = <<>>]
        /\ bf' = [bf EXCEPT !.frozen = FALSE]
        /\ call' = "flush" /\ arg' = q
    BY <1>3 DEF qemu_fflush
  <2>2. qf'.buf = <<>> /\ qf'.err = qf.err
    BY <2>1 DEF FileType
  <2>3. /\ bf'.live = bf.live /\ bf'.err = bf.err /\ bf'.buf = bf.buf
        /\ bf'.xfer = bf.xfer /\ bf'.limit = bf.limit /\ ~bf'.frozen
    BY <2>1 DEF FileType
  <2>4. Pipe' = wire.q \o (bf.buf \o (q \o <<>>))
    BY <2>1, <2>2, <2>3 DEF Pipe
  <2>5. Pipe' = (wire.q \o bf.buf) \o q
    BY <1>1, <2>4, Assoc
  <2> QED  BY <1>3, <2>1, <2>2, <2>3, <2>5
<1> QED  BY <1>2, <1>3

\* qemu_put_buffer appends a unit to the stream, or drops it and what was buffered.
LEMMA PutPipe ==
  ASSUME FileType, PeerType, arg = <<>>, NEW u \in Unit, qemu_put_buffer(u), wire' = wire
  PROVE  /\ bf'.live = bf.live /\ bf'.err = bf.err /\ bf'.buf = bf.buf
         /\ bf'.xfer = bf.xfer /\ bf'.limit = bf.limit /\ (bf'.frozen => bf.frozen)
         /\ \/ Pipe' = Append(Pipe, u) /\ ~qf.err /\ ~qf'.err
            \/ Pipe' = wire.q \o bf.buf /\ qf'.err
         /\ Pipe = (wire.q \o bf.buf) \o qf.buf
         /\ \/ UNCHANGED <<call, arg>>
            \/ call' = "flush" /\ arg' # <<>> /\ qf'.buf = <<>> /\ ~bf.err
<1> DEFINE q == Append(qf.buf, u)
<1>1. /\ wire.q \in Seq(Unit) /\ bf.buf \in Seq(Unit) /\ <<>> \in Seq(Unit)
      /\ wire.q \o bf.buf \in Seq(Unit) /\ qf.buf \in Seq(Unit) /\ <<u>> \in Seq(Unit)
  <2>1. Append(<<>>, u) = <<u>> /\ <<>> \in Seq(Unit)
    BY FreshType
  <2>2. <<u>> \in Seq(Unit)
    BY <2>1, AppendProperties
  <2> QED  BY <2>1, <2>2, PipeType
<1>2. Pipe = (wire.q \o bf.buf) \o qf.buf
  <2>1. Pipe = wire.q \o (bf.buf \o (<<>> \o qf.buf))
    BY DEF Pipe
  <2>2. wire.q \o (bf.buf \o (<<>> \o qf.buf)) = (wire.q \o bf.buf) \o qf.buf
    <3>1. <<>> \o qf.buf = qf.buf
      BY <1>1, ConcatEmptySeq
    <3>2. (wire.q \o bf.buf) \o qf.buf = wire.q \o (bf.buf \o qf.buf)
      <4>1. wire.q \in Seq(Unit) /\ bf.buf \in Seq(Unit) /\ qf.buf \in Seq(Unit)
        BY <1>1
      <4> QED  BY <4>1, Assoc
    <3> QED  BY <3>1, <3>2
  <2> QED  BY <2>1, <2>2, Zenon
<1>3. Append(Pipe, u) = (wire.q \o bf.buf) \o q /\ q = qf.buf \o <<u>> /\ q \in Seq(Unit)
  <2>1. q = qf.buf \o <<u>> /\ q \in Seq(Unit)
    BY <1>1, AppendIsConcat, AppendProperties
  <2>2. Append(Pipe, u) = Pipe \o <<u>>
    BY PipeType, AppendIsConcat
  <2>3. ((wire.q \o bf.buf) \o qf.buf) \o <<u>> = (wire.q \o bf.buf) \o (qf.buf \o <<u>>)
    BY <1>1, Assoc, ZenonT(40)
  <2> QED  BY <1>2, <2>1, <2>2, <2>3
<1> HIDE DEF Pipe
<1>4. CASE ~qf.err /\ Len(q) < IoBuf
  <2>1. qf' = [qf EXCEPT !.buf = q] /\ UNCHANGED <<bf, call, arg>>
    BY <1>4 DEF qemu_put_buffer
  <2> HIDE DEF q
  <2>2. qf'.buf = q /\ ~qf'.err
    BY <1>4, <2>1 DEF FileType
  <2>3. Pipe' = wire.q \o (bf.buf \o (<<>> \o q))
    BY <2>1, <2>2 DEF Pipe
  <2>4. Pipe' = (wire.q \o bf.buf) \o q
    <3>1. wire.q \o (bf.buf \o (<<>> \o q)) = (wire.q \o bf.buf) \o q
      <4>1. <<>> \o q = q
        BY <1>3, ConcatEmptySeq
      <4>2. (wire.q \o bf.buf) \o q = wire.q \o (bf.buf \o q)
        <5>1. wire.q \in Seq(Unit) /\ bf.buf \in Seq(Unit) /\ q \in Seq(Unit)
          BY <1>1, <1>3
        <5> QED  BY <5>1, Assoc
      <4> QED  BY <4>1, <4>2
    <3> QED  BY <2>3, <3>1, Zenon
  <2> QED  BY <1>2, <1>3, <1>4, <2>1, <2>2, <2>4
<1>5. CASE ~qf.err /\ ~(Len(q) < IoBuf)
  <2>1. qemu_fflush(q)
    BY <1>5 DEF qemu_put_buffer
  <2> HIDE DEF q
  <2>2. /\ bf'.live = bf.live /\ bf'.err = bf.err /\ bf'.buf = bf.buf
        /\ bf'.xfer = bf.xfer /\ bf'.limit = bf.limit /\ (bf'.frozen => bf.frozen)
        /\ qf'.buf = <<>>
        /\ \/ Pipe' = (wire.q \o bf.buf) \o q /\ qf'.err = qf.err
           \/ Pipe' = wire.q \o bf.buf /\ bf.err /\ qf'.err
        /\ \/ UNCHANGED <<call, arg>>
           \/ call' = "flush" /\ arg' = q /\ q # <<>> /\ ~bf.err
    BY <1>3, <2>1, FflushPipe
  <2> QED  BY <1>2, <1>3, <1>5, <2>2
<1>6. CASE qf.err
  <2>1. qemu_fflush(<<>>)
    BY <1>6 DEF qemu_put_buffer
  <2>2. /\ qf' = [buf |-> <<>>, err |-> qf.err \/ <<>> # <<>>]
        /\ UNCHANGED <<bf, call, arg>>
    BY <2>1 DEF qemu_fflush
  <2>3. qf'.buf = <<>> /\ qf'.err
    BY <1>6, <2>2
  <2>4. Pipe' = wire.q \o (bf.buf \o (<<>> \o <<>>))
    BY <2>2, <2>3 DEF Pipe
  <2>5. Pipe' = wire.q \o bf.buf
    BY <1>1, <2>4, ConcatEmptySeq
  <2> QED  BY <1>2, <2>2, <2>3, <2>5
<1> QED  BY <1>4, <1>5, <1>6

\* Pages written are dirty.
LEMMA WriteStep ==
  ASSUME TypeInv, EofLast, Faithful, NEW W \in SUBSET Pages, Writes(W), Pipe' = Pipe,
         dst' = dst, wire'.down = wire.down, Whole' => Whole
  PROVE  EofLast' /\ Faithful'
<1>1. EofLast'
  BY DEF EofLast
<1>2. /\ mem' = [p \in Pages |-> IF p \in W THEN mem[p] + 1 ELSE mem[p]]
      /\ dirty' = dirty \cup W
  BY DEF Writes
<1>3. Faithful'
  <2> SUFFICES ASSUME ~wire'.down, Has(Pipe', EOF) \/ Whole', NEW p \in Pages \ dirty'
               PROVE  Loads(Pipe', dst'.ram, p, mem'[p])
    BY DEF Faithful
  <2>1. p \in Pages \ dirty /\ mem'[p] = mem[p]
    BY <1>2
  <2>2. Loads(Pipe, dst.ram, p, mem[p])
    BY <2>1 DEF Faithful
  <2> QED  BY <2>1, <2>2
<1> QED  BY <1>1, <1>3

-----------------------------------------------------------------------------
(* Every step keeps Stream.                                                  *)

\* Once the end mark is on its way or taken, the migration is past its last stage.
LEMMA Early ==
  ASSUME Base, Stream,
         \/ pc \in {"begin", "iterate", "complete", "notified", "ticked"}
         \/ pc = "idle" /\ (mig.state # "completed" \/ vm)
         \/ pc \in Closes /\ why # "ready"
  PROVE  ~Has(Pipe, EOF) /\ dst.status # "running"
BY DEF Stream, Ending, Closes

\* What buffered_flush does to the buffers.
LEMMA FlushEffect ==
  ASSUME FileType, PeerType, buffered_flush
  PROVE  /\ Pipe' = Pipe
         /\ bf'.live = bf.live /\ bf'.xfer = bf.xfer /\ bf'.limit = bf.limit
         /\ bf.buf = <<>> => bf'.buf = <<>>
         /\ wire'.down = wire.down /\ (wire.down => wire'.q = wire.q)
         /\ \/ call' = "flush" /\ bf'.err = bf.err /\ bf'.frozen = bf.frozen /\ bf.buf # <<>>
            \/ FlushReturns /\ bf' = bf /\ bf.buf = <<>>
            \/ FlushReturns /\ bf'.frozen /\ posix /\ bf'.err = bf.err /\ bf'.buf = bf.buf
            \/ FlushReturns /\ bf'.err /\ bf'.frozen = bf.frozen /\ bf.buf # <<>>
                 /\ (wire.down \/ ~posix)
<1>1. CASE bf.buf = <<>> /\ FlushReturns /\ UNCHANGED <<bf, wire, qf, arg>>
  BY <1>1 DEF Pipe
<1>2. ASSUME NEW n \in 1..SockBuf, Sends(bf.buf, n), bf' = [bf EXCEPT !.buf = Rest(@, n)],
             UNCHANGED <<call, qf, arg>>, call = "flush"
      PROVE  /\ Pipe' = Pipe
             /\ bf'.live = bf.live /\ bf'.xfer = bf.xfer /\ bf'.limit = bf.limit
             /\ bf'.err = bf.err /\ bf'.frozen = bf.frozen /\ bf.buf # <<>>
             /\ wire'.down = wire.down /\ ~wire.down
  <2> DEFINE a == SubSeq(bf.buf, 1, n)
             r == Rest(bf.buf, n)
             m == arg \o qf.buf
  <2>1. /\ wire'.down = wire.down /\ ~wire.down /\ a \in Seq(Unit) /\ r \in Seq(Unit)
        /\ wire'.q = wire.q \o a /\ a \o r = bf.buf
    BY <1>2, PipeType, SendsIs
  <2>2. wire.q \in Seq(Unit) /\ m \in Seq(Unit)
    BY PipeType
  <2>3. /\ bf'.live = bf.live /\ bf'.xfer = bf.xfer /\ bf'.limit = bf.limit
        /\ bf'.err = bf.err /\ bf'.frozen = bf.frozen /\ bf'.buf = r
    BY <1>2 DEF FileType
  <2>4. Pipe = wire.q \o ((a \o r) \o m) /\ Pipe' = (wire.q \o a) \o (r \o m)
    BY <1>2, <2>1, <2>3 DEF Pipe
  <2>5. bf.buf # <<>>
    BY <1>2 DEF Sends
  <2> HIDE DEF a, r, m
  <2>6. IsStream(a) /\ IsStream(r) /\ IsStream(m) /\ IsStream(wire.q)
    BY <2>1, <2>2 DEF IsStream
  <2>7. Cat(Cat(wire.q, a), Cat(r, m)) = Cat(wire.q, Cat(Cat(a, r), m))
    BY <2>6, Moved
  <2>9. Pipe' = Pipe
    BY <2>4, <2>7 DEF Cat
  <2> QED  BY <2>1, <2>3, <2>5, <2>9
<1>3. CASE /\ SendBlocks /\ FlushReturns
           /\ bf' = [bf EXCEPT !.frozen = TRUE] /\ UNCHANGED <<wire, qf, arg>>
  <2>1. /\ bf'.live = bf.live /\ bf'.xfer = bf.xfer /\ bf'.limit = bf.limit
        /\ bf'.err = bf.err /\ bf'.frozen /\ bf'.buf = bf.buf
    BY <1>3 DEF FileType
  <2>2. Pipe' = Pipe
    BY <1>3, <2>1 DEF Pipe
  <2>3. posix
    BY <1>3 DEF SendBlocks
  <2> QED  BY <1>3, <2>1, <2>2, <2>3
<1>4. CASE /\ bf.buf # <<>> /\ SendFails /\ FlushReturns
           /\ bf' = [bf EXCEPT !.err = TRUE] /\ UNCHANGED <<wire, qf, arg>>
  <2>1. /\ bf'.live = bf.live /\ bf'.xfer = bf.xfer /\ bf'.limit = bf.limit
        /\ bf'.err /\ bf'.frozen = bf.frozen /\ bf'.buf = bf.buf
    BY <1>4 DEF FileType
  <2>2. Pipe' = Pipe
    BY <1>4, <2>1 DEF Pipe
  <2>3. wire.down \/ ~posix
    BY <1>4 DEF SendFails
  <2> QED  BY <1>4, <2>1, <2>2, <2>3
<1>5. UNCHANGED <<qf, arg>> /\ call = "flush"
  BY DEF buffered_flush
<1>6. \/ bf.buf = <<>> /\ FlushReturns /\ UNCHANGED <<bf, wire>>
      \/ \E n \in 1..SockBuf : /\ Sends(bf.buf, n) /\ bf' = [bf EXCEPT !.buf = Rest(@, n)]
                               /\ UNCHANGED call
      \/ /\ SendBlocks /\ FlushReturns
         /\ bf' = [bf EXCEPT !.frozen = TRUE] /\ UNCHANGED wire
      \/ /\ bf.buf # <<>> /\ SendFails /\ FlushReturns
         /\ bf' = [bf EXCEPT !.err = TRUE] /\ UNCHANGED wire
  BY DEF buffered_flush
<1>7. CASE \E n \in 1..SockBuf : /\ Sends(bf.buf, n) /\ bf' = [bf EXCEPT !.buf = Rest(@, n)]
                                 /\ UNCHANGED call
  <2>1. PICK n \in 1..SockBuf : /\ Sends(bf.buf, n) /\ bf' = [bf EXCEPT !.buf = Rest(@, n)]
                                /\ UNCHANGED call
    BY <1>7
  <2>2. /\ Pipe' = Pipe
        /\ bf'.live = bf.live /\ bf'.xfer = bf.xfer /\ bf'.limit = bf.limit
        /\ bf'.err = bf.err /\ bf'.frozen = bf.frozen /\ bf.buf # <<>>
        /\ wire'.down = wire.down /\ ~wire.down
    BY <1>2, <1>5, <2>1
  <2> QED  BY <1>5, <2>1, <2>2
<1> QED  BY <1>1, <1>3, <1>4, <1>5, <1>6, <1>7

\* buffered_flush moves what waits to the socket, oldest first.
LEMMA FlushStream == Base /\ Stream /\ buffered_flush => Stream'
<1> SUFFICES ASSUME Base, Stream, buffered_flush PROVE Stream'
  OBVIOUS
<1>1. FileType /\ PeerType /\ ThreadType
  BY TypeParts DEF Base
<1>2. /\ call = "flush" /\ pc \in Working /\ ~bf.err /\ bf.live
      /\ UNCHANGED <<mem, dirty, dst, qf, arg, pc, why, verdict, vm, posix>>
      /\ mig'.file = mig.file
  <2>1. call = "flush" /\ pc \in Working
    BY DEF buffered_flush, Base, IInv, Types, Called, Working
  <2>2. ~bf.err /\ bf.live
    BY <2>1 DEF Stream, Held
  <2>3. UNCHANGED <<mem, dirty, dst, qf, arg, pc, why, verdict, vm, posix>>
    BY DEF buffered_flush, guest, run
  <2>4. mig'.file = mig.file
    BY TypeParts DEF buffered_flush, PutAgain, PutError, Base, MigType
  <2> QED  BY <2>1, <2>2, <2>3, <2>4
<1>3. /\ Pipe' = Pipe
      /\ bf'.live = bf.live /\ bf'.xfer = bf.xfer /\ bf'.limit = bf.limit
      /\ bf.buf = <<>> => bf'.buf = <<>>
      /\ wire'.down = wire.down /\ (wire.down => wire'.q = wire.q)
      /\ \/ call' = "flush" /\ bf'.err = bf.err /\ bf'.frozen = bf.frozen /\ bf.buf # <<>>
         \/ FlushReturns /\ bf' = bf /\ bf.buf = <<>>
         \/ FlushReturns /\ bf'.frozen /\ posix /\ bf'.err = bf.err /\ bf'.buf = bf.buf
         \/ FlushReturns /\ bf'.err /\ bf'.frozen = bf.frozen /\ bf.buf # <<>>
              /\ (wire.down \/ ~posix)
  BY <1>1, FlushEffect
<1>4. Held'
  BY <1>2, <1>3 DEF Stream, Held, FlushReturns
<1>5. InOrder'
  BY <1>1, <1>2, <1>3 DEF Stream, Held, InOrder, FlushReturns, ThreadType, Working, Closes
<1>6. Whole' => Whole
  BY <1>2, <1>3 DEF Whole
<1>7. EofLast' /\ Faithful' /\ (Has(Pipe', EOF) => Has(Pipe, EOF))
  <2>1. EofLast /\ Faithful /\ Pipe' = Pipe /\ UNCHANGED <<mem, dirty, dst>>
        /\ wire'.down = wire.down
    BY <1>2, <1>3 DEF Stream
  <2> QED  BY <1>1, <1>6, <2>1, SameStep
<1>8. Ending'
  BY <1>2, <1>7 DEF Stream, Ending, Working
<1>9. TakenOver'
  BY <1>2, <1>3 DEF Stream, TakenOver
<1> QED  BY <1>4, <1>5, <1>7, <1>8, <1>9 DEF Stream

\* buffered_put_buffer: what is put goes behind all that waits, is kept behind it, or is
\* lost with the end mark.
LEMMA PutStream == Base /\ Stream /\ buffered_put_buffer => Stream'
<1> SUFFICES ASSUME Base, Stream, buffered_put_buffer PROVE Stream'
  OBVIOUS
<1>1. FileType /\ PeerType /\ ThreadType /\ MigType
  BY TypeParts DEF Base
<1>2. /\ wire.q \in Seq(Unit) /\ bf.buf \in Seq(Unit) /\ arg \in Seq(Unit)
      /\ wire.q \o bf.buf \in Seq(Unit)
  BY <1>1, PipeType
<1>3. /\ call = "put" /\ arg # <<>> /\ qf.buf = <<>> /\ bf.live
      /\ pc \in {"begin", "iterate", "complete", "verdict", "close"} /\ pc \in Working
      /\ dst.status # "running"
      /\ UNCHANGED <<mem, dirty, dst, pc, why, verdict, vm, posix>>
      /\ mig'.file = mig.file
  <2>1. call = "put" /\ arg # <<>> /\ qf.buf = <<>>
    BY DEF buffered_put_buffer, Stream, Held
  <2>2. pc \in {"begin", "iterate", "complete", "verdict", "close"} /\ pc \in Working
    BY <2>1 DEF Stream, Held, Working
  <2>3. dst.status # "running" /\ bf.live
    BY <2>1, <2>2 DEF Stream, TakenOver, Held
  <2>4. UNCHANGED <<mem, dirty, dst, pc, why, verdict, vm, posix>>
    BY DEF buffered_put_buffer, guest, run
  <2>5. mig'.file = mig.file
    BY <1>1 DEF buffered_put_buffer, PutAgain, PutError, MigType
  <2> QED  BY <2>1, <2>2, <2>3, <2>4, <2>5
<1>4. TakenOver'
  BY <1>3 DEF TakenOver
<1>5. Pipe = (wire.q \o bf.buf) \o arg
  <2>1. Pipe = wire.q \o (bf.buf \o (arg \o <<>>))
    BY <1>3 DEF Pipe
  <2> QED  BY <1>2, <2>1, Assoc
<1>6. EofLast /\ Faithful /\ Ending
  BY DEF Stream
<1>7. ASSUME PutReturns, bf'.buf = bf.buf \o arg, bf'.live = bf.live, bf'.err = bf.err,
             bf'.xfer = bf.xfer, bf'.limit = bf.limit, UNCHANGED <<qf, wire>>,
             \/ bf'.frozen = bf.frozen /\ (bf.frozen \/ bf.xfer > bf.limit)
             \/ bf'.frozen /\ posix
      PROVE  Stream'
  <2>1. Pipe' = Pipe
    <3>1. Pipe' = wire.q \o ((bf.buf \o arg) \o (<<>> \o <<>>))
      BY <1>3, <1>7 DEF Pipe, PutReturns
    <3>2. bf.buf \o arg \in Seq(Unit) /\ <<>> \o <<>> = <<>>
      BY <1>2, ConcatProperties
    <3>3. (bf.buf \o arg) \o <<>> = bf.buf \o arg
      BY <3>2, ConcatEmptySeq
    <3>4. IsStream(wire.q) /\ IsStream(bf.buf) /\ IsStream(arg)
      BY <1>2 DEF IsStream
    <3>5. Cat(Cat(wire.q, bf.buf), arg) = Cat(wire.q, Cat(bf.buf, arg))
      BY <3>4, CatAssoc
    <3> QED  BY <1>5, <3>1, <3>2, <3>3, <3>5 DEF Cat
  <2>2. Held'
    BY <1>3, <1>7 DEF Stream, Held, PutReturns
  <2>3. InOrder'
    BY <1>1, <1>3, <1>7 DEF Stream, Held, InOrder, PutReturns, ThreadType
  <2>4. Whole' => Whole
    BY <1>3, <1>7 DEF Whole
  <2>5. EofLast' /\ Faithful' /\ (Has(Pipe', EOF) => Has(Pipe, EOF))
    <3>1. UNCHANGED <<mem, dirty, dst>> /\ wire'.down = wire.down
      BY <1>3, <1>7
    <3> QED  BY <1>1, <1>6, <2>1, <2>4, <3>1, SameStep
  <2>6. Ending'
    BY <1>3, <1>6, <1>7, <2>5 DEF Ending, Working
  <2> QED  BY <1>4, <2>2, <2>3, <2>5, <2>6 DEF Stream
<1>8. ASSUME PutReturns, bf'.buf = bf.buf, bf'.live = bf.live, bf'.err,
             bf'.xfer = bf.xfer, bf'.limit = bf.limit, bf'.frozen = bf.frozen,
             qf'.buf = qf.buf, qf'.err, UNCHANGED wire
      PROVE  Stream'
  <2>1. Pipe' = wire.q \o bf.buf
    <3>1. Pipe' = wire.q \o (bf.buf \o (<<>> \o <<>>))
      BY <1>3, <1>8 DEF Pipe, PutReturns
    <3>2. <<>> \o <<>> = <<>> /\ bf.buf \o <<>> = bf.buf
      BY <1>2, ConcatEmptySeq
    <3> QED  BY <3>1, <3>2
  <2>2. Held'
    BY <1>3, <1>8 DEF Stream, Held, PutReturns
  <2>3. InOrder'
    BY <1>3, <1>8 DEF Stream, InOrder, PutReturns
  <2>4. ~Has(Pipe', EOF)
    <3>1. LastOnly((wire.q \o bf.buf) \o arg)
      BY <1>5, <1>6 DEF EofLast
    <3> DEFINE s == wire.q \o bf.buf
    <3>2. s \in Seq(Unit) /\ LastOnly(s \o arg) /\ Pipe' = s
      BY <1>2, <2>1, <3>1
    <3> HIDE DEF s
    <3> QED  BY <1>2, <1>3, <3>2, LastConcat
  <2>5. ~Whole'
    BY <1>8 DEF Whole
  <2>6. EofLast' /\ Faithful'
    BY <2>4, <2>5, LostStep
  <2>7. Ending'
    BY <1>3, <2>4 DEF Ending
  <2> QED  BY <1>4, <2>2, <2>3, <2>6, <2>7 DEF Stream
<1>9. ASSUME NEW n \in 1..SockBuf, Sends(arg, n), arg' = Rest(arg, n),
             bf' = [bf EXCEPT !.xfer = Least(@ + n, MaxRate + 1)],
             call' = IF arg' = <<>> THEN "none" ELSE "put",
             ~bf.frozen, bf.xfer <= bf.limit, UNCHANGED qf
      PROVE  Stream'
  <2> DEFINE a == SubSeq(arg, 1, n)
  <2>1. /\ wire'.down = wire.down /\ ~wire.down /\ a \in Seq(Unit) /\ arg' \in Seq(Unit)
        /\ wire'.q = wire.q \o a /\ a \o arg' = arg
    BY <1>1, <1>2, <1>9, SendsIs
  <2> HIDE DEF a
  <2>2. /\ bf'.live = bf.live /\ bf'.err = bf.err /\ bf'.buf = bf.buf
        /\ bf'.limit = bf.limit /\ bf'.frozen = bf.frozen
    BY <1>1, <1>9 DEF FileType
  <2>3. bf.xfer \in Int /\ bf.limit \in Int /\ ~(bf.xfer > bf.limit)
    <3>1. Rates \subseteq Nat
      BY MigrationAssumption
    <3>2. bf.xfer \in 0..(MaxRate + 1) /\ bf.limit \in Rates \cup {0}
      BY <1>1 DEF FileType
    <3>3. bf.xfer \in Int /\ bf.limit \in Int
      <4>1. MaxRate + 1 \in Int
        BY MaxRateIs
      <4>2. bf.xfer \in Int
        BY <3>2, <4>1
      <4>3. bf.limit \in Int
        <5>1. bf.limit \in Rates \/ bf.limit = 0
          BY <3>2
        <5>2. bf.limit \in Rates => bf.limit \in Nat
          BY <3>1, Zenon
        <5> QED  BY <5>1, <5>2
      <4> QED  BY <4>2, <4>3
    <3> QED  BY <1>9, <3>3
  <2>4. Held'
    BY <1>3, <1>9, <2>1, <2>2 DEF Stream, Held
  <2>5. \/ ~bf.err /\ bf.buf = <<>>
        \/ bf.err /\ pc = "close" /\ why # "ready"
    BY <1>3, <1>9, <2>1, <2>3 DEF Stream, InOrder
  <2>6. InOrder'
    BY <1>3, <2>1, <2>2, <2>5 DEF InOrder
  <2>7. EofLast' /\ Faithful' /\ (Has(Pipe', EOF) => Has(Pipe, EOF))
    <3>1. CASE ~bf.err /\ bf.buf = <<>>
      <4>1. Pipe' = (wire.q \o a) \o (<<>> \o (arg' \o <<>>))
        BY <1>3, <1>9, <2>1, <2>2, <3>1 DEF Pipe
      <4>2. arg' \o <<>> = arg' /\ <<>> \o arg' = arg' /\ wire.q \o bf.buf = wire.q
        BY <1>2, <2>1, <3>1, ConcatEmptySeq
      <4>3. Cat(Cat(wire.q, a), arg') = Cat(wire.q, Cat(a, arg'))
        <5>1. IsStream(wire.q) /\ IsStream(a) /\ IsStream(arg')
          BY <1>2, <2>1 DEF IsStream
        <5> QED  BY <5>1, CatAssoc
      <4>4. Pipe' = Pipe
        BY <1>5, <2>1, <4>1, <4>2, <4>3 DEF Cat
      <4>5. Whole' => Whole
        BY <1>3, <1>9, <2>2 DEF Whole
      <4>6. UNCHANGED <<mem, dirty, dst>>
        BY <1>3
      <4> QED  BY <1>1, <1>6, <2>1, <4>4, <4>5, <4>6, SameStep
    <3>2. CASE bf.err /\ pc = "close" /\ why # "ready"
      <4>1. ~Has(Pipe, EOF)
        BY <3>2, Early DEF Closes
      <4>2. ~Has(wire.q \o bf.buf, EOF) /\ ~Has(arg, EOF)
        <5> DEFINE s == wire.q \o bf.buf
        <5>1. s \in Seq(Unit) /\ Pipe = s \o arg
          BY <1>2, <1>5
        <5> HIDE DEF s
        <5>2. ~Has(s, EOF) /\ ~Has(arg, EOF)
          BY <1>2, <4>1, <5>1, HasConcat
        <5> QED  BY <5>2 DEF s
      <4>3. ~Has(wire.q, EOF) /\ ~Has(bf.buf, EOF) /\ ~Has(a, EOF) /\ ~Has(arg', EOF)
        <5>1. ~Has(wire.q, EOF) /\ ~Has(bf.buf, EOF)
          BY <1>2, <4>2, HasConcat
        <5>2. ~Has(a \o arg', EOF)
          BY <2>1, <4>2
        <5> QED  BY <2>1, <5>1, <5>2, HasConcat
      <4>4. Pipe' = (wire.q \o a) \o (bf.buf \o arg')
        <5>1. Pipe' = (wire.q \o a) \o (bf.buf \o (arg' \o <<>>))
          BY <1>3, <1>9, <2>1, <2>2 DEF Pipe
        <5>2. arg' \o <<>> = arg'
          BY <2>1, ConcatEmptySeq
        <5> QED  BY <5>1, <5>2
      <4>5. ~Has(Pipe', EOF)
        <5> DEFINE x == wire.q \o a
                   y == bf.buf \o arg'
        <5>1. x \in Seq(Unit) /\ y \in Seq(Unit)
          BY <1>2, <2>1, ConcatProperties
        <5>2. ~Has(x, EOF) /\ ~Has(y, EOF)
          BY <1>2, <2>1, <4>3, HasConcat
        <5>3. Pipe' = x \o y
          BY <4>4
        <5> HIDE DEF x, y
        <5> QED  BY <5>1, <5>2, <5>3, HasConcat
      <4>6. ~Whole'
        BY <1>3, <3>2 DEF Whole, Closes
      <4> QED  BY <4>5, <4>6, LostStep
    <3> QED  BY <2>5, <3>1, <3>2
  <2>8. Ending'
    BY <1>3, <1>6, <1>9, <2>7 DEF Ending, Working
  <2> QED  BY <1>4, <2>4, <2>6, <2>7, <2>8 DEF Stream
<1>10. CASE (bf.frozen \/ bf.xfer > bf.limit) /\ Append_ /\ PutReturns /\ UNCHANGED <<qf, wire>>
  <2>1. /\ bf'.buf = bf.buf \o arg /\ bf'.live = bf.live /\ bf'.err = bf.err
        /\ bf'.xfer = bf.xfer /\ bf'.limit = bf.limit /\ bf'.frozen = bf.frozen
    BY <1>1, <1>10 DEF Append_, FileType
  <2> QED  BY <1>7, <1>10, <2>1
<1>11. CASE SendBlocks /\ AppendFrozen /\ PutReturns /\ UNCHANGED <<qf, wire>>
  <2>1. /\ bf'.buf = bf.buf \o arg /\ bf'.live = bf.live /\ bf'.err = bf.err
        /\ bf'.xfer = bf.xfer /\ bf'.limit = bf.limit /\ bf'.frozen
    BY <1>1, <1>11 DEF AppendFrozen, FileType
  <2> QED  BY <1>7, <1>11, <2>1 DEF SendBlocks
<1>12. CASE /\ bf' = [bf EXCEPT !.err = TRUE] /\ qf' = [qf EXCEPT !.err = TRUE]
            /\ PutReturns /\ UNCHANGED wire
  <2>1. /\ bf'.buf = bf.buf /\ bf'.live = bf.live /\ bf'.err
        /\ bf'.xfer = bf.xfer /\ bf'.limit = bf.limit /\ bf'.frozen = bf.frozen
        /\ qf'.buf = qf.buf /\ qf'.err
    BY <1>1, <1>12 DEF FileType
  <2> QED  BY <1>8, <1>12, <2>1
<1> QED  BY <1>9, <1>10, <1>11, <1>12 DEF buffered_put_buffer

\* Pages and the end mark are handed to the file.
LEMMA FileStream == Base /\ Stream /\ (ram_save_block \/ CompleteEnds) => Stream'
<1> SUFFICES ASSUME Base, Stream, ram_save_block \/ CompleteEnds PROVE Stream'
  OBVIOUS
<1>1. FileType /\ PeerType /\ ThreadType /\ GuestType /\ TypeInv
  BY TypeParts DEF Base
<1>2. /\ call = "none" /\ arg = <<>> /\ bf.live
      /\ pc \in {"begin", "iterate", "complete"} /\ pc \in Working
      /\ pc' = (IF CompleteEnds THEN "verdict" ELSE pc)
      /\ UNCHANGED <<mem, dst, why, verdict, vm, posix, mig, wire>>
      /\ ~Has(Pipe, EOF) /\ dst.status # "running"
  <2>1. call = "none" /\ pc \in {"begin", "iterate", "complete"} /\ pc \in Working
    BY DEF ram_save_block, CompleteEnds, At, Working
  <2>2. arg = <<>> /\ bf.live
    BY <2>1 DEF Stream, Held
  <2>3. pc' = (IF CompleteEnds THEN "verdict" ELSE pc)
    BY DEF ram_save_block, CompleteEnds
  <2>4. UNCHANGED <<mem, dst, why, verdict, vm, posix, mig, wire>>
    BY DEF ram_save_block, CompleteEnds, guest, run, peer
  <2>5. ~Has(Pipe, EOF) /\ dst.status # "running"
    BY <2>1, Early
  <2> QED  BY <2>1, <2>2, <2>3, <2>4, <2>5
<1>3. TakenOver'
  BY <1>2 DEF TakenOver
<1>4. EofLast /\ Faithful /\ Held /\ InOrder
  BY DEF Stream
<1>5. PICK u \in Unit :
        /\ qemu_put_buffer(u)
        /\ \/ CompleteEnds /\ u = EOF /\ dirty = {} /\ pc = "complete" /\ dirty' = dirty
           \/ ~CompleteEnds /\ \E p \in dirty : u = <<p, mem[p]>> /\ dirty' = dirty \ {p}
  <2>1. CASE CompleteEnds
    <3>1. EOF \in Unit
      BY DEF Unit
    <3> QED  BY <2>1, <3>1 DEF CompleteEnds, At, guest
  <2>2. CASE ~CompleteEnds
    <3>1. NextDirty \in dirty /\ NextDirty \in Pages
      BY <1>1, <2>2, NextDirtyIs DEF ram_save_block, GuestType
    <3>2. <<NextDirty, mem[NextDirty]>> \in Unit
      BY <1>1, <3>1 DEF Unit, GuestType
    <3> QED  BY <2>2, <3>1, <3>2 DEF ram_save_block
  <2> QED  BY <2>1, <2>2
<1>6. /\ bf'.live = bf.live /\ bf'.err = bf.err /\ bf'.buf = bf.buf
      /\ bf'.xfer = bf.xfer /\ bf'.limit = bf.limit /\ (bf'.frozen => bf.frozen)
      /\ \/ Pipe' = Append(Pipe, u) /\ ~qf.err /\ ~qf'.err
         \/ Pipe' = wire.q \o bf.buf /\ qf'.err
      /\ Pipe = (wire.q \o bf.buf) \o qf.buf
      /\ \/ UNCHANGED <<call, arg>>
         \/ call' = "flush" /\ arg' # <<>> /\ qf'.buf = <<>> /\ ~bf.err
  BY <1>1, <1>2, <1>5, PutPipe
<1>7. pc' \in {"begin", "iterate", "complete", "verdict"} /\ pc' \in Working
  BY <1>2 DEF Working
<1>8. Held'
  BY <1>2, <1>4, <1>6, <1>7 DEF Held
<1>9. InOrder'
  BY <1>2, <1>4, <1>6, <1>7 DEF InOrder, Closes
<1>10. ~qf.err => Whole
  BY <1>2 DEF Whole, Closes
<1>11. CASE Pipe' = Append(Pipe, u) /\ ~qf.err /\ ~qf'.err
  <2>1. wire'.down = wire.down
    BY <1>2
  <2>2. CASE CompleteEnds
    <3>1. EofLast' /\ Faithful'
      BY <1>1, <1>2, <1>4, <1>5, <1>10, <1>11, <2>1, <2>2, EofStep
    <3>2. Ending'
      BY <1>2, <1>5, <1>11, <2>2 DEF Ending, Base, IInv, Stopped
    <3> QED  BY <1>3, <1>8, <1>9, <3>1, <3>2 DEF Stream
  <2>3. CASE ~CompleteEnds
    <3>1. PICK p \in dirty : u = <<p, mem[p]>> /\ dirty' = dirty \ {p}
      BY <1>5, <2>3
    <3>2. EofLast' /\ Faithful' /\ ~Has(Pipe', EOF)
      BY <1>1, <1>2, <1>4, <1>10, <1>11, <2>1, <3>1, PageStep
    <3>3. Ending'
      BY <1>2, <3>2 DEF Ending
    <3> QED  BY <1>3, <1>8, <1>9, <3>2, <3>3 DEF Stream
  <2> QED  BY <2>2, <2>3
<1>12. CASE Pipe' = wire.q \o bf.buf /\ qf'.err
  <2>1. ~Has(Pipe', EOF)
    <3> DEFINE s == wire.q \o bf.buf
    <3>1. s \in Seq(Unit) /\ qf.buf \in Seq(Unit) /\ Pipe = s \o qf.buf /\ Pipe' = s
      BY <1>1, <1>6, <1>12, PipeType
    <3> HIDE DEF s
    <3> QED  BY <1>2, <3>1, HasConcat
  <2>2. EofLast' /\ Faithful'
    BY <1>12, <2>1, LostStep DEF Whole
  <2>3. Ending'
    BY <1>2, <2>1 DEF Ending
  <2> QED  BY <1>3, <1>8, <1>9, <2>2, <2>3 DEF Stream
<1> QED  BY <1>6, <1>11, <1>12

\* The file is flushed before it is closed.
LEMMA FcloseStream == Base /\ Stream /\ Fclose => Stream'
<1> SUFFICES ASSUME Base, Stream, Fclose PROVE Stream'
  OBVIOUS
<1>1. FileType /\ PeerType /\ ThreadType
  BY TypeParts DEF Base
<1>2. /\ pc = "fclose" /\ pc' = "close" /\ call = "none" /\ arg = <<>> /\ bf.live
      /\ UNCHANGED <<mem, dirty, dst, why, verdict, vm, posix, mig, wire>>
      /\ EofLast /\ Faithful /\ Held /\ InOrder /\ Ending /\ TakenOver
  <2>1. EofLast /\ Faithful /\ Held /\ InOrder /\ Ending /\ TakenOver
    BY DEF Stream
  <2>2. pc = "fclose" /\ pc' = "close" /\ call = "none"
    BY DEF Fclose, At
  <2>3. UNCHANGED <<mem, dirty, dst, why, verdict, vm, posix, mig, wire>>
    BY DEF Fclose, guest, run, peer
  <2> QED  BY <2>1, <2>2, <2>3 DEF Held, Working
<1>3. qf.buf \in Seq(Unit) /\ wire.q \o bf.buf \in Seq(Unit) /\ qemu_fflush(qf.buf)
  BY <1>1, PipeType DEF Fclose
<1>4. /\ bf'.live = bf.live /\ bf'.err = bf.err /\ bf'.buf = bf.buf
      /\ bf'.xfer = bf.xfer /\ bf'.limit = bf.limit /\ (bf'.frozen => bf.frozen)
      /\ qf'.buf = <<>>
      /\ \/ Pipe' = (wire.q \o bf.buf) \o qf.buf /\ qf'.err = qf.err
         \/ Pipe' = wire.q \o bf.buf /\ bf.err /\ qf'.err
      /\ \/ UNCHANGED <<call, arg>>
         \/ call' = "flush" /\ arg' = qf.buf /\ qf.buf # <<>> /\ ~bf.err
  BY <1>1, <1>2, <1>3, FflushPipe
<1>5. Pipe = (wire.q \o bf.buf) \o qf.buf
  <2>1. Pipe = wire.q \o (bf.buf \o (<<>> \o qf.buf))
    BY <1>2 DEF Pipe
  <2>2. <<>> \o qf.buf = qf.buf
    BY <1>3, ConcatEmptySeq
  <2>3. IsStream(wire.q) /\ IsStream(bf.buf) /\ IsStream(qf.buf)
    BY <1>1, PipeType DEF IsStream
  <2>4. Cat(Cat(wire.q, bf.buf), qf.buf) = Cat(wire.q, Cat(bf.buf, qf.buf))
    BY <2>3, CatAssoc
  <2> QED  BY <2>1, <2>2, <2>4 DEF Cat
<1>6. Held'
  BY <1>2, <1>4 DEF Held, Working
<1>7. InOrder'
  BY <1>2, <1>4 DEF InOrder, Closes
<1>8. Whole' => Whole
  <2> SUFFICES ASSUME Whole' PROVE Whole
    OBVIOUS
  <2> QED  BY <1>2, <1>4 DEF Whole, Closes
<1>9. EofLast' /\ Faithful' /\ (Has(Pipe', EOF) => Has(Pipe, EOF))
  <2>1. UNCHANGED <<mem, dirty, dst>> /\ wire'.down = wire.down
    BY <1>2
  <2>2. CASE Pipe' = (wire.q \o bf.buf) \o qf.buf
    <3>1. Pipe' = Pipe
      BY <1>5, <2>2
    <3> QED  BY <1>1, <1>2, <1>8, <2>1, <3>1, SameStep
  <2>3. CASE Pipe' = wire.q \o bf.buf /\ qf'.err
    <3> DEFINE s == wire.q \o bf.buf
    <3>1. s \in Seq(Unit) /\ Pipe = s \o qf.buf /\ Pipe' = s
      BY <1>3, <1>5, <2>3
    <3>2. ~Whole'
      BY <2>3 DEF Whole
    <3> HIDE DEF s
    <3>3. PICK t \in Seq(Unit) : t = qf.buf
      BY <1>3
    <3>4. PICK v \in Seq(Unit) : v = s
      BY <3>1
    <3> QED  BY <1>2, <2>1, <3>1, <3>2, <3>3, <3>4, DropStep
  <2> QED  BY <1>4, <2>2, <2>3
<1>10. Ending'
  BY <1>2, <1>9 DEF Ending, Closes
<1>11. TakenOver'
  BY <1>2, <1>4 DEF TakenOver
<1> QED  BY <1>6, <1>7, <1>9, <1>10, <1>11 DEF Stream

\* Steps that leave the buffers alone.
LEMMA StageStream ==
  Base /\ Stream /\ (CloseFlushes \/ BeginEnds \/ Verdict \/ Notified \/ Ticked) => Stream'
<1> SUFFICES ASSUME Base, Stream,
                    CloseFlushes \/ BeginEnds \/ Verdict \/ Notified \/ Ticked
             PROVE  Stream'
  OBVIOUS
<1>1. FileType /\ PeerType /\ ThreadType /\ MigType
  BY TypeParts DEF Base
<1>2. EofLast /\ Faithful /\ Held /\ InOrder /\ Ending /\ TakenOver
  BY DEF Stream
<1>3. /\ UNCHANGED <<mem, dirty, dst, posix, wire, qf, bf, arg>>
      /\ call = "none" /\ pc \in Working /\ arg = <<>> /\ mig'.file = mig.file
  <2>1. UNCHANGED <<mem, dirty, dst, posix, wire, qf, bf, arg>>
    BY DEF CloseFlushes, BeginEnds, Verdict, Notified, Ticked, guest, peer, file
  <2>2. call = "none" /\ pc \in Working
    BY DEF CloseFlushes, BeginEnds, Verdict, Notified, Ticked, At, Working
  <2>3. mig'.file = mig.file
    BY <1>1 DEF CloseFlushes, BeginEnds, Verdict, Notified, Ticked, MigType
  <2> QED  BY <1>2, <2>1, <2>2, <2>3 DEF Held
<1>4. Pipe' = Pipe
  BY <1>3 DEF Pipe
<1>5. TakenOver'
  BY <1>2, <1>3 DEF TakenOver
<1>6. Held' /\ InOrder' /\ (Whole' => Whole) /\ (Has(Pipe, EOF) \/ dst.status = "running" => Ending')
  <2>1. CASE CloseFlushes
    <3>1. pc = "close" /\ UNCHANGED <<pc, why, verdict, vm>> /\ call' = "flush" /\ ~bf.err
      BY <2>1 DEF CloseFlushes, At, run
    <3> QED  BY <1>2, <1>3, <3>1 DEF Held, InOrder, Whole, Ending, Working, Closes
  <2>2. CASE BeginEnds
    <3>1. /\ pc = "begin" /\ call' = call
          /\ (pc' = "fclose" /\ why' = "error") \/ (pc' \in {"idle", "iterate"} /\ why' = why)
      BY <2>2 DEF BeginEnds, At, PutReady
    <3>2. ~Has(Pipe, EOF) /\ dst.status # "running"
      BY <3>1, Early
    <3>3. Held'
      BY <1>2, <1>3, <3>1 DEF Held, Working
    <3>4. InOrder'
      BY <1>2, <1>3, <3>1 DEF InOrder, Closes
    <3> QED  BY <1>3, <3>1, <3>2, <3>3, <3>4 DEF Whole, Closes
  <2>3. CASE Verdict
    <3>1. /\ pc = "verdict" /\ call' = call /\ pc' = "fclose" /\ why' = "ready"
          /\ verdict' = (IF qf.err THEN "error" ELSE "completed")
          /\ vm' = (vm \/ (qf.err /\ old))
      BY <2>3 DEF Verdict, At
    <3>2. Held'
      BY <1>2, <1>3, <3>1 DEF Held, Working
    <3>3. InOrder'
      BY <1>2, <1>3, <3>1 DEF InOrder, Closes
    <3>4. Whole' => Whole
      BY <1>3, <3>1 DEF Whole, Closes
    <3>5. Has(Pipe, EOF) \/ dst.status = "running" => Ending'
      BY <1>2, <1>3, <3>1 DEF Ending, Closes
    <3> QED  BY <3>2, <3>3, <3>4, <3>5
  <2>4. CASE Notified \/ Ticked
    <3>1. /\ pc \in {"notified", "ticked"} /\ call' = call
          /\ pc' \in {"idle", "iterate"} /\ why' = why
      BY <2>4 DEF Notified, Ticked, At, PutReady
    <3>2. ~Has(Pipe, EOF) /\ dst.status # "running"
      BY <3>1, Early
    <3>3. Held'
      BY <1>2, <1>3, <3>1 DEF Held, Working
    <3>4. InOrder'
      BY <1>2, <1>3, <3>1 DEF Held, InOrder, Closes
    <3> QED  BY <1>3, <3>1, <3>2, <3>3, <3>4 DEF Whole, Closes
  <2> QED  BY <2>1, <2>2, <2>3, <2>4
<1>7. EofLast' /\ Faithful'
  <2>1. UNCHANGED <<mem, dirty, dst>> /\ wire'.down = wire.down
    BY <1>3
  <2> QED  BY <1>1, <1>2, <1>4, <1>6, <2>1, SameStep
<1>8. Ending'
  BY <1>3, <1>4, <1>6 DEF Ending
<1> QED  BY <1>5, <1>6, <1>7, <1>8 DEF Stream

\* The guest writes as long as the end mark is not on its way.
LEMMA WriteStream == Base /\ Stream /\ (IterateEnds \/ GuestWrite) => Stream'
<1> SUFFICES ASSUME Base, Stream, IterateEnds \/ GuestWrite PROVE Stream'
  OBVIOUS
<1>1. FileType /\ PeerType /\ ThreadType /\ TypeInv
  BY TypeParts DEF Base
<1>2. EofLast /\ Faithful /\ Held /\ InOrder
  BY DEF Stream
<1>3. /\ UNCHANGED <<dst, posix, wire, qf, bf, arg, call, why, mig>> /\ call = "none"
      /\ \/ pc = "iterate" /\ pc' \in {"complete", "idle"}
         \/ pc = "idle" /\ vm /\ pc' = pc
  <2>1. CASE IterateEnds
    BY <2>1 DEF IterateEnds, At, peer, file
  <2>2. CASE GuestWrite
    BY <2>2 DEF GuestWrite, Idle, peer, file, thread, Base, IInv, Called
  <2> QED  BY <2>1, <2>2
<1>4. ~Has(Pipe, EOF) /\ dst.status # "running"
  BY <1>3, Early
<1>5. Pipe' = Pipe
  BY <1>3 DEF Pipe
<1>6. Held'
  BY <1>2, <1>3 DEF Held, Working
<1>7. InOrder'
  BY <1>2, <1>3 DEF InOrder, Closes
<1>8. Ending' /\ TakenOver'
  BY <1>3, <1>4, <1>5 DEF Ending, TakenOver
<1>9. Whole' => Whole
  BY <1>3 DEF Whole, Closes
<1>10. wire'.down = wire.down
  BY <1>3
<1>11. EofLast' /\ Faithful'
  <2>1. CASE \E W \in SUBSET Pages : Writes(W)
    BY <1>1, <1>2, <1>3, <1>5, <1>9, <1>10, <2>1, WriteStep
  <2>2. CASE UNCHANGED <<mem, dirty>>
    BY <1>1, <1>2, <1>3, <1>5, <1>9, <1>10, <2>2, SameStep
  <2>3. (\E p \in Pages : Writes({p})) => \E W \in SUBSET Pages : Writes(W)
    <3> SUFFICES ASSUME NEW p \in Pages, Writes({p}) PROVE \E W \in SUBSET Pages : Writes(W)
      OBVIOUS
    <3>1. {p} \in SUBSET Pages
      OBVIOUS
    <3> QED  BY <3>1
  <2> QED  BY <2>1, <2>2, <2>3 DEF IterateEnds, GuestWrite, guest
<1> QED  BY <1>6, <1>7, <1>8, <1>11 DEF Stream

\* The file is closed with nothing left in it, or with an error.
LEMMA DoneStream == Base /\ Stream /\ CloseDone => Stream'
<1> SUFFICES ASSUME Base, Stream, CloseDone PROVE Stream'
  OBVIOUS
<1>1. FileType /\ PeerType /\ ThreadType /\ MigType
  BY TypeParts DEF Base
<1>2. EofLast /\ Faithful /\ Held /\ InOrder /\ Ending /\ TakenOver
  BY DEF Stream
<1>3. /\ pc = "close" /\ pc' = "idle" /\ call = "none" /\ arg = <<>> /\ qf.buf = <<>>
      /\ UNCHANGED <<mem, dirty, dst, vm, posix, qf, arg, call>>
  <2>1. pc = "close" /\ pc' = "idle" /\ call = "none"
    BY DEF CloseDone, At
  <2>2. UNCHANGED <<mem, dirty, dst, vm, posix, qf, arg, call>>
    BY DEF CloseDone, guest, run
  <2> QED  BY <1>2, <2>1, <2>2 DEF Held
<1>4. ~bf'.live /\ ~bf'.frozen /\ bf'.buf = <<>>
  BY DEF CloseDone, NoFile
<1>5. wire'.q = wire.q /\ wire'.down = wire.down
  BY <1>1 DEF CloseDone, CloseSocket, PeerType
<1>6. mig'.file = "null" /\ mig'.state = IF why = "ready" THEN verdict ELSE mig.state
  BY <1>1 DEF CloseDone, MigType
<1>7. wire.q \in Seq(Unit) /\ bf.buf \in Seq(Unit)
  BY <1>1, PipeType
<1>8. Pipe' = wire.q
  <2>1. Pipe' = wire.q \o (<<>> \o (<<>> \o <<>>))
    BY <1>3, <1>4, <1>5 DEF Pipe
  <2>2. <<>> \o <<>> = <<>> /\ wire.q \o <<>> = wire.q
    BY <1>7, ConcatEmptySeq, FreshType
  <2> QED  BY <2>1, <2>2
<1>9. Pipe = wire.q \o bf.buf
  <2>1. Pipe = wire.q \o (bf.buf \o (<<>> \o <<>>))
    BY <1>3 DEF Pipe
  <2>2. <<>> \o <<>> = <<>> /\ bf.buf \o <<>> = bf.buf
    BY <1>7, ConcatEmptySeq, FreshType
  <2> QED  BY <2>1, <2>2
<1>10. EofLast' /\ Faithful' /\ (Has(Pipe', EOF) => Has(Pipe, EOF))
  <2>1. PICK s \in Seq(Unit) : s = wire.q
    BY <1>7
  <2>2. PICK t \in Seq(Unit) : t = bf.buf
    BY <1>7
  <2>3. ~Whole' /\ Pipe = s \o t /\ Pipe' = s
    BY <1>4, <1>8, <1>9, <2>1, <2>2 DEF Whole
  <2>4. UNCHANGED <<mem, dirty, dst>> /\ wire'.down = wire.down
    BY <1>3, <1>5
  <2> QED  BY <1>2, <2>3, <2>4, DropStep
<1>11. Held'
  BY <1>2, <1>3, <1>4, <1>5, <1>6 DEF Held, Working
<1>12. InOrder'
  BY <1>3 DEF InOrder, Closes
<1>13. Ending'
  BY <1>2, <1>3, <1>6, <1>10 DEF Ending, Closes
<1>14. TakenOver'
  BY <1>2, <1>3, <1>4 DEF TakenOver
<1> QED  BY <1>10, <1>11, <1>12, <1>13, <1>14 DEF Stream

\* A file without an error left, at the start of a migration and after an error.
LEMMA FreshStream ==
  Base /\ Stream /\ (tcp_wait_for_connect \/ buffered_rate_tick
                       \/ \E sync \in BOOLEAN : do_migrate(sync)) => Stream'
<1> SUFFICES ASSUME Base, Stream,
                    \/ tcp_wait_for_connect \/ buffered_rate_tick
                    \/ \E sync \in BOOLEAN : do_migrate(sync)
             PROVE  Stream'
  OBVIOUS
<1>1. FileType /\ PeerType /\ ThreadType /\ MigType
  BY TypeParts DEF Base
<1>2. EofLast /\ Faithful /\ Held /\ InOrder
  BY DEF Stream
<1>3. pc = "idle" /\ call = "none" /\ arg = <<>> /\ mig.state # "completed"
  <2>1. pc = "idle"
    BY DEF tcp_wait_for_connect, buffered_rate_tick, do_migrate, Idle
  <2>2. call = "none" /\ mig.state # "completed"
    BY <2>1 DEF tcp_wait_for_connect, buffered_rate_tick, do_migrate, Base, IInv, Called, Over
  <2> QED  BY <1>2, <2>1, <2>2 DEF Held
<1>4. ~Has(Pipe, EOF) /\ dst.status # "running"
  BY <1>3, Early
<1>5. wire.q \in Seq(Unit) /\ <<>> \in Seq(Unit) /\ qf.buf \in Seq(Unit) /\ bf.buf \in Seq(Unit)
      /\ ~Has(wire.q, EOF) /\ ~Has(qf.buf, EOF)
  <2>1. wire.q \in Seq(Unit) /\ bf.buf \in Seq(Unit) /\ arg \in Seq(Unit) /\ qf.buf \in Seq(Unit)
    BY <1>1, PipeType
  <2> DEFINE x == arg \o qf.buf
             y == bf.buf \o x
  <2>2. x \in Seq(Unit) /\ y \in Seq(Unit) /\ Pipe = wire.q \o y
    BY <1>1, PipeType DEF Pipe
  <2> HIDE DEF x, y
  <2>3. ~Has(wire.q, EOF) /\ ~Has(y, EOF)
    BY <1>4, <2>1, <2>2, HasConcat
  <2>4. ~Has(x, EOF)
    BY <2>1, <2>2, <2>3, HasConcat DEF y
  <2>5. ~Has(qf.buf, EOF)
    BY <2>1, <2>4, HasConcat DEF x
  <2> QED  BY <2>1, <2>3, <2>5, FreshType
<1>6. ASSUME wire'.q \in {wire.q, <<>>}, bf'.buf = <<>>, arg' = <<>>,
             qf'.buf \in {qf.buf, <<>>}
      PROVE  ~Has(Pipe', EOF)
  <2>1. ~Has(<<>>, EOF)
    BY DEF Has
  <2> DEFINE w == wire'.q
             q == qf'.buf
  <2>2. w \in Seq(Unit) /\ q \in Seq(Unit) /\ ~Has(w, EOF) /\ ~Has(q, EOF)
    BY <1>5, <1>6, <2>1
  <2>3. Pipe' = w \o (<<>> \o (<<>> \o q))
    BY <1>6 DEF Pipe
  <2> HIDE DEF w, q
  <2>4. <<>> \o q = q
    BY <2>2, ConcatEmptySeq
  <2> QED  BY <2>2, <2>3, <2>4, HasConcat
<1>7. CASE buffered_rate_tick /\ ~bf.err
  <2>1. /\ bf' = [bf EXCEPT !.xfer = 0] /\ call' = "flush" /\ pc' = "ticked" /\ bf.live
        /\ UNCHANGED <<mem, dirty, dst, posix, wire, qf, arg, mig>>
    BY <1>7 DEF buffered_rate_tick, guest
  <2>2. /\ bf'.live = bf.live /\ bf'.err = bf.err /\ bf'.buf = bf.buf
        /\ bf'.frozen = bf.frozen
    BY <1>1, <2>1 DEF FileType
  <2>3. Pipe' = Pipe
    BY <2>1, <2>2 DEF Pipe
  <2>4. Held'
    BY <1>2, <1>3, <1>7, <2>1, <2>2 DEF Held, Working
  <2>5. InOrder'
    BY <2>1 DEF InOrder, Closes
  <2>6. Whole' => Whole
    BY <1>3, <2>1, <2>2 DEF Whole, Closes
  <2>7. EofLast' /\ Faithful'
    <3>1. UNCHANGED <<mem, dirty, dst>> /\ wire'.down = wire.down
      BY <2>1
    <3> QED  BY <1>1, <1>2, <2>3, <2>6, <3>1, SameStep
  <2>8. Ending' /\ TakenOver'
    BY <1>4, <2>1, <2>3 DEF Ending, TakenOver
  <2> QED  BY <2>4, <2>5, <2>7, <2>8 DEF Stream
<1>8. CASE buffered_rate_tick /\ bf.err
  <2>1. /\ bf' = NoFile /\ mig' = [mig EXCEPT !.handler = "none", !.file = "stale"]
        /\ CloseSocket /\ UNCHANGED <<mem, dirty, dst, posix, qf, arg, pc, call>>
    BY <1>8 DEF buffered_rate_tick, guest
  <2>2. ~bf'.live /\ ~bf'.frozen /\ bf'.buf = <<>>
    BY <2>1 DEF NoFile
  <2>3. mig'.file = "stale" /\ wire'.q = wire.q /\ wire'.down = wire.down
    BY <1>1, <2>1 DEF CloseSocket, MigType, PeerType
  <2>4. ~Has(Pipe', EOF)
    BY <1>3, <1>6, <2>1, <2>2, <2>3
  <2>5. EofLast' /\ Faithful'
    BY <2>2, <2>4, LostStep DEF Whole
  <2>6. Held'
    BY <1>2, <1>3, <2>1, <2>2, <2>3 DEF Held, Working
  <2>7. InOrder'
    BY <1>3, <2>1 DEF InOrder, Closes
  <2>8. Ending' /\ TakenOver'
    BY <1>4, <2>1, <2>4 DEF Ending, TakenOver
  <2> QED  BY <2>5, <2>6, <2>7, <2>8 DEF Stream
<1>9. CASE tcp_wait_for_connect
  <2>1. CASE /\ mig' = [mig EXCEPT !.handler = "none", !.file = "open"]
             /\ qf' = [buf |-> <<>>, err |-> FALSE]
             /\ bf' = [NoFile EXCEPT !.live = TRUE, !.limit = mig.limit]
             /\ dirty' = Pages /\ pc' = "begin" /\ UNCHANGED wire
    <3>1. bf'.live /\ ~bf'.err /\ ~bf'.frozen /\ bf'.buf = <<>> /\ qf'.buf = <<>>
      BY <2>1 DEF NoFile
    <3>2. UNCHANGED <<dst, posix, call, arg>>
      BY <1>9 DEF tcp_wait_for_connect
    <3>3. ~Has(Pipe', EOF)
      BY <1>3, <1>6, <2>1, <3>1, <3>2
    <3>4. EofLast' /\ Faithful'
      BY <2>1, <3>3 DEF EofLast, LastOnly, Has, Faithful
    <3>5. Held'
      BY <1>2, <1>3, <2>1, <3>1, <3>2 DEF Held, Working
    <3>6. InOrder'
      BY <1>3, <2>1, <3>1, <3>2 DEF InOrder, Closes
    <3>7. Ending' /\ TakenOver'
      BY <1>4, <3>2, <3>3 DEF Ending, TakenOver
    <3> QED  BY <3>4, <3>5, <3>6, <3>7 DEF Stream
  <2>2. CASE /\ mig' = [mig EXCEPT !.handler = "none", !.state = "error"] /\ CloseSocket
             /\ UNCHANGED <<qf, bf, dirty, pc>>
    <3>1. mig'.file = mig.file /\ wire'.q = wire.q /\ wire'.down = wire.down
      BY <1>1, <2>2 DEF CloseSocket, MigType, PeerType
    <3>2. UNCHANGED <<mem, dst, posix, call, arg, why>>
      BY <1>9 DEF tcp_wait_for_connect
    <3>3. Pipe' = Pipe
      BY <2>2, <3>1, <3>2 DEF Pipe
    <3>4. Whole' => Whole
      BY <2>2, <3>2 DEF Whole
    <3>5. EofLast' /\ Faithful'
      <4>1. UNCHANGED <<mem, dirty, dst>>
        BY <2>2, <3>2
      <4> QED  BY <1>1, <1>2, <3>1, <3>3, <3>4, <4>1, SameStep
    <3>6. Held'
      BY <1>2, <1>3, <2>2, <3>1, <3>2 DEF Held, Working
    <3>7. InOrder'
      BY <1>3, <2>2, <3>2 DEF InOrder, Closes
    <3>8. Ending' /\ TakenOver'
      BY <1>4, <3>2, <3>3 DEF Ending, TakenOver
    <3> QED  BY <3>5, <3>6, <3>7, <3>8 DEF Stream
  <2> QED  BY <1>9, <2>1, <2>2 DEF tcp_wait_for_connect, migrate_fd_connect, file
<1>10. ASSUME NEW sync \in BOOLEAN, do_migrate(sync) PROVE Stream'
  <2>1. /\ qf' = [buf |-> <<>>, err |-> FALSE] /\ wire' = Connection /\ dst' = NewPeer
        /\ UNCHANGED <<mem, posix, call, arg>>
    BY <1>10 DEF do_migrate, migrate_fd_connect
  <2>2. /\ qf'.buf = <<>> /\ wire'.q = <<>>
        /\ dst'.status # "running" /\ ~wire'.down
    BY <2>1 DEF Connection, NewPeer
  <2>3. CASE bf' = NoFile /\ mig'.file = "null" /\ UNCHANGED <<dirty, pc>>
    <3>1. ~bf'.live /\ ~bf'.frozen /\ bf'.buf = <<>>
      BY <2>3 DEF NoFile
    <3>2. ~Has(Pipe', EOF)
      BY <1>3, <1>6, <2>1, <2>2, <3>1
    <3>3. EofLast' /\ Faithful'
      BY <3>1, <3>2, LostStep DEF Whole
    <3>4. Held'
      BY <1>2, <1>3, <2>1, <2>2, <2>3, <3>1 DEF Held, Working
    <3>5. InOrder'
      BY <1>3, <2>1, <2>3 DEF InOrder, Closes
    <3>6. Ending' /\ TakenOver'
      BY <2>2, <3>2 DEF Ending, TakenOver
    <3> QED  BY <3>3, <3>4, <3>5, <3>6 DEF Stream
  <2>4. CASE /\ mig'.file = "open" /\ dirty' = Pages /\ pc' = "begin"
             /\ bf' = [NoFile EXCEPT !.live = TRUE, !.limit = throttle]
    <3>1. bf'.live /\ ~bf'.err /\ ~bf'.frozen /\ bf'.buf = <<>>
      BY <2>4 DEF NoFile
    <3>2. ~Has(Pipe', EOF)
      BY <1>3, <1>6, <2>1, <2>2, <3>1
    <3>3. EofLast' /\ Faithful'
      BY <2>4, <3>2 DEF EofLast, LastOnly, Has, Faithful
    <3>4. Held'
      BY <1>2, <1>3, <2>1, <2>2, <2>4, <3>1 DEF Held, Working
    <3>5. InOrder'
      BY <1>3, <2>1, <2>2, <2>4, <3>1 DEF InOrder, Closes
    <3>6. Ending' /\ TakenOver'
      BY <2>2, <3>2 DEF Ending, TakenOver
    <3> QED  BY <3>3, <3>4, <3>5, <3>6 DEF Stream
  <2> QED  BY <1>10, <2>3, <2>4 DEF do_migrate, migrate_fd_connect
<1> QED  BY <1>7, <1>8, <1>9, <1>10

\* The other handlers and commands leave the stream alone.
LEMMA HandlerStream ==
  Base /\ Stream /\ (migrate_fd_put_notify \/ OrphanTick \/ do_migrate_cancel \/ StopCont
                       \/ \E r \in Rates : do_migrate_set_speed(r)) => Stream'
<1> SUFFICES ASSUME Base, Stream,
                    \/ migrate_fd_put_notify \/ OrphanTick \/ do_migrate_cancel \/ StopCont
                    \/ \E r \in Rates : do_migrate_set_speed(r)
             PROVE  Stream'
  OBVIOUS
<1>1. FileType /\ PeerType /\ ThreadType /\ MigType
  BY TypeParts DEF Base
<1>2. EofLast /\ Faithful /\ Held /\ InOrder /\ Ending /\ TakenOver
  BY DEF Stream
<1>3. pc = "idle" /\ call = "none" /\ arg = <<>>
  <2>1. pc = "idle"
    BY DEF migrate_fd_put_notify, OrphanTick, do_migrate_cancel, StopCont,
           do_migrate_set_speed, Idle
  <2> QED  BY <1>2, <2>1 DEF Base, IInv, Called, Held
<1>4. UNCHANGED <<mem, dirty, dst, posix, qf, arg>>
  BY DEF migrate_fd_put_notify, OrphanTick, do_migrate_cancel, StopCont,
         do_migrate_set_speed, guest, peer, file, thread
<1>5. wire'.q = wire.q /\ wire'.down = wire.down
  BY <1>1 DEF migrate_fd_put_notify, OrphanTick, do_migrate_cancel, StopCont,
         do_migrate_set_speed, peer, CloseSocket, PeerType
<1>6. /\ bf'.live = bf.live /\ bf'.err = bf.err /\ bf'.buf = bf.buf
      /\ (bf'.frozen => bf.frozen)
  BY <1>1 DEF migrate_fd_put_notify, OrphanTick, do_migrate_cancel, StopCont,
         do_migrate_set_speed, file, FileType
<1>7. mig'.file = mig.file
  BY <1>1 DEF migrate_fd_put_notify, OrphanTick, do_migrate_cancel, StopCont,
         do_migrate_set_speed, MigType
<1>8. \/ pc' = "notified" /\ call' = "flush" /\ ~bf.err /\ mig.file = "open"
           /\ mig.handler = "notify"
      \/ pc' \in {"idle", "undefined"} /\ call' = call /\ vm' = vm /\ mig'.state = mig.state
      \/ pc' = "idle" /\ call' = call /\ mig.state # "completed"
      \/ pc' = "fclose" /\ why' = "cancel" /\ call' = call /\ mig.file = "open"
           /\ mig.state # "completed"
  BY <1>1, <1>3 DEF migrate_fd_put_notify, OrphanTick, do_migrate_cancel, StopCont,
         do_migrate_set_speed, MigType, run, thread
<1>9. Pipe' = Pipe
  BY <1>4, <1>5, <1>6 DEF Pipe
<1>10. Held'
  BY <1>2, <1>3, <1>4, <1>5, <1>6, <1>7, <1>8 DEF Held, Working
<1>11. InOrder'
  BY <1>3, <1>8 DEF InOrder, Closes
<1>12. Whole' => Whole
  BY <1>3, <1>4, <1>6, <1>8 DEF Whole, Closes
<1>13. EofLast' /\ Faithful'
  <2>1. UNCHANGED <<mem, dirty, dst>>
    BY <1>4
  <2> QED  BY <1>1, <1>2, <1>5, <1>9, <1>12, <2>1, SameStep
<1>14. Ending'
  <2>1. CASE mig.state = "completed"
    <3>1. mig.handler = "none"
      BY <2>1 DEF Base, IInv, Over
    <3> QED  BY <1>2, <1>3, <1>4, <1>8, <1>9, <2>1, <3>1 DEF Ending
  <2>2. CASE mig.state # "completed"
    <3>1. ~Has(Pipe, EOF) /\ dst.status # "running"
      BY <1>3, <2>2, Early
    <3> QED  BY <1>4, <1>9, <3>1 DEF Ending
  <2> QED  BY <2>1, <2>2
<1>15. TakenOver'
  BY <1>2, <1>4, <1>6 DEF TakenOver
<1> QED  BY <1>10, <1>11, <1>13, <1>14, <1>15 DEF Stream

\* What is on the wire is lost with the connection.
LEMMA NetFailStream == Base /\ Stream /\ NetFail => Stream'
<1> SUFFICES ASSUME Base, Stream, NetFail PROVE Stream'
  OBVIOUS
<1>1. FileType /\ PeerType
  BY TypeParts DEF Base
<1>2. EofLast /\ Faithful /\ Held /\ InOrder /\ Ending /\ TakenOver
  BY DEF Stream
<1>3. UNCHANGED <<mem, dirty, dst, posix, qf, bf, arg, call, pc, why, verdict, vm, mig>>
  BY DEF NetFail, guest, run, file, thread
<1>4. wire'.q = <<>> /\ wire'.down
  BY <1>1 DEF NetFail, PeerType
<1>5. EofLast' /\ (Has(Pipe', EOF) => Has(Pipe, EOF))
  <2> DEFINE m == bf.buf \o (arg \o qf.buf)
  <2>1. m \in Seq(Unit) /\ wire.q \in Seq(Unit) /\ Pipe = wire.q \o m
    BY <1>1, PipeType DEF Pipe
  <2>2. Pipe' = <<>> \o m
    BY <1>3, <1>4 DEF Pipe
  <2> HIDE DEF m
  <2>3. Pipe' = m
    BY <2>1, <2>2, ConcatEmptySeq
  <2>4. LastOnly(m)
    BY <1>2, <2>1, LastConcat DEF EofLast
  <2>5. Has(m, EOF) => Has(Pipe, EOF)
    BY <2>1, HasConcat
  <2> QED  BY <2>3, <2>4, <2>5 DEF EofLast
<1>6. Faithful'
  BY <1>4 DEF Faithful
<1>7. Held'
  BY <1>2, <1>3, <1>4 DEF Held
<1>8. InOrder'
  BY <1>2, <1>3, <1>4 DEF InOrder
<1>9. Ending'
  BY <1>2, <1>3, <1>5 DEF Ending
<1>10. TakenOver'
  BY <1>2, <1>3 DEF TakenOver
<1> QED  BY <1>5, <1>6, <1>7, <1>8, <1>9, <1>10 DEF Stream

\* The destination loads a page, or takes the guest over with all pages loaded.
LEMMA ReceiveStream == Base /\ Stream /\ Receive => Stream'
<1> SUFFICES ASSUME Base, Stream, Receive PROVE Stream'
  OBVIOUS
<1>1. FileType /\ PeerType /\ GuestType
  BY TypeParts DEF Base
<1>2. EofLast /\ Faithful /\ Held /\ InOrder /\ Ending /\ TakenOver
  BY DEF Stream
<1>3. /\ UNCHANGED <<mem, dirty, posix, qf, bf, arg, call, pc, why, verdict, vm, mig>>
      /\ dst.status = "loading"
  BY DEF Receive, guest, run, file, thread
<1>4. InOrder' \/ wire'.down # wire.down
  BY <1>2, <1>3 DEF InOrder
<1>5. Whole' <=> Whole
  BY <1>3 DEF Whole
<1>6. CASE wire.q = <<>>
  <2>1. wire' = wire /\ dst' = [dst EXCEPT !.status = "exited"]
    BY <1>6 DEF Receive
  <2>2. dst'.ram = dst.ram /\ dst'.status = "exited"
    BY <1>1, <2>1 DEF PeerType
  <2>3. Pipe' = Pipe
    BY <1>3, <2>1 DEF Pipe
  <2>4. EofLast' /\ Faithful'
    BY <1>2, <1>3, <1>5, <2>1, <2>2, <2>3 DEF EofLast, Faithful
  <2>5. Held'
    BY <1>2, <1>3, <2>1 DEF Held
  <2>6. Ending' /\ TakenOver'
    BY <1>2, <1>3, <2>2, <2>3 DEF Ending, TakenOver
  <2> QED  BY <1>4, <2>1, <2>4, <2>5, <2>6 DEF Stream
<1>7. CASE wire.q # <<>>
  <2> DEFINE m == bf.buf \o (arg \o qf.buf)
             h == Head(wire.q)
             t == Tail(wire.q)
  <2>1. /\ m \in Seq(Unit) /\ wire.q \in Seq(Unit) /\ Pipe = wire.q \o m /\ Pipe \in Seq(Unit)
    BY <1>1, PipeType DEF Pipe
  <2>2. /\ wire' = [wire EXCEPT !.q = t]
        /\ dst' = IF h = EOF THEN [dst EXCEPT !.status = "running"]
                             ELSE [dst EXCEPT !.ram[h[1]] = h[2]]
    BY <1>7 DEF Receive
  <2>3. wire'.q = t /\ wire'.down = wire.down /\ ~wire.down
    BY <1>1, <1>2, <1>7, <2>2 DEF PeerType, Held
  <2>4. Pipe # <<>> /\ Head(Pipe) = h /\ Tail(Pipe) = t \o m
    BY <1>7, <2>1, TailConcat
  <2>5. Pipe' = t \o m
    BY <1>3, <2>3 DEF Pipe
  <2>6. /\ Len(Pipe) \in Nat \ {0} /\ Pipe[1] = h /\ h \in Unit
        /\ Pipe' \in Seq(Unit) /\ Len(Pipe') = Len(Pipe) - 1
        /\ \A i \in 1..Len(Pipe') : Pipe'[i] = Pipe[i + 1]
    <3>1. Pipe' = Tail(Pipe)
      BY <2>4, <2>5
    <3> HIDE DEF h, t, m, Pipe
    <3>2. Len(Pipe) \in Nat \ {0}
      BY <2>1, <2>4, EmptySeq
    <3>3. /\ Head(Pipe) \in Unit /\ Tail(Pipe) \in Seq(Unit) /\ Len(Tail(Pipe)) = Len(Pipe) - 1
          /\ \A i \in 1..Len(Tail(Pipe)) : Tail(Pipe)[i] = Pipe[i + 1]
      BY <2>1, <2>4, HeadTailProperties
    <3>4. Head(Pipe) = Pipe[1]
      BY <2>1, <3>2
    <3> QED  BY <2>4, <3>1, <3>2, <3>3, <3>4
  <2>7. Pipe' = Tail(Pipe)
    BY <2>4, <2>5
  <2>8. dst'.status = (IF h = EOF THEN "running" ELSE dst.status)
        /\ dst'.ram = (IF h = EOF THEN dst.ram ELSE [dst.ram EXCEPT ![h[1]] = h[2]])
    BY <1>1, <2>2 DEF PeerType
  <2>9. InOrder'
    BY <1>4, <2>3
  <2>10. Held'
    BY <1>2, <1>3, <2>3 DEF Held
  <2> HIDE DEF h, t, m, Pipe
  <2>11. ASSUME NEW i \in 1..Len(Pipe'), Pipe'[i] = EOF
         PROVE  i = Len(Pipe') /\ Has(Pipe, EOF)
    <3> DEFINE k == i + 1
    <3>1. k \in 1..Len(Pipe) /\ k = i + 1
      BY <2>6
    <3> HIDE DEF k
    <3>2. Pipe[k] = EOF
      BY <2>6, <2>11, <3>1
    <3>3. k = Len(Pipe)
      BY <1>2, <3>1, <3>2 DEF EofLast, LastOnly
    <3> QED  BY <2>6, <3>1, <3>2, <3>3 DEF Has
  <2>12. EofLast' /\ (Has(Pipe', EOF) => Has(Pipe, EOF))
    BY <2>11 DEF EofLast, LastOnly, Has
  <2>13. Faithful'
    <3> SUFFICES ASSUME Has(Pipe', EOF) \/ Whole', NEW p \in Pages \ dirty
                 PROVE  Loads(Pipe', dst'.ram, p, mem[p])
      BY <1>3 DEF Faithful
    <3>1. Loads(Pipe, dst.ram, p, mem[p])
      BY <1>2, <1>5, <2>3, <2>12 DEF Faithful
    <3>2. mem[p] \in 0..MaxWrites /\ dst.ram \in [Pages -> Int]
      BY <1>1 DEF GuestType, PeerType
    <3>3. dst'.ram = IF Head(Pipe) = EOF THEN dst.ram
                     ELSE [dst.ram EXCEPT ![Head(Pipe)[1]] = Head(Pipe)[2]]
      BY <2>4, <2>8
    <3>4. Loads(Tail(Pipe), dst'.ram, p, mem[p])
      BY <2>1, <2>4, <3>1, <3>2, <3>3, LoadsTail
    <3> QED  BY <2>7, <3>4
  <2>14. h = EOF => Has(Pipe, EOF) /\ Len(Pipe) = 1
    <3> SUFFICES ASSUME h = EOF PROVE Has(Pipe, EOF) /\ Len(Pipe) = 1
      OBVIOUS
    <3>1. 1 \in 1..Len(Pipe) /\ Pipe[1] = EOF
      BY <2>6
    <3>2. 1 = Len(Pipe)
      BY <1>2, <3>1 DEF EofLast, LastOnly
    <3> QED  BY <3>1, <3>2 DEF Has
  <2>15. Ending'
    BY <1>2, <1>3, <2>8, <2>12, <2>14 DEF Ending
  <2>16. TakenOver'
    <3> SUFFICES ASSUME h = EOF
                 PROVE  dst.ram = mem /\ bf.buf = <<>> /\ arg = <<>> /\ qf.buf = <<>>
      BY <1>3, <2>8 DEF TakenOver
    <3>1. Has(Pipe, EOF) /\ Len(Pipe) = 1 /\ dirty = {}
      BY <1>2, <2>14 DEF Ending
    <3>2. ASSUME NEW p \in Pages PROVE dst.ram[p] = mem[p]
      <4>1. Loads(Pipe, dst.ram, p, mem[p])
        BY <1>2, <2>3, <3>1 DEF Faithful
      <4>2. mem[p] \in 0..MaxWrites
        BY <1>1 DEF GuestType
      <4>3. Pipe[1] # <<p, mem[p]>>
        BY <2>6, <4>2, MigrationAssumption DEF Pages
      <4>4. \A i \in 1..Len(Pipe) : i = 1
        BY <3>1
      <4> QED  BY <4>1, <4>3, <4>4 DEF Loads
    <3>3. dst.ram = mem
      <4>1. dst.ram \in [Pages -> -1..MaxWrites] /\ mem \in [Pages -> 0..MaxWrites]
        BY <1>1 DEF PeerType, GuestType
      <4> QED  BY <3>2, <4>1
    <3>4. Pipe' = <<>>
      <4>1. Len(Pipe') = 0
        BY <2>6, <3>1
      <4> QED  BY <2>6, <4>1, EmptySeq
    <3>5. m = <<>>
      <4>1. t \in Seq(Unit)
        BY <1>7, <2>1, HeadTailProperties DEF t
      <4>2. t \o m = <<>> /\ m \in Seq(Unit)
        BY <2>1, <2>5, <3>4
      <4> QED  BY <4>1, <4>2, ConcatEqualIffEmpty
    <3>6. bf.buf \in Seq(Unit) /\ arg \in Seq(Unit) /\ qf.buf \in Seq(Unit)
          /\ arg \o qf.buf \in Seq(Unit)
      BY <1>1, PipeType
    <3>7. bf.buf = <<>> /\ arg \o qf.buf = <<>>
      BY <3>5, <3>6, ConcatEqualIffEmpty DEF m
    <3>8. arg = <<>> /\ qf.buf = <<>>
      BY <3>6, <3>7, ConcatEqualIffEmpty
    <3> QED  BY <3>3, <3>7, <3>8
  <2> QED  BY <2>9, <2>10, <2>12, <2>13, <2>15, <2>16 DEF Stream
<1> QED  BY <1>6, <1>7

\* Nothing changes.
LEMMA StutterStream == Stream /\ (Undefined \/ UNCHANGED vars) => Stream'
<1> SUFFICES ASSUME Stream, Undefined \/ UNCHANGED vars PROVE Stream'
  OBVIOUS
<1>1. UNCHANGED <<mem, dirty, vm, mig, qf, bf, pc, call, arg, why, verdict, wire, dst, posix>>
  BY DEF Undefined, vars, guest, run, file, thread, peer
<1>2. Pipe' = Pipe /\ (Whole' <=> Whole)
  BY <1>1 DEF Pipe, Whole
<1>3. Held' /\ InOrder'
  BY <1>1 DEF Stream, Held, InOrder
<1>4. Ending' /\ TakenOver'
  BY <1>1, <1>2 DEF Stream, Ending, TakenOver
<1>5. EofLast' /\ Faithful'
  BY <1>1, <1>2 DEF Stream, EofLast, Faithful
<1> QED  BY <1>3, <1>4, <1>5 DEF Stream

\* Nothing is on its way in a fresh process.
LEMMA InitStream == Init => Stream
<1> SUFFICES ASSUME Init PROVE Stream
  OBVIOUS
<1>1. /\ bf.buf = <<>> /\ ~bf.live /\ ~bf.frozen /\ qf.buf = <<>> /\ wire.q = <<>>
      /\ ~wire.down /\ dst.status # "running" /\ arg = <<>> /\ call = "none" /\ pc = "idle"
      /\ mig.file = "null"
  BY DEF Init, NoFile, Connection, NewPeer
<1>2. Len(Pipe) = 0
  <2>1. Pipe = <<>> \o (<<>> \o (<<>> \o <<>>))
    BY <1>1 DEF Pipe
  <2>2. <<>> \o <<>> = <<>> /\ Len(<<>>) = 0
    BY FreshType, ConcatEmptySeq
  <2> QED  BY <2>1, <2>2
<1>3. ~Has(Pipe, EOF) /\ EofLast
  BY <1>2 DEF Has, EofLast, LastOnly
<1>4. Held /\ InOrder
  BY <1>1 DEF Held, InOrder, Working, Closes
<1> QED  BY <1>1, <1>3, <1>4 DEF Stream, Ending, Faithful, TakenOver, Whole

\* The stream stays whole, in order and faithful to the guest's memory.
THEOREM StreamInvariance == Spec => []Stream
<1>1. Base /\ Stream /\ [Next]_vars => Stream'
  BY FlushStream, PutStream, FileStream, FcloseStream, StageStream, WriteStream, DoneStream,
     FreshStream, HandlerStream, NetFailStream, ReceiveStream, StutterStream
     DEF Next, MainStep, Handler, Command
<1> QED  BY <1>1, BaseInvariance, InitStream, PTL DEF Spec

\* The guest never runs on both sides, and the destination starts it only with its memory
\* as the source left it, whatever the network, the rates and the operator do
\* (ram_save_live, buffered_put_buffer, migrate_fd_put_ready).
THEOREM NeverSplit == Spec => []NoSplitBrain
<1>1. Stream => NoSplitBrain
  BY DEF Stream, Ending, TakenOver, NoSplitBrain
<1> QED  BY <1>1, StreamInvariance, PTL

=============================================================================

------------------------ MODULE AsyncContextProofs ------------------------
(***************************************************************************)
(* For any bottom halves, any number of operations and any nesting of      *)
(* contexts, the lists of async.c stay sound: nothing scheduled is lost,   *)
(* a synchronous request sees no callback begun before it, and a flush     *)
(* leaves no request behind.  No completion is taken to stop the VM        *)
(* (StopOnError): with it two polls can walk one list, and the inner one   *)
(* frees what the outer one goes on to (WalkSafe is then violated), after  *)
(* which nothing is defined.                                               *)
(*                                                                         *)
(* Without it each list has at most one walker, because the calls in       *)
(* progress take turns with the contexts (Shape); a suspended walk is      *)
(* therefore only disturbed by bottom halves put in front of it (Walks).   *)
(* That async_context_pop may forget a context is known from the poll that *)
(* returned FALSE just before (DrainOK), which in turn is known from what  *)
(* a walk that ran nothing has passed (the last part of Walks).            *)
(***************************************************************************)
EXTENDS AsyncContext, SequenceTheorems, FiniteSetTheorems, TLAPS

----------------------------------------------------------------------------
(* The calls in progress.                                                  *)

PollFrames == [op : {"poll"}, next : BHs \cup {NULL}, ret : BOOLEAN,
               run : BHs \cup {NULL}, base : Nat]
SyncFrames == [op : {"sync"}, req : Requests, base : Nat, pc : {"wait", "pop", "popped"}]
FlushFrames == [op : {"flush"}, pc : {"wait", "poll", "test"}, base : Nat]
Frames == PollFrames \cup SyncFrames \cup FlushFrames

\* Call f was made from call g.
Under(f, g) ==
  \/ f.op = "poll" /\ g.op \in {"sync", "flush"} /\ f.base = g.base
  \/ f.op = "sync" /\ g.op = "poll" /\ g.run # NULL /\ f.base = g.base + 1

\* Call f was made by the main loop.
Outermost(f) == f.base = IF f.op = "sync" THEN 2 ELSE 1

\* The calls that may be in progress with n contexts.  Each works in the context of
\* its caller but a synchronous request, which has entered a new one; so no two polls
\* walk the same list.
Shape(st, n) ==
  /\ st \in Seq(Frames)
  /\ st = << >> => n = 1
  /\ st # << >> => st[1].base = n /\ Outermost(st[Len(st)])
  /\ \A i \in 1 .. Len(st) - 1 : Under(st[i], st[i + 1])
  /\ \A i, j \in 1 .. Len(st) : i < j =>
       /\ st[i].base >= st[j].base
       /\ st[j].op = "poll" => st[i].base > st[j].base

----------------------------------------------------------------------------
(* The lists.                                                              *)

\* No bottom half is listed twice.
Listed(c) ==
  /\ \A i, j \in DOMAIN c : i # j => ToSet(c[i]) \cap ToSet(c[j]) = {}
  /\ \A i \in DOMAIN c : IsInjective(c[i])

ListsOK ==
  /\ Listed(contexts)
  /\ \A b \in scheduled \cup deleted : Allocated(b)
  /\ scheduled \cap deleted = {}
  /\ \A i \in DOMAIN contexts : i > 1 => ToSet(contexts[i]) \cap Devices = {}

\* The bottom halves that a poll of the n-th context does not leave behind unnoticed.
Owed(n) == IF n = 1 THEN Requests ELSE BHs

\* The poll f walks list, with the bottom halves in sch scheduled.
Walks(f, list, sch) ==
  /\ f.next # NULL => f.next \in ToSet(list)
  /\ f.run # NULL => f.run \in ToSet(list) /\ (f.run \notin Devices => f.run \notin sch)
  /\ ~f.ret => /\ f.run # NULL => f.run \in IdleDevices
               /\ \A j \in 1 .. Len(list) :
                    list[j] \in sch \cap Owed(f.base) => \E k \in 1 .. j : list[k] = f.next

\* Every poll walks the list of its context.
WalkOn(st, c, sch) ==
  \A i \in 1 .. Len(st) : st[i].op = "poll" => Walks(st[i], c[st[i].base], sch)

WalkOK == WalkOn(stack, contexts, scheduled)

\* A poll that returned FALSE to the innermost call has left nothing behind.
DrainOK ==
  stack # << >> /\ stack[1].op # "poll" /\ stack[1].pc \in {"popped", "test"} /\ ~ret =>
    scheduled \cap Owed(Len(contexts)) \cap ToSet(current) = {}

Typed ==
  /\ contexts \in Seq(Seq(BHs)) /\ Len(contexts) \in 1 .. MaxContexts
  /\ scheduled \subseteq BHs /\ idle \subseteq IdleDevices /\ deleted \subseteq BHs
  /\ done \subseteq Requests /\ ret \in BOOLEAN /\ ops \in 0 .. MaxOps

\* The inductive invariant.
IInv == Typed /\ Shape(stack, Len(contexts)) /\ ListsOK /\ WalkOK /\ DrainOK

----------------------------------------------------------------------------
(* Sequences.                                                              *)

\* Induction over the naturals, for a set in place of a predicate.
LEMMA Induction ==
  ASSUME NEW S, 0 \in S, \A n \in Nat : n \in S => n + 1 \in S
  PROVE  \A n \in Nat : n \in S
<1> SUFFICES ASSUME Nat \ S # {} PROVE FALSE
  OBVIOUS
<1> DEFINE T == Nat \ S
           R == OpToRel(<, Nat)
<1>1. PICK x \in T : \A y \in T : ~(<<y, x>> \in R)
  <2>1. T \subseteq Nat /\ T # {}
    OBVIOUS
  <2>2. IsWellFoundedOn(R, Nat)
    BY NatLessThanWellFounded
  <2> HIDE DEF T, R
  <2> QED  BY <2>1, <2>2, WFMin
<1>2. \A y \in Nat : <<y, x>> \in R <=> y < x
  BY DEF OpToRel
<1> HIDE DEF R
<1>3. \A y \in T : ~ (y < x)
  BY <1>1, <1>2
<1>4. x # 0 /\ x - 1 \in Nat
  OBVIOUS
<1> QED  BY <1>3, <1>4

\* k is the table that Without fills in for the list s.
KeptBy(k, s, gone, m) ==
  k = [n \in 0 .. m |-> IF n = 0 THEN << >>
                        ELSE IF s[n] \in gone THEN k[n - 1] ELSE Append(k[n - 1], s[n])]

\* The recursive definition in Without defines a function.
LEMMA KeptExists ==
  ASSUME NEW s, NEW gone, NEW m \in Nat
  PROVE  \E k : KeptBy(k, s, gone, m)
<1> DEFINE S == {n \in Nat : \E k : KeptBy(k, s, gone, n)}
<1>1. 0 \in S
  <2> DEFINE w == [k \in 0 .. 0 |-> << >>]
  <2>1. KeptBy(w, s, gone, 0)
    BY DEF KeptBy
  <2> QED  BY <2>1
<1>2. ASSUME NEW n \in Nat, n \in S PROVE n + 1 \in S
  <2>1. PICK v : KeptBy(v, s, gone, n)
    BY <1>2
  <2> DEFINE top == IF s[n + 1] \in gone THEN v[n] ELSE Append(v[n], s[n + 1])
             w == [k \in 0 .. n + 1 |-> IF k = n + 1 THEN top ELSE v[k]]
             d == [k \in 0 .. n + 1 |-> IF k = 0 THEN << >>
                     ELSE IF s[k] \in gone THEN w[k - 1] ELSE Append(w[k - 1], s[k])]
  <2>2. ASSUME NEW k \in 0 .. n + 1 PROVE w[k] = d[k]
    <3>1. CASE k = n + 1
      BY <3>1
    <3>2. CASE k # n + 1
      <4>1. k \in 0 .. n /\ w[k] = v[k] /\ (k # 0 => w[k - 1] = v[k - 1])
        BY <3>2
      <4>2. v[k] = IF k = 0 THEN << >>
                   ELSE IF s[k] \in gone THEN v[k - 1] ELSE Append(v[k - 1], s[k])
        BY <2>1, <4>1 DEF KeptBy
      <4> HIDE DEF w
      <4> QED  BY <4>1, <4>2
    <3> QED  BY <3>1, <3>2
  <2>3. d = [k \in 0 .. n + 1 |-> d[k]] /\ w = [k \in 0 .. n + 1 |-> w[k]]
    OBVIOUS
  <2>4. w = d
    <3> HIDE DEF d, w
    <3> QED  BY <2>2, <2>3
  <2>5. KeptBy(w, s, gone, n + 1)
    <3> HIDE DEF w
    <3> QED  BY <2>4 DEF KeptBy
  <2> HIDE DEF w
  <2> QED  BY <2>5
<1> HIDE DEF S
<1>3. m \in S
  BY <1>1, <1>2, Induction
<1> QED  BY <1>3 DEF S

\* What Without computes.
LEMMA WithoutIs ==
  ASSUME NEW A, NEW s \in Seq(A), NEW gone
  PROVE  /\ Without(s, gone) \in Seq(A)
         /\ ToSet(Without(s, gone)) = ToSet(s) \ gone
         /\ IsInjective(s) => IsInjective(Without(s, gone))
<1>0. Len(s) \in Nat /\ DOMAIN s = 1 .. Len(s)
  OBVIOUS
<1>1. PICK k : KeptBy(k, s, gone, Len(s)) /\ Without(s, gone) = k[Len(s)]
  <2> DEFINE k == CHOOSE k : KeptBy(k, s, gone, Len(s))
  <2>1. KeptBy(k, s, gone, Len(s))
    BY <1>0, KeptExists
  <2>2. Without(s, gone) = k[Len(s)]
    BY DEF Without, KeptBy
  <2> HIDE DEF k
  <2> QED  BY <2>1, <2>2
<1>2. /\ k[0] = << >>
      /\ \A n \in 1 .. Len(s) :
           k[n] = IF s[n] \in gone THEN k[n - 1] ELSE Append(k[n - 1], s[n])
  <2> DEFINE g == [n \in 0 .. Len(s) |-> IF n = 0 THEN << >>
                   ELSE IF s[n] \in gone THEN k[n - 1] ELSE Append(k[n - 1], s[n])]
  <2>1. k = g
    BY <1>1 DEF KeptBy
  <2>2. /\ g[0] = << >>
        /\ \A n \in 1 .. Len(s) :
             g[n] = IF s[n] \in gone THEN k[n - 1] ELSE Append(k[n - 1], s[n])
    BY <1>0
  <2> HIDE DEF g
  <2> QED  BY <2>1, <2>2
<1> DEFINE Good(n) ==
      /\ k[n] \in Seq(A)
      /\ \A x : (\E i \in 1 .. Len(k[n]) : k[n][i] = x) <=> x \notin gone /\ \E i \in 1 .. n : s[i] = x
      /\ IsInjective(s) => \A i, j \in 1 .. Len(k[n]) : k[n][i] = k[n][j] => i = j
    S == {n \in Nat : n <= Len(s) => Good(n)}
<1>3. 0 \in S
  <2>1. k[0] \in Seq(A) /\ Len(k[0]) = 0
    BY <1>2
  <2> QED  BY <2>1
<1>4. ASSUME NEW n \in Nat, n \in S PROVE n + 1 \in S
  <2> SUFFICES ASSUME n + 1 <= Len(s) PROVE Good(n + 1)
    <3> HIDE DEF Good
    <3> QED  OBVIOUS
  <2>1. Good(n) /\ n + 1 \in 1 .. Len(s) /\ (n + 1) - 1 = n /\ s[n + 1] \in A
    <3>1. n <= Len(s) /\ n + 1 \in 1 .. Len(s) /\ (n + 1) - 1 = n
      <4> HIDE DEF Good, S
      <4> QED  BY <1>0
    <3>2. s[n + 1] \in A
      <4> HIDE DEF Good, S
      <4> QED  BY <3>1, ElementOfSeq
    <3>3. Good(n)
      <4> HIDE DEF Good
      <4> QED  BY <1>4, <3>1
    <3> HIDE DEF Good, S
    <3> QED  BY <3>1, <3>2, <3>3
  <2> DEFINE t == k[n] u == k[n + 1]
  <2>2. /\ t \in Seq(A) /\ Len(t) \in Nat
        /\ \A x : (\E i \in 1 .. Len(t) : t[i] = x) <=> x \notin gone /\ \E i \in 1 .. n : s[i] = x
        /\ IsInjective(s) => \A i, j \in 1 .. Len(t) : t[i] = t[j] => i = j
    BY <2>1
  <2>3. u = IF s[n + 1] \in gone THEN t ELSE Append(t, s[n + 1])
    <3> HIDE DEF Good
    <3> QED  BY <1>2, <2>1
  <2>4. \A x : (\E i \in 1 .. n + 1 : s[i] = x) <=> (x = s[n + 1] \/ \E i \in 1 .. n : s[i] = x)
    <3> HIDE DEF t, u, Good, S
    <3> QED  OBVIOUS
  <2>5. SUFFICES
        /\ u \in Seq(A)
        /\ \A x : (\E i \in 1 .. Len(u) : u[i] = x) <=> x \notin gone /\ \E i \in 1 .. n + 1 : s[i] = x
        /\ IsInjective(s) => \A i, j \in 1 .. Len(u) : u[i] = u[j] => i = j
    OBVIOUS
  <2>6. CASE s[n + 1] \in gone
    <3>1. u = t
      <4> HIDE DEF t, u, Good, S
      <4> QED  BY <2>3, <2>6
    <3> HIDE DEF t, u, Good, S
    <3> QED  BY <2>2, <2>4, <2>6, <3>1
  <2>7. CASE s[n + 1] \notin gone
    <3> HIDE DEF t, u, Good, S
    <3>1. /\ u \in Seq(A) /\ Len(u) = Len(t) + 1
          /\ u[Len(t) + 1] = s[n + 1] /\ \A i \in 1 .. Len(t) : u[i] = t[i]
      <4>1. u = Append(t, s[n + 1]) /\ s[n + 1] \in A
        BY <2>1, <2>3, <2>7
      <4> QED  BY <2>2, <4>1, AppendProperties
    <3>2. \A x : (\E i \in 1 .. Len(u) : u[i] = x) <=> (x = s[n + 1] \/ \E i \in 1 .. Len(t) : t[i] = x)
      BY <2>2, <3>1
    <3>3. \A x : (\E i \in 1 .. Len(u) : u[i] = x) <=> x \notin gone /\ \E i \in 1 .. n + 1 : s[i] = x
      BY <2>2, <2>4, <2>7, <3>2
    <3>4. ASSUME IsInjective(s), NEW i \in 1 .. Len(u), NEW j \in 1 .. Len(u), u[i] = u[j]
          PROVE  i = j
      <4>1. \A p, q \in 1 .. Len(t) : t[p] = t[q] => p = q
        BY <2>2, <3>4
      <4>2. ~ \E p \in 1 .. n : s[p] = s[n + 1]
        BY <3>4, <1>0, <2>1 DEF IsInjective
      <4>3. ~ \E p \in 1 .. Len(t) : t[p] = s[n + 1]
        BY <2>2, <4>2
      <4> QED  BY <2>2, <3>1, <3>4, <4>1, <4>3
    <3> QED  BY <3>1, <3>3, <3>4
  <2> QED  BY <2>6, <2>7
<1>5. Good(Len(s))
  <2> HIDE DEF Good
  <2>1. Len(s) \in S
    <3> HIDE DEF S
    <3> QED  BY <1>0, <1>3, <1>4, Induction
  <2> QED  BY <2>1, <1>0
<1> DEFINE w == k[Len(s)]
<1>6. /\ w \in Seq(A) /\ DOMAIN w = 1 .. Len(w)
      /\ \A x : (\E i \in 1 .. Len(w) : w[i] = x) <=> x \notin gone /\ \E i \in 1 .. Len(s) : s[i] = x
      /\ IsInjective(s) => \A i, j \in 1 .. Len(w) : w[i] = w[j] => i = j
  BY <1>5
<1>7. Without(s, gone) = w
  BY <1>1
<1> HIDE DEF w, Good
<1>8. ToSet(w) = ToSet(s) \ gone
  BY <1>0, <1>6 DEF ToSet
<1>9. IsInjective(s) => IsInjective(w)
  BY <1>6 DEF IsInjective
<1> QED  BY <1>6, <1>7, <1>8, <1>9
----------------------------------------------------------------------------
(* The stack.                                                              *)

\* A call f is pushed.
LEMMA Pushed ==
  ASSUME NEW st \in Seq(Frames), NEW f \in Frames
  PROVE  /\ <<f>> \o st \in Seq(Frames) /\ Len(<<f>> \o st) = Len(st) + 1 /\ Len(st) \in Nat
         /\ (<<f>> \o st)[1] = f /\ <<f>> \o st # << >>
         /\ \A i \in 1 .. Len(st) : (<<f>> \o st)[i + 1] = st[i]
  OBVIOUS

\* The innermost call is taken off the stack.
LEMMA Taken ==
  ASSUME NEW st \in Seq(Frames), st # << >>
  PROVE  /\ Tail(st) \in Seq(Frames) /\ Len(Tail(st)) = Len(st) - 1 /\ Len(st) \in Nat \ {0}
         /\ \A i \in 1 .. Len(st) - 1 : Tail(st)[i] = st[i + 1]
         /\ Head(st) = st[1] /\ st[1] \in Frames
         /\ (Tail(st) = << >> <=> Len(st) = 1)
<1>1. /\ Tail(st) \in Seq(Frames) /\ Len(Tail(st)) = Len(st) - 1 /\ Len(st) \in Nat \ {0}
      /\ \A i \in 1 .. Len(st) - 1 : Tail(st)[i] = st[i + 1]
      /\ Head(st) = st[1] /\ st[1] \in Frames
  OBVIOUS
<1>2. Tail(st) = << >> <=> Len(Tail(st)) = 0
  BY <1>1, EmptySeq
<1> QED  BY <1>1, <1>2

\* Frames have a base in common.
LEMMA Bases ==
  ASSUME NEW f \in Frames
  PROVE  /\ f.base \in Nat /\ f.op \in {"poll", "sync", "flush"}
         /\ f.op = "poll" => f \in PollFrames
         /\ f.op = "sync" => f \in SyncFrames
         /\ f.op = "flush" => f \in FlushFrames
BY DEF Frames, PollFrames, SyncFrames, FlushFrames

\* The stack keeps its shape when a call is made, ...
LEMMA ShapePush ==
  ASSUME NEW st, NEW n \in Nat, Shape(st, n), NEW f \in Frames,
         st = << >> => Outermost(f), st # << >> => Under(f, st[1])
  PROVE  Shape(<<f>> \o st, f.base)
<1> DEFINE t == <<f>> \o st
<1>1. /\ t \in Seq(Frames) /\ Len(t) = Len(st) + 1 /\ Len(st) \in Nat /\ t[1] = f /\ t # << >>
      /\ \A i \in 1 .. Len(st) : t[i + 1] = st[i]
      /\ st \in Seq(Frames)
  BY Pushed DEF Shape
<1>2. st = << >> <=> Len(st) = 0
  BY <1>1, EmptySeq
<1> HIDE DEF t
<1>3. \A i \in 1 .. Len(st) : st[i].base \in Nat
  BY <1>1, Bases
<1>4. Outermost(t[Len(t)])
  <2>1. CASE st = << >>
    BY <1>1, <1>2, <2>1
  <2>2. CASE st # << >>
    <3>1. t[Len(t)] = st[Len(st)]
      BY <1>1, <1>2, <2>2
    <3> QED  BY <2>2, <3>1 DEF Shape
  <2> QED  BY <2>1, <2>2
<1>5. ASSUME NEW i \in 1 .. Len(t) - 1 PROVE Under(t[i], t[i + 1])
  <2>1. t[i + 1] = st[i] /\ i \in 1 .. Len(st)
    BY <1>1
  <2>2. CASE i = 1
    BY <1>1, <1>2, <2>1, <2>2
  <2>3. CASE i # 1
    <3>1. i - 1 \in 1 .. Len(st) - 1 /\ t[i] = st[i - 1] /\ (i - 1) + 1 = i
      <4>1. i - 1 \in 1 .. Len(st) /\ (i - 1) + 1 = i
        BY <1>1, <2>1, <2>3
      <4> QED  BY <1>1, <2>1, <2>3, <4>1
    <3>2. Under(st[i - 1], st[i])
      BY <3>1 DEF Shape
    <3> QED  BY <2>1, <3>1, <3>2
  <2> QED  BY <2>2, <2>3
<1>6. ASSUME NEW i \in 1 .. Len(t), NEW j \in 1 .. Len(t), i < j
      PROVE  t[i].base >= t[j].base /\ (t[j].op = "poll" => t[i].base > t[j].base)
  <2>1. j - 1 \in 1 .. Len(st) /\ t[j] = st[j - 1] /\ st[j - 1].base \in Nat
    <3>1. j - 1 \in 1 .. Len(st) /\ (j - 1) + 1 = j
      BY <1>1, <1>6
    <3> QED  BY <1>1, <1>3, <3>1
  <2>2. CASE i = 1
    <3>1. Under(f, st[1]) /\ st[1].base = n /\ f.base \in Nat /\ t[i] = f
      BY <1>1, <1>2, <2>1, <2>2, Bases DEF Shape
    <3>2. 1 < j - 1 => /\ st[1].base >= st[j - 1].base
                       /\ st[j - 1].op = "poll" => st[1].base > st[j - 1].base
      <4>1. 1 \in 1 .. Len(st)
        BY <1>1, <2>1
      <4> QED  BY <2>1, <4>1 DEF Shape
    <3>3. CASE 1 < j - 1
      BY <2>1, <3>1, <3>2, <3>3 DEF Under
    <3>4. CASE j - 1 = 1
      BY <2>1, <3>1, <3>4 DEF Under
    <3> QED  BY <2>1, <3>3, <3>4
  <2>3. CASE i # 1
    <3>1. i - 1 \in 1 .. Len(st) /\ t[i] = st[i - 1] /\ i - 1 < j - 1
      <4>1. i - 1 \in 1 .. Len(st) /\ (i - 1) + 1 = i
        BY <1>1, <2>3
      <4> QED  BY <1>1, <1>6, <4>1
    <3> QED  BY <2>1, <3>1 DEF Shape
  <2> QED  BY <2>2, <2>3
<1> QED  BY <1>1, <1>4, <1>5, <1>6 DEF Shape, t

\* ... and when the innermost call returns, out of its context if it is a
\* synchronous request; ...
LEMMA ShapePop ==
  ASSUME NEW st, NEW n \in Nat, Shape(st, n), st # << >>
  PROVE  /\ Shape(Tail(st), IF st[1].op = "sync" THEN n - 1 ELSE n)
         /\ Tail(st) # << >> => Under(st[1], Tail(st)[1])
         /\ Tail(st) = << >> => Outermost(st[1])
<1> DEFINE t == Tail(st)
           m == IF st[1].op = "sync" THEN n - 1 ELSE n
<1>1. /\ t \in Seq(Frames) /\ Len(t) = Len(st) - 1 /\ Len(st) \in Nat \ {0}
      /\ \A i \in 1 .. Len(st) - 1 : t[i] = st[i + 1]
      /\ st[1] \in Frames
      /\ (t = << >> <=> Len(st) = 1)
  BY Taken DEF Shape
<1> HIDE DEF t
<1>2. /\ t # << >> => Under(st[1], t[1])
      /\ t = << >> => Outermost(st[1])
      /\ st[1].base = n /\ n \in Nat
  BY <1>1 DEF Shape
<1>3. t = << >> => m = 1
  BY <1>1, <1>2, Bases DEF Outermost
<1>4. t # << >> => t[1].base = m /\ Outermost(t[Len(t)])
  <2> SUFFICES ASSUME t # << >> PROVE t[1].base = m /\ Outermost(t[Len(t)])
    OBVIOUS
  <2>1. Len(t) \in 1 .. Len(st) - 1 /\ 1 \in 1 .. Len(st) - 1
    BY <1>1
  <2>2. t[Len(t)] = st[Len(st)] /\ t[1] = st[2] /\ st[2].base \in Nat
    BY <1>1, <2>1, Bases DEF Shape
  <2>3. Outermost(t[Len(t)])
    BY <2>2 DEF Shape
  <2>4. t[1].base = m
    BY <1>2, <2>2 DEF Under
  <2> QED  BY <2>3, <2>4
<1>5. ASSUME NEW i \in 1 .. Len(t) - 1 PROVE Under(t[i], t[i + 1])
  <2>1. i + 1 \in 1 .. Len(st) - 1 /\ t[i] = st[i + 1] /\ t[i + 1] = st[(i + 1) + 1]
    BY <1>1
  <2> QED  BY <2>1 DEF Shape
<1>6. ASSUME NEW i \in 1 .. Len(t), NEW j \in 1 .. Len(t), i < j
      PROVE  t[i].base >= t[j].base /\ (t[j].op = "poll" => t[i].base > t[j].base)
  <2>1. /\ i + 1 \in 1 .. Len(st) /\ j + 1 \in 1 .. Len(st) /\ i + 1 < j + 1
        /\ t[i] = st[i + 1] /\ t[j] = st[j + 1]
    BY <1>1, <1>6
  <2> QED  BY <2>1 DEF Shape
<1> QED  BY <1>1, <1>2, <1>3, <1>4, <1>5, <1>6 DEF Shape, t

\* ... and when the innermost call goes on.
LEMMA ShapeReplace ==
  ASSUME NEW st, NEW n \in Nat, Shape(st, n), st # << >>, NEW f \in Frames,
         f.op = st[1].op, f.base = st[1].base
  PROVE  Shape(<<f>> \o Tail(st), n)
<1>1. /\ Shape(Tail(st), IF st[1].op = "sync" THEN n - 1 ELSE n)
      /\ Tail(st) # << >> => Under(st[1], Tail(st)[1])
      /\ Tail(st) = << >> => Outermost(st[1])
  BY ShapePop
<1>2. /\ Tail(st) # << >> => Under(f, Tail(st)[1])
      /\ Tail(st) = << >> => Outermost(f)
  BY <1>1 DEF Under, Outermost
<1>3. f.base = n /\ st[1] \in Frames
  BY Taken DEF Shape
<1>4. (IF st[1].op = "sync" THEN n - 1 ELSE n) \in Nat
  <2>1. st[1].op = "sync" => n >= 1
    <3>1. CASE Tail(st) = << >>
      BY <1>1, <1>3, <3>1 DEF Outermost
    <3>2. CASE Tail(st) # << >>
      <4>1. Tail(st)[1] \in Frames
        BY <3>2, Taken DEF Shape
      <4>2. Tail(st)[1].base \in Nat
        BY <4>1, Bases
      <4> QED  BY <1>1, <1>3, <3>2, <4>2 DEF Under
    <3> QED  BY <3>1, <3>2
  <2> QED  BY <2>1
<1> QED  BY <1>1, <1>2, <1>3, <1>4, ShapePush

\* Every call works in a context; a poll that is not the innermost call works in
\* one of the outer contexts, and is in a callback.
LEMMA Suspended ==
  ASSUME NEW st, NEW n \in Nat, Shape(st, n), NEW i \in 1 .. Len(st)
  PROVE  /\ st[i] \in Frames /\ st[i].base \in 1 .. n
         /\ i > 1 /\ st[i].op = "poll" => st[i].base < n /\ st[i].run # NULL
<1>1. st \in Seq(Frames) /\ st # << >> /\ st[i] \in Frames /\ 1 \in 1 .. Len(st) /\ Len(st) \in 1 .. Len(st)
  BY DEF Shape
<1>2. st[1].base = n /\ st[i].base \in Nat
  BY <1>1, Bases DEF Shape
<1>3. st[i].base <= n /\ (i > 1 /\ st[i].op = "poll" => st[i].base < n)
  <2>1. CASE i = 1
    BY <1>2, <2>1
  <2>2. CASE i # 1
    <3>1. 1 < i
      BY <2>2
    <3>2. st[1].base >= st[i].base /\ (st[i].op = "poll" => st[1].base > st[i].base)
      BY <1>1, <3>1 DEF Shape
    <3> QED  BY <1>2, <3>2
  <2> QED  BY <2>1, <2>2
<1>4. st[i].base >= 1
  <2>1. st[Len(st)].base >= 1
    BY <1>1 DEF Shape, Outermost
  <2>2. CASE i = Len(st)
    BY <2>1, <2>2
  <2>3. CASE i # Len(st)
    <3>1. i < Len(st)
      BY <2>3
    <3>2. st[i].base >= st[Len(st)].base
      BY <1>1, <3>1 DEF Shape
    <3>3. st[Len(st)].base \in Nat
      BY <1>1, Bases
    <3> QED  BY <1>2, <2>1, <3>2, <3>3
  <2> QED  BY <2>2, <2>3
<1>5. i > 1 /\ st[i].op = "poll" => st[i].run # NULL
  <2> SUFFICES ASSUME i > 1, st[i].op = "poll" PROVE st[i].run # NULL
    OBVIOUS
  <2>1. i - 1 \in 1 .. Len(st) - 1 /\ (i - 1) + 1 = i
    BY <1>1
  <2>2. Under(st[i - 1], st[i])
    BY <2>1 DEF Shape
  <2> QED  BY <2>2 DEF Under
<1> QED  BY <1>1, <1>2, <1>3, <1>4, <1>5
----------------------------------------------------------------------------
(* The lists of bottom halves.                                             *)

\* A list with b put first.
LEMMA Prepended ==
  ASSUME NEW list \in Seq(BHs), NEW b \in BHs
  PROVE  /\ <<b>> \o list \in Seq(BHs) /\ Len(<<b>> \o list) = Len(list) + 1 /\ Len(list) \in Nat
         /\ (<<b>> \o list)[1] = b
         /\ \A i \in 1 .. Len(list) : (<<b>> \o list)[i + 1] = list[i]
         /\ ToSet(<<b>> \o list) = ToSet(list) \cup {b}
         /\ b \notin ToSet(list) /\ IsInjective(list) => IsInjective(<<b>> \o list)
<1> DEFINE t == <<b>> \o list
<1>1. /\ t \in Seq(BHs) /\ Len(t) = Len(list) + 1 /\ Len(list) \in Nat
      /\ t[1] = b
      /\ \A i \in 1 .. Len(list) : t[i + 1] = list[i]
      /\ DOMAIN t = 1 .. Len(list) + 1 /\ DOMAIN list = 1 .. Len(list)
  OBVIOUS
<1> HIDE DEF t
<1>2. \A i \in 2 .. Len(list) + 1 : i - 1 \in 1 .. Len(list) /\ t[i] = list[i - 1]
  <2> SUFFICES ASSUME NEW i \in 2 .. Len(list) + 1
               PROVE  i - 1 \in 1 .. Len(list) /\ t[i] = list[i - 1]
    OBVIOUS
  <2>1. i - 1 \in 1 .. Len(list) /\ (i - 1) + 1 = i
    BY <1>1
  <2> QED  BY <1>1, <2>1
<1>3. ToSet(t) \subseteq ToSet(list) \cup {b}
  <2>1. ASSUME NEW i \in DOMAIN t PROVE t[i] \in ToSet(list) \cup {b}
    <3>1. CASE i = 1
      BY <1>1, <3>1
    <3>2. CASE i # 1
      <4>1. i \in 2 .. Len(list) + 1
        BY <1>1, <3>2
      <4> QED  BY <1>1, <1>2, <4>1 DEF ToSet
    <3> QED  BY <3>1, <3>2
  <2> QED  BY <2>1 DEF ToSet
<1>4. ToSet(list) \cup {b} \subseteq ToSet(t)
  <2>1. b \in ToSet(t)
    BY <1>1 DEF ToSet
  <2>2. ASSUME NEW i \in 1 .. Len(list) PROVE list[i] \in ToSet(t)
    <3>1. i + 1 \in DOMAIN t /\ t[i + 1] = list[i]
      BY <1>1
    <3> QED  BY <3>1 DEF ToSet
  <2> QED  BY <1>1, <2>1, <2>2 DEF ToSet
<1>5. ASSUME b \notin ToSet(list), IsInjective(list), NEW i \in DOMAIN t, NEW j \in DOMAIN t, t[i] = t[j]
      PROVE  i = j
  <2>1. \A k \in 1 .. Len(list) : list[k] # b
    BY <1>1, <1>5 DEF ToSet
  <2>2. CASE i = 1 \/ j = 1
    BY <1>1, <1>2, <1>5, <2>1, <2>2
  <2>3. CASE i # 1 /\ j # 1
    <3>1. i - 1 \in 1 .. Len(list) /\ j - 1 \in 1 .. Len(list) /\ list[i - 1] = list[j - 1]
      BY <1>1, <1>2, <1>5, <2>3
    <3>2. i - 1 = j - 1
      BY <1>1, <1>5, <3>1 DEF IsInjective
    <3> QED  BY <1>1, <3>1, <3>2
  <2> QED  BY <2>2, <2>3
<1>6. b \notin ToSet(list) /\ IsInjective(list) => IsInjective(t)
  BY <1>5 DEF IsInjective
<1> QED  BY <1>1, <1>3, <1>4, <1>6 DEF t

\* An element put last.
LEMMA PutLast ==
  ASSUME NEW A, NEW s \in Seq(A), NEW x \in A
  PROVE  /\ s \o <<x>> \in Seq(A) /\ Len(s \o <<x>>) = Len(s) + 1 /\ Len(s) \in Nat
         /\ (s \o <<x>>)[Len(s) + 1] = x
         /\ \A i \in 1 .. Len(s) : (s \o <<x>>)[i] = s[i]
  OBVIOUS

\* A sequence without its last element.
LEMMA AllButLast ==
  ASSUME NEW A, NEW s \in Seq(A), NEW n \in Nat \ {0}, Len(s) = n
  PROVE  /\ SubSeq(s, 1, n - 1) \in Seq(A) /\ Len(SubSeq(s, 1, n - 1)) = n - 1
         /\ \A i \in 1 .. n - 1 : SubSeq(s, 1, n - 1)[i] = s[i]
<1>1. CASE n = 1
  <2>1. SubSeq(s, 1, 0) = << >>
    BY SubSeqEmpty
  <2> QED  BY <1>1, <2>1
<1>2. CASE n # 1
  BY <1>2
<1> QED  BY <1>1, <1>2

\* The last element of a sequence is replaced.
LastBecomes(s, x) == SubSeq(s, 1, Len(s) - 1) \o <<x>>

\* What that gives.
LEMMA LastReplaced ==
  ASSUME NEW A, NEW s \in Seq(A), s # << >>, NEW x \in A
  PROVE  /\ LastBecomes(s, x) \in Seq(A) /\ Len(LastBecomes(s, x)) = Len(s) /\ Len(s) \in Nat \ {0}
         /\ LastBecomes(s, x)[Len(s)] = x
         /\ \A i \in 1 .. Len(s) - 1 : LastBecomes(s, x)[i] = s[i]
<1>1. PICK n \in Nat \ {0} : n = Len(s)
  OBVIOUS
<1>2. PICK t : t = SubSeq(s, 1, n - 1)
  OBVIOUS
<1>3. t \in Seq(A) /\ Len(t) = n - 1 /\ \A i \in 1 .. n - 1 : t[i] = s[i]
  BY <1>1, <1>2, AllButLast
<1>4. PICK u : u = t \o <<x>>
  OBVIOUS
<1>5. /\ u \in Seq(A) /\ Len(u) = Len(t) + 1 /\ u[Len(t) + 1] = x
      /\ \A i \in 1 .. Len(t) : u[i] = t[i]
  BY <1>3, <1>4, PutLast
<1>6. LastBecomes(s, x) = u
  BY <1>1, <1>2, <1>4 DEF LastBecomes
<1> QED  BY <1>1, <1>3, <1>5, <1>6

\* The list of the innermost context is replaced.
LEMMA InCurrentIs ==
  ASSUME contexts \in Seq(Seq(BHs)), Len(contexts) \in Nat \ {0}, NEW list \in Seq(BHs)
  PROVE  /\ InCurrent(list) \in Seq(Seq(BHs)) /\ Len(InCurrent(list)) = Len(contexts)
         /\ InCurrent(list)[Len(contexts)] = list
         /\ \A i \in 1 .. Len(contexts) - 1 : InCurrent(list)[i] = contexts[i]
<1>1. InCurrent(list) = LastBecomes(contexts, list)
  BY DEF InCurrent, Front, LastBecomes
<1>2. contexts # << >>
  OBVIOUS
<1> DEFINE L == Seq(BHs)
<1>3. contexts \in Seq(L) /\ list \in L
  OBVIOUS
<1> HIDE DEF L
<1>4. /\ LastBecomes(contexts, list) \in Seq(L) /\ Len(LastBecomes(contexts, list)) = Len(contexts)
      /\ LastBecomes(contexts, list)[Len(contexts)] = list
      /\ \A i \in 1 .. Len(contexts) - 1 : LastBecomes(contexts, list)[i] = contexts[i]
  BY <1>2, <1>3, LastReplaced
<1> QED  BY <1>1, <1>4 DEF L

\* Back in the outer context, with b put first on its list.
LEMMA OuterIs ==
  ASSUME contexts \in Seq(Seq(BHs)), Len(contexts) \in Nat, Len(contexts) >= 2, NEW b \in BHs,
         NEW c, c = Front(Front(contexts)) \o <<(<<b>> \o Last(Front(contexts)))>>
  PROVE  /\ c \in Seq(Seq(BHs)) /\ Len(c) = Len(contexts) - 1
         /\ c[Len(contexts) - 1] = <<b>> \o contexts[Len(contexts) - 1]
         /\ \A i \in 1 .. Len(contexts) - 2 : c[i] = contexts[i]
<1> DEFINE L == Seq(BHs)
<1>1. PICK n \in Nat : n = Len(contexts)
  OBVIOUS
<1>2. PICK fr : fr = SubSeq(contexts, 1, n - 1)
  OBVIOUS
<1>3. PICK list : list = <<b>> \o fr[Len(fr)]
  OBVIOUS
<1>4. c = LastBecomes(fr, list)
  BY <1>1, <1>2, <1>3 DEF Front, Last, LastBecomes
<1>5. contexts \in Seq(L) /\ n >= 2 /\ \A x \in L : <<b>> \o x \in L
  BY <1>1, Prepended
<1> HIDE DEF L
<1>6. fr \in Seq(L) /\ Len(fr) = n - 1 /\ \A i \in 1 .. n - 1 : fr[i] = contexts[i]
  BY <1>1, <1>2, <1>5, AllButLast
<1>7. list \in L /\ list = <<b>> \o contexts[n - 1]
  <2>1. n - 1 \in 1 .. n - 1 /\ Len(fr) = n - 1
    BY <1>5, <1>6
  <2>2. fr[n - 1] = contexts[n - 1] /\ fr[n - 1] \in L
    BY <1>6, <2>1
  <2> QED  BY <1>3, <1>5, <2>1, <2>2
<1>8. fr # << >>
  BY <1>5, <1>6
<1>9. /\ c \in Seq(L) /\ Len(c) = Len(fr) /\ c[Len(fr)] = list
      /\ \A i \in 1 .. Len(fr) - 1 : c[i] = fr[i]
  <2>1. /\ LastBecomes(fr, list) \in Seq(L) /\ Len(LastBecomes(fr, list)) = Len(fr)
        /\ LastBecomes(fr, list)[Len(fr)] = list
        /\ \A i \in 1 .. Len(fr) - 1 : LastBecomes(fr, list)[i] = fr[i]
    <3>1. fr \in Seq(L) /\ list \in L /\ fr # << >>
      BY <1>6, <1>7, <1>8
    <3> QED  BY <3>1, LastReplaced
  <2> QED  BY <1>4, <2>1
<1>10. c \in Seq(L) /\ Len(c) = n - 1 /\ c[n - 1] = list
  BY <1>6, <1>9
<1>11. ASSUME NEW i \in 1 .. n - 2 PROVE c[i] = contexts[i]
  BY <1>5, <1>6, <1>9
<1> QED  BY <1>1, <1>7, <1>10, <1>11 DEF L

\* The lists of d are parts of those of c, but for b, which c does not list, in
\* the k-th.
PartsOf(d, c, k, b) ==
  /\ \A i \in DOMAIN c : b \notin ToSet(c[i])
  /\ \A i \in DOMAIN d : IsInjective(d[i])
  /\ \A i \in DOMAIN d : \A x \in ToSet(d[i]) :
       (i = k /\ x = b) \/ (i \in DOMAIN c /\ x \in ToSet(c[i]))

\* Then nothing is listed twice in d either.
LEMMA ListedFrom ==
  ASSUME NEW c, NEW d, NEW k, NEW b, Listed(c), PartsOf(d, c, k, b)
  PROVE  Listed(d)
<1>1. ASSUME NEW i \in DOMAIN d, NEW j \in DOMAIN d, i # j, NEW x \in ToSet(d[i]), x \in ToSet(d[j])
      PROVE  FALSE
  BY <1>1 DEF Listed, PartsOf
<1> QED  BY <1>1 DEF Listed, PartsOf

\* A fresh bottom half is on no list.
LEMMA FreshIs ==
  ASSUME NEW pool, HasFresh(pool)
  PROVE  /\ Fresh(pool) \in pool
         /\ \A i \in DOMAIN contexts : Fresh(pool) \notin ToSet(contexts[i])
BY DEF HasFresh, Fresh, Allocated

----------------------------------------------------------------------------
(* Walks.                                                                  *)

\* A walk is not disturbed if nothing on its list is newly scheduled, but for devices,
\* which are in the first context, ...
LEMMA WalksSame ==
  ASSUME NEW f, NEW list, NEW sch, NEW sch2, Walks(f, list, sch),
         list \in Seq(BHs), \A x \in sch2 \cap ToSet(list) : x \in sch \/ (x \in Devices /\ f.base = 1)
  PROVE  Walks(f, list, sch2)
<1>1. \A j \in 1 .. Len(list) : list[j] \in ToSet(list)
  BY DEF ToSet
<1>2. ASSUME f.run # NULL PROVE f.run \in ToSet(list) /\ (f.run \notin Devices => f.run \notin sch2)
  BY <1>2 DEF Walks
<1>3. ASSUME ~f.ret, NEW j \in 1 .. Len(list), list[j] \in sch2 \cap Owed(f.base)
      PROVE  \E k \in 1 .. j : list[k] = f.next
  <2>1. list[j] \in sch
    BY <1>1, <1>3, AsyncAssumption DEF Owed
  <2> QED  BY <1>3, <2>1 DEF Walks
<1> QED  BY <1>2, <1>3 DEF Walks

\* ... nor if a bottom half is put in front of it, unless the walk would have to
\* notice it.
LEMMA WalksGrow ==
  ASSUME NEW f, NEW list \in Seq(BHs), NEW sch, NEW b \in BHs, Walks(f, list, sch),
         b \notin ToSet(list), ~f.ret => b \notin Owed(f.base)
  PROVE  Walks(f, <<b>> \o list, sch \cup {b})
<1> DEFINE t == <<b>> \o list
<1>1. /\ t \in Seq(BHs) /\ Len(t) = Len(list) + 1 /\ Len(list) \in Nat
      /\ t[1] = b
      /\ \A i \in 1 .. Len(list) : t[i + 1] = list[i]
      /\ ToSet(t) = ToSet(list) \cup {b}
  BY Prepended
<1> HIDE DEF t
<1>2. f.next # NULL => f.next \in ToSet(t)
  BY <1>1 DEF Walks
<1>3. f.run # NULL => f.run \in ToSet(t) /\ (f.run \notin Devices => f.run \notin sch \cup {b})
  BY <1>1 DEF Walks
<1>4. ASSUME ~f.ret, NEW j \in 1 .. Len(t), t[j] \in (sch \cup {b}) \cap Owed(f.base)
      PROVE  \E k \in 1 .. j : t[k] = f.next
  <2>1. j - 1 \in 1 .. Len(list) /\ t[j] = list[j - 1]
    <3>1. j # 1
      BY <1>1, <1>4
    <3>2. j - 1 \in 1 .. Len(list) /\ (j - 1) + 1 = j
      BY <1>1, <3>1
    <3> QED  BY <1>1, <3>2
  <2>2. list[j - 1] # b
    BY <2>1 DEF ToSet
  <2>3. PICK k \in 1 .. j - 1 : list[k] = f.next
    BY <1>4, <2>1, <2>2 DEF Walks
  <2>4. k + 1 \in 1 .. j /\ t[k + 1] = f.next
    BY <1>1, <2>1, <2>3
  <2> QED  BY <2>4
<1>5. ~f.ret => (f.run # NULL => f.run \in IdleDevices)
  BY DEF Walks
<1>6. Walks(f, t, sch \cup {b})
  BY <1>2, <1>3, <1>4, <1>5 DEF Walks
<1> QED  BY <1>6 DEF t
\* Walks of lists that stay the same, with nothing newly scheduled on them, go on.
LEMMA Undisturbed ==
  ASSUME NEW st, NEW c, NEW sch, WalkOn(st, c, sch), NEW m \in Nat,
         \A i \in 1 .. Len(st) : st[i].op = "poll" => st[i].base \in 1 .. m,
         NEW d, \A i \in 1 .. m : c[i] \in Seq(BHs) /\ d[i] = c[i],
         NEW sch2, \A x \in sch2 : x \in sch \/ \A i \in 1 .. m : x \notin ToSet(c[i])
  PROVE  WalkOn(st, d, sch2)
<1> SUFFICES ASSUME NEW i \in 1 .. Len(st), st[i].op = "poll"
             PROVE  Walks(st[i], d[st[i].base], sch2)
  BY DEF WalkOn
<1> DEFINE list == c[st[i].base]
<1>1. Walks(st[i], list, sch) /\ list \in Seq(BHs) /\ d[st[i].base] = list
  BY DEF WalkOn
<1>2. \A x \in sch2 \cap ToSet(list) : x \in sch
  OBVIOUS
<1> HIDE DEF list
<1>3. Walks(st[i], list, sch2)
  BY <1>1, <1>2, WalksSame
<1> QED  BY <1>1, <1>3

\* A call is pushed that does not walk, or that walks its list well.
LEMMA WalkPush ==
  ASSUME NEW st \in Seq(Frames), NEW f \in Frames, NEW c, NEW sch, WalkOn(st, c, sch),
         f.op = "poll" => Walks(f, c[f.base], sch)
  PROVE  WalkOn(<<f>> \o st, c, sch)
<1> DEFINE t == <<f>> \o st
<1>1. Len(t) = Len(st) + 1 /\ Len(st) \in Nat /\ t[1] = f /\ \A i \in 1 .. Len(st) : t[i + 1] = st[i]
  BY Pushed
<1> HIDE DEF t
<1>2. ASSUME NEW i \in 1 .. Len(t), t[i].op = "poll" PROVE Walks(t[i], c[t[i].base], sch)
  <2>1. CASE i = 1
    BY <1>1, <1>2, <2>1
  <2>2. CASE i # 1
    <3>1. i - 1 \in 1 .. Len(st) /\ (i - 1) + 1 = i
      BY <1>1, <2>2
    <3>2. t[i] = st[i - 1]
      BY <1>1, <3>1
    <3> QED  BY <1>2, <3>1, <3>2 DEF WalkOn
  <2> QED  BY <2>1, <2>2
<1>3. WalkOn(t, c, sch)
  BY <1>2 DEF WalkOn
<1> QED  BY <1>3 DEF t

\* The innermost call returns.
LEMMA WalkPop ==
  ASSUME NEW st \in Seq(Frames), st # << >>, NEW c, NEW sch, WalkOn(st, c, sch)
  PROVE  WalkOn(Tail(st), c, sch)
<1>1. /\ Len(Tail(st)) = Len(st) - 1 /\ Len(st) \in Nat \ {0}
      /\ \A i \in 1 .. Len(st) - 1 : Tail(st)[i] = st[i + 1]
  BY Taken
<1>2. ASSUME NEW i \in 1 .. Len(Tail(st)), Tail(st)[i].op = "poll"
      PROVE  Walks(Tail(st)[i], c[Tail(st)[i].base], sch)
  <2>1. i + 1 \in 1 .. Len(st) /\ Tail(st)[i] = st[i + 1]
    BY <1>1
  <2> QED  BY <1>2, <2>1 DEF WalkOn
<1> QED  BY <1>2 DEF WalkOn

----------------------------------------------------------------------------
(* What the invariant says of the innermost call.                          *)

\* The variables when a call is in progress.
LEMMA TopIs ==
  ASSUME IInv, stack # << >>
  PROVE  /\ stack \in Seq(Frames) /\ Len(stack) \in Nat \ {0}
         /\ Top = stack[1] /\ Top \in Frames /\ Top.base = Len(contexts)
         /\ Top.op \in {"poll", "sync", "flush"}
         /\ Top.op = "poll" => Top \in PollFrames /\ Walks(Top, current, scheduled)
         /\ Top.op = "sync" => Top \in SyncFrames
         /\ Top.op = "flush" => Top \in FlushFrames
<1>1. stack \in Seq(Frames) /\ Len(stack) \in Nat \ {0} /\ Top = stack[1] /\ Top \in Frames
  BY Taken DEF IInv, Shape, Top
<1>2. Top.base = Len(contexts)
  BY <1>1 DEF IInv, Shape
<1>3. Top.op = "poll" => Walks(Top, current, scheduled)
  BY <1>1, <1>2 DEF IInv, WalkOK, WalkOn, current, Last
<1> QED  BY <1>1, <1>2, <1>3, Bases

\* The lists.
LEMMA ListsAre ==
  ASSUME IInv
  PROVE  /\ contexts \in Seq(Seq(BHs)) /\ Len(contexts) \in Nat \ {0}
         /\ DOMAIN contexts = 1 .. Len(contexts)
         /\ \A i \in 1 .. Len(contexts) : contexts[i] \in Seq(BHs) /\ ToSet(contexts[i]) \subseteq BHs
         /\ current = contexts[Len(contexts)] /\ current \in Seq(BHs)
         /\ NULL \notin BHs
<1> DEFINE L == Seq(BHs)
<1>1. contexts \in Seq(L) /\ Len(contexts) \in Nat \ {0}
  BY AsyncAssumption DEF IInv, Typed
<1>2. \A x \in L : ToSet(x) \subseteq BHs
  BY DEF ToSet
<1>3. current = contexts[Len(contexts)] /\ NULL \notin BHs
  BY AsyncAssumption DEF current, Last, BHs
<1> HIDE DEF L
<1>4. DOMAIN contexts = 1 .. Len(contexts) /\ \A i \in 1 .. Len(contexts) : contexts[i] \in L
  BY <1>1
<1>5. Len(contexts) \in 1 .. Len(contexts)
  BY <1>1
<1> QED  BY <1>1, <1>2, <1>3, <1>4, <1>5 DEF L

\* What the calls below the innermost one are.
LEMMA Below ==
  ASSUME IInv, stack # << >>
  PROVE  /\ Tail(stack) \in Seq(Frames)
         /\ Shape(Tail(stack), IF Top.op = "sync" THEN Len(contexts) - 1 ELSE Len(contexts))
         /\ Tail(stack) # << >> => Under(Top, Tail(stack)[1])
         /\ Tail(stack) = << >> => Outermost(Top)
         /\ WalkOn(Tail(stack), contexts, scheduled)
         /\ \A i \in 1 .. Len(Tail(stack)) :
              /\ Tail(stack)[i] \in Frames
              /\ Tail(stack)[i].op = "poll" => Tail(stack)[i].base \in 1 .. Len(contexts) - 1
<1>1. /\ stack \in Seq(Frames) /\ Top = stack[1] /\ Len(contexts) \in Nat
      /\ Shape(stack, Len(contexts))
  BY TopIs, ListsAre DEF IInv
<1>2. /\ Shape(Tail(stack), IF Top.op = "sync" THEN Len(contexts) - 1 ELSE Len(contexts))
      /\ Tail(stack) # << >> => Under(Top, Tail(stack)[1])
      /\ Tail(stack) = << >> => Outermost(Top)
  BY <1>1, ShapePop
<1>3. WalkOn(Tail(stack), contexts, scheduled)
  BY <1>1, WalkPop DEF IInv, WalkOK
<1>4. ASSUME NEW i \in 1 .. Len(Tail(stack))
      PROVE  /\ Tail(stack)[i] \in Frames
             /\ Tail(stack)[i].op = "poll" => Tail(stack)[i].base \in 1 .. Len(contexts) - 1
  <2>1. i + 1 \in 1 .. Len(stack) /\ Tail(stack)[i] = stack[i + 1] /\ i + 1 > 1
    BY <1>1, Taken
  <2>2. /\ stack[i + 1] \in Frames /\ stack[i + 1].base \in 1 .. Len(contexts)
        /\ stack[i + 1].op = "poll" => stack[i + 1].base < Len(contexts)
    BY <1>1, <2>1, Suspended
  <2> QED  BY <1>1, <2>1, <2>2
<1>5. Tail(stack) \in Seq(Frames)
  BY <1>1, Taken
<1> QED  BY <1>2, <1>3, <1>4, <1>5

\* All polls walk lists of contexts.
LEMMA PollsWithin ==
  ASSUME IInv
  PROVE  \A i \in 1 .. Len(stack) : stack[i].op = "poll" => stack[i].base \in 1 .. Len(contexts)
BY ListsAre, Suspended DEF IInv

\* A new poll starts with the first bottom half of the current context.
LEMMA PollStarts ==
  ASSUME IInv
  PROVE  /\ Poll \in PollFrames /\ Poll \in Frames /\ Poll.op = "poll" /\ Poll.base = Len(contexts)
         /\ \A sch : Walks(Poll, current, sch)
<1>1. current \in Seq(BHs) /\ Len(contexts) \in Nat /\ NULL \notin BHs
  BY ListsAre
<1>2. current # << >> => /\ Head(current) = current[1] /\ Head(current) \in BHs
                         /\ Head(current) \in ToSet(current) /\ Len(current) \in Nat
  BY <1>1 DEF ToSet
<1>3. Poll \in PollFrames
  BY <1>1, <1>2 DEF Poll, PollFrames
<1>4. ASSUME NEW sch PROVE Walks(Poll, current, sch)
  <2>1. /\ Poll.run = NULL /\ Poll.ret = FALSE /\ Poll.base = Len(contexts)
        /\ Poll.next = IF current = << >> THEN NULL ELSE Head(current)
    BY DEF Poll
  <2>2. ASSUME NEW j \in 1 .. Len(current) PROVE \E k \in 1 .. j : current[k] = Poll.next
    <3>1. current # << >> /\ 1 \in 1 .. j
      BY <1>1
    <3> QED  BY <1>2, <2>1, <3>1
  <2> QED  BY <1>2, <2>1, <2>2 DEF Walks
<1> QED  BY <1>3, <1>4 DEF Poll, Frames
----------------------------------------------------------------------------
(* Scheduling, cancelling and deleting.                                    *)

\* The flags of bottom halves change while code runs.
LEMMA FlagsKept ==
  ASSUME IInv, Idle \/ InCallback, UNCHANGED <<contexts, stack, ret, done>>, ops' \in 0 .. MaxOps,
         idle' \subseteq IdleDevices, deleted' \subseteq BHs,
         \A b \in scheduled' : b \in scheduled \/ (b \in Devices /\ Allocated(b)),
         \A b \in deleted' : Allocated(b),
         scheduled' \cap deleted' = {}
  PROVE  IInv'
<1>1. Typed'
  BY DEF IInv, Typed, BHs
<1>2. Shape(stack, Len(contexts))'
  BY DEF IInv
<1>3. ListsOK'
  <2>1. \A b : Allocated(b)' <=> Allocated(b)
    BY DEF Allocated
  <2> QED  BY <2>1 DEF IInv, ListsOK
<1>4. WalkOK'
  <2>1. ASSUME NEW i \in 1 .. Len(stack), stack[i].op = "poll"
        PROVE  Walks(stack[i], contexts[stack[i].base], scheduled')
    <3> DEFINE list == contexts[stack[i].base]
    <3>1. /\ stack[i].base \in 1 .. Len(contexts) /\ list \in Seq(BHs)
          /\ Walks(stack[i], list, scheduled)
      BY <2>1, PollsWithin, ListsAre DEF IInv, WalkOK, WalkOn
    <3>2. stack[i].base # 1 => ToSet(list) \cap Devices = {}
      BY <3>1, ListsAre DEF IInv, ListsOK
    <3> HIDE DEF list
    <3>3. \A x \in scheduled' \cap ToSet(list) : x \in scheduled \/ (x \in Devices /\ stack[i].base = 1)
      BY <3>2
    <3>4. Walks(stack[i], list, scheduled')
      BY <3>1, <3>3, WalksSame
    <3> QED  BY <3>4 DEF list
  <2> QED  BY <2>1 DEF WalkOK, WalkOn
<1>5. DrainOK'
  <2>1. stack = << >> \/ stack[1].op = "poll"
    BY TopIs DEF InCallback, On, Idle
  <2> QED  BY <2>1 DEF DrainOK
<1> QED  BY <1>1, <1>2, <1>3, <1>4, <1>5 DEF IInv

\* qemu_bh_schedule, qemu_bh_cancel and qemu_bh_delete.
LEMMA FlagSteps ==
  ASSUME IInv, NEW b \in BHs, qemu_bh_schedule(b) \/ qemu_bh_cancel(b) \/ qemu_bh_delete(b)
  PROVE  IInv'
<1>1. CASE qemu_bh_schedule(b)
  <2>1. Idle \/ InCallback
    BY <1>1 DEF qemu_bh_schedule, StartsRequests, CodeRuns
  <2>2. ops' \in 0 .. MaxOps
    BY <1>1, AsyncAssumption DEF qemu_bh_schedule, Busy, IInv, Typed
  <2>3. /\ idle' \subseteq IdleDevices /\ deleted' = deleted
        /\ scheduled' = scheduled \cup {b} /\ b \in Devices /\ Allocated(b) /\ b \notin deleted
        /\ UNCHANGED <<contexts, stack, ret, done>>
    BY <1>1 DEF qemu_bh_schedule, IInv, Typed
  <2>4. /\ \A x \in scheduled' : x \in scheduled \/ (x \in Devices /\ Allocated(x))
        /\ \A x \in deleted' : Allocated(x)
        /\ scheduled' \cap deleted' = {} /\ deleted' \subseteq BHs
    BY <2>3 DEF IInv, ListsOK, Typed
  <2> QED  BY <2>1, <2>2, <2>3, <2>4, FlagsKept
<1>2. CASE qemu_bh_cancel(b)
  <2>1. (Idle \/ InCallback) /\ ops' \in 0 .. MaxOps
    BY <1>2 DEF qemu_bh_cancel, StartsRequests, CodeRuns, IInv, Typed
  <2>2. /\ idle' \subseteq IdleDevices /\ deleted' = deleted /\ scheduled' \subseteq scheduled
        /\ UNCHANGED <<contexts, stack, ret, done>>
    BY <1>2 DEF qemu_bh_cancel, IInv, Typed
  <2>3. /\ \A x \in scheduled' : x \in scheduled \/ (x \in Devices /\ Allocated(x))
        /\ \A x \in deleted' : Allocated(x)
        /\ scheduled' \cap deleted' = {} /\ deleted' \subseteq BHs
    BY <2>2 DEF IInv, ListsOK, Typed
  <2> QED  BY <2>1, <2>2, <2>3, FlagsKept
<1>3. CASE qemu_bh_delete(b)
  <2>1. (Idle \/ InCallback) /\ ops' \in 0 .. MaxOps
    BY <1>3 DEF qemu_bh_delete, StartsRequests, CodeRuns, IInv, Typed
  <2>2. /\ idle' \subseteq IdleDevices /\ deleted' = deleted \cup {b} /\ Allocated(b)
        /\ scheduled' = scheduled \ {b}
        /\ UNCHANGED <<contexts, stack, ret, done>>
    BY <1>3 DEF qemu_bh_delete, IInv, Typed
  <2>3. /\ \A x \in scheduled' : x \in scheduled \/ (x \in Devices /\ Allocated(x))
        /\ \A x \in deleted' : Allocated(x)
        /\ scheduled' \cap deleted' = {} /\ deleted' \subseteq BHs
    BY <2>2 DEF IInv, ListsOK, Typed
  <2> QED  BY <2>1, <2>2, <2>3, FlagsKept
<1> QED  BY <1>1, <1>2, <1>3

----------------------------------------------------------------------------
(* Starting requests.                                                      *)

\* bdrv_aio_rw_vector.
LEMMA AsyncStarts ==
  ASSUME IInv, bdrv_aio_rw_vector
  PROVE  IInv'
<1>1. PICK n \in Nat \ {0} : n = Len(contexts)
  <2>1. Len(contexts) \in Nat \ {0}
    BY ListsAre
  <2> QED  BY <2>1
<1>2. PICK b \in Requests : b = Fresh(Requests) /\ \A i \in 1 .. n : b \notin ToSet(contexts[i])
  BY <1>1, FreshIs, ListsAre DEF bdrv_aio_rw_vector
<1>3. /\ contexts' = InCurrent(<<b>> \o contexts[n])
      /\ scheduled' = scheduled \cup {b}
      /\ UNCHANGED <<idle, deleted, stack, ret>> /\ done' \subseteq done
      /\ StartsRequests /\ ops \in 0 .. MaxOps /\ ops' \in 0 .. MaxOps
  BY <1>1, <1>2, AsyncAssumption DEF bdrv_aio_rw_vector, current, Last, Busy, IInv, Typed
<1>4. /\ b \in BHs /\ b \notin Devices /\ b \notin deleted /\ b \notin scheduled
      /\ contexts[n] \in Seq(BHs) /\ n \in 1 .. n /\ DOMAIN contexts = 1 .. n
  BY <1>1, <1>2, ListsAre, AsyncAssumption DEF IInv, ListsOK, Allocated, BHs
<1>5. /\ <<b>> \o contexts[n] \in Seq(BHs)
      /\ ToSet(<<b>> \o contexts[n]) = ToSet(contexts[n]) \cup {b}
      /\ IsInjective(contexts[n]) => IsInjective(<<b>> \o contexts[n])
  BY <1>2, <1>4, Prepended
<1>6. /\ contexts' \in Seq(Seq(BHs)) /\ Len(contexts') = n /\ contexts'[n] = <<b>> \o contexts[n]
      /\ \A i \in 1 .. n - 1 : contexts'[i] = contexts[i]
      /\ DOMAIN contexts' = 1 .. n
  <2>1. /\ contexts' \in Seq(Seq(BHs)) /\ Len(contexts') = n /\ contexts'[n] = <<b>> \o contexts[n]
        /\ \A i \in 1 .. n - 1 : contexts'[i] = contexts[i]
    BY <1>1, <1>3, <1>5, ListsAre, InCurrentIs
  <2> QED  BY <2>1
<1>7. \A i \in 1 .. n : /\ i = n \/ contexts'[i] = contexts[i]
                        /\ ToSet(contexts[i]) \subseteq ToSet(contexts'[i])
  <2> SUFFICES ASSUME NEW i \in 1 .. n
               PROVE  (i = n \/ contexts'[i] = contexts[i]) /\ ToSet(contexts[i]) \subseteq ToSet(contexts'[i])
    OBVIOUS
  <2>1. CASE i = n
    BY <1>5, <1>6, <2>1
  <2>2. CASE i # n
    <3>1. i \in 1 .. n - 1
      BY <2>2
    <3> QED  BY <1>6, <3>1
  <2> QED  BY <2>1, <2>2
<1>8. Typed'
  BY <1>1, <1>3, <1>4, <1>6 DEF IInv, Typed
<1>9. Shape(stack, Len(contexts))'
  BY <1>1, <1>3, <1>6 DEF IInv
<1>10. ListsOK'
  <2>1. Listed(contexts')
    <3>1. \A i \in DOMAIN contexts' : IsInjective(contexts'[i])
      BY <1>4, <1>5, <1>6, <1>7 DEF IInv, ListsOK, Listed
    <3>2. \A i \in DOMAIN contexts' : \A x \in ToSet(contexts'[i]) :
            (i = n /\ x = b) \/ (i \in DOMAIN contexts /\ x \in ToSet(contexts[i]))
      BY <1>4, <1>5, <1>6, <1>7
    <3>3. Listed(contexts) /\ PartsOf(contexts', contexts, n, b)
      BY <1>2, <1>4, <3>1, <3>2 DEF IInv, ListsOK, PartsOf
    <3> QED  BY <3>3, ListedFrom
  <2>2. \A x \in scheduled' \cup deleted' : Allocated(x)'
    <3>1. Allocated(b)'
      BY <1>4, <1>5, <1>6 DEF Allocated
    <3>2. \A x : Allocated(x) => Allocated(x)'
      BY <1>4, <1>6, <1>7 DEF Allocated
    <3> QED  BY <1>3, <3>1, <3>2 DEF IInv, ListsOK
  <2>3. scheduled' \cap deleted' = {}
    BY <1>3, <1>4 DEF IInv, ListsOK
  <2>4. \A i \in DOMAIN contexts' : i > 1 => ToSet(contexts'[i]) \cap Devices = {}
    BY <1>4, <1>5, <1>6, <1>7 DEF IInv, ListsOK
  <2> QED  BY <2>1, <2>2, <2>3, <2>4 DEF ListsOK
<1>11. WalkOK' /\ DrainOK'
  <2>1. CASE stack = << >>
    BY <1>3, <2>1 DEF WalkOK, WalkOn, DrainOK
  <2>2. CASE stack # << >>
    <3>1. Top.op = "poll" /\ Top.run # NULL /\ Top.run \notin IdleDevices
      BY <1>3, <2>2 DEF StartsRequests, CodeRuns, Idle, InCallback, On
    <3>2. Walks(Top, contexts[n], scheduled) /\ Top \in PollFrames
      BY <1>1, <2>2, <3>1, TopIs DEF current, Last
    <3>3. Top.ret
      BY <3>1, <3>2 DEF Walks, PollFrames
    <3>4. Walks(Top, <<b>> \o contexts[n], scheduled \cup {b})
      BY <1>2, <1>4, <3>2, <3>3, WalksGrow
    <3>5. WalkOn(Tail(stack), contexts', scheduled')
      <4>1. \A i \in 1 .. Len(Tail(stack)) :
              Tail(stack)[i].op = "poll" => Tail(stack)[i].base \in 1 .. n - 1
        BY <1>1, <2>2, Below
      <4>2. \A i \in 1 .. n - 1 : contexts[i] \in Seq(BHs) /\ contexts'[i] = contexts[i]
        BY <1>1, <1>6, ListsAre
      <4>3. \A x \in scheduled' : x \in scheduled \/ \A i \in 1 .. n - 1 : x \notin ToSet(contexts[i])
        BY <1>2, <1>3
      <4>4. WalkOn(Tail(stack), contexts, scheduled) /\ n - 1 \in Nat
        BY <2>2, Below
      <4> QED  BY <4>1, <4>2, <4>3, <4>4, Undisturbed
    <3>6. WalkOn(<<Top>> \o Tail(stack), contexts', scheduled')
      BY <1>1, <1>3, <1>6, <2>2, <3>4, <3>5, WalkPush, Below, TopIs
    <3>7. <<Top>> \o Tail(stack) = stack
      BY <2>2, TopIs DEF Top
    <3> QED  BY <1>3, <2>2, <3>1, <3>6, <3>7, TopIs DEF WalkOK, DrainOK
  <2> QED  BY <2>1, <2>2
<1> QED  BY <1>8, <1>9, <1>10, <1>11 DEF IInv
\* bdrv_read_em and bdrv_write_em.
LEMMA SyncStarts ==
  ASSUME IInv, bdrv_read_em
  PROVE  IInv'
<1>1. PICK n \in Nat \ {0} : n = Len(contexts)
  <2>1. Len(contexts) \in Nat \ {0}
    BY ListsAre
  <2> QED  BY <2>1
<1>2. PICK b \in Requests : b = Fresh(Requests) /\ \A i \in 1 .. n : b \notin ToSet(contexts[i])
  BY <1>1, FreshIs, ListsAre DEF bdrv_read_em
<1> DEFINE f == [op |-> "sync", req |-> b, base |-> n + 1, pc |-> "wait"]
<1>3. /\ contexts' = Append(contexts, <<b>>)
      /\ scheduled' = scheduled \cup {b}
      /\ stack' = <<f>> \o stack
      /\ UNCHANGED <<idle, deleted, ret>> /\ done' \subseteq done
      /\ CodeRuns /\ n < MaxContexts /\ ops' \in 0 .. MaxOps
  BY <1>1, <1>2, AsyncAssumption DEF bdrv_read_em, Push, Busy, IInv, Typed
<1>4. /\ b \in BHs /\ b \notin Devices /\ b \notin deleted /\ b \notin scheduled
      /\ DOMAIN contexts = 1 .. n
  BY <1>1, <1>2, ListsAre, AsyncAssumption DEF IInv, ListsOK, Allocated, BHs
<1>5. <<b>> \in Seq(BHs) /\ ToSet(<<b>>) = {b} /\ IsInjective(<<b>>)
  BY <1>4 DEF ToSet, IsInjective
<1>6. /\ contexts' \in Seq(Seq(BHs)) /\ Len(contexts') = n + 1 /\ contexts'[n + 1] = <<b>>
      /\ \A i \in 1 .. n : contexts'[i] = contexts[i]
      /\ DOMAIN contexts' = 1 .. n + 1
  <2> DEFINE L == Seq(BHs)
  <2>1. contexts \in Seq(L) /\ <<b>> \in L
    BY <1>5, ListsAre
  <2> HIDE DEF L
  <2>2. PICK x : x = <<b>>
    OBVIOUS
  <2>3. x \in L /\ contexts' = Append(contexts, x)
    BY <1>3, <2>1, <2>2
  <2>4. /\ contexts' \in Seq(L) /\ Len(contexts') = n + 1 /\ contexts'[n + 1] = x
        /\ \A i \in 1 .. n : contexts'[i] = contexts[i]
    BY <1>1, <2>1, <2>3
  <2> QED  BY <2>2, <2>4 DEF L
<1>7. f \in Frames /\ f.op = "sync" /\ f.base = n + 1 /\ f.pc = "wait"
  BY DEF Frames, SyncFrames
<1> HIDE DEF f
<1>8. Typed'
  BY <1>1, <1>3, <1>4, <1>6, AsyncAssumption DEF IInv, Typed
<1>9. Shape(stack, Len(contexts))'
  <2>1. Shape(stack, n)
    BY <1>1 DEF IInv
  <2>2. stack = << >> => Outermost(f)
    BY <1>7, <2>1 DEF Outermost, Shape
  <2>3. stack # << >> => Under(f, stack[1])
    <3>1. stack # << >> => stack[1].op = "poll" /\ stack[1].run # NULL /\ stack[1].base = n
      BY <1>1, <1>3, TopIs DEF CodeRuns, Idle, InCallback, On
    <3> QED  BY <1>7, <3>1 DEF Under
  <2>4. Shape(<<f>> \o stack, n + 1)
    BY <1>7, <2>1, <2>2, <2>3, ShapePush
  <2> QED  BY <1>3, <1>6, <2>4
<1>10. ListsOK'
  <2>1. Listed(contexts')
    <3>1. \A i \in DOMAIN contexts' : IsInjective(contexts'[i])
      BY <1>4, <1>5, <1>6 DEF IInv, ListsOK, Listed
    <3>2. \A i \in DOMAIN contexts' : \A x \in ToSet(contexts'[i]) :
            (i = n + 1 /\ x = b) \/ (i \in DOMAIN contexts /\ x \in ToSet(contexts[i]))
      BY <1>4, <1>5, <1>6
    <3>3. Listed(contexts) /\ PartsOf(contexts', contexts, n + 1, b)
      BY <1>2, <1>4, <3>1, <3>2 DEF IInv, ListsOK, PartsOf
    <3> QED  BY <3>3, ListedFrom
  <2>2. \A x \in scheduled' \cup deleted' : Allocated(x)'
    <3>1. Allocated(b)'
      <4>1. n + 1 \in DOMAIN contexts' /\ b \in ToSet(contexts'[n + 1])
        BY <1>5, <1>6
      <4> QED  BY <4>1 DEF Allocated
    <3>2. ASSUME NEW x, Allocated(x) PROVE Allocated(x)'
      <4>1. PICK i \in 1 .. n : x \in ToSet(contexts[i])
        BY <1>4, <3>2 DEF Allocated
      <4>2. i \in DOMAIN contexts' /\ x \in ToSet(contexts'[i])
        BY <1>6, <4>1
      <4> QED  BY <4>2 DEF Allocated
    <3> QED  BY <1>3, <3>1, <3>2 DEF IInv, ListsOK
  <2>3. scheduled' \cap deleted' = {}
    BY <1>3, <1>4 DEF IInv, ListsOK
  <2>4. ASSUME NEW i \in DOMAIN contexts', i > 1 PROVE ToSet(contexts'[i]) \cap Devices = {}
    <3>1. CASE i = n + 1
      BY <1>4, <1>5, <1>6, <3>1
    <3>2. CASE i # n + 1
      <4>1. i \in 1 .. n /\ contexts'[i] = contexts[i]
        BY <1>6, <3>2
      <4> QED  BY <1>4, <2>4, <4>1 DEF IInv, ListsOK
    <3> QED  BY <3>1, <3>2
  <2> QED  BY <2>1, <2>2, <2>3, <2>4 DEF ListsOK
<1>11. WalkOK'
  <2>1. WalkOn(stack, contexts', scheduled')
    <3>1. \A i \in 1 .. Len(stack) : stack[i].op = "poll" => stack[i].base \in 1 .. n
      BY <1>1, PollsWithin
    <3>2. \A i \in 1 .. n : contexts[i] \in Seq(BHs) /\ contexts'[i] = contexts[i]
      BY <1>1, <1>6, ListsAre
    <3>3. \A x \in scheduled' : x \in scheduled \/ \A i \in 1 .. n : x \notin ToSet(contexts[i])
      BY <1>2, <1>3
    <3>4. WalkOn(stack, contexts, scheduled)
      BY DEF IInv, WalkOK
    <3> QED  BY <3>1, <3>2, <3>3, <3>4, Undisturbed
  <2>2. WalkOn(<<f>> \o stack, contexts', scheduled')
    BY <1>7, <2>1, WalkPush DEF IInv, Shape
  <2> QED  BY <1>3, <2>2 DEF WalkOK
<1>12. DrainOK'
  <2>1. stack'[1] = f
    BY <1>3, <1>7, Pushed DEF IInv, Shape
  <2> QED  BY <1>7, <2>1 DEF DrainOK
<1> QED  BY <1>8, <1>9, <1>10, <1>11, <1>12 DEF IInv

----------------------------------------------------------------------------
(* Steps that only change the stack.                                       *)

SameLists == UNCHANGED <<contexts, bhVars, ret, done>> /\ ops' \in 0 .. MaxOps

\* The lists stay sound.
LEMMA SameListsKept ==
  ASSUME IInv, SameLists
  PROVE  /\ Typed' /\ ListsOK' /\ Len(contexts') = Len(contexts) /\ contexts' = contexts
         /\ current' = current /\ scheduled' = scheduled
BY DEF IInv, SameLists, bhVars, Typed, ListsOK, Allocated, current

\* A poll or a flush is called from the main loop.
LEMMA MainCalls ==
  ASSUME IInv, SameLists, Idle, NEW f \in Frames, f.op # "sync", f.base = 1, stack' = <<f>> \o stack,
         f.op = "flush" => f.pc = "wait", f.op = "poll" => Walks(f, contexts[1], scheduled)
  PROVE  IInv'
<1>1. stack = << >> /\ Len(contexts) = 1 /\ stack \in Seq(Frames)
  BY DEF Idle, IInv, Shape
<1>2. Shape(stack, 1) /\ Outermost(f) /\ WalkOn(stack, contexts, scheduled)
  BY <1>1 DEF IInv, Outermost, WalkOK
<1>3. Shape(stack', 1)
  BY <1>1, <1>2, ShapePush
<1>4. WalkOn(stack', contexts, scheduled)
  BY <1>1, <1>2, WalkPush
<1>5. stack'[1] = f
  BY <1>1, Pushed
<1>6. DrainOK'
  BY <1>5, Bases DEF DrainOK
<1> QED  BY <1>1, <1>3, <1>4, <1>6, SameListsKept DEF IInv, WalkOK

\* main_loop_wait and qemu_aio_flush.
LEMMA MainSteps ==
  ASSUME IInv, StopOnError = FALSE, main_loop_wait \/ qemu_aio_flush
  PROVE  IInv'
<1>1. CASE main_loop_wait
  <2>1. SameLists /\ Idle /\ stack' = <<Poll>> \o stack
    BY <1>1 DEF main_loop_wait, Push, SameLists, IInv, Typed
  <2>2. Poll \in Frames /\ Poll.op = "poll" /\ Poll.base = 1 /\ Walks(Poll, contexts[1], scheduled)
    <3>1. Len(contexts) = 1
      BY <2>1 DEF Idle, IInv, Shape
    <3> QED  BY <3>1, PollStarts, ListsAre
  <2> QED  BY <2>1, <2>2, MainCalls
<1>2. CASE qemu_aio_flush
  <2> DEFINE f == [op |-> "flush", pc |-> "wait", base |-> 1]
  <2>1. SameLists /\ Idle
    BY <1>2, AsyncAssumption DEF qemu_aio_flush, Busy, SameLists, IInv, Typed
  <2>2. Len(contexts) = 1
    BY <2>1 DEF Idle, IInv, Shape
  <2>3. stack' = <<f>> \o stack
    BY <1>2, <2>2 DEF qemu_aio_flush, Push
  <2>4. f \in Frames /\ f.op = "flush" /\ f.base = 1 /\ f.pc = "wait"
    BY DEF Frames, FlushFrames
  <2> HIDE DEF f
  <2> QED  BY <2>1, <2>3, <2>4, MainCalls
<1> QED  BY <1>1, <1>2

\* A waiting call goes on, as g.
GoesOn(g) ==
  /\ stack # << >> /\ Top.op # "poll"
  /\ g \in Frames /\ g.op = Top.op /\ g.base = Top.base

\* It polls, ...
LEMMA AgainKept ==
  ASSUME IInv, SameLists, NEW g, GoesOn(g), stack' = <<Poll, g>> \o Tail(stack)
  PROVE  IInv'
<1>1. PICK n \in Nat \ {0} : n = Len(contexts)
  <2>1. Len(contexts) \in Nat \ {0}
    BY ListsAre
  <2> QED  BY <2>1
<1>2. PICK t : t = <<g>> \o Tail(stack)
  OBVIOUS
<1>3. /\ Shape(stack, n) /\ stack # << >> /\ g \in Frames /\ g.op = stack[1].op /\ g.base = n
      /\ stack[1].base = n /\ g.op \in {"sync", "flush"}
  BY <1>1, TopIs DEF IInv, GoesOn
<1>4. Shape(t, n)
  BY <1>2, <1>3, ShapeReplace
<1>5. /\ Tail(stack) \in Seq(Frames) /\ WalkOn(Tail(stack), contexts, scheduled)
      /\ t \in Seq(Frames) /\ t[1] = g /\ t # << >>
  BY <1>2, <1>3, Below, Pushed DEF GoesOn
<1>6. WalkOn(t, contexts, scheduled)
  BY <1>2, <1>3, <1>5, WalkPush
<1>7. /\ Poll \in Frames /\ Poll.op = "poll" /\ Poll.base = n
      /\ Walks(Poll, contexts[Poll.base], scheduled)
  BY <1>1, PollStarts, ListsAre
<1>8. stack' = <<Poll>> \o t
  <2>1. PICK r : r = Tail(stack) /\ r \in Seq(Frames)
    BY <1>5
  <2>2. PICK p \in Frames : p = Poll
    BY <1>7
  <2>3. <<p, g>> \o r = <<p>> \o (<<g>> \o r)
    BY <1>3, <2>1, <2>2
  <2> QED  BY <1>2, <2>1, <2>2, <2>3
<1>9. Shape(stack', n)
  <2>1. Under(Poll, g)
    BY <1>3, <1>7 DEF Under
  <2> QED  BY <1>4, <1>5, <1>7, <1>8, <2>1, ShapePush
<1>10. WalkOn(stack', contexts, scheduled)
  BY <1>5, <1>6, <1>7, <1>8, WalkPush
<1>11. DrainOK'
  <2>1. stack'[1] = Poll
    BY <1>5, <1>7, <1>8, Pushed
  <2> QED  BY <1>7, <2>1 DEF DrainOK
<1> QED  BY <1>1, <1>9, <1>10, <1>11, SameListsKept DEF IInv, WalkOK

\* ... or it does something else.
LEMMA ContinueKept ==
  ASSUME IInv, SameLists, NEW g, GoesOn(g), g.pc \notin {"popped", "test"},
         stack' = <<g>> \o Tail(stack)
  PROVE  IInv'
<1>1. PICK n \in Nat \ {0} : n = Len(contexts)
  <2>1. Len(contexts) \in Nat \ {0}
    BY ListsAre
  <2> QED  BY <2>1
<1>2. /\ Shape(stack, n) /\ stack # << >> /\ g \in Frames /\ g.op = stack[1].op /\ g.base = n
      /\ stack[1].base = n /\ g.op \in {"sync", "flush"}
  BY <1>1, TopIs DEF IInv, GoesOn
<1>3. Shape(stack', n)
  BY <1>2, ShapeReplace
<1>4. /\ Tail(stack) \in Seq(Frames) /\ WalkOn(Tail(stack), contexts, scheduled)
      /\ stack'[1] = g
  BY <1>2, Below, Pushed DEF GoesOn
<1>5. WalkOn(stack', contexts, scheduled)
  BY <1>2, <1>4, WalkPush
<1>6. DrainOK'
  BY <1>4 DEF DrainOK
<1> QED  BY <1>1, <1>3, <1>5, <1>6, SameListsKept DEF IInv, WalkOK

\* The next position of a waiting call.
LEMMA SetPcIs ==
  ASSUME IInv, stack # << >>, NEW pc,
         \/ Top.op = "sync" /\ pc \in {"wait", "pop", "popped"}
         \/ Top.op = "flush" /\ pc \in {"wait", "poll", "test"}
  PROVE  GoesOn(SetPc(pc)) /\ SetPc(pc).pc = pc
<1>1. Top.op = "sync" => Top \in SyncFrames
  BY TopIs
<1>2. Top.op = "flush" => Top \in FlushFrames
  BY TopIs
<1>3. CASE Top.op = "sync"
  <2>1. PICK f \in SyncFrames : f = Top
    BY <1>1, <1>3
  <2>2. /\ [f EXCEPT !.pc = pc] \in SyncFrames /\ [f EXCEPT !.pc = pc].pc = pc
        /\ [f EXCEPT !.pc = pc].op = f.op /\ [f EXCEPT !.pc = pc].base = f.base
    BY <1>3, <2>1 DEF SyncFrames
  <2> QED  BY <1>3, <2>1, <2>2 DEF SetPc, GoesOn, Frames
<1>4. CASE Top.op = "flush"
  <2>1. PICK f \in FlushFrames : f = Top
    BY <1>2, <1>4
  <2>2. /\ [f EXCEPT !.pc = pc] \in FlushFrames /\ [f EXCEPT !.pc = pc].pc = pc
        /\ [f EXCEPT !.pc = pc].op = f.op /\ [f EXCEPT !.pc = pc].base = f.base
    BY <1>4, <2>1 DEF FlushFrames
  <2> QED  BY <1>4, <2>1, <2>2 DEF SetPc, GoesOn, Frames
<1> QED  BY <1>3, <1>4

\* SyncWait, PopPolls, PopPollsAgain, FlushWait, FlushPoll and FlushTest.
LEMMA WaitSteps ==
  ASSUME IInv, SyncWait \/ PopPolls \/ PopPollsAgain \/ FlushWait \/ FlushPoll \/ FlushTest
  PROVE  IInv'
<1>1. SameLists
  BY DEF SyncWait, PopPolls, PopPollsAgain, FlushWait, FlushPoll, FlushTest, SameLists, IInv, Typed
<1>2. stack # << >>
  BY DEF SyncWait, PopPolls, PopPollsAgain, FlushWait, FlushPoll, FlushTest, On, Idle
<1>3. CASE SyncWait
  <2>1. Top.op = "sync"
    BY <1>3 DEF SyncWait, On
  <2>2. CASE Top.req \in done
    <3>1. stack' = <<SetPc("pop")>> \o Tail(stack)
      BY <1>3, <2>2 DEF SyncWait
    <3>2. GoesOn(SetPc("pop")) /\ SetPc("pop").pc = "pop"
      BY <1>2, <2>1, SetPcIs
    <3> QED  BY <1>1, <3>1, <3>2, ContinueKept
  <2>3. CASE Top.req \notin done
    <3>1. stack' = <<Poll, SetPc("wait")>> \o Tail(stack)
      BY <1>3, <2>3 DEF SyncWait, Again
    <3>2. GoesOn(SetPc("wait"))
      BY <1>2, <2>1, SetPcIs
    <3> QED  BY <1>1, <3>1, <3>2, AgainKept
  <2> QED  BY <2>2, <2>3
<1>4. CASE PopPolls \/ PopPollsAgain
  <2>1. Top.op = "sync" /\ stack' = <<Poll, SetPc("popped")>> \o Tail(stack)
    BY <1>4 DEF PopPolls, PopPollsAgain, On, Again
  <2>2. GoesOn(SetPc("popped"))
    BY <1>2, <2>1, SetPcIs
  <2> QED  BY <1>1, <2>1, <2>2, AgainKept
<1>5. CASE FlushWait
  <2>1. Top.op = "flush" /\ stack' = <<Poll, SetPc("poll")>> \o Tail(stack)
    BY <1>5 DEF FlushWait, On, Again
  <2>2. GoesOn(SetPc("poll"))
    BY <1>2, <2>1, SetPcIs
  <2> QED  BY <1>1, <2>1, <2>2, AgainKept
<1>6. CASE FlushPoll
  <2>1. Top.op = "flush" /\ stack' = <<Poll, SetPc("test")>> \o Tail(stack)
    BY <1>6 DEF FlushPoll, On, Again
  <2>2. GoesOn(SetPc("test"))
    BY <1>2, <2>1, SetPcIs
  <2> QED  BY <1>1, <2>1, <2>2, AgainKept
<1>7. CASE FlushTest
  <2>1. Top.op = "flush"
    BY <1>7 DEF FlushTest, On
  <2>2. CASE ret
    <3>1. stack' = <<SetPc("wait")>> \o Tail(stack)
      BY <1>7, <2>2 DEF FlushTest
    <3>2. GoesOn(SetPc("wait")) /\ SetPc("wait").pc = "wait"
      BY <1>2, <2>1, SetPcIs
    <3> QED  BY <1>1, <3>1, <3>2, ContinueKept
  <2>3. CASE ~ret
    <3>1. stack' = Tail(stack)
      BY <1>7, <2>3 DEF FlushTest
    <3>2. stack' = << >> /\ Shape(stack', Len(contexts)) /\ WalkOn(stack', contexts, scheduled)
      BY <1>2, <2>1, <3>1, Below DEF Under
    <3> QED  BY <1>1, <3>2, SameListsKept DEF IInv, WalkOK, DrainOK
  <2> QED  BY <2>2, <2>3
<1> QED  BY <1>3, <1>4, <1>5, <1>6, <1>7
----------------------------------------------------------------------------
(* The walk.                                                               *)

\* The link of a bottom half on the n-th list: its neighbour there.
LEMMA SuccIs ==
  ASSUME IInv, NEW n \in 1 .. Len(contexts), NEW j \in 1 .. Len(contexts[n]),
         NEW b, b = contexts[n][j]
  PROVE  Succ(b) = IF j = Len(contexts[n]) THEN NULL ELSE contexts[n][j + 1]
<1>1. /\ DOMAIN contexts = 1 .. Len(contexts)
      /\ contexts[n] \in Seq(BHs)
  BY ListsAre
<1>2. DOMAIN contexts[n] = 1 .. Len(contexts[n]) /\ b \in ToSet(contexts[n])
  BY <1>1 DEF ToSet
<1>3. \A i \in DOMAIN contexts : b \in ToSet(contexts[i]) => i = n
  BY <1>1, <1>2 DEF IInv, ListsOK, Listed
<1>4. \A k \in DOMAIN contexts[n] : contexts[n][k] = b => k = j
  BY <1>1, <1>2 DEF IInv, ListsOK, Listed, IsInjective
<1> DEFINE i0 == CHOOSE i \in DOMAIN contexts : b \in ToSet(contexts[i])
           j0 == CHOOSE k \in DOMAIN contexts[i0] : contexts[i0][k] = b
<1>5. Succ(b) = IF j0 = Len(contexts[i0]) THEN NULL ELSE contexts[i0][j0 + 1]
  BY DEF Succ
<1>6. i0 = n
  BY <1>1, <1>2, <1>3
<1>7. j0 = j
  <2> HIDE DEF i0
  <2> QED  BY <1>2, <1>4, <1>6
<1> HIDE DEF i0, j0
<1> QED  BY <1>5, <1>6, <1>7

\* The innermost poll goes on as g.
LEMMA PollGoesOn ==
  ASSUME IInv, stack # << >>, Top.op = "poll", NEW g \in PollFrames, g.base = Top.base,
         stack' = <<g>> \o Tail(stack), contexts' = contexts,
         \A x \in scheduled' : x \in scheduled,
         Walks(g, current, scheduled')
  PROVE  Shape(stack, Len(contexts))' /\ WalkOK' /\ DrainOK'
<1>1. PICK n \in Nat \ {0} : n = Len(contexts)
  <2>1. Len(contexts) \in Nat \ {0}
    BY ListsAre
  <2> QED  BY <2>1
<1>2. /\ Shape(stack, n) /\ g \in Frames /\ g.op = stack[1].op /\ g.op = "poll" /\ g.base = stack[1].base
      /\ g.base = n
  BY <1>1, TopIs DEF IInv, Frames, PollFrames
<1>3. Shape(stack', n)
  BY <1>2, ShapeReplace
<1>4. /\ Tail(stack) \in Seq(Frames) /\ WalkOn(Tail(stack), contexts, scheduled)
      /\ \A i \in 1 .. Len(Tail(stack)) :
              Tail(stack)[i].op = "poll" => Tail(stack)[i].base \in 1 .. n
      /\ stack'[1] = g
  BY <1>1, <1>2, Below, Pushed
<1>5. \A i \in 1 .. n : contexts[i] \in Seq(BHs)
  BY <1>1, ListsAre
<1>6. WalkOn(Tail(stack), contexts, scheduled')
  BY <1>4, <1>5, Undisturbed
<1>7. Walks(g, contexts[g.base], scheduled')
  BY <1>1, <1>2, ListsAre
<1>8. WalkOn(stack', contexts, scheduled')
  BY <1>2, <1>4, <1>6, <1>7, WalkPush
<1>9. DrainOK'
  BY <1>2, <1>4 DEF DrainOK
<1> QED  BY <1>1, <1>3, <1>8, <1>9 DEF WalkOK

\* The walk passes the bottom half b on its list.
LEMMA WalkPasses ==
  ASSUME IInv, NEW f \in PollFrames, f.base = Len(contexts), Walks(f, current, scheduled),
         f.run = NULL, NEW b \in BHs, f.next = b, NEW runs \in BOOLEAN, NEW g \in PollFrames,
         g.base = f.base, g.next = Succ(b), g.run = IF runs THEN b ELSE NULL,
         g.ret = (f.ret \/ (runs /\ b \notin idle))
  PROVE  Walks(g, current, scheduled \ {b})
<1>1. PICK n \in Nat \ {0} : n = Len(contexts)
  <2>1. Len(contexts) \in Nat \ {0}
    BY ListsAre
  <2> QED  BY <2>1
<1>2. PICK list \in Seq(BHs) : list = contexts[n] /\ list = current
  BY <1>1, ListsAre
<1>3. b \in ToSet(list) /\ b # NULL
  BY <1>2, ListsAre DEF Walks
<1>4. PICK j \in 1 .. Len(list) : list[j] = b
  BY <1>3 DEF ToSet
<1>5. \A k \in 1 .. Len(list) : list[k] = b => k = j
  <2>1. n \in DOMAIN contexts
    BY <1>1, ListsAre
  <2>2. IsInjective(list) /\ DOMAIN list = 1 .. Len(list)
    <3>1. \A i \in DOMAIN contexts : IsInjective(contexts[i])
      BY DEF IInv, ListsOK, Listed
    <3>2. IsInjective(contexts[n])
      BY <2>1, <3>1
    <3> QED  BY <1>2, <3>2
  <2> QED  BY <1>4, <2>2 DEF IsInjective
<1>6. g.next = IF j = Len(list) THEN NULL ELSE list[j + 1]
  <2>1. n \in 1 .. Len(contexts) /\ j \in 1 .. Len(contexts[n]) /\ b = contexts[n][j]
    BY <1>1, <1>2, <1>4
  <2>2. Succ(b) = IF j = Len(contexts[n]) THEN NULL ELSE contexts[n][j + 1]
    BY <2>1, SuccIs
  <2>3. g.next = Succ(b) /\ contexts[n] = list
    BY <1>2
  <2> QED  BY <2>2, <2>3
<1>7. g.next # NULL => g.next \in ToSet(list)
  <2>1. j # Len(list) => j + 1 \in DOMAIN list
    OBVIOUS
  <2> QED  BY <1>6, <2>1 DEF ToSet
<1>8. g.run # NULL => g.run \in ToSet(list) /\ g.run \notin scheduled \ {b}
  BY <1>3
<1>9. ASSUME ~g.ret PROVE ~f.ret /\ (g.run # NULL => g.run \in IdleDevices)
  BY <1>9 DEF IInv, Typed
<1>10. ASSUME ~g.ret, NEW p \in 1 .. Len(list), list[p] \in (scheduled \ {b}) \cap Owed(g.base)
       PROVE  \E k \in 1 .. p : list[k] = g.next
  <2>1. PICK k \in 1 .. p : list[k] = b
    BY <1>2, <1>9, <1>10 DEF Walks
  <2>2. k = j /\ p # j
    BY <1>4, <1>5, <1>10, <2>1
  <2>3. j + 1 \in 1 .. p /\ j # Len(list)
    BY <2>1, <2>2
  <2> QED  BY <1>6, <2>3
<1> QED  BY <1>2, <1>7, <1>8, <1>9, <1>10 DEF Walks

\* Visit.
LEMMA VisitKept ==
  ASSUME IInv, Visit
  PROVE  IInv'
<1>1. stack # << >> /\ Top.op = "poll" /\ Top.run = NULL /\ Top.next # NULL
  BY DEF Visit, WalksOn, On, Idle
<1>2. PICK f \in PollFrames : f = Top
  BY <1>1, TopIs
<1>3. Walks(f, current, scheduled) /\ f.base = Len(contexts)
  BY <1>1, <1>2, TopIs
<1>4. PICK b \in BHs : b = f.next
  BY <1>1, <1>2 DEF PollFrames
<1>5. PICK runs : runs = (b \in scheduled \ deleted)
  OBVIOUS
<1>5a. runs \in BOOLEAN
  BY <1>5
<1>6. PICK s : s = Succ(b)
  OBVIOUS
<1>7. s \in BHs \cup {NULL}
  <2>1. PICK n \in Nat \ {0} : n = Len(contexts)
    <3>1. Len(contexts) \in Nat \ {0}
      BY ListsAre
    <3> QED  BY <3>1
  <2>2. contexts[n] \in Seq(BHs) /\ n \in 1 .. n /\ b \in ToSet(contexts[n])
    BY <1>1, <1>2, <1>3, <1>4, <2>1, ListsAre DEF Walks
  <2>3. PICK j \in 1 .. Len(contexts[n]) : contexts[n][j] = b
    BY <2>2 DEF ToSet
  <2>4. s = IF j = Len(contexts[n]) THEN NULL ELSE contexts[n][j + 1]
    BY <1>6, <2>1, <2>2, <2>3, SuccIs
  <2> QED  BY <2>2, <2>3, <2>4
<1>8. PICK ot \in BOOLEAN : ot = (b \notin idle)
  OBVIOUS
<1>9. PICK g : g = [f EXCEPT !.next = s, !.run = IF runs THEN b ELSE NULL, !.ret = @ \/ (runs /\ ot)]
  OBVIOUS
<1>10. /\ g \in PollFrames /\ g.base = f.base /\ g.next = s
       /\ g.run = IF runs THEN b ELSE NULL
  BY <1>7, <1>9 DEF PollFrames
<1>11. g.ret = (f.ret \/ (runs /\ ot))
  BY <1>9 DEF PollFrames
<1>12. /\ stack' = <<g>> \o Tail(stack)
       /\ scheduled' = scheduled \ {b}
       /\ idle' \subseteq idle
       /\ UNCHANGED <<contexts, deleted, ret, done, ops>>
  BY <1>2, <1>4, <1>5, <1>6, <1>8, <1>9 DEF Visit
<1>13. Walks(g, current, scheduled \ {b})
  BY <1>1, <1>2, <1>3, <1>4, <1>5a, <1>6, <1>8, <1>10, <1>11, WalkPasses
<1>14. Shape(stack, Len(contexts))' /\ WalkOK' /\ DrainOK'
  BY <1>1, <1>2, <1>10, <1>12, <1>13, PollGoesOn
<1>15. Typed'
  BY <1>12 DEF IInv, Typed
<1>16. ListsOK'
  <2>1. \A x : Allocated(x)' <=> Allocated(x)
    BY <1>12 DEF Allocated
  <2> QED  BY <1>12, <2>1 DEF IInv, ListsOK
<1> QED  BY <1>14, <1>15, <1>16 DEF IInv

\* Return.
LEMMA ReturnKept ==
  ASSUME IInv, Return
  PROVE  IInv'
<1>1. stack # << >> /\ Top.op = "poll" /\ Top.run # NULL
  BY DEF Return, InCallback, On, Idle
<1>2. PICK f \in PollFrames : f = Top
  BY <1>1, TopIs
<1>3. Walks(f, current, scheduled) /\ f.base = Len(contexts)
  BY <1>1, <1>2, TopIs
<1>4. PICK g : g = [f EXCEPT !.run = NULL]
  OBVIOUS
<1>5. /\ g \in PollFrames /\ g.base = f.base /\ g.next = f.next /\ g.run = NULL
      /\ g.ret = f.ret
  BY <1>4 DEF PollFrames
<1>6. /\ stack' = <<g>> \o Tail(stack)
      /\ deleted' = IF f.run \in Devices THEN deleted ELSE deleted \cup {f.run}
      /\ done' = IF f.run \in Requests THEN done \cup {f.run} ELSE done
      /\ UNCHANGED <<contexts, scheduled, idle, ret, ops>>
  BY <1>2, <1>4 DEF Return
<1>7. Walks(g, current, scheduled)
  BY <1>3, <1>5 DEF Walks
<1>8. Shape(stack, Len(contexts))' /\ WalkOK' /\ DrainOK'
  BY <1>1, <1>2, <1>5, <1>6, <1>7, PollGoesOn
<1>9. f.run \in BHs /\ f.run \in ToSet(current) /\ (f.run \notin Devices => f.run \notin scheduled)
  BY <1>1, <1>2, <1>3 DEF Walks, PollFrames
<1>10. Typed'
  BY <1>6, <1>9 DEF IInv, Typed
<1>11. ListsOK'
  <2>1. \A x : Allocated(x)' <=> Allocated(x)
    BY <1>6 DEF Allocated
  <2>2. Allocated(f.run)
    BY <1>9, ListsAre DEF Allocated
  <2> QED  BY <1>6, <1>9, <2>1, <2>2 DEF IInv, ListsOK
<1> QED  BY <1>8, <1>10, <1>11 DEF IInv

\* PollEnds.
LEMMA PollEndsKept ==
  ASSUME IInv, PollEnds
  PROVE  IInv'
<1>1. stack # << >> /\ Top.op = "poll" /\ Top.run = NULL /\ Top.next = NULL
  BY DEF PollEnds, WalksOn, On, Idle
<1>2. PICK n \in Nat \ {0} : n = Len(contexts)
  <2>1. Len(contexts) \in Nat \ {0}
    BY ListsAre
  <2> QED  BY <2>1
<1>3. PICK list \in Seq(BHs) : list = contexts[n] /\ list = current
  BY <1>2, ListsAre
<1>4. PICK kept : kept = Without(list, deleted)
  OBVIOUS
<1>5. kept \in Seq(BHs) /\ ToSet(kept) = ToSet(list) \ deleted /\ (IsInjective(list) => IsInjective(kept))
  BY <1>4, WithoutIs
<1>6. /\ contexts' = InCurrent(kept) /\ deleted' = deleted \ ToSet(list)
      /\ ret' = Top.ret /\ stack' = Tail(stack) /\ UNCHANGED <<scheduled, idle, done, ops>>
  BY <1>3, <1>4 DEF PollEnds
<1>7. /\ contexts' \in Seq(Seq(BHs)) /\ Len(contexts') = n /\ contexts'[n] = kept
      /\ \A i \in 1 .. n - 1 : contexts'[i] = contexts[i]
      /\ DOMAIN contexts' = 1 .. n /\ DOMAIN contexts = 1 .. n /\ n \in 1 .. n
  <2>1. /\ contexts' \in Seq(Seq(BHs)) /\ Len(contexts') = n /\ contexts'[n] = kept
        /\ \A i \in 1 .. n - 1 : contexts'[i] = contexts[i]
    BY <1>2, <1>5, <1>6, ListsAre, InCurrentIs
  <2> QED  BY <1>2, <2>1, ListsAre
<1>8. \A i \in 1 .. n : i # n => contexts'[i] = contexts[i]
  <2> SUFFICES ASSUME NEW i \in 1 .. n, i # n PROVE contexts'[i] = contexts[i]
    OBVIOUS
  <2>1. i \in 1 .. n - 1
    OBVIOUS
  <2> QED  BY <1>7, <2>1
<1>9. Typed'
  <2>1. Top.ret \in BOOLEAN
    BY <1>1, TopIs DEF PollFrames
  <2> QED  BY <1>2, <1>6, <1>7, <2>1 DEF IInv, Typed
<1>10. Shape(stack, Len(contexts))'
  BY <1>1, <1>2, <1>6, <1>7, Below
<1>11. ListsOK'
  <2>1. Listed(contexts')
    <3>1. \A i \in DOMAIN contexts' : IsInjective(contexts'[i])
      BY <1>3, <1>5, <1>7, <1>8 DEF IInv, ListsOK, Listed
    <3>2. \A i \in DOMAIN contexts' : \A x \in ToSet(contexts'[i]) :
            (i = 0 /\ x = NULL) \/ (i \in DOMAIN contexts /\ x \in ToSet(contexts[i]))
      BY <1>3, <1>5, <1>7, <1>8
    <3>3. \A i \in DOMAIN contexts : NULL \notin ToSet(contexts[i])
      BY ListsAre
    <3>4. Listed(contexts) /\ PartsOf(contexts', contexts, 0, NULL)
      BY <3>1, <3>2, <3>3 DEF IInv, ListsOK, PartsOf
    <3> QED  BY <3>4, ListedFrom
  <2>2. ASSUME NEW x \in scheduled' \cup deleted' PROVE Allocated(x)'
    <3>1. PICK i \in 1 .. n : x \in ToSet(contexts[i])
      BY <1>6, <1>7 DEF IInv, ListsOK, Allocated
    <3>2. CASE i # n
      BY <1>7, <1>8, <3>1, <3>2 DEF Allocated
    <3>3. CASE i = n
      <4>1. x \in scheduled /\ x \notin deleted
        BY <1>3, <1>6, <3>1, <3>3 DEF IInv, ListsOK
      <4>2. x \in ToSet(contexts'[n])
        BY <1>3, <1>5, <1>7, <3>1, <3>3, <4>1
      <4> QED  BY <1>7, <4>2 DEF Allocated
    <3> QED  BY <3>2, <3>3
  <2>3. scheduled' \cap deleted' = {}
    BY <1>6 DEF IInv, ListsOK
  <2>4. \A i \in DOMAIN contexts' : i > 1 => ToSet(contexts'[i]) \cap Devices = {}
    BY <1>3, <1>5, <1>7, <1>8 DEF IInv, ListsOK
  <2> QED  BY <2>1, <2>2, <2>3, <2>4 DEF ListsOK
<1>12. WalkOK'
  <2>1. /\ WalkOn(Tail(stack), contexts, scheduled) /\ n - 1 \in Nat
        /\ \A i \in 1 .. Len(Tail(stack)) :
              Tail(stack)[i].op = "poll" => Tail(stack)[i].base \in 1 .. n - 1
    <3>1. n - 1 \in Nat
      BY <1>2
    <3> QED  BY <1>1, <1>2, <3>1, Below
  <2>2. \A i \in 1 .. n - 1 : contexts[i] \in Seq(BHs) /\ contexts'[i] = contexts[i]
    <3>1. \A i \in 1 .. n - 1 : i \in 1 .. n
      OBVIOUS
    <3> QED  BY <1>2, <1>7, <3>1, ListsAre
  <2>3. WalkOn(Tail(stack), contexts', scheduled)
    BY <2>1, <2>2, Undisturbed
  <2> QED  BY <1>6, <2>3 DEF WalkOK
<1>13. DrainOK'
  <2>1. ASSUME ~ret' PROVE scheduled \cap Owed(n) \cap ToSet(list) = {}
    <3>1. Walks(Top, list, scheduled) /\ Top.base = n
      BY <1>1, <1>2, <1>3, TopIs
    <3>2. \A j \in 1 .. Len(list) : list[j] # NULL
      BY ListsAre
    <3>3. \A j \in 1 .. Len(list) : list[j] \notin scheduled \cap Owed(n)
      BY <1>1, <1>6, <2>1, <3>1, <3>2 DEF Walks
    <3> QED  BY <3>3 DEF ToSet
  <2>2. current' = kept
    BY <1>7 DEF current, Last
  <2> QED  BY <1>5, <1>6, <1>7, <2>1, <2>2 DEF DrainOK
<1> QED  BY <1>9, <1>10, <1>11, <1>12, <1>13 DEF IInv
\* Popped: async_context_pop leaves nothing behind that is scheduled.
LEMMA PoppedKept ==
  ASSUME IInv, Popped
  PROVE  IInv'
<1>1. stack # << >> /\ Top.op = "sync" /\ Top.pc = "popped" /\ ~ret
  BY DEF Popped, On, Idle
<1>2. PICK n \in Nat \ {0} : n = Len(contexts)
  <2>1. Len(contexts) \in Nat \ {0}
    BY ListsAre
  <2> QED  BY <2>1
<1>3. /\ Tail(stack) \in Seq(Frames) /\ Shape(Tail(stack), n - 1)
      /\ Tail(stack) # << >> => Under(Top, Tail(stack)[1])
      /\ Tail(stack) = << >> => Outermost(Top)
      /\ WalkOn(Tail(stack), contexts, scheduled)
      /\ \A i \in 1 .. Len(Tail(stack)) : Tail(stack)[i] \in Frames
      /\ Top.base = n
  BY <1>1, <1>2, Below, TopIs
<1>4. PICK t : t = Tail(stack)
  OBVIOUS
<1>5. /\ t \in Seq(Frames) /\ Len(t) \in Nat /\ (t = << >> <=> Len(t) = 0)
  <2>1. t \in Seq(Frames) /\ Len(t) \in Nat
    BY <1>3, <1>4
  <2> QED  BY <2>1, EmptySeq
<1>6. t # << >> => /\ t[1] \in PollFrames /\ t[1].op = "poll" /\ t[1].run # NULL /\ t[1].base = n - 1
                   /\ 1 \in 1 .. Len(t) /\ n - 1 \in Nat
  <2> SUFFICES ASSUME t # << >>
               PROVE  /\ t[1] \in PollFrames /\ t[1].op = "poll" /\ t[1].run # NULL /\ t[1].base = n - 1
                      /\ 1 \in 1 .. Len(t) /\ n - 1 \in Nat
    OBVIOUS
  <2>1. 1 \in 1 .. Len(t) /\ t[1] \in Frames
    BY <1>5
  <2>2. t[1].base \in Nat /\ (t[1].op = "poll" => t[1] \in PollFrames)
    BY <2>1, Bases
  <2>3. t[1].op = "poll" /\ t[1].run # NULL /\ n = t[1].base + 1
    BY <1>1, <1>3, <1>4 DEF Under
  <2> QED  BY <2>1, <2>2, <2>3
<1>7. n >= 2
  <2>1. CASE t = << >>
    BY <1>1, <1>3, <1>4, <2>1 DEF Outermost
  <2>2. CASE t # << >>
    <3>1. t[1].base \in 1 .. n - 1
      BY <1>3, <1>4, <1>6, <2>2, Suspended
    <3> QED  BY <3>1
  <2> QED  BY <2>1, <2>2
<1>8. PICK m \in Nat \ {0} : m = n - 1
  BY <1>7
<1>9. PICK b \in Completers : b = Fresh(Completers) /\ \A i \in 1 .. n : b \notin ToSet(contexts[i])
  BY <1>2, FreshIs, ListsAre DEF Popped
<1>10. /\ contexts' = Front(Front(contexts)) \o <<(<<b>> \o Last(Front(contexts)))>>
       /\ scheduled' = scheduled \cup {b} /\ deleted' = deleted \ ToSet(contexts[n])
       /\ stack' = t /\ UNCHANGED <<idle, ret, done, ops>>
  BY <1>2, <1>4, <1>9 DEF Popped, current, Last
<1>11. /\ b \in BHs /\ b \notin Devices /\ b \notin Requests /\ b \notin deleted
       /\ DOMAIN contexts = 1 .. n
       /\ \A i \in 1 .. n : contexts[i] \in Seq(BHs)
       /\ m \in 1 .. n /\ m \in 1 .. m
  BY <1>2, <1>8, <1>9, ListsAre, AsyncAssumption DEF IInv, ListsOK, Allocated, BHs
<1>12. PICK list \in Seq(BHs) : list = contexts[m]
  BY <1>11
<1>13. PICK long : long = <<b>> \o list
  OBVIOUS
<1>14. /\ long \in Seq(BHs) /\ ToSet(long) = ToSet(list) \cup {b}
       /\ IsInjective(list) => IsInjective(long)
  BY <1>9, <1>11, <1>12, <1>13, Prepended
<1>15. /\ contexts' \in Seq(Seq(BHs)) /\ Len(contexts') = m /\ contexts'[m] = long
       /\ \A i \in 1 .. m : i # m => contexts'[i] = contexts[i]
       /\ DOMAIN contexts' = 1 .. m
  <2>1. PICK c : c = contexts'
    OBVIOUS
  <2>2. /\ c \in Seq(Seq(BHs)) /\ Len(c) = n - 1 /\ c[n - 1] = <<b>> \o contexts[n - 1]
        /\ \A i \in 1 .. n - 2 : c[i] = contexts[i]
    <3>1. contexts \in Seq(Seq(BHs)) /\ Len(contexts) \in Nat /\ Len(contexts) >= 2
      BY <1>2, <1>7, ListsAre
    <3>2. c = Front(Front(contexts)) \o <<(<<b>> \o Last(Front(contexts)))>>
      BY <1>10, <2>1
    <3> QED  BY <1>2, <1>11, <3>1, <3>2, OuterIs
  <2>3. \A i \in 1 .. m : i # m => i \in 1 .. n - 2
    BY <1>8
  <2> QED  BY <1>8, <1>12, <1>13, <2>1, <2>2, <2>3
<1>16. scheduled \cap ToSet(contexts[n]) = {}
  <2>1. Owed(n) = BHs
    BY <1>7 DEF Owed
  <2>2. stack[1] = Top
    BY <1>1, TopIs
  <2>3. scheduled \cap Owed(n) \cap ToSet(contexts[n]) = {}
    BY <1>1, <1>2, <2>2 DEF IInv, DrainOK, current, Last
  <2> QED  BY <2>1, <2>3 DEF IInv, Typed
<1>17. Typed'
  <2>1. n \in 1 .. MaxContexts /\ MaxContexts \in Nat
    BY <1>2, AsyncAssumption DEF IInv, Typed
  <2>2. m \in 1 .. MaxContexts
    BY <1>8, <2>1
  <2> QED  BY <1>10, <1>11, <1>15, <2>2 DEF IInv, Typed
<1>18. Shape(stack, Len(contexts))'
  BY <1>3, <1>4, <1>8, <1>10, <1>15
<1>19. ListsOK'
  <2>1. Listed(contexts')
    <3>1. \A i \in DOMAIN contexts' : IsInjective(contexts'[i])
      BY <1>8, <1>11, <1>12, <1>14, <1>15 DEF IInv, ListsOK, Listed
    <3>2. \A i \in DOMAIN contexts' : \A x \in ToSet(contexts'[i]) :
            (i = m /\ x = b) \/ (i \in DOMAIN contexts /\ x \in ToSet(contexts[i]))
      BY <1>8, <1>11, <1>12, <1>14, <1>15
    <3>3. Listed(contexts) /\ PartsOf(contexts', contexts, m, b)
      BY <1>9, <1>11, <3>1, <3>2 DEF IInv, ListsOK, PartsOf
    <3> QED  BY <3>3, ListedFrom
  <2>2. ASSUME NEW x \in scheduled' \cup deleted' PROVE Allocated(x)'
    <3>1. CASE x = b
      BY <1>11, <1>14, <1>15, <3>1 DEF Allocated
    <3>2. CASE x # b
      <4>1. x \in scheduled \cup deleted /\ x \notin ToSet(contexts[n])
        BY <1>10, <1>16, <2>2, <3>2
      <4>2. PICK i \in 1 .. n : x \in ToSet(contexts[i])
        BY <1>11, <4>1 DEF IInv, ListsOK, Allocated
      <4>3. i \in 1 .. m
        BY <1>8, <4>1, <4>2
      <4>4. x \in ToSet(contexts'[i])
        BY <1>12, <1>14, <1>15, <4>2, <4>3
      <4> QED  BY <1>15, <4>3, <4>4 DEF Allocated
    <3> QED  BY <3>1, <3>2
  <2>3. scheduled' \cap deleted' = {}
    BY <1>10, <1>11 DEF IInv, ListsOK
  <2>4. ASSUME NEW i \in 1 .. m, i > 1 PROVE ToSet(contexts'[i]) \cap Devices = {}
    <3>1. i \in DOMAIN contexts
      BY <1>8, <1>11
    <3>2. ToSet(contexts[i]) \cap Devices = {}
      BY <2>4, <3>1 DEF IInv, ListsOK
    <3> QED  BY <1>11, <1>12, <1>14, <1>15, <3>2
  <2> QED  BY <1>15, <2>1, <2>2, <2>3, <2>4 DEF ListsOK
<1>20. WalkOn(t, contexts', scheduled')
  <2> SUFFICES ASSUME NEW i \in 1 .. Len(t), t[i].op = "poll"
               PROVE  Walks(t[i], contexts'[t[i].base], scheduled')
    BY DEF WalkOn
  <2>1. t # << >> /\ Shape(t, m)
    BY <1>3, <1>4, <1>5, <1>8
  <2>2. Walks(t[i], contexts[t[i].base], scheduled)
    BY <1>3, <1>4 DEF WalkOn
  <2>3. CASE i = 1
    <3>1. Walks(t[1], list, scheduled) /\ t[1].base = m
      BY <1>6, <1>8, <1>12, <2>1, <2>2, <2>3
    <3>2. ASSUME ~t[1].ret PROVE b \notin Owed(m)
      <4>1. t[1].run \in IdleDevices /\ t[1].run \in ToSet(list)
        BY <1>6, <2>1, <3>1, <3>2 DEF Walks
      <4>2. m = 1
        BY <1>11, <1>12, <4>1, AsyncAssumption DEF IInv, ListsOK
      <4> QED  BY <1>11, <4>2 DEF Owed
    <3>3. b \notin ToSet(list)
      BY <1>9, <1>11, <1>12
    <3>4. Walks(t[1], <<b>> \o list, scheduled \cup {b})
      BY <1>11, <3>1, <3>2, <3>3, WalksGrow
    <3> QED  BY <1>10, <1>13, <1>15, <2>3, <3>1, <3>4
  <2>4. CASE i # 1
    <3>1. i > 1
      BY <2>4
    <3>2. t[i].base \in 1 .. m /\ t[i].base < m
      BY <2>1, <3>1, Suspended
    <3>3. t[i].base \in 1 .. n /\ t[i].base # m
      BY <1>8, <3>2
    <3>4. PICK l \in Seq(BHs) : l = contexts[t[i].base]
      BY <1>11, <3>3
    <3>5. \A x \in scheduled' \cap ToSet(l) : x \in scheduled
      BY <1>9, <1>10, <3>3, <3>4
    <3>6. Walks(t[i], l, scheduled')
      BY <2>2, <3>4, <3>5, WalksSame
    <3> QED  BY <1>15, <3>2, <3>3, <3>4, <3>6
  <2> QED  BY <2>3, <2>4
<1>21. DrainOK'
  BY <1>6, <1>10 DEF DrainOK
<1> QED  BY <1>10, <1>17, <1>18, <1>19, <1>20, <1>21 DEF IInv, WalkOK

----------------------------------------------------------------------------
(* The theorems.                                                           *)

\* The list of devices names each of them once.
LEMMA DeviceList ==
  SetToSeq(Devices) \in Seq(Devices) /\ IsInjective(SetToSeq(Devices))
<1>1. PICK n \in Nat : ExistsBijection(1 .. n, Devices)
  BY AsyncAssumption, FS_NatBijection
<1>2. Cardinality(Devices) = n
  BY <1>1, FS_CountingElements, AsyncAssumption
<1>3. PICK f \in [1 .. n -> Devices] : IsInjective(f)
  BY <1>1 DEF ExistsBijection, Bijection, Injection, IsInjective
<1>4. SetToSeq(Devices) \in [1 .. n -> Devices] /\ IsInjective(SetToSeq(Devices))
  BY <1>2, <1>3 DEF SetToSeq
<1> QED  BY <1>4

\* Initially there is one context with the devices' bottom halves.
LEMMA InitOK ==
  ASSUME Init
  PROVE  IInv
<1>1. PICK list : list = SetToSeq(Devices)
  OBVIOUS
<1>2. list \in Seq(BHs) /\ IsInjective(list)
  <2>1. list \in Seq(Devices) /\ IsInjective(list)
    BY <1>1, DeviceList
  <2> QED  BY <2>1 DEF BHs
<1>3. contexts \in Seq(Seq(BHs)) /\ Len(contexts) = 1 /\ contexts[1] = list /\ DOMAIN contexts = {1}
  <2> DEFINE L == Seq(BHs)
  <2>1. contexts = <<list>> /\ list \in L
    BY <1>1, <1>2 DEF Init
  <2> HIDE DEF L
  <2>2. contexts \in Seq(L) /\ Len(contexts) = 1 /\ contexts[1] = list /\ DOMAIN contexts = {1}
    BY <2>1
  <2> QED  BY <2>2 DEF L
<1>4. Typed
  <2>1. 1 \in 1 .. MaxContexts /\ 0 \in 0 .. MaxOps
    BY AsyncAssumption
  <2>2. /\ scheduled = {} /\ idle = {} /\ deleted = {} /\ ret = FALSE /\ done = {} /\ ops = 0
    BY DEF Init
  <2>3. ret \in BOOLEAN
    BY <2>2
  <2> QED  BY <1>3, <2>1, <2>2, <2>3 DEF Typed
<1>5. stack = << >> /\ Len(stack) = 0 /\ stack \in Seq(Frames)
  BY DEF Init
<1>6. Shape(stack, Len(contexts))
  BY <1>3, <1>5 DEF Shape
<1>7. ListsOK
  BY <1>2, <1>3 DEF ListsOK, Listed, Init
<1>8. WalkOK /\ DrainOK
  BY <1>5 DEF WalkOK, WalkOn, DrainOK
<1> QED  BY <1>4, <1>6, <1>7, <1>8 DEF IInv

\* Every step keeps the invariant.
LEMMA StepOK ==
  ASSUME StopOnError = FALSE, IInv, [Next]_vars
  PROVE  IInv'
<1>1. CASE Code
  <2>1. CASE \E b \in BHs : qemu_bh_schedule(b) \/ qemu_bh_cancel(b) \/ qemu_bh_delete(b)
    BY <2>1, FlagSteps
  <2>2. CASE bdrv_aio_rw_vector
    BY <2>2, AsyncStarts
  <2>3. CASE bdrv_read_em
    BY <2>3, SyncStarts
  <2>4. CASE qemu_aio_flush
    BY <2>4, MainSteps
  <2> QED  BY <1>1, <2>1, <2>2, <2>3, <2>4 DEF Code
<1>2. CASE Step
  <2>1. CASE main_loop_wait
    BY <2>1, MainSteps
  <2>2. CASE Visit
    BY <2>2, VisitKept
  <2>3. CASE Return
    BY <2>3, ReturnKept
  <2>4. CASE PollEnds
    BY <2>4, PollEndsKept
  <2>5. CASE SyncWait \/ PopPolls \/ PopPollsAgain \/ FlushWait \/ FlushPoll \/ FlushTest
    BY <2>5, WaitSteps
  <2>6. CASE Popped
    BY <2>6, PoppedKept
  <2> QED  BY <1>2, <2>1, <2>2, <2>3, <2>4, <2>5, <2>6 DEF Step
<1>3. CASE UNCHANGED vars
  <2>1. \A x : Allocated(x)' <=> Allocated(x)
    BY <1>3 DEF vars, Allocated
  <2>2. Typed' /\ Shape(stack, Len(contexts))' /\ ListsOK'
    BY <1>3, <2>1 DEF IInv, Typed, ListsOK, vars, bhVars
  <2>3. WalkOK' /\ DrainOK'
    BY <1>3 DEF IInv, WalkOK, DrainOK, vars, bhVars, current
  <2> QED  BY <2>2, <2>3 DEF IInv
<1> QED  BY <1>1, <1>2, <1>3 DEF Next

\* The inductive invariant holds of every behaviour in which no completion stops
\* the VM.
THEOREM Invariance ==
  ASSUME StopOnError = FALSE
  PROVE  Spec => []IInv
<1>1. Init => IInv
  BY InitOK
<1>2. IInv /\ [Next]_vars => IInv'
  BY StepOK
<1> QED  BY <1>1, <1>2, PTL DEF Spec

\* No bottom half is lost or listed twice, whatever callbacks and nested synchronous
\* requests do (qemu_bh_new, qemu_bh_poll, async_context_pop).
THEOREM ListsAreSound ==
  ASSUME StopOnError = FALSE
  PROVE  Spec => []ListsSound
<1>1. ASSUME IInv PROVE ListsSound
  <2>1. NoneLost
    BY <1>1 DEF IInv, ListsOK, Listed, NoneLost
  <2>2. \A i \in DOMAIN stack : stack[i].op \in {"poll", "sync", "flush"}
    BY <1>1, Bases DEF IInv, Shape
  <2>3. \A i \in DOMAIN contexts : ToSet(contexts[i]) \subseteq BHs
    BY <1>1, ListsAre
  <2>4. TypeOK
    BY <1>1, <2>2, <2>3, AsyncAssumption DEF IInv, Typed, TypeOK, BHs
  <2> QED  BY <2>1, <2>4 DEF ListsSound
<1>2. IInv => ListsSound
  BY <1>1
<1> QED  BY <1>2, Invariance, PTL

\* While a synchronous request waits, only callbacks begun after it run
\* (async_context_push, qemu_bh_poll).
THEOREM RequestsAreIsolated ==
  ASSUME StopOnError = FALSE
  PROVE  Spec => []Isolated
<1>1. ASSUME IInv PROVE Isolated
  <2> SUFFICES ASSUME NEW i \in DOMAIN stack, NEW j \in DOMAIN stack,
                      i < j, stack[j].op = "sync", stack[i].op = "poll", stack[i].run # NULL
               PROVE  \E k \in stack[j].base .. Len(contexts) : stack[i].run \in ToSet(contexts[k])
    BY DEF Isolated
  <2>1. i \in 1 .. Len(stack) /\ j \in 1 .. Len(stack)
    BY <1>1 DEF IInv, Shape
  <2>2. /\ stack[i].base \in 1 .. Len(contexts) /\ stack[j].base \in 1 .. Len(contexts)
        /\ Len(contexts) \in Nat
    BY <1>1, <2>1, Suspended, ListsAre DEF IInv
  <2>3. stack[i].base >= stack[j].base
    BY <1>1, <2>1 DEF IInv, Shape
  <2>4. stack[i].run \in ToSet(contexts[stack[i].base])
    BY <1>1, <2>1 DEF IInv, WalkOK, WalkOn, Walks
  <2>5. stack[i].base \in stack[j].base .. Len(contexts)
    BY <2>2, <2>3
  <2> QED  BY <2>4, <2>5
<1>2. IInv => Isolated
  BY <1>1
<1> QED  BY <1>2, Invariance, PTL
\* When qemu_aio_flush returns, no request is outstanding in its context: the last
\* poll ran nothing but idle bottom halves, and a walk that runs nothing else has
\* passed no request that is scheduled.
THEOREM FlushLeavesNothing ==
  ASSUME StopOnError = FALSE
  PROVE  Spec => FlushDrains
<1>1. ASSUME IInv, [Next]_vars, On("flush"), Len(stack') < Len(stack)
      PROVE  scheduled \cap Requests \cap ToSet(current) = {}
  <2>1. /\ stack # << >> /\ Top.op = "flush" /\ stack[1] = Top /\ Len(stack) \in Nat
        /\ Top.base = Len(contexts)
    BY <1>1, TopIs DEF On, Idle
  <2>2. ~Idle /\ ~InCallback /\ ~WalksOn /\ ~On("sync")
    BY <2>1 DEF Idle, InCallback, WalksOn, On
  <2>3. FlushWait \/ FlushPoll \/ FlushTest \/ UNCHANGED vars
    BY <1>1, <2>2 DEF Next, Code, Step, qemu_bh_schedule, qemu_bh_cancel, qemu_bh_delete,
       StartsRequests, CodeRuns, bdrv_aio_rw_vector, bdrv_read_em, qemu_aio_flush, main_loop_wait,
       Visit, Return, PollEnds, SyncWait, PopPolls, PopPollsAgain, Popped
  <2>4. ~ UNCHANGED vars
    BY <1>1, <2>1 DEF vars
  <2>5. \A g \in Frames : Len(<<g>> \o Tail(stack)) = Len(stack)
    BY <2>1, Pushed, Taken DEF IInv, Shape
  <2>6. ~FlushWait /\ ~FlushPoll
    <3>1. ASSUME NEW pc \in {"poll", "test"}, Again(pc) PROVE FALSE
      <4>1. SetPc(pc) \in Frames /\ Poll \in Frames
        BY <1>1, <2>1, SetPcIs, PollStarts DEF GoesOn
      <4>2. Tail(stack) \in Seq(Frames) /\ Len(Tail(stack)) = Len(stack) - 1
        BY <1>1, <2>1, TopIs, Taken
      <4>3. PICK p \in Frames, g \in Frames, r \in Seq(Frames) :
              p = Poll /\ g = SetPc(pc) /\ r = Tail(stack)
        BY <4>1, <4>2
      <4>4. stack' = <<p, g>> \o r
        BY <3>1, <4>3 DEF Again
      <4>5. Len(<<p, g>> \o r) = Len(r) + 2 /\ Len(r) = Len(stack) - 1
        BY <4>2, <4>3
      <4> QED  BY <1>1, <2>1, <4>4, <4>5
    <3> QED  BY <3>1 DEF FlushWait, FlushPoll
  <2>7. FlushTest
    BY <2>3, <2>4, <2>6
  <2>8. ~ret
    <3> SUFFICES ASSUME ret PROVE FALSE
      OBVIOUS
    <3>1. stack' = <<SetPc("wait")>> \o Tail(stack)
      BY <2>7 DEF FlushTest
    <3>2. SetPc("wait") \in Frames
      BY <1>1, <2>1, SetPcIs DEF GoesOn
    <3>3. Len(stack') = Len(stack)
      BY <2>5, <3>1, <3>2
    <3> QED  BY <1>1, <2>1, <3>3
  <2>9. Top.pc = "test"
    BY <2>7 DEF FlushTest
  <2>10. scheduled \cap Owed(Len(contexts)) \cap ToSet(current) = {}
    BY <1>1, <2>1, <2>8, <2>9 DEF IInv, DrainOK
  <2> QED  BY <2>10 DEF Owed, BHs
<1>2. IInv /\ [Next]_vars =>
        [On("flush") /\ Len(stack') < Len(stack) => scheduled \cap Requests \cap ToSet(current) = {}]_vars
  BY <1>1
<1> QED  BY <1>2, Invariance, PTL DEF Spec, FlushDrains
===========================================================================

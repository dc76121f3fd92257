--------------------------- MODULE NetQueueProofs ---------------------------
(***************************************************************************)
(* For any clients, pairs and VLANs, any packets and changes by the        *)
(* operator: a receive handler is never entered twice or after its client  *)
(* is gone; a sent callback is due to exactly the clients that wait for    *)
(* one; a queue that holds packets is flushed by someone (one NIC at       *)
(* most); and packets between a pair arrive in order, none twice or lost.  *)
(*                                                                         *)
(* None is inductive.  That handlers are not entered twice is known        *)
(* from the calls in progress: a delivery has its queue to itself          *)
(* (Turns), in a pair a queue is that of one client (Frames), and the      *)
(* client is there because the other one's link goes down when it is       *)
(* deleted (Pair).  That callbacks are exact is known from where a packet  *)
(* with a callback can be: in one queue, or in one delivery, and never in  *)
(* two places (Once, Waits).  That queues are flushed is known from what   *)
(* each delivery has met so far (OInv), and that packets stay in order     *)
(* from the line they form, got, being delivered and queued (PInv): a NIC  *)
(* or TAP sends nothing while a packet of its own is queued, and slirp's   *)
(* packets are only queued while their receiver refuses all that are sent. *)
(***************************************************************************)
EXTENDS NetQueue, SequenceTheorems, FiniteSetTheorems, TLAPS

----------------------------------------------------------------------------
(* Types.                                                                  *)

Queues == Clients \cup {Hub}

Deliveries ==
  [pc : {"deliver", "receive"}, q : Queues, pkt : Packet, iov : BOOLEAN,
   queued : BOOLEAN, todo : Seq(Clients), ret : {-1, 0, 1}, at : Queues]
Callbacks == [pc : {"cb", "abort"}, q : Queues, at : Clients]
Flushes == [pc : {"flush"}, q : Queues]

AllFrames == Deliveries \cup Callbacks \cup Flushes

Typed ==
  /\ vlan \in BOOLEAN /\ order \in Seq(Clients) /\ peers \subseteq Clients
  /\ packets \in [Clients -> Nat]
  /\ queue \in [Queues -> Seq(Packet)]
  /\ delivering \in [Queues -> BOOLEAN]
  /\ disabled \in [Clients -> BOOLEAN] /\ link_down \in [Clients -> BOOLEAN]
  /\ waiting \in [Clients -> BOOLEAN] /\ owes \in [Clients -> BOOLEAN]
  /\ stack \in Seq(AllFrames)
  /\ sent \in [Clients -> Nat] /\ \A c \in Clients : sent[c] <= packets[c]
  /\ dropped \in [Clients -> SUBSET Ids]
  /\ got \in [Clients -> Seq([from : Clients, id : Ids])]
  /\ refusals \in 0 .. MaxRefusals /\ deleted \subseteq Clients
  /\ vm_running \in BOOLEAN /\ relinked \in BOOLEAN

----------------------------------------------------------------------------
(* Handlers.                                                               *)

Busy(f) == f.pc \in {"deliver", "receive"}

\* A delivery has its queue to itself: no call it leads to works on that queue.
Turned(st, d) ==
  /\ \A i \in 1 .. Len(st) : Busy(st[i]) => d[st[i].q]
  /\ \A i, j \in 1 .. Len(st) : i < j /\ Busy(st[j]) => st[i].q # st[j].q

Turns == Turned(stack, delivering)

\* Who the call f delivers to.
FrameOK(f) ==
  /\ vlan => f.q = Hub
  /\ ~vlan => f.q \in peers /\ (relinked \/ f.q \in ToSet(order))
  /\ Busy(f) => \A i \in 1 .. Len(f.todo) :
                  f.todo[i] \in (IF vlan THEN ToSet(order) ELSE {f.q})
  /\ f.pc = "receive" => f.at \in (IF vlan THEN ToSet(order) ELSE {f.q})

Frames == \A i \in 1 .. Len(stack) : FrameOK(stack[i])

\* The two clients of a pair; one whose peer was deleted has its link down.
Pair ==
  ~vlan =>
    /\ ToSet(order) \subseteq peers
    /\ \A a, b, c \in peers : a = b \/ b = c \/ a = c
    /\ deleted = {} => peers \subseteq ToSet(order)
    /\ \A c \in ToSet(order) : peers \subseteq ToSet(order) \/ link_down[c] \/ relinked

HInv == Typed /\ Turns /\ Frames /\ Pair

----------------------------------------------------------------------------
(* Callbacks.                                                              *)

\* Packet p, delivery f, or callback f that is running is client c's.
Owed(p, c) == p.from = c /\ p.cb
CallFor(f, c) == Busy(f) /\ Owed(f.pkt, c)
CbFor(f, c) == f.pc = "cb" /\ f.at = c

\* A packet with a callback for c is queued, is being delivered.
InQueue(qs, c) == \E q \in Queues : \E i \in 1 .. Len(qs[q]) : Owed(qs[q][i], c)
InCall(st, c) == \E i \in 1 .. Len(st) : CallFor(st[i], c)

\* It is in one place, and a running callback does not lie inside its delivery.
Once(qs, st, c) ==
  /\ \A q \in Queues : \A i, j \in 1 .. Len(qs[q]) :
       Owed(qs[q][i], c) /\ Owed(qs[q][j], c) => i = j
  /\ \A i, j \in 1 .. Len(st) : CallFor(st[i], c) /\ CallFor(st[j], c) => i = j
  /\ \A i, j \in 1 .. Len(st) : CbFor(st[i], c) /\ CallFor(st[j], c) => j < i
  /\ ~(InQueue(qs, c) /\ InCall(st, c))

\* c waits (w) while it is queued or being delivered again, and it is where c sends to
\* (S); as long as nobody was deleted (a), it exists while c waits.
Waits(qs, st, c, w, S, a) ==
  /\ \A q \in Queues : \A i \in 1 .. Len(qs[q]) : Owed(qs[q][i], c) => w /\ q \in S
  /\ \A i \in 1 .. Len(st) : CallFor(st[i], c) => (w <=> st[i].queued) /\ st[i].q \in S
  /\ a /\ w => InQueue(qs, c) \/ InCall(st, c)

\* The queue that holds c's packets with callbacks, if there is one.
Targets(c) ==
  {q \in Queues : c \in ToSet(order) /\ Kind[c] # "slirp" /\ Connected(c) /\ q = SendQueue(c)}

ClientOK(c) ==
  /\ Once(queue, stack, c)
  /\ Waits(queue, stack, c, waiting[c], Targets(c), deleted = {})

IInv == HInv /\ \A c \in Clients : ClientOK(c)

----------------------------------------------------------------------------
(* Sequences.                                                              *)

\* Induction over the naturals, for a set in place of a predicate.
LEMMA Induction ==
  ASSUME NEW S, 0 \in S, \A n \in Nat : n \in S => n + 1 \in S
  PROVE  \A n \in Nat : n \in S
<1> SUFFICES ASSUME Nat \ S # {} PROVE FALSE
  OBVIOUS
<1> DEFINE T == Nat \ S
           R == OpToRel(<, Nat)
<1>1. PICK x \in T : \A y \in T : ~(<<y, x>> \in R)
  <2>1. T \subseteq Nat /\ T # {}
    OBVIOUS
  <2>2. IsWellFoundedOn(R, Nat)
    BY NatLessThanWellFounded
  <2> HIDE DEF T, R
  <2> QED  BY <2>1, <2>2, WFMin
<1>2. \A y \in Nat : <<y, x>> \in R <=> y < x
  BY DEF OpToRel
<1> HIDE DEF R
<1>3. \A y \in T : ~ (y < x)
  BY <1>1, <1>2
<1>4. x # 0 /\ x - 1 \in Nat
  OBVIOUS
<1> QED  BY <1>3, <1>4

\* k is the table that Without fills in for the list s.
KeptBy(k, s, gone, m) ==
  k = [n \in 0 .. m |-> IF n = 0 THEN << >>
                        ELSE IF s[n] \in gone THEN k[n - 1] ELSE Append(k[n - 1], s[n])]

\* The recursive definition in Without defines a function.
LEMMA KeptExists ==
  ASSUME NEW s, NEW gone, NEW m \in Nat
  PROVE  \E k : KeptBy(k, s, gone, m)
<1> DEFINE S == {n \in Nat : \E k : KeptBy(k, s, gone, n)}
<1>1. 0 \in S
  <2> DEFINE w == [k \in 0 .. 0 |-> << >>]
  <2>1. KeptBy(w, s, gone, 0)
    BY DEF KeptBy
  <2> QED  BY <2>1
<1>2. ASSUME NEW n \in Nat, n \in S PROVE n + 1 \in S
  <2>1. PICK v : KeptBy(v, s, gone, n)
    BY <1>2
  <2> DEFINE top == IF s[n + 1] \in gone THEN v[n] ELSE Append(v[n], s[n + 1])
             w == [k \in 0 .. n + 1 |-> IF k = n + 1 THEN top ELSE v[k]]
             d == [k \in 0 .. n + 1 |-> IF k = 0 THEN << >>
                     ELSE IF s[k] \in gone THEN w[k - 1] ELSE Append(w[k - 1], s[k])]
  <2>2. ASSUME NEW k \in 0 .. n + 1 PROVE w[k] = d[k]
    <3>1. CASE k = n + 1
      BY <3>1
    <3>2. CASE k # n + 1
      <4>1. k \in 0 .. n /\ w[k] = v[k] /\ (k # 0 => w[k - 1] = v[k - 1])
        BY <3>2
      <4>2. v[k] = IF k = 0 THEN << >>
                   ELSE IF s[k] \in gone THEN v[k - 1] ELSE Append(v[k - 1], s[k])
        BY <2>1, <4>1 DEF KeptBy
      <4> HIDE DEF w
      <4> QED  BY <4>1, <4>2
    <3> QED  BY <3>1, <3>2
  <2>3. d = [k \in 0 .. n + 1 |-> d[k]] /\ w = [k \in 0 .. n + 1 |-> w[k]]
    OBVIOUS
  <2>4. w = d
    <3> HIDE DEF d, w
    <3> QED  BY <2>2, <2>3
  <2>5. KeptBy(w, s, gone, n + 1)
    <3> HIDE DEF w
    <3> QED  BY <2>4 DEF KeptBy
  <2> HIDE DEF w
  <2> QED  BY <2>5
<1> HIDE DEF S
<1>3. m \in S
  BY <1>1, <1>2, Induction
<1> QED  BY <1>3 DEF S

\* What Without computes: the i-th element left was the m[i]-th one before.
LEMMA WithoutIs ==
  ASSUME NEW A, NEW s \in Seq(A), NEW gone
  PROVE  /\ Without(s, gone) \in Seq(A)
         /\ \E m \in [1 .. Len(Without(s, gone)) -> 1 .. Len(s)] :
              /\ \A i \in 1 .. Len(Without(s, gone)) :
                   Without(s, gone)[i] = s[m[i]] /\ s[m[i]] \notin gone
              /\ \A i, j \in 1 .. Len(Without(s, gone)) : m[i] = m[j] => i = j
              /\ \A j \in 1 .. Len(s) : s[j] \notin gone =>
                   \E i \in 1 .. Len(Without(s, gone)) : m[i] = j
<1>0. Len(s) \in Nat /\ DOMAIN s = 1 .. Len(s)
  OBVIOUS
<1>1. PICK k : KeptBy(k, s, gone, Len(s)) /\ Without(s, gone) = k[Len(s)]
  <2> DEFINE k == CHOOSE k : KeptBy(k, s, gone, Len(s))
  <2>1. KeptBy(k, s, gone, Len(s))
    BY <1>0, KeptExists
  <2>2. Without(s, gone) = k[Len(s)]
    BY DEF Without, KeptBy
  <2> HIDE DEF k
  <2> QED  BY <2>1, <2>2
<1>2. /\ k[0] = << >>
      /\ \A n \in 1 .. Len(s) :
           k[n] = IF s[n] \in gone THEN k[n - 1] ELSE Append(k[n - 1], s[n])
  <2> DEFINE g == [n \in 0 .. Len(s) |-> IF n = 0 THEN << >>
                   ELSE IF s[n] \in gone THEN k[n - 1] ELSE Append(k[n - 1], s[n])]
  <2>1. k = g
    BY <1>1 DEF KeptBy
  <2>2. /\ g[0] = << >>
        /\ \A n \in 1 .. Len(s) :
             g[n] = IF s[n] \in gone THEN k[n - 1] ELSE Append(k[n - 1], s[n])
    BY <1>0
  <2> HIDE DEF g
  <2> QED  BY <2>1, <2>2
<1> DEFINE Maps(w, n, m) ==
      /\ \A i \in 1 .. Len(w) : w[i] = s[m[i]] /\ s[m[i]] \notin gone
      /\ \A i, j \in 1 .. Len(w) : m[i] = m[j] => i = j
      /\ \A j \in 1 .. n : s[j] \notin gone => \E i \in 1 .. Len(w) : m[i] = j
    Good(n) == k[n] \in Seq(A) /\ \E m \in [1 .. Len(k[n]) -> 1 .. n] : Maps(k[n], n, m)
    S == {n \in Nat : n <= Len(s) => Good(n)}
<1>3. 0 \in S
  <2>1. k[0] \in Seq(A) /\ Len(k[0]) = 0
    BY <1>2
  <2> DEFINE m == [i \in 1 .. Len(k[0]) |-> 0]
  <2>2. m \in [1 .. Len(k[0]) -> 1 .. 0] /\ Maps(k[0], 0, m)
    BY <2>1
  <2> HIDE DEF m, Maps
  <2> QED  BY <2>1, <2>2
<1>4. ASSUME NEW n \in Nat, n \in S PROVE n + 1 \in S
  <2> SUFFICES ASSUME n + 1 <= Len(s) PROVE Good(n + 1)
    <3> HIDE DEF Good
    <3> QED  OBVIOUS
  <2>1. n <= Len(s) /\ n + 1 \in 1 .. Len(s) /\ (n + 1) - 1 = n
    <3> HIDE DEF Good, S
    <3> QED  BY <1>0
  <2>2. s[n + 1] \in A
    <3> HIDE DEF Good, S
    <3> QED  BY <2>1, ElementOfSeq
  <2>3. Good(n)
    <3> HIDE DEF Good
    <3> QED  BY <1>4, <2>1
  <2> DEFINE t == k[n] u == k[n + 1]
  <2>4. u = IF s[n + 1] \in gone THEN t ELSE Append(t, s[n + 1])
    <3> HIDE DEF Good
    <3> QED  BY <1>2, <2>1
  <2>5. t \in Seq(A) /\ Len(t) \in Nat
    <3> HIDE DEF Maps
    <3> QED  BY <2>3, LenProperties
  <2>6. PICK m \in [1 .. Len(t) -> 1 .. n] : Maps(t, n, m)
    <3> HIDE DEF Maps
    <3> QED  BY <2>3
  <2>7. SUFFICES u \in Seq(A) /\ \E g \in [1 .. Len(u) -> 1 .. n + 1] : Maps(u, n + 1, g)
    <3> HIDE DEF Maps
    <3> QED  OBVIOUS
  <2> HIDE DEF t, u, Good, S
  <2>8. CASE s[n + 1] \in gone
    <3>1. u = t
      BY <2>4, <2>8
    <3>2. m \in [1 .. Len(t) -> 1 .. n + 1]
      BY <2>6
    <3>3. Maps(t, n + 1, m)
      BY <2>6, <2>8
    <3> HIDE DEF Maps
    <3> QED  BY <2>5, <3>1, <3>2, <3>3
  <2>9. CASE s[n + 1] \notin gone
    <3>1. u = Append(t, s[n + 1])
      BY <2>4, <2>9
    <3>2. /\ u \in Seq(A) /\ Len(u) = Len(t) + 1
          /\ u[Len(t) + 1] = s[n + 1] /\ \A i \in 1 .. Len(t) : u[i] = t[i]
      BY <2>2, <2>5, <3>1, AppendProperties
    <3> DEFINE g == [i \in 1 .. Len(u) |-> IF i = Len(u) THEN n + 1 ELSE m[i]]
    <3>3. /\ g \in [1 .. Len(u) -> 1 .. n + 1]
          /\ g[Len(u)] = n + 1 /\ \A i \in 1 .. Len(t) : g[i] = m[i] /\ m[i] \in 1 .. n
      <4>1. \A i \in 1 .. Len(t) : m[i] \in 1 .. n
        BY <2>6
      <4>2. Len(u) \in 1 .. Len(u) /\ \A i \in 1 .. Len(t) : i \in 1 .. Len(u) /\ i # Len(u)
        BY <2>5, <3>2
      <4>3. \A i \in 1 .. Len(u) : i # Len(u) => i \in 1 .. Len(t)
        BY <2>5, <3>2
      <4>4. n + 1 \in 1 .. n + 1 /\ \A x \in 1 .. n : x \in 1 .. n + 1
        OBVIOUS
      <4>5. \A i \in 1 .. Len(u) : (IF i = Len(u) THEN n + 1 ELSE m[i]) \in 1 .. n + 1
        BY <4>1, <4>3, <4>4
      <4> QED  BY <4>1, <4>2, <4>5
    <3> HIDE DEF g
    <3>4. \A i \in 1 .. Len(u) : u[i] = s[g[i]] /\ s[g[i]] \notin gone
      BY <2>5, <2>6, <2>9, <3>2, <3>3
    <3>5. ASSUME NEW i \in 1 .. Len(u), NEW j \in 1 .. Len(u), g[i] = g[j] PROVE i = j
      <4>1. \A x \in 1 .. Len(u) : x # Len(u) => x \in 1 .. Len(t)
        BY <2>5, <3>2
      <4>2. \A x \in 1 .. Len(t) : g[x] # n + 1
        BY <3>3
      <4>3. \A x, y \in 1 .. Len(t) : m[x] = m[y] => x = y
        BY <2>6
      <4> QED  BY <3>3, <3>5, <4>1, <4>2, <4>3
    <3>6. ASSUME NEW j \in 1 .. n + 1, s[j] \notin gone PROVE \E i \in 1 .. Len(u) : g[i] = j
      <4>1. CASE j = n + 1
        BY <2>5, <3>2, <3>3, <4>1
      <4>2. CASE j \in 1 .. n
        <5>1. PICK i \in 1 .. Len(t) : m[i] = j
          BY <2>6, <3>6, <4>2
        <5> QED  BY <2>5, <3>2, <3>3, <5>1
      <4> QED  BY <4>1, <4>2
    <3> QED  BY <3>2, <3>3, <3>4, <3>5, <3>6
  <2> QED  BY <2>8, <2>9
<1>5. Good(Len(s))
  <2> HIDE DEF Good
  <2>1. Len(s) \in S
    <3> HIDE DEF S
    <3> QED  BY <1>0, <1>3, <1>4, Induction
  <2> QED  BY <2>1, <1>0
<1>6. k[Len(s)] = Without(s, gone)
  BY <1>1
<1> DEFINE w == Without(s, gone)
<1>7. w \in Seq(A) /\ \E m \in [1 .. Len(w) -> 1 .. Len(s)] : Maps(w, Len(s), m)
  <2> HIDE DEF Maps
  <2> QED  BY <1>5, <1>6
<1> HIDE DEF w
<1>8. /\ w \in Seq(A)
      /\ \E m \in [1 .. Len(w) -> 1 .. Len(s)] :
              /\ \A i \in 1 .. Len(w) : w[i] = s[m[i]] /\ s[m[i]] \notin gone
              /\ \A i, j \in 1 .. Len(w) : m[i] = m[j] => i = j
              /\ \A j \in 1 .. Len(s) : s[j] \notin gone => \E i \in 1 .. Len(w) : m[i] = j
  BY <1>7
<1> QED  BY <1>8 DEF w

\* So it leaves exactly the elements that are not gone.
LEMMA WithoutSet ==
  ASSUME NEW A, NEW s \in Seq(A), NEW gone
  PROVE  Without(s, gone) \in Seq(A) /\ ToSet(Without(s, gone)) = ToSet(s) \ gone
<1> DEFINE w == Without(s, gone)
<1>1. PICK m \in [1 .. Len(w) -> 1 .. Len(s)] :
         /\ \A i \in 1 .. Len(w) : w[i] = s[m[i]] /\ s[m[i]] \notin gone
         /\ \A j \in 1 .. Len(s) : s[j] \notin gone => \E i \in 1 .. Len(w) : m[i] = j
  BY WithoutIs
<1>2. w \in Seq(A)
  BY WithoutIs
<1> HIDE DEF w
<1>3. DOMAIN w = 1 .. Len(w) /\ DOMAIN s = 1 .. Len(s)
  BY <1>2, LenProperties
<1>4. ToSet(w) = ToSet(s) \ gone
  <2>1. ASSUME NEW x \in ToSet(w) PROVE x \in ToSet(s) \ gone
    BY <1>1, <1>3, <2>1 DEF ToSet
  <2>2. ASSUME NEW x \in ToSet(s) \ gone PROVE x \in ToSet(w)
    <3>1. PICK j \in 1 .. Len(s) : s[j] = x
      BY <1>3, <2>2 DEF ToSet
    <3>2. PICK i \in 1 .. Len(w) : m[i] = j
      BY <1>1, <2>2, <3>1
    <3> QED  BY <1>1, <1>3, <3>1, <3>2 DEF ToSet
  <2> QED  BY <2>1, <2>2
<1> QED  BY <1>2, <1>4 DEF w

\* A sequence with its first element replaced.
LEMMA TopIs ==
  ASSUME NEW A, NEW s \in Seq(A), s # << >>, NEW f \in A
  PROVE  /\ Len(s) \in Nat \ {0} /\ Head(s) = s[1] /\ s[1] \in A
         /\ <<f>> \o Tail(s) \in Seq(A) /\ Len(<<f>> \o Tail(s)) = Len(s)
         /\ (<<f>> \o Tail(s))[1] = f
         /\ \A i \in 2 .. Len(s) : (<<f>> \o Tail(s))[i] = s[i]
<1>1. /\ Len(s) \in Nat \ {0} /\ Head(s) = s[1] /\ s[1] \in A
      /\ Tail(s) \in Seq(A) /\ Len(Tail(s)) = Len(s) - 1
      /\ \A i \in 1 .. Len(Tail(s)) : Tail(s)[i] = s[i + 1]
  BY HeadTailProperties, EmptySeq, ElementOfSeq
<1> DEFINE t == Tail(s)
<1>2. <<f>> \in Seq(A) /\ Len(<<f>>) = 1 /\ <<f>>[1] = f
  OBVIOUS
<1>3. /\ <<f>> \o t \in Seq(A) /\ Len(<<f>> \o t) = 1 + Len(t)
      /\ \A i \in 1 .. 1 + Len(t) : (<<f>> \o t)[i] = IF i <= 1 THEN <<f>>[i] ELSE t[i - 1]
  BY <1>1, <1>2, ConcatProperties
<1>4. \A i \in 2 .. Len(s) : i - 1 \in 1 .. Len(t) /\ (i - 1) + 1 = i /\ i \in 1 .. 1 + Len(t) /\ ~(i <= 1)
  BY <1>1
<1> HIDE DEF t
<1>5. \A i \in 2 .. Len(s) : (<<f>> \o t)[i] = s[i]
  BY <1>1, <1>3, <1>4 DEF t
<1>6. 1 \in 1 .. 1 + Len(t) /\ Len(t) = Len(s) - 1
  BY <1>1 DEF t
<1>7. (<<f>> \o t)[1] = f
  BY <1>2, <1>3, <1>6
<1>8. Len(<<f>> \o t) = Len(s)
  <2>1. \A x \in Nat \ {0} : 1 + (x - 1) = x
    OBVIOUS
  <2>2. Len(<<f>> \o t) = 1 + (Len(s) - 1)
    BY <1>3, <1>6
  <2> QED  BY <1>1, <2>1, <2>2
<1> QED  BY <1>1, <1>3, <1>5, <1>7, <1>8 DEF t

\* A sequence with an element put in front.
LEMMA PushIs ==
  ASSUME NEW A, NEW s \in Seq(A), NEW f \in A
  PROVE  /\ Len(s) \in Nat
         /\ <<f>> \o s \in Seq(A) /\ Len(<<f>> \o s) = Len(s) + 1
         /\ (<<f>> \o s)[1] = f
         /\ \A i \in 2 .. Len(s) + 1 : (<<f>> \o s)[i] = s[i - 1]
         /\ \A i \in 1 .. Len(s) : (<<f>> \o s)[i + 1] = s[i]
<1>1. Len(s) \in Nat
  BY LenProperties
<1>2. <<f>> \in Seq(A) /\ Len(<<f>>) = 1 /\ <<f>>[1] = f
  OBVIOUS
<1>3. /\ <<f>> \o s \in Seq(A) /\ Len(<<f>> \o s) = 1 + Len(s)
      /\ \A i \in 1 .. 1 + Len(s) : (<<f>> \o s)[i] = IF i <= 1 THEN <<f>>[i] ELSE s[i - 1]
  BY <1>1, <1>2, ConcatProperties
<1> DEFINE u == <<f>> \o s
<1>4. u[1] = f
  BY <1>1, <1>2, <1>3
<1> HIDE DEF u
<1>5. \A i \in 2 .. Len(s) + 1 : u[i] = s[i - 1]
  BY <1>1, <1>3 DEF u
<1>6. \A i \in 1 .. Len(s) : i + 1 \in 2 .. Len(s) + 1 /\ (i + 1) - 1 = i
  BY <1>1
<1>7. \A i \in 1 .. Len(s) : u[i + 1] = s[i]
  BY <1>5, <1>6
<1>8. Len(u) = Len(s) + 1
  BY <1>1, <1>3 DEF u
<1> QED  BY <1>1, <1>3, <1>4, <1>5, <1>7, <1>8 DEF u

\* A sequence without its first element.
LEMMA PopIs ==
  ASSUME NEW A, NEW s \in Seq(A), s # << >>
  PROVE  /\ Len(s) \in Nat \ {0} /\ Head(s) = s[1] /\ s[1] \in A
         /\ Tail(s) \in Seq(A) /\ Len(Tail(s)) = Len(s) - 1
         /\ \A i \in 1 .. Len(s) - 1 : Tail(s)[i] = s[i + 1]
BY HeadTailProperties, EmptySeq, ElementOfSeq
----------------------------------------------------------------------------
(* Frames.                                                                 *)

\* What the kinds of frames have in common, and what tells them apart.
LEMMA FrameKinds ==
  ASSUME NEW f \in AllFrames
  PROVE  /\ f.q \in Queues /\ f.pc \in {"deliver", "receive", "cb", "flush", "abort"}
         /\ Busy(f) <=> f \in Deliveries
         /\ f.pc \in {"cb", "abort"} <=> f \in Callbacks
         /\ f.pc = "flush" <=> f \in Flushes
<1>1. CASE f \in Deliveries
  BY <1>1 DEF Deliveries, Callbacks, Flushes, Busy
<1>2. CASE f \in Callbacks
  BY <1>2 DEF Deliveries, Callbacks, Flushes, Busy
<1>3. CASE f \in Flushes
  BY <1>3 DEF Deliveries, Callbacks, Flushes, Busy
<1> QED  BY <1>1, <1>2, <1>3 DEF AllFrames

\* The innermost call.
LEMMA TopFrame ==
  ASSUME Typed, NEW pc, AtPc(pc)
  PROVE  /\ stack \in Seq(AllFrames) /\ stack # << >> /\ Len(stack) \in Nat \ {0}
         /\ Top = stack[1] /\ Top \in AllFrames /\ Top.pc = pc
<1>1. stack \in Seq(AllFrames) /\ stack # << >> /\ Top.pc = pc
  BY DEF Typed, AtPc, Idle
<1>2. Len(stack) \in Nat \ {0} /\ Head(stack) = stack[1] /\ stack[1] \in AllFrames
  BY <1>1, PopIs
<1> QED  BY <1>1, <1>2 DEF Top

\* The sets of values do not change: the bounds stay as chosen.
LEMMA SameSets ==
  ASSUME packets' = packets
  PROVE  Ids' = Ids /\ Packet' = Packet /\ AllFrames' = AllFrames
<1>1. Ids' = Ids
  BY DEF Ids
<1>2. Packet' = Packet
  BY <1>1 DEF Packet
<1> QED  BY <1>1, <1>2 DEF AllFrames, Deliveries, Callbacks, Flushes

\* A call that replaces the innermost one works on the same queue.
LEMMA TurnsTop ==
  ASSUME NEW A, \A f \in A : f.q \in Queues,
         NEW st \in Seq(A), st # << >>, NEW d, NEW e, Turned(st, d),
         NEW f \in A, f.q = st[1].q, Busy(f) => e[f.q],
         \A q \in Queues : q # f.q => e[q] = d[q]
  PROVE  Turned(<<f>> \o Tail(st), e)
<1> DEFINE u == <<f>> \o Tail(st)
<1>1. /\ Len(st) \in Nat \ {0} /\ Len(u) = Len(st) /\ u[1] = f
      /\ \A i \in 2 .. Len(st) : u[i] = st[i]
  BY TopIs
<1>2. \A i \in 1 .. Len(st) : st[i] \in A /\ st[i].q \in Queues
  BY ElementOfSeq
<1>3. \A i \in 1 .. Len(st) : i = 1 \/ i \in 2 .. Len(st)
  BY <1>1
<1>4. 1 \in 1 .. Len(st) /\ \A i \in 2 .. Len(st) : i \in 1 .. Len(st) /\ 1 < i
  BY <1>1
<1> HIDE DEF u
<1>5. \A j \in 2 .. Len(st) : Busy(st[j]) => st[1].q # st[j].q /\ d[st[j].q]
  BY <1>4 DEF Turned
<1>6. ASSUME NEW i \in 1 .. Len(u), Busy(u[i]) PROVE e[u[i].q]
  <2>1. CASE i = 1
    BY <1>1, <1>6, <2>1
  <2>2. CASE i \in 2 .. Len(st)
    <3>1. u[i] = st[i] /\ st[1].q # st[i].q /\ d[st[i].q] /\ st[i].q \in Queues
      BY <1>1, <1>2, <1>4, <1>5, <1>6, <2>2
    <3> QED  BY <3>1
  <2> QED  BY <1>1, <1>3, <1>6, <2>1, <2>2
<1>7. ASSUME NEW i \in 1 .. Len(u), NEW j \in 1 .. Len(u), i < j, Busy(u[j])
      PROVE  u[i].q # u[j].q
  <2>1. j \in 2 .. Len(st) /\ u[j] = st[j]
    BY <1>1, <1>7
  <2>2. CASE i = 1
    BY <1>1, <1>5, <1>7, <2>1, <2>2
  <2>3. CASE i \in 2 .. Len(st)
    <3>1. u[i] = st[i] /\ i \in 1 .. Len(st) /\ j \in 1 .. Len(st) /\ Busy(st[j])
      BY <1>1, <1>4, <1>7, <2>1, <2>3
    <3>2. \A x, y \in 1 .. Len(st) : x < y /\ Busy(st[y]) => st[x].q # st[y].q
      BY DEF Turned
    <3>3. st[i].q # st[j].q
      BY <1>7, <3>1, <3>2
    <3> QED  BY <2>1, <3>1, <3>3
  <2> QED  BY <1>1, <1>3, <1>7, <2>2, <2>3
<1>8. Turned(u, e)
  BY <1>6, <1>7 DEF Turned
<1> QED  BY <1>8 DEF u

\* So does a call that returns.
LEMMA TurnsPop ==
  ASSUME NEW A, \A f \in A : f.q \in Queues,
         NEW st \in Seq(A), st # << >>, NEW d, NEW e, Turned(st, d),
         \A q \in Queues : q # st[1].q => e[q] = d[q]
  PROVE  Turned(Tail(st), e)
<1> DEFINE u == Tail(st)
<1>1. /\ Len(st) \in Nat \ {0} /\ Len(u) = Len(st) - 1
      /\ \A i \in 1 .. Len(st) - 1 : u[i] = st[i + 1]
  BY PopIs
<1>2. \A i \in 1 .. Len(st) : st[i] \in A /\ st[i].q \in Queues
  BY ElementOfSeq
<1>3. 1 \in 1 .. Len(st)
      /\ \A i \in 1 .. Len(st) - 1 : i + 1 \in 1 .. Len(st) /\ 1 < i + 1
  BY <1>1
<1> HIDE DEF u
<1>4. ASSUME NEW i \in 1 .. Len(u), Busy(u[i]) PROVE e[u[i].q]
  <2>1. i \in 1 .. Len(st) - 1 /\ u[i] = st[i + 1]
    BY <1>1, <1>4
  <2>2. st[1].q # st[i + 1].q /\ d[st[i + 1].q] /\ st[i + 1].q \in Queues
    BY <1>2, <1>3, <1>4, <2>1 DEF Turned
  <2> QED  BY <2>1, <2>2
<1>5. ASSUME NEW i \in 1 .. Len(u), NEW j \in 1 .. Len(u), i < j, Busy(u[j])
      PROVE  u[i].q # u[j].q
  <2>1. /\ i \in 1 .. Len(st) - 1 /\ u[i] = st[i + 1]
        /\ j \in 1 .. Len(st) - 1 /\ u[j] = st[j + 1]
    BY <1>1, <1>5
  <2>2. i + 1 < j + 1 /\ i + 1 \in 1 .. Len(st) /\ j + 1 \in 1 .. Len(st) /\ Busy(st[j + 1])
    BY <1>1, <1>3, <1>5, <2>1
  <2>3. st[i + 1].q # st[j + 1].q
    BY <2>2 DEF Turned
  <2> QED  BY <2>1, <2>3
<1>6. Turned(u, e)
  BY <1>4, <1>5 DEF Turned
<1> QED  BY <1>6 DEF u

\* A delivery starts only on a queue that no other delivery works on.
LEMMA TurnsPush ==
  ASSUME NEW A, \A f \in A : f.q \in Queues,
         NEW st \in Seq(A), NEW d, NEW e, Turned(st, d),
         NEW f \in A, ~d[f.q], e[f.q],
         \A q \in Queues : q # f.q => e[q] = d[q]
  PROVE  Turned(<<f>> \o st, e)
<1> DEFINE u == <<f>> \o st
<1>1. /\ Len(st) \in Nat /\ Len(u) = Len(st) + 1 /\ u[1] = f
      /\ \A i \in 2 .. Len(st) + 1 : u[i] = st[i - 1]
  BY PushIs
<1>2. \A i \in 1 .. Len(st) : st[i] \in A /\ st[i].q \in Queues
  BY ElementOfSeq
<1>3. \A i \in 1 .. Len(u) : i = 1 \/ (i \in 2 .. Len(st) + 1 /\ i - 1 \in 1 .. Len(st))
  BY <1>1
<1> HIDE DEF u
<1>4. \A j \in 1 .. Len(st) : Busy(st[j]) => d[st[j].q] /\ f.q # st[j].q
  BY DEF Turned
<1>5. ASSUME NEW i \in 1 .. Len(u), Busy(u[i]) PROVE e[u[i].q]
  <2>1. CASE i = 1
    BY <1>1, <2>1
  <2>2. CASE i # 1
    <3>1. u[i] = st[i - 1] /\ i - 1 \in 1 .. Len(st)
      BY <1>1, <1>3, <2>2
    <3> QED  BY <1>2, <1>4, <1>5, <3>1
  <2> QED  BY <2>1, <2>2
<1>6. ASSUME NEW i \in 1 .. Len(u), NEW j \in 1 .. Len(u), i < j, Busy(u[j])
      PROVE  u[i].q # u[j].q
  <2>1. u[j] = st[j - 1] /\ j - 1 \in 1 .. Len(st)
    BY <1>1, <1>3, <1>6
  <2>2. CASE i = 1
    BY <1>1, <1>4, <1>6, <2>1, <2>2
  <2>3. CASE i # 1
    <3>1. u[i] = st[i - 1] /\ i - 1 \in 1 .. Len(st) /\ i - 1 < j - 1
      BY <1>1, <1>3, <1>6, <2>3
    <3> QED  BY <1>6, <2>1, <3>1 DEF Turned
  <2> QED  BY <2>2, <2>3
<1>7. Turned(u, e)
  BY <1>5, <1>6 DEF Turned
<1> QED  BY <1>7 DEF u

----------------------------------------------------------------------------
(* Calls and returns keep the frames as they should be.                    *)

\* What no call changes: who is there.
Steady == UNCHANGED <<vlan, order, packets, peers, relinked>>

\* The innermost call goes on as f.
LEMMA KeepTop ==
  ASSUME HInv, stack # << >>, Steady,
         NEW f \in AllFrames, f.q = Top.q, FrameOK(f), SetTop(f),
         delivering' \in [Queues -> BOOLEAN], Busy(f) => delivering'[f.q],
         \A q \in Queues : q # f.q => delivering'[q] = delivering[q]
  PROVE  stack' \in Seq(AllFrames') /\ Turns' /\ Frames'
<1>1. AllFrames' = AllFrames
  BY SameSets DEF Steady
<1>2. stack \in Seq(AllFrames) /\ Turned(stack, delivering) /\ Frames
  BY DEF HInv, Typed, Turns
<1>3. stack' = <<f>> \o Tail(stack)
  BY DEF SetTop
<1>4. /\ Len(stack) \in Nat \ {0} /\ Head(stack) = stack[1]
      /\ stack' \in Seq(AllFrames) /\ Len(stack') = Len(stack) /\ stack'[1] = f
      /\ \A i \in 2 .. Len(stack) : stack'[i] = stack[i]
  BY <1>2, <1>3, TopIs
<1>5. \A g \in AllFrames : g.q \in Queues
  BY FrameKinds
<1>6. Turned(stack', delivering')
  <2>1. f.q = stack[1].q
    BY <1>4 DEF Top
  <2>2. Turned(<<f>> \o Tail(stack), delivering')
    BY <1>2, <1>5, <2>1, TurnsTop, SMTT(30)
  <2> QED  BY <1>3, <2>2
<1>7. ASSUME NEW i \in 1 .. Len(stack') PROVE FrameOK(stack[i])'
  <2>1. FrameOK(stack'[i])
    <3>1. i = 1 \/ (i \in 2 .. Len(stack) /\ i \in 1 .. Len(stack))
      BY <1>4, <1>7
    <3>2. CASE i = 1
      BY <1>4, <3>2
    <3>3. CASE i \in 2 .. Len(stack) /\ i \in 1 .. Len(stack)
      BY <1>2, <1>4, <3>3 DEF Frames
    <3> QED  BY <3>1, <3>2, <3>3
  <2> QED  BY <2>1 DEF FrameOK, Steady, Busy
<1> QED  BY <1>1, <1>4, <1>6, <1>7 DEF Turns, Frames

\* The innermost call returns.
LEMMA KeepPop ==
  ASSUME HInv, stack # << >>, Steady, Pop,
         \A q \in Queues : q # Top.q => delivering'[q] = delivering[q]
  PROVE  stack' \in Seq(AllFrames') /\ Turns' /\ Frames'
<1>1. AllFrames' = AllFrames
  BY SameSets DEF Steady
<1>2. stack \in Seq(AllFrames) /\ Turned(stack, delivering) /\ Frames
  BY DEF HInv, Typed, Turns
<1>3. stack' = Tail(stack)
  BY DEF Pop
<1>4. /\ Len(stack) \in Nat \ {0} /\ Head(stack) = stack[1]
      /\ stack' \in Seq(AllFrames) /\ Len(stack') = Len(stack) - 1
      /\ \A i \in 1 .. Len(stack) - 1 : stack'[i] = stack[i + 1]
  BY <1>2, <1>3, PopIs
<1>5. \A g \in AllFrames : g.q \in Queues
  BY FrameKinds
<1>6. Turned(stack', delivering')
  <2>1. \A q \in Queues : q # stack[1].q => delivering'[q] = delivering[q]
    BY <1>4 DEF Top
  <2>2. Turned(Tail(stack), delivering')
    BY <1>2, <1>5, <2>1, TurnsPop
  <2> QED  BY <1>3, <2>2
<1>7. ASSUME NEW i \in 1 .. Len(stack') PROVE FrameOK(stack[i])'
  <2>1. FrameOK(stack'[i])
    <3>1. i \in 1 .. Len(stack) - 1 /\ i + 1 \in 1 .. Len(stack)
      BY <1>4, <1>7
    <3> QED  BY <1>2, <1>4, <3>1 DEF Frames
  <2> QED  BY <2>1 DEF FrameOK, Steady, Busy
<1> QED  BY <1>1, <1>4, <1>6, <1>7 DEF Turns, Frames

\* A delivery is started inside the calls in progress.
LEMMA KeepPush ==
  ASSUME HInv, Steady, NEW f \in AllFrames, FrameOK(f), stack' = <<f>> \o stack,
         ~delivering[f.q], delivering'[f.q],
         \A q \in Queues : q # f.q => delivering'[q] = delivering[q]
  PROVE  stack' \in Seq(AllFrames') /\ Turns' /\ Frames'
<1>1. AllFrames' = AllFrames
  BY SameSets DEF Steady
<1>2. stack \in Seq(AllFrames) /\ Turned(stack, delivering) /\ Frames
  BY DEF HInv, Typed, Turns
<1>4. /\ Len(stack) \in Nat
      /\ stack' \in Seq(AllFrames) /\ Len(stack') = Len(stack) + 1 /\ stack'[1] = f
      /\ \A i \in 2 .. Len(stack) + 1 : stack'[i] = stack[i - 1]
  BY <1>2, PushIs
<1>5. \A g \in AllFrames : g.q \in Queues
  BY FrameKinds
<1>6. Turned(stack', delivering')
  BY <1>2, <1>5, TurnsPush
<1>7. ASSUME NEW i \in 1 .. Len(stack') PROVE FrameOK(stack[i])'
  <2>1. FrameOK(stack'[i])
    <3>1. i = 1 \/ (i \in 2 .. Len(stack) + 1 /\ i - 1 \in 1 .. Len(stack))
      BY <1>4, <1>7
    <3>2. CASE i = 1
      BY <1>4, <3>2
    <3>3. CASE i \in 2 .. Len(stack) + 1 /\ i - 1 \in 1 .. Len(stack)
      BY <1>2, <1>4, <3>3 DEF Frames
    <3> QED  BY <3>1, <3>2, <3>3
  <2> QED  BY <2>1 DEF FrameOK, Steady, Busy
<1> QED  BY <1>1, <1>4, <1>6, <1>7 DEF Turns, Frames

\* The calls stay as they are.
LEMMA KeepStack ==
  ASSUME HInv, Steady, UNCHANGED <<stack, delivering>>
  PROVE  Turns' /\ Frames'
<1>1. Turns /\ Frames
  BY DEF HInv
<1>2. Turns'
  BY <1>1 DEF Turns, Turned
<1>3. ASSUME NEW i \in 1 .. Len(stack') PROVE FrameOK(stack[i])'
  <2>1. FrameOK(stack[i])
    BY <1>1, <1>3 DEF Frames
  <2> QED  BY <2>1 DEF FrameOK, Steady, Busy
<1> QED  BY <1>2, <1>3 DEF Frames

\* Nothing runs, before and after.
LEMMA KeepIdle ==
  ASSUME Idle, UNCHANGED stack
  PROVE  stack' \in Seq(AllFrames') /\ Turns' /\ Frames'
<1>1. stack' = << >> /\ Len(stack') = 0 /\ stack' \in Seq(AllFrames')
  BY DEF Idle
<1>2. 1 .. Len(stack') = {}
  BY <1>1
<1> QED  BY <1>1, <1>2 DEF Turns, Turned, Frames

----------------------------------------------------------------------------
(* The initial states, and deliveries.                                     *)

\* An element of a list of clients.
LEMMA InList ==
  ASSUME NEW A, NEW s \in Seq(A)
  PROVE  /\ Len(s) \in Nat /\ \A x : x \in ToSet(s) <=> \E i \in 1 .. Len(s) : s[i] = x
         /\ ToSet(s) \subseteq A
<1>1. Len(s) \in Nat /\ DOMAIN s = 1 .. Len(s) /\ \A i \in 1 .. Len(s) : s[i] \in A
  BY LenProperties, ElementOfSeq
<1> QED  BY <1>1 DEF ToSet

\* It holds before anything is sent.
LEMMA HInit ==
  ASSUME Init
  PROVE  HInv
<1>1. PICK t \in Topologies :
         /\ vlan = t.vlan /\ order = t.order /\ packets = t.packets
         /\ peers = IF t.vlan THEN {} ELSE ToSet(t.order)
  BY DEF Init
<1>2. /\ vlan \in BOOLEAN /\ order \in Seq(Clients) /\ packets \in [Clients -> Nat]
      /\ ~vlan => Len(order) = 2 /\ order[1] # order[2] /\ peers = ToSet(order)
      /\ vlan => peers = {}
  BY <1>1, NetAssumption
<1>3. Len(order) \in Nat /\ ToSet(order) \subseteq Clients
      /\ \A x : x \in ToSet(order) <=> \E i \in 1 .. Len(order) : order[i] = x
  BY <1>2, InList
<1>4. stack = << >> /\ Len(stack) = 0
  BY DEF Init
<1>5. Typed
  <2>1. stack \in Seq(AllFrames)
    BY <1>4
  <2>2. queue \in [Queues -> Seq(Packet)] /\ delivering \in [Queues -> BOOLEAN]
    BY DEF Init, Queues
  <2>3. /\ disabled \in [Clients -> BOOLEAN] /\ link_down \in [Clients -> BOOLEAN]
        /\ waiting \in [Clients -> BOOLEAN] /\ owes \in [Clients -> BOOLEAN]
        /\ dropped \in [Clients -> SUBSET Ids]
        /\ got \in [Clients -> Seq([from : Clients, id : Ids])]
    BY DEF Init
  <2>4. sent \in [Clients -> Nat] /\ \A c \in Clients : sent[c] <= packets[c]
    BY <1>2 DEF Init
  <2>5. refusals \in 0 .. MaxRefusals /\ deleted \subseteq Clients /\ relinked = FALSE
        /\ vm_running = TRUE
    BY NetAssumption DEF Init
  <2> QED  BY <1>2, <1>3, <2>1, <2>2, <2>3, <2>4, <2>5 DEF Typed
<1>6. Turns /\ Frames
  <2>1. 1 .. Len(stack) = {}
    BY <1>4
  <2> QED  BY <2>1 DEF Turns, Turned, Frames
<1>7. Pair
  <2> SUFFICES ASSUME ~vlan PROVE Pair
    BY DEF Pair
  <2>1. \A x : x \in peers <=> x = order[1] \/ x = order[2]
    <3>0. Len(order) = 2
      BY <1>2
    <3>1. \A i \in 1 .. 2 : i = 1 \/ i = 2
      OBVIOUS
    <3>2. 1 \in 1 .. 2 /\ 2 \in 1 .. 2
      OBVIOUS
    <3> QED  BY <1>2, <1>3, <3>0, <3>1, <3>2
  <2> QED  BY <1>2, <2>1 DEF Pair
<1> QED  BY <1>5, <1>6, <1>7 DEF HInv

\* The other client of a pair.
LEMMA PeerIs ==
  ASSUME ~vlan, NEW c, Connected(c)
  PROVE  Peer(c) \in peers /\ Peer(c) # c
BY DEF Connected, Peer

\* Who a packet is offered to.
LEMMA ReceiversAre ==
  ASSUME Typed, NEW q, ~vlan => q \in Clients, NEW c
  PROVE  /\ Receivers(q, c) \in Seq(Clients)
         /\ \A i \in 1 .. Len(Receivers(q, c)) :
              Receivers(q, c)[i] \in (IF vlan THEN ToSet(order) ELSE {q})
<1>1. CASE vlan
  <2> DEFINE w == Without(order, {c})
  <2>1. order \in Seq(Clients) /\ w \in Seq(Clients) /\ ToSet(w) = ToSet(order) \ {c}
    BY WithoutSet DEF Typed
  <2>2. Receivers(q, c) = w
    BY <1>1 DEF Receivers
  <2> HIDE DEF w
  <2>3. \A i \in 1 .. Len(w) : w[i] \in ToSet(w)
    BY <2>1, InList
  <2> QED  BY <1>1, <2>1, <2>2, <2>3
<1>2. CASE ~vlan
  <2>1. Receivers(q, c) = <<q>> /\ q \in Clients
    BY <1>2 DEF Receivers
  <2>2. <<q>> \in Seq(Clients) /\ Len(<<q>>) = 1 /\ <<q>>[1] = q
    BY <2>1
  <2>3. \A i \in 1 .. 1 : i = 1
    OBVIOUS
  <2> QED  BY <1>2, <2>1, <2>2, <2>3
<1> QED  BY <1>1, <1>2 DEF Typed

\* A delivery that starts.
LEMMA DeliveryIs ==
  ASSUME Typed, NEW q \in Queues, NEW p \in Packet, NEW iov \in BOOLEAN, NEW queued \in BOOLEAN,
         vlan => q = Hub, ~vlan => q \in peers /\ (relinked \/ q \in ToSet(order))
  PROVE  LET f == Delivery(q, p, iov, queued)
         IN  /\ f \in AllFrames /\ Busy(f) /\ FrameOK(f) /\ f.q = q /\ f.pc = "deliver"
             /\ f.pkt = p /\ f.queued = queued
<1> DEFINE f == Delivery(q, p, iov, queued)
           t == Receivers(q, p.from)
<1>1. /\ t \in Seq(Clients)
      /\ \A i \in 1 .. Len(t) : t[i] \in (IF vlan THEN ToSet(order) ELSE {q})
  BY ReceiversAre DEF Typed
<1> HIDE DEF t
<1>2. f = [pc |-> "deliver", q |-> q, pkt |-> p, iov |-> iov, queued |-> queued,
           todo |-> t, ret |-> -1, at |-> Hub]
  BY DEF Delivery, t
<1> HIDE DEF f
<1>3. f \in Deliveries
  BY <1>1, <1>2 DEF Deliveries, Queues
<1>4. f.q = q /\ f.pc = "deliver" /\ f.pkt = p /\ f.queued = queued /\ f.todo = t
  BY <1>2
<1>5. FrameOK(f)
  BY <1>1, <1>4 DEF FrameOK
<1> QED  BY <1>3, <1>4, <1>5 DEF f, AllFrames, Busy

----------------------------------------------------------------------------
(* The steps of a delivery.                                                *)

\* Frame g goes on with the delivery of frame f.
GoesOn(f, g) ==
  /\ g \in Deliveries /\ FrameOK(g)
  /\ g.q = f.q /\ g.pkt = f.pkt /\ g.queued = f.queued

\* A delivery at the top.
LEMMA TopDelivery ==
  ASSUME HInv, NEW pc \in {"deliver", "receive"}, AtPc(pc)
  PROVE  /\ stack # << >> /\ Top = stack[1] /\ Top.pc = pc /\ Top \in Deliveries /\ Busy(Top)
         /\ FrameOK(Top) /\ delivering[Top.q] /\ 1 \in 1 .. Len(stack)
<1>1. /\ stack \in Seq(AllFrames) /\ stack # << >> /\ Len(stack) \in Nat \ {0}
      /\ Top = stack[1] /\ Top \in AllFrames /\ Top.pc = pc
  BY TopFrame DEF HInv
<1>2. Busy(Top)
  BY <1>1 DEF Busy
<1>3. Top \in Deliveries
  BY <1>1, <1>2, FrameKinds
<1>4. 1 \in 1 .. Len(stack)
  BY <1>1
<1>5. FrameOK(Top) /\ delivering[Top.q]
  BY <1>1, <1>2, <1>4 DEF HInv, Frames, Turns, Turned
<1> QED  BY <1>1, <1>2, <1>3, <1>4, <1>5

\* The next receiver is passed over or called.
LEMMA NextIs ==
  ASSUME HInv, NextReceiver
  PROVE  \E f : SetTop(f) /\ GoesOn(Top, f)
<1>1. /\ stack # << >> /\ Top.pc = "deliver" /\ Top \in Deliveries /\ FrameOK(Top)
  BY TopDelivery DEF NextReceiver
<1>2. Top.todo \in Seq(Clients) /\ Top.todo # << >>
  BY <1>1 DEF Deliveries, NextReceiver
<1> DEFINE r == Head(Top.todo)
           t == Tail(Top.todo)
           past == [Top EXCEPT !.todo = t]
           f1 == [past EXCEPT !.ret = 1]
           f2 == [past EXCEPT !.ret = 0]
           f3 == [past EXCEPT !.pc = "receive", !.at = r]
<1>3. /\ Len(Top.todo) \in Nat \ {0} /\ r = Top.todo[1] /\ r \in Clients /\ t \in Seq(Clients)
      /\ Len(t) = Len(Top.todo) - 1 /\ \A i \in 1 .. Len(Top.todo) - 1 : t[i] = Top.todo[i + 1]
  BY <1>2, PopIs
<1>4. SetTop(f1) \/ SetTop(f2) \/ SetTop(f3)
  BY DEF NextReceiver
<1>5. /\ r \in (IF vlan THEN ToSet(order) ELSE {Top.q})
      /\ \A i \in 1 .. Len(t) : t[i] \in (IF vlan THEN ToSet(order) ELSE {Top.q})
  <2>1. \A i \in 1 .. Len(Top.todo) : Top.todo[i] \in (IF vlan THEN ToSet(order) ELSE {Top.q})
    BY <1>1 DEF FrameOK, Busy
  <2>2. 1 \in 1 .. Len(Top.todo)
        /\ \A i \in 1 .. Len(t) : i \in 1 .. Len(Top.todo) - 1 /\ i + 1 \in 1 .. Len(Top.todo)
    <3> HIDE DEF t, r
    <3> QED  BY <1>3
  <2> HIDE DEF t, r
  <2> QED  BY <1>3, <2>1, <2>2
<1> HIDE DEF r, t
<1>6. /\ past \in Deliveries /\ past.pc = "deliver" /\ past.q = Top.q /\ past.pkt = Top.pkt
      /\ past.queued = Top.queued /\ past.todo = t
  BY <1>1, <1>3 DEF Deliveries
<1> HIDE DEF past
<1>7. ASSUME NEW f, f \in {f1, f2, f3} PROVE GoesOn(Top, f)
  <2>1. /\ f \in Deliveries /\ f.q = Top.q /\ f.pkt = Top.pkt /\ f.queued = Top.queued
        /\ f.todo = t /\ (f.pc = "receive" => f.at = r)
    BY <1>3, <1>6, <1>7 DEF Deliveries, Queues
  <2>2. FrameOK(f)
    BY <1>1, <1>5, <2>1 DEF FrameOK
  <2> QED  BY <2>1, <2>2 DEF GoesOn
<1> HIDE DEF f1, f2, f3
<1> QED  BY <1>4, <1>7

\* A receive handler returns.
LEMMA ReturnIs ==
  ASSUME HInv, AtPc("receive"), NEW len \in {-1, 0, 1}, Return(len)
  PROVE  \E f : SetTop(f) /\ GoesOn(Top, f)
<1>1. /\ stack # << >> /\ Top \in Deliveries /\ FrameOK(Top) /\ Busy(Top)
  BY TopDelivery
<1> DEFINE f == [Top EXCEPT !.pc = "deliver", !.ret = IF @ >= 0 THEN @ ELSE len]
<1>2. SetTop(f)
  BY DEF Return
<1>3. /\ f \in Deliveries /\ f.q = Top.q /\ f.pkt = Top.pkt /\ f.queued = Top.queued
      /\ f.todo = Top.todo /\ f.pc = "deliver"
  BY <1>1 DEF Deliveries
<1> HIDE DEF f
<1>4. FrameOK(f)
  BY <1>1, <1>3 DEF FrameOK
<1> QED  BY <1>2, <1>3, <1>4 DEF GoesOn

\* A delivery that goes on keeps the frames as they should be.
LEMMA KeepOn ==
  ASSUME HInv, NEW pc \in {"deliver", "receive"}, AtPc(pc), Steady, UNCHANGED delivering,
         NEW f, SetTop(f), GoesOn(Top, f)
  PROVE  stack' \in Seq(AllFrames') /\ Turns' /\ Frames'
<1>1. stack # << >> /\ delivering[Top.q]
  BY TopDelivery
<1>2. f \in AllFrames /\ f.q = Top.q /\ FrameOK(f)
  BY DEF GoesOn, AllFrames
<1>3. delivering' \in [Queues -> BOOLEAN]
  BY DEF HInv, Typed
<1> QED  BY <1>1, <1>2, <1>3, KeepTop

\* Nothing about the pair changes.
LEMMA KeepPair ==
  ASSUME HInv, Steady, UNCHANGED <<link_down, deleted>>
  PROVE  Pair'
BY DEF HInv, Pair, Steady

\* Moving to the next receiver keeps everything.
LEMMA HNextReceiver ==
  ASSUME HInv, NextReceiver
  PROVE  HInv'
<1>1. PICK f : SetTop(f) /\ GoesOn(Top, f)
  BY NextIs
<1>2. Steady /\ UNCHANGED <<queueVars, clientVars, vm_running, history>> /\ AtPc("deliver")
  BY DEF NextReceiver, Steady, topoVars, history
<1>3. stack' \in Seq(AllFrames') /\ Turns' /\ Frames' /\ Pair'
  BY <1>1, <1>2, KeepOn, KeepPair DEF queueVars, clientVars, history
<1>4. Ids' = Ids /\ Packet' = Packet
  BY <1>2, SameSets DEF Steady
<1>5. Typed'
  BY <1>2, <1>3, <1>4 DEF HInv, Typed, Steady, queueVars, clientVars, history
<1> QED  BY <1>3, <1>5 DEF HInv

\* So does a handler that takes the packet,
LEMMA HAccept ==
  ASSUME HInv, Accept
  PROVE  HInv'
<1>1. PICK f : SetTop(f) /\ GoesOn(Top, f)
  BY ReturnIs DEF Accept
<1>2. /\ Steady /\ AtPc("receive")
      /\ UNCHANGED <<queueVars, disabled, link_down, waiting, vm_running, sent, dropped,
                     refusals, deleted, relinked>>
  BY DEF Accept, Steady, topoVars
<1>3. stack' \in Seq(AllFrames') /\ Turns' /\ Frames' /\ Pair'
  BY <1>1, <1>2, KeepOn, KeepPair DEF queueVars
<1>4. Ids' = Ids /\ Packet' = Packet
  BY <1>2, SameSets DEF Steady
<1>5. Top \in Deliveries /\ FrameOK(Top) /\ Top.pc = "receive"
  BY <1>2, TopDelivery
<1>6. Top.at \in Clients /\ Top.pkt \in Packet
  <2>1. order \in Seq(Clients) /\ peers \subseteq Clients
    BY DEF HInv, Typed
  <2>2. ToSet(order) \subseteq Clients
    BY <2>1, InList
  <2> QED  BY <1>5, <2>1, <2>2 DEF FrameOK, Deliveries
<1>7. [from |-> Top.pkt.from, id |-> Top.pkt.id] \in [from : Clients, id : Ids]
  BY <1>6 DEF Packet
<1>8. got' \in [Clients -> Seq([from : Clients, id : Ids])]
  <2> DEFINE D == [from : Clients, id : Ids]
             x == [from |-> Top.pkt.from, id |-> Top.pkt.id]
             S == Seq(D)
  <2>1. got \in [Clients -> S] /\ x \in D
    BY <1>7 DEF HInv, Typed
  <2>2. got' = [got EXCEPT ![Top.at] = Append(@, x)]
    BY DEF Accept
  <2> HIDE DEF D, x
  <2>3. \A s \in S : Append(s, x) \in S
    BY <2>1
  <2> HIDE DEF S
  <2>4. got' \in [Clients -> S]
    BY <1>6, <2>1, <2>2, <2>3
  <2> QED  BY <2>4 DEF S, D
<1>9. owes' \in [Clients -> BOOLEAN]
  <2>1. owes \in [Clients -> BOOLEAN]
    BY DEF HInv, Typed
  <2> DEFINE b == owes[Top.at] /\ ~Virtio(Top.at)
  <2>2. owes' = [owes EXCEPT ![Top.at] = b] /\ b \in BOOLEAN
    BY DEF Accept
  <2> HIDE DEF b
  <2> QED  BY <2>1, <2>2
<1>10. Typed'
  BY <1>2, <1>3, <1>4, <1>8, <1>9 DEF HInv, Typed, Steady, queueVars
<1> QED  BY <1>3, <1>10 DEF HInv

\* or refuses it,
LEMMA HRefuse ==
  ASSUME HInv, Refuse
  PROVE  HInv'
<1>1. PICK f : SetTop(f) /\ GoesOn(Top, f)
  BY ReturnIs DEF Refuse
<1>2. /\ Steady /\ AtPc("receive")
      /\ UNCHANGED <<queueVars, link_down, waiting, vm_running, sent, got, dropped,
                     deleted, relinked>>
  BY DEF Refuse, Steady, topoVars
<1>3. stack' \in Seq(AllFrames') /\ Turns' /\ Frames' /\ Pair'
  BY <1>1, <1>2, KeepOn, KeepPair DEF queueVars
<1>4. Ids' = Ids /\ Packet' = Packet
  BY <1>2, SameSets DEF Steady
<1>5. Top \in Deliveries
  BY <1>2, TopDelivery
<1>6. owes' \in [Clients -> BOOLEAN] /\ disabled' \in [Clients -> BOOLEAN]
  <2>1. owes \in [Clients -> BOOLEAN] /\ disabled \in [Clients -> BOOLEAN]
    BY DEF HInv, Typed
  <2> DEFINE b == ~Top.iov \/ disabled[Top.at]
  <2>2. disabled' = [disabled EXCEPT ![Top.at] = b] /\ b \in BOOLEAN
        /\ owes' = [owes EXCEPT ![Top.at] = TRUE]
    BY DEF Refuse
  <2> HIDE DEF b
  <2> QED  BY <2>1, <2>2
<1>7. refusals' \in 0 .. MaxRefusals
  <2>1. refusals \in 0 .. MaxRefusals /\ refusals < MaxRefusals /\ refusals' = refusals + 1
    BY DEF HInv, Typed, Refuse
  <2> QED  BY <2>1, NetAssumption
<1>8. Typed'
  BY <1>2, <1>3, <1>4, <1>6, <1>7 DEF HInv, Typed, Steady, queueVars
<1> QED  BY <1>3, <1>8 DEF HInv

\* or discards it.
LEMMA HDiscard ==
  ASSUME HInv, Discard
  PROVE  HInv'
<1>1. PICK f : SetTop(f) /\ GoesOn(Top, f)
  BY ReturnIs DEF Discard
<1>2. Steady /\ UNCHANGED <<queueVars, clientVars, vm_running, history>> /\ AtPc("receive")
  BY DEF Discard, Steady, topoVars, history
<1>3. stack' \in Seq(AllFrames') /\ Turns' /\ Frames' /\ Pair'
  BY <1>1, <1>2, KeepOn, KeepPair DEF queueVars, clientVars, history
<1>4. Ids' = Ids /\ Packet' = Packet
  BY <1>2, SameSets DEF Steady
<1>5. Typed'
  BY <1>2, <1>3, <1>4 DEF HInv, Typed, Steady, queueVars, clientVars, history
<1> QED  BY <1>3, <1>5 DEF HInv

----------------------------------------------------------------------------
(* The end of a delivery, and flushes.                                     *)

\* A packet, put in front or at the end of a queue.
LEMMA QueueTypes ==
  ASSUME queue \in [Queues -> Seq(Packet)], NEW q \in Queues, NEW p \in Packet
  PROVE  /\ [queue EXCEPT ![q] = Append(@, p)] \in [Queues -> Seq(Packet)]
         /\ [queue EXCEPT ![q] = <<p>> \o @] \in [Queues -> Seq(Packet)]
         /\ queue[q] # << >> => /\ Head(queue[q]) \in Packet
                                /\ [queue EXCEPT ![q] = Tail(@)] \in [Queues -> Seq(Packet)]
<1> DEFINE P == Packet S == Seq(P)
<1>1. queue \in [Queues -> S] /\ p \in P /\ queue[q] \in S
  OBVIOUS
<1> HIDE DEF P
<1>2. Append(queue[q], p) \in S
  BY <1>1
<1>3. <<p>> \o queue[q] \in S
  BY <1>1, PushIs
<1>4. queue[q] # << >> => Head(queue[q]) \in P /\ Tail(queue[q]) \in S
  BY <1>1, PopIs
<1> HIDE DEF S
<1>5. /\ [queue EXCEPT ![q] = Append(@, p)] \in [Queues -> S]
      /\ [queue EXCEPT ![q] = <<p>> \o @] \in [Queues -> S]
      /\ queue[q] # << >> => [queue EXCEPT ![q] = Tail(@)] \in [Queues -> S]
  BY <1>1, <1>2, <1>3, <1>4
<1> QED  BY <1>4, <1>5 DEF S, P

\* The packet goes to the queue.
LEMMA HRequeue ==
  ASSUME HInv, Requeue
  PROVE  HInv'
<1>1. stack # << >> /\ Top \in Deliveries
  BY TopDelivery DEF Requeue, AllOffered
<1>2. /\ Steady /\ Pop
      /\ UNCHANGED <<disabled, link_down, owes, vm_running, history>>
  BY DEF Requeue, Steady, topoVars, history
<1>3. Top.q \in Queues /\ Top.pkt \in Packet /\ Top.queued \in BOOLEAN
  BY <1>1 DEF Deliveries
<1>4. /\ delivering' \in [Queues -> BOOLEAN]
      /\ \A q \in Queues : q # Top.q => delivering'[q] = delivering[q]
  <2>1. delivering \in [Queues -> BOOLEAN] /\ delivering' = [delivering EXCEPT ![Top.q] = FALSE]
    BY DEF HInv, Typed, Requeue, EndDelivery
  <2> QED  BY <1>3, <2>1
<1>5. stack' \in Seq(AllFrames') /\ Turns' /\ Frames' /\ Pair'
  <2>1. UNCHANGED <<link_down, deleted>>
    BY <1>2 DEF history
  <2> QED  BY <1>1, <1>2, <1>4, <2>1, KeepPop, KeepPair
<1>6. Ids' = Ids /\ Packet' = Packet
  BY <1>2, SameSets DEF Steady
<1>7. queue' \in [Queues -> Seq(Packet)]
  <2>1. queue \in [Queues -> Seq(Packet)]
    BY DEF HInv, Typed
  <2>2. \/ queue' = [queue EXCEPT ![Top.q] = Append(@, Top.pkt)]
        \/ queue' = [queue EXCEPT ![Top.q] = <<Top.pkt>> \o @]
    BY DEF Requeue
  <2>3. /\ [queue EXCEPT ![Top.q] = Append(@, Top.pkt)] \in [Queues -> Seq(Packet)]
        /\ [queue EXCEPT ![Top.q] = <<Top.pkt>> \o @] \in [Queues -> Seq(Packet)]
    BY <1>3, <2>1, QueueTypes
  <2> QED  BY <2>2, <2>3
<1>8. waiting' \in [Clients -> BOOLEAN]
  <2> DEFINE b == waiting[Top.pkt.from] \/ (Top.pkt.cb /\ ~Top.queued)
  <2>1. waiting \in [Clients -> BOOLEAN] /\ b \in BOOLEAN
        /\ waiting' = [waiting EXCEPT ![Top.pkt.from] = b]
    BY DEF HInv, Typed, Requeue
  <2> HIDE DEF b
  <2> QED  BY <2>1
<1>9. Typed'
  BY <1>2, <1>4, <1>5, <1>6, <1>7, <1>8 DEF HInv, Typed, Steady, history
<1> QED  BY <1>5, <1>9 DEF HInv

\* The packet is done with: its callback runs, or the queue is flushed.
LEMMA HDelivered ==
  ASSUME HInv, Delivered
  PROVE  HInv'
<1>1. stack # << >> /\ Top \in Deliveries /\ FrameOK(Top)
  BY TopDelivery DEF Delivered, AllOffered
<1>2. /\ Steady
      /\ UNCHANGED <<queue, disabled, link_down, owes, vm_running, sent, got, refusals,
                     deleted, relinked>>
  BY DEF Delivered, Steady, topoVars
<1>3. Top.q \in Queues /\ Top.pkt \in Packet /\ Top.pkt.from \in Clients /\ Top.pkt.id \in Ids
  BY <1>1 DEF Deliveries, Packet
<1>4. /\ delivering' \in [Queues -> BOOLEAN]
      /\ \A q \in Queues : q # Top.q => delivering'[q] = delivering[q]
  <2>1. delivering \in [Queues -> BOOLEAN] /\ delivering' = [delivering EXCEPT ![Top.q] = FALSE]
    BY DEF HInv, Typed, Delivered, EndDelivery
  <2> QED  BY <1>3, <2>1
<1>5. PICK f : SetTop(f) /\ f \in Callbacks \cup Flushes /\ f.q = Top.q
  <2>1. CASE Top.queued /\ Top.pkt.cb
    <3> DEFINE x == IF Virtio(Top.pkt.from) /\ ~vm_running THEN "abort" ELSE "cb"
               f == [pc |-> x, q |-> Top.q, at |-> Top.pkt.from]
    <3>1. x \in {"cb", "abort"}
      OBVIOUS
    <3>2. SetTop(f)
      BY <2>1 DEF Delivered
    <3> HIDE DEF x
    <3>3. f \in Callbacks /\ f.q = Top.q
      BY <1>3, <3>1 DEF Callbacks
    <3> HIDE DEF f
    <3> QED  BY <3>2, <3>3
  <2>2. CASE ~(Top.queued /\ Top.pkt.cb)
    <3>1. SetTop(Flushing(Top.q))
      BY <2>2 DEF Delivered
    <3>2. Flushing(Top.q) \in Flushes /\ Flushing(Top.q).q = Top.q
      BY <1>3 DEF Flushing, Flushes
    <3> QED  BY <3>1, <3>2
  <2> QED  BY <2>1, <2>2
<1>6. f \in AllFrames /\ ~Busy(f) /\ f.pc # "receive"
  BY <1>5 DEF AllFrames, Callbacks, Flushes, Busy
<1>7. FrameOK(f)
  BY <1>1, <1>5, <1>6 DEF FrameOK
<1>8. stack' \in Seq(AllFrames') /\ Turns' /\ Frames' /\ Pair'
  BY <1>1, <1>2, <1>4, <1>5, <1>6, <1>7, KeepTop, KeepPair
<1>9. Ids' = Ids /\ Packet' = Packet
  BY <1>2, SameSets DEF Steady
<1>10. waiting' \in [Clients -> BOOLEAN]
  <2>1. waiting \in [Clients -> BOOLEAN]
        /\ (waiting' = [waiting EXCEPT ![Top.pkt.from] = FALSE] \/ waiting' = waiting)
    BY DEF HInv, Typed, Delivered
  <2> QED  BY <2>1
<1>11. dropped' \in [Clients -> SUBSET Ids]
  <2> DEFINE b == dropped[Top.pkt.from] \cup (IF Taken(Top) THEN {} ELSE {Top.pkt.id})
  <2>1. dropped \in [Clients -> SUBSET Ids] /\ dropped' = [dropped EXCEPT ![Top.pkt.from] = b]
    BY DEF HInv, Typed, Delivered
  <2>2. b \in SUBSET Ids
    BY <1>3, <2>1
  <2> HIDE DEF b
  <2> QED  BY <2>1, <2>2
<1>12. Typed'
  BY <1>2, <1>4, <1>8, <1>9, <1>10, <1>11 DEF HInv, Typed, Steady
<1> QED  BY <1>8, <1>12 DEF HInv

\* A callback returns.
LEMMA HCallbackReturns ==
  ASSUME HInv, CallbackReturns
  PROVE  HInv'
<1>1. stack # << >> /\ Top = stack[1] /\ Top \in AllFrames /\ Len(stack) \in Nat \ {0}
  BY TopFrame DEF CallbackReturns, HInv
<1>2. Steady /\ UNCHANGED <<queueVars, clientVars, vm_running, history>>
  BY DEF CallbackReturns, Steady, topoVars, history
<1> DEFINE f == Flushing(Top.q)
<1>3. SetTop(f) /\ Top.q \in Queues
  BY <1>1, FrameKinds DEF CallbackReturns
<1>4. f \in AllFrames /\ ~Busy(f) /\ f.pc # "receive" /\ f.q = Top.q
  BY <1>3 DEF AllFrames, Flushes, Busy, Flushing
<1>5. FrameOK(Top)
  BY <1>1 DEF HInv, Frames
<1> HIDE DEF f
<1>6. FrameOK(f)
  BY <1>4, <1>5 DEF FrameOK
<1>7. /\ delivering' \in [Queues -> BOOLEAN] /\ delivering' = delivering
  BY <1>2 DEF HInv, Typed, queueVars
<1>8. stack' \in Seq(AllFrames') /\ Turns' /\ Frames' /\ Pair'
  <2>1. UNCHANGED <<link_down, deleted>>
    BY <1>2 DEF history, clientVars
  <2> QED  BY <1>1, <1>2, <1>3, <1>4, <1>6, <1>7, <2>1, KeepTop, KeepPair
<1>9. Ids' = Ids /\ Packet' = Packet
  BY <1>2, SameSets DEF Steady
<1>10. Typed'
  BY <1>2, <1>8, <1>9 DEF HInv, Typed, Steady, queueVars, clientVars, history
<1> QED  BY <1>8, <1>10 DEF HInv

\* A flush delivers the first packet.
LEMMA HFlushNext ==
  ASSUME HInv, FlushNext
  PROVE  HInv'
<1>1. stack # << >> /\ Top = stack[1] /\ Top \in AllFrames /\ Len(stack) \in Nat \ {0}
  BY TopFrame DEF FlushNext, HInv
<1>2. Steady /\ UNCHANGED <<clientVars, vm_running, history>>
  BY DEF FlushNext, Steady, topoVars, history
<1>3. /\ Top.q \in Queues /\ queue \in [Queues -> Seq(Packet)] /\ queue[Top.q] # << >>
      /\ queue' = [queue EXCEPT ![Top.q] = Tail(@)]
  BY <1>1, FrameKinds DEF FlushNext, HInv, Typed
<1> DEFINE p == Head(queue[Top.q])
           f == Delivery(Top.q, p, FALSE, TRUE)
<1>4. p \in Packet /\ queue' \in [Queues -> Seq(Packet)]
  <2>1. queue[Top.q] \in Seq(Packet)
    BY <1>3
  <2>2. p \in Packet
    <3> DEFINE P == Packet
    <3> HIDE DEF P
    <3>1. p \in P
      BY <1>3, <2>1, PopIs DEF P
    <3> QED  BY <3>1 DEF P
  <2> HIDE DEF p
  <2> QED  BY <1>3, <2>2, QueueTypes
<1>5. FrameOK(Top)
  BY <1>1 DEF HInv, Frames
<1>6. SetTop(f)
  BY DEF FlushNext
<1> HIDE DEF p
<1>7. f \in AllFrames /\ FrameOK(f) /\ f.q = Top.q
  <2>1. Typed /\ (vlan => Top.q = Hub)
        /\ (~vlan => Top.q \in peers /\ (relinked \/ Top.q \in ToSet(order)))
    BY <1>5 DEF HInv, FrameOK
  <2> QED  BY <1>3, <1>4, <2>1, DeliveryIs
<1> HIDE DEF f
<1>8. /\ delivering' \in [Queues -> BOOLEAN] /\ delivering'[f.q]
      /\ \A q \in Queues : q # f.q => delivering'[q] = delivering[q]
  <2>1. delivering \in [Queues -> BOOLEAN] /\ delivering' = [delivering EXCEPT ![Top.q] = TRUE]
    BY DEF HInv, Typed, FlushNext
  <2> QED  BY <1>3, <1>7, <2>1
<1>9. stack' \in Seq(AllFrames') /\ Turns' /\ Frames' /\ Pair'
  <2>1. UNCHANGED <<link_down, deleted>>
    BY <1>2 DEF history, clientVars
  <2> QED  BY <1>1, <1>2, <1>6, <1>7, <1>8, <2>1, KeepTop, KeepPair
<1>10. Ids' = Ids /\ Packet' = Packet
  BY <1>2, SameSets DEF Steady
<1>11. Typed'
  BY <1>2, <1>4, <1>8, <1>9, <1>10 DEF HInv, Typed, Steady, clientVars, history
<1> QED  BY <1>9, <1>11 DEF HInv

\* A flush ends.
LEMMA HFlushEnds ==
  ASSUME HInv, FlushEnds
  PROVE  HInv'
<1>1. stack # << >>
  BY TopFrame DEF FlushEnds, HInv
<1>2. Steady /\ Pop /\ UNCHANGED <<queueVars, clientVars, vm_running, history>>
  BY DEF FlushEnds, Steady, topoVars, history
<1>3. stack' \in Seq(AllFrames') /\ Turns' /\ Frames' /\ Pair'
  <2>1. UNCHANGED <<link_down, deleted, delivering>>
    BY <1>2 DEF history, clientVars, queueVars
  <2> QED  BY <1>1, <1>2, <2>1, KeepPop, KeepPair
<1>4. Ids' = Ids /\ Packet' = Packet
  BY <1>2, SameSets DEF Steady
<1>5. Typed'
  BY <1>2, <1>3, <1>4 DEF HInv, Typed, Steady, queueVars, clientVars, history
<1> QED  BY <1>3, <1>5 DEF HInv

----------------------------------------------------------------------------
(* Sends, and the operator.                                                *)

\* The number of a client's next packet is within its bound.
LEMMA NextId ==
  ASSUME Typed, NEW c \in Clients, sent[c] < packets[c]
  PROVE  /\ sent[c] + 1 \in Ids
         /\ [sent EXCEPT ![c] = @ + 1] \in [Clients -> Nat]
         /\ \A d \in Clients : [sent EXCEPT ![c] = @ + 1][d] <= packets[d]
<1>1. /\ sent \in [Clients -> Nat] /\ packets \in [Clients -> Nat]
      /\ \A d \in Clients : sent[d] <= packets[d]
  BY DEF Typed
<1>2. sent[c] + 1 \in 1 .. packets[c]
  BY <1>1
<1>3. sent[c] + 1 \in Ids
  BY <1>2 DEF Ids
<1>4. sent[c] + 1 \in Nat /\ sent[c] + 1 <= packets[c]
  BY <1>1
<1> QED  BY <1>1, <1>3, <1>4

\* Nothing to send to.
LEMMA HSendDropped ==
  ASSUME HInv, NEW c \in Clients, SendDropped(c)
  PROVE  HInv'
<1>1. /\ Steady /\ MaySend(c)
      /\ UNCHANGED <<queueVars, clientVars, vm_running, stack, got, refusals, deleted, relinked>>
  BY DEF SendDropped, Steady, topoVars
<1>2. Ids' = Ids /\ Packet' = Packet /\ AllFrames' = AllFrames
  BY <1>1, SameSets DEF Steady
<1>3. sent' = [sent EXCEPT ![c] = @ + 1] /\ sent[c] < packets[c] /\ packets' = packets
  BY <1>1 DEF SendDropped, MaySend, Steady
<1>4. sent[c] + 1 \in Ids /\ sent' \in [Clients -> Nat]
      /\ \A d \in Clients : sent'[d] <= packets'[d]
  BY <1>3, NextId DEF HInv
<1>5. dropped' \in [Clients -> SUBSET Ids]
  <2> DEFINE b == dropped[c] \cup {sent[c] + 1}
  <2>1. dropped \in [Clients -> SUBSET Ids] /\ dropped' = [dropped EXCEPT ![c] = b]
    BY DEF HInv, Typed, SendDropped
  <2>2. b \in SUBSET Ids
    BY <1>4, <2>1
  <2> HIDE DEF b
  <2> QED  BY <2>1, <2>2
<1>6. Typed'
  BY <1>1, <1>2, <1>4, <1>5 DEF HInv, Typed, Steady, queueVars, clientVars
<1>7. Turns' /\ Frames'
  BY <1>1, KeepStack DEF queueVars
<1>8. Pair'
  BY <1>1, KeepPair DEF clientVars
<1> QED  BY <1>6, <1>7, <1>8 DEF HInv

\* Where a client sends to.
LEMMA SendQueueIs ==
  ASSUME HInv, NEW c \in Clients, c \in ToSet(order), ~link_down[c], Connected(c)
  PROVE  /\ SendQueue(c) \in Queues /\ (vlan => SendQueue(c) = Hub)
         /\ ~vlan => /\ SendQueue(c) \in peers
                     /\ relinked \/ SendQueue(c) \in ToSet(order)
<1>1. CASE vlan
  BY <1>1 DEF SendQueue, Queues
<1>2. CASE ~vlan
  <2>1. SendQueue(c) = Peer(c) /\ Peer(c) \in peers
    BY <1>2, PeerIs DEF SendQueue
  <2>2. peers \subseteq Clients /\ (peers \subseteq ToSet(order) \/ relinked)
    BY <1>2 DEF HInv, Typed, Pair
  <2> QED  BY <1>2, <2>1, <2>2 DEF Queues
<1> QED  BY <1>1, <1>2

\* A packet is appended to the queue, or its delivery starts.
LEMMA HSend ==
  ASSUME HInv, NEW c \in Clients, Send(c)
  PROVE  HInv'
<1> DEFINE q == SendQueue(c)
           p == [from |-> c, id |-> sent[c] + 1, cb |-> Kind[c] # "slirp"]
           n == [p EXCEPT !.cb = FALSE]
           f == Delivery(q, p, Virtio(c), FALSE)
<1>1. /\ Steady /\ MaySend(c)
      /\ UNCHANGED <<clientVars, vm_running, got, dropped, refusals, deleted, relinked>>
  BY DEF Send, Steady, topoVars
<1>2. Ids' = Ids /\ Packet' = Packet /\ AllFrames' = AllFrames
  BY <1>1, SameSets DEF Steady
<1>3. sent' = [sent EXCEPT ![c] = @ + 1] /\ sent[c] < packets[c] /\ packets' = packets
  BY <1>1 DEF Send, MaySend, Steady
<1>4. sent[c] + 1 \in Ids /\ sent' \in [Clients -> Nat]
      /\ \A d \in Clients : sent'[d] <= packets'[d]
  BY <1>3, NextId DEF HInv
<1>5. p \in Packet /\ n \in Packet /\ Virtio(c) \in BOOLEAN
  BY <1>4 DEF Packet, Virtio
<1>6. /\ q \in Queues /\ (vlan => q = Hub)
      /\ ~vlan => q \in peers /\ (relinked \/ q \in ToSet(order))
  BY <1>1, SendQueueIs DEF Send, MaySend
<1>7. IF delivering[q]
      THEN queue' = [queue EXCEPT ![q] = Append(@, n)] /\ UNCHANGED <<delivering, stack>>
      ELSE /\ stack' = <<f>> \o stack /\ delivering' = [delivering EXCEPT ![q] = TRUE]
           /\ queue' = queue
  BY DEF Send
<1> HIDE DEF p, n, q
<1>8. f \in AllFrames /\ FrameOK(f) /\ f.q = q
  BY <1>5, <1>6, DeliveryIs DEF HInv
<1> HIDE DEF f
<1>9. Pair'
  BY <1>1, KeepPair DEF clientVars
<1>10. queue \in [Queues -> Seq(Packet)] /\ delivering \in [Queues -> BOOLEAN]
  BY DEF HInv, Typed
<1>11. CASE delivering[q]
  <2>1. queue' = [queue EXCEPT ![q] = Append(@, n)] /\ UNCHANGED <<delivering, stack>>
    BY <1>7, <1>11
  <2>2. queue' \in [Queues -> Seq(Packet)]
    BY <1>5, <1>6, <1>10, <2>1, QueueTypes
  <2>3. Typed'
    BY <1>1, <1>2, <1>4, <2>1, <2>2 DEF HInv, Typed, Steady, clientVars
  <2>4. Turns' /\ Frames'
    BY <1>1, <2>1, KeepStack
  <2> QED  BY <1>9, <2>3, <2>4 DEF HInv
<1>12. CASE ~delivering[q]
  <2>1. /\ stack' = <<f>> \o stack /\ delivering' = [delivering EXCEPT ![q] = TRUE]
        /\ queue' = queue
    BY <1>7, <1>12
  <2>2. /\ delivering' \in [Queues -> BOOLEAN] /\ delivering'[q]
        /\ \A r \in Queues : r # q => delivering'[r] = delivering[r]
    BY <1>6, <1>10, <2>1
  <2>3. stack' \in Seq(AllFrames') /\ Turns' /\ Frames'
    BY <1>1, <1>8, <1>12, <2>1, <2>2, KeepPush
  <2>4. Typed'
    BY <1>1, <1>2, <1>4, <2>1, <2>2, <2>3 DEF HInv, Typed, Steady, clientVars
  <2> QED  BY <1>9, <2>3, <2>4 DEF HInv
<1> QED  BY <1>11, <1>12

\* A client that refused flushes its queue.
LEMMA HFlush ==
  ASSUME HInv, NEW c \in Clients, qemu_flush_queued_packets(c)
  PROVE  HInv'
<1> DEFINE f == Flushing(OwnQueue(c))
<1>1. /\ Steady /\ Idle /\ c \in ToSet(order) /\ stack' = <<f>>
      /\ UNCHANGED <<queueVars, link_down, waiting, vm_running, history>>
  BY DEF qemu_flush_queued_packets, Steady, topoVars, history
<1>2. Ids' = Ids /\ Packet' = Packet /\ AllFrames' = AllFrames
  BY <1>1, SameSets DEF Steady
<1>3. OwnQueue(c) \in Queues
  BY DEF OwnQueue, Queues
<1>4. f \in AllFrames /\ ~Busy(f) /\ f.pc # "receive" /\ f.q = OwnQueue(c)
  BY <1>3 DEF AllFrames, Flushes, Busy, Flushing
<1>5. FrameOK(f)
  <2>1. ~vlan => c \in peers
    BY <1>1 DEF HInv, Pair
  <2> QED  BY <1>1, <1>4, <2>1 DEF FrameOK, OwnQueue
<1> HIDE DEF f
<1>6. /\ stack' \in Seq(AllFrames') /\ Len(stack') = 1 /\ stack'[1] = f
      /\ \A i \in 1 .. 1 : i = 1
  BY <1>1, <1>2, <1>4
<1>7. Turns'
  <2>1. \A i, j \in 1 .. 1 : ~(i < j)
    OBVIOUS
  <2> QED  BY <1>4, <1>6, <2>1 DEF Turns, Turned
<1>8. Frames'
  <2> SUFFICES ASSUME NEW i \in 1 .. Len(stack') PROVE FrameOK(stack[i])'
    BY DEF Frames
  <2>1. stack'[i] = f
    BY <1>6
  <2> QED  BY <1>1, <1>5, <2>1 DEF FrameOK, Steady, Busy
<1>9. Pair'
  BY <1>1, KeepPair DEF history
<1>10. owes' \in [Clients -> BOOLEAN] /\ disabled' \in [Clients -> BOOLEAN]
  BY DEF HInv, Typed, qemu_flush_queued_packets
<1>11. Typed'
  BY <1>1, <1>2, <1>6, <1>10 DEF HInv, Typed, Steady, queueVars, history
<1> QED  BY <1>7, <1>8, <1>9, <1>11 DEF HInv

\* A link goes down or up.
LEMMA HSetLink ==
  ASSUME HInv, NEW c \in Clients, SetLink(c)
  PROVE  HInv'
<1>1. /\ Idle /\ c \in ToSet(order)
      /\ UNCHANGED <<vlan, order, packets, peers, queueVars, disabled, waiting, owes,
                     vm_running, stack, sent, got, dropped, refusals, deleted>>
  BY DEF SetLink, topoVars
<1>2. Ids' = Ids /\ Packet' = Packet /\ AllFrames' = AllFrames
  BY <1>1, SameSets
<1>3. /\ link_down \in [Clients -> BOOLEAN] /\ link_down' = [link_down EXCEPT ![c] = ~@]
      /\ relinked' = (relinked \/ (link_down[c] /\ ~vlan /\ deleted # {}))
      /\ relinked \in BOOLEAN
  BY DEF HInv, Typed, SetLink
<1>4. link_down' \in [Clients -> BOOLEAN] /\ relinked' \in BOOLEAN
  BY <1>3
<1>5. Typed'
  BY <1>1, <1>2, <1>4 DEF HInv, Typed, queueVars
<1>6. Turns' /\ Frames'
  BY <1>1, KeepIdle
<1>7. Pair'
  <2> SUFFICES ASSUME ~vlan PROVE Pair'
    BY <1>1 DEF Pair
  <2>1. /\ ToSet(order) \subseteq peers
        /\ \A x, y, z \in peers : x = y \/ y = z \/ x = z
        /\ deleted = {} => peers \subseteq ToSet(order)
        /\ \A d \in ToSet(order) : peers \subseteq ToSet(order) \/ link_down[d] \/ relinked
    BY DEF HInv, Pair
  <2>2. ASSUME NEW d \in ToSet(order)
        PROVE  peers \subseteq ToSet(order) \/ link_down'[d] \/ relinked'
    <3>1. CASE d # c
      <4>1. d \in Clients
        BY <2>1, <2>2 DEF HInv, Typed
      <4> QED  BY <1>3, <2>1, <2>2, <3>1, <4>1
    <3>2. CASE d = c
      BY <1>3, <2>1, <3>2
    <3> QED  BY <3>1, <3>2
  <2> QED  BY <1>1, <2>1, <2>2 DEF Pair
<1> QED  BY <1>5, <1>6, <1>7 DEF HInv

\* stop and cont.
LEMMA HStopCont ==
  ASSUME HInv, StopCont
  PROVE  HInv'
<1>1. Steady /\ Idle /\ UNCHANGED <<queueVars, clientVars, stack, history>>
      /\ vm_running' = ~vm_running
  BY DEF StopCont, Steady, topoVars, history
<1>2. Ids' = Ids /\ Packet' = Packet /\ AllFrames' = AllFrames
  BY <1>1, SameSets DEF Steady
<1>3. Typed'
  BY <1>1, <1>2 DEF HInv, Typed, Steady, queueVars, clientVars, history
<1>4. Turns' /\ Frames' /\ Pair'
  BY <1>1, KeepIdle, KeepPair DEF clientVars, history
<1> QED  BY <1>3, <1>4 DEF HInv

----------------------------------------------------------------------------
(* Deleting clients.                                                       *)

\* w is what is left of s.
Thinned(w, s) ==
  \E m \in [1 .. Len(w) -> 1 .. Len(s)] :
    /\ \A i \in 1 .. Len(w) : w[i] = s[m[i]]
    /\ \A i, j \in 1 .. Len(w) : m[i] = m[j] => i = j

\* Everything may be left, or nothing.
LEMMA ThinnedSame ==
  ASSUME NEW A, NEW s \in Seq(A)
  PROVE  Thinned(s, s) /\ Thinned(<< >>, s)
<1>1. Len(s) \in Nat
  BY LenProperties
<1> DEFINE m == [i \in 1 .. Len(s) |-> i]
           z == [i \in 1 .. 0 |-> 1]
<1>2. /\ m \in [1 .. Len(s) -> 1 .. Len(s)] /\ \A i \in 1 .. Len(s) : m[i] = i
  OBVIOUS
<1>3. z \in [1 .. 0 -> 1 .. Len(s)] /\ Len(<< >>) = 0 /\ \A i \in 1 .. 0 : FALSE
  OBVIOUS
<1> HIDE DEF m, z
<1>4. Thinned(s, s)
  BY <1>2 DEF Thinned
<1>5. Thinned(<< >>, s)
  <2>1. \A i \in 1 .. Len(<< >>) : FALSE
    BY <1>3
  <2>2. z \in [1 .. Len(<< >>) -> 1 .. Len(s)]
    BY <1>3
  <2> QED  BY <2>1, <2>2 DEF Thinned
<1> QED  BY <1>4, <1>5

\* What a client that is cleaned up leaves in the queues.
LEMMA CleanedIs ==
  ASSUME Typed, NEW c \in Clients
  PROVE  /\ Cleaned(c) \in [Queues -> Seq(Packet)]
         /\ \A q \in Queues : Thinned(Cleaned(c)[q], queue[q])
         /\ Kind[c] # "slirp" /\ Connected(c) =>
              \A i \in 1 .. Len(Cleaned(c)[SendQueue(c)]) :
                Cleaned(c)[SendQueue(c)][i].from # c
<1> DEFINE P == Packet S == Seq(P)
<1>1. queue \in [Queues -> S] /\ \A q \in Queues : queue[q] \in S
  BY DEF Typed
<1> HIDE DEF P
<1>2. CASE ~(Kind[c] # "slirp" /\ Connected(c))
  <2>1. Cleaned(c) = queue
    BY <1>2 DEF Cleaned
  <2>2. \A q \in Queues : Thinned(queue[q], queue[q])
    BY <1>1, ThinnedSame
  <2> QED  BY <1>1, <1>2, <2>1, <2>2 DEF P
<1>3. CASE Kind[c] # "slirp" /\ Connected(c)
  <2> DEFINE r == SendQueue(c)
             gone == {p \in ToSet(queue[r]) : p.from = c}
             w == Without(queue[r], gone)
             qs == [queue EXCEPT ![r] = w]
  <2>1. r \in Queues
    <3>1. ~vlan => Peer(c) \in Clients
      BY <1>3, PeerIs DEF Typed
    <3> QED  BY <3>1 DEF SendQueue, Queues
  <2>2. Cleaned(c) = qs
    BY <1>3 DEF Cleaned, Purged
  <2> HIDE DEF r
  <2>3. PICK m \in [1 .. Len(w) -> 1 .. Len(queue[r])] :
          /\ \A i \in 1 .. Len(w) : w[i] = queue[r][m[i]] /\ queue[r][m[i]] \notin gone
          /\ \A i, j \in 1 .. Len(w) : m[i] = m[j] => i = j
    <3>1. queue[r] \in Seq(P)
      BY <1>1, <2>1
    <3> HIDE DEF gone
    <3> QED  BY <3>1, WithoutIs, SMTT(30)
  <2>4. w \in S
    <3>1. queue[r] \in Seq(P)
      BY <1>1, <2>1
    <3> HIDE DEF gone
    <3> QED  BY <3>1, WithoutIs
  <2>5. \A i \in 1 .. Len(w) : w[i].from # c
    <3>1. \A i \in 1 .. Len(w) : m[i] \in 1 .. Len(queue[r])
      BY <2>3
    <3>2. \A j \in 1 .. Len(queue[r]) : queue[r][j] \in ToSet(queue[r])
      BY <1>1, <2>1, InList
    <3> HIDE DEF w
    <3> QED  BY <2>3, <3>1, <3>2
  <2>6. Thinned(w, queue[r])
    <3> HIDE DEF w
    <3> QED  BY <2>3 DEF Thinned
  <2> HIDE DEF w, S
  <2>7. qs \in [Queues -> S] /\ qs[r] = w /\ \A q \in Queues : q # r => qs[q] = queue[q]
    BY <1>1, <2>1, <2>4
  <2> HIDE DEF qs
  <2>8. \A q \in Queues : Thinned(queue[q], queue[q])
    BY <1>1, ThinnedSame DEF S
  <2>9. \A q \in Queues : Thinned(qs[q], queue[q])
    BY <2>6, <2>7, <2>8
  <2> QED  BY <2>2, <2>5, <2>7, <2>9 DEF S, P, r
<1> QED  BY <1>2, <1>3

\* The packets that are lost had numbers.
LEMMA LoseRestTypes ==
  ASSUME Typed, NEW qs, LoseRest(qs)
  PROVE  queue' = qs /\ dropped' \in [Clients -> SUBSET Ids]
<1>1. queue' = qs /\ dropped' = [c \in Clients |->
                       dropped[c] \cup (QueuedFrom(queue, c) \ QueuedFrom(qs, c))]
  BY DEF LoseRest
<1>2. dropped \in [Clients -> SUBSET Ids] /\ queue \in [Queues -> Seq(Packet)]
  BY DEF Typed
<1>3. ASSUME NEW c \in Clients PROVE QueuedFrom(queue, c) \subseteq Ids
  <2>1. \A q \in Queues : ToSet(queue[q]) \subseteq Packet
    <3> DEFINE P == Packet
    <3> HIDE DEF P
    <3>1. \A q \in Queues : queue[q] \in Seq(P)
      BY <1>2 DEF P
    <3>2. \A q \in Queues : ToSet(queue[q]) \subseteq P
      BY <3>1, InList
    <3> QED  BY <3>2 DEF P
  <2>2. UNION {ToSet(queue[q]) : q \in DOMAIN queue} \subseteq Packet
    BY <1>2, <2>1
  <2>3. \A p \in Packet : p.id \in Ids
    BY DEF Packet
  <2> QED  BY <2>2, <2>3 DEF QueuedFrom
<1> QED  BY <1>1, <1>2, <1>3

\* What deleting a client leaves alone, and the types of the rest.
LEMMA DeleteTypes ==
  ASSUME HInv, NEW c \in Clients, Idle, UNCHANGED leftAlone,
         NEW qs \in [Queues -> Seq(Packet)], LoseRest(qs), NEW gone, order' = Without(order, gone),
         peers' \subseteq Clients, link_down' \in [Clients -> BOOLEAN],
         deleted' = deleted \cup {c}, waiting' = [waiting EXCEPT ![c] = FALSE]
  PROVE  Typed' /\ Turns' /\ Frames' /\ ToSet(order') = ToSet(order) \ gone
<1>1. UNCHANGED <<vlan, packets, delivering, disabled, owes, vm_running, stack, sent, got,
                  refusals, relinked>>
  BY DEF leftAlone
<1>2. Ids' = Ids /\ Packet' = Packet /\ AllFrames' = AllFrames
  BY <1>1, SameSets
<1>3. queue' = qs /\ dropped' \in [Clients -> SUBSET Ids]
  BY LoseRestTypes DEF HInv
<1>4. order' \in Seq(Clients) /\ ToSet(order') = ToSet(order) \ gone
  BY WithoutSet DEF HInv, Typed
<1>5. waiting' \in [Clients -> BOOLEAN] /\ deleted' \subseteq Clients
  BY DEF HInv, Typed
<1>6. Typed'
  BY <1>1, <1>2, <1>3, <1>4, <1>5 DEF HInv, Typed
<1>7. Turns' /\ Frames'
  BY <1>1, KeepIdle
<1> QED  BY <1>4, <1>6, <1>7

\* A client on a VLAN is deleted.
LEMMA HDeleteOnVlan ==
  ASSUME HInv, NEW c \in Clients, DeleteOnVlan(c)
  PROVE  HInv'
<1>1. /\ vlan /\ vlan' = vlan /\ Idle /\ UNCHANGED <<peers, link_down, leftAlone>>
      /\ order' = Without(order, {c}) /\ LoseRest(Cleaned(c))
      /\ deleted' = deleted \cup {c} /\ waiting' = [waiting EXCEPT ![c] = FALSE]
  BY DEF DeleteOnVlan, leftAlone
<1>2. Cleaned(c) \in [Queues -> Seq(Packet)]
  BY CleanedIs DEF HInv
<1>3. peers' \subseteq Clients /\ link_down' \in [Clients -> BOOLEAN]
  BY <1>1 DEF HInv, Typed
<1>4. Typed' /\ Turns' /\ Frames'
  BY <1>1, <1>2, <1>3, DeleteTypes
<1>5. Pair'
  BY <1>1 DEF Pair
<1> QED  BY <1>4, <1>5 DEF HInv

\* A back end is deleted: the NIC's link goes down.
LEMMA HDeleteBackend ==
  ASSUME HInv, NEW c \in Clients, DeleteBackend(c)
  PROVE  HInv'
<1>1. /\ ~vlan /\ vlan' = vlan /\ Idle /\ UNCHANGED <<peers, leftAlone>> /\ c \in ToSet(order)
      /\ order' = Without(order, {c}) /\ LoseRest(Cleaned(c))
      /\ deleted' = deleted \cup {c} /\ waiting' = [waiting EXCEPT ![c] = FALSE]
      /\ link_down' = [link_down EXCEPT ![Peer(c)] = TRUE] /\ \E p \in peers : p # c
  <2>1. DeleteBackend(c) => \E p \in peers : p # c
    BY DEF DeleteBackend, Virtio
  <2> QED  BY <2>1 DEF DeleteBackend, leftAlone
<1>2. Cleaned(c) \in [Queues -> Seq(Packet)]
  BY CleanedIs DEF HInv
<1>3. peers' \subseteq Clients /\ link_down' \in [Clients -> BOOLEAN]
  BY <1>1 DEF HInv, Typed
<1>4. Typed' /\ Turns' /\ Frames' /\ ToSet(order') = ToSet(order) \ {c}
  BY <1>1, <1>2, <1>3, DeleteTypes
<1>5. Peer(c) \in peers /\ Peer(c) # c
  BY <1>1, PeerIs DEF Connected
<1>6. /\ ToSet(order) \subseteq peers /\ peers \subseteq Clients
      /\ \A x, y, z \in peers : x = y \/ y = z \/ x = z
      /\ link_down \in [Clients -> BOOLEAN]
  BY <1>1 DEF HInv, Typed, Pair
<1>7. \A d \in ToSet(order') : d = Peer(c) /\ link_down'[d]
  <2>1. \A d \in ToSet(order') : d \in peers /\ d # c
    BY <1>4, <1>6
  <2>2. \A d \in ToSet(order') : d = Peer(c)
    BY <1>1, <1>5, <1>6, <2>1
  <2> QED  BY <1>1, <1>5, <1>6, <2>2
<1>8. deleted' # {}
  BY <1>1
<1>9. Pair'
  BY <1>1, <1>4, <1>6, <1>7, <1>8 DEF Pair
<1> QED  BY <1>4, <1>9 DEF HInv

\* A NIC is deleted, with a back end that was deleted before.
LEMMA HDeleteNic ==
  ASSUME HInv, NEW c \in Clients, DeleteNic(c)
  PROVE  HInv'
<1> DEFINE freed == {c} \cup (peers \ ToSet(order))
           qs == [q \in DOMAIN queue |-> IF q \in freed THEN << >> ELSE Cleaned(c)[q]]
<1>1. /\ ~vlan /\ vlan' = vlan /\ Idle /\ UNCHANGED <<link_down, leftAlone>> /\ c \in ToSet(order)
      /\ order' = Without(order, freed) /\ LoseRest(qs) /\ peers' = peers \ freed
      /\ deleted' = deleted \cup {c} /\ waiting' = [waiting EXCEPT ![c] = FALSE]
  BY DEF DeleteNic, leftAlone
<1>2. qs \in [Queues -> Seq(Packet)]
  <2> DEFINE S == Seq(Packet)
  <2>1. DOMAIN queue = Queues /\ Cleaned(c) \in [Queues -> S]
    BY CleanedIs DEF HInv, Typed
  <2>2. << >> \in S
    OBVIOUS
  <2> HIDE DEF S, freed
  <2>3. qs \in [Queues -> S]
    BY <2>1, <2>2
  <2> QED  BY <2>3 DEF S
<1>3. peers' \subseteq Clients /\ link_down' \in [Clients -> BOOLEAN]
  BY <1>1 DEF HInv, Typed
<1> HIDE DEF qs
<1>4. Typed' /\ Turns' /\ Frames' /\ ToSet(order') = ToSet(order) \ freed
  BY <1>1, <1>2, <1>3, DeleteTypes
<1>5. /\ ToSet(order) \subseteq peers
      /\ \A x, y, z \in peers : x = y \/ y = z \/ x = z
  BY <1>1 DEF HInv, Pair
<1>6. peers' = ToSet(order') /\ peers' \subseteq peers
  BY <1>1, <1>4, <1>5
<1>7. Pair'
  BY <1>1, <1>5, <1>6 DEF Pair
<1> QED  BY <1>4, <1>7 DEF HInv

----------------------------------------------------------------------------
(* Handlers are entered when they may be.                                  *)

\* Every step keeps it.
LEMMA HStep ==
  ASSUME HInv, [Next]_vars
  PROVE  HInv'
<1>1. CASE UNCHANGED vars
  <2>1. Steady /\ UNCHANGED <<queueVars, clientVars, vm_running, stack, history>>
    BY <1>1 DEF vars, topoVars, Steady, history
  <2>2. Ids' = Ids /\ Packet' = Packet /\ AllFrames' = AllFrames
    BY <2>1, SameSets DEF Steady
  <2>3. Typed'
    BY <2>1, <2>2 DEF HInv, Typed, Steady, queueVars, clientVars, history
  <2>4. Turns' /\ Frames' /\ Pair'
    BY <2>1, KeepStack, KeepPair DEF queueVars, clientVars, history
  <2> QED  BY <2>3, <2>4 DEF HInv
<1>2. CASE Deliver
  BY <1>2, HNextReceiver, HAccept, HRefuse, HDiscard, HRequeue, HDelivered,
     HCallbackReturns, HFlushNext, HFlushEnds DEF Deliver
<1>3. CASE StopCont
  BY <1>3, HStopCont
<1>4. ASSUME NEW c \in Clients,
             \/ SendDropped(c) \/ Send(c) \/ qemu_flush_queued_packets(c)
             \/ SetLink(c) \/ DeleteOnVlan(c) \/ DeleteBackend(c) \/ DeleteNic(c)
      PROVE  HInv'
  BY <1>4, HSendDropped, HSend, HFlush, HSetLink, HDeleteOnVlan, HDeleteBackend, HDeleteNic
<1> QED  BY <1>1, <1>2, <1>3, <1>4 DEF Next

\* Turns, Frames and Pair hold in every reachable state.
THEOREM CallInvariance == Spec => []HInv
<1>1. Init => HInv
  BY HInit
<1>2. HInv /\ [Next]_vars => HInv'
  BY HStep
<1> QED  BY <1>1, <1>2, PTL DEF Spec

\* The frames say which handlers run.
LEMMA HandlersFrom ==
  ASSUME HInv
  PROVE  HandlersSound
<1>1. /\ stack \in Seq(AllFrames) /\ Len(stack) \in Nat /\ DOMAIN stack = 1 .. Len(stack)
      /\ \A f : f \in ToSet(stack) <=> \E i \in 1 .. Len(stack) : stack[i] = f
      /\ ToSet(stack) \subseteq AllFrames
  <2>1. stack \in Seq(AllFrames)
    BY DEF HInv, Typed
  <2> QED  BY <2>1, InList, LenProperties
<1>2. TypeOK
  <2>1. ToSet(order) \subseteq Clients
    BY InList DEF HInv, Typed
  <2>2. \A q \in DOMAIN queue : ToSet(queue[q]) \subseteq Packet
    <3> DEFINE P == Packet
    <3> HIDE DEF P
    <3>1. queue \in [Queues -> Seq(P)]
      BY DEF HInv, Typed, P
    <3>2. \A q \in DOMAIN queue : queue[q] \in Seq(P)
      BY <3>1
    <3>3. \A q \in DOMAIN queue : ToSet(queue[q]) \subseteq P
      BY <3>2, InList
    <3> QED  BY <3>3 DEF P
  <2>3. \A c \in Clients : ToSet(got[c]) \subseteq [from : Clients, id : Ids]
    <3> DEFINE P == [from : Clients, id : Ids]
    <3> HIDE DEF P
    <3>1. got \in [Clients -> Seq(P)]
      BY DEF HInv, Typed, P
    <3>2. \A c \in Clients : got[c] \in Seq(P)
      BY <3>1
    <3>3. \A c \in Clients : ToSet(got[c]) \subseteq P
      BY <3>2, InList
    <3> QED  BY <3>3 DEF P
  <2>4. \A f \in ToSet(stack) : f.pc \in {"deliver", "receive", "cb", "flush", "abort"}
    BY <1>1, FrameKinds
  <2>5. \A c \in Clients : sent[c] \in 0 .. packets[c]
    BY DEF HInv, Typed
  <2> QED  BY <2>1, <2>2, <2>3, <2>4, <2>5 DEF TypeOK, HInv, Typed, Queues
<1>3. NoReentry
  <2> SUFFICES ASSUME NEW i \in 1 .. Len(stack), NEW j \in 1 .. Len(stack), i # j,
                      stack[i].pc = "receive", stack[j].pc = "receive"
               PROVE  stack[i].at # stack[j].at
    BY <1>1 DEF NoReentry
  <2>1. Busy(stack[i]) /\ Busy(stack[j])
    BY DEF Busy
  <2>2. i < j \/ j < i
    BY <1>1
  <2>3. stack[i].q # stack[j].q
    BY <2>1, <2>2 DEF HInv, Turns, Turned
  <2>4. FrameOK(stack[i]) /\ FrameOK(stack[j])
    BY DEF HInv, Frames
  <2> QED  BY <2>3, <2>4 DEF FrameOK
<1>4. ReceiverAlive
  <2> SUFFICES ASSUME ~relinked, NEW f \in ToSet(stack), f.pc = "receive"
               PROVE  f.at \in ToSet(order)
    BY DEF ReceiverAlive
  <2>1. FrameOK(f)
    BY <1>1 DEF HInv, Frames
  <2> QED  BY <2>1 DEF FrameOK
<1> QED  BY <1>2, <1>3, <1>4 DEF HandlersSound

\* A receive handler is never entered again while it runs, and never after its client
\* was cleaned up, whatever handlers and callbacks send (qemu_net_queue_send, delivering).
THEOREM HandlersAreSound == Spec => []HandlersSound
<1>1. HInv => HandlersSound
  BY HandlersFrom
<1> QED  BY <1>1, CallInvariance, PTL

----------------------------------------------------------------------------
(* Moving packets that are not c's.                                        *)

\* The calls in st2 are those in st, as far as c's packets go, k places further in.
CallsMove(st, st2, c, k) ==
  /\ \A i \in 1 .. Len(st2) : CallFor(st2[i], c) =>
       /\ i + k \in 1 .. Len(st) /\ CallFor(st[i + k], c)
       /\ st[i + k].q = st2[i].q /\ st[i + k].queued = st2[i].queued
  /\ \A i \in 1 .. Len(st2) : CbFor(st2[i], c) => i + k \in 1 .. Len(st) /\ CbFor(st[i + k], c)
  /\ InCall(st, c) => InCall(st2, c)

CallsKept(st, st2, c) == \E k \in {-1, 0, 1} : CallsMove(st, st2, c, k)

\* The packets in s2 are those in s, as far as c's go, k places further on.
QueueMove(s, s2, c, k) ==
  /\ \A i \in 1 .. Len(s2) : Owed(s2[i], c) => i + k \in 1 .. Len(s) /\ Owed(s[i + k], c)
  /\ \A i \in 1 .. Len(s) : Owed(s[i], c) => i - k \in 1 .. Len(s2) /\ Owed(s2[i - k], c)

QueuesKept(qs, qs2, c) == \A q \in Queues : \E k \in {-1, 0, 1} : QueueMove(qs[q], qs2[q], c, k)

\* Then c is as it was.
LEMMA KeepClient ==
  ASSUME NEW qs, NEW st, NEW qs2, NEW st2, NEW c, NEW w, NEW S, NEW a,
         Once(qs, st, c), Waits(qs, st, c, w, S, a),
         CallsKept(st, st2, c), QueuesKept(qs, qs2, c)
  PROVE  Once(qs2, st2, c) /\ Waits(qs2, st2, c, w, S, a)
<1>1. PICK k \in {-1, 0, 1} : CallsMove(st, st2, c, k)
  BY DEF CallsKept
<1>2. ASSUME NEW q \in Queues, NEW i \in 1 .. Len(qs2[q]), Owed(qs2[q][i], c)
      PROVE  w /\ q \in S /\ InQueue(qs, c)
  <2>1. PICK h \in {-1, 0, 1} : QueueMove(qs[q], qs2[q], c, h)
    BY DEF QueuesKept
  <2>2. i + h \in 1 .. Len(qs[q]) /\ Owed(qs[q][i + h], c)
    BY <1>2, <2>1 DEF QueueMove
  <2> QED  BY <2>2 DEF Waits, InQueue
<1>3. ASSUME NEW q \in Queues, NEW i \in 1 .. Len(qs2[q]), NEW j \in 1 .. Len(qs2[q]),
             Owed(qs2[q][i], c), Owed(qs2[q][j], c)
      PROVE  i = j
  <2>1. PICK h \in {-1, 0, 1} : QueueMove(qs[q], qs2[q], c, h)
    BY DEF QueuesKept
  <2>2. /\ i + h \in 1 .. Len(qs[q]) /\ Owed(qs[q][i + h], c)
        /\ j + h \in 1 .. Len(qs[q]) /\ Owed(qs[q][j + h], c)
    BY <1>3, <2>1 DEF QueueMove
  <2>3. i + h = j + h
    BY <2>2 DEF Once
  <2> QED  BY <2>3
<1>4. InQueue(qs, c) => InQueue(qs2, c)
  <2> SUFFICES ASSUME NEW q \in Queues, NEW i \in 1 .. Len(qs[q]), Owed(qs[q][i], c)
               PROVE  InQueue(qs2, c)
    BY DEF InQueue
  <2>1. PICK h \in {-1, 0, 1} : QueueMove(qs[q], qs2[q], c, h)
    BY DEF QueuesKept
  <2>2. i - h \in 1 .. Len(qs2[q]) /\ Owed(qs2[q][i - h], c)
    BY <2>1 DEF QueueMove
  <2> QED  BY <2>2 DEF InQueue
<1>5. ASSUME NEW i \in 1 .. Len(st2), CallFor(st2[i], c)
      PROVE  /\ i + k \in 1 .. Len(st) /\ CallFor(st[i + k], c) /\ InCall(st, c)
             /\ (w <=> st2[i].queued) /\ st2[i].q \in S
  <2>1. /\ i + k \in 1 .. Len(st) /\ CallFor(st[i + k], c)
        /\ st[i + k].q = st2[i].q /\ st[i + k].queued = st2[i].queued
    BY <1>1, <1>5 DEF CallsMove
  <2>2. (w <=> st[i + k].queued) /\ st[i + k].q \in S
    BY <2>1 DEF Waits
  <2> QED  BY <2>1, <2>2 DEF InCall
<1>6. ASSUME NEW i \in 1 .. Len(st2), NEW j \in 1 .. Len(st2), CallFor(st2[j], c)
      PROVE  (CallFor(st2[i], c) => i = j) /\ (CbFor(st2[i], c) => j < i)
  <2>1. j + k \in 1 .. Len(st) /\ CallFor(st[j + k], c)
    BY <1>5, <1>6
  <2>2. CASE CallFor(st2[i], c)
    <3>1. i + k \in 1 .. Len(st) /\ CallFor(st[i + k], c)
      BY <1>5, <2>2
    <3>2. i + k = j + k
      BY <2>1, <3>1 DEF Once
    <3>3. i = j
      BY <3>2
    <3>4. ~CbFor(st2[i], c)
      BY <2>2 DEF CallFor, CbFor, Busy
    <3> QED  BY <3>3, <3>4
  <2>3. CASE CbFor(st2[i], c)
    <3>1. i + k \in 1 .. Len(st) /\ CbFor(st[i + k], c)
      BY <1>1, <2>3 DEF CallsMove
    <3>2. j + k < i + k
      BY <2>1, <3>1 DEF Once
    <3>3. j < i
      BY <3>2
    <3>4. ~CallFor(st2[i], c)
      BY <2>3 DEF CallFor, CbFor, Busy
    <3> QED  BY <3>3, <3>4
  <2> QED  BY <2>2, <2>3
<1>7. InCall(st, c) => InCall(st2, c)
  BY <1>1 DEF CallsMove
<1>8. InCall(st2, c) => InCall(st, c)
  BY <1>5 DEF InCall
<1>9. InQueue(qs2, c) => InQueue(qs, c)
  BY <1>2 DEF InQueue
<1>10. Once(qs2, st2, c)
  <2>1. ~(InQueue(qs2, c) /\ InCall(st2, c))
    BY <1>8, <1>9 DEF Once
  <2>2. \A i, j \in 1 .. Len(st2) : CallFor(st2[i], c) /\ CallFor(st2[j], c) => i = j
    BY <1>6
  <2>3. \A i, j \in 1 .. Len(st2) : CbFor(st2[i], c) /\ CallFor(st2[j], c) => j < i
    BY <1>6
  <2> QED  BY <1>3, <2>1, <2>2, <2>3 DEF Once
<1>11. Waits(qs2, st2, c, w, S, a)
  <2>1. a /\ w => InQueue(qs2, c) \/ InCall(st2, c)
    BY <1>4, <1>7 DEF Waits
  <2>2. \A i \in 1 .. Len(st2) : CallFor(st2[i], c) => (w <=> st2[i].queued) /\ st2[i].q \in S
    BY <1>5
  <2> QED  BY <1>2, <2>1, <2>2 DEF Waits
<1> QED  BY <1>10, <1>11

\* The innermost call is replaced by one that is c's as much as it was.
LEMMA CallsTop ==
  ASSUME NEW A, NEW st \in Seq(A), st # << >>, NEW f \in A, NEW c,
         CallFor(st[1], c) <=> CallFor(f, c),
         CallFor(f, c) => st[1].q = f.q /\ st[1].queued = f.queued,
         CbFor(f, c) => CbFor(st[1], c)
  PROVE  CallsKept(st, <<f>> \o Tail(st), c)
<1> DEFINE u == <<f>> \o Tail(st)
<1>1. /\ Len(st) \in Nat \ {0} /\ Len(u) = Len(st) /\ u[1] = f
      /\ \A i \in 2 .. Len(st) : u[i] = st[i]
  BY TopIs
<1>2. \A i \in 1 .. Len(st) : (i = 1 \/ i \in 2 .. Len(st)) /\ i + 0 = i
  BY <1>1
<1>3. 1 \in 1 .. Len(st)
  BY <1>1
<1> HIDE DEF u
<1>4. \A i \in 1 .. Len(u) : CallFor(u[i], c) =>
       /\ i + 0 \in 1 .. Len(st) /\ CallFor(st[i + 0], c)
       /\ st[i + 0].q = u[i].q /\ st[i + 0].queued = u[i].queued
  BY <1>1, <1>2
<1>5. \A i \in 1 .. Len(u) : CbFor(u[i], c) => i + 0 \in 1 .. Len(st) /\ CbFor(st[i + 0], c)
  BY <1>1, <1>2
<1>6. InCall(st, c) => InCall(u, c)
  BY <1>1, <1>2 DEF InCall
<1>7. CallsMove(st, u, c, 0)
  BY <1>4, <1>5, <1>6 DEF CallsMove
<1> QED  BY <1>7 DEF CallsKept, u

\* A call that is not c's returns.
LEMMA CallsPop ==
  ASSUME NEW A, NEW st \in Seq(A), st # << >>, NEW c, ~CallFor(st[1], c)
  PROVE  CallsKept(st, Tail(st), c)
<1> DEFINE u == Tail(st)
<1>1. /\ Len(st) \in Nat \ {0} /\ Len(u) = Len(st) - 1
      /\ \A i \in 1 .. Len(st) - 1 : u[i] = st[i + 1]
  BY PopIs
<1>2. \A i \in 1 .. Len(st) - 1 : i + 1 \in 1 .. Len(st)
  BY <1>1
<1>3. \A i \in 1 .. Len(st) : i # 1 => i - 1 \in 1 .. Len(st) - 1 /\ (i - 1) + 1 = i
  BY <1>1
<1> HIDE DEF u
<1>4. \A i \in 1 .. Len(u) : CallFor(u[i], c) =>
       /\ i + 1 \in 1 .. Len(st) /\ CallFor(st[i + 1], c)
       /\ st[i + 1].q = u[i].q /\ st[i + 1].queued = u[i].queued
  BY <1>1, <1>2
<1>5. \A i \in 1 .. Len(u) : CbFor(u[i], c) => i + 1 \in 1 .. Len(st) /\ CbFor(st[i + 1], c)
  BY <1>1, <1>2
<1>6. InCall(st, c) => InCall(u, c)
  <2> SUFFICES ASSUME NEW i \in 1 .. Len(st), CallFor(st[i], c) PROVE InCall(u, c)
    BY DEF InCall
  <2>1. i - 1 \in 1 .. Len(st) - 1 /\ (i - 1) + 1 = i
    BY <1>3
  <2>2. i - 1 \in 1 .. Len(u) /\ u[i - 1] = st[i]
    BY <1>1, <2>1
  <2> QED  BY <2>2 DEF InCall
<1>7. CallsMove(st, u, c, 1)
  BY <1>4, <1>5, <1>6 DEF CallsMove
<1> QED  BY <1>7 DEF CallsKept, u

\* A delivery of a packet that is not c's starts.
LEMMA CallsPush ==
  ASSUME NEW A, NEW st \in Seq(A), NEW f \in A, NEW c, ~CallFor(f, c), ~CbFor(f, c)
  PROVE  CallsKept(st, <<f>> \o st, c)
<1> DEFINE u == <<f>> \o st
<1>1. /\ Len(st) \in Nat /\ Len(u) = Len(st) + 1 /\ u[1] = f
      /\ \A i \in 2 .. Len(st) + 1 : u[i] = st[i - 1]
      /\ \A i \in 1 .. Len(st) : u[i + 1] = st[i]
  BY PushIs
<1>2. \A i \in 1 .. Len(st) + 1 : i # 1 =>
        i \in 2 .. Len(st) + 1 /\ i + (-1) \in 1 .. Len(st) /\ i + (-1) = i - 1
  BY <1>1
<1>3. \A i \in 1 .. Len(st) : i + 1 \in 1 .. Len(st) + 1
  BY <1>1
<1> HIDE DEF u
<1>4. \A i \in 1 .. Len(u) : CallFor(u[i], c) =>
       /\ i + (-1) \in 1 .. Len(st) /\ CallFor(st[i + (-1)], c)
       /\ st[i + (-1)].q = u[i].q /\ st[i + (-1)].queued = u[i].queued
  BY <1>1, <1>2
<1>5. \A i \in 1 .. Len(u) : CbFor(u[i], c) => i + (-1) \in 1 .. Len(st) /\ CbFor(st[i + (-1)], c)
  BY <1>1, <1>2
<1>6. InCall(st, c) => InCall(u, c)
  BY <1>1, <1>3 DEF InCall
<1>7. CallsMove(st, u, c, -1)
  BY <1>4, <1>5, <1>6 DEF CallsMove
<1> QED  BY <1>7 DEF CallsKept, u

\* The calls do not change.
LEMMA CallsSame ==
  ASSUME NEW A, NEW st \in Seq(A), NEW c
  PROVE  CallsKept(st, st, c)
<1>1. \A i \in 1 .. Len(st) : i + 0 = i
  BY LenProperties
<1>2. CallsMove(st, st, c, 0)
  BY <1>1 DEF CallsMove
<1> QED  BY <1>2 DEF CallsKept

\* A packet that is not c's is put at either end of a queue, or taken from it.
LEMMA QueueMoves ==
  ASSUME NEW A, NEW s \in Seq(A), NEW p \in A, NEW c, ~Owed(p, c)
  PROVE  /\ QueueMove(s, s, c, 0)
         /\ QueueMove(s, Append(s, p), c, 0)
         /\ QueueMove(s, <<p>> \o s, c, -1)
         /\ s # << >> /\ ~Owed(Head(s), c) => QueueMove(s, Tail(s), c, 1)
<1>0. Len(s) \in Nat
  BY LenProperties
<1>1. \A i \in 1 .. Len(s) : i + 0 = i /\ i - 0 = i
  BY <1>0
<1>2. QueueMove(s, s, c, 0)
  BY <1>1 DEF QueueMove
<1>3. QueueMove(s, Append(s, p), c, 0)
  <2> DEFINE u == Append(s, p)
  <2>1. Len(u) = Len(s) + 1 /\ u[Len(s) + 1] = p /\ \A i \in 1 .. Len(s) : u[i] = s[i]
    BY AppendProperties
  <2>2. \A i \in 1 .. Len(s) + 1 : i + 0 = i /\ (i = Len(s) + 1 \/ i \in 1 .. Len(s))
    BY <1>0
  <2>3. \A i \in 1 .. Len(s) : i \in 1 .. Len(s) + 1
    BY <1>0
  <2> HIDE DEF u
  <2>4. QueueMove(s, u, c, 0)
    BY <1>1, <2>1, <2>2, <2>3 DEF QueueMove
  <2> QED  BY <2>4 DEF u
<1>4. QueueMove(s, <<p>> \o s, c, -1)
  <2> DEFINE u == <<p>> \o s
  <2>1. /\ Len(u) = Len(s) + 1 /\ u[1] = p
        /\ \A i \in 2 .. Len(s) + 1 : u[i] = s[i - 1]
        /\ \A i \in 1 .. Len(s) : u[i + 1] = s[i]
    BY PushIs
  <2>2. \A i \in 1 .. Len(s) + 1 : i # 1 =>
          i \in 2 .. Len(s) + 1 /\ i + (-1) \in 1 .. Len(s) /\ i + (-1) = i - 1
    BY <1>0
  <2>3. \A i \in 1 .. Len(s) : i + 1 \in 1 .. Len(s) + 1 /\ i - (-1) = i + 1
    BY <1>0
  <2> HIDE DEF u
  <2>4. QueueMove(s, u, c, -1)
    BY <2>1, <2>2, <2>3 DEF QueueMove
  <2> QED  BY <2>4 DEF u
<1>5. ASSUME s # << >>, ~Owed(Head(s), c) PROVE QueueMove(s, Tail(s), c, 1)
  <2> DEFINE u == Tail(s)
  <2>1. /\ Len(s) \in Nat \ {0} /\ Head(s) = s[1] /\ Len(u) = Len(s) - 1
        /\ \A i \in 1 .. Len(s) - 1 : u[i] = s[i + 1]
    BY <1>5, PopIs
  <2>2. \A i \in 1 .. Len(s) - 1 : i + 1 \in 1 .. Len(s)
    BY <2>1
  <2>3. \A i \in 1 .. Len(s) : i # 1 => i - 1 \in 1 .. Len(s) - 1 /\ (i - 1) + 1 = i
    BY <2>1
  <2> HIDE DEF u
  <2>4. QueueMove(s, u, c, 1)
    BY <1>5, <2>1, <2>2, <2>3 DEF QueueMove
  <2> QED  BY <2>4 DEF u
<1> QED  BY <1>2, <1>3, <1>4, <1>5

----------------------------------------------------------------------------
(* The places a packet with a callback can come to.                        *)

\* It is only in the innermost call.
LEMMA OnlyCall ==
  ASSUME NEW qs, NEW u, Len(u) \in Nat \ {0}, NEW c, NEW w, NEW S, NEW a,
         CallFor(u[1], c), \A i \in 1 .. Len(u) : CallFor(u[i], c) => i = 1,
         ~InQueue(qs, c), u[1].q \in S, w <=> u[1].queued
  PROVE  Once(qs, u, c) /\ Waits(qs, u, c, w, S, a)
<1>1. 1 \in 1 .. Len(u) /\ \A i \in 1 .. Len(u) : i # 1 => 1 < i
  OBVIOUS
<1>2. ~CbFor(u[1], c)
  BY DEF CallFor, CbFor, Busy
<1>3. InCall(u, c)
  BY <1>1 DEF InCall
<1>4. \A q \in Queues : \A i \in 1 .. Len(qs[q]) : ~Owed(qs[q][i], c)
  BY DEF InQueue
<1>5. \A i, j \in 1 .. Len(u) : CbFor(u[i], c) /\ CallFor(u[j], c) => j < i
  BY <1>1, <1>2
<1>6. Once(qs, u, c)
  BY <1>4, <1>5 DEF Once
<1>7. Waits(qs, u, c, w, S, a)
  BY <1>3, <1>4 DEF Waits
<1> QED  BY <1>6, <1>7

\* It is only in place n of queue r.
OnlyAt(qs, c, r, n) ==
  \A q \in Queues : \A i \in 1 .. Len(qs[q]) : Owed(qs[q][i], c) => q = r /\ i = n

\* Then it is there once, and c waits for it.
LEMMA OnlyQueued ==
  ASSUME NEW qs, NEW u, NEW c, NEW w, NEW S, NEW a, ~InCall(u, c),
         NEW r \in S, NEW n, w, InQueue(qs, c), OnlyAt(qs, c, r, n)
  PROVE  Once(qs, u, c) /\ Waits(qs, u, c, w, S, a)
<1> USE DEF OnlyAt
<1>1. \A i \in 1 .. Len(u) : ~CallFor(u[i], c)
  BY DEF InCall
<1>2. Once(qs, u, c)
  BY <1>1 DEF Once
<1>3. Waits(qs, u, c, w, S, a)
  BY <1>1 DEF Waits
<1> QED  BY <1>2, <1>3

\* There is none.
LEMMA Nowhere ==
  ASSUME NEW qs, NEW u, NEW c, NEW w, NEW S, NEW a, ~InCall(u, c), ~InQueue(qs, c), ~(a /\ w)
  PROVE  Once(qs, u, c) /\ Waits(qs, u, c, w, S, a)
<1>1. \A i \in 1 .. Len(u) : ~CallFor(u[i], c)
  BY DEF InCall
<1>2. \A q \in Queues : \A i \in 1 .. Len(qs[q]) : ~Owed(qs[q][i], c)
  BY DEF InQueue
<1>3. Once(qs, u, c)
  BY <1>1, <1>2 DEF Once
<1>4. Waits(qs, u, c, w, S, a)
  BY <1>1, <1>2 DEF Waits
<1> QED  BY <1>3, <1>4

\* What is left after others were deleted.
LEMMA KeepThinned ==
  ASSUME NEW qs, NEW qs2, NEW u, Len(u) = 0, NEW c, NEW w, NEW S, NEW T, NEW a,
         Once(qs, u, c), Waits(qs, u, c, w, S, a), S \subseteq T,
         \A q \in Queues : Thinned(qs2[q], qs[q])
  PROVE  Once(qs2, u, c) /\ Waits(qs2, u, c, w, T, FALSE)
<1>1. \A i \in 1 .. Len(u) : FALSE
  OBVIOUS
<1>2. ASSUME NEW q \in Queues, NEW i \in 1 .. Len(qs2[q]), NEW j \in 1 .. Len(qs2[q]),
             Owed(qs2[q][i], c), Owed(qs2[q][j], c)
      PROVE  i = j /\ w /\ q \in T
  <2>1. PICK m \in [1 .. Len(qs2[q]) -> 1 .. Len(qs[q])] :
          /\ \A x \in 1 .. Len(qs2[q]) : qs2[q][x] = qs[q][m[x]]
          /\ \A x, y \in 1 .. Len(qs2[q]) : m[x] = m[y] => x = y
    BY DEF Thinned
  <2>2. /\ m[i] \in 1 .. Len(qs[q]) /\ m[j] \in 1 .. Len(qs[q])
        /\ Owed(qs[q][m[i]], c) /\ Owed(qs[q][m[j]], c)
    BY <1>2, <2>1
  <2>3. m[i] = m[j]
    BY <2>2 DEF Once
  <2>4. w /\ q \in S
    BY <2>2 DEF Waits
  <2> QED  BY <2>1, <2>3, <2>4
<1>3. Once(qs2, u, c)
  BY <1>1, <1>2 DEF Once, InCall
<1>4. Waits(qs2, u, c, w, T, FALSE)
  BY <1>1, <1>2 DEF Waits
<1> QED  BY <1>3, <1>4

----------------------------------------------------------------------------
(* The steps, for each client.                                             *)

\* Nobody comes or goes.
Here == UNCHANGED <<vlan, order, peers, deleted>>

\* Where c sends to stays.
LEMMA SameTargets ==
  ASSUME Here, NEW c
  PROVE  Targets(c)' = Targets(c)
BY DEF Here, Targets, Connected, SendQueue, Peer

\* A client whose packets stay where they are.
LEMMA CKeep ==
  ASSUME NEW c \in Clients, ClientOK(c), Here, waiting'[c] = waiting[c],
         CallsKept(stack, stack', c), QueuesKept(queue, queue', c)
  PROVE  ClientOK(c)'
<1>1. Once(queue, stack, c) /\ Waits(queue, stack, c, waiting[c], Targets(c), deleted = {})
  BY DEF ClientOK
<1>2. Once(queue', stack', c) /\ Waits(queue', stack', c, waiting[c], Targets(c), deleted = {})
  BY <1>1, KeepClient
<1>3. Targets(c)' = Targets(c) /\ deleted' = deleted
  BY SameTargets DEF Here
<1> QED  BY <1>2, <1>3 DEF ClientOK

\* The queues do not change.
LEMMA QueuesSame ==
  ASSUME Typed, NEW c, UNCHANGED queue
  PROVE  QueuesKept(queue, queue', c)
<1>1. ASSUME NEW q \in Queues PROVE QueueMove(queue[q], queue'[q], c, 0)
  <2> DEFINE P == Packet
  <2>1. queue[q] \in Seq(P)
    BY DEF Typed
  <2> HIDE DEF P
  <2>2. Len(queue[q]) \in Nat
    BY <2>1, LenProperties
  <2>3. \A i \in 1 .. Len(queue[q]) : i + 0 = i /\ i - 0 = i
    BY <2>2
  <2> QED  BY <2>3 DEF QueueMove
<1> QED  BY <1>1 DEF QueuesKept

\* One queue changes, but not as far as c's packets go.
LEMMA QueuesOne ==
  ASSUME Typed, NEW c, NEW r \in Queues, NEW v, NEW k \in {-1, 0, 1},
         queue' = [queue EXCEPT ![r] = v], QueueMove(queue[r], v, c, k)
  PROVE  QueuesKept(queue, queue', c)
<1>1. queue'[r] = v /\ \A q \in Queues : q # r => queue'[q] = queue[q]
  BY DEF Typed
<1>2. ASSUME NEW q \in Queues, q # r PROVE QueueMove(queue[q], queue'[q], c, 0)
  <2> DEFINE P == Packet
  <2>1. queue[q] \in Seq(P)
    BY DEF Typed
  <2> HIDE DEF P
  <2>2. Len(queue[q]) \in Nat
    BY <2>1, LenProperties
  <2>3. \A i \in 1 .. Len(queue[q]) : i + 0 = i /\ i - 0 = i
    BY <2>2
  <2> QED  BY <1>1, <1>2, <2>3 DEF QueueMove
<1> QED  BY <1>1, <1>2 DEF QueuesKept

\* Nothing happens to the packets.
LEMMA CUnchanged ==
  ASSUME IInv, NEW c \in Clients, Here, UNCHANGED <<waiting, queue, stack>>
  PROVE  ClientOK(c)'
<1>1. stack \in Seq(AllFrames) /\ Typed /\ ClientOK(c)
  BY DEF IInv, HInv, Typed
<1>2. CallsKept(stack, stack', c)
  BY <1>1, CallsSame
<1>3. QueuesKept(queue, queue', c)
  BY <1>1, QueuesSame
<1> QED  BY <1>1, <1>2, <1>3, CKeep

\* A delivery goes on.
LEMMA COn ==
  ASSUME IInv, NEW c \in Clients, NEW pc \in {"deliver", "receive"}, AtPc(pc), Here,
         UNCHANGED <<waiting, queue>>, NEW f, SetTop(f), GoesOn(Top, f)
  PROVE  ClientOK(c)'
<1>1. stack \in Seq(AllFrames) /\ Typed /\ ClientOK(c) /\ HInv
  BY DEF IInv, HInv, Typed
<1>2. stack # << >> /\ Top = stack[1] /\ Busy(Top)
  BY <1>1, TopDelivery
<1>3. /\ f \in AllFrames /\ Busy(f) /\ f.q = stack[1].q /\ f.pkt = stack[1].pkt
      /\ f.queued = stack[1].queued
  BY <1>2, FrameKinds DEF GoesOn, AllFrames
<1>4. CallFor(stack[1], c) <=> CallFor(f, c)
  BY <1>2, <1>3 DEF CallFor
<1>5. ~CbFor(f, c)
  BY <1>3 DEF CbFor, Busy
<1>6. CallsKept(stack, stack', c)
  BY <1>1, <1>2, <1>3, <1>4, <1>5, CallsTop DEF SetTop
<1>7. QueuesKept(queue, queue', c)
  BY <1>1, QueuesSame
<1> QED  BY <1>1, <1>6, <1>7, CKeep

\* Receivers are passed over and called, and handlers return.
LEMMA COffer ==
  ASSUME IInv, NEW c \in Clients, NextReceiver \/ Accept \/ Refuse \/ Discard
  PROVE  ClientOK(c)'
<1>0. HInv
  BY DEF IInv
<1>1. CASE NextReceiver
  <2>1. PICK f : SetTop(f) /\ GoesOn(Top, f)
    BY <1>0, <1>1, NextIs
  <2>2. Here /\ UNCHANGED <<waiting, queue>> /\ AtPc("deliver")
    BY <1>1 DEF NextReceiver, Here, topoVars, clientVars, queueVars, history
  <2> QED  BY <2>1, <2>2, COn
<1>2. CASE Accept
  <2>1. PICK f : SetTop(f) /\ GoesOn(Top, f)
    BY <1>0, <1>2, ReturnIs DEF Accept
  <2>2. Here /\ UNCHANGED <<waiting, queue>> /\ AtPc("receive")
    BY <1>2 DEF Accept, Here, topoVars, queueVars
  <2> QED  BY <2>1, <2>2, COn
<1>3. CASE Refuse
  <2>1. PICK f : SetTop(f) /\ GoesOn(Top, f)
    BY <1>0, <1>3, ReturnIs DEF Refuse
  <2>2. Here /\ UNCHANGED <<waiting, queue>> /\ AtPc("receive")
    BY <1>3 DEF Refuse, Here, topoVars, queueVars
  <2> QED  BY <2>1, <2>2, COn
<1>4. CASE Discard
  <2>1. PICK f : SetTop(f) /\ GoesOn(Top, f)
    BY <1>0, <1>4, ReturnIs DEF Discard
  <2>2. Here /\ UNCHANGED <<waiting, queue>> /\ AtPc("receive")
    BY <1>4 DEF Discard, Here, topoVars, clientVars, queueVars, history
  <2> QED  BY <2>1, <2>2, COn
<1> QED  BY <1>1, <1>2, <1>3, <1>4

\* Callbacks return, and flushes begin and end.
LEMMA CFlush ==
  ASSUME IInv, NEW c \in Clients,
         CallbackReturns \/ FlushEnds \/ \E d \in Clients : qemu_flush_queued_packets(d)
  PROVE  ClientOK(c)'
<1>1. stack \in Seq(AllFrames) /\ Typed /\ ClientOK(c)
  BY DEF IInv, HInv, Typed
<1>2. Here /\ UNCHANGED <<waiting, queue>>
  BY DEF CallbackReturns, FlushEnds, qemu_flush_queued_packets, Here, topoVars, clientVars,
         queueVars, history
<1>3. CallsKept(stack, stack', c)
  <2>1. CASE CallbackReturns
    <3>1. stack # << >> /\ Top = stack[1] /\ Top.pc = "cb" /\ Top \in AllFrames
      BY <1>1, <2>1, TopFrame DEF CallbackReturns
    <3> DEFINE f == Flushing(Top.q)
    <3>2. SetTop(f)
      BY <2>1 DEF CallbackReturns
    <3>3. Top.q \in Queues
      BY <3>1, FrameKinds
    <3>4. f \in AllFrames /\ ~Busy(f) /\ f.pc # "cb"
      BY <3>3 DEF AllFrames, Flushes, Busy, Flushing
    <3> HIDE DEF f
    <3>5. ~CallFor(stack[1], c) /\ ~CallFor(f, c) /\ ~CbFor(f, c)
      BY <3>1, <3>4 DEF CallFor, CbFor, Busy
    <3> QED  BY <1>1, <3>1, <3>2, <3>4, <3>5, CallsTop DEF SetTop
  <2>2. CASE FlushEnds
    <3>1. stack # << >> /\ Top = stack[1] /\ Top.pc = "flush"
      BY <1>1, <2>2, TopFrame DEF FlushEnds
    <3>2. ~CallFor(stack[1], c)
      BY <3>1 DEF CallFor, Busy
    <3> QED  BY <1>1, <2>2, <3>1, <3>2, CallsPop DEF FlushEnds, Pop
  <2>3. ASSUME NEW d \in Clients, qemu_flush_queued_packets(d) PROVE CallsKept(stack, stack', c)
    <3> DEFINE f == Flushing(OwnQueue(d))
    <3>1. stack' = <<f>> /\ stack = << >>
      BY <2>3 DEF qemu_flush_queued_packets, Idle
    <3>2. f \in AllFrames /\ ~Busy(f) /\ f.pc # "cb"
      BY DEF AllFrames, Flushes, Busy, Flushing, OwnQueue, Queues
    <3> HIDE DEF f
    <3>3. ~CallFor(f, c) /\ ~CbFor(f, c)
      BY <3>2 DEF CallFor, CbFor
    <3>4. stack' = <<f>> \o stack
      BY <3>1
    <3> QED  BY <1>1, <3>2, <3>3, <3>4, CallsPush
  <2> QED  BY <2>1, <2>2, <2>3
<1>4. QueuesKept(queue, queue', c)
  BY <1>1, <1>2, QueuesSame
<1> QED  BY <1>1, <1>2, <1>3, <1>4, CKeep

\* A client that sends with a callback has none due.
LEMMA SenderClear ==
  ASSUME IInv, NEW c \in Clients, MaySend(c), Kind[c] # "slirp"
  PROVE  ~InQueue(queue, c) /\ ~InCall(stack, c)
<1>1. Once(queue, stack, c) /\ Waits(queue, stack, c, waiting[c], Targets(c), deleted = {})
  BY DEF IInv, ClientOK
<1>2. ~waiting[c]
  BY DEF MaySend
<1>3. ~InQueue(queue, c)
  BY <1>1, <1>2 DEF Waits, InQueue
<1>4. Idle \/ (AtPc("cb") /\ Top.at = c)
  BY DEF MaySend
<1>5. ~InCall(stack, c)
  <2>1. CASE Idle
    <3>1. \A i \in 1 .. Len(stack) : FALSE
      BY <2>1 DEF Idle
    <3> QED  BY <3>1 DEF InCall
  <2>2. CASE AtPc("cb") /\ Top.at = c
    <3>1. Top = stack[1] /\ Top.pc = "cb" /\ Len(stack) \in Nat \ {0}
      BY <2>2, TopFrame DEF IInv, HInv
    <3>2. CbFor(stack[1], c) /\ 1 \in 1 .. Len(stack)
      BY <2>2, <3>1 DEF CbFor
    <3>3. \A j \in 1 .. Len(stack) : CallFor(stack[j], c) => j < 1
      BY <1>1, <3>2 DEF Once
    <3>4. \A j \in 1 .. Len(stack) : ~(j < 1)
      BY <3>1
    <3> QED  BY <3>3, <3>4 DEF InCall
  <2> QED  BY <1>4, <2>1, <2>2
<1> QED  BY <1>3, <1>5

\* Client s sends.
LEMMA CSend ==
  ASSUME IInv, NEW c \in Clients, NEW s \in Clients, Send(s)
  PROVE  ClientOK(c)'
<1> DEFINE q == SendQueue(s)
           p == [from |-> s, id |-> sent[s] + 1, cb |-> Kind[s] # "slirp"]
           n == [p EXCEPT !.cb = FALSE]
           f == Delivery(q, p, Virtio(s), FALSE)
<1>1. stack \in Seq(AllFrames) /\ Typed /\ ClientOK(c) /\ HInv
  BY DEF IInv, HInv, Typed
<1>2. Here /\ UNCHANGED waiting /\ MaySend(s) /\ Connected(s) /\ s \in ToSet(order)
  BY DEF Send, MaySend, Here, topoVars, clientVars
<1>3. IF delivering[q]
      THEN queue' = [queue EXCEPT ![q] = Append(@, n)] /\ UNCHANGED stack
      ELSE stack' = <<f>> \o stack /\ queue' = queue
  BY DEF Send
<1>4. /\ q \in Queues /\ (vlan => q = Hub)
      /\ ~vlan => q \in peers /\ (relinked \/ q \in ToSet(order))
  BY <1>1, <1>2, SendQueueIs DEF Send
<1>5. p \in Packet /\ n \in Packet /\ Virtio(s) \in BOOLEAN
  <2>1. sent[s] + 1 \in Ids
    BY <1>1, <1>2, NextId DEF MaySend
  <2> QED  BY <2>1 DEF Packet, Virtio
<1>6. ~Owed(n, c) /\ (Owed(p, c) <=> s = c /\ Kind[s] # "slirp")
  BY DEF Owed
<1>7. Targets(c)' = Targets(c) /\ deleted' = deleted
  BY <1>2, SameTargets DEF Here
<1>8. s = c /\ Kind[s] # "slirp" => q \in Targets(c)
  BY <1>2, <1>4 DEF Targets
<1> HIDE DEF q, p, n
<1>9. f \in AllFrames /\ Busy(f) /\ f.q = q /\ f.pc = "deliver" /\ f.pkt = p /\ f.queued = FALSE
  <2>1. f \in AllFrames
    BY <1>1, <1>4, <1>5, DeliveryIs
  <2>2. f.q = q /\ f.pc = "deliver" /\ f.pkt = p /\ f.queued = FALSE
    BY DEF Delivery
  <2> QED  BY <2>1, <2>2 DEF Busy
<1> HIDE DEF f
<1>10. CASE delivering[q]
  <2>1. QueueMove(queue[q], Append(queue[q], n), c, 0)
    <3> DEFINE P == Packet
    <3>1. queue[q] \in Seq(P) /\ n \in P
      BY <1>1, <1>4, <1>5 DEF Typed
    <3> HIDE DEF P
    <3> QED  BY <1>6, <3>1, QueueMoves
  <2>2. QueuesKept(queue, queue', c)
    BY <1>1, <1>3, <1>4, <1>10, <2>1, QueuesOne
  <2>3. CallsKept(stack, stack', c)
    BY <1>1, <1>3, <1>10, CallsSame
  <2> QED  BY <1>1, <1>2, <2>2, <2>3, CKeep
<1>11. CASE ~delivering[q] /\ ~Owed(p, c)
  <2>1. ~CallFor(f, c) /\ ~CbFor(f, c)
    BY <1>9, <1>11 DEF CallFor, CbFor
  <2>2. CallsKept(stack, stack', c)
    BY <1>1, <1>3, <1>9, <1>11, <2>1, CallsPush
  <2>3. QueuesKept(queue, queue', c)
    BY <1>1, <1>3, <1>11, QueuesSame
  <2> QED  BY <1>1, <1>2, <2>2, <2>3, CKeep
<1>12. CASE ~delivering[q] /\ Owed(p, c)
  <2>1. stack' = <<f>> \o stack /\ queue' = queue /\ s = c /\ Kind[c] # "slirp"
    BY <1>3, <1>6, <1>12
  <2>2. ~InQueue(queue, c) /\ ~InCall(stack, c)
    BY <1>2, <2>1, SenderClear
  <2>3. /\ Len(stack') = Len(stack) + 1 /\ stack'[1] = f /\ Len(stack) \in Nat
        /\ \A i \in 2 .. Len(stack) + 1 : stack'[i] = stack[i - 1]
    BY <1>1, <1>9, <2>1, PushIs
  <2>4. \A i \in 1 .. Len(stack') : i # 1 => i \in 2 .. Len(stack) + 1 /\ i - 1 \in 1 .. Len(stack)
    BY <2>3
  <2>5. \A i \in 1 .. Len(stack') : CallFor(stack'[i], c) => i = 1
    BY <2>2, <2>3, <2>4 DEF InCall
  <2>6. CallFor(stack'[1], c) /\ stack'[1].q \in Targets(c) /\ ~stack'[1].queued
    BY <1>8, <1>9, <1>12, <2>1, <2>3 DEF CallFor
  <2>7. ~waiting[c]
    BY <1>2, <2>1 DEF MaySend
  <2>8. Len(stack') \in Nat \ {0}
    BY <2>3
  <2>9. Once(queue', stack', c) /\ Waits(queue', stack', c, waiting[c], Targets(c), deleted = {})
    BY <2>1, <2>2, <2>5, <2>6, <2>7, <2>8, OnlyCall
  <2> QED  BY <1>2, <1>7, <2>9 DEF ClientOK
<1> QED  BY <1>10, <1>11, <1>12

\* A packet is requeued.
LEMMA CRequeue ==
  ASSUME IInv, NEW c \in Clients, Requeue
  PROVE  ClientOK(c)'
<1> DEFINE p == Top.pkt q == Top.q
           v == IF Top.queued THEN <<p>> \o queue[q] ELSE Append(queue[q], p)
<1>1. stack \in Seq(AllFrames) /\ Typed /\ ClientOK(c) /\ HInv
  BY DEF IInv, HInv, Typed
<1>2. Here /\ AtPc("deliver") /\ stack' = Tail(stack) /\ queue' = [queue EXCEPT ![q] = v]
      /\ waiting' = [waiting EXCEPT ![p.from] = @ \/ (p.cb /\ ~Top.queued)]
  BY DEF Requeue, AllOffered, Pop, Here, topoVars, history
<1>3. stack # << >> /\ Top = stack[1] /\ Top \in Deliveries /\ Busy(Top) /\ 1 \in 1 .. Len(stack)
  BY <1>1, <1>2, TopDelivery
<1>4. q \in Queues /\ p \in Packet /\ p.from \in Clients /\ p.cb \in BOOLEAN
      /\ Top.queued \in BOOLEAN
  BY <1>3 DEF Deliveries, Packet
<1>5. CallFor(stack[1], c) <=> Owed(p, c)
  BY <1>3 DEF CallFor
<1>6. Targets(c)' = Targets(c) /\ deleted' = deleted
  BY <1>2, SameTargets DEF Here
<1>7. waiting \in [Clients -> BOOLEAN]
      /\ (c = p.from => waiting'[c] = (waiting[c] \/ (p.cb /\ ~Top.queued)))
      /\ (c # p.from => waiting'[c] = waiting[c])
  BY <1>1, <1>2, <1>4 DEF Typed
<1>8. queue[q] \in Seq(Packet)
  BY <1>1, <1>4 DEF Typed
<1>9. CASE ~Owed(p, c)
  <2>1. CallsKept(stack, stack', c)
    BY <1>1, <1>2, <1>3, <1>5, <1>9, CallsPop
  <2>2. \E k \in {-1, 0, 1} : QueueMove(queue[q], v, c, k)
    <3> DEFINE P == Packet s == queue[q]
    <3>1. s \in Seq(P) /\ p \in P
      BY <1>4, <1>8
    <3> HIDE DEF P, s, p
    <3>2. QueueMove(s, Append(s, p), c, 0) /\ QueueMove(s, <<p>> \o s, c, -1)
      BY <1>9, <3>1, QueueMoves
    <3> QED  BY <3>2 DEF s
  <2>3. QueuesKept(queue, queue', c)
    BY <1>1, <1>2, <1>4, <2>2, QueuesOne
  <2>4. waiting'[c] = waiting[c]
    <3>1. c = p.from => ~p.cb
      BY <1>9 DEF Owed
    <3>2. waiting[c] \in BOOLEAN
      BY <1>7
    <3> QED  BY <1>7, <3>1, <3>2
  <2> QED  BY <1>1, <1>2, <2>1, <2>3, <2>4, CKeep
<1>10. CASE Owed(p, c)
  <2>1. Once(queue, stack, c) /\ Waits(queue, stack, c, waiting[c], Targets(c), deleted = {})
    BY <1>1 DEF ClientOK
  <2>2. CallFor(stack[1], c)
    BY <1>5, <1>10
  <2>3. /\ (waiting[c] <=> Top.queued) /\ q \in Targets(c)
        /\ \A i \in 1 .. Len(stack) : CallFor(stack[i], c) => i = 1
        /\ ~InQueue(queue, c)
    BY <1>3, <2>1, <2>2 DEF Once, Waits, InCall
  <2>4. ~InCall(stack', c)
    <3>1. /\ Len(stack) \in Nat \ {0} /\ Len(stack') = Len(stack) - 1
          /\ \A i \in 1 .. Len(stack) - 1 : stack'[i] = stack[i + 1]
      BY <1>1, <1>2, <1>3, PopIs
    <3>2. \A i \in 1 .. Len(stack) - 1 : i + 1 \in 1 .. Len(stack) /\ i + 1 # 1
      BY <3>1
    <3> QED  BY <2>3, <3>1, <3>2 DEF InCall
  <2>5. waiting'[c]
    <3>1. c = p.from /\ p.cb
      BY <1>10 DEF Owed
    <3> QED  BY <1>7, <2>3, <3>1
  <2> DEFINE n == IF Top.queued THEN 1 ELSE Len(queue[q]) + 1
  <2>6. /\ n \in 1 .. Len(v) /\ v[n] = p
        /\ \A i \in 1 .. Len(v) : i # n => ~Owed(v[i], c)
    <3> DEFINE P == Packet s == queue[q]
    <3>1. s \in Seq(P) /\ p \in P
      BY <1>4, <1>8
    <3>2. \A i \in 1 .. Len(s) : ~Owed(s[i], c)
      BY <1>4, <2>3 DEF InQueue
    <3> HIDE DEF P, s, p
    <3>3. Len(s) \in Nat
      BY <3>1, LenProperties
    <3>4. CASE Top.queued
      <4> DEFINE u == <<p>> \o s
      <4>1. /\ Len(u) = Len(s) + 1 /\ u[1] = p
            /\ \A i \in 2 .. Len(s) + 1 : u[i] = s[i - 1]
        BY <3>1, PushIs
      <4>2. v = u /\ n = 1
        BY <3>4 DEF s
      <4> HIDE DEF u, v, n
      <4>3. 1 \in 1 .. Len(u) /\ \A i \in 1 .. Len(u) : i # 1 => i \in 2 .. Len(s) + 1 /\ i - 1 \in 1 .. Len(s)
        BY <3>3, <4>1
      <4> QED  BY <3>2, <4>1, <4>2, <4>3
    <3>5. CASE ~Top.queued
      <4> DEFINE u == Append(s, p)
      <4>1. /\ Len(u) = Len(s) + 1 /\ u[Len(s) + 1] = p
            /\ \A i \in 1 .. Len(s) : u[i] = s[i]
        BY <3>1, AppendProperties
      <4>2. v = u /\ n = Len(s) + 1
        BY <3>5 DEF s
      <4> HIDE DEF u, v, n
      <4>3. Len(s) + 1 \in 1 .. Len(u) /\ \A i \in 1 .. Len(u) : i # Len(s) + 1 => i \in 1 .. Len(s)
        BY <3>3, <4>1
      <4> QED  BY <3>2, <4>1, <4>2, <4>3
    <3> QED  BY <3>4, <3>5
  <2> HIDE DEF n, v
  <2>7. queue'[q] = v /\ \A r \in Queues : r # q => queue'[r] = queue[r]
    BY <1>1, <1>2, <1>4 DEF Typed
  <2>8. OnlyAt(queue', c, q, n)
    BY <2>3, <2>6, <2>7 DEF InQueue, OnlyAt
  <2>9. InQueue(queue', c)
    BY <1>4, <1>10, <2>6, <2>7 DEF InQueue
  <2> HIDE DEF q
  <2>10. Once(queue', stack', c)
         /\ Waits(queue', stack', c, waiting'[c], Targets(c), deleted = {})
    BY <2>3, <2>4, <2>5, <2>8, <2>9, OnlyQueued
  <2> QED  BY <1>6, <2>10 DEF ClientOK
<1> QED  BY <1>9, <1>10

\* A packet is done with, and its callback runs.
LEMMA CDelivered ==
  ASSUME IInv, NEW c \in Clients, Delivered
  PROVE  ClientOK(c)'
<1> DEFINE p == Top.pkt q == Top.q
<1>1. stack \in Seq(AllFrames) /\ Typed /\ ClientOK(c) /\ HInv
  BY DEF IInv, HInv, Typed
<1>2. Here /\ AtPc("deliver") /\ queue' = queue
  BY DEF Delivered, AllOffered, Here, topoVars
<1>3. stack # << >> /\ Top = stack[1] /\ Top \in Deliveries /\ Busy(Top) /\ 1 \in 1 .. Len(stack)
  BY <1>1, <1>2, TopDelivery
<1>4. q \in Queues /\ p \in Packet /\ p.from \in Clients /\ Top.queued \in BOOLEAN
  BY <1>3 DEF Deliveries, Packet
<1>5. CallFor(stack[1], c) <=> Owed(p, c)
  BY <1>3 DEF CallFor
<1>6. Targets(c)' = Targets(c) /\ deleted' = deleted
  BY <1>2, SameTargets DEF Here
<1>7. PICK f \in AllFrames : SetTop(f) /\ ~Busy(f) /\ (CbFor(f, c) => Owed(p, c))
  <2>1. CASE Top.queued /\ Top.pkt.cb
    <3> DEFINE x == IF Virtio(Top.pkt.from) /\ ~vm_running THEN "abort" ELSE "cb"
               f == [pc |-> x, q |-> Top.q, at |-> Top.pkt.from]
    <3>1. x \in {"cb", "abort"}
      OBVIOUS
    <3>2. SetTop(f)
      BY <2>1 DEF Delivered
    <3> HIDE DEF x
    <3>3. f \in Callbacks /\ f.at = p.from /\ f.pc = x
      BY <1>4, <3>1 DEF Callbacks
    <3> HIDE DEF f
    <3> QED  BY <2>1, <3>1, <3>2, <3>3 DEF AllFrames, Busy, CbFor, Owed
  <2>2. CASE ~(Top.queued /\ Top.pkt.cb)
    <3>1. SetTop(Flushing(Top.q))
      BY <2>2 DEF Delivered
    <3>2. Flushing(Top.q) \in Flushes /\ Flushing(Top.q).pc = "flush"
      BY <1>4 DEF Flushing, Flushes
    <3> QED  BY <3>1, <3>2 DEF AllFrames, Busy, CbFor
  <2> QED  BY <2>1, <2>2
<1>8. waiting \in [Clients -> BOOLEAN]
      /\ waiting' = IF Top.queued /\ p.cb THEN [waiting EXCEPT ![p.from] = FALSE] ELSE waiting
  BY <1>1 DEF Typed, Delivered
<1>9. ~CallFor(f, c)
  BY <1>7 DEF CallFor
<1>10. CASE ~Owed(p, c)
  <2>1. ~CallFor(stack[1], c) /\ ~CbFor(f, c)
    BY <1>5, <1>7, <1>10
  <2>2. CallsKept(stack, stack', c)
    BY <1>1, <1>3, <1>7, <1>9, <2>1, CallsTop DEF SetTop
  <2>3. QueuesKept(queue, queue', c)
    BY <1>1, <1>2, QueuesSame
  <2>4. waiting'[c] = waiting[c]
    BY <1>4, <1>8, <1>10 DEF Owed
  <2> QED  BY <1>1, <1>2, <2>2, <2>3, <2>4, CKeep
<1>11. CASE Owed(p, c)
  <2>1. Once(queue, stack, c) /\ Waits(queue, stack, c, waiting[c], Targets(c), deleted = {})
    BY <1>1 DEF ClientOK
  <2>2. CallFor(stack[1], c)
    BY <1>5, <1>11
  <2>3. /\ (waiting[c] <=> Top.queued)
        /\ \A i \in 1 .. Len(stack) : CallFor(stack[i], c) => i = 1
        /\ ~InQueue(queue, c)
    BY <1>3, <2>1, <2>2 DEF Once, Waits, InCall
  <2>4. ~InCall(stack', c)
    <3>1. /\ Len(stack) \in Nat \ {0} /\ Len(stack') = Len(stack) /\ stack'[1] = f
          /\ \A i \in 2 .. Len(stack) : stack'[i] = stack[i]
      BY <1>1, <1>3, <1>7, TopIs DEF SetTop
    <3>2. \A i \in 1 .. Len(stack) : i = 1 \/ i \in 2 .. Len(stack)
      BY <3>1
    <3>3. \A i \in 2 .. Len(stack) : i \in 1 .. Len(stack) /\ i # 1
      BY <3>1
    <3> QED  BY <1>9, <2>3, <3>1, <3>2, <3>3 DEF InCall
  <2>5. ~waiting'[c]
    <3>1. c = p.from /\ p.cb
      BY <1>11 DEF Owed
    <3> QED  BY <1>8, <2>3, <3>1
  <2>6. Once(queue', stack', c)
         /\ Waits(queue', stack', c, waiting'[c], Targets(c), deleted = {})
    BY <1>2, <2>3, <2>4, <2>5, Nowhere
  <2> QED  BY <1>6, <2>6 DEF ClientOK
<1> QED  BY <1>10, <1>11

\* A flush takes a packet from the queue.
LEMMA CFlushNext ==
  ASSUME IInv, NEW c \in Clients, FlushNext
  PROVE  ClientOK(c)'
<1> DEFINE q == Top.q p == Head(queue[q])
           f == Delivery(q, p, FALSE, TRUE)
<1>1. stack \in Seq(AllFrames) /\ Typed /\ ClientOK(c) /\ HInv
  BY DEF IInv, HInv, Typed
<1>2. /\ Here /\ UNCHANGED waiting /\ AtPc("flush") /\ SetTop(f) /\ queue[q] # << >>
      /\ queue' = [queue EXCEPT ![q] = Tail(queue[q])]
  BY DEF FlushNext, Here, topoVars, clientVars, history
<1>3. /\ stack # << >> /\ Top = stack[1] /\ Top.pc = "flush" /\ Len(stack) \in Nat \ {0}
      /\ Top \in AllFrames
  BY <1>1, <1>2, TopFrame
<1>4. q \in Queues /\ 1 \in 1 .. Len(stack)
  BY <1>3, FrameKinds
<1>5. queue[q] \in Seq(Packet)
  BY <1>1, <1>4 DEF Typed
<1>6. p \in Packet /\ Len(queue[q]) \in Nat \ {0} /\ p = queue[q][1] /\ 1 \in 1 .. Len(queue[q])
      /\ Len(Tail(queue[q])) = Len(queue[q]) - 1
      /\ \A i \in 1 .. Len(queue[q]) - 1 : Tail(queue[q])[i] = queue[q][i + 1]
  <2> DEFINE P == Packet
  <2> HIDE DEF P
  <2>1. p \in P /\ Len(queue[q]) \in Nat \ {0} /\ p = queue[q][1]
        /\ Len(Tail(queue[q])) = Len(queue[q]) - 1
        /\ \A i \in 1 .. Len(queue[q]) - 1 : Tail(queue[q])[i] = queue[q][i + 1]
    BY <1>2, <1>5, PopIs DEF P
  <2> QED  BY <2>1 DEF P
<1>7. Targets(c)' = Targets(c) /\ deleted' = deleted
  BY <1>2, SameTargets DEF Here
<1>8. f \in AllFrames /\ f.q = q /\ f.pkt = p /\ f.queued = TRUE /\ f.pc = "deliver" /\ Busy(f)
  <2>1. (vlan => q = Hub) /\ (~vlan => q \in peers /\ (relinked \/ q \in ToSet(order)))
    BY <1>1, <1>3, <1>4 DEF HInv, Frames, FrameOK
  <2> HIDE DEF p, q
  <2>2. f \in AllFrames
    BY <1>1, <1>4, <1>6, <2>1, DeliveryIs
  <2>3. f.q = q /\ f.pkt = p /\ f.queued = TRUE /\ f.pc = "deliver"
    BY DEF Delivery
  <2> QED  BY <2>2, <2>3 DEF Busy
<1>9. (CallFor(f, c) <=> Owed(p, c)) /\ ~CbFor(f, c) /\ ~CallFor(stack[1], c)
  BY <1>3, <1>8 DEF CallFor, CbFor, Busy
<1> HIDE DEF f
<1>10. CASE ~Owed(p, c)
  <2>1. CallsKept(stack, stack', c)
    BY <1>1, <1>2, <1>3, <1>8, <1>9, <1>10, CallsTop DEF SetTop
  <2>2. QueueMove(queue[q], Tail(queue[q]), c, 1)
    <3> DEFINE P == Packet s == queue[q]
    <3>1. s \in Seq(P) /\ s # << >> /\ Head(s) \in P /\ ~Owed(Head(s), c)
      BY <1>2, <1>5, <1>6, <1>10
    <3> HIDE DEF P, s
    <3>2. QueueMove(s, Tail(s), c, 1)
      BY <3>1, QueueMoves
    <3> QED  BY <3>2 DEF s
  <2>3. QueuesKept(queue, queue', c)
    BY <1>1, <1>2, <1>4, <2>2, QueuesOne
  <2> QED  BY <1>1, <1>2, <2>1, <2>3, CKeep
<1>11. CASE Owed(p, c)
  <2>1. Once(queue, stack, c) /\ Waits(queue, stack, c, waiting[c], Targets(c), deleted = {})
    BY <1>1 DEF ClientOK
  <2>2. /\ waiting[c] /\ q \in Targets(c) /\ InQueue(queue, c) /\ ~InCall(stack, c)
        /\ \A i \in 1 .. Len(queue[q]) : Owed(queue[q][i], c) => i = 1
    BY <1>4, <1>6, <1>11, <2>1 DEF Once, Waits, InQueue
  <2>3. \A r \in Targets(c) : r = q
    BY <2>2 DEF Targets
  <2>4. ~InQueue(queue', c)
    <3>1. queue'[q] = Tail(queue[q]) /\ \A r \in Queues : r # q => queue'[r] = queue[r]
      BY <1>1, <1>2, <1>4 DEF Typed
    <3>2. \A i \in 1 .. Len(queue[q]) - 1 : i + 1 \in 1 .. Len(queue[q]) /\ i + 1 # 1
      BY <1>6
    <3>3. \A i \in 1 .. Len(queue'[q]) : ~Owed(queue'[q][i], c)
      <4> HIDE DEF q, p
      <4> QED  BY <1>6, <2>2, <3>1, <3>2
    <3>4. ASSUME NEW r \in Queues, r # q, NEW i \in 1 .. Len(queue'[r]), Owed(queue'[r][i], c)
          PROVE  FALSE
      <4>1. r \in Targets(c)
        BY <2>1, <3>1, <3>4 DEF Waits
      <4> QED  BY <2>3, <3>4, <4>1
    <3> QED  BY <3>3, <3>4 DEF InQueue
  <2>5. /\ Len(stack') = Len(stack) /\ stack'[1] = f
        /\ \A i \in 2 .. Len(stack) : stack'[i] = stack[i]
    BY <1>1, <1>2, <1>3, <1>8, TopIs DEF SetTop
  <2>6. \A i \in 1 .. Len(stack') : CallFor(stack'[i], c) => i = 1
    <3>1. \A i \in 1 .. Len(stack) : i = 1 \/ i \in 2 .. Len(stack)
      BY <1>3
    <3> QED  BY <2>2, <2>5, <3>1 DEF InCall
  <2>7. CallFor(stack'[1], c) /\ stack'[1].q \in Targets(c) /\ stack'[1].queued
    BY <1>8, <1>9, <1>11, <2>2, <2>5
  <2>8. Once(queue', stack', c) /\ Waits(queue', stack', c, waiting[c], Targets(c), deleted = {})
    BY <1>3, <2>2, <2>4, <2>5, <2>6, <2>7, OnlyCall
  <2> QED  BY <1>2, <1>7, <2>8 DEF ClientOK
<1> QED  BY <1>10, <1>11

\* A deleted client has no callback due: its packets were where it sends to.
LEMMA CDeleted ==
  ASSUME IInv, NEW c \in Clients, Idle, UNCHANGED <<stack, vlan>>, deleted' = deleted \cup {c},
         waiting' = [waiting EXCEPT ![c] = FALSE],
         \A q \in Queues : queue'[q] = Cleaned(c)[q] \/ queue'[q] = << >>
  PROVE  ClientOK(c)'
<1>1. /\ Waits(queue, stack, c, waiting[c], Targets(c), deleted = {})
      /\ waiting \in [Clients -> BOOLEAN] /\ Typed
  BY DEF IInv, ClientOK, HInv, Typed
<1>2. ~InQueue(queue', c)
  <2> SUFFICES ASSUME NEW q \in Queues, NEW i \in 1 .. Len(queue'[q]), Owed(queue'[q][i], c)
               PROVE  FALSE
    BY DEF InQueue
  <2>1. queue'[q] = Cleaned(c)[q]
    <3>1. Len(<< >>) = 0 /\ \A j \in 1 .. 0 : FALSE
      OBVIOUS
    <3> QED  BY <3>1
  <2>2. /\ Thinned(Cleaned(c)[q], queue[q])
        /\ Kind[c] # "slirp" /\ Connected(c) =>
             \A j \in 1 .. Len(Cleaned(c)[SendQueue(c)]) : Cleaned(c)[SendQueue(c)][j].from # c
    BY <1>1, CleanedIs
  <2>3. PICK m \in [1 .. Len(Cleaned(c)[q]) -> 1 .. Len(queue[q])] :
          \A j \in 1 .. Len(Cleaned(c)[q]) : Cleaned(c)[q][j] = queue[q][m[j]]
    BY <2>2 DEF Thinned
  <2>4. m[i] \in 1 .. Len(queue[q]) /\ Owed(queue[q][m[i]], c)
    BY <2>1, <2>3
  <2>5. q \in Targets(c)
    BY <1>1, <2>4 DEF Waits
  <2>6. Kind[c] # "slirp" /\ Connected(c) /\ q = SendQueue(c)
    BY <2>5 DEF Targets
  <2>7. queue'[q][i].from # c
    BY <2>1, <2>2, <2>6
  <2> QED  BY <2>7 DEF Owed
<1>3. ~InCall(stack', c)
  <2>1. \A i \in 1 .. Len(stack') : FALSE
    BY DEF Idle
  <2> QED  BY <2>1 DEF InCall
<1>4. ~waiting'[c]
  BY <1>1
<1>5. /\ Once(queue', stack', c)
      /\ Waits(queue', stack', c, waiting'[c], Targets(c)', deleted' = {})
  BY <1>2, <1>3, <1>4, Nowhere
<1> QED  BY <1>5 DEF ClientOK

\* Client c stays when another one is deleted.
LEMMA CLeft ==
  ASSUME IInv, NEW c \in Clients, NEW s \in Clients, s # c, Idle, UNCHANGED stack,
         deleted' = deleted \cup {s}, waiting' = [waiting EXCEPT ![s] = FALSE],
         queue' = Cleaned(s), Targets(c) \subseteq Targets(c)'
  PROVE  ClientOK(c)'
<1>1. /\ Once(queue, stack, c) /\ Waits(queue, stack, c, waiting[c], Targets(c), deleted = {})
      /\ waiting \in [Clients -> BOOLEAN] /\ Typed
  BY DEF IInv, ClientOK, HInv, Typed
<1>2. waiting'[c] = waiting[c] /\ (deleted' = {}) = FALSE /\ Len(stack) = 0
  BY <1>1 DEF Idle
<1>3. \A q \in Queues : Thinned(queue'[q], queue[q])
  BY <1>1, CleanedIs
<1>4. Once(queue', stack, c) /\ Waits(queue', stack, c, waiting[c], Targets(c)', FALSE)
  BY <1>1, <1>2, <1>3, KeepThinned
<1>5. Once(queue', stack', c) /\ Waits(queue', stack', c, waiting'[c], Targets(c)', deleted' = {})
  BY <1>2, <1>4
<1> QED  BY <1>5 DEF ClientOK

\* A client on a VLAN is deleted.
LEMMA CDeleteOnVlan ==
  ASSUME IInv, NEW c \in Clients, NEW s \in Clients, DeleteOnVlan(s)
  PROVE  ClientOK(c)'
<1>1. /\ vlan /\ Idle /\ UNCHANGED <<stack, vlan>> /\ order' = Without(order, {s})
      /\ queue' = Cleaned(s)
      /\ deleted' = deleted \cup {s} /\ waiting' = [waiting EXCEPT ![s] = FALSE]
  BY DEF DeleteOnVlan, leftAlone, LoseRest
<1>2. CASE s = c
  BY <1>1, <1>2, CDeleted
<1>3. CASE s # c
  <2>1. ToSet(order') = ToSet(order) \ {s}
    BY <1>1, WithoutSet DEF IInv, HInv, Typed
  <2>2. Targets(c) \subseteq Targets(c)'
    BY <1>1, <1>3, <2>1 DEF Targets, Connected, SendQueue
  <2> QED  BY <1>1, <1>3, <2>2, CLeft
<1> QED  BY <1>2, <1>3

\* A back end of a pair is deleted.
LEMMA CDeleteBackend ==
  ASSUME IInv, NEW c \in Clients, NEW s \in Clients, DeleteBackend(s)
  PROVE  ClientOK(c)'
<1>1. /\ Idle /\ UNCHANGED <<stack, vlan, peers>> /\ order' = Without(order, {s})
      /\ queue' = Cleaned(s)
      /\ deleted' = deleted \cup {s} /\ waiting' = [waiting EXCEPT ![s] = FALSE]
  BY DEF DeleteBackend, leftAlone, LoseRest
<1>2. CASE s = c
  BY <1>1, <1>2, CDeleted
<1>3. CASE s # c
  <2>1. ToSet(order') = ToSet(order) \ {s}
    BY <1>1, WithoutSet DEF IInv, HInv, Typed
  <2>2. Targets(c) \subseteq Targets(c)'
    BY <1>1, <1>3, <2>1 DEF Targets, Connected, SendQueue, Peer
  <2> QED  BY <1>1, <1>3, <2>2, CLeft
<1> QED  BY <1>2, <1>3

\* A NIC is deleted: the queue its peer sends to is freed.
LEMMA CDeleteNic ==
  ASSUME IInv, NEW c \in Clients, NEW s \in Clients, DeleteNic(s)
  PROVE  ClientOK(c)'
<1> DEFINE freed == {s} \cup (peers \ ToSet(order))
           qs == [q \in DOMAIN queue |-> IF q \in freed THEN << >> ELSE Cleaned(s)[q]]
<1>1. /\ ~vlan /\ Idle /\ UNCHANGED <<stack, vlan>> /\ s \in ToSet(order) /\ queue' = qs
      /\ deleted' = deleted \cup {s} /\ waiting' = [waiting EXCEPT ![s] = FALSE]
  BY DEF DeleteNic, leftAlone, LoseRest
<1>2. /\ Typed /\ DOMAIN queue = Queues /\ waiting \in [Clients -> BOOLEAN]
      /\ Waits(queue, stack, c, waiting[c], Targets(c), deleted = {})
  BY DEF IInv, ClientOK, HInv, Typed
<1>3. \A q \in Queues : queue'[q] = IF q \in freed THEN << >> ELSE Cleaned(s)[q]
  BY <1>1, <1>2
<1>4. CASE s = c
  <2>1. \A q \in Queues : queue'[q] = Cleaned(c)[q] \/ queue'[q] = << >>
    BY <1>3, <1>4
  <2> QED  BY <1>1, <1>4, <2>1, CDeleted
<1>5. CASE s # c
  <2>1. ~InQueue(queue', c)
    <3> SUFFICES ASSUME NEW q \in Queues, NEW i \in 1 .. Len(queue'[q]), Owed(queue'[q][i], c)
                 PROVE  FALSE
      BY DEF InQueue
    <3>1. q \notin freed /\ queue'[q] = Cleaned(s)[q]
      <4>1. Len(<< >>) = 0 /\ \A j \in 1 .. 0 : FALSE
        OBVIOUS
      <4> HIDE DEF freed
      <4> QED  BY <1>3, <4>1
    <3>2. Thinned(Cleaned(s)[q], queue[q])
      BY <1>2, CleanedIs
    <3>3. PICK m \in [1 .. Len(Cleaned(s)[q]) -> 1 .. Len(queue[q])] :
            \A j \in 1 .. Len(Cleaned(s)[q]) : Cleaned(s)[q][j] = queue[q][m[j]]
      BY <3>2 DEF Thinned
    <3>4. m[i] \in 1 .. Len(queue[q]) /\ Owed(queue[q][m[i]], c)
      BY <3>1, <3>3
    <3>5. q \in Targets(c)
      BY <1>2, <3>4 DEF Waits
    <3>6. c \in ToSet(order) /\ Connected(c) /\ q = Peer(c)
      BY <1>1, <3>5 DEF Targets, SendQueue
    <3>7. q \in peers /\ q # c
      BY <1>1, <3>6, PeerIs
    <3>8. ToSet(order) \subseteq peers /\ \A x, y, z \in peers : x = y \/ y = z \/ x = z
      BY <1>1 DEF IInv, HInv, Pair
    <3>9. q = s
      BY <1>1, <1>5, <3>6, <3>7, <3>8
    <3> QED  BY <3>1, <3>9
  <2>2. ~InCall(stack', c)
    <3>1. \A i \in 1 .. Len(stack') : FALSE
      BY <1>1 DEF Idle
    <3> QED  BY <3>1 DEF InCall
  <2>3. /\ Once(queue', stack', c)
        /\ Waits(queue', stack', c, waiting'[c], Targets(c)', deleted' = {})
    <3>1. ~(deleted' = {})
      BY <1>1
    <3> QED  BY <2>1, <2>2, <3>1, Nowhere
  <2> QED  BY <2>3 DEF ClientOK
<1> QED  BY <1>4, <1>5

----------------------------------------------------------------------------
(* Callbacks are exact.                                                    *)

\* Every step keeps the invariant.
LEMMA IStep ==
  ASSUME IInv, [Next]_vars
  PROVE  IInv'
<1>1. HInv'
  BY HStep DEF IInv
<1>2. ASSUME NEW c \in Clients PROVE ClientOK(c)'
  <2>1. CASE UNCHANGED vars \/ StopCont
    <3>1. Here /\ UNCHANGED <<waiting, queue, stack>>
      BY <2>1 DEF vars, StopCont, Here, topoVars, queueVars, clientVars, history
    <3> QED  BY <3>1, CUnchanged
  <2>2. CASE Deliver
    BY <2>2, COffer, CRequeue, CDelivered, CFlush, CFlushNext DEF Deliver
  <2>3. ASSUME NEW s \in Clients, SendDropped(s) \/ SetLink(s) PROVE ClientOK(c)'
    <3>1. Here /\ UNCHANGED <<waiting, queue, stack>>
      BY <2>3 DEF SendDropped, SetLink, Here, topoVars, queueVars, clientVars
    <3> QED  BY <3>1, CUnchanged
  <2>4. ASSUME NEW s \in Clients,
               \/ Send(s) \/ qemu_flush_queued_packets(s)
               \/ DeleteOnVlan(s) \/ DeleteBackend(s) \/ DeleteNic(s)
        PROVE  ClientOK(c)'
    BY <2>4, CSend, CFlush, CDeleteOnVlan, CDeleteBackend, CDeleteNic
  <2> QED  BY <2>1, <2>2, <2>3, <2>4 DEF Next
<1> QED  BY <1>1, <1>2 DEF IInv

\* Each packet with a callback is in one place, and its sender waits for it.
THEOREM Invariance == Spec => []IInv
<1>1. ASSUME Init PROVE IInv
  <2>1. HInv
    BY <1>1, HInit
  <2>2. ASSUME NEW c \in Clients PROVE ClientOK(c)
    <3>1. ~InCall(stack, c)
      <4>1. \A i \in 1 .. Len(stack) : FALSE
        BY <1>1 DEF Init
      <4> QED  BY <4>1 DEF InCall
    <3>2. ~InQueue(queue, c)
      <4>1. \A q \in Queues : queue[q] = << >>
        BY <1>1 DEF Init, Queues
      <4>2. \A q \in Queues : \A i \in 1 .. Len(queue[q]) : FALSE
        BY <4>1
      <4> QED  BY <4>2 DEF InQueue
    <3>3. ~waiting[c]
      BY <1>1 DEF Init
    <3>4. Once(queue, stack, c)
          /\ Waits(queue, stack, c, waiting[c], Targets(c), deleted = {})
      BY <3>1, <3>2, <3>3, Nowhere
    <3> QED  BY <3>4 DEF ClientOK
  <2> QED  BY <2>1, <2>2 DEF IInv
<1>2. IInv /\ [Next]_vars => IInv'
  BY IStep
<1> QED  BY <1>1, <1>2, PTL DEF Spec

\* A set whose elements are all the same has at most one.
LEMMA AtMostOne ==
  ASSUME NEW T, \A x, y \in T : x = y
  PROVE  IsFiniteSet(T) /\ Cardinality(T) <= 1 /\ (T = {} => Cardinality(T) <= 0)
<1>1. CASE T = {}
  BY <1>1, FS_EmptySet
<1>2. CASE T # {}
  <2>1. PICK x : x \in T
    BY <1>2
  <2>2. T = {x}
    BY <2>1
  <2> QED  BY <1>2, <2>2, FS_Singleton
<1> QED  BY <1>1, <1>2

\* The places are the callbacks that are due.
LEMMA ExactFrom ==
  ASSUME IInv
  PROVE  CallbackExact
<1>1. /\ Typed /\ HInv /\ stack \in Seq(AllFrames) /\ queue \in [Queues -> Seq(Packet)]
      /\ waiting \in [Clients -> BOOLEAN]
  BY DEF IInv, HInv, Typed
<1>2. \A f : f \in ToSet(stack) <=> \E i \in 1 .. Len(stack) : stack[i] = f
  BY <1>1, InList
<1>3. \A q \in Queues : \A p : p \in ToSet(queue[q]) <=> \E i \in 1 .. Len(queue[q]) : queue[q][i] = p
  <2> DEFINE P == Packet
  <2>1. \A q \in Queues : queue[q] \in Seq(P)
    BY <1>1
  <2> HIDE DEF P
  <2> QED  BY <2>1, InList
<1>4. \A i \in 1 .. Len(stack) : Busy(stack[i]) => stack[i].queued \in BOOLEAN
  <2>1. \A i \in 1 .. Len(stack) : stack[i] \in AllFrames
    BY <1>1, ElementOfSeq
  <2>2. \A i \in 1 .. Len(stack) : Busy(stack[i]) => stack[i] \in Deliveries
    BY <2>1, FrameKinds
  <2> QED  BY <2>2 DEF Deliveries
<1>5. ASSUME NEW c \in Clients
      PROVE  /\ Cardinality(CallbacksOf(c)) <= (IF waiting[c] THEN 1 ELSE 0)
             /\ CallbacksOf(c) # {} => c \in ToSet(order)
             /\ deleted = {} /\ waiting[c] => CallbacksOf(c) # {}
  <2> DEFINE T == CallbacksOf(c)
             Q(p) == \E q \in Queues : \E i \in 1 .. Len(queue[q]) : queue[q][i] = p /\ Owed(p, c)
             F(p) == \E i \in 1 .. Len(stack) :
                       stack[i].pkt = p /\ CallFor(stack[i], c) /\ stack[i].queued
  <2>1. Once(queue, stack, c) /\ Waits(queue, stack, c, waiting[c], Targets(c), deleted = {})
    BY DEF IInv, ClientOK
  <2>2. \A p : p \in T <=> Q(p) \/ F(p)
    <3> DEFINE T1 == UNION {{p \in ToSet(queue[q]) : p.from = c /\ p.cb} : q \in DOMAIN queue}
               T2 == {f.pkt : f \in {f \in InFlight : f.queued /\ f.pkt.from = c /\ f.pkt.cb}}
    <3>1. \A p : p \in T1 <=> Q(p)
      BY <1>1, <1>3 DEF Owed
    <3>2. \A p : p \in T2 <=> F(p)
      BY <1>2 DEF InFlight, CallFor, Owed, Busy
    <3>3. T = T1 \cup T2
      BY DEF CallbacksOf
    <3> HIDE DEF Q, F, T, T1, T2
    <3> QED  BY <3>1, <3>2, <3>3
  <2> HIDE DEF T
  <2>3. \A p : (Q(p) => InQueue(queue, c)) /\ (F(p) => InCall(stack, c))
    BY DEF InQueue, InCall
  <2>4. \A p : Q(p) \/ F(p) => waiting[c] /\ Targets(c) # {}
    BY <2>1 DEF Waits
  <2>5. ASSUME NEW x \in T, NEW y \in T PROVE x = y
    <3>1. CASE F(x) /\ F(y)
      BY <2>1, <3>1 DEF Once
    <3>2. CASE Q(x) /\ Q(y)
      <4>a. PICK q \in Queues : \E i \in 1 .. Len(queue[q]) : queue[q][i] = x /\ Owed(x, c)
        BY <3>2
      <4>1. PICK i \in 1 .. Len(queue[q]) : queue[q][i] = x /\ Owed(x, c)
        BY <4>a
      <4>b. PICK r \in Queues : \E j \in 1 .. Len(queue[r]) : queue[r][j] = y /\ Owed(y, c)
        BY <3>2
      <4>2. PICK j \in 1 .. Len(queue[r]) : queue[r][j] = y /\ Owed(y, c)
        BY <4>b
      <4>3. q \in Targets(c) /\ r \in Targets(c)
        BY <2>1, <4>1, <4>2 DEF Waits
      <4>4. q = r
        BY <4>3 DEF Targets
      <4>5. i = j
        BY <2>1, <4>1, <4>2, <4>4 DEF Once
      <4> QED  BY <4>1, <4>2, <4>4, <4>5
    <3>3. ~(Q(x) /\ F(y)) /\ ~(F(x) /\ Q(y))
      <4> HIDE DEF Q, F
      <4> QED  BY <2>1, <2>3 DEF Once
    <3> HIDE DEF Q, F
    <3> QED  BY <2>2, <2>5, <3>1, <3>2, <3>3
  <2>6. deleted = {} /\ waiting[c] => \E p : Q(p) \/ F(p)
    <3> SUFFICES ASSUME deleted = {}, waiting[c] PROVE \E p : Q(p) \/ F(p)
      OBVIOUS
    <3>1. InQueue(queue, c) \/ InCall(stack, c)
      BY <2>1 DEF Waits
    <3>2. CASE InQueue(queue, c)
      BY <3>2 DEF InQueue
    <3>3. CASE InCall(stack, c)
      BY <2>1, <3>3 DEF InCall, Waits
    <3> QED  BY <3>1, <3>2, <3>3
  <2> HIDE DEF Q, F
  <2>7. T # {} => waiting[c] /\ Targets(c) # {}
    BY <2>2, <2>4
  <2>8. Targets(c) # {} => c \in ToSet(order)
    BY DEF Targets
  <2>9. Cardinality(T) <= 1 /\ (T = {} => Cardinality(T) <= 0)
    BY <2>5, AtMostOne
  <2>10. Cardinality(T) <= (IF waiting[c] THEN 1 ELSE 0)
    BY <2>7, <2>9
  <2>11. deleted = {} /\ waiting[c] => T # {}
    BY <2>2, <2>6
  <2> QED  BY <2>7, <2>8, <2>10, <2>11 DEF T
<1> QED  BY <1>5 DEF CallbackExact

\* Callbacks are due to exactly the clients that wait for one, once each, and never to a
\* client that is gone (packet->sent_cb, qemu_net_queue_purge).
THEOREM CallbacksAreExact == Spec => []CallbackExact
<1>1. IInv => CallbackExact
  BY ExactFrom
<1> QED  BY <1>1, Invariance, PTL

----------------------------------------------------------------------------
(* Packets of a pair, and who flushes a queue.                             *)

\* A queue that is marked as delivering has a delivery.
Marked ==
  \A q \in Queues : delivering[q] => \E f \in ToSet(stack) : Busy(f) /\ f.q = q

\* A client that will flush queue q, and is not called before it does.
Owing(q) ==
  \E r \in ToSet(order) : OwnQueue(r) = q /\ owes[r] /\ (Virtio(r) => disabled[r])

\* Packets a NIC sends are not for itself, a NIC that is called has not refused, and
\* whoever refused will flush.
OwedFrame(f) ==
  Busy(f) =>
    /\ f.iov => /\ Virtio(f.pkt.from) /\ \A i \in 1 .. Len(f.todo) : f.todo[i] # f.pkt.from
                /\ f.pc = "receive" => f.at # f.pkt.from
    /\ f.pc = "receive" /\ Virtio(f.at) => ~disabled[f.at]
    /\ f.ret = 0 => Owing(f.q)

OInv ==
  deleted = {} =>
    /\ \A c \in ToSet(order) : disabled[c] => owes[c]
    /\ \A f \in ToSet(stack) : OwedFrame(f)
    /\ \A q \in Queues :
         queue[q] # << >> => Owing(q) \/ \E f \in ToSet(stack) : f.q = q

\* In a pair a client is sent packets by the other one only.
Between(a, b) == a \in peers /\ b \in peers /\ a # b

Origins ==
  /\ \A q \in Queues : \A p \in ToSet(queue[q]) : Between(p.from, q)
  /\ \A f \in ToSet(stack) : Busy(f) => Between(f.pkt.from, f.q)
  /\ \A f \in ToSet(stack) : f.pc = "cb" => Between(f.at, f.q) /\ Kind[f.at] # "slirp"
  /\ \A c, r \in peers : c # r =>
       /\ Kind[c] # "slirp" \/ Kind[r] # "slirp"
       /\ \A x \in Clients : \A p \in ToSet(got[x]) : Between(p.from, x)

\* Only slirp's receive handler and a sent callback have calls inside them.
HasCalls(f) == (f.pc = "receive" /\ Kind[f.at] = "slirp") \/ f.pc = "cb"

Nested == \A i \in 2 .. Len(stack) : HasCalls(stack[i])

\* Numbers of packets: those in list s, that they rise, and lie before or after n.
IdsIn(s) == {x.id : x \in ToSet(s)}
Rising(s) == \A i, j \in 1 .. Len(s) : i < j => s[i].id < s[j].id
Before(s, n) == \A x \in ToSet(s) : x.id < n
After(s, n) == \A x \in ToSet(s) : n < x.id

\* Delivery f has its place between what the receiver got (g) and what is queued (w):
\* it is offered once, and a packet that was not queued waits for those that were.
InLine(f, g, w) ==
  /\ \A x \in ToSet(g) : x.id <= f.pkt.id
  /\ (f.pc = "receive" \/ f.todo # << >>) => f.ret = -1 /\ Before(g, f.pkt.id)
  /\ f.pc = "receive" => f.todo = << >>
  /\ f.todo # << >> => Tail(f.todo) = << >>
  /\ f.ret = 0 => Before(g, f.pkt.id)
  /\ f.queued => After(w, f.pkt.id)
  /\ ~f.queued => (f.pkt.id \in IdsIn(g) \/ Before(w, f.pkt.id))
  /\ ~f.queued /\ f.pc = "receive" => w = << >>

\* What the sender c, and whether the receiver refuses (d), tell of it.
InKind(f, c, w, d) ==
  /\ Kind[c] = "slirp" => ~f.iov
  /\ Kind[c] # "slirp" => f.pkt.cb
  /\ f.queued => ~f.iov
  /\ f.ret = 0 /\ ~f.iov => d = TRUE
  /\ ~f.queued /\ f.todo # << >> => w = << >> \/ (d = TRUE /\ ~f.iov)

\* The packets from c: got, being delivered (F) and queued, in this order.  Those of
\* slirp are queued only while the receiver refuses or its queue is worked on (h).
LineOf(c, g, w, d, F, h) ==
  /\ Rising(g) /\ Rising(w) /\ \A p \in ToSet(w) : Before(g, p.id)
  /\ \A f \in F : InLine(f, g, w) /\ InKind(f, c, w, d)
  /\ Kind[c] = "slirp" => w = << >> \/ d = TRUE \/ h = TRUE
  /\ Kind[c] # "slirp" => \A p \in ToSet(w) : p.cb

\* All n that were sent are accounted for: those and the ones dropped (dr).
HeldIn(g, w, F) == IdsIn(g) \cup IdsIn(w) \cup {f.pkt.id : f \in F}

CountOf(g, w, F, dr, n) ==
  /\ HeldIn(g, w, F) \cup dr = 1 .. n
  /\ HeldIn(g, w, F) \cap dr = {}

\* The same while f is being delivered.
LineAt(c, g, w, d, f) == LineOf(c, g, w, d, {f}, TRUE)
CountAt(g, w, f, dr, n) == CountOf(g, w, {f}, dr, n)

Flying(r) == {f \in ToSet(stack) : Busy(f) /\ f.q = r}
Worked(r) == \E f \in ToSet(stack) : f.q = r

PairOK(c, r) ==
  /\ LineOf(c, got[r], queue[r], disabled[r], Flying(r), Worked(r))
  /\ CountOf(got[r], queue[r], Flying(r), dropped[c], sent[c])

PInv ==
  ~vlan =>
    /\ Origins /\ Nested
    /\ \A c, r \in peers : c # r => PairOK(c, r)

----------------------------------------------------------------------------
(* The calls in progress as a set.                                         *)

\* The calls around the innermost one.
Rest == ToSet(Tail(stack))

\* They are as they should be, and their deliveries are on other queues.
LEMMA RestIs ==
  ASSUME HInv, stack # << >>
  PROVE  /\ ToSet(stack) = {Top} \cup Rest /\ Rest \subseteq AllFrames /\ Top \in AllFrames
         /\ \A g \in Rest : Busy(g) => g.q # Top.q
         /\ \A g \in ToSet(stack) : FrameOK(g) /\ (Busy(g) => delivering[g.q])
         /\ Nested => \A g \in Rest : HasCalls(g)
<1> DEFINE t == Tail(stack)
<1>1. stack \in Seq(AllFrames) /\ Turned(stack, delivering) /\ Frames
  BY DEF HInv, Typed, Turns
<1>2. /\ Len(stack) \in Nat \ {0} /\ Top = stack[1] /\ stack[1] \in AllFrames
      /\ t \in Seq(AllFrames) /\ Len(t) = Len(stack) - 1
      /\ \A i \in 1 .. Len(stack) - 1 : t[i] = stack[i + 1]
  BY <1>1, PopIs DEF Top
<1>3. /\ \A x : x \in ToSet(stack) <=> \E i \in 1 .. Len(stack) : stack[i] = x
      /\ \A x : x \in ToSet(t) <=> \E i \in 1 .. Len(t) : t[i] = x
      /\ ToSet(t) \subseteq AllFrames
  BY <1>1, <1>2, InList
<1> HIDE DEF t
<1>4. \A x : x \in ToSet(t) <=> \E i \in 2 .. Len(stack) : stack[i] = x
  <2>1. \A i \in 1 .. Len(t) : i + 1 \in 2 .. Len(stack) /\ t[i] = stack[i + 1]
    BY <1>2
  <2>2. \A i \in 2 .. Len(stack) : i - 1 \in 1 .. Len(t) /\ t[i - 1] = stack[i]
    BY <1>2
  <2> QED  BY <1>3, <2>1, <2>2
<1>5. /\ \A i \in 1 .. Len(stack) : i = 1 \/ i \in 2 .. Len(stack)
      /\ 1 \in 1 .. Len(stack) /\ \A i \in 2 .. Len(stack) : i \in 1 .. Len(stack) /\ 1 < i
  BY <1>2
<1>6. ToSet(stack) = {Top} \cup ToSet(t)
  BY <1>2, <1>3, <1>4, <1>5
<1>7. \A g \in ToSet(t) : Busy(g) => g.q # Top.q
  BY <1>1, <1>2, <1>4, <1>5 DEF Turned
<1>8. \A g \in ToSet(stack) : FrameOK(g) /\ (Busy(g) => delivering[g.q])
  BY <1>1, <1>3 DEF Turned, Frames
<1>9. Nested => \A g \in ToSet(t) : HasCalls(g)
  BY <1>4 DEF Nested
<1> QED  BY <1>2, <1>3, <1>6, <1>7, <1>8, <1>9 DEF t, Rest

\* The innermost call goes on as f,
LEMMA TopSet ==
  ASSUME HInv, stack # << >>, NEW f \in AllFrames, SetTop(f)
  PROVE  ToSet(stack') = {f} \cup Rest /\ (Nested => Nested')
<1> DEFINE t == Tail(stack)
<1>1. stack \in Seq(AllFrames) /\ stack' = <<f>> \o t
  BY DEF HInv, Typed, SetTop
<1>2. /\ Len(stack) \in Nat \ {0} /\ t \in Seq(AllFrames) /\ Len(t) = Len(stack) - 1
      /\ \A i \in 1 .. Len(stack) - 1 : t[i] = stack[i + 1]
  BY <1>1, PopIs
<1>3. /\ stack' \in Seq(AllFrames) /\ Len(stack') = Len(stack) /\ stack'[1] = f
      /\ \A i \in 2 .. Len(stack) : stack'[i] = stack[i]
  BY <1>1, TopIs
<1>4. /\ \A x : x \in ToSet(stack') <=> \E i \in 1 .. Len(stack') : stack'[i] = x
      /\ \A x : x \in ToSet(t) <=> \E i \in 1 .. Len(t) : t[i] = x
  <2>1. \A x : x \in ToSet(stack') <=> \E i \in 1 .. Len(stack') : stack'[i] = x
    BY <1>3, InList
  <2>2. \A x : x \in ToSet(t) <=> \E i \in 1 .. Len(t) : t[i] = x
    BY <1>2, InList
  <2> QED  BY <2>1, <2>2
<1> HIDE DEF t
<1>5. \A x : x \in ToSet(t) <=> \E i \in 2 .. Len(stack) : stack'[i] = x
  <2>1. \A i \in 1 .. Len(t) : i + 1 \in 2 .. Len(stack) /\ t[i] = stack'[i + 1]
    BY <1>2, <1>3
  <2>2. \A i \in 2 .. Len(stack) : i - 1 \in 1 .. Len(t) /\ t[i - 1] = stack'[i]
    BY <1>2, <1>3
  <2>3. ASSUME NEW x, x \in ToSet(t) PROVE \E i \in 2 .. Len(stack) : stack'[i] = x
    BY <1>4, <2>1, <2>3
  <2>4. ASSUME NEW x, NEW i \in 2 .. Len(stack), stack'[i] = x PROVE x \in ToSet(t)
    BY <1>4, <2>2, <2>4
  <2> QED  BY <2>3, <2>4
<1>6. /\ \A i \in 1 .. Len(stack) : i = 1 \/ i \in 2 .. Len(stack)
      /\ 1 \in 1 .. Len(stack) /\ \A i \in 2 .. Len(stack) : i \in 1 .. Len(stack)
  BY <1>2
<1>7. ToSet(stack') = {f} \cup ToSet(t)
  BY <1>3, <1>4, <1>5, <1>6
<1>8. Nested => Nested'
  BY <1>3 DEF Nested, HasCalls
<1> QED  BY <1>7, <1>8 DEF t, Rest

\* it returns,
LEMMA PopSet ==
  ASSUME HInv, stack # << >>, Pop
  PROVE  ToSet(stack') = Rest /\ (Nested => Nested')
<1>1. stack \in Seq(AllFrames) /\ stack' = Tail(stack)
  BY DEF HInv, Typed, Pop
<1>2. /\ Len(stack) \in Nat \ {0} /\ Len(stack') = Len(stack) - 1
      /\ \A i \in 1 .. Len(stack) - 1 : stack'[i] = stack[i + 1]
  BY <1>1, PopIs
<1>3. \A i \in 2 .. Len(stack') : i \in 1 .. Len(stack) - 1 /\ i + 1 \in 2 .. Len(stack)
  BY <1>2
<1>4. Nested => Nested'
  BY <1>2, <1>3 DEF Nested, HasCalls
<1> QED  BY <1>1, <1>4 DEF Rest

\* or it calls f.
LEMMA PushSet ==
  ASSUME HInv, NEW f \in AllFrames, stack' = <<f>> \o stack, stack # << >> => HasCalls(Top)
  PROVE  ToSet(stack') = {f} \cup ToSet(stack) /\ (Nested => Nested')
<1>1. stack \in Seq(AllFrames)
  BY DEF HInv, Typed
<1>2. /\ Len(stack) \in Nat /\ stack' \in Seq(AllFrames) /\ Len(stack') = Len(stack) + 1
      /\ stack'[1] = f /\ \A i \in 2 .. Len(stack) + 1 : stack'[i] = stack[i - 1]
      /\ \A i \in 1 .. Len(stack) : stack'[i + 1] = stack[i]
  BY <1>1, PushIs
<1>3. /\ \A x : x \in ToSet(stack') <=> \E i \in 1 .. Len(stack') : stack'[i] = x
      /\ \A x : x \in ToSet(stack) <=> \E i \in 1 .. Len(stack) : stack[i] = x
  <2>1. \A x : x \in ToSet(stack') <=> \E i \in 1 .. Len(stack') : stack'[i] = x
    <3>1. stack' \in Seq(AllFrames)
      BY <1>2
    <3> QED  BY <3>1, InList
  <2>2. \A x : x \in ToSet(stack) <=> \E i \in 1 .. Len(stack) : stack[i] = x
    BY <1>1, InList
  <2> QED  BY <2>1, <2>2
<1>4. /\ \A i \in 1 .. Len(stack') : i = 1 \/ (i \in 2 .. Len(stack) + 1 /\ i - 1 \in 1 .. Len(stack))
      /\ 1 \in 1 .. Len(stack') /\ \A i \in 1 .. Len(stack) : i + 1 \in 1 .. Len(stack')
  BY <1>2
<1>5. ToSet(stack') = {f} \cup ToSet(stack)
  BY <1>2, <1>3, <1>4
<1>6. ASSUME Nested, NEW i \in 2 .. Len(stack') PROVE HasCalls(stack[i])'
  <2>1. i \in 2 .. Len(stack) + 1 /\ stack'[i] = stack[i - 1]
    BY <1>2, <1>6
  <2>2. i - 1 = 1 \/ i - 1 \in 2 .. Len(stack)
    BY <1>2, <2>1
  <2>3. CASE i - 1 = 1
    <3>1. stack # << >> /\ Top = stack[1]
      <4>1. Len(stack) # 0
        BY <1>2, <2>1, <2>3
      <4>2. stack # << >>
        BY <4>1, EmptySeq
      <4> QED  BY <1>1, <4>2, PopIs DEF Top
    <3> QED  BY <2>1, <2>3, <3>1 DEF HasCalls
  <2>4. CASE i - 1 \in 2 .. Len(stack)
    BY <1>6, <2>1, <2>4 DEF Nested, HasCalls
  <2> QED  BY <2>2, <2>3, <2>4
<1> QED  BY <1>5, <1>6 DEF Nested

\* Delivery g is f after its next receiver, r, was passed over or called.
Offered(f, g, r) ==
  /\ g \in Deliveries /\ g.q = f.q /\ g.pkt = f.pkt /\ g.queued = f.queued /\ g.iov = f.iov
  /\ f.todo # << >> /\ g.todo = Tail(f.todo) /\ r = f.todo[1]
  /\ \/ g.pc = "deliver" /\ g.ret = 1
     \/ g.pc = "deliver" /\ g.ret = 0 /\ disabled[r] /\ ~f.iov
     \/ g.pc = "receive" /\ g.at = r /\ g.ret = f.ret /\ ~(disabled[r] /\ ~f.iov)

\* Delivery g is f after its receiver returned len.
Returned(f, g, len) ==
  /\ g \in Deliveries /\ g.q = f.q /\ g.pkt = f.pkt /\ g.queued = f.queued /\ g.iov = f.iov
  /\ g.todo = f.todo /\ g.pc = "deliver" /\ g.ret = IF f.ret >= 0 THEN f.ret ELSE len

\* What NextReceiver makes of the delivery.
LEMMA OfferedIs ==
  ASSUME HInv, NextReceiver
  PROVE  \E f : SetTop(f) /\ Offered(Top, f, Top.todo[1])
<1>1. /\ stack # << >> /\ Top.pc = "deliver" /\ Top \in Deliveries /\ FrameOK(Top)
  BY TopDelivery DEF NextReceiver
<1>2. Top.todo \in Seq(Clients) /\ Top.todo # << >>
  BY <1>1 DEF Deliveries, NextReceiver
<1> DEFINE r == Head(Top.todo)
           t == Tail(Top.todo)
           past == [Top EXCEPT !.todo = t]
           f1 == [past EXCEPT !.ret = 1]
           f2 == [past EXCEPT !.ret = 0]
           f3 == [past EXCEPT !.pc = "receive", !.at = r]
<1>3. /\ r = Top.todo[1] /\ r \in Clients /\ t \in Seq(Clients)
  BY <1>2, PopIs
<1>4. \/ SetTop(f1)
      \/ SetTop(f2) /\ disabled[r] /\ ~Top.iov
      \/ SetTop(f3) /\ ~(~link_down[r] /\ disabled[r] /\ ~Top.iov) /\ ~link_down[r]
  BY DEF NextReceiver
<1> HIDE DEF r, t
<1>5. /\ past \in Deliveries /\ past.pc = "deliver" /\ past.q = Top.q /\ past.pkt = Top.pkt
      /\ past.queued = Top.queued /\ past.todo = t /\ past.iov = Top.iov /\ past.ret = Top.ret
  BY <1>1, <1>3 DEF Deliveries
<1> HIDE DEF past
<1>6. CASE SetTop(f1)
  <2>1. /\ f1 \in Deliveries /\ f1.q = Top.q /\ f1.pkt = Top.pkt /\ f1.queued = Top.queued
        /\ f1.todo = t /\ f1.iov = Top.iov /\ f1.pc = "deliver" /\ f1.ret = 1
    BY <1>5 DEF Deliveries
  <2> HIDE DEF f1
  <2>2. Offered(Top, f1, Top.todo[1])
    BY <1>2, <2>1 DEF Offered, t
  <2> QED  BY <1>6, <2>2
<1>7. CASE SetTop(f2) /\ disabled[r] /\ ~Top.iov
  <2>1. /\ f2 \in Deliveries /\ f2.q = Top.q /\ f2.pkt = Top.pkt /\ f2.queued = Top.queued
        /\ f2.todo = t /\ f2.iov = Top.iov /\ f2.pc = "deliver" /\ f2.ret = 0
    BY <1>5 DEF Deliveries
  <2> HIDE DEF f2
  <2>2. Offered(Top, f2, Top.todo[1])
    BY <1>2, <1>3, <1>7, <2>1 DEF Offered, t
  <2> QED  BY <1>7, <2>2
<1>8. CASE SetTop(f3) /\ ~(disabled[r] /\ ~Top.iov)
  <2>1. /\ f3 \in Deliveries /\ f3.q = Top.q /\ f3.pkt = Top.pkt /\ f3.queued = Top.queued
        /\ f3.todo = t /\ f3.iov = Top.iov /\ f3.pc = "receive" /\ f3.ret = Top.ret /\ f3.at = r
    BY <1>3, <1>5 DEF Deliveries, Queues
  <2> HIDE DEF f3
  <2>2. Offered(Top, f3, Top.todo[1])
    BY <1>2, <1>3, <1>8, <2>1 DEF Offered, t
  <2> QED  BY <1>8, <2>2
<1> HIDE DEF f1, f2, f3
<1> QED  BY <1>4, <1>6, <1>7, <1>8

\* What a receive handler that returns makes of it.
LEMMA ReturnedIs ==
  ASSUME HInv, AtPc("receive"), NEW len \in {-1, 0, 1}, Return(len)
  PROVE  \E f : SetTop(f) /\ Returned(Top, f, len)
<1>1. /\ stack # << >> /\ Top \in Deliveries /\ FrameOK(Top) /\ Busy(Top)
  BY TopDelivery
<1> DEFINE f == [Top EXCEPT !.pc = "deliver", !.ret = IF @ >= 0 THEN @ ELSE len]
<1>2. SetTop(f)
  BY DEF Return
<1>3. /\ f \in Deliveries /\ f.q = Top.q /\ f.pkt = Top.pkt /\ f.queued = Top.queued
      /\ f.todo = Top.todo /\ f.pc = "deliver" /\ f.iov = Top.iov
      /\ f.ret = IF Top.ret >= 0 THEN Top.ret ELSE len
  BY <1>1 DEF Deliveries
<1> HIDE DEF f
<1> QED  BY <1>2, <1>3 DEF Returned

----------------------------------------------------------------------------
(* Queues that are marked.                                                 *)

\* The innermost call goes on as f,
LEMMA MarkedTop ==
  ASSUME HInv, Marked, stack # << >>, NEW f \in AllFrames, SetTop(f),
         \A q \in Queues : delivering'[q] =>
           (Busy(f) /\ q = f.q) \/ (delivering[q] /\ (q # Top.q \/ ~Busy(Top)))
  PROVE  Marked'
<1>1. ToSet(stack') = {f} \cup Rest /\ ToSet(stack) = {Top} \cup Rest
  BY TopSet, RestIs
<1>2. ASSUME NEW q \in Queues, delivering'[q] PROVE \E g \in ToSet(stack') : Busy(g) /\ g.q = q
  <2>1. CASE Busy(f) /\ q = f.q
    BY <1>1, <2>1
  <2>2. CASE delivering[q] /\ (q # Top.q \/ ~Busy(Top))
    <3>1. PICK g \in ToSet(stack) : Busy(g) /\ g.q = q
      BY <2>2 DEF Marked
    <3>2. g \in Rest
      BY <1>1, <2>2, <3>1
    <3> QED  BY <1>1, <3>1, <3>2
  <2> QED  BY <1>2, <2>1, <2>2
<1> QED  BY <1>2 DEF Marked, Busy

\* or it returns.
LEMMA MarkedPop ==
  ASSUME HInv, Marked, stack # << >>, Pop,
         \A q \in Queues : delivering'[q] => delivering[q] /\ (q # Top.q \/ ~Busy(Top))
  PROVE  Marked'
<1>1. ToSet(stack') = Rest /\ ToSet(stack) = {Top} \cup Rest
  BY PopSet, RestIs
<1>2. ASSUME NEW q \in Queues, delivering'[q] PROVE \E g \in ToSet(stack') : Busy(g) /\ g.q = q
  <2>1. delivering[q] /\ (q # Top.q \/ ~Busy(Top))
    BY <1>2
  <2>2. PICK g \in ToSet(stack) : Busy(g) /\ g.q = q
    BY <2>1 DEF Marked
  <2> QED  BY <1>1, <2>1, <2>2
<1> QED  BY <1>2 DEF Marked, Busy

\* The calls and the marks stay as they are.
LEMMA MarkedSame ==
  ASSUME Marked, UNCHANGED <<stack, delivering>>
  PROVE  Marked'
BY DEF Marked, Busy

\* The step of a delivery that goes on.
LEMMA MarkedOn ==
  ASSUME HInv, Marked, NEW pc \in {"deliver", "receive"}, AtPc(pc), UNCHANGED delivering,
         NEW f \in Deliveries, f.q = Top.q, SetTop(f)
  PROVE  Marked'
<1>1. stack # << >> /\ f \in AllFrames /\ Busy(f)
  BY TopDelivery DEF AllFrames, Deliveries, Busy
<1> QED  BY <1>1, MarkedTop

\* The call that takes the place of a delivery that ends.
LEMMA DeliveredIs ==
  ASSUME HInv, Delivered
  PROVE  \E f \in AllFrames :
           /\ SetTop(f) /\ ~Busy(f) /\ f.q = Top.q
           /\ f.pc = "cb" => f.at = Top.pkt.from /\ Top.queued /\ Top.pkt.cb
<1>1. stack # << >> /\ Top \in Deliveries /\ AtPc("deliver")
  BY TopDelivery DEF Delivered, AllOffered
<1>2. Top.q \in Queues /\ Top.pkt \in Packet
  BY <1>1 DEF Deliveries
<1>3. Top.pkt.from \in Clients
  BY <1>2 DEF Packet
<1> DEFINE a == IF Virtio(Top.pkt.from) /\ ~vm_running THEN "abort" ELSE "cb"
           f == [pc |-> a, q |-> Top.q, at |-> Top.pkt.from]
           g == Flushing(Top.q)
<1>4. CASE Top.queued /\ Top.pkt.cb
  <2>1. SetTop(f)
    BY <1>4 DEF Delivered
  <2>2. a \in {"cb", "abort"}
    OBVIOUS
  <2> HIDE DEF a
  <2>3. f \in Callbacks /\ f.q = Top.q /\ f.at = Top.pkt.from /\ f.pc = a
    BY <1>2, <1>3, <2>2 DEF Callbacks
  <2> HIDE DEF f
  <2> QED  BY <1>4, <2>1, <2>2, <2>3 DEF AllFrames, Busy
<1>5. CASE ~(Top.queued /\ Top.pkt.cb)
  <2>1. SetTop(g)
    BY <1>5 DEF Delivered
  <2>2. g \in Flushes /\ g.q = Top.q /\ g.pc = "flush"
    BY <1>2 DEF Flushing, Flushes
  <2> HIDE DEF g
  <2> QED  BY <2>1, <2>2 DEF AllFrames, Busy
<1> QED  BY <1>4, <1>5

\* The call that takes the place of a callback that returned.
LEMMA CallbackIs ==
  ASSUME HInv, CallbackReturns
  PROVE  \E f \in AllFrames : SetTop(f) /\ f.pc = "flush" /\ f.q = Top.q
<1>1. stack # << >> /\ Top \in AllFrames
  BY TopFrame DEF HInv, CallbackReturns
<1>2. Top.q \in Queues
  BY <1>1, FrameKinds
<1> DEFINE g == Flushing(Top.q)
<1>3. SetTop(g)
  BY DEF CallbackReturns
<1>4. g \in Flushes /\ g.q = Top.q /\ g.pc = "flush"
  BY <1>2 DEF Flushing, Flushes
<1> HIDE DEF g
<1> QED  BY <1>3, <1>4 DEF AllFrames

\* The delivery that a flush starts.
LEMMA FlushNextIs ==
  ASSUME HInv, FlushNext
  PROVE  \E f \in Deliveries :
           /\ SetTop(f) /\ f.q = Top.q /\ f.pkt = Head(queue[Top.q]) /\ ~f.iov /\ f.queued
           /\ f.pc = "deliver" /\ f.ret = -1 /\ (~vlan => f.todo = <<f.q>>)
<1>1. stack # << >> /\ Top \in AllFrames /\ Top = stack[1] /\ Len(stack) \in Nat \ {0}
  BY TopFrame DEF HInv, FlushNext
<1>2. Top.q \in Queues
  BY <1>1, FrameKinds
<1>3. FrameOK(Top)
  <2>1. 1 \in 1 .. Len(stack)
    BY <1>1
  <2> QED  BY <1>1, <2>1 DEF HInv, Frames
<1> DEFINE p == Head(queue[Top.q])
           f == Delivery(Top.q, p, FALSE, TRUE)
           P == Packet
<1>4. p \in P
  <2>1. queue[Top.q] \in Seq(P) /\ queue[Top.q] # << >>
    BY <1>2 DEF HInv, Typed, FlushNext
  <2> HIDE DEF P
  <2> QED  BY <2>1, PopIs
<1>5. SetTop(f)
  BY DEF FlushNext
<1> HIDE DEF p
<1>6. f \in AllFrames /\ Busy(f)
  BY <1>2, <1>3, <1>4, DeliveryIs DEF FrameOK, HInv
<1>7. /\ f.q = Top.q /\ f.pkt = p /\ ~f.iov /\ f.queued /\ f.pc = "deliver" /\ f.ret = -1
      /\ f.todo = Receivers(Top.q, p.from)
  BY DEF Delivery
<1> HIDE DEF f
<1>8. f \in Deliveries
  BY <1>6, FrameKinds
<1>9. ~vlan => f.todo = <<f.q>>
  BY <1>7 DEF Receivers
<1> QED  BY <1>5, <1>7, <1>8, <1>9 DEF p

\* The delivery that a send starts.
LEMMA SendIs ==
  ASSUME HInv, NEW c \in Clients, Send(c), ~delivering[SendQueue(c)]
  PROVE  \E f \in Deliveries :
           /\ stack' = <<f>> \o stack /\ f.q = SendQueue(c) /\ f.q \in Queues
           /\ f.pkt = [from |-> c, id |-> sent[c] + 1, cb |-> Kind[c] # "slirp"]
           /\ f.iov = Virtio(c) /\ ~f.queued /\ f.pc = "deliver" /\ f.ret = -1
           /\ f.todo = Receivers(f.q, c)
<1> DEFINE q == SendQueue(c)
           p == [from |-> c, id |-> sent[c] + 1, cb |-> Kind[c] # "slirp"]
           f == Delivery(q, p, Virtio(c), FALSE)
<1>1. /\ c \in ToSet(order) /\ ~link_down[c] /\ Connected(c) /\ sent[c] < packets[c]
      /\ stack' = <<f>> \o stack
  BY DEF Send, MaySend
<1>2. sent[c] + 1 \in Ids
  BY <1>1, NextId DEF HInv
<1>3. p \in Packet /\ Virtio(c) \in BOOLEAN /\ p.from = c
  BY <1>2 DEF Packet, Virtio
<1>4. /\ q \in Queues /\ (vlan => q = Hub)
      /\ ~vlan => q \in peers /\ (relinked \/ q \in ToSet(order))
  BY <1>1, SendQueueIs
<1> HIDE DEF p, q
<1>5. f \in AllFrames /\ Busy(f)
  BY <1>3, <1>4, DeliveryIs DEF HInv
<1>6. /\ f.q = q /\ f.pkt = p /\ f.iov = Virtio(c) /\ ~f.queued /\ f.pc = "deliver"
      /\ f.ret = -1 /\ f.todo = Receivers(q, p.from)
  BY DEF Delivery
<1> HIDE DEF f
<1>7. f \in Deliveries
  BY <1>5, FrameKinds
<1> QED  BY <1>1, <1>3, <1>4, <1>6, <1>7 DEF p, q

\* Every step keeps the marks exact.
LEMMA MStep ==
  ASSUME HInv, Marked, [Next]_vars
  PROVE  Marked'
<1> USE DEF queueVars
<1>0. delivering \in [Queues -> BOOLEAN]
  BY DEF HInv, Typed
<1>1. CASE UNCHANGED vars
  BY <1>1, MarkedSame DEF vars
<1>2. CASE NextReceiver
  <2>1. PICK f : SetTop(f) /\ Offered(Top, f, Top.todo[1])
    BY <1>2, OfferedIs
  <2> QED  BY <1>2, <2>1, MarkedOn DEF NextReceiver, Offered
<1>3. ASSUME NEW len \in {-1, 0, 1}, Return(len), AtPc("receive"), UNCHANGED delivering
      PROVE  Marked'
  <2>1. PICK f : SetTop(f) /\ Returned(Top, f, len)
    BY <1>3, ReturnedIs
  <2> QED  BY <1>3, <2>1, MarkedOn DEF Returned
<1>4. CASE Accept \/ Refuse \/ Discard
  BY <1>3, <1>4 DEF Accept, Refuse, Discard
<1>5. CASE Requeue
  <2>1. stack # << >> /\ Busy(Top) /\ Top.q \in Queues
    BY <1>5, TopDelivery DEF Requeue, AllOffered, Deliveries
  <2>2. Pop /\ delivering' = [delivering EXCEPT ![Top.q] = FALSE]
    BY <1>5 DEF Requeue, EndDelivery
  <2>3. \A q \in Queues : delivering'[q] => delivering[q] /\ q # Top.q
    BY <1>0, <2>1, <2>2
  <2> QED  BY <2>1, <2>2, <2>3, MarkedPop
<1>6. CASE Delivered
  <2>1. stack # << >> /\ Top.q \in Queues
    BY <1>6, TopDelivery DEF Delivered, AllOffered, Deliveries
  <2>2. PICK f \in AllFrames : SetTop(f) /\ ~Busy(f) /\ f.q = Top.q
    BY <1>6, DeliveredIs
  <2>3. delivering' = [delivering EXCEPT ![Top.q] = FALSE]
    BY <1>6 DEF Delivered, EndDelivery
  <2>4. \A q \in Queues : delivering'[q] => delivering[q] /\ q # Top.q
    BY <1>0, <2>1, <2>3
  <2> QED  BY <2>1, <2>2, <2>4, MarkedTop
<1>7. CASE CallbackReturns
  <2>1. stack # << >> /\ ~Busy(Top) /\ UNCHANGED delivering
    BY <1>7 DEF CallbackReturns, AtPc, Idle, Busy
  <2>2. PICK f \in AllFrames : SetTop(f)
    BY <1>7, CallbackIs
  <2> QED  BY <2>1, <2>2, MarkedTop
<1>8. CASE FlushNext
  <2>1. stack # << >> /\ ~Busy(Top)
    BY <1>8 DEF FlushNext, AtPc, Idle, Busy
  <2>2. PICK f \in Deliveries : SetTop(f) /\ f.q = Top.q
    BY <1>8, FlushNextIs
  <2>3. f \in AllFrames /\ Busy(f) /\ f.q \in Queues
    BY <2>2 DEF AllFrames, Deliveries, Busy
  <2>4. delivering' = [delivering EXCEPT ![f.q] = TRUE]
    BY <1>8, <2>2 DEF FlushNext
  <2>5. \A q \in Queues : delivering'[q] => q = f.q \/ delivering[q]
    BY <1>0, <2>3, <2>4
  <2> QED  BY <2>1, <2>2, <2>3, <2>5, MarkedTop
<1>9. CASE FlushEnds
  <2>1. stack # << >> /\ ~Busy(Top) /\ UNCHANGED delivering /\ Pop
    BY <1>9 DEF FlushEnds, AtPc, Idle, Busy
  <2> QED  BY <2>1, MarkedPop
<1>10. ASSUME NEW c \in Clients, Send(c) PROVE Marked'
  <2>1. CASE delivering[SendQueue(c)]
    BY <1>10, <2>1, MarkedSame DEF Send
  <2>2. CASE ~delivering[SendQueue(c)]
    <3>1. PICK f \in Deliveries : stack' = <<f>> \o stack /\ f.q = SendQueue(c) /\ f.q \in Queues
      BY <1>10, <2>2, SendIs
    <3>2. f \in AllFrames /\ Busy(f)
      BY <3>1 DEF AllFrames, Deliveries, Busy
    <3>3. \A q \in Queues : delivering'[q] => q = f.q \/ delivering[q]
      BY <1>0, <1>10, <2>2, <3>1 DEF Send
    <3>4. stack # << >> => HasCalls(Top)
      BY <1>10 DEF Send, MaySend, Idle, AtPc, HasCalls
    <3>5. ToSet(stack') = {f} \cup ToSet(stack)
      BY <3>1, <3>2, <3>4, PushSet
    <3> QED  BY <3>2, <3>3, <3>5 DEF Marked, Busy
  <2> QED  BY <2>1, <2>2
<1>11. ASSUME NEW c \in Clients, qemu_flush_queued_packets(c) PROVE Marked'
  <2>1. stack = << >> /\ UNCHANGED delivering
    BY <1>11 DEF qemu_flush_queued_packets, Idle
  <2>2. ToSet(stack) = {}
    BY <2>1 DEF ToSet
  <2> QED  BY <2>1, <2>2 DEF Marked
<1>12. ASSUME NEW c \in Clients,
              SendDropped(c) \/ SetLink(c) \/ DeleteOnVlan(c) \/ DeleteBackend(c) \/ DeleteNic(c)
       PROVE  Marked'
  BY <1>12, MarkedSame DEF SendDropped, SetLink, DeleteOnVlan, DeleteBackend, DeleteNic, leftAlone
<1>13. CASE StopCont
  BY <1>13, MarkedSame DEF StopCont
<1> QED  BY <1>1, <1>2, <1>4, <1>5, <1>6, <1>7, <1>8, <1>9, <1>10, <1>11, <1>12, <1>13
         DEF Next, Deliver

----------------------------------------------------------------------------
(* Queued packets are owed a flush.                                        *)

\* On a VLAN or in a pair, one client at most is a NIC.
AtMostOneNic == \A c, d \in Clients : Virtio(c) /\ Virtio(d) => c = d

\* Whoever would flush still will.
StillOwes ==
  \A r \in ToSet(order) :
    owes[r] /\ (Virtio(r) => disabled[r]) => owes'[r] /\ (Virtio(r) => disabled'[r])

\* So the queue is still owed a flush.
LEMMA OwingStays ==
  ASSUME UNCHANGED <<vlan, order>>, StillOwes, NEW q, Owing(q)
  PROVE  Owing(q)'
BY DEF Owing, StillOwes, OwnQueue, Virtio

\* A delivery keeps what was said of it while it is not the innermost call.
LEMMA OwedStays ==
  ASSUME Steady, StillOwes, NEW f, OwedFrame(f),
         f.pc = "receive" /\ Virtio(f.at) /\ disabled'[f.at] => disabled[f.at]
  PROVE  OwedFrame(f)'
<1>1. f.ret = 0 /\ Busy(f) => Owing(f.q)'
  BY OwingStays DEF OwedFrame, Steady
<1> QED  BY <1>1 DEF OwedFrame, Busy, Virtio

\* The clients a delivery is for have its queue, as long as nobody was deleted.
LEMMA OwnersHere ==
  ASSUME HInv, deleted = {}, NEW f \in AllFrames, FrameOK(f),
         NEW r, r \in (IF vlan THEN ToSet(order) ELSE {f.q})
  PROVE  r \in ToSet(order) /\ OwnQueue(r) = f.q /\ r \in Clients
<1>1. ToSet(order) \subseteq Clients
  BY InList DEF HInv, Typed
<1>2. ~vlan => peers \subseteq ToSet(order)
  BY DEF HInv, Pair
<1> QED  BY <1>1, <1>2 DEF FrameOK, OwnQueue

\* The innermost call goes on as f,
LEMMA OTop ==
  ASSUME HInv, OInv, deleted = {}, Steady, stack # << >>, StillOwes,
         NEW f \in AllFrames, SetTop(f), f.q = Top.q, OwedFrame(f)',
         \A r \in ToSet(order) : disabled'[r] => owes'[r],
         \A r \in Clients : (vlan \/ r = Top.q) \/ disabled'[r] = disabled[r],
         \A q \in Queues : q # Top.q => queue'[q] = queue[q]
  PROVE  OInv'
<1>1. ToSet(stack') = {f} \cup Rest /\ ToSet(stack) = {Top} \cup Rest
  BY TopSet, RestIs
<1>2. \A r \in ToSet(order') : disabled'[r] => owes'[r]
  BY DEF Steady
<1>3. ASSUME NEW g \in ToSet(stack') PROVE OwedFrame(g)'
  <2>1. CASE g = f
    BY <2>1
  <2>2. CASE g \in Rest
    <3>1. OwedFrame(g) /\ FrameOK(g) /\ (Busy(g) => g.q # Top.q) /\ g \in AllFrames
      BY <1>1, <2>2, RestIs DEF OInv
    <3>2. FrameOK(Top)
      BY <1>1, RestIs
    <3>3. CASE ~Busy(g)
      BY <3>3 DEF OwedFrame, Busy
    <3>4. CASE Busy(g)
      <4>1. ~vlan
        BY <3>1, <3>2, <3>4 DEF FrameOK
      <4>2. g.pc = "receive" => g.at = g.q /\ g.at \in Clients /\ g.at # Top.q
        <5>1. peers \subseteq Clients
          BY DEF HInv, Typed
        <5> QED  BY <3>1, <3>4, <4>1, <5>1 DEF FrameOK
      <4> QED  BY <3>1, <4>1, <4>2, OwedStays
    <3> QED  BY <3>3, <3>4
  <2> QED  BY <1>1, <2>1, <2>2
<1>4. ASSUME NEW q \in Queues, queue'[q] # << >>
      PROVE  Owing(q)' \/ \E g \in ToSet(stack') : g.q = q
  <2>1. CASE q = Top.q
    BY <1>1, <2>1
  <2>2. CASE q # Top.q
    <3>1. Owing(q) \/ \E g \in ToSet(stack) : g.q = q
      BY <1>4, <2>2 DEF OInv
    <3> QED  BY <1>1, <2>2, <3>1, OwingStays DEF Steady
  <2> QED  BY <2>1, <2>2
<1> QED  BY <1>2, <1>3, <1>4 DEF OInv

\* or it returns, and leaves its queue empty or owed a flush.
LEMMA OPop ==
  ASSUME HInv, OInv, deleted = {}, Steady, stack # << >>, Pop, UNCHANGED <<owes, disabled>>,
         queue'[Top.q] = << >> \/ Owing(Top.q),
         \A q \in Queues : q # Top.q => queue'[q] = queue[q]
  PROVE  OInv'
<1>1. ToSet(stack') = Rest /\ ToSet(stack) = {Top} \cup Rest
  BY PopSet, RestIs
<1>2. StillOwes
  BY DEF StillOwes
<1>3. \A r \in ToSet(order') : disabled'[r] => owes'[r]
  BY DEF Steady, OInv
<1>4. ASSUME NEW g \in ToSet(stack') PROVE OwedFrame(g)'
  BY <1>1, <1>2, OwedStays DEF OInv
<1>5. ASSUME NEW q \in Queues, queue'[q] # << >>
      PROVE  Owing(q)' \/ \E g \in ToSet(stack') : g.q = q
  <2>1. Owing(q) \/ \E g \in Rest : g.q = q
    BY <1>1, <1>5 DEF OInv
  <2> QED  BY <1>1, <1>2, <2>1, OwingStays DEF Steady
<1> QED  BY <1>3, <1>4, <1>5 DEF OInv

\* Nothing that matters here changes.
LEMMA OSame ==
  ASSUME OInv, UNCHANGED <<vlan, order, owes, disabled, stack, queue, deleted>>
  PROVE  OInv'
<1> SUFFICES ASSUME deleted = {} PROVE OInv'
  BY DEF OInv
<1>1. \A q : Owing(q) <=> Owing(q)'
  BY DEF Owing, OwnQueue, Virtio
<1>2. \A f : OwedFrame(f) <=> OwedFrame(f)'
  BY <1>1 DEF OwedFrame, Busy, Virtio
<1> QED  BY <1>1, <1>2 DEF OInv

\* A receiver is passed over or called.
LEMMA ONextReceiver ==
  ASSUME HInv, OInv, deleted = {}, AtMostOneNic, NextReceiver
  PROVE  OInv'
<1>1. PICK f : SetTop(f) /\ Offered(Top, f, Top.todo[1])
  BY OfferedIs
<1>2. /\ Steady /\ UNCHANGED <<queue, owes, disabled>>
  BY DEF NextReceiver, Steady, topoVars, history, queueVars, clientVars
<1>3. /\ stack # << >> /\ Top \in Deliveries /\ Busy(Top) /\ FrameOK(Top) /\ Top.pc = "deliver"
      /\ Top \in AllFrames
  BY TopDelivery DEF NextReceiver, AllFrames
<1>4. OwedFrame(Top)
  BY <1>3, RestIs DEF OInv
<1>5. StillOwes
  BY <1>2 DEF StillOwes
<1> DEFINE r == Top.todo[1] t == Tail(Top.todo)
<1>6. /\ Len(Top.todo) \in Nat \ {0} /\ r \in Clients
      /\ Len(t) = Len(Top.todo) - 1 /\ \A i \in 1 .. Len(Top.todo) - 1 : t[i] = Top.todo[i + 1]
  BY <1>1, <1>3, PopIs DEF Offered, Deliveries
<1> HIDE DEF r, t
<1>7. r \in ToSet(order) /\ OwnQueue(r) = Top.q
  <2>1. 1 \in 1 .. Len(Top.todo)
    BY <1>6
  <2>2. r \in (IF vlan THEN ToSet(order) ELSE {Top.q})
    BY <1>3, <2>1 DEF FrameOK, r
  <2> QED  BY <1>3, <2>2, OwnersHere
<1>8. /\ f \in Deliveries /\ f.q = Top.q /\ f.pkt = Top.pkt /\ f.iov = Top.iov /\ f.todo = t
      /\ \/ f.pc = "deliver" /\ f.ret = 1
         \/ f.pc = "deliver" /\ f.ret = 0 /\ disabled[r] /\ ~f.iov
         \/ f.pc = "receive" /\ f.at = r /\ f.ret = Top.ret /\ ~(disabled[r] /\ ~f.iov)
  BY <1>1 DEF Offered, r, t
<1>9. f.iov => /\ Virtio(f.pkt.from) /\ f.pkt.from \in Clients /\ r # f.pkt.from
               /\ \A i \in 1 .. Len(t) : t[i] # f.pkt.from
  <2>1. f.pkt.from \in Clients
    BY <1>8 DEF Deliveries, Packet
  <2>2. f.iov => \A i \in 1 .. Len(Top.todo) : Top.todo[i] # f.pkt.from
    BY <1>3, <1>4, <1>8 DEF OwedFrame
  <2>3. 1 \in 1 .. Len(Top.todo)
        /\ \A i \in 1 .. Len(t) : i \in 1 .. Len(Top.todo) - 1 /\ i + 1 \in 1 .. Len(Top.todo)
    BY <1>6
  <2> QED  BY <1>3, <1>4, <1>6, <1>8, <2>1, <2>2, <2>3 DEF OwedFrame, r
<1>10. OwedFrame(f)
  <2>1. f.pc = "receive" /\ Virtio(f.at) => ~disabled[f.at]
    BY <1>6, <1>8, <1>9 DEF AtMostOneNic
  <2>2. f.ret = 0 => Owing(f.q)
    <3>1. disabled[r] => Owing(f.q)
      BY <1>7, <1>8 DEF OInv, Owing
    <3>2. Top.ret = 0 => Owing(f.q)
      BY <1>3, <1>4, <1>8 DEF OwedFrame
    <3> QED  BY <1>8, <3>1, <3>2
  <2> QED  BY <1>8, <1>9, <2>1, <2>2 DEF OwedFrame
<1>11. OwedFrame(f)'
  BY <1>2, <1>5, <1>10, OwedStays
<1>12. \A x \in ToSet(order) : disabled'[x] => owes'[x]
  BY <1>2 DEF OInv
<1>13. f \in AllFrames
  BY <1>8 DEF AllFrames
<1> QED  BY <1>1, <1>2, <1>3, <1>5, <1>8, <1>11, <1>12, <1>13, OTop

\* What is known of a receiver that is called.
LEMMA ReceiverIs ==
  ASSUME HInv, OInv, deleted = {}, AtPc("receive")
  PROVE  /\ stack # << >> /\ Top \in Deliveries /\ Top \in AllFrames /\ Busy(Top)
         /\ Top.at \in ToSet(order) /\ Top.at \in Clients /\ OwnQueue(Top.at) = Top.q
         /\ ~vlan => Top.at = Top.q
         /\ Virtio(Top.at) => ~disabled[Top.at]
         /\ Top.iov => Virtio(Top.pkt.from) /\ Top.at # Top.pkt.from
         /\ Top.pkt.from \in Clients /\ (Top.ret = 0 => Owing(Top.q)) /\ OwedFrame(Top)
<1>1. /\ stack # << >> /\ Top \in Deliveries /\ Busy(Top) /\ FrameOK(Top) /\ Top.pc = "receive"
      /\ Top \in AllFrames
  BY TopDelivery DEF AllFrames
<1>2. OwedFrame(Top)
  BY <1>1, RestIs DEF OInv
<1>3. Top.at \in (IF vlan THEN ToSet(order) ELSE {Top.q})
  BY <1>1 DEF FrameOK
<1>4. Top.at \in ToSet(order) /\ OwnQueue(Top.at) = Top.q /\ Top.at \in Clients
  BY <1>1, <1>3, OwnersHere
<1>5. Top.pkt.from \in Clients
  BY <1>1 DEF Deliveries, Packet
<1> QED  BY <1>1, <1>2, <1>3, <1>4, <1>5 DEF OwedFrame

\* A handler takes the packet: it had not refused.
LEMMA OAccept ==
  ASSUME HInv, OInv, deleted = {}, Accept
  PROVE  OInv'
<1>1. PICK f : SetTop(f) /\ Returned(Top, f, 1)
  BY ReturnedIs DEF Accept
<1>2. /\ Steady /\ UNCHANGED <<queue, disabled>> /\ AtPc("receive")
      /\ owes' = [owes EXCEPT ![Top.at] = @ /\ ~Virtio(Top.at)]
  BY DEF Accept, Steady, topoVars, queueVars
<1>3. /\ stack # << >> /\ Top \in Deliveries /\ Top.at \in Clients
      /\ Virtio(Top.at) => ~disabled[Top.at]
      /\ Top.ret = 0 => Owing(Top.q)
      /\ OwedFrame(Top) /\ Busy(Top)
  BY <1>2, ReceiverIs
<1>4. owes \in [Clients -> BOOLEAN] /\ ToSet(order) \subseteq Clients
  BY InList DEF HInv, Typed
<1>5. StillOwes
  BY <1>2, <1>3, <1>4 DEF StillOwes
<1>6. \A r \in ToSet(order) : disabled'[r] => owes'[r]
  BY <1>2, <1>3, <1>4 DEF OInv
<1>7. OwedFrame(f)
  <2>1. f.ret = 0 => Top.ret = 0
    BY <1>1 DEF Returned
  <2> QED  BY <1>1, <1>3, <2>1 DEF Returned, OwedFrame
<1>8. OwedFrame(f)' /\ f \in AllFrames /\ f.q = Top.q
  BY <1>1, <1>2, <1>5, <1>7, OwedStays DEF Returned, AllFrames
<1> QED  BY <1>1, <1>2, <1>3, <1>5, <1>6, <1>8, OTop

\* It refuses: it will flush.
LEMMA ORefuse ==
  ASSUME HInv, OInv, deleted = {}, AtMostOneNic, Refuse
  PROVE  OInv'
<1>1. PICK f : SetTop(f) /\ Returned(Top, f, 0)
  BY ReturnedIs DEF Refuse
<1>2. /\ Steady /\ UNCHANGED queue /\ AtPc("receive")
      /\ owes' = [owes EXCEPT ![Top.at] = TRUE]
      /\ disabled' = [disabled EXCEPT ![Top.at] = ~Top.iov \/ @]
  BY DEF Refuse, Steady, topoVars, queueVars
<1>3. /\ stack # << >> /\ Top \in Deliveries /\ Top.at \in Clients /\ Top.at \in ToSet(order)
      /\ OwnQueue(Top.at) = Top.q /\ (~vlan => Top.at = Top.q)
      /\ Top.iov => Virtio(Top.pkt.from) /\ Top.at # Top.pkt.from
      /\ Top.pkt.from \in Clients /\ OwedFrame(Top) /\ Busy(Top)
  BY <1>2, ReceiverIs
<1>4. owes \in [Clients -> BOOLEAN] /\ disabled \in [Clients -> BOOLEAN]
      /\ ToSet(order) \subseteq Clients
  BY InList DEF HInv, Typed
<1>5. StillOwes
  BY <1>2, <1>3, <1>4 DEF StillOwes
<1>6. \A r \in ToSet(order) : disabled'[r] => owes'[r]
  BY <1>2, <1>3, <1>4 DEF OInv
<1>7. Owing(f.q)'
  <2>1. owes'[Top.at] /\ (Virtio(Top.at) => disabled'[Top.at])
    BY <1>2, <1>3, <1>4 DEF AtMostOneNic
  <2>2. f.q = Top.q
    BY <1>1 DEF Returned
  <2> HIDE DEF Owing
  <2>3. \E r \in ToSet(order') : (IF vlan' THEN Hub ELSE r) = f.q /\ owes'[r]
                                   /\ (Virtio(r) => disabled'[r])
    BY <1>2, <1>3, <2>1, <2>2 DEF OwnQueue, Steady
  <2> QED  BY <2>3 DEF Owing, OwnQueue, Virtio
<1>8. OwedFrame(f)'
  BY <1>1, <1>3, <1>7 DEF Returned, OwedFrame, Busy, Virtio
<1>9. f \in AllFrames /\ f.q = Top.q
  BY <1>1 DEF Returned, AllFrames
<1>10. \A r \in Clients : (vlan \/ r = Top.q) \/ disabled'[r] = disabled[r]
  BY <1>2, <1>3, <1>4
<1> QED  BY <1>1, <1>2, <1>3, <1>5, <1>6, <1>8, <1>9, <1>10, OTop

\* It discards the packet.
LEMMA ODiscard ==
  ASSUME HInv, OInv, deleted = {}, Discard
  PROVE  OInv'
<1>1. PICK f : SetTop(f) /\ Returned(Top, f, -1)
  BY ReturnedIs DEF Discard
<1>2. /\ Steady /\ UNCHANGED <<queue, owes, disabled>> /\ AtPc("receive")
  BY DEF Discard, Steady, topoVars, queueVars, clientVars, history
<1>3. stack # << >> /\ Top \in Deliveries /\ OwedFrame(Top) /\ Busy(Top)
  BY <1>2, ReceiverIs
<1>4. StillOwes /\ \A r \in ToSet(order) : disabled'[r] => owes'[r]
  BY <1>2 DEF StillOwes, OInv
<1>5. OwedFrame(f)
  <2>1. f.ret = 0 => Top.ret = 0
    BY <1>1 DEF Returned
  <2> QED  BY <1>1, <1>3, <2>1 DEF Returned, OwedFrame
<1>6. OwedFrame(f)' /\ f \in AllFrames /\ f.q = Top.q
  BY <1>1, <1>2, <1>4, <1>5, OwedStays DEF Returned, AllFrames
<1> QED  BY <1>1, <1>2, <1>3, <1>4, <1>6, OTop

\* A call that is not a delivery takes the place of the innermost one.
LEMMA OOther ==
  ASSUME HInv, OInv, deleted = {}, Steady, stack # << >>, UNCHANGED <<owes, disabled>>,
         NEW f \in AllFrames, SetTop(f), f.q = Top.q,
         Busy(f) => ~f.iov /\ f.pc = "deliver" /\ f.ret # 0,
         \A q \in Queues : q # Top.q => queue'[q] = queue[q]
  PROVE  OInv'
<1>1. StillOwes /\ \A r \in ToSet(order) : disabled'[r] => owes'[r]
  BY DEF StillOwes, OInv
<1>2. OwedFrame(f)'
  BY DEF OwedFrame, Busy
<1> QED  BY <1>1, <1>2, OTop

\* A client sends.
LEMMA OSend ==
  ASSUME HInv, Marked, OInv, deleted = {}, NEW c \in Clients, Send(c)
  PROVE  OInv'
<1> DEFINE q == SendQueue(c)
<1>1. /\ Steady /\ UNCHANGED <<owes, disabled, deleted>> /\ MaySend(c)
      /\ ~link_down[c] /\ Connected(c)
  BY DEF Send, Steady, topoVars, clientVars
<1>2. q \in Queues
  BY <1>1, SendQueueIs DEF MaySend
<1>3. queue \in [Queues -> Seq(Packet)]
  BY DEF HInv, Typed
<1>4. StillOwes /\ \A r \in ToSet(order') : disabled'[r] => owes'[r]
  BY <1>1 DEF StillOwes, OInv, Steady
<1> HIDE DEF q
<1>5. CASE delivering[q]
  <2>1. UNCHANGED stack /\ \A x \in Queues : x # q => queue'[x] = queue[x]
    BY <1>2, <1>3, <1>5 DEF Send, q
  <2>2. \E f \in ToSet(stack) : f.q = q
    BY <1>2, <1>5 DEF Marked
  <2>3. \A f \in ToSet(stack') : OwedFrame(f)'
    BY <1>1, <1>4, <2>1, OwedStays DEF OInv
  <2>4. ASSUME NEW x \in Queues, queue'[x] # << >>
        PROVE  Owing(x)' \/ \E f \in ToSet(stack') : f.q = x
    <3>1. Owing(x) \/ \E f \in ToSet(stack) : f.q = x
      BY <2>1, <2>2, <2>4 DEF OInv
    <3> QED  BY <1>1, <1>4, <2>1, <3>1, OwingStays DEF Steady
  <2> QED  BY <1>4, <2>3, <2>4 DEF OInv
<1>6. CASE ~delivering[q]
  <2>1. PICK f \in Deliveries :
          /\ stack' = <<f>> \o stack /\ f.q = q /\ f.iov = Virtio(c) /\ f.pc = "deliver"
          /\ f.pkt = [from |-> c, id |-> sent[c] + 1, cb |-> Kind[c] # "slirp"]
          /\ f.ret = -1 /\ f.todo = Receivers(f.q, c)
    BY <1>6, SendIs DEF q
  <2>2. f \in AllFrames /\ f.pkt.from = c
    BY <2>1 DEF AllFrames
  <2>3. stack # << >> => HasCalls(Top)
    BY <1>1 DEF MaySend, Idle, AtPc, HasCalls
  <2>4. ToSet(stack') = {f} \cup ToSet(stack)
    BY <2>1, <2>2, <2>3, PushSet
  <2>5. UNCHANGED queue
    BY <1>6 DEF Send, q
  <2>6. \A i \in 1 .. Len(f.todo) : f.todo[i] # c
    <3>1. CASE vlan
      <4> DEFINE w == Without(order, {c})
      <4>1. w \in Seq(Clients) /\ ToSet(w) = ToSet(order) \ {c}
        BY WithoutSet DEF HInv, Typed
      <4>2. f.todo = w
        BY <2>1, <3>1 DEF Receivers
      <4> HIDE DEF w
      <4>3. \A i \in 1 .. Len(w) : w[i] \in ToSet(w)
        BY <4>1, InList
      <4> QED  BY <4>1, <4>2, <4>3
    <3>2. CASE ~vlan
      <4>1. q # c
        BY <1>1, <3>2, PeerIs DEF q, SendQueue
      <4>2. f.todo = <<q>>
        BY <2>1, <3>2 DEF Receivers
      <4>3. \A i \in 1 .. Len(<<q>>) : <<q>>[i] = q
        OBVIOUS
      <4> QED  BY <4>1, <4>2, <4>3
    <3> QED  BY <3>1, <3>2
  <2>7. OwedFrame(f)
    BY <2>1, <2>2, <2>6 DEF OwedFrame
  <2>8. \A g \in ToSet(stack') : OwedFrame(g)'
    BY <1>1, <1>4, <2>4, <2>7, OwedStays DEF OInv
  <2>9. ASSUME NEW x \in Queues, queue'[x] # << >>
        PROVE  Owing(x)' \/ \E g \in ToSet(stack') : g.q = x
    <3>1. Owing(x) \/ \E g \in ToSet(stack) : g.q = x
      BY <2>5, <2>9 DEF OInv
    <3> QED  BY <1>1, <1>4, <2>4, <3>1, OwingStays DEF Steady
  <2> QED  BY <1>4, <2>8, <2>9 DEF OInv
<1> QED  BY <1>5, <1>6

\* A client flushes.
LEMMA OFlush ==
  ASSUME HInv, OInv, deleted = {}, NEW c \in Clients, qemu_flush_queued_packets(c)
  PROVE  OInv'
<1> DEFINE f == Flushing(OwnQueue(c))
<1>1. /\ Steady /\ Idle /\ c \in ToSet(order) /\ stack' = <<f>> /\ UNCHANGED queue
      /\ owes' = [owes EXCEPT ![c] = FALSE] /\ disabled' = [disabled EXCEPT ![c] = FALSE]
  BY DEF qemu_flush_queued_packets, Steady, topoVars, queueVars, history
<1>2. ToSet(stack) = {}
  BY <1>1 DEF Idle, ToSet
<1>3. ToSet(stack') = {f}
  <2> HIDE DEF f
  <2>1. stack' \in Seq({f}) /\ Len(stack') = 1 /\ stack'[1] = f
    BY <1>1
  <2>2. ToSet(stack') \subseteq {f} /\ (f \in ToSet(stack') <=> \E i \in 1 .. Len(stack') : stack'[i] = f)
    BY <2>1, InList
  <2>3. 1 \in 1 .. Len(stack')
    BY <2>1
  <2> QED  BY <2>1, <2>2, <2>3
<1>4. f.pc = "flush" /\ f.q = OwnQueue(c)
  BY DEF Flushing
<1> HIDE DEF f
<1>5. owes \in [Clients -> BOOLEAN] /\ disabled \in [Clients -> BOOLEAN]
      /\ ToSet(order) \subseteq Clients
  BY InList DEF HInv, Typed
<1>6. \A r \in ToSet(order') : disabled'[r] => owes'[r]
  BY <1>1, <1>5 DEF OInv, Steady
<1>7. \A g \in ToSet(stack') : OwedFrame(g)'
  BY <1>3, <1>4 DEF OwedFrame, Busy
<1>8. ASSUME NEW q \in Queues, queue'[q] # << >>
      PROVE  Owing(q)' \/ \E g \in ToSet(stack') : g.q = q
  <2>1. CASE q = OwnQueue(c)
    BY <1>3, <1>4, <2>1
  <2>2. CASE q # OwnQueue(c)
    <3>1. Owing(q)
      BY <1>1, <1>2, <1>8 DEF OInv
    <3>2. PICK r \in ToSet(order) : OwnQueue(r) = q /\ owes[r] /\ (Virtio(r) => disabled[r])
      BY <3>1 DEF Owing
    <3>3. owes'[r] /\ (Virtio(r) => disabled'[r]) /\ r \in ToSet(order')
      BY <1>1, <1>5, <2>2, <3>2 DEF Steady
    <3>4. (IF vlan' THEN Hub ELSE r) = q
      BY <1>1, <3>2 DEF OwnQueue, Steady
    <3> QED  BY <3>3, <3>4 DEF Owing, OwnQueue, Virtio
  <2> QED  BY <2>1, <2>2
<1> QED  BY <1>6, <1>7, <1>8 DEF OInv

\* Every step keeps it.
LEMMA OStep ==
  ASSUME HInv, Marked, OInv, AtMostOneNic, [Next]_vars
  PROVE  OInv'
<1> USE DEF topoVars, queueVars, clientVars, history
<1>1. deleted \subseteq deleted'
  BY DEF Next, Deliver, vars, NextReceiver, Accept, Refuse, Discard, Requeue, Delivered,
         CallbackReturns, FlushNext, FlushEnds, SendDropped, Send, qemu_flush_queued_packets,
         SetLink, DeleteOnVlan, DeleteBackend, DeleteNic, StopCont
<1> SUFFICES ASSUME deleted' = {} PROVE OInv'
  BY DEF OInv
<1>2. deleted = {}
  BY <1>1
<1>3. queue \in [Queues -> Seq(Packet)]
  BY DEF HInv, Typed
<1>4. CASE UNCHANGED vars
  BY <1>4, OSame DEF vars
<1>5. CASE Requeue
  <2>1. /\ stack # << >> /\ Busy(Top) /\ Top.q \in Queues /\ Top.ret = 0
    BY <1>5, TopDelivery DEF Requeue, AllOffered, Deliveries
  <2>2. Owing(Top.q)
    BY <1>2, <2>1, RestIs DEF OInv, OwedFrame
  <2>3. Pop /\ Steady /\ UNCHANGED <<owes, disabled>>
        /\ \A q \in Queues : q # Top.q => queue'[q] = queue[q]
    BY <1>3, <1>5, <2>1 DEF Requeue, Steady
  <2> QED  BY <1>2, <2>1, <2>2, <2>3, OPop
<1>6. CASE Delivered
  <2>1. stack # << >>
    BY <1>6 DEF Delivered, AllOffered, AtPc, Idle
  <2>2. PICK f \in AllFrames : SetTop(f) /\ ~Busy(f) /\ f.q = Top.q
    BY <1>6, DeliveredIs
  <2>3. Steady /\ UNCHANGED <<owes, disabled, queue>>
    BY <1>6 DEF Delivered, Steady
  <2> QED  BY <1>2, <2>1, <2>2, <2>3, OOther
<1>7. CASE CallbackReturns
  <2>1. stack # << >> /\ Steady /\ UNCHANGED <<owes, disabled, queue>>
    BY <1>7 DEF CallbackReturns, AtPc, Idle, Steady
  <2>2. PICK f \in AllFrames : SetTop(f) /\ f.pc = "flush" /\ f.q = Top.q
    BY <1>7, CallbackIs
  <2> QED  BY <1>2, <2>1, <2>2, OOther DEF Busy
<1>8. CASE FlushNext
  <2>1. stack # << >> /\ Steady /\ UNCHANGED <<owes, disabled>>
    BY <1>8 DEF FlushNext, AtPc, Idle, Steady
  <2>2. PICK f \in Deliveries : SetTop(f) /\ f.q = Top.q /\ ~f.iov /\ f.pc = "deliver" /\ f.ret = -1
    BY <1>8, FlushNextIs
  <2>3. f \in AllFrames /\ f.q \in Queues
    BY <2>2 DEF AllFrames, Deliveries
  <2>4. \A q \in Queues : q # Top.q => queue'[q] = queue[q]
    BY <1>3, <1>8, <2>2, <2>3 DEF FlushNext
  <2> QED  BY <1>2, <2>1, <2>2, <2>3, <2>4, OOther
<1>9. CASE FlushEnds
  <2>1. /\ stack # << >> /\ Steady /\ UNCHANGED <<owes, disabled, queue>> /\ Pop
        /\ queue[Top.q] = << >>
    BY <1>9 DEF FlushEnds, AtPc, Idle, Steady
  <2> QED  BY <1>2, <2>1, OPop
<1>10. ASSUME NEW c \in Clients, SendDropped(c) \/ SetLink(c) PROVE OInv'
  BY <1>10, OSame DEF SendDropped, SetLink
<1>11. ASSUME NEW c \in Clients, DeleteOnVlan(c) \/ DeleteBackend(c) \/ DeleteNic(c) PROVE FALSE
  BY <1>11 DEF DeleteOnVlan, DeleteBackend, DeleteNic
<1>12. CASE StopCont
  BY <1>12, OSame DEF StopCont
<1> QED  BY <1>2, <1>4, <1>5, <1>6, <1>7, <1>8, <1>9, <1>10, <1>11, <1>12, ONextReceiver, OAccept,
            ORefuse, ODiscard, OSend, OFlush DEF Next, Deliver

\* It holds before anything is sent.
LEMMA OInit ==
  ASSUME Init
  PROVE  Marked /\ OInv
<1>1. ToSet(stack) = {}
  BY DEF Init, ToSet
<1>2. \A q \in Queues : queue[q] = << >> /\ ~delivering[q]
  BY DEF Init, Queues
<1>3. \A c \in ToSet(order) : ~disabled[c]
  <2>1. HInv
    BY HInit
  <2>2. ToSet(order) \subseteq Clients
    BY <2>1, InList DEF HInv, Typed
  <2> QED  BY <2>2 DEF Init
<1> QED  BY <1>1, <1>2, <1>3 DEF Marked, OInv

\* When nothing runs, the queue is owed a flush.
LEMMA OwedFrom ==
  ASSUME HInv, OInv
  PROVE  QueuedOwed
<1> SUFFICES ASSUME Idle, deleted = {}, NEW q \in DOMAIN queue, queue[q] # << >>
             PROVE  \E r \in ToSet(order) : OwnQueue(r) = q /\ owes[r]
  BY DEF QueuedOwed
<1>1. q \in Queues
  BY DEF HInv, Typed
<1>2. ToSet(stack) = {}
  BY DEF Idle, ToSet
<1> QED  BY <1>1, <1>2 DEF OInv, Owing

\* With one NIC at most, whenever nothing runs and packets wait in a queue, some
\* client that refused one will flush it: qemu_deliver_packet and
\* qemu_vlan_deliver_packet never leave a packet to nobody, however calls nest.
THEOREM QueuedAreOwed == AtMostOneNic => (Spec => []QueuedOwed)
<1> SUFFICES ASSUME AtMostOneNic PROVE Spec => []QueuedOwed
  OBVIOUS
<1>1. Init => HInv /\ Marked /\ OInv
  BY HInit, OInit
<1>2. HInv /\ Marked /\ OInv /\ [Next]_vars => (HInv /\ Marked /\ OInv)'
  BY HStep, MStep, OStep
<1>3. HInv /\ OInv => QueuedOwed
  BY OwedFrom
<1> QED  BY <1>1, <1>2, <1>3, PTL DEF Spec

----------------------------------------------------------------------------
(* Lists of numbered packets.                                              *)

Numbered(A) == \A x \in A : x.id \in Nat

\* A packet at the end of a list,
LEMMA ListAppend ==
  ASSUME NEW A, Numbered(A), NEW s \in Seq(A), NEW x \in A
  PROVE  /\ Append(s, x) \in Seq(A) /\ ToSet(Append(s, x)) = ToSet(s) \cup {x}
         /\ Rising(s) /\ Before(s, x.id) => Rising(Append(s, x))
<1> DEFINE u == Append(s, x)
<1>1. /\ Len(s) \in Nat /\ u \in Seq(A) /\ Len(u) = Len(s) + 1
      /\ u[Len(s) + 1] = x /\ \A i \in 1 .. Len(s) : u[i] = s[i]
  BY LenProperties, AppendProperties
<1> HIDE DEF u
<1>2. \A y : y \in ToSet(u) <=> \E i \in 1 .. Len(u) : u[i] = y
  BY <1>1, InList
<1>3. \A y : y \in ToSet(s) <=> \E i \in 1 .. Len(s) : s[i] = y
  BY InList
<1>4. /\ Len(s) + 1 \in 1 .. Len(u) /\ \A i \in 1 .. Len(s) : i \in 1 .. Len(u)
      /\ \A i \in 1 .. Len(u) : i = Len(s) + 1 \/ i \in 1 .. Len(s)
  BY <1>1
<1>5. ToSet(u) = ToSet(s) \cup {x}
  <2>1. ASSUME NEW y \in ToSet(u) PROVE y \in ToSet(s) \cup {x}
    BY <1>1, <1>2, <1>3, <1>4, <2>1
  <2>2. ASSUME NEW y \in ToSet(s) PROVE y \in ToSet(u)
    BY <1>1, <1>2, <1>3, <1>4, <2>2
  <2>3. x \in ToSet(u)
    BY <1>1, <1>2, <1>4
  <2> QED  BY <2>1, <2>2, <2>3
<1>6. ASSUME Rising(s), Before(s, x.id), NEW i \in 1 .. Len(u), NEW j \in 1 .. Len(u), i < j
      PROVE  u[i].id < u[j].id
  <2>1. i \in 1 .. Len(s)
    BY <1>1, <1>6
  <2>2. u[i] = s[i] /\ s[i] \in ToSet(s)
    BY <1>1, <1>3, <2>1
  <2>3. CASE j = Len(s) + 1
    BY <1>1, <1>6, <2>2, <2>3 DEF Before
  <2>4. CASE j \in 1 .. Len(s)
    BY <1>1, <1>6, <2>1, <2>2, <2>4 DEF Rising
  <2> QED  BY <1>4, <2>3, <2>4
<1> QED  BY <1>1, <1>5, <1>6 DEF u, Rising

\* at its beginning,
LEMMA ListPush ==
  ASSUME NEW A, Numbered(A), NEW s \in Seq(A), NEW x \in A
  PROVE  /\ <<x>> \o s \in Seq(A) /\ ToSet(<<x>> \o s) = ToSet(s) \cup {x}
         /\ Rising(s) /\ After(s, x.id) => Rising(<<x>> \o s)
<1> DEFINE u == <<x>> \o s
<1>1. /\ Len(s) \in Nat /\ u \in Seq(A) /\ Len(u) = Len(s) + 1 /\ u[1] = x
      /\ \A i \in 2 .. Len(s) + 1 : u[i] = s[i - 1]
      /\ \A i \in 1 .. Len(s) : u[i + 1] = s[i]
  BY PushIs
<1> HIDE DEF u
<1>2. \A y : y \in ToSet(u) <=> \E i \in 1 .. Len(u) : u[i] = y
  BY <1>1, InList
<1>3. \A y : y \in ToSet(s) <=> \E i \in 1 .. Len(s) : s[i] = y
  BY InList
<1>4. /\ 1 \in 1 .. Len(u) /\ \A i \in 1 .. Len(s) : i + 1 \in 1 .. Len(u)
      /\ \A i \in 1 .. Len(u) : i = 1 \/ (i \in 2 .. Len(s) + 1 /\ i - 1 \in 1 .. Len(s))
  BY <1>1
<1>5. ToSet(u) = ToSet(s) \cup {x}
  <2>1. ASSUME NEW y \in ToSet(u) PROVE y \in ToSet(s) \cup {x}
    BY <1>1, <1>2, <1>3, <1>4, <2>1
  <2>2. ASSUME NEW y \in ToSet(s) PROVE y \in ToSet(u)
    BY <1>1, <1>2, <1>3, <1>4, <2>2
  <2>3. x \in ToSet(u)
    BY <1>1, <1>2, <1>4
  <2> QED  BY <2>1, <2>2, <2>3
<1>6. ASSUME Rising(s), After(s, x.id), NEW i \in 1 .. Len(u), NEW j \in 1 .. Len(u), i < j
      PROVE  u[i].id < u[j].id
  <2>1. j \in 2 .. Len(s) + 1 /\ j - 1 \in 1 .. Len(s)
    BY <1>1, <1>6
  <2>2. u[j] = s[j - 1] /\ s[j - 1] \in ToSet(s)
    BY <1>1, <1>3, <2>1
  <2>3. CASE i = 1
    BY <1>1, <1>6, <2>2, <2>3 DEF After
  <2>4. CASE i \in 2 .. Len(s) + 1 /\ i - 1 \in 1 .. Len(s)
    <3>1. u[i] = s[i - 1] /\ i - 1 < j - 1
      BY <1>1, <1>6, <2>4
    <3> QED  BY <1>6, <2>1, <2>2, <2>4, <3>1 DEF Rising
  <2> QED  BY <1>4, <2>3, <2>4
<1> QED  BY <1>1, <1>5, <1>6 DEF u, Rising

\* or taken from there.
LEMMA ListPop ==
  ASSUME NEW A, Numbered(A), NEW s \in Seq(A), s # << >>
  PROVE  /\ Tail(s) \in Seq(A) /\ Head(s) \in A /\ ToSet(s) = ToSet(Tail(s)) \cup {Head(s)}
         /\ Rising(s) => Rising(Tail(s)) /\ After(Tail(s), Head(s).id)
<1> DEFINE t == Tail(s)
<1>1. /\ Len(s) \in Nat \ {0} /\ Head(s) = s[1] /\ s[1] \in A
      /\ t \in Seq(A) /\ Len(t) = Len(s) - 1
      /\ \A i \in 1 .. Len(s) - 1 : t[i] = s[i + 1]
  BY PopIs
<1> HIDE DEF t
<1>2. \A y : y \in ToSet(t) <=> \E i \in 1 .. Len(t) : t[i] = y
  BY <1>1, InList
<1>3. \A y : y \in ToSet(s) <=> \E i \in 1 .. Len(s) : s[i] = y
  BY InList
<1>4. /\ 1 \in 1 .. Len(s)
      /\ \A i \in 1 .. Len(t) : i + 1 \in 1 .. Len(s) /\ t[i] = s[i + 1]
      /\ \A i \in 1 .. Len(s) : i = 1 \/ (i - 1 \in 1 .. Len(t) /\ t[i - 1] = s[i])
  BY <1>1
<1>5. ToSet(s) = ToSet(t) \cup {Head(s)}
  <2>1. ASSUME NEW y \in ToSet(s) PROVE y \in ToSet(t) \cup {Head(s)}
    BY <1>1, <1>2, <1>3, <1>4, <2>1
  <2>2. ASSUME NEW y \in ToSet(t) PROVE y \in ToSet(s)
    BY <1>2, <1>3, <1>4, <2>2
  <2>3. Head(s) \in ToSet(s)
    BY <1>1, <1>3, <1>4
  <2> QED  BY <2>1, <2>2, <2>3
<1>6. ASSUME Rising(s) PROVE Rising(t) /\ After(t, Head(s).id)
  <2>1. ASSUME NEW i \in 1 .. Len(t), NEW j \in 1 .. Len(t), i < j PROVE t[i].id < t[j].id
    <3>1. i + 1 < j + 1 /\ i + 1 \in 1 .. Len(s) /\ j + 1 \in 1 .. Len(s)
      BY <1>1, <1>4, <2>1
    <3> QED  BY <1>4, <1>6, <3>1 DEF Rising
  <2>2. ASSUME NEW y \in ToSet(t) PROVE Head(s).id < y.id
    <3>1. PICK i \in 1 .. Len(t) : t[i] = y
      BY <1>2, <2>2
    <3>2. 1 < i + 1 /\ i + 1 \in 1 .. Len(s) /\ y = s[i + 1]
      BY <1>1, <1>4, <3>1
    <3> QED  BY <1>1, <1>4, <1>6, <3>2 DEF Rising
  <2> QED  BY <2>1, <2>2 DEF Rising, After
<1> QED  BY <1>1, <1>5, <1>6 DEF t

\* An empty list.
LEMMA ListEmpty ==
  /\ ToSet(<< >>) = {} /\ IdsIn(<< >>) = {} /\ Rising(<< >>)
  /\ \A n : Before(<< >>, n) /\ After(<< >>, n)
<1>1. ToSet(<< >>) = {}
  BY DEF ToSet
<1>2. Len(<< >>) = 0 /\ 1 .. 0 = {}
  OBVIOUS
<1> QED  BY <1>1, <1>2 DEF IdsIn, Rising, Before, After

----------------------------------------------------------------------------
(* What the steps of a delivery do to a line of packets.                   *)

\* The delivery f goes on as e: not accepted.
GoesOnAs(f, e, d, d2) ==
  /\ e.pkt = f.pkt /\ e.iov = f.iov /\ e.queued = f.queued /\ e.todo = << >>
  /\ d = TRUE => d2 = TRUE
  /\ e.pc = "receive" => e.ret = -1 /\ f.todo # << >> /\ ~(d = TRUE /\ ~f.iov)
  /\ e.ret = 0 => /\ f.ret = 0 \/ f.pc = "receive" \/ f.todo # << >>
                  /\ ~e.iov => d2 = TRUE

\* Nothing gets out of line.
LEMMA LineOn ==
  ASSUME NEW c, NEW g, NEW w, NEW d, NEW d2, NEW dr, NEW n, NEW f, NEW e,
         LineAt(c, g, w, d, f), CountAt(g, w, f, dr, n), GoesOnAs(f, e, d, d2)
  PROVE  LineAt(c, g, w, d2, e) /\ CountAt(g, w, e, dr, n)
<1>1. InLine(f, g, w) /\ InKind(f, c, w, d)
  BY DEF LineOf, LineAt
<1>2. InLine(e, g, w)
  BY <1>1 DEF InLine, InKind, GoesOnAs
<1>3. InKind(e, c, w, d2)
  BY <1>1 DEF InKind, GoesOnAs
<1>4. LineAt(c, g, w, d2, e)
  BY <1>2, <1>3 DEF LineOf, LineAt, GoesOnAs
<1>5. {x.pkt.id : x \in {e}} = {x.pkt.id : x \in {f}}
  BY DEF GoesOnAs
<1>6. CountAt(g, w, e, dr, n)
  BY <1>5 DEF CountOf, CountAt, HeldIn
<1> QED  BY <1>4, <1>6

\* The packet is accepted.
LEMMA LineAccept ==
  ASSUME NEW A, Numbered(A), NEW B, Numbered(B), NEW c, NEW g \in Seq(A), NEW w \in Seq(B),
         NEW d, NEW dr, NEW n, NEW f, NEW e, NEW x \in A, x.id = f.pkt.id,
         LineAt(c, g, w, d, f), CountAt(g, w, f, dr, n),
         f.pc = "receive", e.pc = "deliver", e.todo = f.todo, e.ret # 0,
         e.pkt = f.pkt /\ e.iov = f.iov /\ e.queued = f.queued
  PROVE  /\ LineAt(c, Append(g, x), w, d, e)
         /\ CountAt(Append(g, x), w, e, dr, n)
<1> DEFINE u == Append(g, x)
<1>1. InLine(f, g, w) /\ InKind(f, c, w, d) /\ Rising(g) /\ Rising(w)
      /\ \A p \in ToSet(w) : Before(g, p.id)
  BY DEF LineOf, LineAt
<1>2. Before(g, x.id) /\ f.todo = << >>
  BY <1>1 DEF InLine
<1>3. ToSet(u) = ToSet(g) \cup {x} /\ Rising(u)
  BY <1>1, <1>2, ListAppend
<1> HIDE DEF u
<1>4. x.id \in Nat /\ x.id \in IdsIn(u)
  BY <1>3 DEF Numbered, IdsIn
<1>5. After(w, x.id)
  <2>1. CASE f.queued
    BY <1>1, <2>1 DEF InLine
  <2>2. CASE ~f.queued
    BY <1>1, <2>2, ListEmpty DEF InLine
  <2> QED  BY <2>1, <2>2
<1>6. \A p \in ToSet(w) : Before(u, p.id)
  BY <1>1, <1>3, <1>5 DEF Before, After
<1>7. InLine(e, u, w)
  <2>1. ToSet(g) \subseteq A
    BY InList
  <2>2. \A y \in ToSet(u) : y.id <= e.pkt.id
    BY <1>2, <1>3, <1>4, <2>1 DEF Before, Numbered
  <2> QED  BY <1>1, <1>2, <1>4, <2>2 DEF InLine
<1>8. InKind(e, c, w, d)
  BY <1>1, <1>2 DEF InKind
<1>9. LineAt(c, u, w, d, e)
  BY <1>1, <1>3, <1>6, <1>7, <1>8 DEF LineOf, LineAt
<1>10. HeldIn(u, w, {e}) = HeldIn(g, w, {f})
  BY <1>3 DEF HeldIn, IdsIn
<1>11. CountAt(u, w, e, dr, n)
  BY <1>10 DEF CountOf, CountAt
<1> QED  BY <1>9, <1>11 DEF u

\* The packet is put back at the head of the queue.
LEMMA LineBack ==
  ASSUME NEW A, Numbered(A), NEW B, Numbered(B), NEW c, NEW g \in Seq(A), NEW w \in Seq(B),
         NEW d, NEW hh, NEW dr, NEW n, NEW f, f.pkt \in B,
         LineAt(c, g, w, d, f), CountAt(g, w, f, dr, n), f.ret = 0, f.queued
  PROVE  /\ LineOf(c, g, <<f.pkt>> \o w, d, {}, hh)
         /\ CountOf(g, <<f.pkt>> \o w, {}, dr, n)
<1> DEFINE p == f.pkt
           u == <<p>> \o w
<1>1. InLine(f, g, w) /\ InKind(f, c, w, d) /\ Rising(g) /\ Rising(w)
      /\ \A y \in ToSet(w) : Before(g, y.id)
  BY DEF LineOf, LineAt
<1>2. Before(g, p.id) /\ After(w, p.id)
  BY <1>1 DEF InLine
<1>3. ToSet(u) = ToSet(w) \cup {p} /\ Rising(u)
  <2> HIDE DEF p
  <2>1. p \in B
    BY DEF p
  <2> QED  BY <1>1, <1>2, <2>1, ListPush
<1>4. Kind[c] = "slirp" => d = TRUE
  BY <1>1 DEF InKind
<1>5. Kind[c] # "slirp" => \A y \in ToSet(u) : y.cb
  BY <1>1, <1>3 DEF InKind, LineOf, LineAt
<1> HIDE DEF u
<1>6. LineOf(c, g, u, d, {}, hh)
  BY <1>1, <1>2, <1>3, <1>4, <1>5 DEF LineOf
<1>7. HeldIn(g, u, {}) = HeldIn(g, w, {f})
  BY <1>3 DEF HeldIn, IdsIn
<1>8. CountOf(g, u, {}, dr, n)
  BY <1>7 DEF CountOf, CountAt
<1> QED  BY <1>6, <1>8 DEF u

\* It is appended to the queue.
LEMMA LineWait ==
  ASSUME NEW A, Numbered(A), NEW B, Numbered(B), NEW c, NEW g \in Seq(A), NEW w \in Seq(B),
         NEW d, NEW hh, NEW dr, NEW n, NEW f, f.pkt \in B,
         LineAt(c, g, w, d, f), CountAt(g, w, f, dr, n), f.ret = 0, ~f.queued
  PROVE  /\ LineOf(c, g, Append(w, f.pkt), d, {}, hh)
         /\ CountOf(g, Append(w, f.pkt), {}, dr, n)
<1> DEFINE p == f.pkt
           u == Append(w, p)
<1>1. InLine(f, g, w) /\ InKind(f, c, w, d) /\ Rising(g) /\ Rising(w)
      /\ \A y \in ToSet(w) : Before(g, y.id)
  BY DEF LineOf, LineAt
<1>2. Before(g, p.id)
  BY <1>1 DEF InLine
<1>3. p.id \notin IdsIn(g)
  <2>1. ToSet(g) \subseteq A
    BY InList
  <2>2. \A y \in ToSet(g) : y.id < p.id /\ y.id \in Nat
    BY <1>2, <2>1 DEF Before, Numbered
  <2> HIDE DEF p
  <2>3. p.id \in Nat
    BY DEF Numbered, p
  <2> QED  BY <2>2, <2>3 DEF IdsIn
<1>4. Before(w, p.id)
  BY <1>1, <1>3 DEF InLine
<1>5. ToSet(u) = ToSet(w) \cup {p} /\ Rising(u)
  <2> HIDE DEF p
  <2>1. p \in B
    BY DEF p
  <2> QED  BY <1>1, <1>4, <2>1, ListAppend
<1>6. Kind[c] = "slirp" => d = TRUE
  BY <1>1 DEF InKind
<1>7. Kind[c] # "slirp" => \A y \in ToSet(u) : y.cb
  BY <1>1, <1>5 DEF InKind, LineOf, LineAt
<1> HIDE DEF u
<1>8. LineOf(c, g, u, d, {}, hh)
  BY <1>1, <1>2, <1>5, <1>6, <1>7 DEF LineOf
<1>9. HeldIn(g, u, {}) = HeldIn(g, w, {f})
  BY <1>5 DEF HeldIn, IdsIn
<1>10. CountOf(g, u, {}, dr, n)
  BY <1>9 DEF CountOf, CountAt
<1> QED  BY <1>8, <1>10 DEF u

\* The delivery ends: the packet was accepted, or it is dropped.
LEMMA LineEnds ==
  ASSUME NEW c, NEW g, NEW w, NEW d, NEW dr, NEW n, NEW f, NEW lost,
         LineAt(c, g, w, d, f), CountAt(g, w, f, dr, n),
         f.pkt.id \notin IdsIn(w), lost = IF f.pkt.id \in IdsIn(g) THEN {} ELSE {f.pkt.id}
  PROVE  LineOf(c, g, w, d, {}, TRUE) /\ CountOf(g, w, {}, dr \cup lost, n)
<1>1. LineOf(c, g, w, d, {}, TRUE)
  BY DEF LineOf, LineAt
<1>2. HeldIn(g, w, {f}) = IdsIn(g) \cup IdsIn(w) \cup {f.pkt.id}
      /\ HeldIn(g, w, {}) = IdsIn(g) \cup IdsIn(w)
  BY DEF HeldIn
<1>3. CountOf(g, w, {}, dr \cup lost, n)
  BY <1>2 DEF CountOf, CountAt
<1> QED  BY <1>1, <1>3

\* A packet being delivered is not queued.
LEMMA FlightApart ==
  ASSUME NEW A, Numbered(A), NEW B, Numbered(B), NEW c, NEW g \in Seq(A), NEW w \in Seq(B),
         NEW d, NEW f, f.pkt \in B, LineAt(c, g, w, d, f)
  PROVE  f.pkt.id \notin IdsIn(w)
<1>1. InLine(f, g, w) /\ \A p \in ToSet(w) : Before(g, p.id)
  BY DEF LineOf, LineAt
<1>2. f.pkt.id \in Nat /\ (\A y \in ToSet(w) : y.id \in Nat) /\ \A y \in ToSet(g) : y.id \in Nat
  BY InList DEF Numbered
<1>3. CASE f.queued \/ Before(w, f.pkt.id)
  BY <1>1, <1>2, <1>3 DEF InLine, IdsIn, After, Before
<1>4. CASE f.pkt.id \in IdsIn(g)
  <2>1. PICK y \in ToSet(g) : y.id = f.pkt.id
    BY <1>4 DEF IdsIn
  <2> QED  BY <1>1, <1>2, <2>1 DEF IdsIn, Before
<1> QED  BY <1>1, <1>3, <1>4 DEF InLine

\* The first packet is taken from the queue.
LEMMA LineFlush ==
  ASSUME NEW B, Numbered(B), NEW c, NEW g, NEW w \in Seq(B), w # << >>,
         NEW d, NEW dr, NEW n, NEW f, f.pkt = Head(w),
         LineOf(c, g, w, d, {}, TRUE), CountOf(g, w, {}, dr, n),
         f.queued /\ ~f.iov /\ f.pc = "deliver" /\ f.ret = -1,
         f.todo # << >> /\ Tail(f.todo) = << >>,
         \A x \in ToSet(g) : x.id \in Nat
  PROVE  LineAt(c, g, Tail(w), d, f) /\ CountAt(g, Tail(w), f, dr, n)
<1> DEFINE t == Tail(w)
<1>1. Rising(g) /\ Rising(w) /\ \A p \in ToSet(w) : Before(g, p.id)
  BY DEF LineOf
<1>2. /\ t \in Seq(B) /\ f.pkt \in B /\ ToSet(w) = ToSet(t) \cup {f.pkt}
      /\ Rising(t) /\ After(t, f.pkt.id)
  BY <1>1, ListPop
<1> HIDE DEF t
<1>3. Before(g, f.pkt.id) /\ f.pkt.id \in Nat
  BY <1>1, <1>2 DEF Numbered
<1>4. \A x \in ToSet(g) : x.id <= f.pkt.id
  BY <1>3 DEF Before
<1>5. InLine(f, g, t)
  BY <1>2, <1>3, <1>4 DEF InLine
<1>6. InKind(f, c, t, d)
  BY <1>2 DEF InKind, LineOf
<1>7. LineAt(c, g, t, d, f)
  BY <1>1, <1>2, <1>5, <1>6 DEF LineOf, LineAt
<1>8. HeldIn(g, t, {f}) = HeldIn(g, w, {})
  BY <1>2 DEF HeldIn, IdsIn
<1>9. CountAt(g, t, f, dr, n)
  BY <1>8 DEF CountOf, CountAt
<1> QED  BY <1>7, <1>9 DEF t

\* The next packet is sent.
LEMMA LineSend ==
  ASSUME NEW c, NEW g, NEW w, NEW d, NEW dr, NEW n \in Nat, NEW f, f.pkt.id = n + 1,
         LineOf(c, g, w, d, {}, TRUE), CountOf(g, w, {}, dr, n),
         ~f.queued /\ f.pc = "deliver" /\ f.ret = -1,
         f.todo # << >> /\ Tail(f.todo) = << >>,
         Kind[c] = "slirp" => ~f.iov, Kind[c] # "slirp" => f.pkt.cb,
         w = << >> \/ (d = TRUE /\ ~f.iov)
  PROVE  LineAt(c, g, w, d, f) /\ CountAt(g, w, f, dr, n + 1)
<1>1. \A y \in IdsIn(g) \cup IdsIn(w) : y \in 1 .. n
  BY DEF CountOf, HeldIn
<1>0. /\ \A x \in ToSet(g) : x.id \in 1 .. n
      /\ \A x \in ToSet(w) : x.id \in 1 .. n
  <2>1. \A x \in ToSet(g) : x.id \in IdsIn(g)
    BY DEF IdsIn
  <2>2. \A x \in ToSet(w) : x.id \in IdsIn(w)
    BY DEF IdsIn
  <2> QED  BY <1>1, <2>1, <2>2
<1>2. Before(g, n + 1) /\ Before(w, n + 1)
  BY <1>0 DEF Before
<1>3. \A x \in ToSet(g) : x.id <= n + 1
  BY <1>0
<1>4. InLine(f, g, w)
  BY <1>2, <1>3 DEF InLine
<1>5. InKind(f, c, w, d)
  BY DEF InKind
<1>6. LineAt(c, g, w, d, f)
  BY <1>4, <1>5 DEF LineOf, LineAt
<1>7. HeldIn(g, w, {f}) = HeldIn(g, w, {}) \cup {n + 1}
  BY DEF HeldIn
<1>8. 1 .. n + 1 = (1 .. n) \cup {n + 1} /\ n + 1 \notin 1 .. n
  OBVIOUS
<1>9. CountAt(g, w, f, dr, n + 1)
  BY <1>7, <1>8 DEF CountOf, CountAt
<1> QED  BY <1>6, <1>9

\* It is dropped at once.
LEMMA LineDrop ==
  ASSUME NEW g, NEW w, NEW F, NEW dr, NEW n \in Nat, CountOf(g, w, F, dr, n)
  PROVE  CountOf(g, w, F, dr \cup {n + 1}, n + 1)
<1>1. 1 .. n + 1 = (1 .. n) \cup {n + 1} /\ n + 1 \notin 1 .. n
  OBVIOUS
<1> QED  BY <1>1 DEF CountOf, CountAt

\* The queue is purged of them.
LEMMA LinePurge ==
  ASSUME NEW A, Numbered(A), NEW B, Numbered(B), NEW c, NEW g \in Seq(A), NEW w \in Seq(B),
         NEW d, NEW hh, NEW dr, NEW n,
         LineOf(c, g, w, d, {}, TRUE), CountOf(g, w, {}, dr, n)
  PROVE  LineOf(c, g, << >>, d, {}, hh) /\ CountOf(g, << >>, {}, dr \cup IdsIn(w), n)
<1>1. LineOf(c, g, << >>, d, {}, hh)
  BY ListEmpty DEF LineOf
<1>2. HeldIn(g, w, {}) = IdsIn(g) \cup IdsIn(w) /\ HeldIn(g, << >>, {}) = IdsIn(g)
  BY ListEmpty DEF HeldIn
<1>3. IdsIn(g) \cap IdsIn(w) = {}
  <2>1. (\A y \in ToSet(w) : y.id \in Nat) /\ \A y \in ToSet(g) : y.id \in Nat
    BY InList DEF Numbered
  <2>2. \A p \in ToSet(w) : \A y \in ToSet(g) : y.id < p.id
    BY DEF LineOf, Before
  <2> QED  BY <2>1, <2>2 DEF IdsIn
<1>4. CountOf(g, << >>, {}, dr \cup IdsIn(w), n)
  BY <1>2, <1>3 DEF CountOf
<1> QED  BY <1>1, <1>4

----------------------------------------------------------------------------
(* The line of packets between the clients of a pair.                      *)

\* The innermost call goes on as f: only deliveries on its queue change,
LEMMA FlyTop ==
  ASSUME HInv, stack # << >>, NEW f \in AllFrames, SetTop(f), NEW q, q = Top.q, f.q = q
  PROVE  /\ \A r : r # q => Flying(r)' = Flying(r) /\ (Worked(r) => Worked(r)')
         /\ Flying(q)' = IF Busy(f) THEN {f} ELSE {}
         /\ Worked(q)' /\ \A g \in ToSet(stack') : g \in ToSet(stack) \/ g = f
<1>1. ToSet(stack') = {f} \cup Rest /\ ToSet(stack) = {Top} \cup Rest
      /\ \A g \in Rest : Busy(g) => g.q # q
  BY TopSet, RestIs
<1>2. \A r : Flying(r)' = {g \in {f} \cup Rest : Busy(g) /\ g.q = r}
  BY <1>1 DEF Flying, Busy
<1>3. \A r : Flying(r) = {g \in {Top} \cup Rest : Busy(g) /\ g.q = r}
  BY <1>1 DEF Flying
<1>4. \A r : r # q => Flying(r)' = Flying(r)
  BY <1>2, <1>3
<1>5. Flying(q)' = IF Busy(f) THEN {f} ELSE {}
  BY <1>1, <1>2
<1>6. \A r : r # q => (Worked(r) => Worked(r)')
  BY <1>1 DEF Worked
<1> QED  BY <1>1, <1>4, <1>5, <1>6 DEF Worked

\* it returns,
LEMMA FlyPop ==
  ASSUME HInv, stack # << >>, Pop, NEW q, q = Top.q
  PROVE  /\ \A r : r # q => Flying(r)' = Flying(r) /\ (Worked(r) => Worked(r)')
         /\ Flying(q)' = {} /\ \A g \in ToSet(stack') : g \in ToSet(stack)
<1>1. ToSet(stack') = Rest /\ ToSet(stack) = {Top} \cup Rest
      /\ \A g \in Rest : Busy(g) => g.q # q
  BY PopSet, RestIs
<1>2. \A r : Flying(r)' = {g \in Rest : Busy(g) /\ g.q = r}
  BY <1>1 DEF Flying, Busy
<1>3. \A r : Flying(r) = {g \in {Top} \cup Rest : Busy(g) /\ g.q = r}
  BY <1>1 DEF Flying
<1>4. \A r : r # q => Flying(r)' = Flying(r)
  BY <1>2, <1>3
<1>5. \A r : r # q => (Worked(r) => Worked(r)')
  BY <1>1 DEF Worked
<1> QED  BY <1>1, <1>2, <1>4, <1>5

\* or it calls f.
LEMMA FlyPush ==
  ASSUME HInv, NEW f \in AllFrames, Busy(f), stack' = <<f>> \o stack, ~delivering[f.q],
         stack # << >> => HasCalls(Top), NEW q, q = f.q
  PROVE  /\ \A r : r # q => Flying(r)' = Flying(r) /\ (Worked(r) => Worked(r)')
         /\ Flying(q) = {} /\ Flying(q)' = {f} /\ Worked(q)'
         /\ \A g \in ToSet(stack') : g \in ToSet(stack) \/ g = f
<1>1. ToSet(stack') = {f} \cup ToSet(stack)
  BY PushSet
<1>2. \A g \in ToSet(stack) : Busy(g) => g.q # q
  <2>1. stack \in Seq(AllFrames) /\ Turned(stack, delivering)
    BY DEF HInv, Typed, Turns
  <2>2. \A g : g \in ToSet(stack) <=> \E i \in 1 .. Len(stack) : stack[i] = g
    BY <2>1, InList
  <2> QED  BY <2>1, <2>2 DEF Turned
<1>3. \A r : Flying(r)' = {g \in {f} \cup ToSet(stack) : Busy(g) /\ g.q = r}
  BY <1>1 DEF Flying, Busy
<1>4. \A r : r # q => Flying(r)' = Flying(r)
  BY <1>3 DEF Flying
<1>5. Flying(q) = {} /\ Flying(q)' = {f}
  <2>1. Flying(q) = {}
    BY <1>2 DEF Flying
  <2>2. Flying(q)' = {g \in {f} \cup ToSet(stack) : Busy(g) /\ g.q = q}
    BY <1>3
  <2>3. {g \in {f} \cup ToSet(stack) : Busy(g) /\ g.q = q} = {f}
    BY <1>2
  <2> QED  BY <2>1, <2>2, <2>3
<1>6. \A r : r # q => (Worked(r) => Worked(r)')
  BY <1>1 DEF Worked
<1> QED  BY <1>1, <1>4, <1>5, <1>6 DEF Worked

\* The deliveries on the innermost call's queue.
LEMMA FlyNow ==
  ASSUME HInv, stack # << >>
  PROVE  Flying(Top.q) = (IF Busy(Top) THEN {Top} ELSE {}) /\ Worked(Top.q)
<1>1. ToSet(stack) = {Top} \cup Rest /\ \A g \in Rest : Busy(g) => g.q # Top.q
  BY RestIs
<1> QED  BY <1>1 DEF Flying, Worked

\* Packets carry numbers.
LEMMA NumbersAre ==
  ASSUME Typed
  PROVE  /\ Numbered(Packet) /\ Numbered([from : Clients, id : Ids])
         /\ \A q \in Queues : queue[q] \in Seq(Packet)
         /\ \A c \in Clients : got[c] \in Seq([from : Clients, id : Ids])
<1>1. \A n \in Ids : n \in Nat
  BY DEF Typed, Ids
<1>2. Numbered(Packet) /\ Numbered([from : Clients, id : Ids])
  BY <1>1 DEF Numbered, Packet
<1> QED  BY <1>2 DEF Typed

\* A call that is new is of the pair.
CallOK(f) ==
  /\ Busy(f) => Between(f.pkt.from, f.q)
  /\ f.pc = "cb" => Between(f.at, f.q) /\ Kind[f.at] # "slirp"

\* A step that concerns the packets sent to q0 only.
LEMMA PStep ==
  ASSUME HInv, PInv, ~vlan, vlan' = vlan, peers' = peers, NEW q0 \in peers,
         \A g \in ToSet(stack') : g \in ToSet(stack) \/ CallOK(g), Nested',
         \A r : r # q0 => Flying(r)' = Flying(r) /\ (Worked(r) => Worked(r)'),
         \A q \in Queues : q # q0 => queue'[q] = queue[q],
         \A p \in ToSet(queue'[q0]) : Between(p.from, q0),
         \A x \in Clients : x # q0 => got'[x] = got[x] /\ disabled'[x] = disabled[x],
         \A p \in ToSet(got'[q0]) : Between(p.from, q0) \/ p \in ToSet(got[q0]),
         dropped'[q0] = dropped[q0], sent'[q0] = sent[q0],
         \A c \in peers : c # q0 => PairOK(c, q0)'
  PROVE  PInv'
<1>1. /\ peers' = peers /\ vlan' = vlan /\ peers \subseteq Clients
      /\ \A x, y, z \in peers : x = y \/ y = z \/ x = z
  BY DEF HInv, Typed, Pair
<1>2. \A a, b : Between(a, b)' <=> Between(a, b)
  BY <1>1 DEF Between
<1>3. Origins'
  <2>1. ASSUME NEW q \in Queues, NEW p \in ToSet(queue'[q]) PROVE Between(p.from, q)
    <3>1. CASE q = q0
      BY <2>1, <3>1
    <3>2. CASE q # q0
      BY <2>1, <3>2 DEF PInv, Origins
    <3> QED  BY <3>1, <3>2
  <2>2. ASSUME NEW g \in ToSet(stack') PROVE CallOK(g)
    BY <2>2 DEF CallOK, PInv, Origins
  <2>3. ASSUME NEW c \in peers, NEW r \in peers, c # r
        PROVE  /\ Kind[c] # "slirp" \/ Kind[r] # "slirp"
               /\ \A x \in Clients : \A p \in ToSet(got'[x]) : Between(p.from, x)
    <3>1. /\ Kind[c] # "slirp" \/ Kind[r] # "slirp"
          /\ \A x \in Clients : \A p \in ToSet(got[x]) : Between(p.from, x)
      BY <2>3 DEF PInv, Origins
    <3>2. ASSUME NEW x \in Clients, NEW p \in ToSet(got'[x]) PROVE Between(p.from, x)
      <4>1. CASE x = q0
        BY <3>1, <3>2, <4>1
      <4>2. CASE x # q0
        BY <3>1, <3>2, <4>2
      <4> QED  BY <4>1, <4>2
    <3> QED  BY <3>1, <3>2
  <2> QED  BY <1>1, <1>2, <2>1, <2>2, <2>3 DEF Origins, CallOK, Busy
<1>4. ASSUME NEW c \in peers, NEW r \in peers, c # r PROVE PairOK(c, r)'
  <2>1. CASE r = q0
    BY <1>4, <2>1
  <2>2. CASE r # q0
    <3>1. c = q0
      BY <1>1, <1>4, <2>2
    <3>2. PairOK(c, r)
      BY <1>4 DEF PInv
    <3>3. /\ Flying(r)' = Flying(r) /\ (Worked(r) => Worked(r)')
          /\ queue'[r] = queue[r] /\ got'[r] = got[r] /\ disabled'[r] = disabled[r]
      BY <1>1, <2>2 DEF Queues
    <3> DEFINE F == Flying(r)
    <3>4. LineOf(c, got[r], queue[r], disabled[r], F, Worked(r))
          /\ CountOf(got[r], queue[r], F, dropped[c], sent[c])
      BY <3>2 DEF PairOK
    <3> HIDE DEF F
    <3>5. LineOf(c, got[r], queue[r], disabled[r], F, Worked(r)')
      BY <3>3, <3>4 DEF LineOf
    <3> QED  BY <3>1, <3>3, <3>4, <3>5 DEF PairOK, F
  <2> QED  BY <2>1, <2>2
<1> QED  BY <1>1, <1>3, <1>4 DEF PInv

\* The delivery at the top, and the line its packet is in.
LEMMA TopLine ==
  ASSUME HInv, PInv, ~vlan, stack # << >>, Busy(Top)
  PROVE  /\ Top \in Deliveries /\ Top.q \in peers /\ Top.q \in Clients /\ Top.q \in Queues
         /\ Top.pkt \in Packet /\ Between(Top.pkt.from, Top.q) /\ Top.pkt.from \in Clients
         /\ \A x \in peers : x # Top.q => x = Top.pkt.from
         /\ LineAt(Top.pkt.from, got[Top.q], queue[Top.q], disabled[Top.q], Top)
         /\ CountAt(got[Top.q], queue[Top.q], Top, dropped[Top.pkt.from], sent[Top.pkt.from])
         /\ FrameOK(Top) /\ InLine(Top, got[Top.q], queue[Top.q])
<1>1. Top \in AllFrames /\ Top \in ToSet(stack) /\ FrameOK(Top)
  BY RestIs
<1>2. Top \in Deliveries
  BY <1>1, FrameKinds
<1>3. Top.pkt \in Packet /\ Top.q \in peers /\ Top.q \in Queues
  BY <1>1, <1>2 DEF Deliveries, FrameOK
<1>4. Between(Top.pkt.from, Top.q)
  BY <1>1 DEF PInv, Origins
<1>5. peers \subseteq Clients /\ \A x, y, z \in peers : x = y \/ y = z \/ x = z
  BY DEF HInv, Typed, Pair
<1>6. \A x \in peers : x # Top.q => x = Top.pkt.from
  BY <1>4, <1>5 DEF Between
<1>7. PairOK(Top.pkt.from, Top.q)
  BY <1>4 DEF PInv, Between
<1>8. Flying(Top.q) = {Top}
  BY FlyNow
<1>9. LineAt(Top.pkt.from, got[Top.q], queue[Top.q], disabled[Top.q], Top)
      /\ CountAt(got[Top.q], queue[Top.q], Top, dropped[Top.pkt.from], sent[Top.pkt.from])
  BY <1>7, <1>8, FlyNow DEF PairOK, LineAt, CountAt
<1>10. InLine(Top, got[Top.q], queue[Top.q])
  BY <1>9 DEF LineOf, LineAt
<1> QED  BY <1>1, <1>2, <1>3, <1>4, <1>5, <1>6, <1>9, <1>10 DEF Between

\* The pair's line from its parts.
LEMMA PairFrom ==
  ASSUME NEW c, NEW r, NEW F, Flying(r)' = F, Worked(r)',
         LineOf(c, got'[r], queue'[r], disabled'[r], F, TRUE),
         CountOf(got'[r], queue'[r], F, dropped'[c], sent'[c])
  PROVE  PairOK(c, r)'
<1>1. LineOf(c, got'[r], queue'[r], disabled'[r], F, Worked(r)')
  BY DEF LineOf
<1> QED  BY <1>1 DEF PairOK

\* The delivery at the top goes on as e.
LEMMA POn ==
  ASSUME HInv, PInv, ~vlan, Steady, stack # << >>, Busy(Top),
         NEW e \in Deliveries, SetTop(e), e.q = Top.q, e.pkt = Top.pkt,
         UNCHANGED <<queue, dropped, sent>>,
         \A x \in Clients : x # Top.q => got'[x] = got[x] /\ disabled'[x] = disabled[x],
         \A p \in ToSet(got'[Top.q]) : p.from = Top.pkt.from \/ p \in ToSet(got[Top.q]),
         LineAt(Top.pkt.from, got'[Top.q], queue[Top.q], disabled'[Top.q], e),
         CountAt(got'[Top.q], queue[Top.q], e, dropped[Top.pkt.from], sent[Top.pkt.from])
  PROVE  PInv'
<1>1. PICK q0 : q0 = Top.q
  OBVIOUS
<1>2. PICK c : c = Top.pkt.from
  OBVIOUS
<1>3. e \in AllFrames /\ Busy(e)
  BY DEF AllFrames, Deliveries, Busy
<1>4. /\ \A r : r # q0 => Flying(r)' = Flying(r) /\ (Worked(r) => Worked(r)')
      /\ Flying(q0)' = {e} /\ Worked(q0)'
      /\ \A g \in ToSet(stack') : g \in ToSet(stack) \/ g = e
  BY <1>1, <1>3, FlyTop
<1>5. /\ q0 \in peers /\ Between(c, q0) /\ \A x \in peers : x # q0 => x = c
  BY <1>1, <1>2, TopLine
<1>6. Nested'
  BY <1>3, TopSet DEF PInv
<1>7. PairOK(c, q0)'
  <2>1. LineOf(c, got'[q0], queue'[q0], disabled'[q0], {e}, TRUE)
        /\ CountOf(got'[q0], queue'[q0], {e}, dropped'[c], sent'[c])
    BY <1>1, <1>2 DEF LineAt, CountAt
  <2> DEFINE F == {e}
  <2> HIDE DEF F
  <2>2. /\ Flying(q0)' = F /\ Worked(q0)'
        /\ LineOf(c, got'[q0], queue'[q0], disabled'[q0], F, TRUE)
        /\ CountOf(got'[q0], queue'[q0], F, dropped'[c], sent'[c])
    BY <1>4, <2>1 DEF F
  <2> QED  BY <2>2, PairFrom
<1>8. \A p \in ToSet(queue'[q0]) : Between(p.from, q0)
  <2>1. q0 \in Queues
    BY <1>1, TopLine
  <2> QED  BY <2>1 DEF PInv, Origins
<1>9. CallOK(e)
  BY <1>1, <1>2, <1>3, <1>5 DEF CallOK, Busy
<1>10. \A g \in ToSet(stack') : g \in ToSet(stack) \/ CallOK(g)
  BY <1>4, <1>9
<1>11. \A p \in ToSet(got'[q0]) : Between(p.from, q0) \/ p \in ToSet(got[q0])
  BY <1>1, <1>2, <1>5
<1>12. \A x \in peers : x # q0 => PairOK(x, q0)'
  BY <1>5, <1>7
<1>13. \A x \in Clients : x # q0 => got'[x] = got[x] /\ disabled'[x] = disabled[x]
  BY <1>1
<1> QED  BY <1>4, <1>5, <1>6, <1>8, <1>10, <1>11, <1>12, <1>13, PStep
            DEF Steady

\* The receiver is passed over or called.
LEMMA PNextReceiver ==
  ASSUME HInv, PInv, ~vlan, NextReceiver
  PROVE  PInv'
<1>1. PICK e : SetTop(e) /\ Offered(Top, e, Top.todo[1])
  BY OfferedIs
<1>2. Steady /\ UNCHANGED <<queue, dropped, sent, got, disabled>>
  BY DEF NextReceiver, Steady, topoVars, history, queueVars, clientVars
<1>3. stack # << >> /\ Busy(Top)
  BY TopDelivery DEF NextReceiver
<1> DEFINE q == Top.q c == Top.pkt.from
<1>4. /\ LineAt(c, got[q], queue[q], disabled[q], Top)
      /\ CountAt(got[q], queue[q], Top, dropped[c], sent[c])
      /\ FrameOK(Top) /\ InLine(Top, got[q], queue[q]) /\ Top \in Deliveries
  BY <1>3, TopLine
<1>5. Top.todo[1] = q /\ Top.todo # << >> /\ e.todo = << >> /\ Top.ret = -1
  <2>1. Top.todo \in Seq(Clients) /\ Top.todo # << >>
    BY <1>1, <1>4 DEF Deliveries, Offered
  <2>2. 1 \in 1 .. Len(Top.todo)
    BY <2>1, PopIs
  <2> QED  BY <1>1, <1>3, <1>4, <2>1, <2>2 DEF Offered, FrameOK, InLine
<1>6. /\ e \in Deliveries /\ e.q = q /\ e.pkt = Top.pkt /\ e.iov = Top.iov /\ e.queued = Top.queued
      /\ e.pc = "receive" => e.ret = -1 /\ ~(disabled[q] /\ ~Top.iov)
      /\ e.ret = 0 => disabled[q]
  BY <1>1, <1>5 DEF Offered
<1>7. LineAt(c, got[q], queue[q], disabled[q], e)
      /\ CountAt(got[q], queue[q], e, dropped[c], sent[c])
  <2>1. GoesOnAs(Top, e, disabled[q], disabled[q])
    BY <1>5, <1>6 DEF GoesOnAs
  <2> QED  BY <1>4, <2>1, LineOn
<1> QED  BY <1>1, <1>2, <1>3, <1>6, <1>7, POn

\* The receive handler at the top of a pair.
LEMMA PReceive ==
  ASSUME HInv, PInv, ~vlan, AtPc("receive"), NEW len \in {-1, 0, 1}, Return(len)
  PROVE  \E e \in Deliveries :
           /\ SetTop(e) /\ e.q = Top.q /\ e.pkt = Top.pkt /\ e.iov = Top.iov
           /\ e.queued = Top.queued /\ e.todo = << >> /\ Top.todo = << >> /\ e.pc = "deliver"
           /\ e.ret = len /\ Top.at = Top.q /\ stack # << >> /\ Busy(Top) /\ Top.pc = "receive"
<1>1. PICK e : SetTop(e) /\ Returned(Top, e, len)
  BY ReturnedIs
<1>2. stack # << >> /\ Busy(Top) /\ Top.pc = "receive"
  BY TopDelivery
<1>3. FrameOK(Top) /\ InLine(Top, got[Top.q], queue[Top.q])
  BY <1>2, TopLine
<1>4. Top.todo = << >> /\ Top.ret = -1 /\ Top.at = Top.q
  BY <1>2, <1>3 DEF InLine, FrameOK
<1>5. ~(-1 >= 0)
  OBVIOUS
<1> QED  BY <1>1, <1>2, <1>4, <1>5 DEF Returned

\* The packet is accepted.
LEMMA PAccept ==
  ASSUME HInv, PInv, ~vlan, Accept
  PROVE  PInv'
<1> DEFINE q == Top.q c == Top.pkt.from x == [from |-> c, id |-> Top.pkt.id]
           A == [from : Clients, id : Ids]
<1>1. PICK e \in Deliveries :
         /\ SetTop(e) /\ e.q = Top.q /\ e.pkt = Top.pkt /\ e.iov = Top.iov
         /\ e.queued = Top.queued /\ e.todo = << >> /\ Top.todo = << >> /\ e.pc = "deliver"
         /\ e.ret = 1 /\ Top.at = Top.q /\ stack # << >> /\ Busy(Top) /\ Top.pc = "receive"
  BY PReceive DEF Accept
<1>2. /\ Steady /\ UNCHANGED <<queue, dropped, sent, disabled>>
      /\ got' = [got EXCEPT ![Top.at] = Append(@, x)]
  BY DEF Accept, Steady, topoVars, queueVars
<1>3. /\ LineAt(c, got[q], queue[q], disabled[q], Top)
      /\ CountAt(got[q], queue[q], Top, dropped[c], sent[c])
      /\ Top.pkt \in Packet /\ q \in Clients /\ q \in Queues
  BY <1>1, TopLine
<1>4. x \in A /\ x.id = Top.pkt.id /\ x.from = c
  BY <1>3 DEF Packet
<1>5. /\ Numbered(Packet) /\ Numbered(A) /\ queue[q] \in Seq(Packet) /\ got[q] \in Seq(A)
  BY <1>3, NumbersAre DEF HInv
<1> HIDE DEF x, A
<1>6. /\ LineAt(c, Append(got[q], x), queue[q], disabled[q], e)
      /\ CountAt(Append(got[q], x), queue[q], e, dropped[c], sent[c])
  <2>1. /\ Top.pc = "receive" /\ e.pc = "deliver" /\ e.todo = Top.todo /\ e.ret # 0
        /\ e.pkt = Top.pkt /\ e.iov = Top.iov /\ e.queued = Top.queued
    BY <1>1
  <2> QED  BY <1>3, <1>4, <1>5, <2>1, LineAccept
<1>7. got'[q] = Append(got[q], x) /\ \A y \in Clients : y # q => got'[y] = got[y]
  BY <1>1, <1>2, <1>3 DEF HInv, Typed
<1>8. \A p \in ToSet(got'[q]) : p.from = c \/ p \in ToSet(got[q])
  BY <1>4, <1>5, <1>7, ListAppend
<1> QED  BY <1>1, <1>2, <1>6, <1>7, <1>8, POn

\* It is refused.
LEMMA PRefuse ==
  ASSUME HInv, PInv, ~vlan, Refuse
  PROVE  PInv'
<1> DEFINE q == Top.q c == Top.pkt.from
<1>1. PICK e \in Deliveries :
         /\ SetTop(e) /\ e.q = Top.q /\ e.pkt = Top.pkt /\ e.iov = Top.iov
         /\ e.queued = Top.queued /\ e.todo = << >> /\ Top.todo = << >> /\ e.pc = "deliver"
         /\ e.ret = 0 /\ Top.at = Top.q /\ stack # << >> /\ Busy(Top) /\ Top.pc = "receive"
  BY PReceive DEF Refuse
<1>2. /\ Steady /\ UNCHANGED <<queue, dropped, sent, got>>
      /\ disabled' = [disabled EXCEPT ![Top.at] = ~Top.iov \/ @]
  BY DEF Refuse, Steady, topoVars, queueVars
<1>3. /\ LineAt(c, got[q], queue[q], disabled[q], Top)
      /\ CountAt(got[q], queue[q], Top, dropped[c], sent[c])
      /\ q \in Clients
  BY <1>1, TopLine
<1>4. /\ disabled'[q] = (~Top.iov \/ disabled[q])
      /\ \A y \in Clients : y # q => disabled'[y] = disabled[y]
  BY <1>1, <1>2, <1>3 DEF HInv, Typed
<1>5. LineAt(c, got[q], queue[q], disabled'[q], e)
      /\ CountAt(got[q], queue[q], e, dropped[c], sent[c])
  <2>1. disabled[q] => disabled'[q]
    BY <1>4
  <2>2. ~e.iov => disabled'[q]
    BY <1>1, <1>4
  <2>3. GoesOnAs(Top, e, disabled[q], disabled'[q])
    BY <1>1, <2>1, <2>2 DEF GoesOnAs
  <2> QED  BY <1>3, <2>3, LineOn
<1> QED  BY <1>1, <1>2, <1>4, <1>5, POn

\* It is discarded.
LEMMA PDiscard ==
  ASSUME HInv, PInv, ~vlan, Discard
  PROVE  PInv'
<1> DEFINE q == Top.q c == Top.pkt.from
<1>1. PICK e \in Deliveries :
         /\ SetTop(e) /\ e.q = Top.q /\ e.pkt = Top.pkt /\ e.iov = Top.iov
         /\ e.queued = Top.queued /\ e.todo = << >> /\ Top.todo = << >> /\ e.pc = "deliver"
         /\ e.ret = -1 /\ Top.at = Top.q /\ stack # << >> /\ Busy(Top) /\ Top.pc = "receive"
  BY PReceive DEF Discard
<1>2. /\ Steady /\ UNCHANGED <<queue, dropped, sent, got, disabled>>
  BY DEF Discard, Steady, topoVars, queueVars, clientVars, history
<1>3. /\ LineAt(c, got[q], queue[q], disabled[q], Top)
      /\ CountAt(got[q], queue[q], Top, dropped[c], sent[c])
  BY <1>1, TopLine
<1>4. LineAt(c, got[q], queue[q], disabled[q], e)
      /\ CountAt(got[q], queue[q], e, dropped[c], sent[c])
  <2>1. GoesOnAs(Top, e, disabled[q], disabled[q])
    BY <1>1 DEF GoesOnAs
  <2> QED  BY <1>3, <2>1, LineOn
<1> QED  BY <1>1, <1>2, <1>4, POn

\* The same when its queue need not be worked on,
LEMMA PairIs ==
  ASSUME NEW c, NEW r, NEW F, NEW h, Flying(r)' = F, h = Worked(r)',
         LineOf(c, got'[r], queue'[r], disabled'[r], F, h),
         CountOf(got'[r], queue'[r], F, dropped'[c], sent'[c])
  PROVE  PairOK(c, r)'
<1>1. LineOf(c, got'[r], queue'[r], disabled'[r], F, Worked(r)')
  BY DEF LineOf
<1> QED  BY <1>1 DEF PairOK

\* and for one delivery.
LEMMA PairWith ==
  ASSUME NEW c, NEW r, NEW e, Flying(r)' = {e}, Worked(r)',
         LineAt(c, got'[r], queue'[r], disabled'[r], e),
         CountAt(got'[r], queue'[r], e, dropped'[c], sent'[c])
  PROVE  PairOK(c, r)'
<1> DEFINE F == {e}
<1>1. /\ Flying(r)' = F
      /\ LineOf(c, got'[r], queue'[r], disabled'[r], F, TRUE)
      /\ CountOf(got'[r], queue'[r], F, dropped'[c], sent'[c])
  BY DEF LineAt, CountAt
<1> HIDE DEF F
<1> QED  BY <1>1, PairFrom

\* The packet is queued again.
LEMMA PRequeue ==
  ASSUME HInv, PInv, ~vlan, Requeue
  PROVE  PInv'
<1>1. PICK f : f = Top
  OBVIOUS
<1>2. PICK q0 : q0 = Top.q
  OBVIOUS
<1>3. PICK c : c = Top.pkt.from
  OBVIOUS
<1> DEFINE w == queue[q0]
           w2 == IF f.queued THEN <<f.pkt>> \o w ELSE Append(w, f.pkt)
           A == [from : Clients, id : Ids]
           B == Packet
<1>4. stack # << >> /\ Busy(Top) /\ Top.ret = 0
  BY TopDelivery DEF Requeue, AllOffered
<1>5. /\ f.q = q0 /\ f.pkt.from = c /\ q0 \in peers /\ q0 \in Clients /\ q0 \in Queues /\ f.pkt \in B
      /\ Between(c, q0) /\ \A x \in peers : x # q0 => x = c
      /\ LineAt(c, got[q0], w, disabled[q0], f)
      /\ CountAt(got[q0], w, f, dropped[c], sent[c])
  BY <1>1, <1>2, <1>3, <1>4, TopLine
<1>6. /\ Pop /\ Steady /\ UNCHANGED <<got, disabled, dropped, sent>>
      /\ queue' = [queue EXCEPT ![q0] = w2]
  BY <1>1, <1>2 DEF Requeue, Steady, topoVars, history
<1>7. queue'[q0] = w2 /\ \A q \in Queues : q # q0 => queue'[q] = queue[q]
  BY <1>5, <1>6 DEF HInv, Typed
<1>8. /\ \A r : r # q0 => Flying(r)' = Flying(r) /\ (Worked(r) => Worked(r)')
      /\ Flying(q0)' = {} /\ \A g \in ToSet(stack') : g \in ToSet(stack)
  BY <1>2, <1>4, <1>6, FlyPop
<1>9. Nested'
  BY <1>4, <1>6, PopSet DEF PInv
<1>10. Numbered(A) /\ Numbered(B) /\ w \in Seq(B) /\ got[q0] \in Seq(A)
  BY <1>5, NumbersAre DEF HInv
<1>11. PICK h : h = Worked(q0)'
  OBVIOUS
<1> HIDE DEF A, B, w
<1>12. /\ LineOf(c, got[q0], w2, disabled[q0], {}, h)
       /\ CountOf(got[q0], w2, {}, dropped[c], sent[c])
       /\ ToSet(w2) = ToSet(w) \cup {f.pkt}
  <2>0. f.ret = 0
    BY <1>1, <1>4
  <2>1. CASE f.queued
    <3>1. w2 = <<f.pkt>> \o w
      BY <2>1
    <3>2. /\ LineOf(c, got[q0], <<f.pkt>> \o w, disabled[q0], {}, h)
          /\ CountOf(got[q0], <<f.pkt>> \o w, {}, dropped[c], sent[c])
      BY <1>5, <1>10, <2>0, <2>1, LineBack
    <3>3. ToSet(<<f.pkt>> \o w) = ToSet(w) \cup {f.pkt}
      BY <1>5, <1>10, ListPush
    <3> QED  BY <3>1, <3>2, <3>3
  <2>2. CASE ~f.queued
    <3>1. w2 = Append(w, f.pkt)
      BY <2>2
    <3>2. /\ LineOf(c, got[q0], Append(w, f.pkt), disabled[q0], {}, h)
          /\ CountOf(got[q0], Append(w, f.pkt), {}, dropped[c], sent[c])
      BY <1>5, <1>10, <2>0, <2>2, LineWait
    <3>3. ToSet(Append(w, f.pkt)) = ToSet(w) \cup {f.pkt}
      BY <1>5, <1>10, ListAppend
    <3> QED  BY <3>1, <3>2, <3>3
  <2> QED  BY <2>1, <2>2
<1> HIDE DEF w2
<1>13. PairOK(c, q0)'
  BY <1>6, <1>7, <1>8, <1>11, <1>12, PairIs
<1>14. \A x \in peers : x # q0 => PairOK(x, q0)'
  BY <1>5, <1>13
<1>15. \A p \in ToSet(queue'[q0]) : Between(p.from, q0)
  <2>1. \A p \in ToSet(w) : Between(p.from, q0)
    BY <1>5 DEF PInv, Origins, w
  <2> QED  BY <1>5, <1>7, <1>12, <2>1
<1> QED  BY <1>5, <1>6, <1>7, <1>8, <1>9, <1>14, <1>15, PStep DEF Steady

\* Whether the packet of a delivery was accepted.
LEMMA TakenIs ==
  ASSUME HInv, PInv, ~vlan, NEW f \in Deliveries, NEW c, c = f.pkt.from, NEW r, Between(c, r)
  PROVE  Taken(f) <=> f.pkt.id \in IdsIn(got[r])
<1>1. peers \subseteq Clients /\ \A x, y, z \in peers : x = y \/ y = z \/ x = z
  BY DEF HInv, Typed, Pair
<1>2. \A x \in Clients : \A p \in ToSet(got[x]) : Between(p.from, x)
  BY DEF PInv, Origins, Between
<1>3. r \in Clients
  BY <1>1 DEF Between
<1> DEFINE A == [from : Clients, id : Ids]
           y == [from |-> f.pkt.from, id |-> f.pkt.id]
<1>4. \A x \in Clients : \A p \in ToSet(got[x]) : p \in A
  <2>1. \A x \in Clients : got[x] \in Seq(A)
    BY DEF HInv, Typed
  <2> HIDE DEF A
  <2> QED  BY <2>1, InList
<1>5. y.from = c /\ y.id = f.pkt.id
  OBVIOUS
<1>6. \A p \in A : p.from = c /\ p.id = f.pkt.id => p = y
  OBVIOUS
<1> HIDE DEF A, y
<1>7. ASSUME NEW x \in Clients, y \in ToSet(got[x]) PROVE f.pkt.id \in IdsIn(got[r])
  <2>1. Between(c, x)
    BY <1>2, <1>5, <1>7
  <2>2. x = r
    BY <1>1, <2>1 DEF Between
  <2> QED  BY <1>5, <1>7, <2>2 DEF IdsIn
<1>8. ASSUME f.pkt.id \in IdsIn(got[r]) PROVE y \in ToSet(got[r])
  <2>1. PICK p \in ToSet(got[r]) : p.id = f.pkt.id
    BY <1>8 DEF IdsIn
  <2>2. p \in A /\ Between(p.from, r)
    BY <1>2, <1>3, <1>4
  <2>3. p.from = c
    BY <1>1, <2>2 DEF Between
  <2> QED  BY <1>6, <2>1, <2>2, <2>3
<1>9. Taken(f) <=> \E x \in Clients : y \in ToSet(got[x])
  BY DEF Taken, y
<1> QED  BY <1>3, <1>7, <1>8, <1>9

\* It was accepted, or it is dropped.
LEMMA PDelivered ==
  ASSUME IInv, PInv, ~vlan, Delivered
  PROVE  PInv'
<1>0. HInv
  BY DEF IInv
<1>1. PICK f : f = Top
  OBVIOUS
<1>2. PICK q0 : q0 = Top.q
  OBVIOUS
<1>3. PICK c : c = Top.pkt.from
  OBVIOUS
<1> DEFINE w == queue[q0]
           A == [from : Clients, id : Ids]
           B == Packet
           lost == IF f.pkt.id \in IdsIn(got[q0]) THEN {} ELSE {f.pkt.id}
<1>4. stack # << >> /\ Busy(Top) /\ Top \in Deliveries
  BY <1>0, TopDelivery DEF Delivered, AllOffered
<1>5. /\ f.q = q0 /\ f.pkt.from = c /\ q0 \in peers /\ q0 \in Clients /\ q0 \in Queues /\ f.pkt \in B
      /\ Between(c, q0) /\ c \in Clients /\ \A x \in peers : x # q0 => x = c
      /\ LineAt(c, got[q0], w, disabled[q0], f)
      /\ CountAt(got[q0], w, f, dropped[c], sent[c])
  BY <1>0, <1>1, <1>2, <1>3, <1>4, TopLine
<1>6. PICK e \in AllFrames :
        /\ SetTop(e) /\ ~Busy(e) /\ e.q = Top.q
        /\ e.pc = "cb" => e.at = Top.pkt.from /\ Top.queued /\ Top.pkt.cb
  BY <1>0, DeliveredIs
<1>7. /\ Steady /\ UNCHANGED <<got, disabled, queue, sent>>
      /\ dropped' = [dropped EXCEPT ![c] = @ \cup (IF Taken(f) THEN {} ELSE {f.pkt.id})]
  BY <1>1, <1>3 DEF Delivered, Steady, topoVars
<1>8. Taken(f) <=> f.pkt.id \in IdsIn(got[q0])
  BY <1>0, <1>1, <1>4, <1>5, TakenIs
<1>9. dropped'[c] = dropped[c] \cup lost /\ \A x \in Clients : x # c => dropped'[x] = dropped[x]
  BY <1>0, <1>5, <1>7, <1>8 DEF HInv, Typed
<1>10. /\ \A r : r # q0 => Flying(r)' = Flying(r) /\ (Worked(r) => Worked(r)')
       /\ Flying(q0)' = {} /\ Worked(q0)'
       /\ \A g \in ToSet(stack') : g \in ToSet(stack) \/ g = e
  BY <1>0, <1>2, <1>4, <1>6, FlyTop
<1>11. Nested'
  BY <1>0, <1>4, <1>6, TopSet DEF PInv
<1>12. Numbered(A) /\ Numbered(B) /\ w \in Seq(B) /\ got[q0] \in Seq(A)
  BY <1>0, <1>5, NumbersAre DEF HInv
<1> HIDE DEF A, B, w, lost
<1>13. /\ LineOf(c, got[q0], w, disabled[q0], {}, TRUE)
       /\ CountOf(got[q0], w, {}, dropped[c] \cup lost, sent[c])
  <2>1. f.pkt.id \notin IdsIn(w)
    BY <1>5, <1>12, FlightApart
  <2>2. lost = IF f.pkt.id \in IdsIn(got[q0]) THEN {} ELSE {f.pkt.id}
    BY DEF lost
  <2> QED  BY <1>5, <2>1, <2>2, LineEnds
<1>14. PairOK(c, q0)'
  BY <1>7, <1>9, <1>10, <1>13, PairFrom DEF w
<1>15. \A x \in peers : x # q0 => PairOK(x, q0)'
  BY <1>5, <1>14
<1>16. CallOK(e)
  <2>1. ASSUME e.pc = "cb" PROVE Between(e.at, e.q) /\ Kind[e.at] # "slirp"
    <3>1. e.at = c /\ e.q = q0 /\ CallFor(Top, c)
      BY <1>2, <1>3, <1>4, <1>6, <2>1 DEF CallFor, Owed
    <3>2. Top = stack[1] /\ 1 \in 1 .. Len(stack)
      <4>1. Top = stack[1] /\ Len(stack) \in Nat \ {0}
        BY <1>0, <1>4, TopFrame DEF HInv, AtPc, Idle
      <4> QED  BY <4>1
    <3>3. Waits(queue, stack, c, waiting[c], Targets(c), deleted = {})
      BY <1>5 DEF IInv, ClientOK
    <3>4. q0 \in Targets(c)
      BY <1>2, <3>1, <3>2, <3>3 DEF Waits
    <3> QED  BY <1>5, <3>1, <3>4 DEF Targets
  <2> QED  BY <1>6, <2>1 DEF CallOK
<1>17. \A g \in ToSet(stack') : g \in ToSet(stack) \/ CallOK(g)
  BY <1>10, <1>16
<1>18. \A p \in ToSet(queue'[q0]) : Between(p.from, q0)
  BY <1>5, <1>7 DEF PInv, Origins
<1>19. dropped'[q0] = dropped[q0]
  BY <1>5, <1>9 DEF Between
<1> QED  BY <1>0, <1>5, <1>7, <1>10, <1>11, <1>15, <1>17, <1>18, <1>19, PStep DEF Steady

\* A call that does not deliver, and the line of packets to its client.
LEMMA TopOther ==
  ASSUME HInv, PInv, ~vlan, stack # << >>, ~Busy(Top), NEW q0, q0 = Top.q
  PROVE  /\ q0 \in peers /\ q0 \in Clients /\ q0 \in Queues
         /\ \A p \in ToSet(queue[q0]) : Between(p.from, q0)
         /\ \A c \in peers : c # q0 =>
              /\ LineOf(c, got[q0], queue[q0], disabled[q0], {}, TRUE)
              /\ CountOf(got[q0], queue[q0], {}, dropped[c], sent[c])
<1>1. FrameOK(Top)
  BY RestIs
<1>2. q0 \in peers /\ q0 \in Clients /\ q0 \in Queues
  BY <1>1 DEF FrameOK, HInv, Typed, Queues
<1>3. ASSUME NEW c \in peers, c # q0
      PROVE  /\ LineOf(c, got[q0], queue[q0], disabled[q0], {}, TRUE)
             /\ CountOf(got[q0], queue[q0], {}, dropped[c], sent[c])
  <2>1. PairOK(c, q0)
    BY <1>2, <1>3 DEF PInv
  <2>2. Flying(q0) = {} /\ Worked(q0)
    BY FlyNow
  <2>3. LineOf(c, got[q0], queue[q0], disabled[q0], {}, Worked(q0))
        /\ CountOf(got[q0], queue[q0], {}, dropped[c], sent[c])
    BY <2>1, <2>2 DEF PairOK
  <2> QED  BY <2>2, <2>3 DEF LineOf
<1>4. \A p \in ToSet(queue[q0]) : Between(p.from, q0)
  BY <1>2 DEF PInv, Origins
<1> QED  BY <1>2, <1>3, <1>4

\* The callback returns.
LEMMA PCallback ==
  ASSUME HInv, PInv, ~vlan, CallbackReturns
  PROVE  PInv'
<1>1. PICK q0 : q0 = Top.q
  OBVIOUS
<1>2. PICK e \in AllFrames : SetTop(e) /\ e.pc = "flush" /\ e.q = Top.q
  BY CallbackIs
<1>3. /\ stack # << >> /\ ~Busy(Top) /\ ~Busy(e) /\ CallOK(e)
      /\ Steady /\ UNCHANGED <<queue, got, disabled, dropped, sent>>
  BY <1>2 DEF CallbackReturns, AtPc, Idle, Busy, CallOK, Steady, topoVars, queueVars, clientVars,
              history
<1>4. /\ \A r : r # q0 => Flying(r)' = Flying(r) /\ (Worked(r) => Worked(r)')
      /\ Flying(q0)' = {} /\ Worked(q0)'
      /\ \A g \in ToSet(stack') : g \in ToSet(stack) \/ g = e
  BY <1>1, <1>2, <1>3, FlyTop
<1>5. Nested'
  BY <1>2, <1>3, TopSet DEF PInv
<1>6. /\ q0 \in peers /\ q0 \in Clients /\ \A p \in ToSet(queue[q0]) : Between(p.from, q0)
      /\ \A c \in peers : c # q0 =>
              /\ LineOf(c, got[q0], queue[q0], disabled[q0], {}, TRUE)
              /\ CountOf(got[q0], queue[q0], {}, dropped[c], sent[c])
  BY <1>1, <1>3, TopOther
<1>7. \A c \in peers : c # q0 => PairOK(c, q0)'
  BY <1>3, <1>4, <1>6, PairFrom
<1>8. \A g \in ToSet(stack') : g \in ToSet(stack) \/ CallOK(g)
  BY <1>3, <1>4
<1> QED  BY <1>3, <1>4, <1>5, <1>6, <1>7, <1>8, PStep DEF Steady

\* The first packet of the queue is delivered.
LEMMA PFlushNext ==
  ASSUME HInv, PInv, ~vlan, FlushNext
  PROVE  PInv'
<1>1. PICK q0 : q0 = Top.q
  OBVIOUS
<1> DEFINE w == queue[q0]
           B == Packet
<1>2. PICK e \in Deliveries :
           /\ SetTop(e) /\ e.q = q0 /\ e.pkt = Head(w) /\ ~e.iov /\ e.queued
           /\ e.pc = "deliver" /\ e.ret = -1 /\ e.todo = <<e.q>>
  BY <1>1, FlushNextIs
<1>3. /\ stack # << >> /\ ~Busy(Top) /\ w # << >>
      /\ Steady /\ UNCHANGED <<got, disabled, dropped, sent>>
      /\ queue' = [queue EXCEPT ![q0] = Tail(w)]
  BY <1>1 DEF FlushNext, AtPc, Idle, Busy, Steady, topoVars, clientVars, history
<1>4. e \in AllFrames /\ Busy(e)
  BY <1>2 DEF AllFrames, Busy
<1>5. /\ \A r : r # q0 => Flying(r)' = Flying(r) /\ (Worked(r) => Worked(r)')
      /\ Flying(q0)' = {e} /\ Worked(q0)'
      /\ \A g \in ToSet(stack') : g \in ToSet(stack) \/ g = e
  BY <1>1, <1>2, <1>3, <1>4, FlyTop
<1>6. Nested'
  BY <1>2, <1>3, <1>4, TopSet DEF PInv
<1>7. /\ q0 \in peers /\ q0 \in Clients /\ q0 \in Queues
      /\ \A p \in ToSet(w) : Between(p.from, q0)
      /\ \A c \in peers : c # q0 =>
              /\ LineOf(c, got[q0], w, disabled[q0], {}, TRUE)
              /\ CountOf(got[q0], w, {}, dropped[c], sent[c])
  BY <1>1, <1>3, TopOther
<1>8. queue'[q0] = Tail(w) /\ \A q \in Queues : q # q0 => queue'[q] = queue[q]
  BY <1>3, <1>7 DEF HInv, Typed
<1>9. Numbered(B) /\ w \in Seq(B) /\ \A x \in ToSet(got[q0]) : x.id \in Nat
  <2> DEFINE A == [from : Clients, id : Ids]
  <2>1. Numbered(A) /\ Numbered(B) /\ w \in Seq(B) /\ got[q0] \in Seq(A)
    BY <1>7, NumbersAre DEF HInv
  <2> HIDE DEF A
  <2>2. ToSet(got[q0]) \subseteq A
    BY <2>1, InList
  <2> QED  BY <2>1, <2>2 DEF Numbered
<1> HIDE DEF w, B
<1>10. e.todo # << >> /\ Tail(e.todo) = << >>
  BY <1>2
<1>11. ASSUME NEW c \in peers, c # q0 PROVE PairOK(c, q0)'
  <2>1. /\ LineOf(c, got[q0], w, disabled[q0], {}, TRUE)
        /\ CountOf(got[q0], w, {}, dropped[c], sent[c])
    BY <1>7, <1>11
  <2>2. LineAt(c, got[q0], Tail(w), disabled[q0], e)
        /\ CountAt(got[q0], Tail(w), e, dropped[c], sent[c])
    BY <1>2, <1>3, <1>9, <1>10, <2>1, LineFlush
  <2> QED  BY <1>3, <1>5, <1>8, <2>2, PairWith
<1>12. ToSet(w) = ToSet(Tail(w)) \cup {Head(w)}
  BY <1>3, <1>9, ListPop
<1>13. \A p \in ToSet(queue'[q0]) : Between(p.from, q0)
  BY <1>7, <1>8, <1>12
<1>14. CallOK(e)
  BY <1>2, <1>7, <1>12 DEF CallOK
<1>15. \A g \in ToSet(stack') : g \in ToSet(stack) \/ CallOK(g)
  BY <1>5, <1>14
<1> QED  BY <1>3, <1>5, <1>6, <1>7, <1>8, <1>11, <1>13, <1>15, PStep DEF Steady

\* The flush ends.
LEMMA PFlushEnds ==
  ASSUME HInv, PInv, ~vlan, FlushEnds
  PROVE  PInv'
<1>1. PICK q0 : q0 = Top.q
  OBVIOUS
<1>2. /\ stack # << >> /\ ~Busy(Top) /\ Pop /\ queue[q0] = << >>
      /\ Steady /\ UNCHANGED <<queue, got, disabled, dropped, sent>>
  BY <1>1 DEF FlushEnds, AtPc, Idle, Busy, Steady, topoVars, queueVars, clientVars, history
<1>3. /\ \A r : r # q0 => Flying(r)' = Flying(r) /\ (Worked(r) => Worked(r)')
      /\ Flying(q0)' = {} /\ \A g \in ToSet(stack') : g \in ToSet(stack)
  BY <1>1, <1>2, FlyPop
<1>4. Nested'
  BY <1>2, PopSet DEF PInv
<1>5. /\ q0 \in peers /\ q0 \in Clients /\ \A p \in ToSet(queue[q0]) : Between(p.from, q0)
      /\ \A c \in peers : c # q0 =>
              /\ LineOf(c, got[q0], queue[q0], disabled[q0], {}, TRUE)
              /\ CountOf(got[q0], queue[q0], {}, dropped[c], sent[c])
  BY <1>1, <1>2, TopOther
<1>6. PICK h : h = Worked(q0)'
  OBVIOUS
<1>7. ASSUME NEW c \in peers, c # q0 PROVE PairOK(c, q0)'
  <2>1. LineOf(c, got[q0], queue[q0], disabled[q0], {}, h)
    BY <1>2, <1>5, <1>7 DEF LineOf
  <2>2. CountOf(got[q0], queue[q0], {}, dropped[c], sent[c])
    BY <1>5, <1>7
  <2> QED  BY <1>2, <1>3, <1>6, <2>1, <2>2, PairIs
<1> QED  BY <1>2, <1>3, <1>4, <1>5, <1>7, PStep DEF Steady

\* A step that moves no packet.
LEMMA PStay ==
  ASSUME PInv, ~vlan, UNCHANGED <<vlan, peers, stack, queue, got, disabled>>,
         \A c, r \in peers : c # r => CountOf(got[r], queue[r], Flying(r), dropped'[c], sent'[c])
  PROVE  PInv'
<1>1. Origins'
  <2>1. \A a, b : Between(a, b)' <=> Between(a, b)
    BY DEF Between
  <2> QED  BY <2>1 DEF PInv, Origins, Busy
<1>2. Nested'
  BY DEF PInv, Nested, HasCalls
<1>3. \A r : Flying(r)' = Flying(r) /\ (Worked(r)' <=> Worked(r))
  BY DEF Flying, Worked, Busy
<1>4. ASSUME NEW c \in peers, NEW r \in peers, c # r PROVE PairOK(c, r)'
  <2> DEFINE F == Flying(r)
  <2>1. LineOf(c, got[r], queue[r], disabled[r], F, Worked(r))
        /\ CountOf(got[r], queue[r], F, dropped'[c], sent'[c])
    BY <1>4 DEF PInv, PairOK
  <2>2. Flying(r)' = F
    BY <1>3
  <2> HIDE DEF F
  <2>3. LineOf(c, got[r], queue[r], disabled[r], F, Worked(r)')
    BY <1>3, <2>1 DEF LineOf
  <2> QED  BY <2>1, <2>2, <2>3 DEF PairOK
<1> QED  BY <1>1, <1>2, <1>4 DEF PInv

\* Nothing is sent or lost.
LEMMA PSame ==
  ASSUME PInv, ~vlan, UNCHANGED <<vlan, peers, stack, queue, got, disabled, dropped, sent>>
  PROVE  PInv'
<1>1. \A c, r \in peers : c # r => CountOf(got[r], queue[r], Flying(r), dropped[c], sent[c])
  BY DEF PInv, PairOK
<1> QED  BY <1>1, PStay

\* A packet is sent and dropped.
LEMMA PSendDropped ==
  ASSUME HInv, PInv, ~vlan, NEW c \in Clients, SendDropped(c)
  PROVE  PInv'
<1>1. /\ UNCHANGED <<vlan, peers, stack, queue, got, disabled>>
      /\ sent' = [sent EXCEPT ![c] = @ + 1]
      /\ dropped' = [dropped EXCEPT ![c] = @ \cup {sent[c] + 1}]
  BY DEF SendDropped, topoVars, queueVars, clientVars
<1>2. /\ sent[c] \in Nat /\ sent'[c] = sent[c] + 1 /\ dropped'[c] = dropped[c] \cup {sent[c] + 1}
      /\ \A x \in Clients : x # c => sent'[x] = sent[x] /\ dropped'[x] = dropped[x]
  BY <1>1 DEF HInv, Typed
<1>3. ASSUME NEW x \in peers, NEW r \in peers, x # r
      PROVE  CountOf(got[r], queue[r], Flying(r), dropped'[x], sent'[x])
  <2>1. CountOf(got[r], queue[r], Flying(r), dropped[x], sent[x]) /\ x \in Clients
    BY <1>3 DEF PInv, PairOK, HInv, Typed
  <2> DEFINE F == Flying(r)
  <2>2. CountOf(got[r], queue[r], F, dropped[x], sent[x])
    BY <2>1
  <2> HIDE DEF F
  <2>3. CountOf(got[r], queue[r], F, dropped'[x], sent'[x])
    <3>1. CASE x = c
      BY <1>2, <2>2, <3>1, LineDrop
    <3>2. CASE x # c
      BY <1>2, <2>1, <2>2, <3>2
    <3> QED  BY <3>1, <3>2
  <2> QED  BY <2>3 DEF F
<1> QED  BY <1>1, <1>3, PStay

\* No calls are in progress.
LEMMA NoCalls ==
  ASSUME stack = << >>
  PROVE  ToSet(stack) = {} /\ \A r : Flying(r) = {} /\ ~Worked(r)
<1>1. ToSet(stack) = {}
  BY DEF ToSet
<1> QED  BY <1>1 DEF Flying, Worked

\* A client flushes its queue.
LEMMA PFlush ==
  ASSUME HInv, PInv, ~vlan, NEW c \in Clients, qemu_flush_queued_packets(c)
  PROVE  PInv'
<1> DEFINE f == Flushing(OwnQueue(c))
<1>1. /\ Steady /\ stack = << >> /\ c \in ToSet(order) /\ stack' = <<f>>
      /\ UNCHANGED <<queue, got, dropped, sent>>
      /\ disabled' = [disabled EXCEPT ![c] = FALSE]
  BY DEF qemu_flush_queued_packets, Steady, topoVars, queueVars, history, Idle
<1>2. f.pc = "flush" /\ f.q = c
  BY DEF Flushing, OwnQueue
<1> HIDE DEF f
<1>3. ToSet(stack') = {f} /\ Len(stack') = 1
  <2>1. stack' \in Seq({f}) /\ Len(stack') = 1 /\ stack'[1] = f
    BY <1>1
  <2>2. ToSet(stack') \subseteq {f} /\ (f \in ToSet(stack') <=> \E i \in 1 .. Len(stack') : stack'[i] = f)
    BY <2>1, InList
  <2>3. 1 \in 1 .. Len(stack')
    BY <2>1
  <2> QED  BY <2>1, <2>2, <2>3
<1>4. \A r : Flying(r) = {} /\ ~Worked(r)
  BY <1>1, NoCalls
<1>5. (\A r : Flying(r)' = {}) /\ Worked(c)'
  BY <1>2, <1>3 DEF Flying, Worked, Busy
<1>6. Nested'
  <2>1. 2 .. Len(stack') = {}
    BY <1>3
  <2> QED  BY <2>1 DEF Nested
<1>7. CallOK(f)
  BY <1>2 DEF CallOK, Busy
<1>8. c \in peers /\ c \in Queues
  BY <1>1 DEF HInv, Pair, Queues
<1>9. \A x \in Clients : x # c => disabled'[x] = disabled[x]
  BY <1>1 DEF HInv, Typed
<1>10. ASSUME NEW x \in peers, x # c PROVE PairOK(x, c)'
  <2>1. PairOK(x, c)
    BY <1>8, <1>10 DEF PInv
  <2>2. LineOf(x, got[c], queue[c], disabled[c], {}, Worked(c))
        /\ CountOf(got[c], queue[c], {}, dropped[x], sent[x])
    BY <1>4, <2>1 DEF PairOK
  <2>3. LineOf(x, got[c], queue[c], disabled'[c], {}, TRUE)
    BY <2>2 DEF LineOf
  <2> QED  BY <1>1, <1>5, <2>2, <2>3, PairFrom
<1>11. \A p \in ToSet(queue[c]) : Between(p.from, c)
  BY <1>8 DEF PInv, Origins
<1> QED  BY <1>1, <1>3, <1>4, <1>5, <1>6, <1>7, <1>8, <1>9, <1>10, <1>11, PStep DEF Steady

\* In a pair no delivery is in progress to the client that a packet is sent to, and
\* nothing of slirp's is worked on where it sends to.
LEMMA SendApart ==
  ASSUME HInv, Marked, PInv, ~vlan, NEW c \in Clients, MaySend(c), NEW r, Between(c, r)
  PROVE  ~delivering[r] /\ (Kind[c] = "slirp" => ~Worked(r))
<1>1. peers \subseteq Clients /\ \A x, y, z \in peers : x = y \/ y = z \/ x = z
  BY DEF HInv, Typed, Pair
<1>2. Kind[c] # "slirp" \/ Kind[r] # "slirp"
  BY DEF PInv, Origins, Between
<1>3. r \in Queues
  BY <1>1 DEF Between, Queues
<1>4. delivering[r] => \E f \in ToSet(stack) : Busy(f) /\ f.q = r
  BY <1>3 DEF Marked
<1>5. CASE Idle
  BY <1>4, <1>5, NoCalls DEF Idle, Worked
<1>6. CASE ~Idle
  <2>1. stack # << >>
    BY <1>6 DEF Idle
  <2>2. /\ ToSet(stack) = {Top} \cup Rest
        /\ \A g \in Rest : Busy(g) => g.q # Top.q
        /\ \A g \in ToSet(stack) : FrameOK(g)
        /\ \A g \in Rest : HasCalls(g)
    BY <2>1, RestIs DEF PInv
  <2>3. \A g \in ToSet(stack) : g.pc = "receive" => g.at = g.q
    BY <2>2 DEF FrameOK
  <2>4. \A g \in ToSet(stack) : g.pc = "cb" => Between(g.at, g.q) /\ Kind[g.at] # "slirp"
    BY DEF PInv, Origins
  <2>5. CASE Top.pc = "receive" /\ Kind[c] = "slirp" /\ Top.at = c
    <3>1. Top.q = c /\ r # c
      BY <2>2, <2>3, <2>5 DEF Between
    <3>2. ASSUME NEW g \in ToSet(stack), g.q = r PROVE FALSE
      <4>1. g \in Rest /\ HasCalls(g)
        BY <2>2, <3>1, <3>2
      <4>2. CASE g.pc = "receive" /\ Kind[g.at] = "slirp"
        BY <1>2, <2>3, <2>5, <3>2, <4>2
      <4>3. CASE g.pc = "cb"
        <5>1. Between(g.at, r) /\ Kind[g.at] # "slirp"
          BY <2>4, <3>2, <4>3
        <5>2. g.at = c
          BY <1>1, <5>1 DEF Between
        <5> QED  BY <2>5, <5>1, <5>2
      <4> QED  BY <4>1, <4>2, <4>3 DEF HasCalls
    <3> QED  BY <1>4, <3>2 DEF Worked
  <2>6. CASE Top.pc = "cb" /\ Virtio(c) /\ Top.at = c
    <3>1. Top.q = r
      BY <1>1, <2>2, <2>4, <2>6 DEF Between
    <3>2. ~Busy(Top)
      BY <2>6 DEF Busy
    <3>3. ~ \E f \in ToSet(stack) : Busy(f) /\ f.q = r
      BY <2>2, <3>1, <3>2
    <3> QED  BY <1>4, <2>6, <3>3 DEF Virtio
  <2> QED  BY <1>6, <2>5, <2>6 DEF MaySend, AtPc
<1> QED  BY <1>5, <1>6

\* What waits when a client sends: nothing, or slirp's packets to one that refuses.
LEMMA SendFinds ==
  ASSUME IInv, Marked, PInv, ~vlan, NEW c \in Clients, MaySend(c), NEW r, Between(c, r)
  PROVE  queue[r] = << >> \/ (disabled[r] = TRUE /\ ~Virtio(c))
<1>1. peers \subseteq Clients /\ \A x, y, z \in peers : x = y \/ y = z \/ x = z
  BY DEF IInv, HInv, Typed, Pair
<1>2. r \in Queues /\ r \in Clients
  BY <1>1 DEF Between, Queues
<1>3. PairOK(c, r)
  BY DEF PInv, Between
<1>4. CASE Kind[c] = "slirp"
  <2>1. ~Worked(r)
    BY <1>4, SendApart DEF IInv
  <2> QED  BY <1>3, <1>4, <2>1 DEF PairOK, LineOf, Virtio
<1>5. CASE Kind[c] # "slirp"
  <2>1. \A p \in ToSet(queue[r]) : p.cb
    BY <1>3, <1>5 DEF PairOK, LineOf
  <2>2. \A p \in ToSet(queue[r]) : Between(p.from, r)
    BY <1>2 DEF PInv, Origins
  <2>3. \A p \in ToSet(queue[r]) : p.from = c
    BY <1>1, <2>2 DEF Between
  <2>4. ~waiting[c] /\ Waits(queue, stack, c, waiting[c], Targets(c), deleted = {})
    BY DEF MaySend, IInv, ClientOK
  <2>5. \A i \in 1 .. Len(queue[r]) : ~Owed(queue[r][i], c)
    BY <1>2, <2>4 DEF Waits
  <2>6. queue[r] \in Seq(Packet)
    BY <1>2 DEF IInv, HInv, Typed
  <2> DEFINE P == Packet
  <2>7. queue[r] \in Seq(P)
    BY <2>6
  <2> HIDE DEF P
  <2>8. \A x : x \in ToSet(queue[r]) <=> \E i \in 1 .. Len(queue[r]) : queue[r][i] = x
    BY <2>7, InList
  <2>9. ASSUME queue[r] # << >> PROVE FALSE
    <3>1. Len(queue[r]) \in Nat \ {0}
      BY <2>7, <2>9, PopIs
    <3>2. 1 \in 1 .. Len(queue[r])
      BY <3>1
    <3>3. queue[r][1] \in ToSet(queue[r])
      BY <2>8, <3>2
    <3> QED  BY <2>1, <2>3, <2>5, <3>2, <3>3 DEF Owed
  <2> QED  BY <2>9
<1> QED  BY <1>4, <1>5

\* A packet is sent.
LEMMA PSend ==
  ASSUME IInv, Marked, PInv, ~vlan, NEW c \in Clients, Send(c)
  PROVE  PInv'
<1>0. HInv
  BY DEF IInv
<1>1. PICK q0 : q0 = SendQueue(c)
  OBVIOUS
<1>2. /\ Steady /\ UNCHANGED <<got, disabled, dropped>> /\ MaySend(c) /\ Connected(c)
      /\ sent' = [sent EXCEPT ![c] = @ + 1] /\ c \in ToSet(order) /\ ~link_down[c]
  BY DEF Send, MaySend, Steady, topoVars, clientVars
<1>3. /\ peers \subseteq Clients /\ ToSet(order) \subseteq peers
      /\ \A x, y, z \in peers : x = y \/ y = z \/ x = z
  BY <1>0 DEF HInv, Typed, Pair
<1>4. Between(c, q0)
  BY <1>1, <1>2, <1>3, PeerIs DEF SendQueue, Between
<1>5. q0 \in peers /\ q0 \in Clients /\ q0 \in Queues /\ \A x \in peers : x # q0 => x = c
  BY <1>3, <1>4 DEF Between, Queues
<1>6. ~delivering[q0]
  BY <1>0, <1>2, <1>4, SendApart
<1>7. PICK e \in Deliveries :
           /\ stack' = <<e>> \o stack /\ e.q = q0
           /\ e.pkt = [from |-> c, id |-> sent[c] + 1, cb |-> Kind[c] # "slirp"]
           /\ e.iov = Virtio(c) /\ ~e.queued /\ e.pc = "deliver" /\ e.ret = -1
           /\ e.todo = Receivers(e.q, c)
  BY <1>0, <1>1, <1>6, SendIs
<1>8. UNCHANGED queue
  BY <1>1, <1>6 DEF Send
<1>9. e \in AllFrames /\ Busy(e)
  BY <1>7 DEF AllFrames, Busy
<1>10. e.pkt.from = c /\ e.pkt.id = sent[c] + 1 /\ (Kind[c] # "slirp" => e.pkt.cb)
  <2>1. e.pkt.from = c /\ e.pkt.id = sent[c] + 1
    BY <1>7
  <2>2. e.pkt.cb = (Kind[c] # "slirp")
    BY <1>7
  <2> QED  BY <2>1, <2>2
<1>11. e.todo # << >> /\ Tail(e.todo) = << >>
  BY <1>7 DEF Receivers
<1>12. stack # << >> => HasCalls(Top)
  BY <1>2 DEF MaySend, Idle, AtPc, HasCalls
<1>13. /\ \A r : r # q0 => Flying(r)' = Flying(r) /\ (Worked(r) => Worked(r)')
       /\ Flying(q0) = {} /\ Flying(q0)' = {e} /\ Worked(q0)'
       /\ \A g \in ToSet(stack') : g \in ToSet(stack) \/ g = e
  BY <1>0, <1>6, <1>7, <1>9, <1>12, FlyPush
<1>14. Nested'
  BY <1>0, <1>7, <1>9, <1>12, PushSet DEF PInv
<1>15. /\ LineOf(c, got[q0], queue[q0], disabled[q0], {}, TRUE)
       /\ CountOf(got[q0], queue[q0], {}, dropped[c], sent[c])
  <2>1. PairOK(c, q0)
    BY <1>4 DEF PInv, Between
  <2>2. LineOf(c, got[q0], queue[q0], disabled[q0], {}, Worked(q0))
        /\ CountOf(got[q0], queue[q0], {}, dropped[c], sent[c])
    BY <1>13, <2>1 DEF PairOK
  <2> QED  BY <2>2 DEF LineOf
<1>16. sent[c] \in Nat /\ sent'[c] = sent[c] + 1 /\ \A x \in Clients : x # c => sent'[x] = sent[x]
  BY <1>0, <1>2 DEF HInv, Typed
<1>17. queue[q0] = << >> \/ (disabled[q0] = TRUE /\ ~e.iov)
  BY <1>2, <1>4, <1>7, SendFinds
<1>18. Kind[c] = "slirp" => ~e.iov
  BY <1>7 DEF Virtio
<1>19. LineAt(c, got[q0], queue[q0], disabled[q0], e)
       /\ CountAt(got[q0], queue[q0], e, dropped[c], sent[c] + 1)
  BY <1>7, <1>10, <1>11, <1>15, <1>16, <1>17, <1>18, LineSend
<1>20. PairOK(c, q0)'
  BY <1>2, <1>8, <1>13, <1>16, <1>19, PairWith
<1>21. \A x \in peers : x # q0 => PairOK(x, q0)'
  BY <1>5, <1>20
<1>22. CallOK(e)
  BY <1>4, <1>7, <1>10 DEF CallOK
<1>23. \A g \in ToSet(stack') : g \in ToSet(stack) \/ CallOK(g)
  BY <1>13, <1>22
<1>24. \A p \in ToSet(queue[q0]) : Between(p.from, q0)
  BY <1>5 DEF PInv, Origins
<1>25. sent'[q0] = sent[q0]
  BY <1>4, <1>5, <1>16 DEF Between
<1> QED  BY <1>0, <1>2, <1>5, <1>8, <1>13, <1>14, <1>21, <1>23, <1>24, <1>25, PStep DEF Steady

\* The packets a queue holds from c, and those of a pair's queues.
LEMMA FromIs ==
  ASSUME NEW qs \in [Queues -> Seq(Packet)], NEW c, NEW r \in Queues,
         \A q \in Queues : \A p \in ToSet(qs[q]) : p.from = c <=> q = r
  PROVE  QueuedFrom(qs, c) = IdsIn(qs[r])
<1>1. DOMAIN qs = Queues
  OBVIOUS
<1>2. {p \in UNION {ToSet(qs[q]) : q \in Queues} : p.from = c} = ToSet(qs[r])
  OBVIOUS
<1> QED  BY <1>1, <1>2 DEF QueuedFrom, IdsIn

\* A list that is cleared of all its elements.
LEMMA WithoutAll ==
  ASSUME NEW A, NEW s \in Seq(A), NEW gone, ToSet(s) \subseteq gone
  PROVE  Without(s, gone) = << >>
<1> DEFINE w == Without(s, gone)
<1>1. w \in Seq(A) /\ ToSet(w) = {}
  BY WithoutSet
<1> HIDE DEF w
<1>2. \A x : x \in ToSet(w) <=> \E i \in 1 .. Len(w) : w[i] = x
  BY <1>1, InList
<1>3. Len(w) = 0
  <2>1. Len(w) \in Nat
    BY <1>1, LenProperties
  <2>2. ~(1 \in 1 .. Len(w))
    BY <1>1, <1>2
  <2> QED  BY <2>1, <2>2
<1> QED  BY <1>1, <1>3, EmptySeq DEF w

\* What the queues hold after a client of a pair that is not slirp was cleaned up.
LEMMA PCleaned ==
  ASSUME HInv, PInv, ~vlan, NEW c, NEW r, Between(c, r), Kind[c] # "slirp"
  PROVE  /\ Cleaned(c) \in [Queues -> Seq(Packet)] /\ Cleaned(c)[r] = << >>
         /\ \A q \in Queues : q # r => Cleaned(c)[q] = queue[q]
<1> DEFINE P == Packet S == Seq(P)
<1>1. peers \subseteq Clients /\ \A x, y, z \in peers : x = y \/ y = z \/ x = z
  BY DEF HInv, Typed, Pair
<1>2. Connected(c) /\ c \in Clients /\ r \in Queues
  BY <1>1 DEF Between, Connected, Queues
<1>3. SendQueue(c) = r
  BY <1>1, <1>2, PeerIs DEF SendQueue, Between
<1>4. queue \in [Queues -> S]
  BY DEF HInv, Typed
<1> DEFINE w == Without(queue[r], {p \in ToSet(queue[r]) : p.from = c})
<1>5. Cleaned(c) = [queue EXCEPT ![r] = w]
  BY <1>2, <1>3 DEF Cleaned, Purged
<1> HIDE DEF P
<1>6. w = << >>
  <2>1. queue[r] \in Seq(P)
    BY <1>2, <1>4
  <2>2. \A p \in ToSet(queue[r]) : p.from = c
    BY <1>1, <1>2 DEF PInv, Origins, Between
  <2> QED  BY <2>1, <2>2, WithoutAll
<1> HIDE DEF w
<1>7. Cleaned(c) \in [Queues -> S]
  BY <1>2, CleanedIs DEF HInv, P
<1> QED  BY <1>2, <1>4, <1>5, <1>6, <1>7 DEF P

\* A back end is deleted: what it had queued is dropped, except that slirp's stays.
LEMMA PDeleteBackend ==
  ASSUME HInv, PInv, ~vlan, NEW c \in Clients, DeleteBackend(c)
  PROVE  PInv'
<1>1. /\ UNCHANGED <<vlan, peers, stack, got, disabled, sent>> /\ stack = << >>
      /\ c \in ToSet(order) /\ ~Virtio(c) /\ \E p \in peers : Virtio(p)
      /\ LoseRest(Cleaned(c))
  BY DEF DeleteBackend, leftAlone, Idle
<1>2. /\ peers \subseteq Clients /\ ToSet(order) \subseteq peers
      /\ \A x, y, z \in peers : x = y \/ y = z \/ x = z
  BY DEF HInv, Typed, Pair
<1>3. PICK r \in peers : Between(c, r) /\ r \in Clients /\ r \in Queues /\ c \in Queues
  BY <1>1, <1>2 DEF Between, Queues
<1>4. dropped \in [Clients -> SUBSET Ids] /\ queue \in [Queues -> Seq(Packet)]
  BY DEF HInv, Typed
<1>5. CASE Kind[c] = "slirp"
  <2>1. queue' = queue
    BY <1>1, <1>5 DEF LoseRest, Cleaned
  <2>2. dropped' = [x \in Clients |-> dropped[x]]
    BY <1>1, <1>5 DEF LoseRest, Cleaned
  <2>3. dropped' = dropped
    BY <1>4, <2>2
  <2> QED  BY <1>1, <2>1, <2>3, PSame
<1>6. CASE Kind[c] # "slirp"
  <2> DEFINE qs == Cleaned(c)
  <2>1. /\ qs \in [Queues -> Seq(Packet)] /\ qs[r] = << >>
        /\ \A q \in Queues : q # r => qs[q] = queue[q]
    BY <1>3, <1>6, PCleaned
  <2>2. queue' = qs /\ dropped' = [x \in Clients |->
                         dropped[x] \cup (QueuedFrom(queue, x) \ QueuedFrom(qs, x))]
    BY <1>1 DEF LoseRest
  <2> HIDE DEF qs
  <2>3. \A q \in Queues : \A p \in ToSet(queue[q]) : Between(p.from, q)
    BY DEF PInv, Origins
  <2>4. QueuedFrom(queue, c) = IdsIn(queue[r]) /\ QueuedFrom(queue, r) = IdsIn(queue[c])
    <3>1. \A q \in Queues : \A p \in ToSet(queue[q]) : p.from = c <=> q = r
      BY <1>2, <1>3, <2>3 DEF Between
    <3>2. \A q \in Queues : \A p \in ToSet(queue[q]) : p.from = r <=> q = c
      BY <1>2, <1>3, <2>3 DEF Between
    <3> QED  BY <1>3, <1>4, <3>1, <3>2, FromIs
  <2>5. QueuedFrom(qs, c) = {} /\ QueuedFrom(qs, r) = IdsIn(queue[c])
    <3>0. ToSet(qs[r]) = {} /\ IdsIn(qs[r]) = {}
      BY <2>1, ListEmpty
    <3>1. \A q \in Queues : \A p \in ToSet(qs[q]) : Between(p.from, q)
      BY <2>1, <2>3, <3>0
    <3>2. \A q \in Queues : \A p \in ToSet(qs[q]) : p.from = c <=> q = r
      BY <1>2, <1>3, <3>1 DEF Between
    <3>3. \A q \in Queues : \A p \in ToSet(qs[q]) : p.from = r <=> q = c
      BY <1>2, <1>3, <3>1 DEF Between
    <3>4. QueuedFrom(qs, c) = IdsIn(qs[r]) /\ QueuedFrom(qs, r) = IdsIn(qs[c])
      BY <1>3, <2>1, <3>2, <3>3, FromIs
    <3> QED  BY <1>3, <2>1, <3>0, <3>4 DEF Between
  <2>6. dropped'[c] = dropped[c] \cup IdsIn(queue[r]) /\ dropped'[r] = dropped[r]
    BY <1>3, <2>2, <2>4, <2>5
  <2>7. \A x : Flying(x) = {} /\ Flying(x)' = {} /\ ~Worked(x)
    <3>1. \A x : Flying(x) = {} /\ ~Worked(x)
      BY <1>1, NoCalls
    <3>2. \A x : Flying(x)' = Flying(x)
      BY <1>1 DEF Flying, Busy
    <3> QED  BY <3>1, <3>2
  <2>8. PICK h : h = Worked(r)'
    OBVIOUS
  <2>9. PairOK(c, r)'
    <3> DEFINE A == [from : Clients, id : Ids]
               B == Packet
    <3>1. Numbered(A) /\ Numbered(B) /\ queue[r] \in Seq(B) /\ got[r] \in Seq(A)
      BY <1>3, NumbersAre DEF HInv
    <3> HIDE DEF A, B
    <3>2. LineOf(c, got[r], queue[r], disabled[r], {}, TRUE)
          /\ CountOf(got[r], queue[r], {}, dropped[c], sent[c])
      <4>1. PairOK(c, r)
        BY <1>3 DEF PInv, Between
      <4>2. LineOf(c, got[r], queue[r], disabled[r], {}, Worked(r))
            /\ CountOf(got[r], queue[r], {}, dropped[c], sent[c])
        BY <2>7, <4>1 DEF PairOK
      <4> QED  BY <4>2 DEF LineOf
    <3>3. /\ LineOf(c, got[r], << >>, disabled[r], {}, h)
          /\ CountOf(got[r], << >>, {}, dropped[c] \cup IdsIn(queue[r]), sent[c])
      BY <3>1, <3>2, LinePurge
    <3>4. queue'[r] = << >> /\ Flying(r)' = {}
      BY <2>1, <2>2, <2>7
    <3> QED  BY <1>1, <2>6, <2>8, <3>3, <3>4, PairIs
  <2>10. \A x \in peers : x # r => PairOK(x, r)'
    BY <1>2, <1>3, <2>9 DEF Between
  <2>11. \A p \in ToSet(queue'[r]) : Between(p.from, r)
    BY <2>1, <2>2, ListEmpty
  <2>12. Nested'
    BY <1>1 DEF PInv, Nested, HasCalls
  <2>13. \A q \in Queues : q # r => queue'[q] = queue[q]
    BY <2>1, <2>2
  <2>14. \A g \in ToSet(stack') : g \in ToSet(stack) \/ CallOK(g)
    BY <1>1
  <2> QED  BY <1>1, <1>3, <2>6, <2>7, <2>10, <2>11, <2>12, <2>13, <2>14, PStep
<1> QED  BY <1>5, <1>6

\* A NIC is deleted: no pair and no queued packet is left.
LEMMA PDeleteNic ==
  ASSUME HInv, PInv, ~vlan, NEW c \in Clients, DeleteNic(c)
  PROVE  PInv'
<1> DEFINE freed == {c} \cup (peers \ ToSet(order))
           qs == [q \in DOMAIN queue |-> IF q \in freed THEN << >> ELSE Cleaned(c)[q]]
<1>1. /\ UNCHANGED <<stack, got>> /\ stack = << >> /\ vlan' = vlan
      /\ c \in ToSet(order) /\ Virtio(c) /\ queue' = qs /\ peers' = peers \ freed
  BY DEF DeleteNic, leftAlone, Idle, LoseRest
<1>2. /\ peers \subseteq Clients /\ ToSet(order) \subseteq peers
      /\ \A x, y, z \in peers : x = y \/ y = z \/ x = z
      /\ queue \in [Queues -> Seq(Packet)]
  BY DEF HInv, Typed, Pair
<1>3. \A x, y \in peers' : x = y
  BY <1>1, <1>2
<1>4. ToSet(stack') = {}
  BY <1>1, NoCalls
<1>5. ASSUME NEW q \in Queues, NEW p \in ToSet(queue'[q]) PROVE FALSE
  <2>1. q \notin freed /\ queue'[q] = Cleaned(c)[q]
    BY <1>1, <1>2, <1>5, ListEmpty
  <2>2. CASE \E r \in peers : r # c
    <3>1. PICK r \in peers : Between(c, r)
      BY <1>1, <1>2, <2>2 DEF Between
    <3>2. Cleaned(c)[r] = << >> /\ \A x \in Queues : x # r => Cleaned(c)[x] = queue[x]
      BY <1>1, <3>1, PCleaned DEF Virtio
    <3>3. q # r /\ p \in ToSet(queue[q])
      BY <1>5, <2>1, <3>2, ListEmpty
    <3>4. q \in peers
      BY <3>3 DEF PInv, Origins, Between
    <3> QED  BY <1>1, <1>2, <2>1, <3>1, <3>3, <3>4 DEF Between
  <2>3. CASE ~ \E r \in peers : r # c
    <3>1. Cleaned(c) = queue
      BY <2>3 DEF Cleaned, Connected
    <3>2. Between(p.from, q)
      BY <1>5, <2>1, <3>1 DEF PInv, Origins
    <3> QED  BY <2>3, <3>2 DEF Between
  <2> QED  BY <2>2, <2>3
<1>6. Origins'
  BY <1>3, <1>4, <1>5 DEF Origins
<1>7. Nested'
  BY <1>1 DEF PInv, Nested, HasCalls
<1> QED  BY <1>3, <1>6, <1>7 DEF PInv

\* Before anything is sent.
LEMMA PInit ==
  ASSUME Init
  PROVE  PInv
<1>0. HInv
  BY HInit
<1> SUFFICES ASSUME ~vlan PROVE PInv
  BY DEF PInv
<1>1. PICK t \in Topologies : vlan = t.vlan /\ peers = IF t.vlan THEN {} ELSE ToSet(t.order)
  BY DEF Init
<1>2. /\ t.order \in Seq(Clients) /\ Len(t.order) = 2 /\ peers = ToSet(t.order)
      /\ \E i \in 1 .. 2 : Kind[t.order[i]] = "virtio"
  BY <1>1, NetAssumption
<1>3. \A x : x \in peers <=> \E i \in 1 .. Len(t.order) : t.order[i] = x
  BY <1>2, InList
<1>4. peers \subseteq Clients /\ \A x, y, z \in peers : x = y \/ y = z \/ x = z
  BY <1>0 DEF HInv, Typed, Pair
<1>5. ASSUME NEW c \in peers, NEW r \in peers, c # r PROVE Kind[c] # "slirp" \/ Kind[r] # "slirp"
  <2>1. PICK i \in 1 .. 2 : Kind[t.order[i]] = "virtio"
    BY <1>2
  <2>2. t.order[i] \in peers
    BY <1>2, <1>3
  <2>3. t.order[i] = c \/ t.order[i] = r
    BY <1>4, <1>5, <2>2
  <2> QED  BY <2>1, <2>3
<1>6. /\ stack = << >> /\ Len(stack) = 0
      /\ \A q \in Queues : queue[q] = << >>
      /\ \A c \in Clients : sent[c] = 0 /\ got[c] = << >> /\ dropped[c] = {}
  BY DEF Init, Queues
<1>7. ToSet(stack) = {} /\ \A r : Flying(r) = {}
  BY <1>6, NoCalls
<1>8. Origins
  BY <1>5, <1>6, <1>7, ListEmpty DEF Origins
<1>9. Nested
  BY <1>6 DEF Nested
<1>10. ASSUME NEW c \in peers, NEW r \in peers, c # r PROVE PairOK(c, r)
  <2>1. got[r] = << >> /\ queue[r] = << >> /\ sent[c] = 0 /\ dropped[c] = {} /\ Flying(r) = {}
    BY <1>4, <1>6, <1>7 DEF Queues
  <2>2. LineOf(c, << >>, << >>, disabled[r], {}, Worked(r))
    BY ListEmpty DEF LineOf
  <2>3. HeldIn(<< >>, << >>, {}) = {} /\ 1 .. 0 = {}
    BY ListEmpty DEF HeldIn
  <2>4. CountOf(<< >>, << >>, {}, {}, 0)
    BY <2>3 DEF CountOf
  <2> QED  BY <2>1, <2>2, <2>4 DEF PairOK
<1> QED  BY <1>8, <1>9, <1>10 DEF PInv

\* Every step keeps the lines.
LEMMA PSteps ==
  ASSUME IInv, Marked, PInv, [Next]_vars
  PROVE  PInv'
<1> USE DEF topoVars, queueVars, clientVars, history
<1>0. HInv
  BY DEF IInv
<1>1. vlan' = vlan
  BY DEF Next, Deliver, vars, NextReceiver, Accept, Refuse, Discard, Requeue, Delivered,
         CallbackReturns, FlushNext, FlushEnds, SendDropped, Send, qemu_flush_queued_packets,
         SetLink, DeleteOnVlan, DeleteBackend, DeleteNic, StopCont, leftAlone
<1> SUFFICES ASSUME ~vlan PROVE PInv'
  BY <1>1 DEF PInv
<1>2. CASE UNCHANGED vars
  BY <1>2, PSame DEF vars
<1>3. ASSUME NEW c \in Clients, SetLink(c) PROVE PInv'
  BY <1>3, PSame DEF SetLink
<1>4. CASE StopCont
  BY <1>4, PSame DEF StopCont
<1>5. ASSUME NEW c \in Clients, DeleteOnVlan(c) PROVE FALSE
  BY <1>5 DEF DeleteOnVlan
<1>6. CASE Deliver
  BY <1>0, <1>6, PNextReceiver, PAccept, PRefuse, PDiscard, PRequeue, PDelivered, PCallback,
     PFlushNext, PFlushEnds DEF Deliver
<1> QED  BY <1>0, <1>2, <1>3, <1>4, <1>5, <1>6, PSendDropped, PSend, PFlush, PDeleteBackend,
            PDeleteNic DEF Next

----------------------------------------------------------------------------
(* From the lines to the order of packets.                                 *)

Ahead(s, t) == \A y \in ToSet(t) : Before(s, y.id)

\* One list after another.
LEMMA ListJoin ==
  ASSUME NEW A, NEW s \in Seq(A), NEW t \in Seq(A)
  PROVE  /\ s \o t \in Seq(A) /\ ToSet(s \o t) = ToSet(s) \cup ToSet(t)
         /\ Rising(s) /\ Rising(t) /\ Ahead(s, t) => Rising(s \o t)
<1> DEFINE u == s \o t
<1>1. /\ Len(s) \in Nat /\ Len(t) \in Nat /\ u \in Seq(A) /\ Len(u) = Len(s) + Len(t)
      /\ \A i \in 1 .. Len(u) : u[i] = IF i <= Len(s) THEN s[i] ELSE t[i - Len(s)]
  BY LenProperties, ConcatProperties
<1> HIDE DEF u
<1>2. \A y : y \in ToSet(u) <=> \E i \in 1 .. Len(u) : u[i] = y
  BY <1>1, InList
<1>3. \A y : y \in ToSet(s) <=> \E i \in 1 .. Len(s) : s[i] = y
  BY InList
<1>4. \A y : y \in ToSet(t) <=> \E i \in 1 .. Len(t) : t[i] = y
  BY InList
<1>5. /\ \A i \in 1 .. Len(s) : i \in 1 .. Len(u) /\ u[i] = s[i]
      /\ \A i \in 1 .. Len(t) : Len(s) + i \in 1 .. Len(u) /\ u[Len(s) + i] = t[i]
  <2>1. ASSUME NEW i \in 1 .. Len(t) PROVE Len(s) + i \in 1 .. Len(u) /\ u[Len(s) + i] = t[i]
    <3>1. Len(s) + i \in 1 .. Len(u) /\ ~(Len(s) + i <= Len(s)) /\ (Len(s) + i) - Len(s) = i
      BY <1>1
    <3> QED  BY <1>1, <3>1
  <2> QED  BY <1>1, <2>1
<1>6. \A i \in 1 .. Len(u) :
        \/ i \in 1 .. Len(s) /\ u[i] = s[i]
        \/ i - Len(s) \in 1 .. Len(t) /\ u[i] = t[i - Len(s)] /\ Len(s) < i
  BY <1>1
<1>7. ToSet(u) = ToSet(s) \cup ToSet(t)
  <2>1. ASSUME NEW y \in ToSet(u) PROVE y \in ToSet(s) \cup ToSet(t)
    BY <1>2, <1>3, <1>4, <1>6, <2>1
  <2>2. ASSUME NEW y \in ToSet(s) PROVE y \in ToSet(u)
    BY <1>2, <1>3, <1>5, <2>2
  <2>3. ASSUME NEW y \in ToSet(t) PROVE y \in ToSet(u)
    BY <1>2, <1>4, <1>5, <2>3
  <2> QED  BY <2>1, <2>2, <2>3
<1>8. ASSUME Rising(s), Rising(t), Ahead(s, t), NEW i \in 1 .. Len(u), NEW j \in 1 .. Len(u), i < j
      PROVE  u[i].id < u[j].id
  <2>1. CASE j \in 1 .. Len(s)
    <3>1. i \in 1 .. Len(s)
      BY <1>8, <2>1
    <3> QED  BY <1>5, <1>8, <2>1, <3>1 DEF Rising
  <2>2. CASE i \in 1 .. Len(s) /\ j - Len(s) \in 1 .. Len(t) /\ Len(s) < j
    <3>1. u[i] \in ToSet(s) /\ u[j] \in ToSet(t)
      <4>1. ~(j \in 1 .. Len(s))
        BY <1>1, <2>2
      <4> QED  BY <1>3, <1>4, <1>5, <1>6, <2>2, <4>1
    <3> QED  BY <1>8, <3>1 DEF Ahead, Before
  <2>3. CASE i - Len(s) \in 1 .. Len(t) /\ j - Len(s) \in 1 .. Len(t) /\ Len(s) < i /\ Len(s) < j
    <3>1. ~(j \in 1 .. Len(s)) /\ ~(i \in 1 .. Len(s)) /\ i - Len(s) < j - Len(s)
      BY <1>1, <1>8, <2>3
    <3>2. u[i] = t[i - Len(s)] /\ u[j] = t[j - Len(s)]
      BY <1>6, <3>1
    <3> QED  BY <1>8, <2>3, <3>1, <3>2 DEF Rising
  <2>4. i \in 1 .. Len(s) \/ (i - Len(s) \in 1 .. Len(t) /\ Len(s) < i)
    BY <1>6
  <2>5. j \in 1 .. Len(s) \/ (j - Len(s) \in 1 .. Len(t) /\ Len(s) < j)
    BY <1>6
  <2> QED  BY <2>1, <2>2, <2>3, <2>4, <2>5
<1> QED  BY <1>1, <1>7, <1>8 DEF u, Rising

\* A list of one.
LEMMA ListOne ==
  ASSUME NEW A, NEW x \in A
  PROVE  <<x>> \in Seq(A) /\ ToSet(<<x>>) = {x} /\ Rising(<<x>>)
<1> DEFINE s == <<x>>
<1>1. s \in Seq(A) /\ Len(s) = 1 /\ s[1] = x
  OBVIOUS
<1> HIDE DEF s
<1>2. \A y : y \in ToSet(s) <=> \E i \in 1 .. Len(s) : s[i] = y
  BY <1>1, InList
<1>3. 1 .. Len(s) = {1}
  BY <1>1
<1>4. ToSet(s) = {x}
  BY <1>1, <1>2, <1>3
<1>5. Rising(s)
  BY <1>3 DEF Rising
<1> QED  BY <1>1, <1>4, <1>5 DEF s

\* The numbers of a list.
LEMMA NumbersOf ==
  ASSUME NEW A, NEW u \in Seq(A), NEW ids \in Seq(Nat), Len(ids) = Len(u),
         \A i \in 1 .. Len(u) : ids[i] = u[i].id
  PROVE  ToSet(ids) = IdsIn(u)
<1>1. \A y : y \in ToSet(ids) <=> \E i \in 1 .. Len(ids) : ids[i] = y
  BY InList
<1>2. \A y : y \in ToSet(u) <=> \E i \in 1 .. Len(u) : u[i] = y
  BY InList
<1> QED  BY <1>1, <1>2 DEF IdsIn

\* The numbers as a list.
IdsOf(s) == [i \in 1 .. Len(s) |-> s[i].id]

\* Lists in order, and list ids of the numbers in S.
InOrder(g, a, w, b) ==
  /\ Rising(g) /\ Rising(a) /\ Rising(w) /\ Rising(b)
  /\ Ahead(g, a) /\ Ahead(g, w) /\ Ahead(g, b) /\ Ahead(a, w) /\ Ahead(a, b) /\ Ahead(w, b)
InTurn(ids, S) == (\A i \in 1 .. Len(ids) - 1 : ids[i] < ids[i + 1]) /\ ToSet(ids) = S

\* Four lists in order: their numbers rise, and what numbers there are.
LEMMA ListFour ==
  ASSUME NEW A, Numbered(A), NEW g \in Seq(A), NEW a \in Seq(A), NEW w \in Seq(A), NEW b \in Seq(A),
         InOrder(g, a, w, b), NEW all, all = g \o a \o w \o b
  PROVE  InTurn(IdsOf(all), IdsIn(g) \cup IdsIn(a) \cup IdsIn(w) \cup IdsIn(b))
<1> USE DEF InOrder
<1> DEFINE s == g \o a
           t == s \o w
           u == t \o b
<1>1. s \in Seq(A) /\ ToSet(s) = ToSet(g) \cup ToSet(a) /\ Rising(s)
  BY ListJoin
<1> HIDE DEF s
<1>2. t \in Seq(A) /\ ToSet(t) = ToSet(s) \cup ToSet(w) /\ Rising(t)
  <2>1. Ahead(s, w)
    BY <1>1 DEF Ahead, Before
  <2> QED  BY <1>1, <2>1, ListJoin
<1> HIDE DEF t
<1>3. u \in Seq(A) /\ ToSet(u) = ToSet(t) \cup ToSet(b) /\ Rising(u)
  <2>1. Ahead(t, b)
    BY <1>1, <1>2 DEF Ahead, Before
  <2> QED  BY <1>2, <2>1, ListJoin
<1> HIDE DEF u
<1>4. all = u
  BY DEF u, t, s
<1>5. Len(u) \in Nat /\ \A i \in 1 .. Len(u) : u[i] \in A /\ u[i].id \in Nat
  BY <1>3, LenProperties, ElementOfSeq DEF Numbered
<1> DEFINE ids == IdsOf(all)
<1>6. ids \in Seq(Nat) /\ Len(ids) = Len(u) /\ \A i \in 1 .. Len(u) : ids[i] = u[i].id
  <2>1. ids \in [1 .. Len(u) -> Nat]
    BY <1>4, <1>5 DEF IdsOf
  <2> QED  BY <1>4, <1>5, <2>1 DEF IdsOf
<1> HIDE DEF ids
<1>7. ASSUME NEW i \in 1 .. Len(ids) - 1 PROVE ids[i] < ids[i + 1]
  <2>1. i \in 1 .. Len(u) /\ i + 1 \in 1 .. Len(u) /\ i < i + 1
    BY <1>5, <1>6
  <2> QED  BY <1>3, <1>6, <2>1 DEF Rising
<1>8. ToSet(ids) = IdsIn(u)
  BY <1>3, <1>6, NumbersOf
<1>9. IdsIn(u) = IdsIn(g) \cup IdsIn(a) \cup IdsIn(w) \cup IdsIn(b)
  BY <1>1, <1>2, <1>3 DEF IdsIn
<1> QED  BY <1>7, <1>8, <1>9 DEF ids, InTurn

\* At most one packet is being delivered to a client.
LEMMA FlyOne ==
  ASSUME HInv, NEW r, NEW f \in Flying(r), NEW g \in Flying(r)
  PROVE  f = g
<1>1. stack \in Seq(AllFrames) /\ Turned(stack, delivering)
  BY DEF HInv, Typed, Turns
<1>2. \A x : x \in ToSet(stack) <=> \E i \in 1 .. Len(stack) : stack[i] = x
  BY <1>1, InList
<1>3. /\ f \in ToSet(stack) /\ Busy(f) /\ f.q = r
      /\ g \in ToSet(stack) /\ Busy(g) /\ g.q = r
  BY DEF Flying
<1>4. PICK i \in 1 .. Len(stack) : stack[i] = f
  BY <1>2, <1>3
<1>5. PICK j \in 1 .. Len(stack) : stack[j] = g
  BY <1>2, <1>3
<1>6. ~(i < j) /\ ~(j < i)
  BY <1>1, <1>3, <1>4, <1>5 DEF Turned
<1>7. i = j
  BY <1>6
<1> QED  BY <1>4, <1>5, <1>7

\* The packets from c that are being delivered, from the queue or not, and that were
\* not accepted.
Untaken(c, queued) ==
  {f.pkt : f \in {f \in InFlight : f.queued = queued /\ f.pkt.from = c /\ ~Taken(f)}}
OneOf(S) == IF S = {} THEN << >> ELSE <<CHOOSE p \in S : TRUE>>

\* All of c's packets to r, in order: their numbers rise, and the others were dropped.
LineFrom(c, r) ==
  got[r] \o OneOf(Untaken(c, TRUE)) \o queue[r] \o OneOf(Untaken(c, FALSE))
Complete(ids, dr, n) ==
  /\ \A i \in 1 .. Len(ids) - 1 : ids[i] < ids[i + 1]
  /\ ToSet(ids) \cup dr = 1 .. n
  /\ ToSet(ids) \cap dr = {}

\* There is one at most, and it has its place in the line.
LEMMA UntakenIs ==
  ASSUME HInv, PInv, ~vlan, NEW c, NEW r, Between(c, r)
  PROVE  \E a, b :
           /\ OneOf(Untaken(c, TRUE)) = a /\ OneOf(Untaken(c, FALSE)) = b
           /\ a \in Seq(Packet) /\ b \in Seq(Packet) /\ Rising(a) /\ Rising(b)
           /\ Ahead(got[r], a) /\ Ahead(got[r], b) /\ Ahead(a, queue[r]) /\ Ahead(queue[r], b)
           /\ Ahead(a, b)
           /\ IdsIn(got[r]) \cup IdsIn(a) \cup IdsIn(queue[r]) \cup IdsIn(b)
                = HeldIn(got[r], queue[r], Flying(r))
<1>1. peers \subseteq Clients /\ \A x, y, z \in peers : x = y \/ y = z \/ x = z
  BY DEF HInv, Typed, Pair
<1>2. \A f : f \in InFlight /\ f.pkt.from = c <=> f \in Flying(r)
  <2>1. \A f \in ToSet(stack) : Busy(f) => Between(f.pkt.from, f.q)
    BY DEF PInv, Origins
  <2> QED  BY <1>1, <2>1 DEF InFlight, Flying, Busy, Between
<1>3. \A f \in Flying(r) : f \in Deliveries
  <2>1. stack \in Seq(AllFrames)
    BY DEF HInv, Typed
  <2>2. ToSet(stack) \subseteq AllFrames
    BY <2>1, InList
  <2> QED  BY <2>2, FrameKinds DEF Flying
<1>4. \A f \in Flying(r) : Taken(f) <=> f.pkt.id \in IdsIn(got[r])
  BY <1>2, <1>3, TakenIs
<1>5. PairOK(c, r)
  BY DEF PInv, Between
<1>6. \A f \in Flying(r) : InLine(f, got[r], queue[r])
  BY <1>5 DEF PairOK, LineOf
<1>7. \A q : Untaken(c, q) = {f.pkt : f \in {f \in Flying(r) : f.queued = q /\ f.pkt.id \notin IdsIn(got[r])}}
  BY <1>2, <1>4 DEF Untaken
<1>8. CASE \A f \in Flying(r) : f.pkt.id \in IdsIn(got[r])
  <2>1. Untaken(c, TRUE) = {} /\ Untaken(c, FALSE) = {}
    BY <1>7, <1>8
  <2>2. OneOf(Untaken(c, TRUE)) = << >> /\ OneOf(Untaken(c, FALSE)) = << >>
    BY <2>1 DEF OneOf
  <2>3. IdsIn(got[r]) \cup IdsIn(<< >>) \cup IdsIn(queue[r]) \cup IdsIn(<< >>)
          = HeldIn(got[r], queue[r], Flying(r))
    BY <1>8, ListEmpty DEF HeldIn
  <2>4. \A s : Ahead(s, << >>) /\ Ahead(<< >>, s)
    BY ListEmpty DEF Ahead
  <2>5. << >> \in Seq(Packet)
    OBVIOUS
  <2> QED  BY <2>2, <2>3, <2>4, <2>5, ListEmpty
<1>9. CASE \E f \in Flying(r) : f.pkt.id \notin IdsIn(got[r])
  <2>1. PICK f \in Flying(r) : f.pkt.id \notin IdsIn(got[r])
    BY <1>9
  <2>2. Flying(r) = {f}
    BY <2>1, FlyOne
  <2>3. f \in Deliveries /\ f.pkt \in Packet /\ f.queued \in BOOLEAN /\ InLine(f, got[r], queue[r])
    BY <1>3, <1>6 DEF Deliveries
  <2>4. /\ Untaken(c, f.queued) = {f.pkt} /\ Untaken(c, ~f.queued) = {}
    <3>1. \A q : Untaken(c, q) = {g.pkt : g \in {g \in {f} : g.queued = q /\ g.pkt.id \notin IdsIn(got[r])}}
      BY <1>7, <2>2
    <3>2. {g \in {f} : g.queued = f.queued /\ g.pkt.id \notin IdsIn(got[r])} = {f}
      BY <2>1
    <3>3. {g \in {f} : g.queued = ~f.queued /\ g.pkt.id \notin IdsIn(got[r])} = {}
      BY <2>3
    <3> QED  BY <3>1, <3>2, <3>3
  <2> DEFINE p == f.pkt s == <<p>>
  <2>5. OneOf(Untaken(c, f.queued)) = s /\ OneOf(Untaken(c, ~f.queued)) = << >>
    BY <2>4 DEF OneOf
  <2>6. s \in Seq(Packet) /\ ToSet(s) = {p} /\ Rising(s) /\ << >> \in Seq(Packet)
    BY <2>3, ListOne
  <2>7. IdsIn(s) = {p.id} /\ HeldIn(got[r], queue[r], Flying(r)) = IdsIn(got[r]) \cup IdsIn(queue[r]) \cup {p.id}
    BY <2>2, <2>6 DEF IdsIn, HeldIn
  <2>8. Ahead(got[r], s)
    <3> DEFINE A == [from : Clients, id : Ids]
    <3>1. Numbered(A) /\ Numbered(Packet) /\ got[r] \in Seq(A)
      BY <1>1, NumbersAre DEF HInv, Between
    <3> HIDE DEF A
    <3>2. \A x \in ToSet(got[r]) : x.id \in Nat
      BY <3>1, InList DEF Numbered
    <3>3. p.id \in Nat
      BY <2>3, <3>1 DEF Numbered
    <3>4. \A x \in ToSet(got[r]) : x.id <= p.id /\ x.id # p.id
      BY <2>1, <2>3 DEF InLine, IdsIn
    <3>5. Before(got[r], p.id)
      BY <3>2, <3>3, <3>4 DEF Before
    <3> QED  BY <2>6, <3>5 DEF Ahead
  <2>9. \A t : Ahead(t, << >>) /\ Ahead(<< >>, t)
    BY ListEmpty DEF Ahead
  <2>10. CASE f.queued = TRUE
    <3>1. OneOf(Untaken(c, TRUE)) = s /\ OneOf(Untaken(c, FALSE)) = << >>
      <4>1. (~f.queued) = FALSE
        BY <2>10
      <4> QED  BY <2>5, <2>10, <4>1
    <3>2. Ahead(s, queue[r])
      BY <2>3, <2>6, <2>10 DEF InLine, Ahead, Before, After
    <3> HIDE DEF s
    <3>3. IdsIn(got[r]) \cup IdsIn(s) \cup IdsIn(queue[r]) \cup IdsIn(<< >>)
            = HeldIn(got[r], queue[r], Flying(r))
      BY <2>7, ListEmpty
    <3> QED  BY <2>6, <2>8, <2>9, <3>1, <3>2, <3>3, ListEmpty
  <2>11. CASE f.queued = FALSE
    <3>1. OneOf(Untaken(c, FALSE)) = s /\ OneOf(Untaken(c, TRUE)) = << >>
      <4>1. (~f.queued) = TRUE
        BY <2>11
      <4> QED  BY <2>5, <2>11, <4>1
    <3>2. Ahead(queue[r], s)
      BY <2>1, <2>3, <2>6, <2>11 DEF InLine, Ahead
    <3> HIDE DEF s
    <3>3. IdsIn(got[r]) \cup IdsIn(<< >>) \cup IdsIn(queue[r]) \cup IdsIn(s)
            = HeldIn(got[r], queue[r], Flying(r))
      BY <2>7, ListEmpty
    <3> QED  BY <2>6, <2>8, <2>9, <3>1, <3>2, <3>3, ListEmpty
  <2> QED  BY <2>3, <2>10, <2>11
<1> QED  BY <1>8, <1>9

\* A list over a larger set.
LEMMA SeqLarger ==
  ASSUME NEW A, NEW B, A \subseteq B, NEW s \in Seq(A)
  PROVE  s \in Seq(B)
OBVIOUS

\* The order of packets, from the line.
LEMMA FifoFrom ==
  ASSUME HInv, PInv
  PROVE  PairFifo
<1>0. PairFifo <=>
        (~vlan => \A c, r \in Clients : c # r /\ r \in peers /\ c \in peers =>
           Complete(IdsOf(LineFrom(c, r)), dropped[c], sent[c]))
  BY DEF PairFifo, Untaken, OneOf, LineFrom, Complete, IdsOf
<1> SUFFICES ASSUME ~vlan, NEW c \in Clients, NEW r \in Clients, c # r, r \in peers, c \in peers
             PROVE  Complete(IdsOf(LineFrom(c, r)), dropped[c], sent[c])
  BY <1>0
<1>1. Between(c, r)
  BY DEF Between
<1> DEFINE G == [from : Clients, id : Ids]
           P == Packet
           A == G \cup P
<1>2. Numbered(A) /\ got[r] \in Seq(G) /\ queue[r] \in Seq(P)
  BY NumbersAre DEF HInv, Queues, Numbered
<1> HIDE DEF G, P
<1>3. \A s : s \in Seq(G) \/ s \in Seq(P) => s \in Seq(A)
  BY SeqLarger
<1> HIDE DEF A
<1>4. PICK a, b :
           /\ OneOf(Untaken(c, TRUE)) = a /\ OneOf(Untaken(c, FALSE)) = b
           /\ a \in Seq(P) /\ b \in Seq(P) /\ Rising(a) /\ Rising(b)
           /\ Ahead(got[r], a) /\ Ahead(got[r], b) /\ Ahead(a, queue[r]) /\ Ahead(queue[r], b)
           /\ Ahead(a, b)
           /\ IdsIn(got[r]) \cup IdsIn(a) \cup IdsIn(queue[r]) \cup IdsIn(b)
                = HeldIn(got[r], queue[r], Flying(r))
  BY <1>1, UntakenIs DEF P
<1>5. PairOK(c, r)
  BY DEF PInv
<1>6. Rising(got[r]) /\ Rising(queue[r]) /\ Ahead(got[r], queue[r])
  BY <1>5 DEF PairOK, LineOf, Ahead
<1>7. got[r] \in Seq(A) /\ queue[r] \in Seq(A) /\ a \in Seq(A) /\ b \in Seq(A)
  BY <1>2, <1>3, <1>4
<1>8. LineFrom(c, r) = got[r] \o a \o queue[r] \o b
  BY <1>4 DEF LineFrom
<1> DEFINE ids == IdsOf(LineFrom(c, r))
<1>9. /\ \A i \in 1 .. Len(ids) - 1 : ids[i] < ids[i + 1]
      /\ ToSet(ids) = IdsIn(got[r]) \cup IdsIn(a) \cup IdsIn(queue[r]) \cup IdsIn(b)
  <2>1. PICK g, w, all : g = got[r] /\ w = queue[r] /\ all = LineFrom(c, r)
    OBVIOUS
  <2>2. /\ g \in Seq(A) /\ w \in Seq(A) /\ a \in Seq(A) /\ b \in Seq(A) /\ Numbered(A)
        /\ InOrder(g, a, w, b) /\ all = g \o a \o w \o b
    BY <1>2, <1>4, <1>6, <1>7, <1>8, <2>1 DEF InOrder
  <2>3. InTurn(IdsOf(all), IdsIn(g) \cup IdsIn(a) \cup IdsIn(w) \cup IdsIn(b))
    BY <2>2, ListFour
  <2> QED  BY <2>1, <2>3 DEF InTurn
<1>10. CountOf(got[r], queue[r], Flying(r), dropped[c], sent[c])
  BY <1>5 DEF PairOK
<1>11. /\ HeldIn(got[r], queue[r], Flying(r)) \cup dropped[c] = 1 .. sent[c]
       /\ HeldIn(got[r], queue[r], Flying(r)) \cap dropped[c] = {}
  BY <1>10 DEF CountOf
<1> QED  BY <1>4, <1>9, <1>11 DEF Complete

\* Between the clients of a pair, whatever they refuse, however their handlers and
\* callbacks send inside one another, and whoever is deleted: packets arrive in the
\* order they were sent, none twice, and none is lost unless it was dropped
\* (qemu_net_queue_send, qemu_net_queue_flush, qemu_net_queue_purge).
THEOREM PairsAreFifo == Spec => []PairFifo
<1>1. Init => Marked /\ PInv
  BY OInit, PInit
<1>2. IInv /\ Marked /\ PInv /\ [Next]_vars => (Marked /\ PInv)'
  BY MStep, PSteps DEF IInv
<1>3. IInv /\ PInv => PairFifo
  BY FifoFrom DEF IInv
<1> QED  BY <1>1, <1>2, <1>3, Invariance, PTL DEF Spec

=============================================================================

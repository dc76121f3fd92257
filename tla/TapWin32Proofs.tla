--------------------------- MODULE TapWin32Proofs ---------------------------
(***************************************************************************)
(* For any finite set of buffers and any number of frames, the reader      *)
(* thread and the main loop of tap-win32.c never lose a buffer, never      *)
(* share one, keep the three semaphores within what the lists hold, and    *)
(* hand frames on in the order of their reading.                           *)
(*                                                                         *)
(* The lists are links between buffers; what the properties say of them is *)
(* said of the walk along the links.  The proof describes the two lists by *)
(* the sequences fr and ou of their buffers: ChainIs shows that the walk   *)
(* from the head of a list finds exactly that sequence, and every action   *)
(* is then an insertion or a removal at one end of it.                     *)
(***************************************************************************)
EXTENDS TapWin32, SequenceTheorems, FiniteSetTheorems, TLAPS

\* Induction over the naturals, for a set in place of a predicate.
LEMMA Induction ==
  ASSUME NEW S, 0 \in S, \A n \in Nat : n \in S => n + 1 \in S
  PROVE  \A n \in Nat : n \in S
<1> SUFFICES ASSUME Nat \ S # {} PROVE FALSE
  OBVIOUS
<1> DEFINE T == Nat \ S
           R == OpToRel(<, Nat)
<1>1. PICK x \in T : \A y \in T : ~(<<y, x>> \in R)
  <2>1. T \subseteq Nat /\ T # {}
    OBVIOUS
  <2>2. IsWellFoundedOn(R, Nat)
    BY NatLessThanWellFounded
  <2> HIDE DEF T, R
  <2> QED  BY <2>1, <2>2, WFMin
<1>2. \A y \in Nat : <<y, x>> \in R <=> y < x
  BY DEF OpToRel
<1> HIDE DEF R
<1>3. \A y \in T : ~ (y < x)
  BY <1>1, <1>2
<1>4. x # 0 /\ x - 1 \in Nat
  OBVIOUS
<1> QED  BY <1>3, <1>4

\* What the next pointers may hold.
Links == [Buffers -> Buffers \cup {NULL}]

\* The recursive definition of Walk defines a function.
LEMMA WalkDef ==
  ASSUME NEW nx \in Links, Count \in Nat
  PROVE  Walk(nx) =
           [k \in 0 .. Count |-> [c \in Buffers \cup {NULL} |->
              IF k = 0 \/ c = NULL THEN << >> ELSE <<c>> \o Walk(nx)[k - 1][nx[c]]]]
<1> DEFINE Def(w, n) ==
      [k \in 0 .. n |-> [c \in Buffers \cup {NULL} |->
              IF k = 0 \/ c = NULL THEN << >> ELSE <<c>> \o w[k - 1][nx[c]]]]
    S == {n \in Nat : \E w : w = Def(w, n)}
<1>1. 0 \in S
  <2> DEFINE w == [k \in 0 .. 0 |-> [c \in Buffers \cup {NULL} |-> << >>]]
  <2>1. w = Def(w, 0)
    OBVIOUS
  <2> QED  BY <2>1
<1>2. ASSUME NEW n \in Nat, n \in S PROVE n + 1 \in S
  <2>1. PICK v : v = Def(v, n)
    BY <1>2
  <2> DEFINE top == [c \in Buffers \cup {NULL} |->
               IF c = NULL THEN << >> ELSE <<c>> \o v[n][nx[c]]]
             w == [k \in 0 .. n + 1 |-> IF k = n + 1 THEN top ELSE v[k]]
  <2>2. ASSUME NEW k \in 0 .. n + 1 PROVE w[k] = Def(w, n + 1)[k]
    <3>1. CASE k = n + 1
      BY <3>1
    <3>2. CASE k # n + 1
      <4>1. k \in 0 .. n /\ w[k] = v[k] /\ (k # 0 => w[k - 1] = v[k - 1])
        BY <3>2
      <4>2. v[k] = [c \in Buffers \cup {NULL} |->
              IF k = 0 \/ c = NULL THEN << >> ELSE <<c>> \o v[k - 1][nx[c]]]
        BY <2>1, <4>1
      <4>3. Def(w, n + 1)[k] = [c \in Buffers \cup {NULL} |->
              IF k = 0 \/ c = NULL THEN << >> ELSE <<c>> \o w[k - 1][nx[c]]]
        OBVIOUS
      <4> HIDE DEF w
      <4> QED BY <4>1, <4>2, <4>3
    <3> QED  BY <3>1, <3>2
  <2>3. w = Def(w, n + 1)
    <3> DEFINE d == Def(w, n + 1)
    <3>1. d = [k \in 0 .. n + 1 |-> d[k]] /\ w = [k \in 0 .. n + 1 |-> w[k]]
      OBVIOUS
    <3> HIDE DEF d, w
    <3> QED  BY <3>1, <2>2 DEF d
  <2> HIDE DEF Def, w
  <2>4. \E u : u = Def(u, n + 1)
    BY <2>3
  <2> QED  BY <2>4
<1>3. \E w : w = Def(w, Count)
  <2> HIDE DEF S
  <2>1. Count \in S
    BY <1>1, <1>2, Induction
  <2> QED  BY <2>1 DEF S
<1>4. Walk(nx) = CHOOSE w : w = Def(w, Count)
  BY DEF Walk
<1> HIDE DEF Def
<1>5. Walk(nx) = Def(Walk(nx), Count)
  BY <1>3, <1>4
<1> QED  BY <1>5 DEF Def

\* One step of the walk.
LEMMA WalkStep ==
  ASSUME NEW nx \in Links, Count \in Nat, NEW k \in 0 .. Count,
         NEW c \in Buffers \cup {NULL}
  PROVE  Walk(nx)[k][c] =
           IF k = 0 \/ c = NULL THEN << >> ELSE <<c>> \o Walk(nx)[k - 1][nx[c]]
<1> DEFINE W == Walk(nx)
<1>1. W = [j \in 0 .. Count |-> [d \in Buffers \cup {NULL} |->
              IF j = 0 \/ d = NULL THEN << >> ELSE <<d>> \o W[j - 1][nx[d]]]]
  BY WalkDef
<1> HIDE DEF W
<1>2. W[k] = [d \in Buffers \cup {NULL} |->
              IF k = 0 \/ d = NULL THEN << >> ELSE <<d>> \o W[k - 1][nx[d]]]
  BY <1>1
<1>3. W[k][c] = IF k = 0 \/ c = NULL THEN << >> ELSE <<c>> \o W[k - 1][nx[c]]
  BY <1>2
<1> QED  BY <1>3 DEF W

\* s is the chain that begins at b.
IsChain(nx, s, b) ==
  /\ s \in Seq(Buffers)
  /\ b = IF s = << >> THEN NULL ELSE s[1]
  /\ \A i \in 1 .. Len(s) : nx[s[i]] = IF i = Len(s) THEN NULL ELSE s[i + 1]

\* What ChainOf computes: the walk from a chain's first buffer finds the chain.
LEMMA ChainIs ==
  ASSUME NEW nx \in Links, NEW s, NEW b, Count \in Nat, Len(s) <= Count,
         IsChain(nx, s, b)
  PROVE  ChainOf(nx, b) = s
<1> DEFINE from(n) == IF n = 0 THEN NULL ELSE s[Len(s) - n + 1]
           rest(n) == SubSeq(s, Len(s) - n + 1, Len(s))
           S == {n \in Nat : n <= Len(s) =>
                   \A k \in n .. Count : Walk(nx)[k][from(n)] = rest(n)}
<1>0. s \in Seq(Buffers) /\ Len(s) \in Nat /\ NULL \notin Buffers
  BY TapAssumption DEF IsChain
<1>1. 0 \in S
  <2>1. rest(0) = << >>
    BY <1>0, SubSeqEmpty
  <2>2. \A k \in 0 .. Count : Walk(nx)[k][NULL] = << >>
    BY WalkStep
  <2> QED  BY <2>1, <2>2
<1>2. ASSUME NEW n \in Nat, n \in S PROVE n + 1 \in S
  <2> SUFFICES ASSUME n + 1 <= Len(s), NEW k \in n + 1 .. Count
               PROVE  Walk(nx)[k][from(n + 1)] = rest(n + 1)
    <3> HIDE DEF from, rest
    <3> QED  OBVIOUS
  <2> DEFINE m == Len(s) - n
  <2>1. m \in 1 .. Len(s) /\ from(n + 1) = s[m] /\ s[m] \in Buffers
    BY <1>0
  <2>2. nx[s[m]] = from(n)
    BY <2>1, <1>0 DEF IsChain
  <2>3. Walk(nx)[k - 1][from(n)] = rest(n)
    BY <1>0, <1>2
  <2>4. k \in 0 .. Count /\ k # 0 /\ s[m] # NULL
    BY <2>1, <1>0
  <2>5. Walk(nx)[k][s[m]] = <<s[m]>> \o Walk(nx)[k - 1][nx[s[m]]]
    <3> HIDE DEF m
    <3> QED  BY <2>1, <2>4, WalkStep
  <2>6. rest(n + 1) = <<s[m]>> \o rest(n)
    <3>1. m \in 1 .. Len(s) /\ Len(s) \in m .. Len(s)
      BY <2>1, <1>0
    <3>2. SubSeq(s, m, Len(s)) = <<s[m]>> \o SubSeq(s, m + 1, Len(s))
      BY <1>0, <3>1, SubSeqRecursiveFirst
    <3>3. Len(s) - (n + 1) + 1 = m /\ Len(s) - n + 1 = m + 1
      BY <1>0
    <3> QED  BY <3>2, <3>3
  <2> QED  BY <2>1, <2>2, <2>3, <2>5, <2>6
<1>3. Len(s) \in S
  <2> HIDE DEF S
  <2> QED  BY <1>0, <1>1, <1>2, Induction
<1>4. Walk(nx)[Count][from(Len(s))] = rest(Len(s))
  BY <1>0, <1>3
<1>5. rest(Len(s)) = s
  <2>1. Len(s) - Len(s) + 1 = 1
    BY <1>0
  <2> QED  BY <2>1, <1>0, SubSeqFull
<1>6. from(Len(s)) = b
  BY <1>0 DEF IsChain
<1> QED  BY <1>4, <1>5, <1>6 DEF ChainOf

-----------------------------------------------------------------------------
(* The inductive invariant, about a free list fr and an output queue ou.     *)

\* The pointers of both lists are those of fr and ou.
Linked(fr, ou) ==
  /\ IsChain(next, fr, free_list) /\ IsChain(next, ou, front)
  /\ back = IF ou = << >> THEN NULL ELSE ou[Len(ou)]
  /\ tbuf # NULL => next[tbuf] = NULL

\* No buffer is in two places.
Apart(fr, ou) ==
  /\ \A i, j \in 1 .. Len(fr) : fr[i] = fr[j] => i = j
  /\ \A i, j \in 1 .. Len(ou) : ou[i] = ou[j] => i = j
  /\ \A i \in 1 .. Len(fr), j \in 1 .. Len(ou) : fr[i] # ou[j]
  /\ \A i \in 1 .. Len(fr) : fr[i] # tbuf /\ fr[i] # mbuf
  /\ \A i \in 1 .. Len(ou) : ou[i] # tbuf /\ ou[i] # mbuf
  /\ tbuf # NULL => tbuf # mbuf

\* Every buffer is somewhere.
Placed(fr, ou) ==
  /\ \A b \in Buffers :
       \/ b = tbuf \/ b = mbuf
       \/ \E i \in 1 .. Len(fr) : fr[i] = b
       \/ \E i \in 1 .. Len(ou) : ou[i] = b
  /\ Len(fr) + Len(ou) + In(tpc, {"read", "put"}) + (IF mbuf # NULL THEN 1 ELSE 0) = Count

\* Where each thread has a buffer in hand, and a packet to write.
Positions ==
  /\ tbuf # NULL <=> tpc \in {"read", "put"}
  /\ mbuf # NULL <=> \/ mpc \in {"send", "free_put"}
                     \/ mpc \in {"flush", "w_test", "w_wait", "w_file"} /\ mret = "free_put"
  /\ mpc \in {"w_test", "w_wait", "w_file"} => queued < packets

\* A semaphore counts the buffers of its list, but for the steps between taking or
\* returning one and changing the list.
Semaphores(fr, ou) ==
  /\ Len(fr) = free_sema + In(tpc, {"take"}) + In(mpc, {"free_release"})
  /\ Len(ou) = out_sema + In(mpc, {"out_take"}) + In(tpc, {"release_out"})
  /\ tap_sema + In(mpc, {"out_wait"}) + In(tpc, {"release_tap"}) = out_sema

\* The frames in the queue, with the threads and sent are those read, in order.
Ordered(ou) ==
  /\ \A i \in 1 .. Len(sent) : sent[i] = i
  /\ \A i \in 1 .. Len(ou) : frame[ou[i]] = Len(sent) + In(mpc, {"send"}) + i
  /\ mpc = "send" => frame[mbuf] = Len(sent) + 1
  /\ tpc = "put" => frame[tbuf] = read
  /\ Len(sent) + In(mpc, {"send"}) + Len(ou) + In(tpc, {"put"}) = read

\* The invariant, for given sequences ...
Sound(fr, ou) ==
  /\ TypeOK /\ Positions
  /\ Linked(fr, ou) /\ Apart(fr, ou) /\ Placed(fr, ou)
  /\ Semaphores(fr, ou) /\ Ordered(ou)

\* ... and for those that the walks find.
IInv == Sound(Chain(free_list), Chain(front))

\* There are as many buffers as Count says, a natural number.
LEMMA CountNat == Count \in Nat
BY FS_CardinalityType, TapAssumption DEF Count

\* It is enough to find the two chains.
LEMMA Found ==
  ASSUME NEW fr, NEW ou, Sound(fr, ou)'
  PROVE  IInv'
<1>1. /\ fr \in Seq(Buffers) /\ ou \in Seq(Buffers)
      /\ Len(fr) \in Nat /\ Len(ou) \in Nat
  BY DEF Sound, Linked, IsChain
<1>2. Len(fr) <= Count /\ Len(ou) <= Count
  BY <1>1, CountNat DEF Sound, Placed, In
<1>3. next' \in Links
  BY DEF Sound, TypeOK, Links
<1>4. IsChain(next', fr, free_list') /\ IsChain(next', ou, front')
  BY DEF Sound, Linked
<1>5. ChainOf(next', free_list') = fr
  BY <1>1, <1>2, <1>3, <1>4, CountNat, ChainIs
<1>6. ChainOf(next', front') = ou
  BY <1>1, <1>2, <1>3, <1>4, CountNat, ChainIs
<1>7. Chain(free_list)' = fr /\ Chain(front)' = ou
  BY <1>5, <1>6 DEF Chain
<1> QED  BY <1>7 DEF IInv

-----------------------------------------------------------------------------
\* A step that leaves the lists, the buffers in hand and the frames alone.
LEMMA ListsKept ==
  ASSUME NEW fr, NEW ou, Sound(fr, ou),
         UNCHANGED <<listVars, tbuf, mbuf>>
  PROVE  Linked(fr, ou)' /\ Apart(fr, ou)'
BY DEF Sound, Linked, Apart, listVars

\* The main loop writes packets: the receiving side is not touched.
LEMMA WriteSteps ==
  ASSUME NEW fr, NEW ou, Sound(fr, ou),
         tap_cleanup \/ Deliver \/ Flush \/ tap_win32_write \/ WriteDone
  PROVE  Sound(fr, ou)'
<1> USE DEF Sound
<1>1. /\ UNCHANGED <<listVars, frame, semaVars, tbuf, mbuf, tpc, read, sent>>
      /\ mpc' = mpc \/ (/\ mpc \in {"idle", "flush", "w_test", "w_wait", "w_file"}
                        /\ mpc' \in {"idle", "free_put", "flush", "w_test", "w_wait", "w_file"})
  BY DEF tap_cleanup, Deliver, Flush, tap_win32_write, WriteTest, WriteWait,
         WriteFileEnds, WriteFilePending, WriteDone, writeOnly, mainOnly, MGo, TypeOK
<1>2. Linked(fr, ou)' /\ Apart(fr, ou)'
  BY <1>1, ListsKept
<1>3. Placed(fr, ou)' /\ Semaphores(fr, ou)' /\ Ordered(ou)'
  BY <1>1 DEF Placed, Semaphores, Ordered, In, semaVars
<1>4. TypeOK' /\ Positions'
  <2> USE DEF TypeOK, Positions
  <2>0. UNCHANGED <<listVars, frame, semaVars, tbuf, mbuf, tpc, read, sent>>
    BY <1>1
  <2>1. CASE tap_cleanup
    BY <2>0, <2>1, ZenonT(40) DEF tap_cleanup, listVars, semaVars, writeVars
  <2>2. CASE Deliver
    <3>1. PICK kind \in {"plain", "iov"} :
            /\ wkind' = kind
            /\ IF kind = "plain" /\ disabled
               THEN queued' = queued + 1 /\ mpc' = "idle"
               ELSE mpc' = "w_test" /\ queued' = queued
      BY <2>2 DEF Deliver
    <3>2. /\ mpc = "idle" /\ packets < MaxPackets /\ packets' = packets + 1
          /\ mret' = "idle" /\ UNCHANGED <<write, wevent, disabled, registered>>
      BY <2>2 DEF Deliver, writeOnly
    <3>3. mpc' \in {"idle", "w_test"} /\ queued' \in 0 .. packets'
      BY <3>1, <3>2, TapAssumption
    <3>4. packets' \in 0 .. MaxPackets /\ wkind' \in {"plain", "iov", "queued"}
      BY <3>1, <3>2, TapAssumption
    <3>5. TypeOK'
      BY <2>0, <3>2, <3>3, <3>4 DEF listVars, semaVars
    <3>6. Positions'
      BY <2>0, <3>1, <3>2
    <3> QED  BY <3>5, <3>6
  <2>3. CASE Flush
    BY <2>0, <2>3 DEF Flush, listVars, semaVars, writeOnly
  <2>4. CASE WriteTest
    BY <2>0, <2>4 DEF WriteTest, listVars, semaVars, writeVars, writeOnly
  <2>5. CASE WriteWait
    BY <2>0, <2>5 DEF WriteWait, MGo, listVars, semaVars, writeOnly
  <2>6. CASE WriteFileEnds
    BY <2>0, <2>6 DEF WriteFileEnds, MGo, listVars, semaVars, writeOnly
  <2>7. CASE WriteFilePending
    <3>1. /\ mpc = "w_file" /\ mpc' = mret /\ write' = "pending" /\ wevent' = FALSE
          /\ queued' = queued + 1 /\ disabled' = (disabled \/ wkind # "iov")
          /\ UNCHANGED <<mret, wkind, packets, registered>>
      BY <2>7 DEF WriteFilePending, writeOnly
    <3>2. disabled' \in BOOLEAN
      BY <3>1
    <3>3. queued' \in 0 .. packets'
      BY <3>1
    <3>4. TypeOK'
      BY <2>0, <3>1, <3>2, <3>3 DEF listVars, semaVars
    <3>5. Positions'
      BY <2>0, <3>1
    <3> QED  BY <3>4, <3>5
  <2>8. CASE WriteDone
    BY <2>0, <2>8 DEF WriteDone, listVars, semaVars, writeOnly
  <2> QED  BY <2>1, <2>2, <2>3, <2>4, <2>5, <2>6, <2>7, <2>8 DEF tap_win32_write
<1> QED  BY <1>2, <1>3, <1>4

\* Waiting for a semaphore and releasing one.  No release is lost at the maximum.
LEMMA SemaphoreSteps ==
  ASSUME NEW fr, NEW ou, Sound(fr, ou),
         \/ FreeWait \/ OutRelease \/ TapRelease
         \/ MainWait \/ OutWait \/ FreeRelease
  PROVE  Sound(fr, ou)'
<1> USE DEF Sound
<1>0. fr \in Seq(Buffers) /\ ou \in Seq(Buffers) /\ Len(fr) \in Nat /\ Len(ou) \in Nat
  BY DEF Linked, IsChain
<1>1. /\ UNCHANGED <<listVars, frame, tbuf, mbuf, registered, read, sent, writeVars>>
      /\ tpc' = tpc \/ (tpc \notin {"read", "put"} /\ tpc' \notin {"read", "put"})
      /\ mpc' = mpc \/ (/\ mpc \in {"idle", "out_wait", "out_take", "free_release"}
                        /\ mpc' \in {"idle", "out_wait", "out_take", "free_release"})
  BY DEF FreeWait, OutRelease, TapRelease, MainWait, OutWait, FreeRelease, threadOnly,
         mainOnly, TGo, MGo
<1>2. Linked(fr, ou)' /\ Apart(fr, ou)'
  BY <1>1, ListsKept
<1>3. Placed(fr, ou)' /\ Ordered(ou)' /\ Positions'
  BY <1>1 DEF Placed, Ordered, In, Positions, writeVars
<1>4. /\ Semaphores(fr, ou)'
      /\ free_sema' \in 0 .. Count /\ out_sema' \in 0 .. Count /\ tap_sema' \in 0 .. Count
      /\ tpc' \in {"get", "take", "read", "put", "release_out", "release_tap"}
      /\ mpc' \in {"idle", "out_wait", "out_take", "send", "flush", "free_put",
                   "free_release", "w_test", "w_wait", "w_file"}
  <2>1. Len(fr) <= Count /\ Len(ou) <= Count
    BY <1>0, CountNat DEF Placed, In
  <2> USE <1>0, <2>1, CountNat DEF Semaphores, In, TypeOK, TGo, MGo, Released
  <2>2. CASE FreeWait
    BY <2>2 DEF FreeWait, threadOnly
  <2>3. CASE OutRelease
    BY <2>3 DEF OutRelease, threadOnly
  <2>4. CASE TapRelease
    BY <2>4 DEF TapRelease, threadOnly
  <2>5. CASE MainWait
    BY <2>5 DEF MainWait, mainOnly
  <2>6. CASE OutWait
    BY <2>6, SMTT(30) DEF OutWait, mainOnly
  <2>7. CASE FreeRelease
    BY <2>7 DEF FreeRelease, mainOnly
  <2> QED  BY <2>2, <2>3, <2>4, <2>5, <2>6, <2>7
<1>5. TypeOK'
  BY <1>1, <1>4 DEF TypeOK, listVars, writeVars
<1> QED  BY <1>2, <1>3, <1>4, <1>5

\* The numbers and sequences of a sound state.
LEMMA Sizes ==
  ASSUME NEW fr, NEW ou, Sound(fr, ou)
  PROVE  /\ fr \in Seq(Buffers) /\ Len(fr) \in Nat /\ DOMAIN fr = 1 .. Len(fr)
         /\ ou \in Seq(Buffers) /\ Len(ou) \in Nat /\ DOMAIN ou = 1 .. Len(ou)
         /\ Len(sent) \in Nat /\ read \in Nat
         /\ free_sema \in Nat /\ out_sema \in Nat /\ tap_sema \in Nat
         /\ frame \in [Buffers -> Nat]
         /\ Len(fr) <= Count /\ Len(ou) <= Count
<1>1. /\ fr \in Seq(Buffers) /\ Len(fr) \in Nat /\ DOMAIN fr = 1 .. Len(fr)
      /\ ou \in Seq(Buffers) /\ Len(ou) \in Nat /\ DOMAIN ou = 1 .. Len(ou)
  BY DEF Sound, Linked, IsChain
<1>2. /\ Len(sent) \in Nat /\ read \in Nat
      /\ free_sema \in Nat /\ out_sema \in Nat /\ tap_sema \in Nat
      /\ frame \in [Buffers -> Nat]
  BY DEF Sound, TypeOK
<1>3. Len(fr) <= Count /\ Len(ou) <= Count
  BY <1>1, CountNat DEF Sound, Placed, In
<1> QED  BY <1>1, <1>2, <1>3

\* Dropping the first element.
LEMMA TailIs ==
  ASSUME NEW s \in Seq(Buffers), Len(s) >= 1
  PROVE  /\ Tail(s) \in Seq(Buffers) /\ Len(Tail(s)) = Len(s) - 1
         /\ \A i \in 1 .. Len(Tail(s)) : Tail(s)[i] = s[i + 1]
         /\ Tail(s) = << >> <=> Len(s) = 1
<1>1. s # << >> /\ Len(s) \in Nat
  OBVIOUS
<1>2. /\ Tail(s) \in Seq(Buffers) /\ Len(Tail(s)) = Len(s) - 1
      /\ \A i \in 1 .. Len(Tail(s)) : Tail(s)[i] = s[i + 1]
  BY <1>1, HeadTailProperties
<1>3. Tail(s) = << >> <=> Len(Tail(s)) = 0
  BY <1>2, EmptySeq
<1> QED  BY <1>1, <1>2, <1>3

\* A frame is read into the thread's buffer, and passed on from the main loop's.
LEMMA FrameSteps ==
  ASSUME NEW fr, NEW ou, Sound(fr, ou), ReadFile \/ Send
  PROVE  Sound(fr, ou)'
<1> USE DEF Sound
<1>0. fr \in Seq(Buffers) /\ ou \in Seq(Buffers) /\ Len(fr) \in Nat /\ Len(ou) \in Nat
  BY DEF Linked, IsChain
<1>1. UNCHANGED <<listVars, semaVars, tbuf, mbuf>>
  BY DEF ReadFile, Send, threadOnly, mainOnly
<1>2. Linked(fr, ou)' /\ Apart(fr, ou)'
  BY <1>1, ListsKept
<1>3. CASE ReadFile
  <2>1. /\ tpc = "read" /\ tpc' = "put" /\ read < MaxFrames /\ read' = read + 1
        /\ frame' = [frame EXCEPT ![tbuf] = read + 1]
        /\ UNCHANGED <<mpc, registered, sent, writeVars>>
    BY <1>3 DEF ReadFile, TGo, threadOnly
  <2>2. tbuf \in Buffers
    BY <2>1 DEF Positions, TypeOK
  <2>3. TypeOK'
    BY <1>1, <2>1, <2>2, TapAssumption DEF TypeOK, listVars, semaVars, writeVars
  <2>4. Placed(fr, ou)' /\ Semaphores(fr, ou)' /\ Positions'
    BY <1>1, <2>1 DEF Placed, Semaphores, Positions, In, semaVars, writeVars
  <2>5. /\ \A i \in 1 .. Len(ou) : ou[i] \in Buffers /\ ou[i] # tbuf
        /\ mpc = "send" => mbuf \in Buffers /\ mbuf # tbuf
    BY <1>0, <2>2, TapAssumption DEF Apart, Positions, TypeOK
  <2>6. Ordered(ou)'
    <3>1. \A b \in Buffers : frame'[b] = IF b = tbuf THEN read + 1 ELSE frame[b]
      BY <2>1 DEF TypeOK
    <3>2. /\ \A i \in 1 .. Len(ou) : frame'[ou[i]] = frame[ou[i]]
          /\ mpc = "send" => frame'[mbuf] = frame[mbuf]
          /\ frame'[tbuf] = read'
      BY <2>1, <2>2, <2>5, <3>1
    <3>3. In(mpc, {"send"})' = In(mpc, {"send"}) /\ In(tpc, {"put"}) = 0 /\ In(tpc, {"put"})' = 1
      BY <2>1 DEF In
    <3> QED  BY <1>1, <2>1, <3>2, <3>3, Sizes DEF Ordered, In
  <2> QED  BY <1>2, <2>3, <2>4, <2>6
<1>4. CASE Send
  <2>1. /\ mpc = "send" /\ mpc' \in {"flush", "free_put"} /\ mret' = "free_put"
        /\ sent' = Append(sent, frame[mbuf])
        /\ UNCHANGED <<frame, registered, wkind, write, wevent, disabled, packets,
                       queued, tpc, read>>
    BY <1>4 DEF Send, mainOnly
  <2>2. mbuf \in Buffers /\ frame[mbuf] = Len(sent) + 1 /\ frame[mbuf] \in 0 .. MaxFrames
    BY <2>1 DEF Positions, TypeOK, Ordered
  <2>3. sent \in Seq(1 .. MaxFrames) /\ Len(sent) \in Nat /\ frame[mbuf] \in 1 .. MaxFrames
    BY <2>2, TapAssumption DEF TypeOK
  <2>4. /\ sent' \in Seq(1 .. MaxFrames) /\ Len(sent') = Len(sent) + 1
        /\ \A i \in 1 .. Len(sent') : sent'[i] = IF i <= Len(sent) THEN sent[i] ELSE frame[mbuf]
    BY <2>1, <2>3
  <2>5. TypeOK'
    BY <1>1, <2>1, <2>4 DEF TypeOK, listVars, semaVars
  <2>6. Placed(fr, ou)' /\ Semaphores(fr, ou)' /\ Positions'
    BY <1>1, <2>1 DEF Placed, Semaphores, Positions, In, semaVars
  <2>7. Ordered(ou)'
    <3>1. /\ In(mpc, {"send"}) = 1 /\ In(mpc, {"send"})' = 0
          /\ In(tpc, {"put"})' = In(tpc, {"put"}) /\ In(tpc, {"put"}) \in Nat
      BY <2>1 DEF In
    <3>2. \A i \in 1 .. Len(ou) : frame'[ou[i]] = Len(sent') + In(mpc, {"send"})' + i
      BY <2>1, <2>4, <3>1, Sizes DEF Ordered
    <3>3. \A i \in 1 .. Len(sent') : sent'[i] = i
      BY <2>2, <2>3, <2>4 DEF Ordered
    <3>4. tpc' = "put" => frame'[tbuf'] = read'
      BY <1>1, <2>1 DEF Ordered
    <3>5. Len(sent') + In(mpc, {"send"})' + Len(ou) + In(tpc, {"put"})' = read'
      BY <2>1, <2>4, <3>1, Sizes DEF Ordered
    <3> QED  BY <2>1, <3>2, <3>3, <3>4, <3>5 DEF Ordered
  <2> QED  BY <1>2, <2>5, <2>6, <2>7
<1> QED  BY <1>3, <1>4

\* get_buffer_from_free_list: the list is not empty, for the wait counted a buffer.
LEMMA FreeTakeStep ==
  ASSUME NEW fr, NEW ou, Sound(fr, ou), FreeTake
  PROVE  IInv'
<1> USE DEF Sound
<1>0. fr \in Seq(Buffers) /\ ou \in Seq(Buffers) /\ Len(fr) \in Nat /\ Len(ou) \in Nat
  BY DEF Linked, IsChain
<1>1. /\ tpc = "take" /\ tpc' = "read" /\ tbuf' = free_list
      /\ free_list' = next[free_list] /\ next' = [next EXCEPT ![free_list] = NULL]
      /\ UNCHANGED <<front, back, frame, semaVars, read, mpc, mbuf, registered, sent,
                     writeVars>>
  BY DEF FreeTake, TGo, threadOnly
<1>2. fr # << >> /\ Len(fr) >= 1 /\ free_list = fr[1] /\ free_list \in Buffers
  <2>1. Len(fr) >= 1
    BY <1>0, <1>1 DEF Semaphores, In, TypeOK
  <2> QED  BY <1>0, <2>1 DEF Linked, IsChain
<1> DEFINE rest == Tail(fr)
<1> HIDE DEF rest
<1>3. /\ rest \in Seq(Buffers) /\ Len(rest) = Len(fr) - 1
      /\ \A i \in 1 .. Len(rest) : rest[i] = fr[i + 1]
      /\ rest = << >> <=> Len(fr) = 1
  BY <1>0, <1>2, TailIs DEF rest
<1>4. next' \in Links /\ next'[free_list] = NULL
      /\ \A b \in Buffers : b # free_list => next'[b] = next[b]
  BY <1>1, <1>2 DEF TypeOK, Links
<1>5. /\ \A i \in 1 .. Len(fr) : i # 1 => fr[i] # free_list
      /\ \A i \in 1 .. Len(ou) : ou[i] # free_list
  BY <1>0, <1>2 DEF Apart
<1>6. IsChain(next', rest, free_list')
  <2>1. free_list' = IF rest = << >> THEN NULL ELSE rest[1]
    BY <1>0, <1>1, <1>2, <1>3 DEF Linked, IsChain
  <2>2. ASSUME NEW i \in 1 .. Len(rest)
        PROVE  next'[rest[i]] = IF i = Len(rest) THEN NULL ELSE rest[i + 1]
    <3>1. i + 1 \in 1 .. Len(fr) /\ fr[i + 1] # free_list /\ fr[i + 1] \in Buffers
      BY <1>0, <1>3, <1>5
    <3>2. next'[fr[i + 1]] = IF i + 1 = Len(fr) THEN NULL ELSE fr[i + 1 + 1]
      BY <1>4, <3>1 DEF Linked, IsChain
    <3> QED  BY <1>0, <1>3, <3>1, <3>2
  <2> QED  BY <1>3, <2>1, <2>2 DEF IsChain
<1>7. IsChain(next', ou, front')
  BY <1>0, <1>1, <1>4, <1>5 DEF Linked, IsChain
<1>8. Linked(rest, ou)'
  BY <1>1, <1>4, <1>6, <1>7 DEF Linked
<1>9. tbuf = NULL
  BY <1>1 DEF Positions
<1>10. mbuf # free_list
  BY <1>0, <1>2 DEF Apart
<1>11. Apart(rest, ou)'
  <2>1. \A i \in 1 .. Len(rest) : i + 1 \in 1 .. Len(fr) /\ rest[i] = fr[i + 1] /\ i + 1 # 1
    BY <1>0, <1>3
  <2>2. \A i, j \in 1 .. Len(rest) : rest[i] = rest[j] => i = j
    <3> SUFFICES ASSUME NEW i \in 1 .. Len(rest), NEW j \in 1 .. Len(rest), rest[i] = rest[j]
                 PROVE  i = j
      OBVIOUS
    <3>1. i + 1 = j + 1
      BY <2>1 DEF Apart
    <3> QED  BY <3>1, <1>0, <1>3
  <2>3. \A i \in 1 .. Len(rest), j \in 1 .. Len(ou) : rest[i] # ou[j]
    BY <2>1 DEF Apart
  <2>4. \A i \in 1 .. Len(rest) : rest[i] # free_list /\ rest[i] # mbuf
    BY <2>1, <1>5 DEF Apart
  <2> QED  BY <1>1, <1>5, <1>10, <2>2, <2>3, <2>4 DEF Apart
<1>12. Placed(rest, ou)'
  <2>1. ASSUME NEW b \in Buffers, NEW i \in 1 .. Len(fr), fr[i] = b, b # free_list
        PROVE  \E j \in 1 .. Len(rest) : rest[j] = b
    <3>1. i # 1 /\ i - 1 \in 1 .. Len(rest) /\ rest[i - 1] = b
      BY <1>0, <1>2, <1>3, <2>1
    <3> QED  BY <3>1
  <2>2. \A b \in Buffers : \/ b = tbuf' \/ b = mbuf'
                           \/ \E i \in 1 .. Len(rest) : rest[i] = b
                           \/ \E i \in 1 .. Len(ou) : ou[i] = b
    BY <1>1, <1>9, <2>1, TapAssumption DEF Placed
  <2> QED  BY <1>0, <1>1, <1>3, <2>2 DEF Placed, In
<1>13. TypeOK'
  BY <1>1, <1>2, <1>4 DEF TypeOK, Links, semaVars, writeVars
<1>14. Positions'
  BY <1>1, <1>2, TapAssumption DEF Positions, writeVars
<1>15. Semaphores(rest, ou)' /\ Ordered(ou)'
  <2>1. Semaphores(rest, ou)'
    BY <1>1, <1>3, Sizes DEF Semaphores, In, semaVars
  <2>2. Ordered(ou)'
    BY <1>1, Sizes DEF Ordered, In
  <2> QED  BY <2>1, <2>2
<1> QED  BY <1>8, <1>11, <1>12, <1>13, <1>14, <1>15, Found

\* put_buffer_on_output_queue: back is the last buffer of the chain, or NULL.
LEMMA OutPutStep ==
  ASSUME NEW fr, NEW ou, Sound(fr, ou), OutPut
  PROVE  IInv'
<1> USE DEF Sound
<1>0. fr \in Seq(Buffers) /\ ou \in Seq(Buffers) /\ Len(fr) \in Nat /\ Len(ou) \in Nat
  BY DEF Linked, IsChain
<1>1. /\ tpc = "put" /\ tpc' = "release_out" /\ back' = tbuf /\ tbuf' = NULL
      /\ IF front = NULL /\ back = NULL
         THEN front' = tbuf /\ next' = next
         ELSE next' = [next EXCEPT ![tbuf] = NULL, ![back] = tbuf] /\ front' = front
      /\ UNCHANGED <<free_list, frame, semaVars, read, mpc, mbuf, registered, sent,
                     writeVars>>
  BY DEF OutPut, TGo, threadOnly
<1>2. tbuf \in Buffers /\ next[tbuf] = NULL /\ tbuf # NULL
  BY <1>1, TapAssumption DEF Positions, TypeOK, Linked
<1>3. PICK longer :
         /\ longer \in Seq(Buffers) /\ Len(longer) = Len(ou) + 1 /\ longer # << >>
         /\ \A i \in 1 .. Len(ou) : longer[i] = ou[i]
         /\ longer[Len(ou) + 1] = tbuf
  BY <1>0, <1>2, AppendProperties
<1>4. /\ \A i \in 1 .. Len(ou) : ou[i] # tbuf /\ ou[i] \in Buffers
      /\ \A i \in 1 .. Len(fr) : fr[i] # tbuf /\ fr[i] \in Buffers
  BY <1>0 DEF Apart
<1>5. /\ next' \in Links /\ front' \in Buffers
      /\ next'[tbuf] = NULL
      /\ ou # << >> => next'[ou[Len(ou)]] = tbuf
      /\ \A c \in Buffers : c # tbuf /\ (ou # << >> => c # ou[Len(ou)]) => next'[c] = next[c]
      /\ front' = longer[1]
  <2>1. CASE ou = << >>
    <3>1. front = NULL /\ back = NULL
      BY <2>1 DEF Linked, IsChain
    <3>2. Len(ou) = 0 /\ longer[1] = tbuf
      BY <1>3, <2>1
    <3> QED  BY <1>1, <1>2, <1>3, <2>1, <3>1, <3>2 DEF TypeOK, Links
  <2>2. CASE ou # << >>
    <3>1. /\ Len(ou) >= 1 /\ front = ou[1] /\ back = ou[Len(ou)] /\ back \in Buffers
          /\ front \in Buffers /\ front # NULL /\ back # tbuf
      BY <1>0, <1>4, <2>2, TapAssumption DEF Linked, IsChain
    <3>2. next' = [next EXCEPT ![tbuf] = NULL, ![back] = tbuf] /\ front' = front
      BY <1>1, <3>1
    <3>3. /\ next \in Links /\ next' \in Links
          /\ \A c \in Buffers : next'[c] = IF c = back THEN tbuf ELSE IF c = tbuf THEN NULL ELSE next[c]
      BY <1>2, <3>1, <3>2 DEF TypeOK, Links
    <3>4. front' = longer[1]
      BY <1>0, <1>3, <3>1, <3>2
    <3> QED  BY <1>2, <2>2, <3>1, <3>2, <3>3, <3>4
  <2> QED  BY <2>1, <2>2
<1>6. IsChain(next', longer, front')
  <2>1. ASSUME NEW i \in 1 .. Len(longer)
        PROVE  next'[longer[i]] = IF i = Len(longer) THEN NULL ELSE longer[i + 1]
    <3>1. CASE i = Len(longer)
      BY <1>0, <1>3, <1>5, <3>1
    <3>2. CASE i = Len(ou)
      <4>1. Len(ou) >= 1 /\ ou # << >> /\ i # Len(longer)
        BY <1>0, <1>3, <3>2
      <4> QED  BY <1>0, <1>3, <1>5, <3>2, <4>1
    <3>3. CASE i # Len(longer) /\ i # Len(ou)
      <4>1. i \in 1 .. Len(ou) /\ i + 1 \in 1 .. Len(ou) /\ Len(ou) \in 1 .. Len(ou)
        BY <1>0, <1>3, <3>3
      <4>2. ou[i] # ou[Len(ou)] /\ ou[i] # tbuf /\ ou[i] \in Buffers
        BY <1>4, <3>3, <4>1 DEF Apart
      <4>3. next'[ou[i]] = ou[i + 1]
        BY <1>5, <3>3, <4>1, <4>2 DEF Linked, IsChain
      <4> QED  BY <1>3, <3>3, <4>1, <4>3
    <3> QED  BY <3>1, <3>2, <3>3
  <2> QED  BY <1>3, <1>5, <2>1 DEF IsChain
<1>7. IsChain(next', fr, free_list')
  <2>1. ASSUME NEW i \in 1 .. Len(fr) PROVE next'[fr[i]] = next[fr[i]]
    <3>1. ou # << >> => Len(ou) \in 1 .. Len(ou)
      BY <1>0
    <3> QED  BY <1>4, <1>5, <3>1 DEF Apart
  <2> QED  BY <1>1, <2>1 DEF Linked, IsChain
<1>8. Linked(fr, longer)'
  BY <1>0, <1>1, <1>3, <1>6, <1>7 DEF Linked
<1>9. \A i \in 1 .. Len(longer) : (i \in 1 .. Len(ou) /\ longer[i] = ou[i])
                                 \/ (i = Len(ou) + 1 /\ longer[i] = tbuf)
  BY <1>0, <1>3
<1>10. Apart(fr, longer)'
  <2>1. \A i, j \in 1 .. Len(longer) : longer[i] = longer[j] => i = j
    BY <1>4, <1>9 DEF Apart
  <2>2. \A i \in 1 .. Len(fr), j \in 1 .. Len(longer) : fr[i] # longer[j]
    BY <1>4, <1>9 DEF Apart
  <2>3. \A i \in 1 .. Len(longer) : longer[i] # NULL /\ longer[i] # mbuf
    BY <1>2, <1>4, <1>9, TapAssumption DEF Apart
  <2>4. \A i \in 1 .. Len(fr) : fr[i] # NULL /\ fr[i] # mbuf
    BY <1>4, TapAssumption DEF Apart
  <2> QED  BY <1>1, <2>1, <2>2, <2>3, <2>4 DEF Apart
<1>11. Placed(fr, longer)'
  <2>1. ASSUME NEW c \in Buffers
        PROVE  \/ c = tbuf' \/ c = mbuf'
               \/ \E i \in 1 .. Len(fr) : fr[i] = c
               \/ \E i \in 1 .. Len(longer) : longer[i] = c
    <3>1. CASE c = tbuf
      BY <1>0, <1>3, <3>1
    <3>2. ASSUME NEW i \in 1 .. Len(ou), ou[i] = c PROVE \E j \in 1 .. Len(longer) : longer[j] = c
      BY <1>0, <1>3, <3>2
    <3> QED  BY <1>1, <3>1, <3>2 DEF Placed
  <2>2. /\ In(tpc, {"read", "put"}) = 1 /\ In(tpc, {"read", "put"})' = 0
    BY <1>1 DEF In
  <2> QED  BY <1>0, <1>1, <1>3, <2>1, <2>2 DEF Placed
<1>12. TypeOK'
  BY <1>1, <1>2, <1>5 DEF TypeOK, Links, semaVars, writeVars
<1>13. Positions'
  BY <1>1 DEF Positions, writeVars
<1>14. Semaphores(fr, longer)'
  BY <1>1, <1>3, Sizes DEF Semaphores, In, semaVars
<1>15. Ordered(longer)'
  <2>1. /\ In(tpc, {"put"}) = 1 /\ In(tpc, {"put"})' = 0
        /\ In(mpc, {"send"})' = In(mpc, {"send"}) /\ In(mpc, {"send"}) \in Nat
    BY <1>1 DEF In
  <2>2. Len(sent) + In(mpc, {"send"}) + Len(longer) = read /\ frame[tbuf] = read
    BY <1>1, <1>3, <2>1, Sizes DEF Ordered
  <2>3. \A i \in 1 .. Len(longer) : frame'[longer[i]] = Len(sent') + In(mpc, {"send"})' + i
    BY <1>1, <1>3, <1>9, <2>1, <2>2, Sizes DEF Ordered
  <2> QED  BY <1>1, <2>1, <2>2, <2>3, Sizes DEF Ordered
<1> QED  BY <1>8, <1>10, <1>11, <1>12, <1>13, <1>14, <1>15, Found

\* get_buffer_from_output_queue: the queue is not empty, for the wait counted a buffer.
LEMMA OutTakeStep ==
  ASSUME NEW fr, NEW ou, Sound(fr, ou), OutTake
  PROVE  IInv'
<1> USE DEF Sound
<1>0. fr \in Seq(Buffers) /\ ou \in Seq(Buffers) /\ Len(fr) \in Nat /\ Len(ou) \in Nat
  BY DEF Linked, IsChain
<1>1. /\ mpc = "out_take" /\ mpc' = "send" /\ mbuf' = front /\ front' = next[front]
      /\ back' = IF next[front] = NULL THEN NULL ELSE back
      /\ UNCHANGED <<next, free_list, frame, semaVars, registered, sent, writeVars, tpc,
                     tbuf, read>>
  BY DEF OutTake, MGo, mainOnly
<1>2. Len(ou) >= 1 /\ front = ou[1] /\ front \in Buffers /\ mbuf = NULL
  <2>1. Len(ou) >= 1
    BY <1>1, Sizes DEF Semaphores, In
  <2> QED  BY <1>0, <1>1, <2>1 DEF Linked, IsChain, Positions
<1>3. PICK rest :
         /\ rest \in Seq(Buffers) /\ Len(rest) = Len(ou) - 1
         /\ \A i \in 1 .. Len(rest) : rest[i] = ou[i + 1]
         /\ rest = << >> <=> Len(ou) = 1
  BY <1>0, <1>2, TailIs
<1>4. \A i \in 1 .. Len(rest) : i + 1 \in 1 .. Len(ou) /\ rest[i] = ou[i + 1] /\ i + 1 # 1
  BY <1>0, <1>3
<1>5. \A i \in 1 .. Len(ou) : ou[i] \in Buffers /\ ou[i] # NULL /\ (i # 1 => ou[i] # front)
  BY <1>0, <1>2, TapAssumption DEF Apart
<1>6. front' = IF rest = << >> THEN NULL ELSE rest[1]
  <2>1. next[ou[1]] = IF 1 = Len(ou) THEN NULL ELSE ou[2]
    <3>1. 1 \in 1 .. Len(ou) /\ 1 + 1 = 2
      BY <1>0, <1>2
    <3> QED  BY <3>1 DEF Linked, IsChain
  <2>2. rest # << >> => rest[1] = ou[2]
    <3>1. rest # << >> => 1 \in 1 .. Len(rest)
      BY <1>0, <1>2, <1>3
    <3> QED  BY <3>1, <1>4
  <2> QED  BY <1>1, <1>2, <1>3, <2>1, <2>2
<1>7. back' = IF rest = << >> THEN NULL ELSE rest[Len(rest)]
  <2>1. CASE rest = << >>
    BY <1>1, <1>6, <2>1
  <2>2. CASE rest # << >>
    <3>1. Len(rest) \in 1 .. Len(rest) /\ Len(rest) + 1 = Len(ou) /\ 1 \in 1 .. Len(rest)
      BY <1>0, <1>2, <1>3, <2>2
    <3>2. front' # NULL /\ back = ou[Len(ou)]
      BY <1>4, <1>5, <1>6, <2>2, <3>1 DEF Linked
    <3> QED  BY <1>1, <1>4, <2>2, <3>1, <3>2
  <2> QED  BY <2>1, <2>2
<1>8. Linked(fr, rest)'
  <2>1. ASSUME NEW i \in 1 .. Len(rest)
        PROVE  next[rest[i]] = IF i = Len(rest) THEN NULL ELSE rest[i + 1]
    <3>1. next[ou[i + 1]] = IF i + 1 = Len(ou) THEN NULL ELSE ou[i + 1 + 1]
      BY <1>4 DEF Linked, IsChain
    <3>2. i # Len(rest) => rest[i + 1] = ou[i + 1 + 1]
      BY <1>0, <1>3
    <3> QED  BY <1>0, <1>3, <3>1, <3>2
  <2>2. IsChain(next', rest, front')
    BY <1>1, <1>3, <1>6, <2>1 DEF IsChain
  <2> QED  BY <1>1, <1>7, <2>2 DEF Linked
<1>9. Apart(fr, rest)'
  <2>1. \A i, j \in 1 .. Len(rest) : rest[i] = rest[j] => i = j
    <3> SUFFICES ASSUME NEW i \in 1 .. Len(rest), NEW j \in 1 .. Len(rest), rest[i] = rest[j]
                 PROVE  i = j
      OBVIOUS
    <3>1. i + 1 = j + 1
      BY <1>4 DEF Apart
    <3> QED  BY <3>1, <1>0, <1>3
  <2>2. \A i \in 1 .. Len(fr), j \in 1 .. Len(rest) : fr[i] # rest[j]
    BY <1>4 DEF Apart
  <2>3. \A i \in 1 .. Len(rest) : rest[i] # tbuf /\ rest[i] # front
    BY <1>4, <1>5 DEF Apart
  <2>4. 1 \in 1 .. Len(ou)
    BY <1>0, <1>2
  <2>5. tbuf # front /\ \A i \in 1 .. Len(fr) : fr[i] # front
    BY <1>2, <2>4 DEF Apart
  <2> QED  BY <1>1, <2>1, <2>2, <2>3, <2>5 DEF Apart
<1>10. Placed(fr, rest)'
  <2>1. ASSUME NEW c \in Buffers, NEW i \in 1 .. Len(ou), ou[i] = c, c # front
        PROVE  \E j \in 1 .. Len(rest) : rest[j] = c
    <3>1. i # 1 /\ i - 1 \in 1 .. Len(rest) /\ rest[i - 1] = c
      BY <1>0, <1>2, <1>3, <2>1
    <3> QED  BY <3>1
  <2>2. \A c \in Buffers :
           c = tbuf' \/ c = mbuf' \/ (\E i \in 1 .. Len(fr) : fr[i] = c)
             \/ (\E i \in 1 .. Len(rest) : rest[i] = c)
    BY <1>1, <1>2, <2>1, TapAssumption DEF Placed
  <2>3. mbuf' # NULL
    BY <1>1, <1>2, TapAssumption
  <2> QED  BY <1>0, <1>1, <1>2, <1>3, <2>2, <2>3, SMTT(30) DEF Placed, In
<1>11. TypeOK'
  <2>1. front' \in Buffers \cup {NULL} /\ back' \in Buffers \cup {NULL}
    BY <1>1, <1>2 DEF TypeOK
  <2> QED  BY <1>1, <1>2, <2>1 DEF TypeOK, semaVars, writeVars
<1>12. Positions'
  BY <1>1, <1>2, TapAssumption DEF Positions, writeVars
<1>13. Semaphores(fr, rest)'
  BY <1>1, <1>3, Sizes DEF Semaphores, In, semaVars
<1>14. Ordered(rest)'
  <2>1. /\ In(mpc, {"send"}) = 0 /\ In(mpc, {"send"})' = 1
        /\ In(tpc, {"put"})' = In(tpc, {"put"}) /\ In(tpc, {"put"}) \in Nat
    BY <1>1 DEF In
  <2>2. \A i \in 1 .. Len(rest) : frame'[rest[i]] = Len(sent') + In(mpc, {"send"})' + i
    <3> SUFFICES ASSUME NEW i \in 1 .. Len(rest)
                 PROVE  frame[ou[i + 1]] = Len(sent) + 1 + i
      BY <1>1, <1>4, <2>1
    <3>1. frame[ou[i + 1]] = Len(sent) + In(mpc, {"send"}) + (i + 1)
      BY <1>4 DEF Ordered
    <3> QED  BY <1>0, <1>3, <2>1, <3>1, Sizes
  <2>3. frame'[mbuf'] = Len(sent') + 1
    BY <1>0, <1>1, <1>2, <2>1, Sizes DEF Ordered
  <2> QED  BY <1>1, <1>3, <2>1, <2>2, <2>3, Sizes DEF Ordered
<1> QED  BY <1>8, <1>9, <1>10, <1>11, <1>12, <1>13, <1>14, Found

\* put_buffer_on_free_list.
LEMMA FreePutStep ==
  ASSUME NEW fr, NEW ou, Sound(fr, ou), FreePut
  PROVE  IInv'
<1> USE DEF Sound
<1>0. fr \in Seq(Buffers) /\ ou \in Seq(Buffers) /\ Len(fr) \in Nat /\ Len(ou) \in Nat
  BY DEF Linked, IsChain
<1>1. /\ mpc = "free_put" /\ mpc' = "free_release" /\ mbuf' = NULL
      /\ next' = [next EXCEPT ![mbuf] = free_list] /\ free_list' = mbuf
      /\ UNCHANGED <<front, back, frame, semaVars, registered, sent, writeVars, tpc,
                     tbuf, read>>
  BY DEF FreePut, MGo, mainOnly
<1>2. mbuf \in Buffers /\ mbuf # NULL /\ free_list \in Buffers \cup {NULL}
  BY <1>1, TapAssumption DEF Positions, TypeOK
<1>3. PICK longer :
         /\ longer \in Seq(Buffers) /\ Len(longer) = Len(fr) + 1 /\ longer # << >>
         /\ longer[1] = mbuf
         /\ \A i \in 1 .. Len(fr) : longer[i + 1] = fr[i]
  <2> DEFINE s == <<mbuf>> \o fr
  <2>1. <<mbuf>> \in Seq(Buffers) /\ Len(<<mbuf>>) = 1 /\ <<mbuf>>[1] = mbuf
    BY <1>2
  <2>2. /\ s \in Seq(Buffers) /\ Len(s) = 1 + Len(fr)
        /\ \A i \in 1 .. 1 + Len(fr) : s[i] = IF i <= 1 THEN <<mbuf>>[i] ELSE fr[i - 1]
    BY <1>0, <2>1, ConcatProperties
  <2> HIDE DEF s
  <2>3. s[1] = mbuf /\ s # << >>
    BY <1>0, <2>1, <2>2
  <2>4. \A i \in 1 .. Len(fr) : s[i + 1] = fr[i]
    BY <1>0, <2>2
  <2> QED  BY <1>0, <2>2, <2>3, <2>4
<1>4. \A i \in 1 .. Len(longer) : (i = 1 /\ longer[i] = mbuf)
                                 \/ (i - 1 \in 1 .. Len(fr) /\ longer[i] = fr[i - 1])
  <2> SUFFICES ASSUME NEW i \in 1 .. Len(longer), i # 1
               PROVE  i - 1 \in 1 .. Len(fr) /\ longer[i] = fr[i - 1]
    BY <1>3
  <2>1. i - 1 \in 1 .. Len(fr) /\ (i - 1) + 1 = i
    BY <1>0, <1>3
  <2> QED  BY <1>3, <2>1
<1>5. /\ next' \in Links
      /\ \A c \in Buffers : next'[c] = IF c = mbuf THEN free_list ELSE next[c]
  BY <1>1, <1>2 DEF TypeOK, Links
<1>6. /\ \A i \in 1 .. Len(fr) : fr[i] \in Buffers /\ fr[i] # mbuf /\ fr[i] # NULL
      /\ \A i \in 1 .. Len(ou) : ou[i] \in Buffers /\ ou[i] # mbuf /\ ou[i] # NULL
  BY <1>0, TapAssumption DEF Apart
<1>7. IsChain(next', longer, free_list')
  <2>1. ASSUME NEW i \in 1 .. Len(longer)
        PROVE  next'[longer[i]] = IF i = Len(longer) THEN NULL ELSE longer[i + 1]
    <3>1. CASE i = 1
      <4>1. next'[longer[i]] = free_list
        BY <1>2, <1>3, <1>5, <3>1
      <4>2. CASE fr = << >>
        BY <1>3, <3>1, <4>1, <4>2 DEF Linked, IsChain
      <4>3. CASE fr # << >>
        <5>1. Len(fr) >= 1 /\ 1 \in 1 .. Len(fr)
          BY <1>0, <4>3
        <5>2. free_list = fr[1] /\ longer[1 + 1] = fr[1]
          BY <1>3, <4>3, <5>1 DEF Linked, IsChain
        <5> QED  BY <1>0, <1>3, <3>1, <4>1, <5>1, <5>2
      <4> QED  BY <4>2, <4>3
    <3>2. CASE i # 1
      <4>1. i - 1 \in 1 .. Len(fr) /\ longer[i] = fr[i - 1]
        BY <1>4, <3>2
      <4>2. next'[fr[i - 1]] = IF i - 1 = Len(fr) THEN NULL ELSE fr[(i - 1) + 1]
        BY <1>5, <1>6, <4>1 DEF Linked, IsChain
      <4>3. i # Len(longer) => i \in 1 .. Len(fr) /\ longer[i + 1] = fr[i]
        BY <1>0, <1>3, <3>2
      <4>4. (i - 1) + 1 = i /\ (i - 1 = Len(fr) <=> i = Len(longer))
        BY <1>0, <1>3
      <4> QED  BY <4>1, <4>2, <4>3, <4>4
    <3> QED  BY <3>1, <3>2
  <2> QED  BY <1>1, <1>3, <2>1 DEF IsChain
<1>8. Linked(longer, ou)'
  <2>1. IsChain(next', ou, front')
    BY <1>0, <1>1, <1>5, <1>6 DEF Linked, IsChain
  <2>2. tbuf # NULL => next'[tbuf] = NULL
    <3>1. tbuf # NULL => tbuf \in Buffers /\ tbuf # mbuf
      BY DEF TypeOK, Apart
    <3> QED  BY <1>5, <3>1 DEF Linked
  <2> QED  BY <1>1, <1>7, <2>1, <2>2 DEF Linked
<1>9. Apart(longer, ou)'
  <2>1. \A i, j \in 1 .. Len(longer) : longer[i] = longer[j] => i = j
    <3> SUFFICES ASSUME NEW i \in 1 .. Len(longer), NEW j \in 1 .. Len(longer),
                        longer[i] = longer[j]
                 PROVE  i = j
      OBVIOUS
    <3>1. CASE i = 1 \/ j = 1
      BY <1>4, <1>6, <3>1, SMTT(30)
    <3>2. CASE i # 1 /\ j # 1
      <4>1. i - 1 = j - 1
        BY <1>4, <3>2 DEF Apart
      <4> QED  BY <1>0, <1>3, <4>1
    <3> QED  BY <3>1, <3>2
  <2>2. \A i \in 1 .. Len(longer), j \in 1 .. Len(ou) : longer[i] # ou[j]
    BY <1>4, <1>6 DEF Apart
  <2>3. \A i \in 1 .. Len(longer) : longer[i] # tbuf /\ longer[i] # NULL
    BY <1>2, <1>4, <1>6 DEF Apart
  <2> QED  BY <1>1, <1>6, <2>1, <2>2, <2>3 DEF Apart
<1>10. Placed(longer, ou)'
  <2>1. ASSUME NEW c \in Buffers
        PROVE  c = tbuf' \/ c = mbuf' \/ (\E i \in 1 .. Len(longer) : longer[i] = c)
                 \/ (\E i \in 1 .. Len(ou) : ou[i] = c)
    <3>1. CASE c = mbuf
      BY <1>0, <1>3, <3>1
    <3>2. ASSUME NEW i \in 1 .. Len(fr), fr[i] = c
          PROVE  \E j \in 1 .. Len(longer) : longer[j] = c
      <4>1. i + 1 \in 1 .. Len(longer) /\ longer[i + 1] = c
        BY <1>0, <1>3, <3>2
      <4> QED  BY <4>1
    <3> QED  BY <1>1, <3>1, <3>2 DEF Placed
  <2> QED  BY <1>0, <1>1, <1>2, <1>3, <2>1 DEF Placed, In
<1>11. TypeOK'
  BY <1>1, <1>2, <1>5 DEF TypeOK, Links, semaVars, writeVars
<1>12. Positions'
  BY <1>1 DEF Positions, writeVars
<1>13. Semaphores(longer, ou)'
  BY <1>1, <1>3, Sizes DEF Semaphores, In, semaVars
<1>14. Ordered(ou)'
  BY <1>1 DEF Ordered, In
<1> QED  BY <1>8, <1>9, <1>10, <1>11, <1>12, <1>13, <1>14, Found

-----------------------------------------------------------------------------
\* SetToSeq lists every element once.
LEMMA SetToSeqIs ==
  LET order == SetToSeq(Buffers)
  IN  /\ order \in [1 .. Count -> Buffers]
      /\ \A i, j \in 1 .. Count : order[i] = order[j] => i = j
      /\ \A b \in Buffers : \E i \in 1 .. Count : order[i] = b
<1> DEFINE order == SetToSeq(Buffers)
<1>1. ExistsBijection(1 .. Count, Buffers) /\ Count = Cardinality(Buffers)
  BY FS_CardinalityType, TapAssumption DEF Count
<1>2. \E f \in [1 .. Count -> Buffers] : IsInjective(f)
  BY <1>1 DEF ExistsBijection, Bijection, Injection
<1>3. order \in [1 .. Count -> Buffers] /\ IsInjective(order)
  <2>1. order = CHOOSE f \in [1 .. Count -> Buffers] : IsInjective(f)
    BY DEF SetToSeq, Count
  <2> HIDE DEF order
  <2> QED  BY <1>2, <2>1
<1> HIDE DEF order
<1>4. order \in Injection(1 .. Count, Buffers)
  BY <1>3 DEF Injection
<1>5. Cardinality(1 .. Count) = Count
  BY CountNat, FS_Interval
<1>6. order \in Surjection(1 .. Count, Buffers)
  BY <1>1, <1>4, <1>5, FS_Injection, TapAssumption
<1>7. \A b \in Buffers : \E i \in 1 .. Count : order[i] = b
  BY <1>6 DEF Surjection
<1>8. \A i, j \in 1 .. Count : order[i] = order[j] => i = j
  BY <1>3 DEF IsInjective
<1> QED  BY <1>3, <1>7, <1>8 DEF order

\* The list that tap_win32_overlapped_init builds, and an empty queue.
LEMMA InitSound == Init => \E fr, ou : Sound(fr, ou)
<1> SUFFICES ASSUME Init PROVE \E fr, ou : Sound(fr, ou)
  OBVIOUS
<1>0. Count \in Nat /\ Count >= 1
  BY CountNat, FS_EmptySet, TapAssumption DEF Count
<1> DEFINE order == SetToSeq(Buffers)
           index(b) == CHOOSE i \in 1 .. Count : order[i] = b
           fr == [i \in 1 .. Count |-> order[Count + 1 - i]]
<1>1. /\ order \in [1 .. Count -> Buffers]
      /\ \A i, j \in 1 .. Count : order[i] = order[j] => i = j
      /\ \A b \in Buffers : \E i \in 1 .. Count : order[i] = b
  BY SetToSeqIs
<1>2. /\ next = [b \in Buffers |-> IF index(b) = 1 THEN NULL ELSE order[index(b) - 1]]
      /\ free_list = order[Count]
  BY DEF Init
<1> HIDE DEF order
<1>3. \A i \in 1 .. Count : order[i] \in Buffers /\ index(order[i]) = i
  BY <1>1
<1>4. \A b \in Buffers : index(b) \in 1 .. Count /\ order[index(b)] = b
  BY <1>1
<1> HIDE DEF index
<1>5. \A i \in 1 .. Count : next[order[i]] = IF i = 1 THEN NULL ELSE order[i - 1]
  BY <1>2, <1>3
<1>6. next \in Links
  <2>1. ASSUME NEW b \in Buffers, index(b) # 1 PROVE order[index(b) - 1] \in Buffers
    <3>1. index(b) - 1 \in 1 .. Count
      BY <1>0, <1>4, <2>1
    <3> QED  BY <1>1, <3>1
  <2> QED  BY <1>2, <2>1 DEF Links
<1>7. /\ \A i \in 1 .. Count : Count + 1 - i \in 1 .. Count /\ fr[i] = order[Count + 1 - i]
      /\ fr \in [1 .. Count -> Buffers]
  BY <1>0, <1>1
<1>8. fr \in Seq(Buffers) /\ Len(fr) = Count
  BY <1>0, <1>7
<1> HIDE DEF fr
<1>9. IsChain(next, fr, free_list)
  <2>1. fr # << >> /\ free_list = fr[1]
    BY <1>0, <1>2, <1>7, <1>8
  <2>2. ASSUME NEW i \in 1 .. Count
        PROVE  next[fr[i]] = IF i = Count THEN NULL ELSE fr[i + 1]
    <3>1. next[fr[i]] = IF Count + 1 - i = 1 THEN NULL ELSE order[Count + 1 - i - 1]
      <4> DEFINE k == Count + 1 - i
      <4>1. k \in 1 .. Count /\ fr[i] = order[k]
        BY <1>7
      <4> HIDE DEF k
      <4>2. next[fr[i]] = IF k = 1 THEN NULL ELSE order[k - 1]
        BY <1>5, <4>1
      <4> QED  BY <1>0, <4>2 DEF k
    <3>2. i # Count => fr[i + 1] = order[Count + 1 - (i + 1)]
      BY <1>0, <1>7
    <3>3. (Count + 1 - i = 1 <=> i = Count) /\ Count + 1 - (i + 1) = Count + 1 - i - 1
      BY <1>0
    <3> QED  BY <3>1, <3>2, <3>3
  <2> QED  BY <1>8, <2>1, <2>2 DEF IsChain
<1>10. IsChain(next, << >>, front)
  BY DEF Init, IsChain
<1>11. Linked(fr, << >>)
  BY <1>9, <1>10 DEF Linked, Init
<1>12. Apart(fr, << >>)
  <2>1. \A i, j \in 1 .. Count : fr[i] = fr[j] => i = j
    <3> SUFFICES ASSUME NEW i \in 1 .. Count, NEW j \in 1 .. Count, fr[i] = fr[j]
                 PROVE  i = j
      OBVIOUS
    <3>1. Count + 1 - i = Count + 1 - j
      BY <1>1, <1>7
    <3> QED  BY <1>0, <3>1
  <2>2. \A i \in 1 .. Count : fr[i] # NULL
    BY <1>7, TapAssumption
  <2> QED  BY <1>8, <2>1, <2>2 DEF Apart, Init
<1>13. Placed(fr, << >>)
  <2>1. ASSUME NEW b \in Buffers PROVE \E i \in 1 .. Len(fr) : fr[i] = b
    <3>1. PICK j \in 1 .. Count : order[j] = b
      BY <1>1
    <3>2. /\ Count + 1 - j \in 1 .. Len(fr) /\ Count + 1 - (Count + 1 - j) = j
      BY <1>0, <1>8
    <3>3. fr[Count + 1 - j] = order[j]
      BY <1>7, <1>8, <3>2
    <3> QED  BY <3>1, <3>2, <3>3
  <2> QED  BY <1>0, <1>8, <2>1 DEF Placed, In, Init
<1>14. TypeOK
  <2>1. free_list \in Buffers
    BY <1>0, <1>1, <1>2
  <2>2. /\ next \in [Buffers -> Buffers \cup {NULL}]
        /\ {free_list, front, back, tbuf, mbuf} \subseteq Buffers \cup {NULL}
    BY <1>6, <2>1 DEF Links, Init
  <2>3. /\ frame \in [Buffers -> 0 .. MaxFrames]
        /\ read \in 0 .. MaxFrames /\ sent \in Seq(1 .. MaxFrames)
        /\ packets \in 0 .. MaxPackets /\ queued \in 0 .. packets
    BY TapAssumption DEF Init
  <2>4. free_sema \in 0 .. Count /\ out_sema \in 0 .. Count /\ tap_sema \in 0 .. Count
    BY <1>0 DEF Init
  <2>5. registered \in BOOLEAN /\ wevent \in BOOLEAN /\ disabled \in BOOLEAN
    BY DEF Init
  <2> QED  BY <2>2, <2>3, <2>4, <2>5 DEF TypeOK, Init
<1>15. Positions /\ Semaphores(fr, << >>) /\ Ordered(<< >>)
  BY <1>0, <1>8 DEF Positions, Semaphores, Ordered, In, Init
<1> QED  BY <1>11, <1>12, <1>13, <1>14, <1>15 DEF Sound

\* The chains of the first state.
LEMMA InitIInv == Init => IInv
<1> SUFFICES ASSUME Init PROVE IInv
  OBVIOUS
<1>1. PICK fr, ou : Sound(fr, ou)
  BY InitSound
<1>2. /\ next \in Links
      /\ IsChain(next, fr, free_list) /\ IsChain(next, ou, front)
  BY <1>1 DEF Sound, TypeOK, Links, Linked
<1>3. ChainOf(next, free_list) = fr /\ ChainOf(next, front) = ou
  BY <1>1, <1>2, Sizes, CountNat, ChainIs
<1> QED  BY <1>1, <1>3 DEF IInv, Chain

\* Every step of both threads and of the driver keeps the two lists sound.
THEOREM Invariance == Spec => []IInv
<1>1. IInv /\ [Next]_vars => IInv'
  <2> SUFFICES ASSUME IInv, [Next]_vars PROVE IInv'
    OBVIOUS
  <2>1. PICK fr, ou : Sound(fr, ou)
    BY DEF IInv
  <2>2. CASE UNCHANGED vars
    <3>1. Sound(fr, ou)'
      <4> USE <2>1, <2>2 DEF Sound, vars
      <4>1. TypeOK' /\ Positions'
        BY DEF TypeOK, Positions, listVars, semaVars, writeVars
      <4>2. Linked(fr, ou)' /\ Apart(fr, ou)'
        BY ListsKept
      <4>3. Placed(fr, ou)' /\ Semaphores(fr, ou)' /\ Ordered(ou)'
        BY DEF Placed, Semaphores, Ordered, In, semaVars
      <4> QED  BY <4>1, <4>2, <4>3
    <3> QED  BY <3>1, Found
  <2>3. CASE tap_win32_thread_entry
    BY <2>1, <2>3, SemaphoreSteps, FrameSteps, FreeTakeStep, OutPutStep, Found
       DEF tap_win32_thread_entry
  <2>4. CASE tap_win32_send
    BY <2>1, <2>4, SemaphoreSteps, FrameSteps, OutTakeStep, FreePutStep, Found
       DEF tap_win32_send
  <2>5. CASE tap_cleanup \/ Deliver \/ Flush \/ tap_win32_write \/ WriteDone
    BY <2>1, <2>5, WriteSteps, Found
  <2> QED  BY <2>2, <2>3, <2>4, <2>5 DEF Next
<1> QED  BY InitIInv, <1>1, PTL DEF Spec

\* A buffer is always in one place, and each semaphore agrees with its list: a list is
\* never empty after its wait, no release is lost, no append is (tap-win32.c's
\* get_buffer_from_free_list, put_buffer_on_output_queue and their counterparts).
THEOREM ListsAreSound == Spec => []ListsSound
<1>1. ASSUME IInv PROVE ListsSound
  <2> DEFINE fr == Chain(free_list)
             ou == Chain(front)
             ht == HeldBy(tbuf)
             hm == HeldBy(mbuf)
  <2>1. Sound(fr, ou)
    BY <1>1 DEF IInv
  <2> HIDE DEF fr, ou
  <2>2. /\ fr \in Seq(Buffers) /\ Len(fr) \in Nat /\ ou \in Seq(Buffers) /\ Len(ou) \in Nat
        /\ DOMAIN fr = 1 .. Len(fr) /\ DOMAIN ou = 1 .. Len(ou)
    BY <2>1, Sizes
  <2>3. /\ ht \in Seq(Buffers) /\ Len(ht) = In(tpc, {"read", "put"})
        /\ Range(ht) = {tbuf} \ {NULL}
    BY <2>1, TapAssumption DEF HeldBy, Sound, Positions, TypeOK, In, Range
  <2>4. /\ hm \in Seq(Buffers) /\ Len(hm) = IF mbuf # NULL THEN 1 ELSE 0
        /\ Range(hm) = {mbuf} \ {NULL}
    BY <2>1, TapAssumption DEF HeldBy, Sound, TypeOK, Range
  <2> HIDE DEF ht, hm
  <2> DEFINE places == ((fr \o ou) \o ht) \o hm
  <2>5. /\ places \in Seq(Buffers) /\ Len(places) = Len(fr) + Len(ou) + Len(ht) + Len(hm)
        /\ Range(places) = Range(fr) \cup Range(ou) \cup Range(ht) \cup Range(hm)
    <3>1. /\ fr \o ou \in Seq(Buffers) /\ Len(fr \o ou) = Len(fr) + Len(ou)
          /\ Range(fr \o ou) = Range(fr) \cup Range(ou)
      BY <2>2, ConcatProperties, RangeConcatenation
    <3> DEFINE s == fr \o ou
    <3>4. s \in Seq(Buffers)
      BY <3>1
    <3> HIDE DEF s
    <3>2. /\ s \o ht \in Seq(Buffers) /\ Len(s \o ht) = Len(s) + Len(ht)
          /\ Range(s \o ht) = Range(s) \cup Range(ht)
      BY <3>4, <2>3, ConcatProperties, RangeConcatenation, ZenonT(40)
    <3> DEFINE t == s \o ht
    <3>5. t \in Seq(Buffers)
      BY <3>2
    <3> HIDE DEF t
    <3>3. /\ t \o hm \in Seq(Buffers) /\ Len(t \o hm) = Len(t) + Len(hm)
          /\ Range(t \o hm) = Range(t) \cup Range(hm)
      <4>1. hm \in Seq(Buffers)
        BY <2>4
      <4> QED  BY <3>5, <4>1, ConcatProperties, RangeConcatenation
    <3> QED  BY <3>1, <3>2, <3>3 DEF s, t
  <2> HIDE DEF places
  <2>6. Len(places) = Count
    BY <2>1, <2>2, <2>3, <2>4, <2>5 DEF Sound, Placed
  <2>7. Range(places) = Buffers
    <3>1. \A b \in Buffers : b \in Range(places)
      BY <2>1, <2>2, <2>3, <2>4, <2>5, TapAssumption DEF Sound, Placed, Range
    <3>2. Range(places) \subseteq Buffers
      BY <2>5, RangeOfSeq
    <3> QED  BY <3>1, <3>2
  <2>8. (front = NULL) = (back = NULL) /\ (front # NULL => Last(ou) = back)
    <3>1. ou # << >> => Len(ou) \in 1 .. Len(ou) /\ 1 \in 1 .. Len(ou)
      BY <2>2
    <3>2. ou # << >> => ou[1] \in Buffers /\ ou[Len(ou)] \in Buffers
      BY <2>2, <3>1
    <3> QED  BY <2>1, <3>2, TapAssumption DEF Sound, Linked, IsChain, Last
  <2>9. BuffersConserved
    BY <2>6, <2>7, <2>8 DEF BuffersConserved, places, fr, ou, ht, hm, ToSet, Range
  <2>10. SemaphoresExact
    BY <2>1 DEF Sound, Semaphores, SemaphoresExact, fr, ou
  <2> QED  BY <2>1, <2>9, <2>10 DEF ListsSound, Sound
<1> QED  BY <1>1, Invariance, PTL

\* The frames reach the guest in the order the driver delivered them, none lost and
\* none twice, however the two threads interleave (tap_win32_thread_entry,
\* tap_win32_send).
THEOREM FramesAreInOrder == Spec => []FramesInOrder
<1>1. IInv => FramesInOrder
  BY DEF IInv, Sound, Ordered, FramesInOrder
<1> QED  BY <1>1, Invariance, PTL
=============================================================================

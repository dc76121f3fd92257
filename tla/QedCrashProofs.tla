--------------------------- MODULE QedCrashProofs ---------------------------
(***************************************************************************)
(* For any geometry of the image, any number of writes and crashes, with   *)
(* or without a backing file and a volatile cache: an image that is opened *)
(* is consistent, the guest reads what it wrote, and what it wrote and     *)
(* flushed survives a crash.                                               *)
(*                                                                         *)
(* A crash keeps any of the writes made since the last flush.  The proof   *)
(* speaks of all images that it may leave (Reach): a write adds to them    *)
(* what it makes of each, and a flush leaves the current one only.  Every  *)
(* one of them has some of the references of the current image, and no     *)
(* other (Sub), so no cluster is referenced twice in any of them; and all  *)
(* references of an image without the flag lie in its file (Fits), or else *)
(* it is the crash that loses the flag.  During a repair the current image *)
(* has fewer references than the others: there, it is the stored image     *)
(* that has them all.                                                      *)
(*                                                                         *)
(* The guest's data survives because every image of Reach gives each       *)
(* sector something that it may hold (Holds), also if the file ends before *)
(* the sector's cluster and the repair drops its entry.                    *)
(***************************************************************************)
EXTENDS QedCrash, SequenceTheorems, FiniteSetTheorems, TLAPS

----------------------------------------------------------------------------
(* The images a crash may leave.                                           *)

\* The image st after those of the writes ws whose numbers are in S.
Surv(st, ws, S) ==
  LET after[n \in 0..Len(ws)] ==
        IF n = 0 THEN st
        ELSE IF n \in S THEN Apply(after[n - 1], ws[n])
        ELSE after[n - 1]
  IN after[Len(ws)]

Reached(st, ws) == {Surv(st, ws, S) : S \in SUBSET Nat}

\* What a crash may leave now, and the image as the program sees it.
Reach == Reached(stable, cached) \cup {stable, img}

----------------------------------------------------------------------------
(* Types.                                                                  *)

Images == [check : BOOLEAN, size : (2 * FirstFree)..(2 * MaxClusters),
           l1 : [Index -> Clusters], l2 : [Clusters -> [Index -> Clusters]],
           data : [Clusters -> [{0, 1} -> Hole..MaxWrites]]]

Writes ==
  [kind : {"flag"}, val : BOOLEAN]
    \cup [kind : {"l1"}, val : [Index -> Clusters]]
    \cup [kind : {"entry"}, at : Clusters, j : Index, val : Clusters]
    \cup [kind : {"table"}, at : Clusters, val : [Index -> Clusters]]
    \cup [kind : {"data"}, at : Clusters, j : {0, 1}, val : Hole..MaxWrites]

Linking == {"mark", "fill", "main", "flush", "l2", "l2flush", "l1"}
Running == {"idle", "inplace", "done", "unmark", "closing"} \cup Linking
Positions == {"down", "check", "checked", "clear", "opened"} \cup Running

\* Nothing is in the volatile cache.
Pinned == cached = << >> /\ stable = img

Typed ==
  /\ backing \in BOOLEAN /\ volatile \in BOOLEAN
  /\ pc \in Positions
  /\ Reach \subseteq Images
  /\ cached \in Seq(Writes)
  /\ ~volatile => Pinned
  /\ req \in [at : Virt, val : 0..MaxWrites, tab : Clusters] /\ cur \in Clusters
  /\ need_check \in BOOLEAN /\ l1 \in [Index -> Clusters]
  /\ file_size \in FirstFree..MaxClusters
  /\ pc \in {"mark", "fill", "main", "flush", "l2"} => file_size + TableSize <= MaxClusters
  /\ found \in BOOLEAN /\ lostmark \in BOOLEAN
  /\ guest \in [Virt -> Invalid..MaxWrites]
  /\ nwrites \in 0..MaxWrites /\ ncrash \in 0..MaxCrashes

----------------------------------------------------------------------------
(* The tables.                                                             *)

\* No cluster of im is referenced twice, whether or not it is in the file.
Apart(im) ==
  /\ \A i \in Index : im.l1[i] # 0 => im.l1[i] >= FirstFree
  /\ \A i, k \in Index : im.l1[i] # 0 /\ im.l1[k] # 0 =>
       i = k \/ im.l1[i] + TableSize <= im.l1[k] \/ im.l1[k] + TableSize <= im.l1[i]
  /\ \A i, k, j \in Index : im.l1[i] # 0 /\ im.l1[k] # 0 /\ im.l2[im.l1[i]][j] # 0 =>
       /\ im.l2[im.l1[i]][j] >= FirstFree
       /\ \/ im.l2[im.l1[i]][j] < im.l1[k]
          \/ im.l2[im.l1[i]][j] >= im.l1[k] + TableSize
  /\ \A i, k, j, m \in Index :
       /\ im.l1[i] # 0 /\ im.l1[k] # 0 /\ im.l2[im.l1[i]][j] # 0
       /\ im.l2[im.l1[i]][j] = im.l2[im.l1[k]][m]
       => i = k /\ j = m

\* im has some of the references of b, and no other.
Sub(im, b) ==
  /\ \A i \in Index : im.l1[i] \in {0, b.l1[i]}
  /\ \A i, j \in Index : b.l1[i] # 0 => im.l2[b.l1[i]][j] \in {0, b.l2[b.l1[i]][j]}

\* The references of im lie below cluster n.
Below(im, n) ==
  \A i \in Index : im.l1[i] # 0 =>
    /\ im.l1[i] + TableSize <= n
    /\ \A j \in Index : im.l2[im.l1[i]][j] < n

\* The references of im lie in its file.
Fits(im) ==
  \A i \in Index : im.l1[i] # 0 =>
    /\ 2 * (im.l1[i] + TableSize) <= im.size
    /\ \A j \in Index : im.l2[im.l1[i]][j] # 0 => 2 * (im.l2[im.l1[i]][j] + 1) <= im.size

\* im and b differ at most in the flag.
Same(im, b) == im = [b EXCEPT !.check = im.check]

\* Where the next reference may point to: not below what is being linked.
Bound == IF pc \in Linking THEN cur ELSE file_size

Down ==
  pc = "down" =>
    /\ ~need_check
    /\ Apart(img)
    /\ \A im \in Reach : Same(im, img) /\ (im.check \/ Fits(im)) /\ (img.check => im.check)

Repair ==
  pc \in {"check", "checked"} =>
    /\ need_check /\ l1 = img.l1 /\ 2 * file_size <= img.size
    /\ Apart(stable)
    /\ \A im \in Reach : im.check /\ Sub(im, stable)
    /\ pc = "checked" => ~found /\ Below(img, file_size)

\* The request's new clusters.
Link ==
  /\ pc \in {"mark", "fill", "main", "flush", "l2"} => file_size = cur + 1
  /\ pc = "main" => img.size >= 2 * cur + 2 - req.at[2]
  /\ pc \in {"flush", "l2"} => img.size >= 2 * file_size
  /\ pc \in {"l2flush", "l1"} =>
       /\ req.tab = cur + 1 /\ file_size = req.tab + TableSize
       /\ l1[L1Index(req.at[1])] = 0
       /\ img.size >= 2 * file_size
       /\ img.l2[req.tab] = [NoTable EXCEPT ![L2Index(req.at[1])] = cur]

Sound ==
  pc \in {"clear", "opened"} \cup Running =>
    /\ l1 = img.l1 /\ Apart(img)
    /\ Below(img, Bound) /\ FirstFree <= Bound /\ 2 * Bound <= img.size
    /\ \A im \in Reach : Sub(im, img)
    /\ \A im \in Reach : im.check \/ Fits(im) \/ (need_check /\ pc # "mark")
    /\ pc \in {"clear", "unmark", "closing", "l1"} => Pinned
    /\ pc \in {"clear", "unmark", "closing"} => need_check
    /\ need_check /\ pc # "mark" => img.check
    /\ pc = "mark" => need_check
    /\ pc \in Linking /\ ~need_check => backing
    /\ pc = "l2" /\ backing => Pinned
    /\ Link

Core == ~lostmark => Down /\ Repair /\ Sound
----------------------------------------------------------------------------
(* What the guest reads.                                                   *)

\* The cluster that im has for virtual cluster v, or 0.
Entry(im, v) ==
  IF im.l1[L1Index(v)] = 0 THEN 0 ELSE im.l2[im.l1[L1Index(v)]][L2Index(v)]

Content(im, c, h) == IF im.data[c][h] = Hole /\ ~backing THEN 0 ELSE im.data[c][h]

See(s) == IF Entry(img, s[1]) = 0 THEN 0 ELSE Content(img, Entry(img, s[1]), s[2])

\* The guest finds what it wrote, and the request what it needs.
Own ==
  ~lostmark /\ pc \in Running =>
    /\ \A s \in Virt : See(s) = IF pc = "done" /\ s = req.at THEN req.val ELSE guest[s]
    /\ pc = "inplace" => cur = Entry(img, req.at[1]) /\ cur # 0
    /\ pc \in Linking => Entry(img, req.at[1]) = 0
    /\ pc \in {"main", "flush", "l2", "l2flush", "l1"} => img.data[cur][1 - req.at[2]] = 0
    /\ pc \in {"flush", "l2", "l2flush", "l1"} => img.data[cur][req.at[2]] = req.val

----------------------------------------------------------------------------
(* What a crash leaves of the guest's data.                                *)

TablesFit(im) == \A i \in Index : im.l1[i] # 0 => 2 * (im.l1[i] + TableSize) <= im.size

\* What sector s of im holds; b: there is a backing file.
View(im, b, s) ==
  LET c == Entry(im, s[1]) IN
  IF c = 0 \/ (im.data[c][s[2]] = Hole /\ ~b) THEN 0 ELSE im.data[c][s[2]]

\* If im is what a crash leaves, sector s will hold something that m allows.
Holds(im, b, m, s) ==
  /\ View(im, b, s) \in m[s]
  /\ \/ Entry(im, s[1]) = 0
     \/ 2 * (Entry(im, s[1]) + 1) <= im.size
     \/ 0 \in m[s]

\* In these states the guest's data is safe whatever a crash leaves.
Covered ==
  \/ backing \/ ~volatile \/ ncrash = 0
  \/ ncrash <= 1 /\ pc \in {"down", "check", "checked", "clear", "opened", "closing"}

\* Until the first crash, nothing was ever written beyond the end of the file.
Virgin ==
  ncrash = 0 =>
    /\ img.size <= 2 * file_size
    /\ pc = "down" => img.size = 2 * file_size
    /\ \A im \in Reach, c \in Clusters, h \in {0, 1} :
         c >= file_size => im.data[c][h] = Hole
    /\ pc \in Linking => \A im \in Reach :
         /\ im.data[cur][1 - req.at[2]] \in {Hole, 0}
         /\ im.data[cur][req.at[2]] \in {Hole, req.val}

Busy == {"inplace", "done"} \cup Linking

Tables == \A im \in Reach : TablesFit(im)

\* The guest may read what it is writing.
Given == pc \in Busy => req.val \in may[req.at] /\ req.val > 0

\* A repair leaves the data and the size alone.
Fixing ==
  pc \in {"check", "checked"} =>
    /\ img.size <= 2 * file_size + 1
    /\ \A im \in Reach : im.data = img.data /\ im.size = img.size

Fresh == pc \in {"clear", "opened"} => \A im \in Reach : Same(im, img)

Kept == Covered => \A im \in Reach, s \in Virt : Holds(im, backing, may, s)

Safe == ~lostmark => Tables /\ Virgin /\ Given /\ Fixing /\ Fresh /\ Kept
----------------------------------------------------------------------------
(* Sequences of writes.                                                    *)

\* Induction over the naturals, for a set in place of a predicate.
LEMMA Induction ==
  ASSUME NEW S, 0 \in S, \A n \in Nat : n \in S => n + 1 \in S
  PROVE  \A n \in Nat : n \in S
<1> SUFFICES ASSUME Nat \ S # {} PROVE FALSE
  OBVIOUS
<1> DEFINE T == Nat \ S
           R == OpToRel(<, Nat)
<1>1. PICK x \in T : \A y \in T : ~(<<y, x>> \in R)
  <2>1. T \subseteq Nat /\ T # {}
    OBVIOUS
  <2>2. IsWellFoundedOn(R, Nat)
    BY NatLessThanWellFounded
  <2> HIDE DEF T, R
  <2> QED  BY <2>1, <2>2, WFMin
<1>2. \A y \in Nat : <<y, x>> \in R <=> y < x
  BY DEF OpToRel
<1> HIDE DEF R
<1>3. \A y \in T : ~ (y < x)
  BY <1>1, <1>2
<1>4. x # 0 /\ x - 1 \in Nat
  OBVIOUS
<1> QED  BY <1>3, <1>4

\* a is the table that Surv fills in for the first m of the writes ws.
AfterBy(a, st, ws, S, m) ==
  a = [n \in 0..m |-> IF n = 0 THEN st
                      ELSE IF n \in S THEN Apply(a[n - 1], ws[n]) ELSE a[n - 1]]

\* The recursive definition in Surv defines a function.
LEMMA AfterExists ==
  ASSUME NEW st, NEW ws, NEW S, NEW m \in Nat
  PROVE  \E a : AfterBy(a, st, ws, S, m)
<1> DEFINE T == {n \in Nat : \E a : AfterBy(a, st, ws, S, n)}
<1>1. 0 \in T
  <2> DEFINE w == [k \in 0..0 |-> st]
  <2>1. AfterBy(w, st, ws, S, 0)
    BY DEF AfterBy
  <2> QED  BY <2>1
<1>2. ASSUME NEW n \in Nat, n \in T PROVE n + 1 \in T
  <2>1. PICK v : AfterBy(v, st, ws, S, n)
    BY <1>2
  <2> DEFINE top == IF n + 1 \in S THEN Apply(v[n], ws[n + 1]) ELSE v[n]
             w == [k \in 0..(n + 1) |-> IF k = n + 1 THEN top ELSE v[k]]
             d == [k \in 0..(n + 1) |-> IF k = 0 THEN st
                     ELSE IF k \in S THEN Apply(w[k - 1], ws[k]) ELSE w[k - 1]]
  <2>2. ASSUME NEW k \in 0..(n + 1) PROVE w[k] = d[k]
    <3>1. CASE k = n + 1
      <4>1. w[k] = top /\ w[k - 1] = v[n] /\ k # 0
        BY <3>1
      <4> HIDE DEF w
      <4> QED  BY <4>1, <3>1
    <3>2. CASE k # n + 1
      <4>1. k \in 0..n /\ w[k] = v[k] /\ (k # 0 => w[k - 1] = v[k - 1])
        BY <3>2
      <4>2. v[k] = IF k = 0 THEN st
                   ELSE IF k \in S THEN Apply(v[k - 1], ws[k]) ELSE v[k - 1]
        BY <2>1, <4>1 DEF AfterBy
      <4> HIDE DEF w
      <4> QED  BY <4>1, <4>2
    <3> QED  BY <3>1, <3>2
  <2>3. d = [k \in 0..(n + 1) |-> d[k]] /\ w = [k \in 0..(n + 1) |-> w[k]]
    OBVIOUS
  <2>4. w = d
    <3> HIDE DEF d, w
    <3> QED  BY <2>2, <2>3
  <2>5. AfterBy(w, st, ws, S, n + 1)
    <3> HIDE DEF w
    <3> QED  BY <2>4 DEF AfterBy
  <2> HIDE DEF w
  <2> QED  BY <2>5
<1> HIDE DEF T
<1>3. m \in T
  BY <1>1, <1>2, Induction
<1> QED  BY <1>3 DEF T

\* What Surv computes, step by step.
LEMMA SurvIs ==
  ASSUME NEW st, NEW A, NEW ws \in Seq(A), NEW S
  PROVE  \E a : /\ a[0] = st /\ a[Len(ws)] = Surv(st, ws, S)
                /\ \A n \in 1..Len(ws) :
                     a[n] = IF n \in S THEN Apply(a[n - 1], ws[n]) ELSE a[n - 1]
<1>0. Len(ws) \in Nat
  OBVIOUS
<1> DEFINE a == CHOOSE a : AfterBy(a, st, ws, S, Len(ws))
<1>1. AfterBy(a, st, ws, S, Len(ws))
  BY <1>0, AfterExists
<1>2. Surv(st, ws, S) = a[Len(ws)]
  BY DEF Surv, AfterBy
<1> HIDE DEF a
<1> DEFINE g == [n \in 0..Len(ws) |-> IF n = 0 THEN st
                   ELSE IF n \in S THEN Apply(a[n - 1], ws[n]) ELSE a[n - 1]]
<1>3. a = g
  BY <1>1 DEF AfterBy
<1>4. /\ g[0] = st
      /\ \A n \in 1..Len(ws) :
           g[n] = IF n \in S THEN Apply(a[n - 1], ws[n]) ELSE a[n - 1]
  BY <1>0
<1> HIDE DEF g
<1> QED  BY <1>2, <1>3, <1>4

\* Without writes there is nothing to lose.
LEMMA SurvEmpty ==
  ASSUME NEW st, NEW ws, Len(ws) = 0, NEW S
  PROVE  Surv(st, ws, S) = st
<1> DEFINE a == CHOOSE a : AfterBy(a, st, ws, S, Len(ws))
<1>1. AfterBy(a, st, ws, S, Len(ws))
  BY AfterExists
<1>2. Surv(st, ws, S) = a[Len(ws)]
  BY DEF Surv, AfterBy
<1> HIDE DEF a
<1>3. a[0] = st
  BY <1>1 DEF AfterBy
<1> QED  BY <1>2, <1>3

\* The last write is lost or not.
LEMMA SurvAppend ==
  ASSUME NEW st, NEW A, NEW ws \in Seq(A), NEW w \in A, NEW S
  PROVE  Surv(st, Append(ws, w), S) =
           IF Len(ws) + 1 \in S THEN Apply(Surv(st, ws, S), w) ELSE Surv(st, ws, S)
<1> DEFINE vs == Append(ws, w)
           N == Len(ws)
<1>1. /\ vs \in Seq(A) /\ Len(vs) = N + 1 /\ N \in Nat
      /\ vs[N + 1] = w /\ \A n \in 1..N : vs[n] = ws[n]
  BY AppendProperties, LenProperties
<1>2. PICK a : /\ a[0] = st /\ a[N] = Surv(st, ws, S)
               /\ \A n \in 1..N : a[n] = IF n \in S THEN Apply(a[n - 1], ws[n]) ELSE a[n - 1]
  BY SurvIs
<1> HIDE DEF vs
<1>3. PICK b : /\ b[0] = st /\ b[Len(vs)] = Surv(st, vs, S)
               /\ \A n \in 1..Len(vs) :
                    b[n] = IF n \in S THEN Apply(b[n - 1], vs[n]) ELSE b[n - 1]
  BY <1>1, SurvIs
<1> HIDE DEF N
<1> DEFINE T == {n \in Nat : n <= N => a[n] = b[n]}
<1>4. 0 \in T
  BY <1>2, <1>3
<1>5. ASSUME NEW n \in Nat, n \in T PROVE n + 1 \in T
  <2> SUFFICES ASSUME n + 1 <= N PROVE a[n + 1] = b[n + 1]
    OBVIOUS
  <2>1. a[n] = b[n] /\ n + 1 \in 1..N /\ n + 1 \in 1..Len(vs) /\ (n + 1) - 1 = n
    BY <1>1, <1>5
  <2>2. /\ a[n + 1] = IF n + 1 \in S THEN Apply(a[n], ws[n + 1]) ELSE a[n]
        /\ b[n + 1] = IF n + 1 \in S THEN Apply(b[n], vs[n + 1]) ELSE b[n]
        /\ vs[n + 1] = ws[n + 1]
    BY <1>1, <1>2, <1>3, <2>1
  <2> QED  BY <2>1, <2>2
<1>6. a[N] = b[N]
  <2>1. N \in T
    <3> HIDE DEF T
    <3> QED  BY <1>1, <1>4, <1>5, Induction
  <2> QED  BY <1>1, <2>1
<1>7. N + 1 \in 1..Len(vs) /\ (N + 1) - 1 = N
  BY <1>1
<1>8. Surv(st, vs, S) = IF N + 1 \in S THEN Apply(b[N], w) ELSE b[N]
  BY <1>1, <1>3, <1>7
<1> QED  BY <1>2, <1>6, <1>8 DEF vs, N

\* With nothing cached a crash leaves what is stored.
LEMMA ReachedEmpty ==
  ASSUME NEW st, NEW ws, ws = << >>
  PROVE  Reached(st, ws) = {st}
<1>0. ws \in Seq(Writes) /\ Len(ws) = 0
  OBVIOUS
<1>1. \A S \in SUBSET Nat : Surv(st, ws, S) = st
  BY <1>0, SurvEmpty
<1>2. Nat \in SUBSET Nat
  OBVIOUS
<1> QED  BY <1>1, <1>2 DEF Reached

\* A further write is there or not there.
LEMMA ReachedAppend ==
  ASSUME NEW st, NEW A, NEW ws \in Seq(A), NEW w \in A, NEW x \in Reached(st, Append(ws, w))
  PROVE  \E im \in Reached(st, ws) : x = im \/ x = Apply(im, w)
<1>1. PICK S \in SUBSET Nat : x = Surv(st, Append(ws, w), S)
  BY DEF Reached
<1>2. Surv(st, ws, S) \in Reached(st, ws)
  BY DEF Reached
<1> QED  BY <1>1, <1>2, SurvAppend

----------------------------------------------------------------------------
(* How the steps change what a crash may leave.                            *)

\* A write adds what it makes of each image.
LEMMA WriteReach ==
  ASSUME NEW w \in Writes, Write(w), cached \in Seq(Writes), ~volatile => Pinned
  PROVE  /\ \A x \in Reach' : \E im \in Reach : x = im \/ x = Apply(im, w)
         /\ img' = Apply(img, w) /\ img \in Reach
         /\ cached' \in Seq(Writes) /\ (~volatile => Pinned')
         /\ ~volatile => stable' = Apply(img, w)
         /\ volatile => stable' = stable
<1>1. img \in Reach /\ stable \in Reach /\ Reached(stable, cached) \subseteq Reach
  BY DEF Reach
<1>2. img' = Apply(img, w)
  BY DEF Write
<1>3. CASE volatile
  <2>1. cached' = Append(cached, w) /\ stable' = stable
    BY <1>3 DEF Write
  <2>2. \A x \in Reached(stable', cached') :
          \E im \in Reached(stable, cached) : x = im \/ x = Apply(im, w)
    BY <2>1, ReachedAppend
  <2>3. cached' \in Seq(Writes)
    BY <2>1, AppendProperties
  <2>4. Reach' = Reached(stable', cached') \cup {stable', img'}
    BY DEF Reach
  <2> QED  BY <1>1, <1>2, <1>3, <2>1, <2>2, <2>3, <2>4
<1>4. CASE ~volatile
  <2>1. cached' = << >> /\ stable' = img'
    BY <1>4 DEF Write, Pinned
  <2>2. Reach' = {img'}
    BY <2>1, ReachedEmpty DEF Reach
  <2> QED  BY <1>1, <1>2, <1>4, <2>1, <2>2 DEF Pinned
<1> QED  BY <1>3, <1>4

\* A flush leaves the current image.
LEMMA FlushReach ==
  ASSUME Flush
  PROVE  Reach' = {img} /\ img' = img /\ Pinned' /\ cached' \in Seq(Writes)
<1>1. cached' = << >> /\ stable' = img /\ img' = img
  BY DEF Flush
<1> QED  BY <1>1, ReachedEmpty DEF Reach, Pinned

\* A crash leaves one of the images.
LEMMA CrashReach ==
  ASSUME Crash
  PROVE  stable' \in Reach /\ img' = stable' /\ Reach' = {img'} /\ Pinned'
         /\ cached' \in Seq(Writes)
<1>1. PICK S \in SUBSET (1..Len(cached)) : stable' = Survives(S)
  BY DEF Crash
<1>2. Survives(S) = Surv(stable, cached, S)
  BY DEF Survives, Surv
<1>3. S \in SUBSET Nat
  OBVIOUS
<1>4. stable' \in Reach
  BY <1>1, <1>2, <1>3 DEF Reach, Reached
<1>5. img' = stable' /\ cached' = << >>
  BY DEF Crash
<1> QED  BY <1>4, <1>5, ReachedEmpty DEF Reach, Pinned

\* A step that leaves the disk alone leaves what a crash may find.
LEMMA SameReach ==
  ASSUME UNCHANGED disk
  PROVE  Reach' = Reach /\ (Pinned' <=> Pinned) /\ img' = img /\ stable' = stable
         /\ cached' = cached
BY DEF disk, Reach, Pinned
----------------------------------------------------------------------------
(* Arithmetic.                                                             *)

\* Division of natural numbers, as used for the indices of a cluster.
LEMMA Quotient ==
  ASSUME NEW v \in Nat, NEW n \in Nat, n > 0
  PROVE  /\ v \div n \in Nat
         /\ v = n * (v \div n) + (v % n) /\ v % n \in 0..(n - 1)
         /\ \A m \in Nat : v < m * n => v \div n < m
<1>1. v \div n \in Int /\ v = n * (v \div n) + (v % n) /\ v % n \in 0..(n - 1)
  OBVIOUS
<1> DEFINE q == v \div n
           r == v % n
<1> HIDE DEF q, r
<1>2. q \in Int /\ r \in Int /\ v = n * q + r /\ 0 <= r /\ r < n
  BY <1>1 DEF q, r
<1>3. q >= 0
  <2> SUFFICES ASSUME q <= -1 PROVE FALSE
    BY <1>2
  <2>1. n * q <= n * (-1)
    BY <1>2
  <2> QED  BY <1>2, <2>1
<1>4. ASSUME NEW m \in Nat, v < m * n PROVE q < m
  <2> SUFFICES ASSUME q >= m PROVE FALSE
    BY <1>2
  <2>1. n * q >= n * m
    BY <1>2
  <2> QED  BY <1>2, <1>4, <2>1
<1> QED  BY <1>1, <1>2, <1>3, <1>4 DEF q
----------------------------------------------------------------------------
(* What the writes do to an image.                                         *)

\* The constants.
LEMMA Sizes ==
  /\ TableNElems \in Nat /\ TableNElems > 0 /\ TableSize \in Nat /\ TableSize > 1
  /\ MaxClusters \in Nat /\ MaxClusters > TableSize /\ MaxWrites \in Nat /\ MaxCrashes \in Nat
  /\ NVirt \in Nat /\ NVirt > 0 /\ NVirt <= TableNElems * TableNElems
  /\ FirstFree \in Nat /\ FirstFree = 1 + TableSize /\ FirstFree <= MaxClusters
  /\ 0 \in Clusters /\ 0 \in Index /\ Clusters \subseteq Nat /\ Index \subseteq Nat
  /\ NoTable \in [Index -> Clusters]
BY QedCrashAssumption DEF FirstFree, Clusters, Index, NoTable

\* The fields of an image.
LEMMA Fields ==
  ASSUME NEW im \in Images
  PROVE  /\ im.check \in BOOLEAN /\ im.size \in Nat
         /\ im.size >= 2 * FirstFree /\ im.size <= 2 * MaxClusters
         /\ im.l1 \in [Index -> Clusters] /\ im.l2 \in [Clusters -> [Index -> Clusters]]
         /\ im.data \in [Clusters -> [{0, 1} -> Hole..MaxWrites]]
         /\ \A i \in Index : im.l1[i] \in Clusters /\ im.l1[i] \in Nat
         /\ \A t \in Clusters, j \in Index : im.l2[t][j] \in Clusters /\ im.l2[t][j] \in Nat
         /\ \A c \in Clusters, h \in {0, 1} : im.data[c][h] \in Hole..MaxWrites
<1>1. /\ im.check \in BOOLEAN /\ im.size \in (2 * FirstFree)..(2 * MaxClusters)
      /\ im.l1 \in [Index -> Clusters] /\ im.l2 \in [Clusters -> [Index -> Clusters]]
      /\ im.data \in [Clusters -> [{0, 1} -> Hole..MaxWrites]]
  BY DEF Images
<1>2. im.size \in Nat /\ im.size >= 2 * FirstFree /\ im.size <= 2 * MaxClusters
  BY <1>1, Sizes
<1>3. /\ \A i \in Index : im.l1[i] \in Clusters
      /\ \A t \in Clusters, j \in Index : im.l2[t][j] \in Clusters
      /\ \A c \in Clusters, h \in {0, 1} : im.data[c][h] \in Hole..MaxWrites
  BY <1>1
<1> QED  BY <1>1, <1>2, <1>3, Sizes

\* The write of QED_F_NEED_CHECK changes the flag only.
LEMMA ApplyFlag ==
  ASSUME NEW im \in Images, NEW b \in BOOLEAN
  PROVE  LET x == Apply(im, SetFlag(b)) IN
         /\ SetFlag(b) \in Writes /\ x \in Images
         /\ x.check = b /\ x.size = im.size /\ x.l1 = im.l1 /\ x.l2 = im.l2
         /\ x.data = im.data
         /\ x = [im EXCEPT !.check = b]
<1>1. Apply(im, SetFlag(b)) = [im EXCEPT !.check = b]
  BY DEF Apply, SetFlag
<1> QED  BY <1>1 DEF Images, Writes, SetFlag

\* The write of the L1 table changes that table only.
LEMMA ApplyL1 ==
  ASSUME NEW im \in Images, NEW t \in [Index -> Clusters]
  PROVE  LET x == Apply(im, SetL1(t)) IN
         /\ SetL1(t) \in Writes /\ x \in Images
         /\ x.check = im.check /\ x.size = im.size /\ x.l1 = t /\ x.l2 = im.l2
         /\ x.data = im.data
<1>1. Apply(im, SetL1(t)) = [im EXCEPT !.l1 = t]
  BY DEF Apply, SetL1
<1> QED  BY <1>1 DEF Images, Writes, SetL1

\* x is im after a write of c to entry j of table t.
Entered(im, x, t, j, c) ==
  /\ im \in Images /\ x \in Images
  /\ x.check = im.check /\ x.size = im.size /\ x.l1 = im.l1 /\ x.data = im.data
  /\ \A u \in Clusters, k \in Index :
       x.l2[u][k] = IF u = t /\ k = j THEN c ELSE im.l2[u][k]

\* The write of a table entry changes that entry only.
LEMMA ApplyEntry ==
  ASSUME NEW im \in Images, NEW t \in Clusters, NEW j \in Index, NEW c \in Clusters
  PROVE  /\ SetEntry(t, j, c) \in Writes /\ Apply(im, SetEntry(t, j, c)) \in Images
         /\ Entered(im, Apply(im, SetEntry(t, j, c)), t, j, c)
<1>1. Apply(im, SetEntry(t, j, c)) = [im EXCEPT !.l2[t][j] = c]
  BY DEF Apply, SetEntry
<1> DEFINE u2 == [im.l2 EXCEPT ![t][j] = c]
<1>2. Apply(im, SetEntry(t, j, c)) = [im EXCEPT !.l2 = u2]
  BY <1>1 DEF Images
<1>3. /\ u2 \in [Clusters -> [Index -> Clusters]]
      /\ \A u \in Clusters, k \in Index :
              u2[u][k] = IF u = t /\ k = j THEN c ELSE im.l2[u][k]
  BY Fields
<1> HIDE DEF u2
<1>4. SetEntry(t, j, c) \in Writes
  BY DEF Writes, SetEntry
<1> DEFINE x == [im EXCEPT !.l2 = u2]
<1>5. /\ x \in Images /\ x.check = im.check /\ x.size = im.size /\ x.l1 = im.l1
      /\ x.data = im.data /\ x.l2 = u2
  BY <1>3 DEF Images
<1> HIDE DEF x
<1>6. Entered(im, x, t, j, c)
  BY <1>3, <1>5 DEF Entered
<1> QED  BY <1>2, <1>4, <1>5, <1>6 DEF x

\* x is im after a write of table v at t.
Tabled(im, x, t, v) ==
  /\ im \in Images /\ x \in Images
  /\ x.check = im.check /\ x.l1 = im.l1 /\ x.data = im.data
  /\ x.size >= im.size /\ x.size >= 2 * (t + TableSize)
  /\ x.size = im.size \/ x.size = 2 * (t + TableSize)
  /\ \A u \in Clusters : x.l2[u] = IF u = t THEN v ELSE im.l2[u]

\* The write of a table changes that table and may extend the file.
LEMMA ApplyTable ==
  ASSUME NEW im \in Images, NEW t \in Clusters, NEW v \in [Index -> Clusters],
         t + TableSize <= MaxClusters
  PROVE  /\ SetTable(t, v) \in Writes /\ Apply(im, SetTable(t, v)) \in Images
         /\ Tabled(im, Apply(im, SetTable(t, v)), t, v)
<1>1. Apply(im, SetTable(t, v)) =
        [im EXCEPT !.l2[t] = v, !.size = Larger(@, 2 * (t + TableSize))]
  BY DEF Apply, SetTable
<1> DEFINE n == Larger(im.size, 2 * (t + TableSize))
<1>2. /\ n \in (2 * FirstFree)..(2 * MaxClusters)
      /\ n >= im.size /\ n >= 2 * (t + TableSize) /\ (n = im.size \/ n = 2 * (t + TableSize))
  BY Fields, Sizes DEF Larger
<1> DEFINE u2 == [im.l2 EXCEPT ![t] = v]
<1>3. Apply(im, SetTable(t, v)) = [im EXCEPT !.l2 = u2, !.size = n]
  BY <1>1 DEF Images
<1>4. /\ u2 \in [Clusters -> [Index -> Clusters]]
      /\ \A u \in Clusters : u2[u] = IF u = t THEN v ELSE im.l2[u]
  BY Fields
<1> HIDE DEF n, u2
<1>5. SetTable(t, v) \in Writes
  BY DEF Writes, SetTable
<1> DEFINE x == [im EXCEPT !.l2 = u2, !.size = n]
<1>6. /\ x \in Images /\ x.check = im.check /\ x.size = n /\ x.l1 = im.l1
      /\ x.data = im.data /\ x.l2 = u2
  BY <1>2, <1>4 DEF Images
<1> HIDE DEF x
<1>7. Tabled(im, x, t, v)
  BY <1>2, <1>4, <1>6 DEF Tabled
<1> QED  BY <1>3, <1>5, <1>6, <1>7 DEF x

\* x is im after a write of v to sector h of cluster c.
Wrote(im, x, c, h, v) ==
  /\ im \in Images /\ x \in Images
  /\ x.check = im.check /\ x.l1 = im.l1 /\ x.l2 = im.l2
  /\ x.size >= im.size /\ x.size >= 2 * c + h + 1
  /\ x.size = im.size \/ x.size = 2 * c + h + 1
  /\ \A d \in Clusters, k \in {0, 1} :
       x.data[d][k] = IF d = c /\ k = h THEN v ELSE im.data[d][k]

\* The write of a sector changes that sector and may extend the file.
LEMMA ApplyData ==
  ASSUME NEW im \in Images, NEW c \in Clusters, NEW h \in {0, 1}, NEW v \in Hole..MaxWrites
  PROVE  /\ SetData(c, h, v) \in Writes /\ Apply(im, SetData(c, h, v)) \in Images
         /\ Wrote(im, Apply(im, SetData(c, h, v)), c, h, v)
<1>1. Apply(im, SetData(c, h, v)) =
        [im EXCEPT !.data[c][h] = v, !.size = Larger(@, 2 * c + h + 1)]
  BY DEF Apply, SetData
<1> DEFINE n == Larger(im.size, 2 * c + h + 1)
<1>2. /\ n \in (2 * FirstFree)..(2 * MaxClusters)
      /\ n >= im.size /\ n >= 2 * c + h + 1 /\ (n = im.size \/ n = 2 * c + h + 1)
  BY Fields, Sizes DEF Larger, Clusters
<1> DEFINE u == [im.data EXCEPT ![c][h] = v]
<1>3. Apply(im, SetData(c, h, v)) = [im EXCEPT !.data = u, !.size = n]
  BY <1>1 DEF Images
<1>4. /\ u \in [Clusters -> [{0, 1} -> Hole..MaxWrites]]
      /\ \A d \in Clusters, k \in {0, 1} :
              u[d][k] = IF d = c /\ k = h THEN v ELSE im.data[d][k]
  BY Fields
<1> HIDE DEF n, u
<1>5. SetData(c, h, v) \in Writes
  BY DEF Writes, SetData
<1> DEFINE x == [im EXCEPT !.data = u, !.size = n]
<1>6. /\ x \in Images /\ x.check = im.check /\ x.size = n /\ x.l1 = im.l1
      /\ x.data = u /\ x.l2 = im.l2
  BY <1>2, <1>4 DEF Images
<1> HIDE DEF x
<1>7. Wrote(im, x, c, h, v)
  BY <1>2, <1>4, <1>6 DEF Wrote
<1> QED  BY <1>3, <1>5, <1>6, <1>7 DEF x

\* Positions on the virtual disk.
LEMMA Places ==
  ASSUME NEW s \in Virt
  PROVE  /\ s[1] \in 0..(NVirt - 1) /\ s[2] \in {0, 1} /\ 1 - s[2] \in {0, 1}
         /\ s[2] # 1 - s[2] /\ s = <<s[1], s[2]>>
         /\ L1Index(s[1]) \in Index /\ L2Index(s[1]) \in Index
<1>1. s[1] \in 0..(NVirt - 1) /\ s[2] \in {0, 1} /\ s = <<s[1], s[2]>>
  BY DEF Virt
<1> DEFINE v == s[1]
<1>2. v \in Nat /\ v < TableNElems * TableNElems
  BY <1>1, Sizes
<1> HIDE DEF v
<1>3. v \div TableNElems \in Nat /\ v \div TableNElems < TableNElems
  BY <1>2, Sizes, Quotient
<1>4. v % TableNElems \in 0..(TableNElems - 1)
  BY <1>2, Sizes
<1>5. L1Index(v) \in Index /\ L2Index(v) \in Index
  BY <1>3, <1>4, Sizes DEF L1Index, L2Index, Index
<1> QED  BY <1>1, <1>5 DEF v
----------------------------------------------------------------------------
(* Types.                                                                  *)

\* The variables other than the disk.
Rest ==
  /\ backing \in BOOLEAN /\ volatile \in BOOLEAN
  /\ pc \in Positions
  /\ req \in [at : Virt, val : 0..MaxWrites, tab : Clusters] /\ cur \in Clusters
  /\ need_check \in BOOLEAN /\ l1 \in [Index -> Clusters]
  /\ file_size \in FirstFree..MaxClusters
  /\ pc \in {"mark", "fill", "main", "flush", "l2"} => file_size + TableSize <= MaxClusters
  /\ found \in BOOLEAN /\ lostmark \in BOOLEAN
  /\ guest \in [Virt -> Invalid..MaxWrites]
  /\ nwrites \in 0..MaxWrites /\ ncrash \in 0..MaxCrashes

Disk == Reach \subseteq Images /\ cached \in Seq(Writes) /\ (~volatile => Pinned)

\* Typed is a part about the driver and a part about the disk.
LEMMA TypedParts == Typed <=> Rest /\ Disk
BY DEF Typed, Rest, Disk

\* The current and the stored image are among those of Reach, and typed.
LEMMA TypedGives ==
  ASSUME Typed
  PROVE  /\ img \in Images /\ stable \in Images /\ img \in Reach /\ stable \in Reach
         /\ \A im \in Reach : im \in Images
BY DEF Typed, Reach

\* A new image is typed (qed_create).
LEMMA InitTyped == Init => Typed
<1> SUFFICES ASSUME Init PROVE Typed
  OBVIOUS
<1>1. NewImage \in Images
  <2>1. 2 * FirstFree \in (2 * FirstFree)..(2 * MaxClusters) /\ -1 \in (-1)..MaxWrites
    BY Sizes
  <2> QED  BY <2>1, Sizes DEF NewImage, Images, Hole
<1>2. Reach = {NewImage} /\ Pinned
  <2>1. Reached(stable, cached) = {stable}
    BY ReachedEmpty DEF Init
  <2> QED  BY <2>1 DEF Init, Reach, Pinned
<1>3. cached \in Seq(Writes)
  BY DEF Init
<1>4. <<0, 0>> \in Virt /\ 0 \in 0..MaxWrites /\ 0 \in 0..MaxCrashes /\ 0 \in Invalid..MaxWrites
  BY Sizes DEF Virt, Invalid
<1>5. FirstFree \in FirstFree..MaxClusters
  BY Sizes
<1>6. Rest
  <2>1. backing \in BOOLEAN /\ volatile \in BOOLEAN
    BY QedCrashAssumption DEF Init
  <2> QED  BY <1>4, <1>5, <2>1, Sizes DEF Init, Rest, Positions
<1> QED  BY <1>1, <1>2, <1>3, <1>6, TypedParts DEF Disk

\* What keeps the disk's types.
LEMMA WriteDisk ==
  ASSUME Typed, volatile' = volatile,
         NEW w \in Writes, Write(w), \A im \in Images : Apply(im, w) \in Images
  PROVE  Disk'
BY WriteReach DEF Typed, Disk

\* A flush keeps the disk typed.
LEMMA FlushDisk ==
  ASSUME Typed, Flush
  PROVE  Disk'
BY FlushReach, TypedGives DEF Typed, Disk

\* A step without a write keeps the disk typed.
LEMMA StillDisk ==
  ASSUME Typed, UNCHANGED disk, volatile' = volatile
  PROVE  Disk'
BY SameReach DEF Typed, Disk

\* What a read can give.
LEMMA ReadsType ==
  ASSUME Typed, NEW s \in Virt
  PROVE  /\ qed_find_cluster(s[1]) \in Clusters \cup {Invalid}
         /\ Reads(s) \in Invalid..MaxWrites
<1>1. /\ l1[L1Index(s[1])] \in Clusters
      /\ \A t \in Clusters : img.l2[t][L2Index(s[1])] \in Clusters
  BY Places, TypedGives, Fields DEF Typed
<1>2. qed_find_cluster(s[1]) \in Clusters \cup {Invalid}
  BY <1>1, Sizes DEF qed_find_cluster
<1>3. \A c \in Clusters : img.data[c][s[2]] \in Hole..MaxWrites
  BY Places, TypedGives, Fields
<1>4. Invalid \in Int /\ Hole \in Int /\ Invalid <= Hole /\ Invalid <= 0 /\ 0 <= MaxWrites
  BY Sizes DEF Invalid, Hole
<1>5. CASE qed_find_cluster(s[1]) \in {0, Invalid}
  BY <1>4, <1>5, Sizes DEF Reads
<1>6. CASE qed_find_cluster(s[1]) \notin {0, Invalid}
  <2> DEFINE c == qed_find_cluster(s[1])
  <2>1. c \in Clusters /\ img.data[c][s[2]] \in Hole..MaxWrites
    BY <1>2, <1>3, <1>6
  <2>2. Reads(s) \in {0, img.data[c][s[2]]}
    BY <1>6 DEF Reads
  <2> HIDE DEF c
  <2> QED  BY <1>2, <1>4, <2>1, <2>2, Sizes
<1> QED  BY <1>2, <1>5, <1>6

\* The steps of bdrv_qed_open and qed_check keep the types.
LEMMA OpenTyped ==
  ASSUME Typed, Open
  PROVE  Typed'
<1>0. Rest /\ Disk
  BY TypedParts
<1> SUFFICES Rest' /\ Disk'
  BY DEF Typed, Rest, Disk
<1>1. CASE bdrv_qed_open
  <2>1. img.size \div 2 \in FirstFree..MaxClusters
    BY TypedGives, Fields, Sizes
  <2>2. img.check \in BOOLEAN /\ img.l1 \in [Index -> Clusters]
    BY TypedGives, Fields
  <2>3. req' \in [at : Virt, val : 0..MaxWrites, tab : Clusters]
    BY <1>0, <1>1, Sizes DEF bdrv_qed_open, Rest
  <2>4. Rest'
    BY <1>0, <1>1, <2>1, <2>2, <2>3, Sizes
       DEF bdrv_qed_open, Rest, mode, expect, count, Positions
  <2> QED  BY <1>1, <2>4, StillDisk DEF bdrv_qed_open, mode
<1>2. CASE FixTable
  <2>1. PICK i \in Descended :
          Write(SetTable(l1[i], [j \in Index |->
                  IF BadEntry(img.l2[l1[i]][j]) THEN 0 ELSE img.l2[l1[i]][j]]))
    BY <1>2 DEF FixTable
  <2>2. i \in Index /\ l1[i] \in Clusters /\ l1[i] + TableSize - 1 < file_size
    BY <1>0, <2>1 DEF Descended, Rest, qed_check_table_offset, qed_check_cluster_offset
  <2> DEFINE v == [j \in Index |-> IF BadEntry(img.l2[l1[i]][j]) THEN 0 ELSE img.l2[l1[i]][j]]
  <2>3. v \in [Index -> Clusters]
    BY <2>2, TypedGives, Fields, Sizes
  <2>4. l1[i] + TableSize <= MaxClusters
    BY <1>0, <2>2, Sizes DEF Rest, Clusters
  <2> HIDE DEF v
  <2>5. SetTable(l1[i], v) \in Writes /\ \A im \in Images : Apply(im, SetTable(l1[i], v)) \in Images
    BY <2>2, <2>3, <2>4, ApplyTable, TypedGives
  <2>6. Rest'
    BY <1>0, <1>2 DEF FixTable, Rest, mode, driver, expect, count
  <2> QED  BY <1>2, <2>1, <2>5, <2>6, WriteDisk DEF FixTable, mode, v
<1>3. CASE FixL1
  <2>1. l1' \in [Index -> Clusters]
    BY <1>0, <1>3, Sizes DEF FixL1, Rest
  <2>2. found' \in BOOLEAN
    BY <1>3 DEF FixL1, Corruptions
  <2>3. Rest'
    BY <1>0, <1>3, <2>1, <2>2 DEF FixL1, Rest, mode, expect, count, Positions
  <2>4. SetL1(l1') \in Writes /\ \A im \in Images : Apply(im, SetL1(l1')) \in Images
    BY <2>1, ApplyL1, TypedGives
  <2>5. Disk'
    BY <1>3, <2>4, WriteDisk, StillDisk DEF FixL1, mode
  <2> QED  BY <2>3, <2>5
<1>4. CASE Checked
  <2>1. Rest'
    BY <1>0, <1>4 DEF Checked, Rest, mode, driver, expect, count, Positions
  <2> QED  BY <1>4, <2>1, FlushDisk, StillDisk DEF Checked, mode
<1>5. CASE ClearAfterCheck
  <2>1. Rest'
    BY <1>0, <1>5 DEF ClearAfterCheck, Rest, mode, expect, count, Positions
  <2> QED  BY <1>5, <2>1, WriteDisk, ApplyFlag, TypedGives DEF ClearAfterCheck, mode
<1>6. CASE Resume
  <2>1. guest' \in [Virt -> Invalid..MaxWrites]
    BY <1>6, ReadsType DEF Resume
  <2>2. Rest'
    BY <1>0, <1>6, <2>1 DEF Resume, Rest, mode, driver, count, Positions, Running
  <2> QED  BY <1>6, <2>2, StillDisk DEF Resume, mode
<1> QED  BY <1>1, <1>2, <1>3, <1>4, <1>5, <1>6 DEF Open

\* The write that a step of a request makes.
LEMMA RequestTyped ==
  ASSUME Typed, WriteRequest
  PROVE  Typed'
<1>0. Rest /\ Disk
  BY TypedParts
<1> SUFFICES Rest' /\ Disk'
  BY DEF Typed, Rest, Disk
<1>p. req.at \in Virt /\ req.val \in 0..MaxWrites /\ req.tab \in Clusters /\ cur \in Clusters
  BY <1>0 DEF Rest
<1>q. /\ req.at[2] \in {0, 1} /\ 1 - req.at[2] \in {0, 1}
      /\ L1Index(req.at[1]) \in Index /\ L2Index(req.at[1]) \in Index
  BY <1>p, Places
<1>r. 0..MaxWrites \subseteq Hole..MaxWrites
  BY Sizes DEF Hole
<1>1. ASSUME NEW s \in Virt, qed_aio_write_data(s) PROVE Rest' /\ Disk'
  <2>1. nwrites' \in 0..MaxWrites /\ nwrites' \in Nat
    BY <1>0, <1>1, Sizes DEF qed_aio_write_data, Rest
  <2>2. req' \in [at : Virt, val : 0..MaxWrites, tab : Clusters]
    BY <1>1, <2>1, Sizes DEF qed_aio_write_data
  <2>3. /\ file_size \in Clusters /\ file_size + 1 \in FirstFree..MaxClusters
        /\ file_size + 1 + TableSize <= MaxClusters
    BY <1>0, <1>1, Sizes DEF qed_aio_write_data, Rest, Clusters
  <2>4. qed_find_cluster(s[1]) # Invalid => qed_find_cluster(s[1]) \in Clusters
    BY ReadsType
  <2>5. /\ cur' \in Clusters /\ need_check' \in BOOLEAN /\ pc' \in Positions
        /\ file_size' \in FirstFree..MaxClusters
        /\ pc' \in {"mark", "fill", "main", "flush", "l2"} =>
             file_size' + TableSize <= MaxClusters
    BY <1>0, <1>1, <2>3, <2>4 DEF qed_aio_write_data, Rest, Positions, Running, Linking
  <2>6. Rest'
    BY <1>0, <1>1, <2>1, <2>2, <2>5 DEF qed_aio_write_data, Rest, mode
  <2> QED  BY <1>1, <2>6, StillDisk DEF qed_aio_write_data, mode
<1>2. CASE Mark
  <2>1. Rest'
    BY <1>0, <1>2 DEF Mark, Rest, mode, driver, expect, count, Positions, Running, Linking
  <2> QED  BY <1>2, <2>1, WriteDisk, ApplyFlag, TypedGives DEF Mark, mode
<1>3. CASE Fill
  <2>1. Rest'
    BY <1>0, <1>3 DEF Fill, Rest, mode, driver, expect, count, Positions, Running, Linking
  <2>2. 0 \in Hole..MaxWrites
    BY <1>r, Sizes
  <2>3. /\ SetData(cur, 1 - req.at[2], 0) \in Writes
        /\ \A im \in Images : Apply(im, SetData(cur, 1 - req.at[2], 0)) \in Images
    BY <1>p, <1>q, <2>2, ApplyData, TypedGives
  <2> QED  BY <1>3, <2>1, <2>3, WriteDisk DEF Fill, mode
<1>4. CASE qed_aio_write_main
  <2>1. pc' \in {"done", "flush", "l2"}
    BY <1>0, <1>4 DEF qed_aio_write_main, Rest
  <2>5. pc' \in Positions /\ (pc' \in {"flush", "l2"} => pc = "main")
    BY <1>4, <2>1 DEF qed_aio_write_main, Positions, Running, Linking
  <2>2. Rest'
    BY <1>0, <1>4, <2>1, <2>5 DEF qed_aio_write_main, Rest, mode, driver, expect, count
  <2>3. req.val \in Hole..MaxWrites
    BY <1>p, <1>r
  <2>4. /\ SetData(cur, req.at[2], req.val) \in Writes
        /\ \A im \in Images : Apply(im, SetData(cur, req.at[2], req.val)) \in Images
    BY <1>p, <1>q, <2>3, ApplyData, TypedGives
  <2> QED  BY <1>4, <2>2, <2>4, WriteDisk DEF qed_aio_write_main, mode
<1>5. CASE qed_aio_write_flush_before_l2_update
  <2>1. Rest'
    BY <1>0, <1>5 DEF qed_aio_write_flush_before_l2_update, Rest, mode, driver, expect, count,
                      Positions, Running, Linking
  <2> QED  BY <1>5, <2>1, FlushDisk DEF qed_aio_write_flush_before_l2_update
<1>6. CASE qed_aio_write_l2_update
  <2> DEFINE v == req.at[1]
             t == l1[L1Index(v)]
             new == [NoTable EXCEPT ![L2Index(v)] = cur]
  <2>1. t \in Clusters
    BY <1>0, <1>q DEF Rest
  <2>2. CASE t # 0
    <3>1. /\ Write(SetEntry(t, L2Index(v), cur)) /\ pc' = "done"
          /\ UNCHANGED <<req, file_size, mode, cur, need_check, l1, found, expect, count>>
      BY <1>6, <2>2 DEF qed_aio_write_l2_update
    <3>2. Rest'
      BY <1>0, <3>1 DEF Rest, mode, expect, count, Positions, Running
    <3>3. /\ SetEntry(t, L2Index(v), cur) \in Writes
          /\ \A im \in Images : Apply(im, SetEntry(t, L2Index(v), cur)) \in Images
      <4> DEFINE k == L2Index(v)
      <4>1. t \in Clusters /\ k \in Index /\ cur \in Clusters /\ img \in Images
        BY <1>p, <1>q, <2>1, TypedGives
      <4> HIDE DEF t, k
      <4>2. /\ SetEntry(t, k, cur) \in Writes
            /\ \A im \in Images : Apply(im, SetEntry(t, k, cur)) \in Images
        BY <4>1, ApplyEntry
      <4> QED  BY <4>2 DEF k
    <3> QED  BY <3>1, <3>2, <3>3, WriteDisk DEF mode
  <2>3. CASE t = 0
    <3>1. /\ Write(SetTable(file_size, new)) /\ pc' = "l2flush" /\ pc = "l2"
          /\ req' = [req EXCEPT !.tab = file_size] /\ file_size' = file_size + TableSize
          /\ UNCHANGED <<mode, cur, need_check, l1, found, expect, count>>
      BY <1>6, <2>3 DEF qed_aio_write_l2_update
    <3>2. /\ file_size \in Clusters /\ file_size + TableSize <= MaxClusters
          /\ file_size' \in FirstFree..MaxClusters
      BY <1>0, <3>1, Sizes DEF Rest, Clusters
    <3>3. req' \in [at : Virt, val : 0..MaxWrites, tab : Clusters]
      BY <1>0, <3>1, <3>2 DEF Rest
    <3>4. Rest'
      BY <1>0, <3>1, <3>2, <3>3 DEF Rest, mode, expect, count, Positions, Running, Linking
    <3>5. new \in [Index -> Clusters]
      BY <1>p, <1>q, Sizes
    <3> HIDE DEF new
    <3>6. /\ SetTable(file_size, new) \in Writes
          /\ \A im \in Images : Apply(im, SetTable(file_size, new)) \in Images
      BY <3>2, <3>5, ApplyTable, TypedGives
    <3> QED  BY <3>1, <3>4, <3>6, WriteDisk DEF mode
  <2> QED  BY <2>2, <2>3
<1>7. CASE TableFlush
  <2>1. Rest'
    BY <1>0, <1>7 DEF TableFlush, Rest, mode, driver, expect, count, Positions, Running, Linking
  <2> QED  BY <1>7, <2>1, FlushDisk DEF TableFlush
<1>8. CASE qed_aio_write_l1_update
  <2>1. l1' \in [Index -> Clusters]
    BY <1>0, <1>8, <1>p, <1>q DEF qed_aio_write_l1_update, Rest
  <2>2. Rest'
    BY <1>0, <1>8, <2>1 DEF qed_aio_write_l1_update, Rest, mode, expect, count, Positions,
                            Running
  <2>3. SetL1(l1') \in Writes /\ \A im \in Images : Apply(im, SetL1(l1')) \in Images
    BY <2>1, ApplyL1, TypedGives
  <2> QED  BY <1>8, <2>2, <2>3, WriteDisk DEF qed_aio_write_l1_update, mode
<1>9. CASE qed_aio_complete
  <2>1. req.val \in Invalid..MaxWrites
    BY <1>p, Sizes DEF Invalid
  <2>2. guest' \in [Virt -> Invalid..MaxWrites]
    BY <1>0, <1>9, <1>p, <2>1 DEF qed_aio_complete, Rest
  <2>3. Rest'
    BY <1>0, <1>9, <2>2 DEF qed_aio_complete, Rest, mode, driver, count, Positions, Running
  <2> QED  BY <1>9, <2>3, StillDisk DEF qed_aio_complete, mode
<1> QED  BY <1>1, <1>2, <1>3, <1>4, <1>5, <1>6, <1>7, <1>8, <1>9 DEF WriteRequest

\* Typed holds in every state.
LEMMA NextTyped ==
  ASSUME Typed, [Next]_vars
  PROVE  Typed'
<1>0. Rest /\ Disk
  BY TypedParts
<1>g. Rest' /\ Disk' => Typed'
  BY DEF Typed, Rest, Disk
<1>1. CASE bdrv_qed_flush
  <2>1. Rest'
    BY <1>0, <1>1 DEF bdrv_qed_flush, Rest, mode, driver, count
  <2> QED  BY <1>g, <1>1, <2>1, FlushDisk DEF bdrv_qed_flush
<1>2. CASE qed_need_check_timer_cb
  <2>1. Rest'
    BY <1>0, <1>2 DEF qed_need_check_timer_cb, Rest, mode, driver, expect, count, Positions,
                      Running
  <2> QED  BY <1>g, <1>2, <2>1, FlushDisk DEF qed_need_check_timer_cb
<1>3. CASE qed_clear_need_check
  <2>1. Rest'
    BY <1>0, <1>3 DEF qed_clear_need_check, Rest, mode, expect, count, Positions, Running
  <2> QED  BY <1>g, <1>3, <2>1, WriteDisk, ApplyFlag, TypedGives DEF qed_clear_need_check, mode
<1>4. CASE bdrv_qed_close
  <2>1. pc' \in {"closing", "down"}
    BY <1>4 DEF bdrv_qed_close
  <2>2. Rest'
    BY <1>0, <1>4, <2>1 DEF bdrv_qed_close, Rest, mode, driver, count, Positions, Running
  <2> QED  BY <1>g, <1>4, <2>2, FlushDisk DEF bdrv_qed_close
<1>5. CASE CloseClears
  <2>1. Rest'
    BY <1>0, <1>5 DEF CloseClears, Rest, mode, expect, count, Positions
  <2> QED  BY <1>g, <1>5, <2>1, WriteDisk, ApplyFlag, TypedGives DEF CloseClears, mode
<1>6. CASE Crash
  <2>1. ncrash' \in 0..MaxCrashes
    BY <1>0, <1>6, Sizes DEF Crash, Rest
  <2>2. lostmark' \in BOOLEAN
    BY <1>0, <1>6 DEF Crash, Rest
  <2>3. Rest'
    BY <1>0, <1>6, <2>1, <2>2 DEF Crash, Rest, mode, Positions
  <2>4. Disk'
    BY <1>0, <1>6, CrashReach DEF Disk
  <2> QED  BY <1>g, <2>3, <2>4
<1>7. CASE UNCHANGED vars
  <2>1. Rest'
    BY <1>0, <1>7 DEF Rest, vars, mode, driver, expect, count
  <2> QED  BY <1>g, <1>7, <2>1, StillDisk DEF vars, mode
<1> QED  BY <1>1, <1>2, <1>3, <1>4, <1>5, <1>6, <1>7, OpenTyped, RequestTyped DEF Next
----------------------------------------------------------------------------
(* The tables of two images.                                               *)

\* An image has its own references.
LEMMA SubSelf ==
  ASSUME NEW im
  PROVE  Sub(im, im)
BY DEF Sub

\* With fewer references, too, no cluster is referenced twice.
LEMMA SubApart ==
  ASSUME NEW im \in Images, NEW b \in Images, Apart(b), Sub(im, b)
  PROVE  Apart(im)
<1>1. \A i \in Index : im.l1[i] # 0 =>
        /\ im.l1[i] = b.l1[i]
        /\ \A j \in Index : im.l2[im.l1[i]][j] # 0 => im.l2[im.l1[i]][j] = b.l2[b.l1[i]][j]
  BY DEF Sub
<1>2. /\ \A i \in Index : im.l1[i] # 0 => im.l1[i] >= FirstFree
      /\ \A i, k \in Index : im.l1[i] # 0 /\ im.l1[k] # 0 =>
           i = k \/ im.l1[i] + TableSize <= im.l1[k] \/ im.l1[k] + TableSize <= im.l1[i]
  BY <1>1 DEF Apart
<1>3. \A i, k, j \in Index : im.l1[i] # 0 /\ im.l1[k] # 0 /\ im.l2[im.l1[i]][j] # 0 =>
       /\ im.l2[im.l1[i]][j] >= FirstFree
       /\ \/ im.l2[im.l1[i]][j] < im.l1[k]
          \/ im.l2[im.l1[i]][j] >= im.l1[k] + TableSize
  BY <1>1 DEF Apart
<1>4. ASSUME NEW i \in Index, NEW k \in Index, NEW j \in Index, NEW m \in Index,
             im.l1[i] # 0, im.l1[k] # 0, im.l2[im.l1[i]][j] # 0,
             im.l2[im.l1[i]][j] = im.l2[im.l1[k]][m]
      PROVE  i = k /\ j = m
  <2>1. /\ b.l1[i] # 0 /\ b.l1[k] # 0 /\ b.l2[b.l1[i]][j] # 0
        /\ b.l2[b.l1[i]][j] = b.l2[b.l1[k]][m]
    BY <1>1, <1>4
  <2> QED  BY <2>1 DEF Apart
<1> QED  BY <1>2, <1>3, <1>4 DEF Apart

\* With fewer references, too, all lie below n.
LEMMA SubBelow ==
  ASSUME NEW im \in Images, NEW b \in Images, NEW n \in Nat, Below(b, n), Sub(im, b)
  PROVE  Below(im, n)
<1>1. \A i \in Index : im.l1[i] # 0 =>
        /\ im.l1[i] = b.l1[i]
        /\ \A j \in Index : im.l2[im.l1[i]][j] \in {0, b.l2[b.l1[i]][j]}
  BY DEF Sub
<1>2. \A i \in Index : im.l1[i] # 0 => n > 0
  BY <1>1, Sizes, Fields DEF Below
<1> QED  BY <1>1, <1>2, Sizes, Fields DEF Below

\* References below the end of the file lie in the file.
LEMMA BelowFits ==
  ASSUME NEW im \in Images, NEW n \in Nat, Below(im, n), 2 * n <= im.size
  PROVE  Fits(im)
<1> SUFFICES ASSUME NEW i \in Index, im.l1[i] # 0
             PROVE  /\ 2 * (im.l1[i] + TableSize) <= im.size
                    /\ \A j \in Index : im.l2[im.l1[i]][j] # 0 =>
                         2 * (im.l2[im.l1[i]][j] + 1) <= im.size
  BY DEF Fits
<1>1. im.size \in Nat /\ im.l1[i] \in Nat /\ im.l1[i] \in Clusters
  BY Fields
<1>2. im.l1[i] + TableSize <= n /\ \A j \in Index : im.l2[im.l1[i]][j] < n
  BY DEF Below
<1>3. \A j \in Index : im.l2[im.l1[i]][j] \in Nat
  BY <1>1, Fields
<1> QED  BY <1>1, <1>2, <1>3, Sizes

\* Only the tables matter, and the size of the file.
LEMMA SameTables ==
  ASSUME NEW x \in Images, NEW im \in Images, x.l1 = im.l1, x.l2 = im.l2
  PROVE  /\ Apart(im) => Apart(x)
         /\ \A b : Sub(im, b) => Sub(x, b)
         /\ \A b : Sub(b, im) => Sub(b, x)
         /\ \A n : Below(im, n) => Below(x, n)
         /\ x.size >= im.size /\ Fits(im) => Fits(x)
         /\ Sub(x, im)
<1>1. x.size >= im.size /\ Fits(im) => Fits(x)
  <2> SUFFICES ASSUME x.size >= im.size, Fits(im), NEW i \in Index, x.l1[i] # 0
               PROVE  /\ 2 * (x.l1[i] + TableSize) <= x.size
                      /\ \A j \in Index : x.l2[x.l1[i]][j] # 0 =>
                           2 * (x.l2[x.l1[i]][j] + 1) <= x.size
    BY DEF Fits
  <2>1. /\ 2 * (x.l1[i] + TableSize) <= im.size
        /\ \A j \in Index : x.l2[x.l1[i]][j] # 0 => 2 * (x.l2[x.l1[i]][j] + 1) <= im.size
    BY DEF Fits
  <2>2. im.size \in Nat /\ x.size \in Nat /\ x.l1[i] \in Nat /\ x.l1[i] \in Clusters
    BY Fields
  <2>3. \A j \in Index : x.l2[x.l1[i]][j] \in Nat
    BY <2>2, Fields
  <2> QED  BY <2>1, <2>2, <2>3, Sizes
<1> QED  BY <1>1 DEF Apart, Sub, Below

\* The flag alone.
LEMMA SameFlag ==
  ASSUME NEW im \in Images, NEW b \in Images, Same(im, b)
  PROVE  im.l1 = b.l1 /\ im.l2 = b.l2 /\ im.size = b.size /\ im.data = b.data
BY DEF Same, Images

----------------------------------------------------------------------------
(* The check finds nothing in an image whose references are apart.         *)

\* u is the table that used_clusters fills in, up to entry m.
UsedBy(u, m) ==
  u = [i \in 0..m |->
         IF i = 0 THEN Span(1)
         ELSE LET t == l1[i - 1] IN
              IF t = 0 \/ ~qed_check_table_offset(t) THEN u[i - 1]
              ELSE IF Span(t) \cap u[i - 1] # {}
                THEN u[i - 1] \cup Span(t)
                ELSE u[i - 1] \cup Span(t) \cup DataOf(t)]

\* What L1 entry i adds to the clusters c.
Marks(c, t) ==
  IF t = 0 \/ ~qed_check_table_offset(t) THEN c
  ELSE IF Span(t) \cap c # {} THEN c \cup Span(t)
  ELSE c \cup Span(t) \cup DataOf(t)

\* The recursion of used_clusters, one L1 entry at a time.
LEMMA UsedByMarks ==
  ASSUME NEW u, NEW m \in Nat
  PROVE  UsedBy(u, m) <=>
           u = [i \in 0..m |-> IF i = 0 THEN Span(1) ELSE Marks(u[i - 1], l1[i - 1])]
BY DEF UsedBy, Marks

\* A function that satisfies this recursion exists.
LEMMA UsedExists ==
  ASSUME NEW m \in Nat
  PROVE  \E u : UsedBy(u, m)
<1> DEFINE By(u, n) == u = [i \in 0..n |-> IF i = 0 THEN Span(1) ELSE Marks(u[i - 1], l1[i - 1])]
           T == {n \in Nat : \E u : By(u, n)}
<1>1. 0 \in T
  <2> DEFINE w == [k \in 0..0 |-> Span(1)]
  <2>1. By(w, 0)
    OBVIOUS
  <2> QED  BY <2>1
<1>2. ASSUME NEW n \in Nat, n \in T PROVE n + 1 \in T
  <2>1. PICK v : By(v, n)
    BY <1>2
  <2> DEFINE w == [k \in 0..(n + 1) |-> IF k = n + 1 THEN Marks(v[n], l1[n]) ELSE v[k]]
             d == [k \in 0..(n + 1) |-> IF k = 0 THEN Span(1) ELSE Marks(w[k - 1], l1[k - 1])]
  <2>2. ASSUME NEW k \in 0..(n + 1) PROVE w[k] = d[k]
    <3>1. CASE k = n + 1
      <4>1. w[k] = Marks(v[n], l1[n]) /\ w[k - 1] = v[n] /\ k # 0 /\ k - 1 = n
        BY <3>1
      <4> HIDE DEF w
      <4> QED  BY <4>1, <3>1
    <3>2. CASE k # n + 1
      <4>1. k \in 0..n /\ w[k] = v[k] /\ (k # 0 => w[k - 1] = v[k - 1])
        BY <3>2
      <4>2. v[k] = IF k = 0 THEN Span(1) ELSE Marks(v[k - 1], l1[k - 1])
        BY <2>1, <4>1
      <4> HIDE DEF w
      <4> QED  BY <4>1, <4>2
    <3> QED  BY <3>1, <3>2
  <2>3. d = [k \in 0..(n + 1) |-> d[k]] /\ w = [k \in 0..(n + 1) |-> w[k]]
    OBVIOUS
  <2>4. w = d
    <3> HIDE DEF d, w
    <3> QED  BY <2>2, <2>3
  <2>5. By(w, n + 1)
    <3> HIDE DEF w
    <3> QED  BY <2>4
  <2> HIDE DEF w
  <2> QED  BY <2>5
<1> HIDE DEF T
<1>3. m \in T
  BY <1>1, <1>2, Induction
<1>4. PICK u : By(u, m)
  BY <1>3 DEF T
<1>5. UsedBy(u, m)
  BY <1>4, UsedByMarks
<1> QED  BY <1>5

\* What used_clusters is, entry by entry.
LEMMA UsedIs ==
  /\ used_clusters[0] = Span(1)
  /\ \A i \in 1..TableNElems : used_clusters[i] = Marks(used_clusters[i - 1], l1[i - 1])
<1> DEFINE u == CHOOSE u : UsedBy(u, TableNElems)
<1>1. UsedBy(u, TableNElems)
  BY Sizes, UsedExists
<1>2. used_clusters = u
  BY DEF used_clusters, UsedBy
<1> HIDE DEF u
<1> DEFINE g == [i \in 0..TableNElems |-> IF i = 0 THEN Span(1) ELSE Marks(u[i - 1], l1[i - 1])]
<1>3. u = g
  BY <1>1, Sizes, UsedByMarks
<1>4. g[0] = Span(1) /\ \A i \in 1..TableNElems : g[i] = Marks(u[i - 1], l1[i - 1])
  BY Sizes
<1> HIDE DEF g
<1> QED  BY <1>2, <1>3, <1>4

\* A used cluster belongs to the L1 table, or to an L2 table met before.
LEMMA UsedFrom ==
  ASSUME NEW i \in Index, NEW c \in used_clusters[i]
  PROVE  c \in Span(1) \/ \E k \in Index :
           k < i /\ l1[k] # 0 /\ (c \in Span(l1[k]) \/ c \in DataOf(l1[k]))
<1> DEFINE P(n, d) == d \in Span(1) \/ \E k \in Index :
                        k < n /\ l1[k] # 0 /\ (d \in Span(l1[k]) \/ d \in DataOf(l1[k]))
           T == {n \in Nat : n \in Index => \A d \in used_clusters[n] : P(n, d)}
<1>1. 0 \in T
  BY UsedIs
<1>2. ASSUME NEW n \in Nat, n \in T PROVE n + 1 \in T
  <2> SUFFICES ASSUME n + 1 \in Index, NEW d \in used_clusters[n + 1] PROVE P(n + 1, d)
    OBVIOUS
  <2>1. n \in Index /\ n + 1 \in 1..TableNElems /\ (n + 1) - 1 = n
    BY Sizes DEF Index
  <2>2. d \in Marks(used_clusters[n], l1[n])
    BY <2>1, UsedIs
  <2>3. \/ d \in used_clusters[n]
        \/ l1[n] # 0 /\ (d \in Span(l1[n]) \/ d \in DataOf(l1[n]))
    BY <2>2 DEF Marks
  <2>4. n < n + 1 /\ \A k \in Index : k < n => k < n + 1
    <3> HIDE DEF T, P
    <3> QED  BY DEF Index
  <2>5. d \in used_clusters[n] => P(n, d)
    BY <1>2, <2>1
  <2> QED  BY <2>1, <2>3, <2>4, <2>5
<1> HIDE DEF T
<1>3. i \in T /\ i \in Nat
  BY <1>1, <1>2, Induction, Sizes
<1> HIDE DEF P
<1>4. P(i, c)
  BY <1>3 DEF T
<1> QED  BY <1>4 DEF P

\* qed_check finds no cluster referenced twice in an image without one.
LEMMA NothingFound ==
  ASSUME Typed, l1 = img.l1, Apart(img)
  PROVE  /\ ~Corruptions
         /\ \A i \in Index : l1[i] # 0 /\ qed_check_table_offset(l1[i]) => i \in Descended
<1>0. /\ img \in Images /\ \A i \in Index : l1[i] \in Nat /\ l1[i] \in Clusters
      /\ \A i, j \in Index : img.l2[l1[i]][j] \in Nat
  BY TypedGives, Fields
<1>1. \A c \in Span(1) : c \in Int /\ c < FirstFree
  BY Sizes DEF Span
<1>2. \A i \in Index : \A c \in Span(l1[i]) : c \in Int /\ l1[i] <= c /\ c < l1[i] + TableSize
  BY <1>0, Sizes DEF Span
<1>3. \A i \in Index : \A c \in DataOf(l1[i]) : \E j \in Index : c = img.l2[l1[i]][j] /\ c # 0
  BY DEF DataOf, GoodEntries
<1>4. ASSUME NEW i \in Index, l1[i] # 0 PROVE Span(l1[i]) \cap used_clusters[i] = {}
  <2> SUFFICES ASSUME NEW c \in Span(l1[i]), c \in used_clusters[i] PROVE FALSE
    OBVIOUS
  <2>1. c \in Int /\ l1[i] <= c /\ c < l1[i] + TableSize /\ l1[i] \in Nat /\ i \in Nat
    BY <1>0, <1>2, Sizes
  <2>2. l1[i] >= FirstFree
    BY <1>4 DEF Apart
  <2>3. c \notin Span(1)
    BY <1>1, <2>1, <2>2, Sizes
  <2>4. PICK k \in Index : k < i /\ l1[k] # 0 /\ (c \in Span(l1[k]) \/ c \in DataOf(l1[k]))
    BY <2>3, UsedFrom
  <2>5. l1[i] + TableSize <= l1[k] \/ l1[k] + TableSize <= l1[i]
    BY <1>4, <2>1, <2>4, Sizes DEF Apart
  <2>6. c \notin Span(l1[k])
    BY <1>0, <1>2, <2>1, <2>5, Sizes
  <2>7. PICK j \in Index : c = img.l2[l1[k]][j] /\ c # 0
    BY <1>3, <2>4, <2>6
  <2>8. c < l1[i] \/ c >= l1[i] + TableSize
    BY <1>4, <2>4, <2>7 DEF Apart
  <2> QED  BY <2>1, <2>8, Sizes
<1>5. ASSUME NEW i \in Index, l1[i] # 0
      PROVE  DataOf(l1[i]) \cap (used_clusters[i] \cup Span(l1[i])) = {}
  <2> SUFFICES ASSUME NEW c \in DataOf(l1[i]), c \in used_clusters[i] \cup Span(l1[i]) PROVE FALSE
    OBVIOUS
  <2>1. PICK j \in Index : c = img.l2[l1[i]][j] /\ c # 0
    BY <1>3
  <2>2. c \in Nat /\ c >= FirstFree
    BY <1>0, <1>5, <2>1 DEF Apart
  <2>3. ASSUME NEW k \in Index, l1[k] # 0 PROVE c \notin Span(l1[k])
    <3>1. c < l1[k] \/ c >= l1[k] + TableSize
      BY <1>5, <2>1, <2>3 DEF Apart
    <3> QED  BY <1>0, <1>2, <2>2, <3>1, Sizes
  <2>4. c \notin Span(1)
    BY <1>1, <2>2, Sizes
  <2>5. PICK k \in Index : k < i /\ l1[k] # 0 /\ (c \in Span(l1[k]) \/ c \in DataOf(l1[k]))
    BY <1>5, <2>3, <2>4, UsedFrom
  <2>6. PICK m \in Index : c = img.l2[l1[k]][m]
    BY <1>3, <2>3, <2>5
  <2>7. i = k
    <3>1. /\ img.l1[i] # 0 /\ img.l1[k] # 0 /\ img.l2[img.l1[i]][j] # 0
          /\ img.l2[img.l1[i]][j] = img.l2[img.l1[k]][m]
      BY <1>5, <2>1, <2>5, <2>6
    <3> QED  BY <3>1 DEF Apart
  <2> QED  BY <2>5, <2>7, Sizes
<1>6. ASSUME NEW i \in Index, l1[i] # 0
      PROVE  ~ (Cardinality(DataOf(l1[i])) < Cardinality(GoodEntries(l1[i])))
  <2> DEFINE G == GoodEntries(l1[i])
             D == DataOf(l1[i])
             f == [j \in G |-> img.l2[l1[i]][j]]
  <2>1. G \subseteq Index /\ IsFiniteSet(Index)
    BY FS_Interval, Sizes DEF GoodEntries, Index
  <2>2. IsFiniteSet(G)
    BY <2>1, FS_Subset
  <2>3. D = {img.l2[l1[i]][j] : j \in G} /\ \A j \in G : img.l2[l1[i]][j] # 0
    BY DEF DataOf, GoodEntries
  <2>4. \A j, m \in G : img.l2[l1[i]][j] = img.l2[l1[i]][m] => j = m
    BY <1>6, <2>1, <2>3 DEF Apart
  <2> HIDE DEF G, D
  <2>5. f \in Bijection(G, D)
    <3>1. f \in [G -> D]
      BY <2>3
    <3>2. \A j, m \in G : f[j] = f[m] => j = m
      BY <2>4
    <3>3. \A d \in D : \E j \in G : f[j] = d
      BY <2>3
    <3> HIDE DEF f
    <3> QED  BY <3>1, <3>2, <3>3 DEF Bijection, Injection, Surjection, IsInjective
  <2>6. ExistsBijection(G, D)
    BY <2>5 DEF ExistsBijection
  <2>7. Cardinality(D) = Cardinality(G) /\ Cardinality(G) \in Nat
    BY <2>2, <2>6, FS_Bijection, FS_CardinalityType
  <2> QED  BY <2>7 DEF G, D
<1>7. \A i \in Index : l1[i] # 0 /\ qed_check_table_offset(l1[i]) => i \in Descended
  BY <1>4 DEF Descended
<1>8. ~Corruptions
  BY <1>5, <1>6, <1>7 DEF Corruptions
<1> QED  BY <1>7, <1>8
----------------------------------------------------------------------------
(* The references stay apart.                                              *)

\* The parts of Sound that are about the images.
Shape ==
  /\ l1 = img.l1 /\ Apart(img)
  /\ Below(img, Bound) /\ FirstFree <= Bound /\ 2 * Bound <= img.size
  /\ \A im \in Reach : Sub(im, img)

Marked == \A im \in Reach : im.check \/ Fits(im) \/ (need_check /\ pc # "mark")

\* The other parts.
Steps ==
  /\ pc \in {"clear", "unmark", "closing", "l1"} => Pinned
  /\ pc \in {"clear", "unmark", "closing"} => need_check
  /\ need_check /\ pc # "mark" => img.check
  /\ pc = "mark" => need_check
  /\ pc \in Linking /\ ~need_check => backing
  /\ pc = "l2" /\ backing => Pinned
  /\ Link

\* Sound by its parts: the tables, the flag, the steps of a request.
LEMMA SoundParts ==
  Sound <=> (pc \in {"clear", "opened"} \cup Running => Shape /\ Marked /\ Steps)
BY DEF Sound, Shape, Marked, Steps

\* Where the references end is a number of clusters.
LEMMA BoundType ==
  ASSUME Typed
  PROVE  Bound \in Nat /\ Bound <= MaxClusters /\ file_size \in Nat /\ cur \in Nat /\ cur \in Clusters
<1>1. cur \in Clusters /\ file_size \in FirstFree..MaxClusters
  BY DEF Typed
<1> QED  BY <1>1, Sizes DEF Bound, Clusters

\* In a state of a running image, every image that a crash may leave is apart,
\* and fits if the current image's references lie in its file.
LEMMA ShapeGives ==
  ASSUME Typed, Shape, NEW im \in Reach
  PROVE  /\ im \in Images /\ Apart(im) /\ Below(im, Bound)
         /\ 2 * Bound <= im.size => Fits(im)
<1>1. im \in Images /\ img \in Images /\ Bound \in Nat
  BY TypedGives, BoundType
<1>2. Apart(im) /\ Below(im, Bound)
  BY <1>1, SubApart, SubBelow DEF Shape
<1> QED  BY <1>1, <1>2, BelowFits

\* With everything on storage a crash leaves the current image.
LEMMA PinnedReach ==
  ASSUME Pinned
  PROVE  Reach = {img}
<1>1. Reached(stable, cached) = {stable}
  BY ReachedEmpty DEF Pinned
<1> QED  BY <1>1 DEF Reach, Pinned

\* With every write on storage all images fit.
LEMMA PinnedFits ==
  ASSUME Typed, Shape, Pinned
  PROVE  Fits(img) /\ Reach = {img}
<1>1. img \in Reach /\ Reach = {img}
  BY TypedGives, PinnedReach
<1> QED  BY <1>1, ShapeGives DEF Shape

\* Steps that write nothing, or flush.
LEMMA QuietShape ==
  ASSUME Shape, img' = img, l1' = l1, Bound' = Bound, Reach' \subseteq Reach
  PROVE  Shape'
BY DEF Shape

\* The flag is written.
LEMMA FlagShape ==
  ASSUME Typed, Shape, NEW b \in BOOLEAN, Write(SetFlag(b)), l1' = l1, Bound' = Bound
  PROVE  /\ Shape' /\ img'.check = b /\ img'.size = img.size /\ img'.l2 = img.l2
         /\ img'.data = img.data /\ img'.l1 = img.l1
         /\ \A x \in Reach' : \E im \in Reach :
              /\ x \in Images /\ x.l1 = im.l1 /\ x.l2 = im.l2 /\ x.size = im.size
              /\ x.data = im.data
              /\ x = im \/ x.check = b
              /\ x = im \/ x = [im EXCEPT !.check = b]
<1>0. img \in Images /\ \A im \in Reach : im \in Images
  BY TypedGives
<1>1. SetFlag(b) \in Writes
  BY <1>0, ApplyFlag
<1>2. /\ \A x \in Reach' : \E im \in Reach : x = im \/ x = Apply(im, SetFlag(b))
      /\ img' = Apply(img, SetFlag(b))
  BY <1>1, WriteReach DEF Typed
<1>3. \A x \in Reach' : \E im \in Reach :
              /\ x \in Images /\ x.l1 = im.l1 /\ x.l2 = im.l2 /\ x.size = im.size
              /\ x.data = im.data
              /\ x = im \/ x.check = b
              /\ x = im \/ x = [im EXCEPT !.check = b]
  BY <1>0, <1>2, ApplyFlag
<1>4. /\ img' \in Images /\ img'.check = b /\ img'.size = img.size /\ img'.l1 = img.l1
      /\ img'.l2 = img.l2 /\ img'.data = img.data
  BY <1>0, <1>2, ApplyFlag
<1>5. Apart(img') /\ Below(img', Bound) /\ \A b2 : Sub(b2, img) => Sub(b2, img')
  BY <1>0, <1>4, SameTables DEF Shape
<1>6. \A x \in Reach' : Sub(x, img')
  <2> SUFFICES ASSUME NEW x \in Reach' PROVE Sub(x, img')
    OBVIOUS
  <2>1. PICK im \in Reach : x \in Images /\ x.l1 = im.l1 /\ x.l2 = im.l2
    BY <1>3
  <2>2. Sub(im, img')
    BY <1>5 DEF Shape
  <2> QED  BY <1>0, <2>1, <2>2, SameTables
<1>7. Shape'
  BY <1>4, <1>5, <1>6 DEF Shape
<1> QED  BY <1>3, <1>4, <1>7

\* Data is written.
LEMMA DataShape ==
  ASSUME Typed, Shape, NEW c \in Clusters, NEW h \in {0, 1}, NEW v \in Hole..MaxWrites,
         Write(SetData(c, h, v)), l1' = l1, Bound' = Bound
  PROVE  /\ Shape'
         /\ Wrote(img, img', c, h, v)
         /\ \A x \in Reach' : \E im \in Reach : x = im \/ Wrote(im, x, c, h, v)
<1>0. img \in Images /\ \A im \in Reach : im \in Images
  BY TypedGives
<1>1. SetData(c, h, v) \in Writes
  BY <1>0, ApplyData
<1>2. /\ \A x \in Reach' : \E im \in Reach : x = im \/ x = Apply(im, SetData(c, h, v))
      /\ img' = Apply(img, SetData(c, h, v))
  BY <1>1, WriteReach DEF Typed
<1>3. \A x \in Reach' : \E im \in Reach : x = im \/ Wrote(im, x, c, h, v)
  BY <1>0, <1>2, ApplyData
<1>4. Wrote(img, img', c, h, v)
  BY <1>0, <1>2, ApplyData
<1>w. /\ img' \in Images /\ img'.check = img.check /\ img'.size >= img.size
      /\ img'.l1 = img.l1 /\ img'.l2 = img.l2
  BY <1>4 DEF Wrote
<1>5. Apart(img') /\ Below(img', Bound) /\ \A b2 : Sub(b2, img) => Sub(b2, img')
  BY <1>0, <1>w, SameTables DEF Shape
<1>6. \A x \in Reach' : Sub(x, img')
  <2> SUFFICES ASSUME NEW x \in Reach' PROVE Sub(x, img')
    OBVIOUS
  <2>1. PICK im \in Reach : x = im \/ Wrote(im, x, c, h, v)
    BY <1>3
  <2>2. Sub(im, img')
    BY <1>5 DEF Shape
  <2>3. Wrote(im, x, c, h, v) => im \in Images /\ x \in Images /\ x.l1 = im.l1 /\ x.l2 = im.l2
    BY DEF Wrote
  <2> QED  BY <2>1, <2>2, <2>3, SameTables
<1>8. 2 * Bound <= img'.size
  BY <1>0, <1>w, BoundType, Fields DEF Shape
<1>7. Shape'
  BY <1>w, <1>5, <1>6, <1>8 DEF Shape
<1> QED  BY <1>3, <1>4, <1>7

\* What still fits after the write.
LEMMA WroteFits ==
  ASSUME NEW im, NEW x, NEW c, NEW h, NEW v, Wrote(im, x, c, h, v), im.check \/ Fits(im)
  PROVE  x.check \/ Fits(x)
<1>1. im \in Images /\ x \in Images /\ x.l1 = im.l1 /\ x.l2 = im.l2 /\ x.size >= im.size
      /\ x.check = im.check
  BY DEF Wrote
<1> QED  BY <1>1, SameTables

\* An entry is written to a table: the request's cluster becomes referenced.
LEMMA EntryShape ==
  ASSUME Typed, Shape, NEW i \in Index, NEW j \in Index, NEW t, t = l1[i], t # 0,
         img.l2[t][j] = 0, Write(SetEntry(t, j, cur)), l1' = l1,
         Bound = cur, Bound' = cur + 1, 2 * (cur + 1) <= img.size
  PROVE  /\ Shape' /\ Entered(img, img', t, j, cur)
         /\ \A x \in Reach' : \E im \in Reach : x = im \/ Entered(im, x, t, j, cur)
<1>0. img \in Images /\ (\A im \in Reach : im \in Images) /\ cur \in Clusters /\ cur \in Nat
  BY TypedGives, BoundType
<1>a. l1 = img.l1 /\ Apart(img) /\ Below(img, cur) /\ FirstFree <= cur
      /\ \A im \in Reach : Sub(im, img)
  BY DEF Shape
<1>b. t = img.l1[i] /\ t \in Clusters /\ t \in Nat
  BY <1>0, <1>a, Fields
<1>1. SetEntry(t, j, cur) \in Writes
  BY <1>0, <1>b, ApplyEntry
<1>2. /\ \A x \in Reach' : \E im \in Reach : x = im \/ x = Apply(im, SetEntry(t, j, cur))
      /\ img' = Apply(img, SetEntry(t, j, cur))
  BY <1>1, WriteReach DEF Typed
<1>3. \A x \in Reach' : \E im \in Reach : x = im \/ Entered(im, x, t, j, cur)
  BY <1>0, <1>b, <1>2, ApplyEntry
<1>4. Entered(img, img', t, j, cur)
  BY <1>0, <1>b, <1>2, ApplyEntry
<1>w. /\ img' \in Images /\ img'.size = img.size /\ img'.l1 = img.l1
      /\ \A u \in Clusters, k \in Index :
           img'.l2[u][k] = IF u = t /\ k = j THEN cur ELSE img.l2[u][k]
  BY <1>4 DEF Entered
<1> DEFINE T(k) == img.l1[k]
           E(k, m) == img.l2[T(k)][m]
           N(k, m) == img'.l2[T(k)][m]
<1>c. \A k \in Index : T(k) \in Nat /\ T(k) \in Clusters /\ \A m \in Index : E(k, m) \in Nat
  BY <1>0, Fields
<1>d. \A k \in Index : T(k) = t => k = i
  BY <1>a, <1>b, <1>c, Sizes DEF Apart
<1>5. \A k, m \in Index : N(k, m) = IF k = i /\ m = j THEN cur ELSE E(k, m)
  BY <1>b, <1>c, <1>d, <1>w
<1>6. \A k \in Index : T(k) # 0 => T(k) + TableSize <= cur /\ \A m \in Index : E(k, m) < cur
  BY <1>a DEF Below
<1>7. Apart(img')
  <2>1. /\ \A k \in Index : T(k) # 0 => T(k) >= FirstFree
        /\ \A k, m \in Index : T(k) # 0 /\ T(m) # 0 =>
             k = m \/ T(k) + TableSize <= T(m) \/ T(m) + TableSize <= T(k)
    BY <1>a DEF Apart
  <2>2. \A k, n, m \in Index : T(k) # 0 /\ T(n) # 0 /\ E(k, m) # 0 =>
          E(k, m) >= FirstFree /\ (E(k, m) < T(n) \/ E(k, m) >= T(n) + TableSize)
    BY <1>a DEF Apart
  <2>3. \A k, n, m, p \in Index :
          T(k) # 0 /\ T(n) # 0 /\ E(k, m) # 0 /\ E(k, m) = E(n, p) => k = n /\ m = p
    BY <1>a DEF Apart
  <2> HIDE DEF T, E, N
  <2>4. \A k, n, m \in Index : T(k) # 0 /\ T(n) # 0 /\ N(k, m) # 0 =>
          N(k, m) >= FirstFree /\ (N(k, m) < T(n) \/ N(k, m) >= T(n) + TableSize)
    BY <1>5, <1>6, <1>a, <1>0, <2>2, Sizes
  <2>5. \A k, n, m, p \in Index :
          T(k) # 0 /\ T(n) # 0 /\ N(k, m) # 0 /\ N(k, m) = N(n, p) => k = n /\ m = p
    BY <1>5, <1>6, <1>0, <1>c, <2>3
  <2> QED  BY <1>w, <2>1, <2>4, <2>5 DEF Apart, T, N
<1>8. Below(img', cur + 1)
  <2>1. \A k \in Index : T(k) # 0 =>
          T(k) + TableSize <= cur + 1 /\ \A m \in Index : N(k, m) < cur + 1
    <3> HIDE DEF T, E, N
    <3> QED  BY <1>0, <1>c, <1>5, <1>6, Sizes
  <2> QED  BY <1>w, <2>1 DEF Below
<1>9. ASSUME NEW im \in Reach
      PROVE  Sub(im, img') /\ \A x : Entered(im, x, t, j, cur) => Sub(x, img')
  <2>1. /\ \A k \in Index : im.l1[k] \in {0, T(k)}
        /\ \A k, m \in Index : T(k) # 0 => im.l2[T(k)][m] \in {0, E(k, m)}
    BY <1>a DEF Sub
  <2>2. \A k, m \in Index : T(k) # 0 => im.l2[T(k)][m] \in {0, N(k, m)}
    <3>1. E(i, j) = 0
      BY <1>b
    <3> HIDE DEF T, E, N
    <3> QED  BY <1>5, <2>1, <3>1
  <2>3. Sub(im, img')
    BY <1>w, <2>1, <2>2 DEF Sub
  <2>4. ASSUME NEW x, Entered(im, x, t, j, cur) PROVE Sub(x, img')
    <3>1. /\ x.l1 = im.l1
          /\ \A k, m \in Index : x.l2[T(k)][m] =
               IF T(k) = t /\ m = j THEN cur ELSE im.l2[T(k)][m]
      BY <1>c, <2>4 DEF Entered
    <3>2. \A k, m \in Index : T(k) # 0 => x.l2[T(k)][m] \in {0, N(k, m)}
      <4>1. \A k \in Index : T(k) = t <=> k = i
        BY <1>b, <1>d
      <4> HIDE DEF T, N, E
      <4> QED  BY <1>5, <2>2, <3>1, <4>1
    <3> QED  BY <1>w, <2>1, <3>1, <3>2 DEF Sub
  <2> QED  BY <2>3, <2>4
<1>10. \A x \in Reach' : Sub(x, img')
  BY <1>3, <1>9
<1>11. Shape'
  <2>1. l1' = img'.l1 /\ FirstFree <= cur + 1 /\ 2 * (cur + 1) <= img'.size
    BY <1>0, <1>a, <1>w, Sizes
  <2> QED  BY <1>7, <1>8, <1>10, <2>1 DEF Shape
<1> QED  BY <1>3, <1>4, <1>11

\* A table is written beyond all references.
LEMMA TableShape ==
  ASSUME Typed, Shape, NEW t \in Clusters, NEW v \in [Index -> Clusters],
         t + TableSize <= MaxClusters, Bound <= t,
         Write(SetTable(t, v)), l1' = l1, Bound' = Bound
  PROVE  /\ Shape' /\ Tabled(img, img', t, v)
         /\ \A x \in Reach' : \E im \in Reach : x = im \/ Tabled(im, x, t, v)
         /\ \A im \in Reach : \A x : Tabled(im, x, t, v) /\ (im.check \/ Fits(im)) => x.check \/ Fits(x)
<1>0. img \in Images /\ (\A im \in Reach : im \in Images) /\ Bound \in Nat /\ t \in Nat
  BY TypedGives, BoundType, Sizes
<1>1. SetTable(t, v) \in Writes
  BY <1>0, ApplyTable
<1>2. /\ \A x \in Reach' : \E im \in Reach : x = im \/ x = Apply(im, SetTable(t, v))
      /\ img' = Apply(img, SetTable(t, v))
  BY <1>1, WriteReach DEF Typed
<1>3. \A x \in Reach' : \E im \in Reach : x = im \/ Tabled(im, x, t, v)
  BY <1>0, <1>2, ApplyTable
<1>4. Tabled(img, img', t, v)
  BY <1>0, <1>2, ApplyTable
<1>5. ASSUME NEW im \in Reach, NEW x, Tabled(im, x, t, v)
      PROVE  /\ im \in Images /\ x \in Images /\ x.l1 = im.l1 /\ x.check = im.check
             /\ x.size >= im.size /\ x.size \in Nat /\ im.size \in Nat
             /\ \A u \in Clusters : u # t => x.l2[u] = im.l2[u]
             /\ \A k \in Index : img.l1[k] # 0 =>
                  img.l1[k] # t /\ img.l1[k] \in Clusters /\ x.l2[img.l1[k]] = im.l2[img.l1[k]]
             /\ \A k \in Index : im.l1[k] # 0 =>
                  im.l1[k] = img.l1[k] /\ x.l2[im.l1[k]] = im.l2[im.l1[k]]
  <2>1. /\ im \in Images /\ x \in Images /\ x.l1 = im.l1 /\ x.check = im.check
        /\ x.size >= im.size
        /\ \A u \in Clusters : u # t => x.l2[u] = im.l2[u]
    BY <1>5 DEF Tabled
  <2>2. \A k \in Index : img.l1[k] # 0 => img.l1[k] # t /\ img.l1[k] \in Clusters
    BY <1>0, Fields, Sizes DEF Shape, Below
  <2>3. \A k \in Index : im.l1[k] # 0 => im.l1[k] = img.l1[k]
    BY DEF Shape, Sub
  <2> QED  BY <2>1, <2>2, <2>3, Fields
<1>6. ASSUME NEW im \in Reach, NEW x, Tabled(im, x, t, v)
      PROVE  Sub(x, img') /\ (im.check \/ Fits(im) => x.check \/ Fits(x))
  <2>1. Fits(im) => Fits(x)
    <3> SUFFICES ASSUME Fits(im), NEW k \in Index, x.l1[k] # 0
                 PROVE  /\ 2 * (x.l1[k] + TableSize) <= x.size
                        /\ \A j \in Index : x.l2[x.l1[k]][j] # 0 =>
                             2 * (x.l2[x.l1[k]][j] + 1) <= x.size
      BY DEF Fits
    <3>1. im.l1[k] = x.l1[k] /\ x.l2[x.l1[k]] = im.l2[im.l1[k]] /\ im.l1[k] # 0
      BY <1>5, <1>6
    <3>2. /\ 2 * (im.l1[k] + TableSize) <= im.size
          /\ \A j \in Index : im.l2[im.l1[k]][j] # 0 => 2 * (im.l2[im.l1[k]][j] + 1) <= im.size
      BY <3>1 DEF Fits
    <3>3. /\ im.size \in Nat /\ x.size \in Nat /\ x.size >= im.size /\ im \in Images
      BY <1>5, <1>6
    <3>4. im.l1[k] \in Nat /\ \A j \in Index : im.l2[im.l1[k]][j] \in Nat
      BY <3>3, Fields
    <3> QED  BY <3>1, <3>2, <3>3, <3>4, Sizes
  <2>2. Sub(x, img)
    BY <1>5, <1>6 DEF Shape, Sub
  <2>3. /\ img'.l1 = img.l1
        /\ \A k \in Index : img.l1[k] # 0 => img'.l2[img.l1[k]] = img.l2[img.l1[k]]
    BY <1>4, <1>5, TypedGives
  <2>4. Sub(x, img')
    BY <2>2, <2>3 DEF Sub
  <2> QED  BY <1>5, <1>6, <2>1, <2>4
<1>7. /\ img'.l1 = img.l1 /\ img' \in Images /\ img'.size >= img.size
      /\ img'.size \in Nat /\ img.size \in Nat
      /\ \A k \in Index : img.l1[k] # 0 => img'.l2[img.l1[k]] = img.l2[img.l1[k]]
  BY <1>4, <1>5, TypedGives
<1>8. ASSUME NEW im \in Reach PROVE Sub(im, img')
  <2>1. Sub(im, img)
    BY DEF Shape
  <2> QED  BY <1>7, <2>1 DEF Sub
<1>9. \A x \in Reach' : Sub(x, img')
  BY <1>3, <1>6, <1>8
<1>10. Apart(img') /\ Below(img', Bound)
  <2>1. Sub(img', img)
    BY <1>7 DEF Sub
  <2> QED  BY <1>0, <1>7, <2>1, SubApart, SubBelow DEF Shape
<1>11. Shape'
  <2>1. l1' = img'.l1 /\ FirstFree <= Bound /\ 2 * Bound <= img'.size
    BY <1>0, <1>7 DEF Shape
  <2> QED  BY <1>9, <1>10, <2>1 DEF Shape
<1> QED  BY <1>3, <1>4, <1>6, <1>11

\* A new table is linked.
LEMMA LinkShape ==
  ASSUME Typed, Shape, Pinned, NEW i \in Index, NEW j \in Index, NEW t \in Clusters,
         l1[i] = 0, t = cur + 1, file_size = t + TableSize, 2 * file_size <= img.size,
         img.l2[t] = [NoTable EXCEPT ![j] = cur],
         l1' = [l1 EXCEPT ![i] = t], Write(SetL1(l1')),
         Bound = cur, Bound' = file_size
  PROVE  /\ Shape' /\ img'.check = img.check /\ img'.l2 = img.l2 /\ img'.data = img.data
         /\ img'.size = img.size /\ img'.l1 = l1'
         /\ \A x \in Reach' : x = img \/ x = img'
         /\ Fits(img) /\ Fits(img')
<1>0. /\ img \in Images /\ cur \in Clusters /\ cur \in Nat /\ file_size \in Nat /\ t \in Nat
      /\ l1 \in [Index -> Clusters] /\ l1' \in [Index -> Clusters]
  BY TypedGives, BoundType, Sizes DEF Typed
<1>a. l1 = img.l1 /\ Apart(img) /\ Below(img, cur) /\ FirstFree <= cur
  BY DEF Shape
<1>1. /\ SetL1(l1') \in Writes /\ Apply(img, SetL1(l1')) \in Images
      /\ LET x == Apply(img, SetL1(l1')) IN
         /\ x.check = img.check /\ x.size = img.size /\ x.l1 = l1' /\ x.l2 = img.l2
         /\ x.data = img.data
  BY <1>0, ApplyL1
<1>2. /\ \A x \in Reach' : \E im \in Reach : x = im \/ x = Apply(im, SetL1(l1'))
      /\ img' = Apply(img, SetL1(l1'))
  BY <1>1, WriteReach DEF Typed
<1>w. /\ img' \in Images /\ img'.check = img.check /\ img'.size = img.size /\ img'.l1 = l1'
      /\ img'.l2 = img.l2 /\ img'.data = img.data
  BY <1>1, <1>2
<1>3. \A x \in Reach' : x = img \/ x = img'
  BY <1>2, PinnedReach
<1> DEFINE T(k) == img.l1[k]
           E(k, m) == img.l2[T(k)][m]
           N(k) == img'.l1[k]
           F(k, m) == img.l2[N(k)][m]
<1>c. \A k \in Index : T(k) \in Nat /\ T(k) \in Clusters /\ \A m \in Index : E(k, m) \in Nat
  BY <1>0, Fields
<1>4. \A k \in Index : N(k) = IF k = i THEN t ELSE T(k)
  BY <1>0, <1>a, <1>w
<1>5. \A k, m \in Index : F(k, m) = IF k = i THEN IF m = j THEN cur ELSE 0 ELSE E(k, m)
  BY <1>4 DEF NoTable
<1>6. \A k \in Index : T(k) # 0 => T(k) + TableSize <= cur /\ \A m \in Index : E(k, m) < cur
  BY <1>a DEF Below
<1>7. Apart(img')
  <2>1. /\ \A k \in Index : T(k) # 0 => T(k) >= FirstFree
        /\ \A k, m \in Index : T(k) # 0 /\ T(m) # 0 =>
             k = m \/ T(k) + TableSize <= T(m) \/ T(m) + TableSize <= T(k)
    BY <1>a DEF Apart
  <2>2. \A k, n, m \in Index : T(k) # 0 /\ T(n) # 0 /\ E(k, m) # 0 =>
          E(k, m) >= FirstFree /\ (E(k, m) < T(n) \/ E(k, m) >= T(n) + TableSize)
    BY <1>a DEF Apart
  <2>3. \A k, n, m, p \in Index :
          T(k) # 0 /\ T(n) # 0 /\ E(k, m) # 0 /\ E(k, m) = E(n, p) => k = n /\ m = p
    BY <1>a DEF Apart
  <2>9. T(i) = 0
    BY <1>a
  <2> HIDE DEF T, E, N, F
  <2>4. /\ \A k \in Index : N(k) # 0 => N(k) >= FirstFree
        /\ \A k, m \in Index : N(k) # 0 /\ N(m) # 0 =>
             k = m \/ N(k) + TableSize <= N(m) \/ N(m) + TableSize <= N(k)
    BY <1>0, <1>4, <1>6, <1>a, <1>c, <2>1, Sizes
  <2>5. \A k, n, m \in Index : N(k) # 0 /\ N(n) # 0 /\ F(k, m) # 0 =>
          F(k, m) >= FirstFree /\ (F(k, m) < N(n) \/ F(k, m) >= N(n) + TableSize)
    <3> SUFFICES ASSUME NEW k \in Index, NEW n \in Index, NEW m \in Index,
                        N(k) # 0, N(n) # 0, F(k, m) # 0
                 PROVE  F(k, m) >= FirstFree /\ (F(k, m) < N(n) \/ F(k, m) >= N(n) + TableSize)
      OBVIOUS
    <3>1. CASE k = i
      BY <3>1, <1>0, <1>4, <1>5, <1>6, <1>a, <1>c, Sizes
    <3>2. CASE k # i
      BY <3>2, <1>0, <1>4, <1>5, <1>6, <1>a, <1>c, <2>2, Sizes
    <3> QED  BY <3>1, <3>2
  <2>6. \A k, n, m, p \in Index :
          N(k) # 0 /\ N(n) # 0 /\ F(k, m) # 0 /\ F(k, m) = F(n, p) => k = n /\ m = p
    <3> SUFFICES ASSUME NEW k \in Index, NEW n \in Index, NEW m \in Index, NEW p \in Index,
                        N(k) # 0, N(n) # 0, F(k, m) # 0, F(k, m) = F(n, p)
                 PROVE  k = n /\ m = p
      OBVIOUS
    <3>1. CASE k = i
      BY <3>1, <1>0, <1>4, <1>5, <1>6, <1>c
    <3>2. CASE k # i
      BY <3>2, <1>0, <1>4, <1>5, <1>6, <1>c, <2>3
    <3> QED  BY <3>1, <3>2
  <2> QED  BY <1>w, <2>4, <2>5, <2>6 DEF Apart, N, F
<1>8. Below(img', file_size) /\ Below(img, file_size)
  <2>1. \A k \in Index : N(k) # 0 =>
          N(k) + TableSize <= file_size /\ \A m \in Index : F(k, m) < file_size
    <3> HIDE DEF T, E, N, F
    <3> QED  BY <1>0, <1>c, <1>4, <1>5, <1>6, Sizes
  <2>2. \A k \in Index : T(k) # 0 =>
          T(k) + TableSize <= file_size /\ \A m \in Index : E(k, m) < file_size
    <3> HIDE DEF T, E, N, F
    <3> QED  BY <1>0, <1>c, <1>6, Sizes
  <2> QED  BY <1>w, <2>1, <2>2 DEF Below
<1>9. Sub(img, img') /\ Sub(img', img')
  <2>1. T(i) = 0
    BY <1>a
  <2> QED  BY <1>w, <1>4, <2>1, SubSelf DEF Sub
<1>10. Fits(img) /\ Fits(img')
  BY <1>0, <1>8, <1>w, BelowFits
<1>11. Shape'
  <2>1. FirstFree <= file_size /\ 2 * file_size <= img'.size
    BY <1>0, <1>a, <1>w, Sizes
  <2> QED  BY <1>3, <1>7, <1>8, <1>9, <1>w, <2>1 DEF Shape
<1> QED  BY <1>3, <1>10, <1>11, <1>w

\* Which part of Core is about which position.
LEMMA CoreParts ==
  ASSUME ~lostmark, Core
  PROVE  /\ pc = "down" => ~need_check /\ Apart(img) /\ \A im \in Reach :
              Same(im, img) /\ (im.check \/ Fits(im)) /\ (img.check => im.check)
         /\ pc \in {"check", "checked"} =>
              /\ need_check /\ l1 = img.l1 /\ 2 * file_size <= img.size
              /\ Apart(stable)
              /\ \A im \in Reach : im.check /\ Sub(im, stable)
              /\ pc = "checked" => ~found /\ Below(img, file_size)
         /\ pc \in {"clear", "opened"} \cup Running => Shape /\ Marked /\ Steps
BY SoundParts DEF Core, Down, Repair

\* Opening and repairing an image keeps the invariant.
LEMMA OpenCore ==
  ASSUME Typed, Typed', Core, ~lostmark, Open
  PROVE  Core'
<1> SUFFICES Down' /\ Repair' /\ Sound'
  BY DEF Core
<1>0. /\ img \in Images /\ stable \in Images /\ img \in Reach /\ stable \in Reach
      /\ \A im \in Reach : im \in Images
  BY TypedGives
<1>n. file_size \in Nat /\ file_size >= FirstFree /\ file_size <= MaxClusters
  BY Sizes DEF Typed
<1>1. CASE bdrv_qed_open
  <2>1. /\ Apart(img) /\ pc = "down" /\ UNCHANGED disk /\ Reach' = Reach
        /\ \A im \in Reach : Same(im, img) /\ (im.check \/ Fits(im)) /\ (img.check => im.check)
    BY <1>1, CoreParts, SameReach DEF bdrv_qed_open
  <2>2. \A im \in Reach : im.l1 = img.l1 /\ im.l2 = img.l2
    BY <1>0, <2>1, SameFlag
  <2>3. \A im \in Reach : Sub(im, img) /\ Sub(im, stable)
    BY <1>0, <2>2, SameTables
  <2>4. Apart(stable)
    BY <1>0, <2>1, <2>2, SameTables
  <2>5. img.size \in Nat /\ img.size >= 2 * FirstFree
    BY <1>0, Fields
  <2>6. /\ need_check' = img.check /\ l1' = img.l1 /\ img' = img /\ stable' = stable
        /\ file_size' = img.size \div 2 /\ 2 * file_size' <= img.size
        /\ FirstFree <= file_size' /\ file_size' \in Nat
    BY <1>1, <2>5, Sizes DEF bdrv_qed_open, disk
  <2>7. CASE img.check
    <3>1. pc' = "check" /\ need_check'
      BY <1>1, <2>6, <2>7 DEF bdrv_qed_open
    <3>2. Repair'
      BY <2>1, <2>3, <2>4, <2>6, <2>7, <3>1 DEF Repair
    <3> QED  BY <3>1, <3>2 DEF Down, Sound, Running, Linking
  <2>8. CASE ~img.check
    <3>1. pc' = "opened" /\ ~need_check' /\ Bound' = file_size'
      BY <1>1, <2>6, <2>8 DEF bdrv_qed_open, Bound, Linking
    <3>2. Fits(img)
      BY <1>0, <2>1, <2>8
    <3>3. Below(img, file_size')
      <4> SUFFICES ASSUME NEW i \in Index, img.l1[i] # 0
                   PROVE  /\ img.l1[i] + TableSize <= file_size'
                          /\ \A j \in Index : img.l2[img.l1[i]][j] < file_size'
        BY DEF Below
      <4>1. img.l1[i] \in Nat /\ \A j \in Index : img.l2[img.l1[i]][j] \in Nat
        BY <1>0, Fields
      <4>2. /\ 2 * (img.l1[i] + TableSize) <= img.size
            /\ \A j \in Index : img.l2[img.l1[i]][j] # 0 => 2 * (img.l2[img.l1[i]][j] + 1) <= img.size
        BY <3>2 DEF Fits
      <4> QED  BY <2>5, <2>6, <4>1, <4>2, Sizes
    <3>4. Shape'
      BY <2>1, <2>3, <2>6, <3>1, <3>3 DEF Shape
    <3>5. Marked' /\ Steps'
      BY <2>1, <3>1 DEF Marked, Steps, Link, Linking
    <3> QED  BY <3>1, <3>4, <3>5 DEF Down, Repair, Sound, Shape, Marked, Steps
  <2> QED  BY <2>7, <2>8
<1>2. CASE FixTable
  <2>1. /\ pc = "check" /\ pc' = "check" /\ need_check' = need_check /\ l1' = l1
        /\ file_size' = file_size
    BY <1>2 DEF FixTable, driver
  <2>2. /\ need_check /\ l1 = img.l1 /\ 2 * file_size <= img.size /\ Apart(stable)
        /\ \A im \in Reach : im.check /\ Sub(im, stable)
    BY <2>1, CoreParts
  <2>3. PICK i \in Descended :
          Write(SetTable(l1[i], [j \in Index |->
                  IF BadEntry(img.l2[l1[i]][j]) THEN 0 ELSE img.l2[l1[i]][j]]))
    BY <1>2 DEF FixTable
  <2> DEFINE t == l1[i]
             v == [j \in Index |-> IF BadEntry(img.l2[t][j]) THEN 0 ELSE img.l2[t][j]]
  <2>4. i \in Index /\ t \in Clusters /\ t \in Nat /\ t # 0 /\ t = img.l1[i]
        /\ t + TableSize - 1 < file_size
    BY <1>0, <2>2, <2>3, Fields DEF Descended, qed_check_table_offset, qed_check_cluster_offset
  <2>5. v \in [Index -> Clusters] /\ \A j \in Index : v[j] \in {0, img.l2[t][j]}
    BY <1>0, <2>4, Fields, Sizes
  <2>6. t + TableSize <= MaxClusters
    BY <1>n, <2>4, Sizes
  <2> HIDE DEF v
  <2>7. SetTable(t, v) \in Writes
    BY <1>0, <2>4, <2>5, <2>6, ApplyTable
  <2>8. /\ \A x \in Reach' : \E im \in Reach : x = im \/ x = Apply(im, SetTable(t, v))
        /\ img' = Apply(img, SetTable(t, v))
        /\ ~volatile => Pinned'
        /\ volatile => stable' = stable
    <3>1. volatile' = volatile
      BY <1>2 DEF FixTable, mode
    <3> QED  BY <2>3, <2>7, <3>1, WriteReach DEF Typed, v, Pinned
  <2>9. \A im \in Reach : Tabled(im, Apply(im, SetTable(t, v)), t, v)
    BY <1>0, <2>4, <2>5, <2>6, ApplyTable
  <2>10. ASSUME NEW im \in Reach, NEW x, Tabled(im, x, t, v)
         PROVE  x.check /\ Sub(x, stable) /\ x \in Images /\ x.l1 = im.l1 /\ x.size >= im.size
    <3>1. /\ x \in Images /\ x.check = im.check /\ x.l1 = im.l1 /\ x.size >= im.size
          /\ \A u \in Clusters : x.l2[u] = IF u = t THEN v ELSE im.l2[u]
      BY <2>10 DEF Tabled
    <3>2. Sub(im, stable) /\ Sub(img, stable) /\ im.check
      BY <1>0, <2>2
    <3>3. \A k, j \in Index : stable.l1[k] # 0 =>
            x.l2[stable.l1[k]][j] \in {0, stable.l2[stable.l1[k]][j]}
      <4> SUFFICES ASSUME NEW k \in Index, NEW j \in Index, stable.l1[k] # 0
                   PROVE  x.l2[stable.l1[k]][j] \in {0, stable.l2[stable.l1[k]][j]}
        OBVIOUS
      <4>1. stable.l1[k] \in Clusters
        BY <1>0, Fields
      <4>2. CASE stable.l1[k] = t
        <5>1. img.l2[stable.l1[k]][j] \in {0, stable.l2[stable.l1[k]][j]}
          BY <3>2 DEF Sub
        <5> QED  BY <2>5, <3>1, <4>1, <4>2, <5>1
      <4>3. CASE stable.l1[k] # t
        BY <3>1, <3>2, <4>1, <4>3 DEF Sub
      <4> QED  BY <4>2, <4>3
    <3> QED  BY <3>1, <3>2, <3>3 DEF Sub
  <2>11. \A x \in Reach' : x.check /\ Sub(x, stable)
    BY <2>2, <2>8, <2>9, <2>10
  <2>12. Sub(img', stable) /\ img' \in Images /\ img'.l1 = img.l1 /\ img'.size >= img.size /\ img'.check
    BY <1>0, <2>8, <2>9, <2>10
  <2>13. Apart(stable') /\ \A x \in Reach' : x.check /\ Sub(x, stable')
    <3>1. CASE volatile
      BY <2>2, <2>8, <2>11, <3>1
    <3>2. CASE ~volatile
      <4>1. Reach' = {img'} /\ stable' = img'
        BY <2>8, <3>2, ReachedEmpty DEF Pinned, Reach
      <4>2. Apart(img')
        BY <1>0, <2>2, <2>12, SubApart
      <4> QED  BY <2>12, <4>1, <4>2, SubSelf
    <3> QED  BY <3>1, <3>2 DEF Typed
  <2>14. 2 * file_size <= img'.size
    BY <1>0, <1>n, <2>2, <2>12, Fields
  <2>15. Repair'
    BY <2>1, <2>2, <2>12, <2>13, <2>14 DEF Repair
  <2> QED  BY <2>1, <2>15 DEF Down, Sound, Running, Linking
<1>3. CASE FixL1
  <2>1. /\ pc = "check" /\ pc' = "checked" /\ need_check' = need_check /\ file_size' = file_size
        /\ l1' = [i \in Index |-> IF qed_check_table_offset(l1[i]) THEN l1[i] ELSE 0]
        /\ found' = Corruptions
        /\ \A i \in Descended, j \in Index : ~BadEntry(img.l2[l1[i]][j])
        /\ volatile' = volatile
        /\ IF l1' # l1 THEN Write(SetL1(l1')) ELSE UNCHANGED disk
    BY <1>3 DEF FixL1, mode
  <2>2. /\ need_check /\ l1 = img.l1 /\ 2 * file_size <= img.size /\ Apart(stable)
        /\ \A im \in Reach : im.check /\ Sub(im, stable)
    BY <2>1, CoreParts
  <2>3. Apart(img)
    BY <1>0, <2>2, SubApart
  <2>4. ~found' /\ \A i \in Index : l1[i] # 0 /\ qed_check_table_offset(l1[i]) => i \in Descended
    BY <2>1, <2>2, <2>3, NothingFound
  <2>5. l1' \in [Index -> Clusters] /\ \A i \in Index : l1'[i] \in {0, l1[i]}
    BY <2>1, Sizes DEF Typed
  <2>6. ASSUME NEW i \in Index, l1'[i] # 0
        PROVE  /\ l1'[i] = img.l1[i] /\ img.l1[i] + TableSize <= file_size
               /\ \A j \in Index : img.l2[img.l1[i]][j] < file_size
    <3>1. l1'[i] = l1[i] /\ l1[i] # 0 /\ qed_check_table_offset(l1[i])
      BY <2>1, <2>6
    <3>2. i \in Descended
      BY <2>4, <3>1
    <3>3. img.l1[i] \in Nat /\ \A j \in Index : img.l2[img.l1[i]][j] \in Nat
      BY <1>0, Fields
    <3>4. \A j \in Index : ~BadEntry(img.l2[img.l1[i]][j])
      BY <2>1, <2>2, <3>2
    <3> QED  BY <1>n, <2>2, <3>1, <3>3, <3>4, Sizes
             DEF BadEntry, qed_check_table_offset, qed_check_cluster_offset
  <2>7. CASE l1' = l1
    <3>1. Reach' = Reach /\ img' = img /\ stable' = stable
      BY <2>1, <2>7, SameReach
    <3>2. Below(img, file_size)
      BY <2>2, <2>6, <2>7 DEF Below
    <3>3. Repair'
      BY <2>1, <2>2, <2>4, <2>7, <3>1, <3>2 DEF Repair
    <3> QED  BY <2>1, <3>3 DEF Down, Sound, Running, Linking
  <2>8. CASE l1' # l1
    <3>1. SetL1(l1') \in Writes
      BY <1>0, <2>5, ApplyL1
    <3>2. /\ \A x \in Reach' : \E im \in Reach : x = im \/ x = Apply(im, SetL1(l1'))
          /\ img' = Apply(img, SetL1(l1'))
          /\ ~volatile => Pinned'
          /\ volatile => stable' = stable
      BY <2>1, <2>8, <3>1, WriteReach DEF Typed, Pinned
    <3>3. ASSUME NEW im \in Reach
          PROVE  LET x == Apply(im, SetL1(l1')) IN
                 /\ x.check /\ Sub(x, stable) /\ x \in Images /\ x.l1 = l1' /\ x.size = im.size
                 /\ x.l2 = im.l2
      <4> DEFINE x == Apply(im, SetL1(l1'))
      <4>1. /\ x \in Images /\ x.check = im.check /\ x.l1 = l1' /\ x.l2 = im.l2
            /\ x.size = im.size
        BY <1>0, <2>5, ApplyL1
      <4> HIDE DEF x
      <4>2. im.check /\ Sub(im, stable) /\ Sub(img, stable)
        BY <1>0, <2>2
      <4>3. \A i \in Index : l1'[i] \in {0, stable.l1[i]}
        BY <2>2, <2>5, <4>2 DEF Sub
      <4>4. Sub(x, stable)
        BY <4>1, <4>2, <4>3 DEF Sub
      <4> QED  BY <4>1, <4>2, <4>4 DEF x
    <3>4. \A x \in Reach' : x.check /\ Sub(x, stable)
      BY <2>2, <3>2, <3>3
    <3>5. /\ Sub(img', stable) /\ img' \in Images /\ img'.l1 = l1' /\ img'.size = img.size
          /\ img'.check /\ img'.l2 = img.l2
      BY <1>0, <3>2, <3>3
    <3>6. Apart(stable') /\ \A x \in Reach' : x.check /\ Sub(x, stable')
      <4>1. CASE volatile
        BY <2>2, <3>2, <3>4, <4>1
      <4>2. CASE ~volatile
        <5>1. Reach' = {img'} /\ stable' = img'
          BY <3>2, <4>2, ReachedEmpty DEF Pinned, Reach
        <5>2. Apart(img')
          BY <1>0, <2>2, <3>5, SubApart
        <5> QED  BY <3>5, <5>1, <5>2, SubSelf
      <4> QED  BY <4>1, <4>2 DEF Typed
    <3>7. Below(img', file_size)
      BY <2>6, <3>5 DEF Below
    <3>8. Repair'
      BY <2>1, <2>2, <2>4, <3>5, <3>6, <3>7 DEF Repair
    <3> QED  BY <2>1, <3>8 DEF Down, Sound, Running, Linking
  <2> QED  BY <2>7, <2>8
<1>4. CASE Checked
  <2>1. /\ need_check /\ l1 = img.l1 /\ 2 * file_size <= img.size /\ Apart(stable)
        /\ \A im \in Reach : im.check /\ Sub(im, stable)
        /\ ~found /\ Below(img, file_size)
    BY <1>4, CoreParts DEF Checked
  <2>2. /\ pc' = "clear" /\ Flush /\ need_check' = need_check /\ l1' = l1 /\ file_size' = file_size
        /\ Bound' = file_size'
    BY <1>4, <2>1 DEF Checked, driver, Bound, Linking
  <2>3. Reach' = {img} /\ img' = img /\ Pinned'
    BY <2>2, FlushReach
  <2>4. Apart(img)
    BY <1>0, <2>1, SubApart
  <2>5. Shape'
    BY <1>n, <2>1, <2>2, <2>3, <2>4, SubSelf DEF Shape
  <2>6. Marked' /\ Steps'
    BY <1>0, <2>1, <2>2, <2>3 DEF Marked, Steps, Link, Linking
  <2> QED  BY <2>2, <2>5, <2>6 DEF Down, Repair, Sound, Shape, Marked, Steps
<1>5. CASE ClearAfterCheck
  <2>1. Write(SetFlag(FALSE))
    BY <1>5 DEF ClearAfterCheck
  <2>a. pc = "clear" /\ pc' = "opened" /\ need_check' = FALSE /\ l1' = l1 /\ file_size' = file_size
    BY <1>5 DEF ClearAfterCheck
  <2>b. Bound = file_size /\ Bound' = Bound
    BY <2>a DEF Bound, Linking
  <2>2. Shape /\ Steps /\ Pinned
    BY <2>a, CoreParts DEF Steps
  <2>3. Fits(img) /\ Reach = {img}
    BY <2>2, PinnedFits
  <2>4. /\ Shape' /\ \A x \in Reach' : \E im \in Reach :
              x \in Images /\ x.l1 = im.l1 /\ x.l2 = im.l2 /\ x.size = im.size
    BY <2>1, <2>2, <2>a, <2>b, FlagShape
  <2>5. ASSUME NEW x \in Reach' PROVE Fits(x)
    <3>1. x \in Images /\ x.l1 = img.l1 /\ x.l2 = img.l2 /\ x.size = img.size
      BY <2>3, <2>4
    <3>2. x.size >= img.size
      BY <1>0, <3>1, Fields
    <3> QED  BY <1>0, <2>3, <3>1, <3>2, SameTables
  <2>6. Marked' /\ Steps'
    BY <2>a, <2>5 DEF Marked, Steps, Link, Linking
  <2> QED  BY <2>a, <2>4, <2>6 DEF Down, Repair, Sound, Shape, Marked, Steps
<1>6. CASE Resume
  <2>1. /\ pc = "opened" /\ pc' = "idle" /\ UNCHANGED disk /\ need_check' = need_check /\ l1' = l1
        /\ Bound' = Bound
    BY <1>6 DEF Resume, driver, Bound, Linking
  <2>2. Shape /\ Marked /\ Steps
    BY <2>1, CoreParts
  <2>3. Reach' = Reach /\ img' = img
    BY <2>1, SameReach
  <2>4. Shape'
    BY <2>1, <2>2, <2>3, QuietShape
  <2>5. Marked' /\ Steps'
    BY <2>1, <2>2, <2>3 DEF Marked, Steps, Link, Linking
  <2> QED  BY <2>1, <2>4, <2>5 DEF Down, Repair, Sound, Shape, Marked, Steps
<1> QED  BY <1>1, <1>2, <1>3, <1>4, <1>5, <1>6 DEF Open

\* Every step of a write request keeps the invariant.
LEMMA RequestCore ==
  ASSUME Typed, Typed', Core, Own, ~lostmark, WriteRequest
  PROVE  Core'
<1>0. /\ img \in Images /\ stable \in Images /\ img \in Reach /\ stable \in Reach
      /\ \A im \in Reach : im \in Images
  BY TypedGives
<1>n. /\ file_size \in Nat /\ file_size >= FirstFree /\ cur \in Nat /\ cur \in Clusters
      /\ img.size \in Nat
  BY <1>0, Sizes, BoundType, Fields DEF Typed
<1>p. /\ req.at \in Virt /\ req.val \in 0..MaxWrites /\ req.tab \in Clusters
      /\ req.val \in Hole..MaxWrites /\ 0 \in Hole..MaxWrites
  BY Sizes DEF Typed, Hole
<1>q. /\ req.at[2] \in {0, 1} /\ 1 - req.at[2] \in {0, 1}
      /\ L1Index(req.at[1]) \in Index /\ L2Index(req.at[1]) \in Index
  BY <1>p, Places
<1>g. ASSUME pc' \in Running, Shape', Marked', Steps' PROVE Core'
  <2>1. Sound'
    BY <1>g DEF Sound, Shape, Marked, Steps
  <2>2. Down' /\ Repair'
    BY <1>g DEF Down, Repair, Running, Linking
  <2> QED  BY <2>1, <2>2 DEF Core
<1>h. pc \in Running => Shape /\ Marked /\ Steps
  BY CoreParts
<1>1. ASSUME NEW s \in Virt, qed_aio_write_data(s) PROVE Core'
  <2>1. /\ pc = "idle" /\ UNCHANGED disk /\ l1' = l1 /\ backing' = backing
        /\ \/ pc' = "inplace" /\ file_size' = file_size /\ need_check' = need_check
           \/ /\ cur' = file_size /\ file_size' = file_size + 1
              /\ need_check' = (need_check \/ ~backing)
              /\ pc' = IF ~backing /\ ~need_check THEN "mark" ELSE "fill"
    BY <1>1 DEF qed_aio_write_data, mode
  <2>2. Shape /\ Marked /\ Steps
    BY <1>h, <2>1 DEF Running
  <2>3. Reach' = Reach /\ img' = img
    BY <2>1, SameReach
  <2>4. Bound = file_size /\ Bound' = Bound /\ pc' \in Running
    BY <2>1 DEF Bound, Linking, Running
  <2>5. Shape'
    BY <2>1, <2>2, <2>3, <2>4, QuietShape
  <2>a. \/ pc' = "inplace" /\ need_check' = need_check
        \/ pc' = "mark" /\ ~need_check /\ need_check' /\ ~backing
        \/ pc' = "fill" /\ (need_check' <=> need_check \/ ~backing) /\ (backing \/ need_check)
    BY <2>1 DEF Typed
  <2>6. Marked'
    BY <2>1, <2>2, <2>3, <2>a DEF Marked
  <2>7. Link'
    BY <2>1 DEF Link
  <2>8. Steps'
    BY <2>1, <2>2, <2>3, <2>7, <2>a DEF Steps, Linking
  <2> QED  BY <1>g, <2>4, <2>5, <2>6, <2>8
<1>2. CASE Mark
  <2>1. Write(SetFlag(TRUE))
    BY <1>2 DEF Mark
  <2>2. /\ pc = "mark" /\ pc' = "fill" /\ need_check' = need_check /\ l1' = l1 /\ cur' = cur
        /\ file_size' = file_size /\ backing' = backing /\ req' = req
    BY <1>2 DEF Mark, driver, mode
  <2>3. Shape /\ Marked /\ Steps /\ need_check
    BY <1>h, <2>2 DEF Running, Linking, Steps
  <2>4. Bound' = Bound /\ pc' \in Running
    BY <2>2 DEF Bound, Linking, Running
  <2>5. Shape' /\ img'.check = TRUE
    BY <2>1, <2>2, <2>3, <2>4, FlagShape
  <2>6. Marked'
    BY <2>2, <2>3 DEF Marked
  <2>7. Link'
    BY <2>2, <2>3 DEF Link, Steps
  <2>8. Steps'
    BY <2>2, <2>3, <2>5, <2>7 DEF Steps, Linking
  <2> QED  BY <1>g, <2>4, <2>5, <2>6, <2>8
<1>3. CASE Fill
  <2>1. Write(SetData(cur, 1 - req.at[2], 0))
    BY <1>3 DEF Fill
  <2>2. /\ pc = "fill" /\ pc' = "main" /\ need_check' = need_check /\ l1' = l1 /\ cur' = cur
        /\ file_size' = file_size /\ backing' = backing /\ req' = req
    BY <1>3 DEF Fill, driver, mode
  <2>3. Shape /\ Marked /\ Steps
    BY <1>h, <2>2 DEF Running, Linking
  <2>4. Bound' = Bound /\ pc' \in Running
    BY <2>2 DEF Bound, Linking, Running
  <2> DEFINE h == 1 - req.at[2]
  <2>5. /\ Shape' /\ Wrote(img, img', cur, h, 0)
        /\ \A x \in Reach' : \E im \in Reach : x = im \/ Wrote(im, x, cur, h, 0)
    BY <1>n, <1>p, <1>q, <2>1, <2>2, <2>3, <2>4, DataShape
  <2>6. Marked'
    BY <2>2, <2>3, <2>5, WroteFits DEF Marked
  <2>7. Link'
    <3>1. img'.size >= 2 * cur + h + 1 /\ file_size = cur + 1
      BY <2>2, <2>3, <2>5 DEF Wrote, Steps, Link
    <3>2. img'.size >= 2 * cur + 2 - req.at[2]
      BY <1>n, <1>q, <2>5, <3>1, Fields DEF Wrote
    <3> QED  BY <2>2, <3>1, <3>2 DEF Link
  <2>8. img'.check = img.check
    BY <2>5 DEF Wrote
  <2>9. Steps'
    BY <2>2, <2>3, <2>7, <2>8 DEF Steps, Linking
  <2> QED  BY <1>g, <2>4, <2>5, <2>6, <2>9
<1>4. CASE qed_aio_write_main
  <2>1. Write(SetData(cur, req.at[2], req.val))
    BY <1>4 DEF qed_aio_write_main
  <2>2. /\ pc \in {"main", "inplace"} /\ need_check' = need_check /\ l1' = l1 /\ cur' = cur
        /\ file_size' = file_size /\ backing' = backing /\ req' = req
        /\ \/ pc = "inplace" /\ pc' = "done"
           \/ pc = "main" /\ backing /\ pc' = "flush"
           \/ pc = "main" /\ ~backing /\ pc' = "l2"
    BY <1>4 DEF qed_aio_write_main, driver, mode, Typed
  <2>3. Shape /\ Marked /\ Steps
    BY <1>h, <2>2 DEF Running, Linking
  <2>4. Bound' = Bound /\ pc' \in Running
    BY <2>2 DEF Bound, Linking, Running
  <2>5. /\ Shape' /\ Wrote(img, img', cur, req.at[2], req.val)
        /\ \A x \in Reach' : \E im \in Reach : x = im \/ Wrote(im, x, cur, req.at[2], req.val)
    BY <1>n, <1>p, <1>q, <2>1, <2>2, <2>3, <2>4, DataShape
  <2>6. Marked'
    BY <2>2, <2>3, <2>5, WroteFits DEF Marked
  <2>7. Link'
    <3>1. /\ img'.size >= 2 * cur + req.at[2] + 1 /\ img'.size >= img.size
          /\ img'.size \in Nat
      BY <2>5, Fields DEF Wrote
    <3>2. pc = "main" => img.size >= 2 * cur + 2 - req.at[2] /\ file_size = cur + 1
      BY <2>3 DEF Steps, Link
    <3>3. pc = "main" => img'.size >= 2 * file_size
      BY <1>n, <1>q, <3>1, <3>2
    <3> QED  BY <2>2, <3>2, <3>3 DEF Link
  <2>8. img'.check = img.check
    BY <2>5 DEF Wrote
  <2>9. Steps'
    BY <2>2, <2>3, <2>7, <2>8 DEF Steps, Linking
  <2> QED  BY <1>g, <2>4, <2>5, <2>6, <2>9
<1>5. CASE qed_aio_write_flush_before_l2_update
  <2>1. /\ pc = "flush" /\ pc' = "l2" /\ Flush /\ need_check' = need_check /\ l1' = l1
        /\ cur' = cur /\ file_size' = file_size /\ backing' = backing /\ req' = req
    BY <1>5 DEF qed_aio_write_flush_before_l2_update, driver, mode
  <2>2. Shape /\ Marked /\ Steps
    BY <1>h, <2>1 DEF Running, Linking
  <2>3. Reach' = {img} /\ img' = img /\ Pinned' /\ Reach' \subseteq Reach
    BY <1>0, <2>1, FlushReach
  <2>4. Bound' = Bound /\ pc' \in Running
    BY <2>1 DEF Bound, Linking, Running
  <2>5. Shape'
    BY <2>1, <2>2, <2>3, <2>4, QuietShape
  <2>6. Marked'
    BY <2>1, <2>2, <2>3 DEF Marked
  <2>7. Link'
    BY <2>1, <2>2, <2>3 DEF Link, Steps
  <2>8. Steps'
    BY <2>1, <2>2, <2>3, <2>7 DEF Steps, Linking
  <2> QED  BY <1>g, <2>4, <2>5, <2>6, <2>8
<1>6. CASE qed_aio_write_l2_update
  <2> DEFINE i == L1Index(req.at[1])
             j == L2Index(req.at[1])
             t == l1[i]
             v == [NoTable EXCEPT ![j] = cur]
  <2>1. /\ pc = "l2" /\ cur' = cur /\ need_check' = need_check /\ l1' = l1 /\ backing' = backing
        /\ req'.at = req.at
    BY <1>6 DEF qed_aio_write_l2_update, mode, Typed
  <2>2. Shape /\ Marked /\ Steps
    BY <1>h, <2>1 DEF Running, Linking
  <2>3. Bound = cur /\ file_size = cur + 1 /\ img.size >= 2 * file_size
    BY <2>1, <2>2 DEF Bound, Linking, Steps, Link
  <2>4. l1 = img.l1 /\ (t # 0 => img.l2[t][j] = 0)
    <3>1. Entry(img, req.at[1]) = 0
      BY <2>1 DEF Own, Running, Linking
    <3> QED  BY <2>2, <3>1 DEF Shape, Entry
  <2>5. ~need_check => Pinned /\ Reach = {img}
    BY <2>1, <2>2, PinnedReach DEF Steps, Linking
  <2>6. CASE t # 0
    <3>1. /\ Write(SetEntry(t, j, cur)) /\ pc' = "done" /\ req' = req /\ file_size' = file_size
      BY <1>6, <2>6 DEF qed_aio_write_l2_update
    <3>2. Bound' = cur + 1 /\ pc' \in Running /\ i \in Index /\ j \in Index
          /\ 2 * (cur + 1) <= img.size
      BY <1>n, <1>q, <2>3, <3>1 DEF Bound, Linking, Running
    <3> HIDE DEF i, j
    <3>3. /\ Shape' /\ Entered(img, img', t, j, cur)
          /\ \A x \in Reach' : \E im \in Reach : x = im \/ Entered(im, x, t, j, cur)
      BY <2>1, <2>2, <2>3, <2>4, <2>6, <3>1, <3>2, EntryShape
    <3>4. Marked'
      <4>1. CASE need_check
        BY <2>1, <3>1, <4>1 DEF Marked
      <4>2. CASE ~need_check
        <5>1. \A x \in Reach' : x.size >= 2 * (cur + 1)
          BY <1>0, <2>5, <3>2, <3>3, <4>2, Fields, <1>n DEF Entered
        <5>2. /\ img' \in Images /\ (\A x \in Reach' : x \in Images /\ Sub(x, img'))
              /\ Below(img', cur + 1) /\ cur + 1 \in Nat
          BY <1>n, <3>2, <3>3 DEF Shape, Typed, Entered
        <5>3. \A x \in Reach' : Fits(x)
          <6> TAKE x \in Reach'
          <6>1. x.size \in Nat /\ x \in Images /\ 2 * (cur + 1) <= x.size
            BY <1>n, <5>1, <5>2, Fields
          <6>2. Below(x, cur + 1)
            BY <5>2, SubBelow
          <6> QED  BY <5>2, <6>1, <6>2, BelowFits
        <5> QED  BY <5>3 DEF Marked
      <4> QED  BY <4>1, <4>2
    <3>5. Link' /\ img'.check = img.check
      BY <3>1, <3>3 DEF Link, Entered
    <3>6. Steps'
      BY <2>1, <2>2, <3>1, <3>5 DEF Steps, Linking
    <3> QED  BY <1>g, <3>2, <3>3, <3>4, <3>6
  <2>7. CASE t = 0
    <3>1. /\ Write(SetTable(file_size, v)) /\ pc' = "l2flush"
          /\ req' = [req EXCEPT !.tab = file_size] /\ file_size' = file_size + TableSize
      BY <1>6, <2>7 DEF qed_aio_write_l2_update
    <3>2. file_size + TableSize <= MaxClusters /\ file_size \in Clusters
      BY <1>n, <2>1, Sizes DEF Typed, Clusters
    <3>3. /\ v \in [Index -> Clusters] /\ Bound' = Bound /\ Bound <= file_size /\ pc' \in Running
          /\ i \in Index /\ j \in Index
      BY <1>n, <1>q, <2>1, <2>3, <3>1, Sizes DEF Bound, Linking, Running
    <3>4. req'.tab = file_size /\ req'.at = req.at
      BY <3>1 DEF Typed
    <3> HIDE DEF v, i, j
    <3>5. /\ Shape' /\ Tabled(img, img', file_size, v)
          /\ \A x \in Reach' : \E im \in Reach : x = im \/ Tabled(im, x, file_size, v)
          /\ \A im \in Reach : \A x :
               Tabled(im, x, file_size, v) /\ (im.check \/ Fits(im)) => x.check \/ Fits(x)
      BY <2>1, <2>2, <3>1, <3>2, <3>3, TableShape
    <3>6. Marked'
      BY <2>1, <2>2, <3>1, <3>5 DEF Marked
    <3>7. /\ img'.check = img.check /\ img'.size >= 2 * (file_size + TableSize)
          /\ img'.l2[file_size] = v
      BY <3>2, <3>5 DEF Tabled
    <3>8. Link'
      <4>1. img'.l2[req'.tab] = [NoTable EXCEPT ![L2Index(req'.at[1])] = cur']
        BY <2>1, <3>4, <3>7 DEF v, j
      <4>2. l1'[L1Index(req'.at[1])] = 0
        BY <2>1, <2>7, <3>4 DEF i
      <4> QED  BY <2>1, <2>3, <3>1, <3>4, <3>7, <4>1, <4>2 DEF Link
    <3>9. Steps'
      BY <2>1, <2>2, <3>1, <3>7, <3>8 DEF Steps, Linking
    <3> QED  BY <1>g, <3>3, <3>5, <3>6, <3>9
  <2> QED  BY <2>6, <2>7
<1>7. CASE TableFlush
  <2>1. /\ pc = "l2flush" /\ pc' = "l1" /\ Flush /\ need_check' = need_check /\ l1' = l1
        /\ cur' = cur /\ file_size' = file_size /\ backing' = backing /\ req' = req
    BY <1>7 DEF TableFlush, driver, mode
  <2>2. Shape /\ Marked /\ Steps
    BY <1>h, <2>1 DEF Running, Linking
  <2>3. Reach' = {img} /\ img' = img /\ Pinned' /\ Reach' \subseteq Reach
    BY <1>0, <2>1, FlushReach
  <2>4. Bound' = Bound /\ pc' \in Running
    BY <2>1 DEF Bound, Linking, Running
  <2>5. Shape'
    BY <2>1, <2>2, <2>3, <2>4, QuietShape
  <2>6. Marked'
    BY <2>1, <2>2, <2>3 DEF Marked
  <2>7. Link'
    BY <2>1, <2>2, <2>3 DEF Link, Steps
  <2>8. Steps'
    BY <2>1, <2>2, <2>3, <2>7 DEF Steps, Linking
  <2> QED  BY <1>g, <2>4, <2>5, <2>6, <2>8
<1>8. CASE qed_aio_write_l1_update
  <2> DEFINE i == L1Index(req.at[1])
             j == L2Index(req.at[1])
  <2>1. /\ pc = "l1" /\ pc' = "done" /\ l1' = [l1 EXCEPT ![i] = req.tab] /\ Write(SetL1(l1'))
        /\ cur' = cur /\ need_check' = need_check /\ file_size' = file_size
        /\ backing' = backing /\ req' = req
    BY <1>8 DEF qed_aio_write_l1_update, mode
  <2>2. Shape /\ Marked /\ Steps /\ Pinned /\ Link
    BY <1>h, <2>1 DEF Running, Linking, Steps
  <2>3. /\ req.tab = cur + 1 /\ file_size = req.tab + TableSize /\ l1[i] = 0
        /\ 2 * file_size <= img.size /\ img.l2[req.tab] = [NoTable EXCEPT ![j] = cur]
        /\ i \in Index /\ j \in Index
    BY <1>n, <1>q, <2>1, <2>2 DEF Link
  <2>4. Bound = cur /\ Bound' = file_size /\ pc' \in Running
    BY <2>1 DEF Bound, Linking, Running
  <2> HIDE DEF i, j
  <2>5. /\ Shape' /\ img'.check = img.check /\ Fits(img) /\ Fits(img')
        /\ \A x \in Reach' : x = img \/ x = img'
    BY <1>p, <2>1, <2>2, <2>3, <2>4, LinkShape
  <2>6. Marked'
    BY <2>5 DEF Marked
  <2>7. Link'
    BY <2>1 DEF Link
  <2>8. Steps'
    BY <2>1, <2>2, <2>5, <2>7 DEF Steps, Linking
  <2> QED  BY <1>g, <2>4, <2>5, <2>6, <2>8
<1>9. CASE qed_aio_complete
  <2>1. /\ pc = "done" /\ pc' = "idle" /\ UNCHANGED disk /\ need_check' = need_check /\ l1' = l1
        /\ file_size' = file_size
    BY <1>9 DEF qed_aio_complete, driver
  <2>2. Shape /\ Marked /\ Steps
    BY <1>h, <2>1 DEF Running
  <2>3. Reach' = Reach /\ img' = img
    BY <2>1, SameReach
  <2>4. Bound' = Bound /\ pc' \in Running
    BY <2>1 DEF Bound, Linking, Running
  <2>5. Shape'
    BY <2>1, <2>2, <2>3, <2>4, QuietShape
  <2>6. Marked' /\ Steps'
    BY <2>1, <2>2, <2>3 DEF Marked, Steps, Link, Linking
  <2> QED  BY <1>g, <2>4, <2>5, <2>6
<1> QED  BY <1>1, <1>2, <1>3, <1>4, <1>5, <1>6, <1>7, <1>8, <1>9 DEF WriteRequest

\* So do flush, the need-check timer and close.
LEMMA OtherCore ==
  ASSUME Typed, Typed', Core, ~lostmark,
         \/ bdrv_qed_flush \/ qed_need_check_timer_cb \/ qed_clear_need_check
         \/ bdrv_qed_close \/ CloseClears
  PROVE  Core'
<1>0. /\ img \in Images /\ stable \in Images /\ img \in Reach /\ stable \in Reach
      /\ \A im \in Reach : im \in Images
  BY TypedGives
<1>g. ASSUME pc' \in Running, Shape', Marked', Steps' PROVE Core'
  <2>1. Sound'
    BY <1>g DEF Sound, Shape, Marked, Steps
  <2>2. Down' /\ Repair'
    BY <1>g DEF Down, Repair, Running, Linking
  <2> QED  BY <2>1, <2>2 DEF Core
<1>h. pc \in Running => Shape /\ Marked /\ Steps
  BY CoreParts
<1>f. ASSUME Flush
      PROVE  Reach' = {img} /\ img' = img /\ Pinned' /\ Reach' \subseteq Reach
  BY <1>0, <1>f, FlushReach
<1>1. CASE bdrv_qed_flush
  <2>1. /\ pc = "idle" /\ pc' = pc /\ Flush /\ need_check' = need_check /\ l1' = l1
        /\ file_size' = file_size
    BY <1>1 DEF bdrv_qed_flush, driver
  <2>2. Shape /\ Marked /\ Steps
    BY <1>h, <2>1 DEF Running
  <2>3. Reach' = {img} /\ img' = img /\ Pinned' /\ Reach' \subseteq Reach
    BY <1>f, <2>1
  <2>4. Bound' = Bound /\ pc' \in Running
    BY <2>1 DEF Bound, Linking, Running
  <2>5. Shape'
    BY <2>1, <2>2, <2>3, <2>4, QuietShape
  <2>6. Marked' /\ Steps'
    BY <2>1, <2>2, <2>3 DEF Marked, Steps, Link, Linking
  <2> QED  BY <1>g, <2>4, <2>5, <2>6
<1>2. CASE qed_need_check_timer_cb
  <2>1. /\ pc = "idle" /\ pc' = "unmark" /\ Flush /\ need_check /\ need_check' = need_check
        /\ l1' = l1 /\ file_size' = file_size
    BY <1>2 DEF qed_need_check_timer_cb, driver
  <2>2. Shape /\ Marked /\ Steps
    BY <1>h, <2>1 DEF Running
  <2>3. Reach' = {img} /\ img' = img /\ Pinned' /\ Reach' \subseteq Reach
    BY <1>f, <2>1
  <2>4. Bound' = Bound /\ pc' \in Running
    BY <2>1 DEF Bound, Linking, Running
  <2>5. Shape'
    BY <2>1, <2>2, <2>3, <2>4, QuietShape
  <2>6. Marked' /\ Steps'
    BY <2>1, <2>2, <2>3 DEF Marked, Steps, Link, Linking
  <2> QED  BY <1>g, <2>4, <2>5, <2>6
<1>c. ASSUME Shape, Pinned, Write(SetFlag(FALSE)), l1' = l1, Bound' = Bound
      PROVE  /\ Shape' /\ img' \in Images
             /\ img'.check = FALSE
             /\ \A x \in Reach' : Fits(x) /\ Same(x, img')
  <2>1. Fits(img) /\ Reach = {img}
    BY <1>c, PinnedFits
  <2>2. SetFlag(FALSE) \in Writes /\ img' = Apply(img, SetFlag(FALSE))
    <3>1. SetFlag(FALSE) \in Writes
      BY <1>0, ApplyFlag
    <3> QED  BY <1>c, <3>1, WriteReach DEF Typed
  <2>3. img' = [img EXCEPT !.check = FALSE] /\ img' \in Images
    BY <1>0, <2>2, ApplyFlag
  <2>4. \A x \in Reach' : x = img \/ x = img'
    BY <1>c, <2>1, <2>2, WriteReach DEF Typed
  <2>5. /\ img'.l1 = img.l1 /\ img'.l2 = img.l2 /\ img'.size = img.size /\ img'.check = FALSE
        /\ img'.size >= img.size
    BY <1>0, <2>3, Fields DEF Images
  <2>6. Fits(img')
    BY <1>0, <2>1, <2>3, <2>5, SameTables
  <2>7. Same(img', img') /\ Same(img, img')
    BY <1>0, <2>3 DEF Same, Images
  <2>8. Shape'
    BY <1>c, FlagShape
  <2> QED  BY <2>1, <2>3, <2>4, <2>5, <2>6, <2>7, <2>8
<1>3. CASE qed_clear_need_check
  <2>1. Write(SetFlag(FALSE))
    BY <1>3 DEF qed_clear_need_check
  <2>2. /\ pc = "unmark" /\ pc' = "idle" /\ need_check' = FALSE /\ l1' = l1
        /\ file_size' = file_size
    BY <1>3 DEF qed_clear_need_check
  <2>3. Shape /\ Pinned
    BY <1>h, <2>2 DEF Running, Steps
  <2>4. Bound' = Bound /\ pc' \in Running
    BY <2>2 DEF Bound, Linking, Running
  <2>5. Shape' /\ \A x \in Reach' : Fits(x)
    BY <1>c, <2>1, <2>2, <2>3, <2>4
  <2>6. Marked' /\ Steps'
    BY <2>2, <2>5 DEF Marked, Steps, Link, Linking
  <2> QED  BY <1>g, <2>4, <2>5, <2>6
<1>4. CASE bdrv_qed_close
  <2>1. /\ pc = "idle" /\ Flush /\ need_check' = need_check /\ l1' = l1 /\ file_size' = file_size
        /\ \/ need_check /\ pc' = "closing"
           \/ ~need_check /\ pc' = "down"
    BY <1>4 DEF bdrv_qed_close, driver
  <2>2. Shape /\ Marked /\ Steps
    BY <1>h, <2>1 DEF Running
  <2>3. Reach' = {img} /\ img' = img /\ Pinned' /\ Reach' \subseteq Reach
    BY <1>f, <2>1
  <2>4. CASE pc' = "closing"
    <3>1. Bound' = Bound /\ pc' \in Running
      BY <2>1, <2>4 DEF Bound, Linking, Running
    <3>2. Shape'
      BY <2>1, <2>2, <2>3, <3>1, QuietShape
    <3>3. Marked' /\ Steps'
      BY <2>1, <2>2, <2>3, <2>4 DEF Marked, Steps, Link, Linking
    <3> QED  BY <1>g, <3>1, <3>2, <3>3
  <2>5. CASE pc' = "down"
    <3>1. ~need_check /\ ~need_check' /\ Apart(img)
      BY <2>1, <2>2, <2>5 DEF Shape
    <3>2. Same(img, img) /\ (img.check \/ Fits(img))
      BY <1>0, <2>2, <3>1 DEF Same, Marked, Images
    <3>3. Down'
      BY <2>3, <3>1, <3>2 DEF Down
    <3> QED  BY <2>5, <3>3 DEF Core, Repair, Sound, Running, Linking
  <2> QED  BY <2>1, <2>4, <2>5
<1>5. CASE CloseClears
  <2>1. Write(SetFlag(FALSE))
    BY <1>5 DEF CloseClears
  <2>2. /\ pc = "closing" /\ pc' = "down" /\ need_check' = FALSE /\ l1' = l1
        /\ file_size' = file_size
    BY <1>5 DEF CloseClears
  <2>3. Shape /\ Pinned
    BY <1>h, <2>2 DEF Running, Steps
  <2>4. Bound' = Bound
    BY <2>2 DEF Bound, Linking
  <2>5. Shape' /\ img'.check = FALSE /\ \A x \in Reach' : Fits(x) /\ Same(x, img')
    BY <1>c, <2>1, <2>2, <2>3, <2>4
  <2>6. Down'
    BY <2>2, <2>5 DEF Down, Shape
  <2> QED  BY <2>2, <2>6 DEF Core, Repair, Sound, Running, Linking
<1> QED  BY <1>1, <1>2, <1>3, <1>4, <1>5

\* Whatever a crash leaves satisfies the invariant of an image that is down.
LEMMA CrashCore ==
  ASSUME Typed, Core, Crash
  PROVE  Core'
<1> SUFFICES ASSUME ~lostmark' PROVE Core'
  BY DEF Core
<1>1. /\ ~lostmark /\ pc' = "down" /\ need_check' = FALSE
      /\ need_check /\ pc \notin {"down", "mark"} => stable'.check
  BY DEF Crash, Typed
<1>2. stable' \in Reach /\ img' = stable' /\ Reach' = {img'}
  BY CrashReach
<1>3. img' \in Images /\ img' \in Reach /\ img \in Images /\ stable \in Images
  BY <1>2, TypedGives
<1>4. Apart(img') /\ (img'.check \/ Fits(img'))
  <2>1. CASE pc = "down"
    <3>1. Apart(img) /\ Same(img', img) /\ (img'.check \/ Fits(img'))
      BY <1>1, <1>3, <2>1, CoreParts
    <3>2. img'.l1 = img.l1 /\ img'.l2 = img.l2
      BY <1>3, <3>1, SameFlag
    <3> QED  BY <1>3, <3>1, <3>2, SameTables
  <2>2. CASE pc \in {"check", "checked"}
    BY <1>1, <1>3, <2>2, CoreParts, SubApart
  <2>3. CASE pc \in {"clear", "opened"} \cup Running
    <3>1. Shape /\ Marked
      BY <1>1, <2>3, CoreParts
    <3>2. Apart(img')
      BY <1>3, <3>1, ShapeGives
    <3>3. pc # "down"
      BY <2>3 DEF Running, Linking
    <3> QED  BY <1>1, <1>2, <1>3, <3>1, <3>2, <3>3 DEF Marked
  <2> QED  BY <2>1, <2>2, <2>3 DEF Typed, Positions
<1>5. Same(img', img')
  BY <1>3 DEF Same, Images
<1>6. Down'
  BY <1>1, <1>2, <1>4, <1>5 DEF Down
<1> QED  BY <1>1, <1>6 DEF Core, Repair, Sound, Running, Linking

\* A new image satisfies the invariant.
LEMMA InitCore == Init => Core
<1> SUFFICES ASSUME Init PROVE Core
  OBVIOUS
<1>1. Reach = {img} /\ img = NewImage /\ pc = "down" /\ need_check = FALSE
  <2>1. Pinned
    BY DEF Init, Pinned
  <2> QED  BY <2>1, PinnedReach DEF Init
<1>2. img \in Images
  BY InitTyped, TypedGives
<1>3. \A i \in Index : img.l1[i] = 0
  BY <1>1 DEF NewImage, NoTable
<1>4. Apart(img) /\ Fits(img)
  BY <1>3 DEF Apart, Fits
<1>5. Same(img, img)
  BY <1>2 DEF Same, Images
<1>6. Down
  BY <1>1, <1>4, <1>5 DEF Down
<1> QED  BY <1>1, <1>6 DEF Core, Repair, Sound, Running, Linking
----------------------------------------------------------------------------
(* What the guest reads is what it wrote.                                  *)

\* Two virtual clusters do not share a place in the tables.
LEMMA PlaceOnce ==
  ASSUME NEW s \in Virt, NEW r \in Virt,
         L1Index(s[1]) = L1Index(r[1]), L2Index(s[1]) = L2Index(r[1])
  PROVE  s[1] = r[1]
<1> DEFINE v == s[1]
           w == r[1]
           n == TableNElems
<1>1. v \in Nat /\ w \in Nat /\ n \in Nat /\ n > 0
  BY Places, Sizes
<1>2. v \div n = w \div n /\ v % n = w % n
  BY DEF L1Index, L2Index
<1> HIDE DEF v, w, n
<1>3. v = n * (v \div n) + (v % n) /\ w = n * (w \div n) + (w % n)
  BY <1>1, Quotient
<1>4. v = w
  BY <1>2, <1>3
<1> QED  BY <1>4 DEF v, w

\* An entry is 0 or a cluster below the end of the references.
LEMMA EntryType ==
  ASSUME NEW im \in Images, NEW s \in Virt
  PROVE  /\ Entry(im, s[1]) \in Clusters /\ Entry(im, s[1]) \in Nat
         /\ \A n : Below(im, n) /\ Entry(im, s[1]) # 0 => Entry(im, s[1]) < n
         /\ Apart(im) /\ Entry(im, s[1]) # 0 => Entry(im, s[1]) >= FirstFree
<1> DEFINE i == L1Index(s[1])
           j == L2Index(s[1])
<1>1. i \in Index /\ j \in Index
  BY Places
<1>2. im.l1[i] \in Clusters /\ im.l2[im.l1[i]][j] \in Clusters
  BY <1>1, Fields
<1> HIDE DEF i, j
<1>3. Entry(im, s[1]) = IF im.l1[i] = 0 THEN 0 ELSE im.l2[im.l1[i]][j]
  BY DEF Entry, i, j
<1>4. Entry(im, s[1]) \in Clusters /\ Entry(im, s[1]) \in Nat
  BY <1>2, <1>3, Sizes
<1> QED  BY <1>1, <1>3, <1>4 DEF Below, Apart

\* Two virtual clusters do not share a cluster.
LEMMA EntryOnce ==
  ASSUME NEW im \in Images, Apart(im), NEW s \in Virt, NEW r \in Virt,
         Entry(im, s[1]) = Entry(im, r[1]), Entry(im, s[1]) # 0
  PROVE  s[1] = r[1]
<1> DEFINE i == L1Index(s[1])
           j == L2Index(s[1])
           k == L1Index(r[1])
           m == L2Index(r[1])
<1>1. i \in Index /\ j \in Index /\ k \in Index /\ m \in Index
  BY Places
<1>2. /\ im.l1[i] # 0 /\ im.l1[k] # 0 /\ im.l2[im.l1[i]][j] # 0
      /\ im.l2[im.l1[i]][j] = im.l2[im.l1[k]][m]
  BY DEF Entry
<1> HIDE DEF i, j, k, m
<1>3. i = k /\ j = m
  BY <1>1, <1>2 DEF Apart
<1> QED  BY <1>3, PlaceOnce DEF i, j, k, m

\* What the guest sees of a sector depends on its entry and its cluster only.
LEMMA SeeKept ==
  ASSUME NEW s, backing' = backing, Entry(img', s[1]) = Entry(img, s[1]),
         Entry(img, s[1]) # 0 =>
           img'.data[Entry(img, s[1])][s[2]] = img.data[Entry(img, s[1])][s[2]]
  PROVE  See(s)' = See(s)
<1> DEFINE c == Entry(img, s[1])
<1>1. Entry(img', s[1]) = c
  OBVIOUS
<1>2. See(s)' = IF Entry(img', s[1]) = 0 THEN 0 ELSE
                IF img'.data[Entry(img', s[1])][s[2]] = Hole /\ ~backing' THEN 0
                ELSE img'.data[Entry(img', s[1])][s[2]]
  BY DEF See, Content
<1>3. See(s) = IF c = 0 THEN 0 ELSE
               IF img.data[c][s[2]] = Hole /\ ~backing THEN 0 ELSE img.data[c][s[2]]
  BY DEF See, Content
<1> HIDE DEF c
<1> QED  BY <1>1, <1>2, <1>3 DEF c

\* While the tables are good, qed_find_cluster finds what they hold.
LEMMA FindIsEntry ==
  ASSUME Typed, l1 = img.l1, Apart(img), Below(img, file_size), NEW s \in Virt
  PROVE  /\ qed_find_cluster(s[1]) = Entry(img, s[1])
         /\ Reads(s) = See(s)
<1> DEFINE i == L1Index(s[1])
           j == L2Index(s[1])
           t == l1[i]
           c == img.l2[t][j]
<1>1. i \in Index /\ j \in Index /\ img \in Images /\ file_size \in Nat
  BY Places, TypedGives, BoundType
<1>2. t \in Nat /\ t \in Clusters /\ c \in Nat /\ c \in Clusters
  BY <1>1, Fields
<1>3. t # 0 => t >= FirstFree /\ t + TableSize <= file_size /\ c < file_size
  BY <1>1 DEF Apart, Below
<1>4. qed_find_cluster(s[1]) =
        CASE t = 0 -> 0
          [] t # 0 /\ ~qed_check_table_offset(t) -> Invalid
          [] t # 0 /\ qed_check_table_offset(t) /\ c = 0 -> 0
          [] OTHER -> IF qed_check_cluster_offset(c) THEN c ELSE Invalid
  BY DEF qed_find_cluster
<1>5. Entry(img, s[1]) = IF t = 0 THEN 0 ELSE c
  BY DEF Entry
<1> HIDE DEF i, j, t, c
<1>6. t # 0 => qed_check_table_offset(t) /\ (c # 0 => qed_check_cluster_offset(c))
  BY <1>1, <1>2, <1>3, Sizes DEF qed_check_table_offset, qed_check_cluster_offset
<1>7. qed_find_cluster(s[1]) = Entry(img, s[1])
  BY <1>4, <1>5, <1>6
<1>8. Entry(img, s[1]) # Invalid
  BY <1>2, <1>5, Sizes DEF Invalid
<1> QED  BY <1>7, <1>8 DEF Reads, See, Content

\* With tables and data as they were the guest sees what it saw.
LEMMA SeeQuiet ==
  ASSUME backing' = backing, img'.l1 = img.l1, img'.l2 = img.l2, img'.data = img.data
  PROVE  /\ \A s \in Virt : See(s)' = See(s)
         /\ \A v : Entry(img', v) = Entry(img, v)
<1>1. \A v : Entry(img', v) = Entry(img, v)
  BY DEF Entry
<1> QED  BY <1>1, SeeKept

\* The request's cluster becomes part of the disk.
LEMMA SeeLinked ==
  ASSUME Typed, backing' = backing, img'.data = img.data, cur # 0,
         img.data[cur][req.at[2]] = req.val, img.data[cur][1 - req.at[2]] = 0,
         Entry(img, req.at[1]) = 0,
         \A r \in Virt : See(r) = guest[r],
         \A r \in Virt : Entry(img', r[1]) = IF r[1] = req.at[1] THEN cur ELSE Entry(img, r[1])
  PROVE  \A r \in Virt : See(r)' = IF r = req.at THEN req.val ELSE guest[r]
<1> TAKE r \in Virt
<1>p. req.at \in Virt /\ req.val # Hole /\ 0 # Hole
  BY Sizes DEF Typed, Hole
<1>q. r = <<r[1], r[2]>> /\ req.at = <<req.at[1], req.at[2]>> /\ r[2] \in {0, 1}
      /\ req.at[2] \in {0, 1}
  BY <1>p, Places
<1>1. CASE r[1] # req.at[1]
  <2>1. Entry(img', r[1]) = Entry(img, r[1])
    BY <1>1
  <2>2. See(r)' = See(r)
    BY <2>1, SeeKept
  <2> QED  BY <1>1, <2>2
<1>2. CASE r[1] = req.at[1]
  <2>1. See(r)' = IF Entry(img', r[1]) = 0 THEN 0 ELSE
                IF img'.data[Entry(img', r[1])][r[2]] = Hole /\ ~backing' THEN 0
                ELSE img'.data[Entry(img', r[1])][r[2]]
    BY DEF See, Content
  <2>2. Entry(img', r[1]) = cur
    BY <1>2
  <2>3. CASE r[2] = req.at[2]
    BY <1>p, <1>q, <1>2, <2>1, <2>2, <2>3
  <2>4. CASE r[2] # req.at[2]
    <3>1. r[2] = 1 - req.at[2]
      BY <1>q, <2>4
    <3>2. See(r) = 0 /\ See(r) = guest[r] /\ r # req.at
      BY <1>2, <2>4 DEF See
    <3> QED  BY <1>p, <2>1, <2>2, <3>1, <3>2
  <2> QED  BY <2>3, <2>4
<1> QED  BY <1>1, <1>2

\* A write request changes what the guest sees in its own sector only.
LEMMA RequestOwn ==
  ASSUME Typed, Core, Own, ~lostmark, WriteRequest
  PROVE  Own'
<1>0. img \in Images
  BY TypedGives
<1>n. file_size \in Nat /\ cur \in Nat /\ cur \in Clusters
  BY BoundType
<1>p. /\ req.at \in Virt /\ req.val \in 0..MaxWrites /\ req.tab \in Clusters
      /\ req.val \in Hole..MaxWrites /\ 0 \in Hole..MaxWrites /\ req.val # Hole
  BY Sizes DEF Typed, Hole
<1>q. /\ req.at[2] \in {0, 1} /\ 1 - req.at[2] \in {0, 1} /\ req.at[2] # 1 - req.at[2]
      /\ L1Index(req.at[1]) \in Index /\ L2Index(req.at[1]) \in Index
  BY <1>p, Places
<1>h. pc \in Running => Shape /\ Marked /\ Steps
  BY CoreParts
<1>o. pc \in Running =>
        /\ \A s \in Virt : See(s) = IF pc = "done" /\ s = req.at THEN req.val ELSE guest[s]
        /\ pc = "inplace" => cur = Entry(img, req.at[1]) /\ cur # 0
        /\ pc \in Linking => Entry(img, req.at[1]) = 0
        /\ pc \in {"main", "flush", "l2", "l2flush", "l1"} => img.data[cur][1 - req.at[2]] = 0
        /\ pc \in {"flush", "l2", "l2flush", "l1"} => img.data[cur][req.at[2]] = req.val
  BY DEF Own
<1>1. ASSUME NEW s \in Virt, qed_aio_write_data(s) PROVE Own'
  <2>1. /\ pc = "idle" /\ UNCHANGED disk /\ backing' = backing /\ guest' = guest
        /\ req'.at = s
        /\ LET c == qed_find_cluster(s[1]) IN
             \/ c # 0 /\ cur' = c /\ pc' = "inplace"
             \/ c = 0 /\ pc' \in {"mark", "fill"}
    BY <1>1 DEF qed_aio_write_data, mode
  <2>2. Shape
    BY <1>h, <2>1 DEF Running
  <2>3. l1 = img.l1 /\ Apart(img) /\ Below(img, file_size)
    BY <2>1, <2>2 DEF Shape, Bound, Linking
  <2>4. qed_find_cluster(s[1]) = Entry(img, s[1])
    BY <2>3, FindIsEntry
  <2>5. img' = img
    BY <2>1, SameReach
  <2>6. \A r \in Virt : See(r)' = See(r)
    BY <2>1, <2>5, SeeQuiet
  <2>7. \A r \in Virt : See(r) = guest[r]
    BY <1>o, <2>1 DEF Running
  <2> QED  BY <2>1, <2>4, <2>5, <2>6, <2>7 DEF Own, Linking
<1>2. CASE Mark
  <2>1. Write(SetFlag(TRUE))
    BY <1>2 DEF Mark
  <2>2. /\ pc = "mark" /\ pc' = "fill" /\ l1' = l1 /\ cur' = cur
        /\ file_size' = file_size /\ backing' = backing /\ req' = req /\ guest' = guest
    BY <1>2 DEF Mark, driver, mode, expect
  <2>3. Shape
    BY <1>h, <2>2 DEF Running, Linking
  <2>4. Bound' = Bound
    BY <2>2 DEF Bound, Linking
  <2>5. img'.l1 = img.l1 /\ img'.l2 = img.l2 /\ img'.data = img.data
    BY <2>1, <2>2, <2>3, <2>4, FlagShape
  <2>6. (\A r \in Virt : See(r)' = See(r)) /\ \A v : Entry(img', v) = Entry(img, v)
    BY <2>2, <2>5, SeeQuiet
  <2>7. (\A r \in Virt : See(r) = guest[r]) /\ Entry(img, req.at[1]) = 0
    BY <1>o, <2>2 DEF Running, Linking
  <2> QED  BY <2>2, <2>5, <2>6, <2>7 DEF Own, Linking
<1>3. CASE Fill
  <2>1. Write(SetData(cur, 1 - req.at[2], 0))
    BY <1>3 DEF Fill
  <2>2. /\ pc = "fill" /\ pc' = "main" /\ l1' = l1 /\ cur' = cur
        /\ file_size' = file_size /\ backing' = backing /\ req' = req /\ guest' = guest
    BY <1>3 DEF Fill, driver, mode, expect
  <2>3. Shape
    BY <1>h, <2>2 DEF Running, Linking
  <2>4. Bound' = Bound /\ Bound = cur
    BY <2>2 DEF Bound, Linking
  <2> DEFINE h == 1 - req.at[2]
  <2>5. Wrote(img, img', cur, h, 0)
    BY <1>n, <1>p, <1>q, <2>1, <2>2, <2>3, <2>4, DataShape
  <2>6. /\ img'.l1 = img.l1 /\ img'.l2 = img.l2
        /\ \A d \in Clusters, k \in {0, 1} :
             img'.data[d][k] = IF d = cur /\ k = h THEN 0 ELSE img.data[d][k]
    BY <2>5 DEF Wrote
  <2>7. \A v : Entry(img', v) = Entry(img, v)
    BY <2>6 DEF Entry
  <2>8. ASSUME NEW r \in Virt PROVE See(r)' = See(r)
    <3>1. Entry(img, r[1]) # 0 => Entry(img, r[1]) \in Clusters /\ Entry(img, r[1]) # cur
      BY <1>0, <1>n, <2>3, <2>4, EntryType DEF Shape
    <3>2. r[2] \in {0, 1}
      BY Places
    <3> QED  BY <2>2, <2>6, <2>7, <3>1, <3>2, SeeKept
  <2>9. (\A r \in Virt : See(r) = guest[r]) /\ Entry(img, req.at[1]) = 0
    BY <1>o, <2>2 DEF Running, Linking
  <2>10. img'.data[cur][h] = 0
    BY <1>n, <1>q, <2>6
  <2> QED  BY <2>2, <2>7, <2>8, <2>9, <2>10 DEF Own, Linking
<1>4. CASE qed_aio_write_main
  <2>1. Write(SetData(cur, req.at[2], req.val))
    BY <1>4 DEF qed_aio_write_main
  <2>2. /\ l1' = l1 /\ cur' = cur /\ guest' = guest
        /\ file_size' = file_size /\ backing' = backing /\ req' = req
        /\ \/ pc = "inplace" /\ pc' = "done"
           \/ pc = "main" /\ pc' \in {"flush", "l2"}
    BY <1>4 DEF qed_aio_write_main, driver, mode, Typed, expect
  <2>3. Shape
    BY <1>h, <2>2 DEF Running, Linking
  <2>4. Bound' = Bound /\ (pc = "main" => Bound = cur)
    BY <2>2 DEF Bound, Linking
  <2> DEFINE h == req.at[2]
  <2>5. Wrote(img, img', cur, h, req.val)
    BY <1>n, <1>p, <1>q, <2>1, <2>2, <2>3, <2>4, DataShape
  <2>6. /\ img'.l1 = img.l1 /\ img'.l2 = img.l2
        /\ \A d \in Clusters, k \in {0, 1} :
             img'.data[d][k] = IF d = cur /\ k = h THEN req.val ELSE img.data[d][k]
    BY <2>5 DEF Wrote
  <2>7. \A v : Entry(img', v) = Entry(img, v)
    BY <2>6 DEF Entry
  <2>8. CASE pc = "main"
    <3>1. ASSUME NEW r \in Virt PROVE See(r)' = See(r)
      <4>1. Entry(img, r[1]) # 0 => Entry(img, r[1]) \in Clusters /\ Entry(img, r[1]) # cur
        BY <1>0, <1>n, <2>3, <2>4, <2>8, EntryType DEF Shape
      <4>2. r[2] \in {0, 1}
        BY Places
      <4> QED  BY <2>2, <2>6, <2>7, <4>1, <4>2, SeeKept
    <3>2. /\ \A r \in Virt : See(r) = guest[r]
          /\ Entry(img, req.at[1]) = 0 /\ img.data[cur][1 - h] = 0
      BY <1>o, <2>8 DEF Running, Linking
    <3>3. img'.data[cur][h] = req.val /\ img'.data[cur][1 - h] = 0
      BY <1>n, <1>q, <2>6, <3>2
    <3> QED  BY <2>2, <2>7, <2>8, <3>1, <3>2, <3>3 DEF Own, Linking
  <2>9. CASE pc = "inplace"
    <3>1. /\ \A r \in Virt : See(r) = guest[r]
          /\ cur = Entry(img, req.at[1]) /\ cur # 0
      BY <1>o, <2>9 DEF Running, Linking
    <3>2. ASSUME NEW r \in Virt, r # req.at PROVE See(r)' = See(r)
      <4>1. Entry(img, r[1]) = cur => r[2] # h
        <5>1. Entry(img, r[1]) = cur => r[1] = req.at[1]
          BY <1>0, <1>p, <2>3, <3>1, EntryOnce DEF Shape
        <5>2. r = <<r[1], r[2]>> /\ req.at = <<req.at[1], req.at[2]>>
          BY <1>p, Places
        <5> QED  BY <3>2, <5>1, <5>2
      <4>2. r[2] \in {0, 1} /\ Entry(img, r[1]) \in Clusters
        BY <1>0, Places, EntryType
      <4> QED  BY <2>2, <2>6, <2>7, <4>1, <4>2, SeeKept
    <3>4. \A r \in Virt : See(r)' = IF r = req.at THEN req.val ELSE guest[r]
      <4> TAKE r \in Virt
      <4>1. CASE r = req.at
        <5>1. See(r)' = IF Entry(img', r[1]) = 0 THEN 0 ELSE
                IF img'.data[Entry(img', r[1])][r[2]] = Hole /\ ~backing' THEN 0
                ELSE img'.data[Entry(img', r[1])][r[2]]
          BY DEF See, Content
        <5>2. Entry(img', r[1]) = cur /\ img'.data[cur][r[2]] = req.val
          BY <1>n, <1>q, <2>6, <2>7, <3>1, <4>1
        <5> QED  BY <1>p, <3>1, <4>1, <5>1, <5>2
      <4>2. CASE r # req.at
        BY <3>1, <3>2, <4>2
      <4> QED  BY <4>1, <4>2
    <3> QED  BY <2>2, <2>9, <3>4 DEF Own, Linking
  <2> QED  BY <2>2, <2>8, <2>9
<1>5. ASSUME \/ qed_aio_write_flush_before_l2_update \/ TableFlush PROVE Own'
  <2>1. /\ pc \in {"flush", "l2flush"} /\ pc' \in {"l2", "l1"} /\ Flush
        /\ cur' = cur /\ backing' = backing /\ req' = req /\ guest' = guest
    BY <1>5 DEF qed_aio_write_flush_before_l2_update, TableFlush, driver, mode, expect
  <2>2. img' = img
    BY <2>1, FlushReach
  <2>3. \A r \in Virt : See(r)' = See(r)
    BY <2>1, <2>2, SeeQuiet
  <2>4. /\ (\A r \in Virt : See(r) = guest[r]) /\ Entry(img, req.at[1]) = 0
        /\ img.data[cur][1 - req.at[2]] = 0 /\ img.data[cur][req.at[2]] = req.val
    BY <1>o, <2>1 DEF Running, Linking
  <2> QED  BY <2>1, <2>2, <2>3, <2>4 DEF Own, Linking
<1>6. CASE qed_aio_write_l2_update
  <2> DEFINE i == L1Index(req.at[1])
             j == L2Index(req.at[1])
             t == l1[i]
             v == [NoTable EXCEPT ![j] = cur]
  <2>1. /\ pc = "l2" /\ cur' = cur /\ l1' = l1 /\ backing' = backing /\ guest' = guest
        /\ req'.at = req.at /\ req'.val = req.val
    BY <1>6 DEF qed_aio_write_l2_update, mode, Typed, expect
  <2>2. Shape /\ Steps
    BY <1>h, <2>1 DEF Running, Linking
  <2>3. /\ Bound = cur /\ file_size = cur + 1 /\ img.size >= 2 * file_size
        /\ Apart(img) /\ l1 = img.l1 /\ FirstFree <= cur
    BY <2>1, <2>2 DEF Bound, Linking, Steps, Link, Shape
  <2>o. /\ (\A r \in Virt : See(r) = guest[r]) /\ Entry(img, req.at[1]) = 0
        /\ img.data[cur][1 - req.at[2]] = 0 /\ img.data[cur][req.at[2]] = req.val
    BY <1>o, <2>1 DEF Running, Linking
  <2>4. (t # 0 => img.l2[t][j] = 0) /\ cur # 0
    BY <1>n, <2>3, <2>o, Sizes DEF Entry
  <2>6. CASE t # 0
    <3>1. /\ Write(SetEntry(t, j, cur)) /\ pc' = "done" /\ req' = req /\ file_size' = file_size
      BY <1>6, <2>6 DEF qed_aio_write_l2_update
    <3>2. Bound' = cur + 1 /\ i \in Index /\ j \in Index /\ 2 * (cur + 1) <= img.size
          /\ t \in Clusters
      BY <1>0, <1>n, <1>q, <2>3, <3>1, Fields DEF Bound, Linking, Running
    <3> HIDE DEF i, j
    <3>3. Entered(img, img', t, j, cur)
      BY <2>1, <2>2, <2>3, <2>4, <2>6, <3>1, <3>2, EntryShape
    <3>4. /\ img'.l1 = img.l1 /\ img'.data = img.data
          /\ \A u \in Clusters, k \in Index :
               img'.l2[u][k] = IF u = t /\ k = j THEN cur ELSE img.l2[u][k]
      BY <3>3 DEF Entered
    <3>5. \A r \in Virt : Entry(img', r[1]) = IF r[1] = req.at[1] THEN cur ELSE Entry(img, r[1])
      <4> TAKE r \in Virt
      <4> DEFINE a == L1Index(r[1])
                 b == L2Index(r[1])
      <4>1. /\ Entry(img', r[1]) = IF img'.l1[a] = 0 THEN 0 ELSE img'.l2[img'.l1[a]][b]
            /\ Entry(img, r[1]) = IF img.l1[a] = 0 THEN 0 ELSE img.l2[img.l1[a]][b]
        BY DEF Entry
      <4>2. a \in Index /\ b \in Index /\ img.l1[a] \in Clusters
        BY <1>0, Places, Fields
      <4>3. r[1] = req.at[1] <=> a = i /\ b = j
        BY <1>p, PlaceOnce DEF i, j
      <4> HIDE DEF a, b
      <4>4. img.l1[a] = t <=> a = i
        <5>1. img.l1[a] = img.l1[i] => a = i
          <6>1. img.l1[i] \in Nat /\ img.l1[i] # 0
            BY <1>0, <2>3, <2>6, <3>2, Fields
          <6> QED  BY <2>3, <3>2, <4>2, <6>1, Sizes DEF Apart
        <5> QED  BY <2>3, <5>1
      <4> QED  BY <2>3, <2>6, <3>4, <4>1, <4>2, <4>3, <4>4, <3>2
    <3>6. \A r \in Virt : See(r)' = IF r = req.at THEN req.val ELSE guest[r]
      BY <2>1, <2>4, <2>o, <3>4, <3>5, SeeLinked
    <3> QED  BY <2>1, <3>1, <3>6 DEF Own, Linking
  <2>7. CASE t = 0
    <3>1. /\ Write(SetTable(file_size, v)) /\ pc' = "l2flush"
          /\ file_size' = file_size + TableSize
      BY <1>6, <2>7 DEF qed_aio_write_l2_update
    <3>2. file_size + TableSize <= MaxClusters /\ file_size \in Clusters
      BY <1>n, <2>1, Sizes DEF Typed, Clusters
    <3>3. /\ v \in [Index -> Clusters] /\ Bound' = Bound /\ Bound <= file_size
      BY <1>n, <1>q, <2>1, <2>3, <3>1, Sizes DEF Bound, Linking, Running
    <3> HIDE DEF v, i, j
    <3>5. Tabled(img, img', file_size, v)
      BY <2>1, <2>2, <3>1, <3>2, <3>3, TableShape
    <3>6. /\ img'.l1 = img.l1 /\ img'.data = img.data
          /\ \A u \in Clusters : u # file_size => img'.l2[u] = img.l2[u]
      BY <3>5 DEF Tabled
    <3>7. \A r \in Virt : Entry(img', r[1]) = Entry(img, r[1])
      <4> TAKE r \in Virt
      <4>1. img.l1[L1Index(r[1])] # 0 =>
              img.l1[L1Index(r[1])] \in Clusters /\ img.l1[L1Index(r[1])] # file_size
        BY <1>0, <1>n, <2>2, <2>3, Places, Fields, Sizes DEF Shape, Below
      <4> QED  BY <3>6, <4>1 DEF Entry
    <3>8. \A r \in Virt : See(r)' = See(r)
      BY <2>1, <3>6, <3>7, SeeKept
    <3>9. Entry(img', req'.at[1]) = 0
      BY <1>p, <2>1, <2>o, <3>7
    <3> QED  BY <2>1, <2>o, <3>1, <3>6, <3>8, <3>9 DEF Own, Linking
  <2> QED  BY <2>6, <2>7
<1>8. CASE qed_aio_write_l1_update
  <2> DEFINE i == L1Index(req.at[1])
             j == L2Index(req.at[1])
  <2>1. /\ pc = "l1" /\ pc' = "done" /\ l1' = [l1 EXCEPT ![i] = req.tab] /\ Write(SetL1(l1'))
        /\ cur' = cur /\ file_size' = file_size
        /\ backing' = backing /\ req' = req /\ guest' = guest
    BY <1>8 DEF qed_aio_write_l1_update, mode, expect
  <2>2. Shape /\ Steps /\ Pinned /\ Link /\ l1 = img.l1
    BY <1>h, <2>1 DEF Running, Linking, Steps, Shape
  <2>3. /\ req.tab = cur + 1 /\ file_size = req.tab + TableSize /\ l1[i] = 0
        /\ 2 * file_size <= img.size /\ img.l2[req.tab] = [NoTable EXCEPT ![j] = cur]
        /\ i \in Index /\ j \in Index
    BY <1>n, <1>q, <2>1, <2>2, <1>0, Fields DEF Link
  <2>4. Bound = cur /\ Bound' = file_size /\ cur # 0
    <3>1. Bound = cur /\ Bound' = file_size
      BY <2>1 DEF Bound, Linking
    <3> QED  BY <1>n, <2>2, <3>1, Sizes DEF Shape
  <2>o. /\ (\A r \in Virt : See(r) = guest[r]) /\ Entry(img, req.at[1]) = 0
        /\ img.data[cur][1 - req.at[2]] = 0 /\ img.data[cur][req.at[2]] = req.val
    BY <1>o, <2>1 DEF Running, Linking
  <2> HIDE DEF i, j
  <2>5. img'.l2 = img.l2 /\ img'.data = img.data /\ img'.l1 = l1'
    BY <1>p, <2>1, <2>2, <2>3, <2>4, LinkShape
  <2>6. \A r \in Virt : Entry(img', r[1]) = IF r[1] = req.at[1] THEN cur ELSE Entry(img, r[1])
    <3> TAKE r \in Virt
    <3> DEFINE a == L1Index(r[1])
               b == L2Index(r[1])
    <3>1. /\ Entry(img', r[1]) = IF img'.l1[a] = 0 THEN 0 ELSE img'.l2[img'.l1[a]][b]
          /\ Entry(img, r[1]) = IF img.l1[a] = 0 THEN 0 ELSE img.l2[img.l1[a]][b]
      BY DEF Entry
    <3>2. a \in Index /\ b \in Index
      BY Places
    <3>3. r[1] = req.at[1] <=> a = i /\ b = j
      BY <1>p, PlaceOnce DEF i, j
    <3> HIDE DEF a, b
    <3>4. img'.l1[a] = IF a = i THEN req.tab ELSE img.l1[a]
      BY <2>1, <2>2, <2>3, <2>5, <3>2 DEF Typed
    <3>5. img.l2[req.tab][b] = IF b = j THEN cur ELSE 0
      BY <2>3, <3>2 DEF NoTable
    <3>6. req.tab # 0
      BY <1>n, <2>3
    <3> QED  BY <2>2, <2>3, <2>5, <3>1, <3>3, <3>4, <3>5, <3>6
  <2>7. \A r \in Virt : See(r)' = IF r = req.at THEN req.val ELSE guest[r]
    BY <2>1, <2>4, <2>5, <2>6, <2>o, SeeLinked
  <2> QED  BY <2>1, <2>7 DEF Own, Linking
<1>9. CASE qed_aio_complete
  <2>1. /\ pc = "done" /\ pc' = "idle" /\ UNCHANGED disk /\ backing' = backing
        /\ guest' = [guest EXCEPT ![req.at] = req.val] /\ guest \in [Virt -> Invalid..MaxWrites]
    BY <1>9 DEF qed_aio_complete, mode, Typed
  <2>2. img' = img
    BY <2>1, SameReach
  <2>3. \A r \in Virt : See(r)' = See(r)
    BY <2>1, <2>2, SeeQuiet
  <2>4. \A r \in Virt : See(r) = IF r = req.at THEN req.val ELSE guest[r]
    BY <1>o, <2>1 DEF Running
  <2>5. \A r \in Virt : guest'[r] = IF r = req.at THEN req.val ELSE guest[r]
    BY <1>p, <2>1
  <2> QED  BY <2>1, <2>3, <2>4, <2>5 DEF Own, Linking
<1> QED  BY <1>1, <1>2, <1>3, <1>4, <1>5, <1>6, <1>8, <1>9 DEF WriteRequest

\* No other step changes what the guest sees.
LEMMA OtherOwn ==
  ASSUME Typed, Core, Own, ~lostmark,
         \/ Open \/ bdrv_qed_flush \/ qed_need_check_timer_cb \/ qed_clear_need_check
         \/ bdrv_qed_close \/ CloseClears
  PROVE  Own'
<1> SUFFICES ASSUME pc' \in Running PROVE Own'
  BY DEF Own
<1>1. CASE Resume
  <2>1. /\ pc = "opened" /\ pc' = "idle" /\ UNCHANGED disk /\ backing' = backing
        /\ guest' = [s \in Virt |-> Reads(s)]
    BY <1>1 DEF Resume, mode
  <2>2. Shape /\ Bound = file_size
    BY <2>1, CoreParts DEF Bound, Linking
  <2>3. \A s \in Virt : Reads(s) = See(s)
    BY <2>2, FindIsEntry DEF Shape
  <2>4. img' = img
    BY <2>1, SameReach
  <2>5. \A r \in Virt : See(r)' = See(r)
    BY <2>1, <2>4, SeeQuiet
  <2>6. \A r \in Virt : guest'[r] = See(r)
    BY <2>1, <2>3
  <2> QED  BY <2>1, <2>5, <2>6 DEF Own, Linking
<1>2. CASE bdrv_qed_open \/ FixTable \/ FixL1 \/ Checked \/ ClearAfterCheck \/ CloseClears
  <2>1. pc' \notin Running
    BY <1>2 DEF bdrv_qed_open, FixTable, FixL1, Checked, ClearAfterCheck, CloseClears, Running,
                Linking
  <2> QED  BY <2>1
<1>3. CASE bdrv_qed_flush \/ qed_need_check_timer_cb \/ bdrv_qed_close
  <2>1. pc = "idle" /\ pc' \in {"idle", "unmark", "closing"} /\ Flush /\ backing' = backing
        /\ guest' = guest
    BY <1>3 DEF bdrv_qed_flush, qed_need_check_timer_cb, bdrv_qed_close, mode, expect, Running,
                Linking
  <2>2. img' = img
    BY <2>1, FlushReach
  <2>3. \A r \in Virt : See(r)' = See(r)
    BY <2>1, <2>2, SeeQuiet
  <2>4. \A r \in Virt : See(r) = guest[r]
    BY <2>1 DEF Own, Running
  <2> QED  BY <2>1, <2>3, <2>4 DEF Own, Linking
<1>4. CASE qed_clear_need_check
  <2>1. Write(SetFlag(FALSE))
    BY <1>4 DEF qed_clear_need_check
  <2>2. /\ pc = "unmark" /\ pc' = "idle" /\ l1' = l1 /\ file_size' = file_size
        /\ backing' = backing /\ guest' = guest
    BY <1>4 DEF qed_clear_need_check, mode, expect
  <2>3. Shape
    BY <2>2, CoreParts DEF Running
  <2>4. Bound' = Bound
    BY <2>2 DEF Bound, Linking
  <2>5. img'.l1 = img.l1 /\ img'.l2 = img.l2 /\ img'.data = img.data
    BY <2>1, <2>2, <2>3, <2>4, FlagShape
  <2>6. \A r \in Virt : See(r)' = See(r)
    BY <2>2, <2>5, SeeQuiet
  <2>7. \A r \in Virt : See(r) = guest[r]
    BY <2>2 DEF Own, Running
  <2> QED  BY <2>2, <2>6, <2>7 DEF Own, Linking
<1> QED  BY <1>1, <1>2, <1>3, <1>4 DEF Open
----------------------------------------------------------------------------
(* The theorems about the tables and the running image.                    *)

\* Only a crash loses the flag.
LEMMA LostKept ==
  ASSUME [Next]_vars, ~Crash
  PROVE  lostmark' = lostmark
BY DEF Next, Open, WriteRequest, bdrv_qed_open, FixTable, FixL1, Checked, ClearAfterCheck, Resume,
       qed_aio_write_data, Mark, Fill, qed_aio_write_main,
       qed_aio_write_flush_before_l2_update, qed_aio_write_l2_update, TableFlush,
       qed_aio_write_l1_update, qed_aio_complete, bdrv_qed_flush, qed_need_check_timer_cb,
       qed_clear_need_check, bdrv_qed_close, CloseClears, vars, expect

Inv == Typed /\ Core /\ Own

\* The invariant holds of a new image.
LEMMA InitInv == Init => Inv
<1> SUFFICES ASSUME Init PROVE Own
  BY InitTyped, InitCore DEF Inv
<1> QED  BY DEF Init, Own, Running, Linking

\* Every step keeps the invariant.
LEMMA NextInv ==
  ASSUME Inv, [Next]_vars
  PROVE  Inv'
<1>0. Typed /\ Core /\ Own
  BY DEF Inv
<1>1. Typed'
  BY <1>0, NextTyped
<1>2. CASE Crash
  <2>1. pc' = "down"
    BY <1>2 DEF Crash
  <2>2. Own'
    BY <2>1 DEF Own, Running, Linking
  <2> QED  BY <1>0, <1>1, <1>2, <2>2, CrashCore DEF Inv
<1>3. CASE UNCHANGED vars
  <2>1. UNCHANGED disk /\ backing' = backing /\ pc' = pc /\ req' = req /\ cur' = cur
        /\ need_check' = need_check /\ l1' = l1 /\ file_size' = file_size /\ found' = found
        /\ guest' = guest /\ lostmark' = lostmark
    BY <1>3 DEF vars, mode, driver, expect
  <2>2. Reach' = Reach /\ (Pinned' <=> Pinned) /\ img' = img /\ stable' = stable
    BY <2>1, SameReach
  <2>3. Core'
    <3>1. Bound' = Bound
      BY <2>1 DEF Bound
    <3>2. Down => Down'
      BY <2>1, <2>2 DEF Down
    <3>3. Repair => Repair'
      BY <2>1, <2>2 DEF Repair
    <3>4. Shape => Shape'
      BY <2>1, <2>2, <3>1 DEF Shape
    <3>5. Marked => Marked'
      BY <2>1, <2>2 DEF Marked
    <3>6. Link => Link'
      BY <2>1, <2>2 DEF Link
    <3>7. Steps => Steps'
      BY <2>1, <2>2, <3>6 DEF Steps
    <3>8. Sound' <=> (pc \in {"clear", "opened"} \cup Running => Shape' /\ Marked' /\ Steps')
      BY <2>1 DEF Sound, Shape, Marked, Steps
    <3>9. Sound => Sound'
      BY <3>4, <3>5, <3>7, <3>8, SoundParts
    <3> QED  BY <1>0, <2>1, <3>2, <3>3, <3>9 DEF Core
  <2>4. Own'
    <3>1. \A r \in Virt : See(r)' = See(r)
      BY <2>1, <2>2, SeeQuiet
    <3> QED  BY <1>0, <2>1, <2>2, <3>1 DEF Own
  <2> QED  BY <1>1, <2>3, <2>4 DEF Inv
<1>4. CASE Next /\ ~Crash
  <2>1. lostmark' = lostmark
    BY <1>4, LostKept
  <2>2. CASE lostmark
    BY <1>1, <2>1, <2>2 DEF Inv, Core, Own
  <2>3. CASE ~lostmark
    BY <1>0, <1>1, <1>4, <2>3, OpenCore, RequestCore, OtherCore, RequestOwn, OtherOwn
       DEF Next, Inv
  <2> QED  BY <2>2, <2>3
<1> QED  BY <1>2, <1>3, <1>4

\* The invariant makes an opened image consistent.
LEMMA InvConsistent ==
  ASSUME Typed, Core
  PROVE  OpenedConsistent
<1> SUFFICES ASSUME pc = "opened", ~lostmark PROVE Consistent
  BY DEF OpenedConsistent
<1>1. Shape /\ Bound = file_size
  BY CoreParts DEF Bound, Linking
<1>2. l1 = img.l1 /\ Apart(img) /\ Below(img, file_size) /\ img \in Images /\ file_size \in Nat
  BY <1>1, TypedGives, BoundType DEF Shape
<1>3. ~Corruptions
  BY <1>2, NothingFound
<1>4. ASSUME NEW i \in Index, l1[i] # 0
      PROVE  /\ qed_check_table_offset(l1[i])
             /\ \A j \in Index : ~BadEntry(img.l2[l1[i]][j])
  <2>1. /\ l1[i] \in Nat /\ \A j \in Index : img.l2[l1[i]][j] \in Nat
        /\ l1[i] >= FirstFree /\ l1[i] + TableSize <= file_size
        /\ \A j \in Index : img.l2[l1[i]][j] < file_size
    BY <1>2, <1>4, Fields DEF Apart, Below
  <2> QED  BY <1>2, <2>1, Sizes DEF BadEntry, qed_check_table_offset, qed_check_cluster_offset
<1>5. \A i \in Descended : i \in Index /\ l1[i] # 0
  BY DEF Descended
<1> QED  BY <1>3, <1>4, <1>5 DEF Consistent

\* Typed implies the type invariant of the model.
LEMMA TypedTypeOK ==
  ASSUME Typed
  PROVE  TypeOK
<1>1. \A im \in Images : ImageOK(im)
  <2> SUFFICES ASSUME NEW im \in Images PROVE ImageOK(im)
    OBVIOUS
  <2>1. im.size \in 0..(2 * MaxClusters)
    BY Fields, Sizes
  <2> QED  BY <2>1, Fields DEF ImageOK
<1>2. ImageOK(stable) /\ ImageOK(img)
  BY <1>1, TypedGives
<1>3. file_size \in 0..MaxClusters
  BY Sizes DEF Typed
<1> QED  BY <1>2, <1>3 DEF TypeOK, Typed

\* The invariant makes an idle guest read its own data.
LEMMA InvReads ==
  ASSUME Inv
  PROVE  ReadsOwn
<1>0. Typed /\ Core /\ Own
  BY DEF Inv
<1> SUFFICES ASSUME pc = "idle", ~lostmark, NEW s \in Virt PROVE Reads(s) = guest[s]
  BY <1>0, TypedTypeOK DEF ReadsOwn
<1>1. Shape /\ Bound = file_size
  BY <1>0, CoreParts DEF Bound, Linking, Running
<1>2. Reads(s) = See(s)
  BY <1>0, <1>1, FindIsEntry DEF Shape
<1> QED  BY <1>0, <1>2 DEF Own, Running

\* The invariant holds in every state.
LEMMA InvAlways == Spec => []Inv
<1>1. Init => Inv
  BY InitInv
<1>2. Inv /\ [Next]_vars => Inv'
  BY NextInv
<1> QED  BY <1>1, <1>2, PTL DEF Spec

\* Crash after crash, in the middle of a write, of a flush or of a repair, the
\* guest never starts on an image with a dangling or a doubly used cluster,
\* unless a crash lost the write that sets QED_F_NEED_CHECK (bdrv_qed_open,
\* qed_check, and the order of the writes of an allocating request).
THEOREM OpenedAreConsistent == Spec => []OpenedConsistent
<1>1. Inv => OpenedConsistent
  BY InvConsistent DEF Inv
<1> QED  BY <1>1, InvAlways, PTL

\* Between its requests, the guest finds in every sector what it wrote there
\* last, or what it found there when it started: no write, no repair and no
\* allocation from a file that a crash has cut back disturbs another sector
\* (qed_alloc_clusters, qed_find_cluster).
THEOREM ReadsAreOwn == Spec => []ReadsOwn
<1>1. Inv => ReadsOwn
  BY InvReads
<1> QED  BY <1>1, InvAlways, PTL
----------------------------------------------------------------------------
(* What the guest wrote survives a crash.                                  *)

MayOK == may \in [Virt -> SUBSET (Invalid..MaxWrites)]

\* What the guest may read stays a set of contents.
LEMMA NextMay ==
  ASSUME Typed, MayOK, [Next]_vars
  PROVE  MayOK'
<1>1. ASSUME NEW s \in Virt, qed_aio_write_data(s) PROVE MayOK'
  <2>1. nwrites' \in Invalid..MaxWrites
    BY <1>1, Sizes DEF qed_aio_write_data, Typed, Invalid
  <2>2. may' = [may EXCEPT ![s] = @ \cup {nwrites'}]
    BY <1>1 DEF qed_aio_write_data
  <2> QED  BY <2>1, <2>2 DEF MayOK
<1>2. CASE qed_aio_complete
  <2>1. req.val \in Invalid..MaxWrites /\ req.at \in Virt
    BY Sizes DEF Typed, Invalid
  <2>2. may' = may \/ may' = [may EXCEPT ![req.at] = {req.val}]
    BY <1>2 DEF qed_aio_complete
  <2> QED  BY <2>1, <2>2 DEF MayOK
<1>3. CASE bdrv_qed_flush \/ bdrv_qed_close
  <2>1. may' = [s \in Virt |-> {guest[s]}]
    BY <1>3 DEF bdrv_qed_flush, bdrv_qed_close
  <2>2. \A s \in Virt : guest[s] \in Invalid..MaxWrites
    BY DEF Typed
  <2> QED  BY <2>1, <2>2 DEF MayOK
<1>4. CASE Resume
  <2>1. may' = [s \in Virt |-> {Reads(s)}]
    BY <1>4 DEF Resume
  <2> QED  BY <2>1, ReadsType DEF MayOK
<1>5. ASSUME \/ bdrv_qed_open \/ FixTable \/ FixL1 \/ Checked \/ ClearAfterCheck
             \/ Mark \/ Fill \/ qed_aio_write_main
             \/ qed_aio_write_flush_before_l2_update \/ qed_aio_write_l2_update
             \/ TableFlush \/ qed_aio_write_l1_update
             \/ qed_need_check_timer_cb \/ qed_clear_need_check \/ CloseClears \/ Crash
             \/ UNCHANGED vars
      PROVE  MayOK'
  <2>1. may' = may
    BY <1>5 DEF bdrv_qed_open, FixTable, FixL1, Checked, ClearAfterCheck, Mark, Fill,
       qed_aio_write_main, qed_aio_write_flush_before_l2_update, qed_aio_write_l2_update,
       TableFlush, qed_aio_write_l1_update, qed_need_check_timer_cb,
       qed_clear_need_check, CloseClears, Crash, vars, expect
  <2> QED  BY <2>1 DEF MayOK
<1> QED  BY <1>1, <1>2, <1>3, <1>4, <1>5 DEF Next, Open, WriteRequest

\* Tables in a file are in a longer file.
LEMMA FitGrows ==
  ASSUME NEW x \in Images, NEW im \in Images, x.l1 = im.l1, x.size >= im.size, TablesFit(im)
  PROVE  TablesFit(x)
<1>1. x.size \in Nat /\ im.size \in Nat /\ \A i \in Index : im.l1[i] \in Nat
  BY Fields
<1> QED  BY <1>1, Sizes DEF TablesFit

\* With all its references, the tables of an image lie in its file.
LEMMA FitsTables ==
  ASSUME NEW im, Fits(im)
  PROVE  TablesFit(im)
BY DEF Fits, TablesFit

\* An entry, its contents and the size decide what a sector will hold.
LEMMA HoldsKept ==
  ASSUME NEW x \in Images, NEW im \in Images, NEW s \in Virt, NEW b, NEW m, NEW m2,
         Entry(x, s[1]) = Entry(im, s[1]),
         Entry(im, s[1]) # 0 => x.data[Entry(im, s[1])][s[2]] = im.data[Entry(im, s[1])][s[2]],
         x.size >= im.size, m[s] \subseteq m2[s], Holds(im, b, m, s)
  PROVE  Holds(x, b, m2, s)
<1> DEFINE c == Entry(im, s[1])
<1>1. c \in Nat /\ x.size \in Nat /\ im.size \in Nat
  BY Fields, EntryType
<1>2. /\ View(im, b, s) = IF c = 0 \/ (im.data[c][s[2]] = Hole /\ ~b) THEN 0 ELSE im.data[c][s[2]]
      /\ View(x, b, s) = IF c = 0 \/ (x.data[c][s[2]] = Hole /\ ~b) THEN 0 ELSE x.data[c][s[2]]
  BY DEF View
<1>3. View(im, b, s) \in m[s] /\ (c = 0 \/ 2 * (c + 1) <= im.size \/ 0 \in m[s])
  BY DEF Holds
<1>4. Entry(x, s[1]) = c /\ (c # 0 => x.data[c][s[2]] = im.data[c][s[2]])
  OBVIOUS
<1> HIDE DEF c
<1>5. View(x, b, s) = View(im, b, s)
  BY <1>2, <1>4
<1>6. 2 * (c + 1) <= im.size => 2 * (c + 1) <= x.size
  BY <1>1
<1> QED  BY <1>3, <1>4, <1>5, <1>6 DEF Holds

\* Tables and data are as they were.
LEMMA HoldsAlike ==
  ASSUME NEW x \in Images, NEW im \in Images, NEW s \in Virt, NEW b, NEW m, NEW m2,
         x.l1 = im.l1, x.l2 = im.l2, x.data = im.data,
         x.size = im.size, m[s] \subseteq m2[s], Holds(im, b, m, s)
  PROVE  Holds(x, b, m2, s)
<1>1. Entry(x, s[1]) = Entry(im, s[1])
  BY DEF Entry
<1>2. x.size >= im.size
  BY Fields
<1> QED  BY <1>1, <1>2, HoldsKept

\* Data is written where im has no reference.
LEMMA HoldsBeyond ==
  ASSUME NEW im, NEW x, NEW s \in Virt, NEW b, NEW m, NEW c \in Nat, NEW h, NEW v,
         Wrote(im, x, c, h, v), Below(im, c), Holds(im, b, m, s)
  PROVE  Holds(x, b, m, s)
<1>1. /\ im \in Images /\ x \in Images /\ x.l1 = im.l1 /\ x.l2 = im.l2 /\ x.size >= im.size
      /\ \A d \in Clusters, k \in {0, 1} :
           x.data[d][k] = IF d = c /\ k = h THEN v ELSE im.data[d][k]
  BY DEF Wrote
<1>2. Entry(x, s[1]) = Entry(im, s[1])
  BY <1>1 DEF Entry
<1>3. /\ Entry(im, s[1]) # 0 => Entry(im, s[1]) < c
      /\ Entry(im, s[1]) \in Clusters /\ Entry(im, s[1]) \in Nat
  BY <1>1, EntryType
<1>4. s[2] \in {0, 1}
  BY Places
<1>5. Entry(im, s[1]) # 0 => x.data[Entry(im, s[1])][s[2]] = im.data[Entry(im, s[1])][s[2]]
  BY <1>1, <1>3, <1>4
<1> QED  BY <1>1, <1>2, <1>5, HoldsKept

\* The guest sees the contents of the current image.
LEMMA SeeIsView ==
  ASSUME NEW s
  PROVE  See(s) = View(img, backing, s)
<1> DEFINE c == Entry(img, s[1])
<1>1. /\ See(s) = IF c = 0 THEN 0 ELSE
                  IF img.data[c][s[2]] = Hole /\ ~backing THEN 0 ELSE img.data[c][s[2]]
      /\ View(img, backing, s) =
           IF c = 0 \/ (img.data[c][s[2]] = Hole /\ ~backing) THEN 0 ELSE img.data[c][s[2]]
  BY DEF See, View, Content
<1> HIDE DEF c
<1> QED  BY <1>1

\* The current image, while its references lie in its file.
LEMMA HoldsNow ==
  ASSUME Typed, Shape, NEW s \in Virt, NEW m, See(s) \in m[s]
  PROVE  Holds(img, backing, m, s)
<1>1. img \in Images /\ Bound \in Nat /\ img.size \in Nat
  BY TypedGives, BoundType, Fields
<1>2. /\ Entry(img, s[1]) \in Nat
      /\ Entry(img, s[1]) # 0 => Entry(img, s[1]) < Bound
  BY <1>1, EntryType DEF Shape
<1>3. 2 * Bound <= img.size
  BY DEF Shape
<1>4. Entry(img, s[1]) # 0 => 2 * (Entry(img, s[1]) + 1) <= img.size
  BY <1>1, <1>2, <1>3
<1> QED  BY <1>4, SeeIsView DEF Holds

\* Safe by its parts.
LEMMA SafeParts ==
  ASSUME ~lostmark, Safe
  PROVE  Tables /\ Virgin /\ Given /\ Fixing /\ Fresh /\ Kept
BY DEF Safe

\* With the data in the image beforehand a flag changes nothing.
LEMMA FlagSafe ==
  ASSUME Typed, Typed', Shape, Tables, NEW b \in BOOLEAN, Write(SetFlag(b)), l1' = l1, Bound' = Bound,
         backing' = backing, may' = may
  PROVE  /\ Tables'
         /\ (\A im \in Reach, s \in Virt : Holds(im, backing, may, s)) =>
              (\A im \in Reach, s \in Virt : Holds(im, backing, may, s))'
<1>0. img \in Images /\ \A im \in Reach : im \in Images
  BY TypedGives
<1>1. /\ img'.size = img.size /\ img'.data = img.data
      /\ \A x \in Reach' : \E im \in Reach :
              /\ x \in Images /\ x.l1 = im.l1 /\ x.l2 = im.l2 /\ x.size = im.size
              /\ x.data = im.data
  BY FlagShape
<1>2. Tables'
  <2> SUFFICES ASSUME NEW x \in Reach' PROVE TablesFit(x)
    BY DEF Tables
  <2>1. PICK im \in Reach : x \in Images /\ x.l1 = im.l1 /\ x.size = im.size
    BY <1>1
  <2>2. x.size >= im.size
    BY <1>0, <2>1, Fields
  <2> QED  BY <1>0, <2>1, <2>2, FitGrows DEF Tables
<1>3. ASSUME \A im \in Reach, s \in Virt : Holds(im, backing, may, s),
             NEW x \in Reach', NEW s \in Virt
      PROVE  Holds(x, backing', may', s)
  <2>1. PICK im \in Reach : /\ x \in Images /\ x.l1 = im.l1 /\ x.l2 = im.l2 /\ x.size = im.size
                            /\ x.data = im.data
    BY <1>1
  <2> QED  BY <1>0, <1>3, <2>1, HoldsAlike
<1> QED  BY <1>2, <1>3

\* Writing the flag writes nothing beyond the end of the file.
LEMMA FlagVirgin ==
  ASSUME Typed, Shape, NEW b \in BOOLEAN, Write(SetFlag(b)), l1' = l1, Bound' = Bound,
         Virgin, ncrash' = ncrash, file_size' = file_size, cur' = cur, req' = req,
         pc' \in Linking => pc \in Linking,
         ncrash = 0 /\ pc' = "down" => img.size = 2 * file_size
  PROVE  Virgin'
<1>1. /\ img'.size = img.size
      /\ \A x \in Reach' : \E im \in Reach : x.data = im.data
  BY FlagShape
<1> QED  BY <1>1 DEF Virgin

\* What a flush or a step without a write keeps.
LEMMA QuietVirgin ==
  ASSUME Virgin, img' = img, Reach' \subseteq Reach, ncrash' = ncrash, file_size' = file_size,
         cur' = cur, req' = req, pc' \in Linking => pc \in Linking,
         ncrash = 0 /\ pc' = "down" => img.size = 2 * file_size
  PROVE  Virgin'
BY DEF Virgin

\* While a request runs, what the guest's data depends on does not change.
LEMMA StillCovered ==
  ASSUME backing' = backing, volatile' = volatile, ncrash' = ncrash, pc' \in Running, pc' # "closing",
         Covered'
  PROVE  Covered
BY DEF Covered, Running, Linking

\* Every step of a write request keeps the guest's data safe.
LEMMA RequestSafe ==
  ASSUME Typed, Typed', Core, Own, MayOK, Safe, ~lostmark, WriteRequest
  PROVE  Safe'
<1>0. img \in Images /\ img \in Reach /\ \A im \in Reach : im \in Images
  BY TypedGives
<1>z. \A x \in Reach' : x \in Images
  BY DEF Typed
<1>n. file_size \in Nat /\ file_size >= FirstFree /\ cur \in Nat /\ cur \in Clusters
      /\ img.size \in Nat
  BY <1>0, Sizes, BoundType, Fields DEF Typed
<1>p. /\ req.at \in Virt /\ req.val \in 0..MaxWrites /\ req.tab \in Clusters
      /\ req.val \in Hole..MaxWrites /\ 0 \in Hole..MaxWrites /\ req.val # Hole /\ 0 # Hole
  BY Sizes DEF Typed, Hole
<1>q. /\ req.at[2] \in {0, 1} /\ 1 - req.at[2] \in {0, 1} /\ req.at[2] # 1 - req.at[2]
      /\ L1Index(req.at[1]) \in Index /\ L2Index(req.at[1]) \in Index
  BY <1>p, Places
<1>h. pc \in Running => Shape /\ Steps
  BY CoreParts
<1>s. Tables /\ Virgin /\ Given /\ Fixing /\ Fresh /\ Kept
  BY SafeParts
<1>g. ASSUME pc' \in Running, Tables', Virgin', Given', Kept' PROVE Safe'
  BY <1>g DEF Safe, Fixing, Fresh, Running, Linking
<1>b. ASSUME pc \in Linking
      PROVE  Bound = cur /\ \A im \in Reach : Below(im, cur)
  <2>1. Bound = cur /\ Shape
    BY <1>b, <1>h DEF Bound, Running
  <2> QED  BY <2>1, ShapeGives
<1>1. ASSUME NEW s \in Virt, qed_aio_write_data(s) PROVE Safe'
  <2>1. /\ pc = "idle" /\ UNCHANGED disk /\ backing' = backing /\ volatile' = volatile
        /\ ncrash' = ncrash /\ nwrites' = nwrites + 1
        /\ req' = [at |-> s, val |-> nwrites', tab |-> 0]
        /\ may' = [may EXCEPT ![s] = @ \cup {nwrites'}]
        /\ \/ pc' = "inplace" /\ file_size' = file_size
           \/ cur' = file_size /\ file_size' = file_size + 1 /\ pc' \in {"mark", "fill"}
        /\ file_size + 1 + TableSize <= MaxClusters
    BY <1>1 DEF qed_aio_write_data, mode
  <2>2. Reach' = Reach /\ img' = img /\ pc' \in Running /\ pc' # "closing"
    BY <2>1, SameReach DEF Running, Linking
  <2>3. Tables'
    BY <1>s, <2>2 DEF Tables
  <2>4. Virgin'
    <3>1. file_size \in Clusters /\ file_size' \in Nat /\ file_size' >= file_size
      BY <1>n, <2>1, Sizes DEF Clusters
    <3>2. \A c \in Clusters : c >= file_size' => c >= file_size
      BY <1>n, <3>1, Sizes
    <3>3. ncrash = 0 => img.size <= 2 * file_size'
      BY <1>n, <1>s, <3>1 DEF Virgin
    <3>4. ncrash = 0 /\ pc' \in Linking =>
            \A im \in Reach : \A h \in {0, 1} : im.data[cur'][h] = Hole
      BY <1>n, <1>s, <2>1, <3>1 DEF Virgin, Linking
    <3>5. req'.at[2] \in {0, 1} /\ 1 - req'.at[2] \in {0, 1}
      BY <2>1, Places
    <3>6. \A im \in Reach, c \in Clusters, h \in {0, 1} :
            ncrash = 0 /\ c >= file_size' => im.data[c][h] = Hole
      BY <1>s, <3>2 DEF Virgin
    <3> QED  BY <2>1, <2>2, <3>3, <3>4, <3>5, <3>6 DEF Virgin
  <2>5. \A r \in Virt : may[r] \subseteq may'[r]
    BY <2>1 DEF MayOK
  <2>6. Given'
    <3>1. nwrites' > 0 /\ nwrites' \in may'[s] /\ req'.at = s /\ req'.val = nwrites'
      BY <2>1 DEF MayOK, Typed
    <3> QED  BY <3>1 DEF Given
  <2>7. Kept'
    <3> SUFFICES ASSUME Covered', NEW im \in Reach', NEW r \in Virt
                 PROVE  Holds(im, backing', may', r)
      BY DEF Kept
    <3>1. Holds(im, backing, may, r) /\ im \in Images
      BY <1>0, <1>s, <2>1, <2>2, StillCovered DEF Kept
    <3>2. Holds(im, backing, may', r)
      BY <2>5, <3>1 DEF Holds
    <3> QED  BY <2>1, <3>2
  <2> QED  BY <1>g, <2>2, <2>3, <2>4, <2>6, <2>7
<1>2. CASE Mark
  <2>1. Write(SetFlag(TRUE))
    BY <1>2 DEF Mark
  <2>2. /\ pc = "mark" /\ pc' = "fill" /\ l1' = l1 /\ cur' = cur
        /\ file_size' = file_size /\ backing' = backing /\ volatile' = volatile /\ req' = req
        /\ may' = may /\ ncrash' = ncrash
    BY <1>2 DEF Mark, driver, mode, expect, count
  <2>3. Shape /\ Bound' = Bound
    BY <1>h, <2>2 DEF Running, Linking, Bound
  <2>4. Tables'
    BY <1>s, <2>1, <2>2, <2>3, FlagSafe
  <2>5. Virgin'
    BY <1>s, <2>1, <2>2, <2>3, FlagVirgin DEF Linking
  <2>6. Covered' => Covered
    BY <2>2, StillCovered DEF Running, Linking
  <2>7. (\A im \in Reach, s \in Virt : Holds(im, backing, may, s)) =>
              (\A im \in Reach, s \in Virt : Holds(im, backing, may, s))'
    BY <1>s, <2>1, <2>2, <2>3, FlagSafe
  <2>8. Kept'
    BY <1>s, <2>6, <2>7 DEF Kept
  <2>9. Given'
    BY <1>s, <2>2 DEF Given, Busy, Linking
  <2> QED  BY <1>g, <2>2, <2>4, <2>5, <2>8, <2>9 DEF Running, Linking
<1>d. ASSUME NEW h \in {0, 1}, NEW v \in Hole..MaxWrites, Write(SetData(cur, h, v)),
             pc \in {"fill", "main"}, pc' \in {"main", "flush", "l2"},
             (h = 1 - req.at[2] /\ v = 0) \/ (h = req.at[2] /\ v = req.val),
             l1' = l1, cur' = cur, file_size' = file_size, backing' = backing,
             volatile' = volatile, req' = req, may' = may, ncrash' = ncrash
      PROVE  Safe'
  <2>1. pc \in Linking /\ pc' \in Linking /\ pc' \in Running /\ pc' # "closing" /\ pc' # "down"
    BY <1>d DEF Linking, Running
  <2>2. Shape /\ Steps /\ Bound' = Bound /\ Bound = cur /\ \A im \in Reach : Below(im, cur)
    BY <1>b, <1>d, <1>h, <2>1 DEF Running, Bound
  <2>3. /\ Wrote(img, img', cur, h, v)
        /\ \A x \in Reach' : \E im \in Reach : x = im \/ Wrote(im, x, cur, h, v)
    BY <1>n, <1>d, <2>2, DataShape
  <2>4. Tables'
    <3> SUFFICES ASSUME NEW x \in Reach' PROVE TablesFit(x)
      BY DEF Tables
    <3>1. PICK im \in Reach : x = im \/ Wrote(im, x, cur, h, v)
      BY <2>3
    <3>2. Wrote(im, x, cur, h, v) =>
            im \in Images /\ x \in Images /\ x.l1 = im.l1 /\ x.size >= im.size
      BY DEF Wrote
    <3> QED  BY <1>s, <3>1, <3>2, FitGrows DEF Tables
  <2>5. file_size = cur + 1
    BY <1>d, <2>2 DEF Steps, Link
  <2>6. Virgin'
    <3> SUFFICES ASSUME ncrash = 0 PROVE Virgin'
      BY <1>d DEF Virgin
    <3>1. img'.size <= 2 * file_size
      <4>1. img.size <= 2 * file_size
        BY <1>s DEF Virgin
      <4>2. img'.size = img.size \/ img'.size = 2 * cur + h + 1
        BY <2>3 DEF Wrote
      <4>3. 2 * cur + h + 1 <= 2 * file_size
        BY <1>n, <2>5
      <4> QED  BY <4>1, <4>2, <4>3
    <3>2. ASSUME NEW x \in Reach'
          PROVE  /\ \A c \in Clusters, k \in {0, 1} : c >= file_size => x.data[c][k] = Hole
                 /\ x.data[cur][1 - req.at[2]] \in {Hole, 0}
                 /\ x.data[cur][req.at[2]] \in {Hole, req.val}
      <4>1. PICK im \in Reach : x = im \/ Wrote(im, x, cur, h, v)
        BY <2>3
      <4>2. /\ \A c \in Clusters, k \in {0, 1} : c >= file_size => im.data[c][k] = Hole
            /\ im.data[cur][1 - req.at[2]] \in {Hole, 0}
            /\ im.data[cur][req.at[2]] \in {Hole, req.val}
        BY <1>s, <2>1 DEF Virgin
      <4>3. CASE x = im
        BY <4>2, <4>3
      <4>4. CASE Wrote(im, x, cur, h, v)
        <5>1. \A d \in Clusters, k \in {0, 1} :
                x.data[d][k] = IF d = cur /\ k = h THEN v ELSE im.data[d][k]
          BY <4>4 DEF Wrote
        <5>2. \A c \in Clusters : c >= file_size => c # cur
          BY <1>n, <2>5, Sizes
        <5>3. \A c \in Clusters, k \in {0, 1} : c >= file_size => x.data[c][k] = Hole
          BY <4>2, <5>1, <5>2
        <5>4. /\ x.data[cur][1 - req.at[2]] \in {Hole, 0}
              /\ x.data[cur][req.at[2]] \in {Hole, req.val}
          BY <1>d, <1>n, <1>q, <4>2, <5>1
        <5> QED  BY <5>3, <5>4
      <4> QED  BY <4>1, <4>3, <4>4
    <3> QED  BY <1>d, <2>1, <3>1, <3>2 DEF Virgin
  <2>7. Given'
    BY <1>s, <1>d DEF Given, Busy, Linking
  <2>8. Kept'
    <3> SUFFICES ASSUME Covered', NEW x \in Reach', NEW r \in Virt
                 PROVE  Holds(x, backing', may', r)
      BY DEF Kept
    <3>1. PICK im \in Reach : x = im \/ Wrote(im, x, cur, h, v)
      BY <2>3
    <3>2. Holds(im, backing, may, r)
      BY <1>d, <1>s, <2>1, StillCovered DEF Kept
    <3> QED  BY <1>d, <1>n, <2>2, <3>1, <3>2, HoldsBeyond
  <2> QED  BY <1>g, <2>1, <2>4, <2>6, <2>7, <2>8
<1>3. CASE Fill
  <2>1. Write(SetData(cur, 1 - req.at[2], 0))
    BY <1>3 DEF Fill
  <2>2. /\ pc = "fill" /\ pc' = "main" /\ l1' = l1 /\ cur' = cur
        /\ file_size' = file_size /\ backing' = backing /\ volatile' = volatile /\ req' = req
        /\ may' = may /\ ncrash' = ncrash
    BY <1>3 DEF Fill, driver, mode, expect, count
  <2> DEFINE h == 1 - req.at[2]
             v == 0
  <2>3. /\ h \in {0, 1} /\ v \in Hole..MaxWrites /\ Write(SetData(cur, h, v))
        /\ h = 1 - req.at[2] /\ v = 0
    BY <1>p, <1>q, <2>1
  <2> HIDE DEF h, v
  <2>4. (h = 1 - req.at[2] /\ v = 0) \/ (h = req.at[2] /\ v = req.val)
    BY <2>3
  <2>5. pc \in {"fill", "main"} /\ pc' \in {"main", "flush", "l2"}
    BY <2>2
  <2> QED  BY <1>d, <2>2, <2>3, <2>4, <2>5
<1>4. CASE qed_aio_write_main
  <2>1. Write(SetData(cur, req.at[2], req.val))
    BY <1>4 DEF qed_aio_write_main
  <2>2. /\ l1' = l1 /\ cur' = cur
        /\ file_size' = file_size /\ backing' = backing /\ volatile' = volatile /\ req' = req
        /\ may' = may /\ ncrash' = ncrash
        /\ \/ pc = "inplace" /\ pc' = "done"
           \/ pc = "main" /\ pc' \in {"flush", "l2"}
    BY <1>4 DEF qed_aio_write_main, driver, mode, Typed, expect, count
  <2>3. CASE pc = "main"
    BY <1>d, <1>p, <1>q, <2>1, <2>2, <2>3
  <2>4. CASE pc = "inplace"
    <3> DEFINE h == req.at[2]
               v == req.val
    <3>1. /\ pc' = "done" /\ pc' \in Running /\ pc' # "closing" /\ Shape /\ Bound' = Bound
          /\ Bound = file_size
      BY <1>h, <2>2, <2>4 DEF Running, Bound, Linking
    <3>2. cur = Entry(img, req.at[1]) /\ cur # 0
      BY <2>4 DEF Own, Running
    <3>3. /\ Wrote(img, img', cur, h, v)
          /\ \A x \in Reach' : \E im \in Reach : x = im \/ Wrote(im, x, cur, h, v)
      BY <1>n, <1>p, <1>q, <2>1, <2>2, <3>1, DataShape
    <3>4. Tables'
      <4> SUFFICES ASSUME NEW x \in Reach' PROVE TablesFit(x)
        BY DEF Tables
      <4>1. PICK im \in Reach : x = im \/ Wrote(im, x, cur, h, v)
        BY <3>3
      <4>2. Wrote(im, x, cur, h, v) =>
              im \in Images /\ x \in Images /\ x.l1 = im.l1 /\ x.size >= im.size
        BY DEF Wrote
      <4> QED  BY <1>s, <4>1, <4>2, FitGrows DEF Tables
    <3>5. cur < file_size
      BY <1>0, <1>p, <3>1, <3>2, EntryType DEF Shape
    <3>6. Virgin'
      <4> SUFFICES ASSUME ncrash = 0 PROVE Virgin'
        BY <2>2 DEF Virgin
      <4>1. img'.size <= 2 * file_size
        <5>1. img.size <= 2 * file_size
          BY <1>s DEF Virgin
        <5>2. img'.size = img.size \/ img'.size = 2 * cur + h + 1
          BY <3>3 DEF Wrote
        <5>3. 2 * cur + h + 1 <= 2 * file_size
          BY <1>n, <1>q, <3>5
        <5> QED  BY <5>1, <5>2, <5>3
      <4>2. ASSUME NEW x \in Reach'
            PROVE  \A c \in Clusters, k \in {0, 1} : c >= file_size => x.data[c][k] = Hole
        <5>1. PICK im \in Reach : x = im \/ Wrote(im, x, cur, h, v)
          BY <3>3
        <5>2. \A c \in Clusters, k \in {0, 1} : c >= file_size => im.data[c][k] = Hole
          BY <1>s DEF Virgin
        <5>3. \A c \in Clusters : c >= file_size => c # cur
          BY <1>n, <3>5, Sizes
        <5> QED  BY <5>1, <5>2, <5>3 DEF Wrote
      <4> QED  BY <2>2, <3>1, <4>1, <4>2 DEF Virgin, Linking
    <3>7. Given'
      BY <1>s, <2>2, <2>4 DEF Given, Busy, Linking
    <3>8. Kept'
      <4> SUFFICES ASSUME Covered', NEW x \in Reach', NEW r \in Virt
                   PROVE  Holds(x, backing', may', r)
        BY DEF Kept
      <4>1. PICK im \in Reach : x = im \/ Wrote(im, x, cur, h, v)
        BY <3>3
      <4>2. Holds(im, backing, may, r)
        BY <1>s, <2>2, <3>1, StillCovered DEF Kept
      <4>3. CASE x = im
        BY <2>2, <4>2, <4>3
      <4>4. CASE Wrote(im, x, cur, h, v)
        <5>1. /\ im \in Images /\ x \in Images /\ x.l1 = im.l1 /\ x.l2 = im.l2
              /\ x.size >= im.size
              /\ \A d \in Clusters, k \in {0, 1} :
                   x.data[d][k] = IF d = cur /\ k = h THEN v ELSE im.data[d][k]
          BY <4>4 DEF Wrote
        <5>2. Entry(x, r[1]) = Entry(im, r[1])
          BY <5>1 DEF Entry
        <5>3. Entry(im, r[1]) \in Clusters /\ r[2] \in {0, 1} /\ Entry(im, r[1]) \in Nat
          BY <5>1, EntryType, Places
        <5>4. CASE Entry(im, r[1]) = cur /\ r[2] = h
          <6>1. Entry(im, r[1]) = Entry(img, r[1])
            <7>1. Sub(im, img)
              BY <3>1 DEF Shape
            <7>2. L1Index(r[1]) \in Index /\ L2Index(r[1]) \in Index
              BY Places
            <7> QED  BY <3>2, <5>4, <7>1, <7>2 DEF Entry, Sub
          <6>2. r[1] = req.at[1]
            BY <1>0, <1>p, <3>1, <3>2, <5>4, <6>1, EntryOnce DEF Shape
          <6>3. r = req.at
            BY <1>p, <5>4, <6>2, Places
          <6>4. View(x, backing, r) = v
            <7>1. x.data[cur][r[2]] = v
              BY <1>n, <1>q, <5>1, <5>4
            <7> QED  BY <1>p, <3>2, <5>2, <5>4, <7>1 DEF View
          <6>5. v \in may[r]
            BY <1>s, <2>4, <6>3 DEF Given, Busy
          <6>6. 2 * (Entry(im, r[1]) + 1) <= im.size => 2 * (Entry(im, r[1]) + 1) <= x.size
            BY <5>1, <5>3, Fields
          <6> QED  BY <2>2, <4>2, <5>2, <6>4, <6>5, <6>6 DEF Holds
        <5>5. CASE ~(Entry(im, r[1]) = cur /\ r[2] = h)
          <6>1. x.data[Entry(im, r[1])][r[2]] = im.data[Entry(im, r[1])][r[2]]
            BY <5>1, <5>3, <5>5
          <6> QED  BY <2>2, <4>2, <5>1, <5>2, <6>1, HoldsKept
        <5> QED  BY <5>4, <5>5
      <4> QED  BY <4>1, <4>3, <4>4
    <3> QED  BY <1>g, <3>1, <3>4, <3>6, <3>7, <3>8
  <2> QED  BY <2>2, <2>3, <2>4
<1>5. ASSUME qed_aio_write_flush_before_l2_update \/ TableFlush PROVE Safe'
  <2>1. /\ pc \in {"flush", "l2flush"} /\ pc' \in {"l2", "l1"} /\ Flush
        /\ cur' = cur /\ backing' = backing /\ volatile' = volatile /\ req' = req
        /\ file_size' = file_size /\ may' = may /\ ncrash' = ncrash
    BY <1>5 DEF qed_aio_write_flush_before_l2_update, TableFlush, driver, mode, expect, count
  <2>2. img' = img /\ Reach' \subseteq Reach
    BY <1>0, <2>1, FlushReach
  <2>3. Tables' /\ Given' /\ pc' \in Running
    BY <1>s, <2>1, <2>2 DEF Tables, Given, Busy, Running, Linking
  <2>4. Virgin'
    BY <1>s, <2>1, <2>2, QuietVirgin DEF Linking
  <2>5. Covered' => Covered
    BY <2>1, <2>3, StillCovered
  <2>6. Kept'
    BY <1>s, <2>1, <2>2, <2>5 DEF Kept
  <2> QED  BY <1>g, <2>3, <2>4, <2>6
\* What the request's virtual cluster may hold, before it has a cluster.
<1>e. ASSUME pc \in Linking, Covered, NEW r \in Virt, r[1] = req.at[1]
      PROVE  0 \in may[r]
  <2>1. Entry(img, r[1]) = 0
    BY <1>e DEF Own, Running
  <2>2. Holds(img, backing, may, r)
    BY <1>0, <1>e, <1>s DEF Kept
  <2> QED  BY <2>1, <2>2 DEF Holds, View
<1>6. CASE qed_aio_write_l2_update
  <2> DEFINE i == L1Index(req.at[1])
             j == L2Index(req.at[1])
             t == l1[i]
             v == [NoTable EXCEPT ![j] = cur]
  <2>1. /\ pc = "l2" /\ cur' = cur /\ l1' = l1 /\ backing' = backing /\ volatile' = volatile
        /\ req'.at = req.at /\ req'.val = req.val /\ may' = may /\ ncrash' = ncrash
        /\ pc' \in {"done", "l2flush"}
    BY <1>6 DEF qed_aio_write_l2_update, mode, Typed, expect, count
  <2>2. Shape /\ Steps /\ pc \in Linking
    BY <1>h, <2>1 DEF Running, Linking
  <2>3. /\ Bound = cur /\ file_size = cur + 1 /\ img.size >= 2 * file_size
        /\ Apart(img) /\ l1 = img.l1 /\ FirstFree <= cur
    BY <2>1, <2>2 DEF Bound, Linking, Steps, Link, Shape
  <2>4. (t # 0 => img.l2[t][j] = 0) /\ cur # 0
    <3>1. Entry(img, req.at[1]) = 0
      BY <2>1 DEF Own, Running, Linking
    <3> QED  BY <1>n, <2>3, <3>1, Sizes DEF Entry
  <2>5. Covered' => Covered
    BY <2>1, StillCovered DEF Running, Linking
  <2>6. CASE t # 0
    <3>1. /\ Write(SetEntry(t, j, cur)) /\ pc' = "done" /\ req' = req /\ file_size' = file_size
      BY <1>6, <2>6 DEF qed_aio_write_l2_update
    <3>2. /\ Bound' = cur + 1 /\ i \in Index /\ j \in Index /\ 2 * (cur + 1) <= img.size
          /\ t \in Clusters /\ t \in Nat /\ pc' \in Running
      BY <1>0, <1>n, <1>q, <2>3, <3>1, Fields DEF Bound, Linking, Running
    <3> HIDE DEF i, j
    <3>3. /\ Entered(img, img', t, j, cur)
          /\ \A x \in Reach' : \E im \in Reach : x = im \/ Entered(im, x, t, j, cur)
      BY <2>1, <2>2, <2>3, <2>4, <2>6, <3>1, <3>2, EntryShape
    <3>4. Tables'
      <4> SUFFICES ASSUME NEW x \in Reach' PROVE TablesFit(x)
        BY DEF Tables
      <4>1. PICK im \in Reach : x = im \/ Entered(im, x, t, j, cur)
        BY <3>3
      <4>2. Entered(im, x, t, j, cur) =>
              im \in Images /\ x \in Images /\ x.l1 = im.l1 /\ x.size = im.size
        BY DEF Entered
      <4>3. Entered(im, x, t, j, cur) => x.size >= im.size
        BY <4>2, Fields
      <4> QED  BY <1>s, <4>1, <4>2, <4>3, FitGrows DEF Tables
    <3>5. Virgin'
      <4>1. img'.size = img.size /\ \A x \in Reach' : \E im \in Reach : x.data = im.data
        BY <3>3 DEF Entered
      <4> QED  BY <1>s, <2>1, <3>1, <4>1 DEF Virgin, Linking
    <3>6. Given'
      BY <1>s, <2>1, <3>1 DEF Given, Busy, Linking
    <3>7. Kept'
      <4> SUFFICES ASSUME Covered', NEW x \in Reach', NEW r \in Virt
                   PROVE  Holds(x, backing', may', r)
        BY DEF Kept
      <4>c. Covered
        BY <2>5
      <4>1. PICK im \in Reach : x = im \/ Entered(im, x, t, j, cur)
        BY <3>3
      <4>2. Holds(im, backing, may, r) /\ im \in Images
        BY <1>0, <1>s, <4>c DEF Kept
      <4>3. CASE x = im
        BY <2>1, <4>2, <4>3
      <4>4. CASE Entered(im, x, t, j, cur)
        <5> DEFINE a == L1Index(r[1])
                   b == L2Index(r[1])
        <5>1. /\ x \in Images /\ x.size = im.size /\ x.l1 = im.l1 /\ x.data = im.data
              /\ \A u \in Clusters, k \in Index :
                   x.l2[u][k] = IF u = t /\ k = j THEN cur ELSE im.l2[u][k]
          BY <4>4 DEF Entered
        <5>2. /\ Entry(x, r[1]) = IF x.l1[a] = 0 THEN 0 ELSE x.l2[x.l1[a]][b]
              /\ Entry(im, r[1]) = IF im.l1[a] = 0 THEN 0 ELSE im.l2[im.l1[a]][b]
          BY DEF Entry
        <5>3. a \in Index /\ b \in Index /\ im.l1[a] \in Clusters /\ r[2] \in {0, 1}
          BY <4>2, Places, Fields
        <5>4. a = i /\ b = j => r[1] = req.at[1]
          BY <1>p, PlaceOnce DEF i, j
        <5> HIDE DEF a, b
        <5>5. CASE im.l1[a] = t /\ b = j
          <6>1. Sub(im, img)
            BY <2>2 DEF Shape
          <6>2. im.l1[a] = img.l1[a] /\ img.l1[a] = img.l1[i] /\ img.l1[i] # 0
            BY <2>3, <2>6, <5>3, <5>5, <6>1 DEF Sub
          <6>3. a = i
            <7>1. img.l1[i] \in Nat
              BY <2>3, <3>2
            <7> QED  BY <2>3, <3>2, <5>3, <6>2, <7>1, Sizes DEF Apart
          <6>4. r[1] = req.at[1] /\ Entry(x, r[1]) = cur
            BY <2>6, <5>1, <5>2, <5>3, <5>4, <5>5, <6>3
          <6>5. 0 \in may[r]
            BY <1>e, <2>2, <4>c, <6>4
          <6>6. r[2] = req.at[2] => req.val \in may[r]
            <7>1. r[2] = req.at[2] => r = req.at
              BY <1>p, <6>4, Places
            <7>2. req.val \in may[req.at]
              BY <1>s, <2>1 DEF Given, Busy, Linking
            <7> QED  BY <7>1, <7>2
          <6>7. r[2] = req.at[2] \/ r[2] = 1 - req.at[2]
            BY <1>q, <5>3
          <6>8. View(x, backing, r) \in {0, req.val} /\ (r[2] # req.at[2] => View(x, backing, r) = 0)
            <7>1. View(x, backing, r) =
                    IF cur = 0 \/ (im.data[cur][r[2]] = Hole /\ ~backing) THEN 0
                    ELSE im.data[cur][r[2]]
              BY <5>1, <6>4 DEF View
            <7>2. CASE backing \/ ~volatile
              <8>1. im = img
                BY <2>1, <2>2, <7>2, PinnedReach DEF Steps, Typed
              <8>2. img.data[cur][1 - req.at[2]] = 0 /\ img.data[cur][req.at[2]] = req.val
                BY <2>1 DEF Own, Running, Linking
              <8> QED  BY <1>p, <6>7, <7>1, <8>1, <8>2
            <7>3. CASE ~backing /\ volatile
              <8>1. ncrash = 0
                BY <2>1, <4>c, <7>3 DEF Covered
              <8>2. /\ im.data[cur][1 - req.at[2]] \in {Hole, 0}
                    /\ im.data[cur][req.at[2]] \in {Hole, req.val}
                BY <1>s, <2>2, <8>1 DEF Virgin
              <8> QED  BY <1>p, <6>7, <7>1, <7>3, <8>2
            <7> QED  BY <7>2, <7>3 DEF Typed
          <6> QED  BY <2>1, <6>5, <6>6, <6>8 DEF Holds
        <5>6. CASE ~(im.l1[a] = t /\ b = j)
          <6>1. Entry(x, r[1]) = Entry(im, r[1])
            BY <5>1, <5>2, <5>3, <5>6
          <6>2. x.size >= im.size
            BY <4>2, <5>1, Fields
          <6> QED  BY <2>1, <4>2, <5>1, <6>1, <6>2, HoldsKept
        <5> QED  BY <5>5, <5>6
      <4> QED  BY <4>1, <4>3, <4>4
    <3> QED  BY <1>g, <3>2, <3>4, <3>5, <3>6, <3>7
  <2>7. CASE t = 0
    <3>1. /\ Write(SetTable(file_size, v)) /\ pc' = "l2flush"
          /\ file_size' = file_size + TableSize
      BY <1>6, <2>7 DEF qed_aio_write_l2_update
    <3>2. file_size + TableSize <= MaxClusters /\ file_size \in Clusters
      BY <1>n, <2>1, Sizes DEF Typed, Clusters
    <3>3. /\ v \in [Index -> Clusters] /\ Bound' = Bound /\ Bound <= file_size /\ pc' \in Running
      BY <1>n, <1>q, <2>1, <2>3, <3>1, Sizes DEF Bound, Linking, Running
    <3> HIDE DEF v, i, j
    <3>5. /\ Tabled(img, img', file_size, v)
          /\ \A x \in Reach' : \E im \in Reach : x = im \/ Tabled(im, x, file_size, v)
      BY <2>1, <2>2, <3>1, <3>2, <3>3, TableShape
    <3>6. Tables'
      <4> SUFFICES ASSUME NEW x \in Reach' PROVE TablesFit(x)
        BY DEF Tables
      <4>1. PICK im \in Reach : x = im \/ Tabled(im, x, file_size, v)
        BY <3>5
      <4>2. Tabled(im, x, file_size, v) =>
              im \in Images /\ x \in Images /\ x.l1 = im.l1 /\ x.size >= im.size
        BY DEF Tabled
      <4> QED  BY <1>s, <4>1, <4>2, FitGrows DEF Tables
    <3>7. Virgin'
      <4> SUFFICES ASSUME ncrash = 0 PROVE Virgin'
        BY <2>1 DEF Virgin
      <4>1. img'.size <= 2 * file_size'
        <5>1. img.size <= 2 * file_size
          BY <1>s DEF Virgin
        <5>2. img'.size = img.size \/ img'.size = 2 * (file_size + TableSize)
          BY <3>5 DEF Tabled
        <5> QED  BY <1>n, <3>1, <5>1, <5>2, Sizes
      <4>2. \A x \in Reach' : \E im \in Reach : x.data = im.data
        BY <3>5 DEF Tabled
      <4>3. \A c \in Clusters : c >= file_size' => c >= file_size
        BY <1>n, <3>1, Sizes
      <4> QED  BY <1>s, <2>1, <2>2, <3>1, <4>1, <4>2, <4>3 DEF Virgin
    <3>8. Given'
      BY <1>s, <2>1, <3>1 DEF Given, Busy, Linking
    <3>9. Kept'
      <4> SUFFICES ASSUME Covered', NEW x \in Reach', NEW r \in Virt
                   PROVE  Holds(x, backing', may', r)
        BY DEF Kept
      <4>1. PICK im \in Reach : x = im \/ Tabled(im, x, file_size, v)
        BY <3>5
      <4>2. Holds(im, backing, may, r) /\ im \in Images /\ Below(im, cur)
        BY <1>0, <1>b, <1>s, <2>2, <2>5 DEF Kept
      <4>3. CASE x = im
        BY <2>1, <4>2, <4>3
      <4>4. CASE Tabled(im, x, file_size, v)
        <5>1. /\ x \in Images /\ x.size >= im.size /\ x.l1 = im.l1 /\ x.data = im.data
              /\ \A u \in Clusters : u # file_size => x.l2[u] = im.l2[u]
          BY <4>4 DEF Tabled
        <5>2. im.l1[L1Index(r[1])] # 0 =>
                im.l1[L1Index(r[1])] \in Clusters /\ im.l1[L1Index(r[1])] # file_size
          BY <1>n, <2>3, <4>2, Places, Fields, Sizes DEF Below
        <5>3. Entry(x, r[1]) = Entry(im, r[1])
          BY <5>1, <5>2 DEF Entry
        <5> QED  BY <2>1, <4>2, <5>1, <5>3, HoldsKept
      <4> QED  BY <4>1, <4>3, <4>4
    <3> QED  BY <1>g, <3>3, <3>6, <3>7, <3>8, <3>9
  <2> QED  BY <2>6, <2>7
<1>8. CASE qed_aio_write_l1_update
  <2> DEFINE i == L1Index(req.at[1])
             j == L2Index(req.at[1])
  <2>1. /\ pc = "l1" /\ pc' = "done" /\ l1' = [l1 EXCEPT ![i] = req.tab] /\ Write(SetL1(l1'))
        /\ cur' = cur /\ file_size' = file_size
        /\ backing' = backing /\ volatile' = volatile /\ req' = req /\ may' = may
        /\ ncrash' = ncrash
    BY <1>8 DEF qed_aio_write_l1_update, mode, expect, count
  <2>2. Shape /\ Steps /\ Pinned /\ Link /\ l1 = img.l1 /\ pc \in Linking
    BY <1>h, <2>1 DEF Running, Linking, Steps, Shape
  <2>3. /\ req.tab = cur + 1 /\ file_size = req.tab + TableSize /\ l1[i] = 0
        /\ 2 * file_size <= img.size /\ img.l2[req.tab] = [NoTable EXCEPT ![j] = cur]
        /\ i \in Index /\ j \in Index
    BY <1>n, <1>q, <2>1, <2>2, <1>0, Fields DEF Link
  <2>4. Bound = cur /\ Bound' = file_size /\ cur # 0 /\ pc' \in Running /\ pc' # "closing"
    <3>1. Bound = cur /\ Bound' = file_size /\ pc' \in Running /\ pc' # "closing"
      BY <2>1 DEF Bound, Linking, Running
    <3> QED  BY <1>n, <2>2, <3>1, Sizes DEF Shape
  <2>o. img.data[cur][1 - req.at[2]] = 0 /\ img.data[cur][req.at[2]] = req.val
    BY <2>1 DEF Own, Running, Linking
  <2> HIDE DEF i, j
  <2>5. /\ img'.l2 = img.l2 /\ img'.data = img.data /\ img'.l1 = l1' /\ img'.size = img.size
        /\ \A x \in Reach' : x = img \/ x = img'
        /\ Fits(img) /\ Fits(img')
    BY <1>p, <2>1, <2>2, <2>3, <2>4, LinkShape
  <2>6. Tables'
    BY <2>5, FitsTables DEF Tables
  <2>7. Virgin'
    <3>1. \A x \in Reach' : \E im \in Reach : x.data = im.data
      BY <1>0, <2>5
    <3> QED  BY <1>s, <2>1, <2>5, <3>1 DEF Virgin, Linking
  <2>8. Given'
    BY <1>s, <2>1 DEF Given, Busy, Linking
  <2>9. Kept'
    <3> SUFFICES ASSUME Covered', NEW x \in Reach', NEW r \in Virt
                 PROVE  Holds(x, backing', may', r)
      BY DEF Kept
    <3>c. Covered
      BY <2>1, <2>4, StillCovered
    <3>1. Holds(img, backing, may, r)
      BY <1>0, <1>s, <3>c DEF Kept
    <3>2. CASE x = img
      BY <2>1, <3>1, <3>2
    <3>3. CASE x = img'
      <4> DEFINE a == L1Index(r[1])
                 b == L2Index(r[1])
      <4>1. /\ Entry(img', r[1]) = IF img'.l1[a] = 0 THEN 0 ELSE img'.l2[img'.l1[a]][b]
            /\ Entry(img, r[1]) = IF img.l1[a] = 0 THEN 0 ELSE img.l2[img.l1[a]][b]
        BY DEF Entry
      <4>2. a \in Index /\ b \in Index /\ r[2] \in {0, 1} /\ img' \in Images
        BY <1>z, <3>3, Places
      <4>3. a = i /\ b = j => r[1] = req.at[1]
        BY <1>p, PlaceOnce DEF i, j
      <4> HIDE DEF a, b
      <4>4. img'.l1[a] = IF a = i THEN req.tab ELSE img.l1[a]
        BY <2>1, <2>2, <2>3, <2>5, <4>2 DEF Typed
      <4>5. img.l2[req.tab][b] = IF b = j THEN cur ELSE 0
        BY <2>3, <4>2 DEF NoTable
      <4>6. req.tab # 0
        BY <1>n, <2>3
      <4>7. CASE a = i /\ b = j
        <5>1. r[1] = req.at[1] /\ Entry(img', r[1]) = cur
          BY <2>5, <4>1, <4>3, <4>4, <4>5, <4>6, <4>7
        <5>2. 0 \in may[r]
          BY <1>e, <2>2, <3>c, <5>1
        <5>3. r[2] = req.at[2] => req.val \in may[r]
          <6>1. r[2] = req.at[2] => r = req.at
            BY <1>p, <5>1, Places
          <6>2. req.val \in may[req.at]
            BY <1>s, <2>1 DEF Given, Busy, Linking
          <6> QED  BY <6>1, <6>2
        <5>4. r[2] = req.at[2] \/ r[2] = 1 - req.at[2]
          BY <1>q, <4>2
        <5>5. View(img', backing, r) \in may[r]
          <6>1. View(img', backing, r) =
                  IF cur = 0 \/ (img.data[cur][r[2]] = Hole /\ ~backing) THEN 0
                  ELSE img.data[cur][r[2]]
            BY <2>5, <5>1 DEF View
          <6> QED  BY <1>p, <2>o, <5>2, <5>3, <5>4, <6>1
        <5> QED  BY <2>1, <3>3, <5>2, <5>5 DEF Holds
      <4>8. CASE ~(a = i /\ b = j)
        <5>1. Entry(img', r[1]) = Entry(img, r[1])
          BY <2>2, <2>3, <2>5, <4>1, <4>4, <4>5, <4>6, <4>8
        <5>2. img'.size >= img.size
          BY <1>n, <2>5
        <5> QED  BY <1>0, <2>1, <2>5, <3>1, <3>3, <4>2, <5>1, <5>2, HoldsKept
      <4> QED  BY <4>7, <4>8
    <3> QED  BY <2>5, <3>2, <3>3
  <2> QED  BY <1>g, <2>4, <2>6, <2>7, <2>8, <2>9
<1>9. CASE qed_aio_complete
  <2>1. /\ pc = "done" /\ pc' = "idle" /\ UNCHANGED disk /\ backing' = backing
        /\ volatile' = volatile /\ ncrash' = ncrash /\ file_size' = file_size /\ cur' = cur
        /\ req' = req
        /\ may' = IF volatile THEN may ELSE [may EXCEPT ![req.at] = {req.val}]
    BY <1>9 DEF qed_aio_complete, mode, driver, count
  <2>2. Reach' = Reach /\ img' = img /\ pc' \in Running /\ pc' # "closing"
    BY <2>1, SameReach DEF Running
  <2>3. Tables' /\ Given'
    BY <1>s, <2>1, <2>2 DEF Tables, Given, Busy, Linking
  <2>4. Virgin'
    BY <1>s, <2>1, <2>2, QuietVirgin DEF Linking
  <2>5. Kept'
    <3> SUFFICES ASSUME Covered', NEW x \in Reach', NEW r \in Virt
                 PROVE  Holds(x, backing', may', r)
      BY DEF Kept
    <3>1. Holds(x, backing, may, r)
      BY <1>s, <2>1, <2>2, StillCovered DEF Kept
    <3>2. CASE volatile \/ r # req.at
      <4>1. may'[r] = may[r]
        BY <2>1, <3>2 DEF MayOK
      <4> QED  BY <2>1, <3>1, <4>1 DEF Holds
    <3>3. CASE ~volatile /\ r = req.at
      <4>1. x = img
        BY <2>2, <3>3, PinnedReach DEF Typed
      <4>2. See(r) = req.val
        BY <2>1, <3>3 DEF Own, Running
      <4>3. may'[r] = {req.val}
        BY <1>p, <2>1, <3>3 DEF MayOK
      <4>4. Shape
        BY <1>h, <2>1 DEF Running
      <4> QED  BY <2>1, <4>1, <4>2, <4>3, <4>4, HoldsNow
    <3> QED  BY <3>2, <3>3
  <2> QED  BY <1>g, <2>2, <2>3, <2>4, <2>5
<1> QED  BY <1>1, <1>2, <1>3, <1>4, <1>5, <1>6, <1>8, <1>9 DEF WriteRequest

\* Images alike in all but the flag.
LEMMA SameFields ==
  ASSUME NEW x \in Images, NEW im \in Images,
         x.l1 = im.l1, x.l2 = im.l2, x.size = im.size, x.data = im.data
  PROVE  Same(x, im)
BY DEF Same, Images

\* So it is while the guest does not run.
LEMMA CoveredOpen ==
  ASSUME backing' = backing, volatile' = volatile, ncrash' = ncrash,
         pc \in {"down", "check", "checked", "clear", "opened", "closing"}, Covered'
  PROVE  Covered
BY DEF Covered

\* The repair clears an entry only where the file ends before its cluster.
LEMMA FixHolds ==
  ASSUME Typed, NEW im \in Reach, NEW x, NEW i \in Index, NEW v, NEW r \in Virt, NEW t \in Clusters,
         Tabled(im, x, t, v), im.size = img.size, im.data = img.data, x.size = im.size,
         Apart(stable), Sub(im, stable), Sub(img, stable), t # 0, t = img.l1[i],
         \A j \in Index : v[j] = IF BadEntry(img.l2[t][j]) THEN 0 ELSE img.l2[t][j],
         img.size <= 2 * file_size + 1,
         Holds(im, backing, may, r), Holds(img, backing, may, r)
  PROVE  Holds(x, backing, may, r)
<1> DEFINE a == L1Index(r[1])
           b == L2Index(r[1])
<1>1. /\ img \in Images /\ stable \in Images /\ im \in Images /\ file_size \in Nat
      /\ img.size \in Nat
  BY TypedGives, BoundType, Fields
<1>2. /\ x \in Images /\ x.l1 = im.l1 /\ x.data = im.data /\ x.size >= im.size
      /\ \A u \in Clusters : x.l2[u] = IF u = t THEN v ELSE im.l2[u]
  BY DEF Tabled
<1>3. /\ Entry(x, r[1]) = IF im.l1[a] = 0 THEN 0 ELSE x.l2[im.l1[a]][b]
      /\ Entry(im, r[1]) = IF im.l1[a] = 0 THEN 0 ELSE im.l2[im.l1[a]][b]
      /\ Entry(img, r[1]) = IF img.l1[a] = 0 THEN 0 ELSE img.l2[img.l1[a]][b]
  BY <1>2 DEF Entry
<1>4. a \in Index /\ b \in Index
  BY Places
<1> HIDE DEF a, b
<1>5. im.l1[a] \in Clusters /\ img.l1[a] \in Clusters
  BY <1>1, <1>4, Fields
<1>6. CASE im.l1[a] # t
  <2>1. Entry(x, r[1]) = Entry(im, r[1])
    BY <1>2, <1>3, <1>5, <1>6
  <2> QED  BY <1>1, <1>2, <2>1, HoldsKept
<1>7. CASE im.l1[a] = t
  <2>1. stable.l1[a] = t /\ stable.l1[i] = t
    BY <1>4, <1>7 DEF Sub
  <2>2. a = i
    <3>1. t \in Nat
      BY Sizes
    <3>2. a = i \/ stable.l1[a] + TableSize <= stable.l1[i]
                \/ stable.l1[i] + TableSize <= stable.l1[a]
      BY <1>4, <2>1 DEF Apart
    <3> QED  BY <2>1, <3>1, <3>2, Sizes
  <2>3. Entry(img, r[1]) = img.l2[t][b] /\ Entry(x, r[1]) = v[b]
    BY <1>2, <1>3, <1>7, <2>2
  <2>4. CASE ~BadEntry(img.l2[t][b])
    <3>1. Entry(x, r[1]) = Entry(img, r[1])
      BY <1>4, <2>3, <2>4
    <3>2. x.size >= img.size /\ x.data = img.data
      BY <1>2
    <3> QED  BY <1>1, <1>2, <3>1, <3>2, HoldsKept
  <2>5. CASE BadEntry(img.l2[t][b])
    <3>1. Entry(x, r[1]) = 0
      BY <1>4, <2>3, <2>5
    <3>2. img.l2[t][b] \in Nat
      BY <1>1, <1>4, Fields
    <3>3. Entry(img, r[1]) # 0 /\ 2 * (Entry(img, r[1]) + 1) > img.size
      BY <1>1, <2>3, <2>5, <3>2 DEF BadEntry, qed_check_cluster_offset
    <3>4. Entry(img, r[1]) \in Nat
      BY <2>3, <3>2
    <3>5. 0 \in may[r]
      BY <1>1, <3>3, <3>4 DEF Holds
    <3> QED  BY <3>1, <3>5 DEF Holds, View
  <2> QED  BY <2>4, <2>5
<1> QED  BY <1>6, <1>7

\* Opening and repairing an image keeps the guest's data safe.
LEMMA OpenSafe ==
  ASSUME Typed, Typed', Core, MayOK, Safe, ~lostmark, Open
  PROVE  Safe'
<1>0. /\ img \in Images /\ stable \in Images /\ img \in Reach /\ stable \in Reach
      /\ \A im \in Reach : im \in Images
  BY TypedGives
<1>n. file_size \in Nat /\ file_size >= FirstFree /\ file_size <= MaxClusters /\ img.size \in Nat
  BY <1>0, Sizes, Fields DEF Typed
<1>s. Tables /\ Virgin /\ Given /\ Fixing /\ Fresh /\ Kept
  BY SafeParts
<1>g. ASSUME Tables', Virgin', Given', Fixing', Fresh', Kept' PROVE Safe'
  BY <1>g DEF Safe
<1>1. CASE bdrv_qed_open
  <2>1. /\ pc = "down" /\ pc' \in {"check", "opened"} /\ UNCHANGED disk /\ backing' = backing
        /\ volatile' = volatile /\ may' = may /\ ncrash' = ncrash
        /\ file_size' = img.size \div 2
    BY <1>1 DEF bdrv_qed_open, mode, expect, count
  <2>2. Reach' = Reach /\ img' = img
    BY <2>1, SameReach
  <2>3. \A im \in Reach : Same(im, img)
    BY <2>1, CoreParts
  <2>4. Tables' /\ Given'
    BY <1>s, <2>1, <2>2 DEF Tables, Given, Busy, Linking
  <2>5. Fixing'
    <3>1. img.size <= 2 * file_size' + 1
      BY <1>n, <2>1
    <3>2. \A im \in Reach : im.data = img.data /\ im.size = img.size
      BY <1>0, <2>3, SameFlag
    <3> QED  BY <2>2, <3>1, <3>2 DEF Fixing
  <2>6. Fresh'
    BY <2>2, <2>3 DEF Fresh
  <2>7. Virgin'
    <3> SUFFICES ASSUME ncrash = 0 PROVE Virgin'
      BY <2>1 DEF Virgin
    <3>1. img.size = 2 * file_size
      BY <1>s, <2>1 DEF Virgin
    <3>2. file_size' = file_size
      BY <1>n, <2>1, <3>1
    <3> QED  BY <1>s, <2>1, <2>2, <3>2 DEF Virgin, Linking
  <2>8. Covered' => Covered
    BY <2>1, CoveredOpen
  <2>9. Kept'
    BY <1>s, <2>1, <2>2, <2>8 DEF Kept
  <2> QED  BY <1>g, <2>4, <2>5, <2>6, <2>7, <2>9
<1>2. CASE FixTable
  <2>1. /\ pc = "check" /\ pc' = "check" /\ file_size' = file_size /\ backing' = backing
        /\ volatile' = volatile /\ may' = may /\ ncrash' = ncrash /\ cur' = cur /\ req' = req
    BY <1>2 DEF FixTable, driver, mode, expect, count
  <2>2. /\ l1 = img.l1 /\ 2 * file_size <= img.size /\ Apart(stable)
        /\ \A im \in Reach : Sub(im, stable)
    BY <2>1, CoreParts
  <2>3. /\ img.size <= 2 * file_size + 1
        /\ \A im \in Reach : im.data = img.data /\ im.size = img.size
    BY <1>s, <2>1 DEF Fixing
  <2>4. PICK i \in Descended :
          Write(SetTable(l1[i], [j \in Index |->
                  IF BadEntry(img.l2[l1[i]][j]) THEN 0 ELSE img.l2[l1[i]][j]]))
    BY <1>2 DEF FixTable
  <2> DEFINE t == l1[i]
             v == [j \in Index |-> IF BadEntry(img.l2[t][j]) THEN 0 ELSE img.l2[t][j]]
  <2>5. i \in Index /\ t \in Clusters /\ t \in Nat /\ t # 0 /\ t = img.l1[i]
        /\ t + TableSize - 1 < file_size
    BY <1>0, <2>2, <2>4, Fields DEF Descended, qed_check_table_offset, qed_check_cluster_offset
  <2>6. /\ v \in [Index -> Clusters]
        /\ \A j \in Index : v[j] = IF BadEntry(img.l2[t][j]) THEN 0 ELSE img.l2[t][j]
    BY <1>0, <2>5, Fields, Sizes
  <2>7. t + TableSize <= MaxClusters /\ 2 * (t + TableSize) <= img.size
    BY <1>n, <2>2, <2>5, Sizes
  <2>w. Write(SetTable(t, v))
    BY <2>4
  <2> HIDE DEF v, t
  <2>8. SetTable(t, v) \in Writes /\ \A im \in Reach : Tabled(im, Apply(im, SetTable(t, v)), t, v)
    BY <1>0, <2>5, <2>6, <2>7, ApplyTable
  <2>9. /\ \A x \in Reach' : \E im \in Reach : x = im \/ Tabled(im, x, t, v)
        /\ Tabled(img, img', t, v)
    BY <1>0, <2>w, <2>8, WriteReach DEF Typed
  <2>10. ASSUME NEW im \in Reach, NEW x, Tabled(im, x, t, v)
         PROVE  x \in Images /\ x.l1 = im.l1 /\ x.data = im.data /\ x.size = im.size /\ x.size >= im.size
    <3>1. /\ x \in Images /\ x.l1 = im.l1 /\ x.data = im.data
          /\ x.size >= im.size /\ (x.size = im.size \/ x.size = 2 * (t + TableSize))
      BY <2>10 DEF Tabled
    <3>2. im.size = img.size /\ x.size \in Nat
      BY <2>3, <3>1, Fields
    <3> QED  BY <1>n, <2>5, <2>7, <3>1, <3>2, Sizes
  <2>11. /\ img'.size = img.size /\ img'.data = img.data
         /\ \A x \in Reach' : x.data = img.data /\ x.size = img.size
    BY <1>0, <2>3, <2>9, <2>10
  <2>12. Tables'
    <3> SUFFICES ASSUME NEW x \in Reach' PROVE TablesFit(x)
      BY DEF Tables
    <3>1. PICK im \in Reach : x = im \/ Tabled(im, x, t, v)
      BY <2>9
    <3> QED  BY <1>0, <1>s, <2>10, <3>1, FitGrows DEF Tables
  <2>13. Fixing' /\ Fresh' /\ Given'
    BY <2>1, <2>3, <2>11 DEF Fixing, Fresh, Given, Busy, Linking
  <2>14. Virgin'
    BY <1>0, <1>s, <2>1, <2>11 DEF Virgin, Linking
  <2>15. Kept'
    <3> SUFFICES ASSUME Covered', NEW x \in Reach', NEW r \in Virt
                 PROVE  Holds(x, backing', may', r)
      BY DEF Kept
    <3>c. Covered
      BY <2>1, CoveredOpen
    <3>1. PICK im \in Reach : x = im \/ Tabled(im, x, t, v)
      BY <2>9
    <3>2. Holds(im, backing, may, r) /\ Holds(img, backing, may, r)
      BY <1>0, <1>s, <3>c DEF Kept
    <3>3. CASE x = im
      BY <2>1, <3>2, <3>3
    <3>4. CASE Tabled(im, x, t, v)
      <4>1. im.size = img.size /\ im.data = img.data /\ x.size = im.size
        BY <2>3, <2>10, <3>4
      <4>2. Sub(im, stable) /\ Sub(img, stable)
        BY <1>0, <2>2
      <4>3. Holds(x, backing, may, r)
        BY <2>2, <2>3, <2>5, <2>6, <3>2, <3>4, <4>1, <4>2, FixHolds
      <4> QED  BY <2>1, <4>3
    <3> QED  BY <3>1, <3>3, <3>4
  <2> QED  BY <1>g, <2>12, <2>13, <2>14, <2>15
<1>3. CASE FixL1
  <2>1. /\ pc = "check" /\ pc' = "checked" /\ file_size' = file_size /\ backing' = backing
        /\ volatile' = volatile /\ may' = may /\ ncrash' = ncrash /\ cur' = cur /\ req' = req
        /\ l1' = [i \in Index |-> IF qed_check_table_offset(l1[i]) THEN l1[i] ELSE 0]
        /\ IF l1' # l1 THEN Write(SetL1(l1')) ELSE UNCHANGED disk
    BY <1>3 DEF FixL1, mode, expect, count
  <2>2. l1 = img.l1 /\ img.size <= 2 * file_size + 1 /\ TablesFit(img)
    BY <1>0, <1>s, <2>1, CoreParts DEF Fixing, Tables
  <2>3. \A i \in Index : ~qed_check_table_offset(l1[i]) => l1[i] = 0
    <3> SUFFICES ASSUME NEW i \in Index, l1[i] # 0 PROVE qed_check_table_offset(l1[i])
      OBVIOUS
    <3>1. l1[i] \in Nat /\ 2 * (l1[i] + TableSize) <= img.size
      BY <1>0, <2>2, Fields DEF TablesFit
    <3>2. l1[i] + TableSize <= file_size
      BY <1>n, <2>2, <3>1, Sizes
    <3> QED  BY <1>n, <3>1, <3>2, Sizes DEF qed_check_table_offset, qed_check_cluster_offset
  <2>4. l1' = l1
    BY <2>1, <2>3 DEF Typed
  <2>5. Reach' = Reach /\ img' = img
    BY <2>1, <2>4, SameReach
  <2>6. Tables' /\ Given' /\ Fixing' /\ Fresh'
    BY <1>s, <2>1, <2>5 DEF Tables, Given, Busy, Linking, Fixing, Fresh
  <2>7. Virgin'
    BY <1>s, <2>1, <2>5, QuietVirgin DEF Linking
  <2>8. Covered' => Covered
    BY <2>1, CoveredOpen
  <2>9. Kept'
    BY <1>s, <2>1, <2>5, <2>8 DEF Kept
  <2> QED  BY <1>g, <2>6, <2>7, <2>9
<1>4. CASE Checked
  <2>1. /\ pc = "checked" /\ file_size' = file_size /\ backing' = backing
        /\ volatile' = volatile /\ may' = may /\ ncrash' = ncrash /\ cur' = cur /\ req' = req
    BY <1>4 DEF Checked, mode, driver, expect, count
  <2>2. ~found
    BY <2>1, CoreParts
  <2>3. pc' = "clear" /\ Flush
    BY <1>4, <2>2 DEF Checked
  <2>4. Reach' = {img} /\ img' = img /\ Reach' \subseteq Reach
    BY <1>0, <2>3, FlushReach
  <2>5. Same(img, img)
    BY <1>0, SameFields
  <2>6. Tables' /\ Given' /\ Fixing' /\ Fresh'
    BY <1>s, <2>3, <2>4, <2>5 DEF Tables, Given, Busy, Linking, Fixing, Fresh
  <2>7. Virgin'
    BY <1>s, <2>1, <2>3, <2>4, QuietVirgin DEF Linking
  <2>8. Covered' => Covered
    BY <2>1, CoveredOpen
  <2>9. Kept'
    BY <1>s, <2>1, <2>4, <2>8 DEF Kept
  <2> QED  BY <1>g, <2>6, <2>7, <2>9
<1>5. CASE ClearAfterCheck
  <2>1. Write(SetFlag(FALSE))
    BY <1>5 DEF ClearAfterCheck
  <2>2. /\ pc = "clear" /\ pc' = "opened" /\ l1' = l1 /\ cur' = cur
        /\ file_size' = file_size /\ backing' = backing /\ volatile' = volatile /\ req' = req
        /\ may' = may /\ ncrash' = ncrash
    BY <1>5 DEF ClearAfterCheck, mode, expect, count
  <2>3. Shape /\ Bound' = Bound
    BY <2>2, CoreParts DEF Bound, Linking
  <2>4. Tables' /\ ((\A im \in Reach, s \in Virt : Holds(im, backing, may, s)) =>
              (\A im \in Reach, s \in Virt : Holds(im, backing, may, s))')
    BY <1>s, <2>1, <2>2, <2>3, FlagSafe
  <2>5. Virgin'
    BY <1>s, <2>1, <2>2, <2>3, FlagVirgin DEF Linking
  <2>6. Covered' => Covered
    BY <2>2, CoveredOpen
  <2>7. Kept'
    BY <1>s, <2>4, <2>6 DEF Kept
  <2>8. Fresh'
    <3> SUFFICES ASSUME NEW x \in Reach' PROVE Same(x, img')
      BY DEF Fresh
    <3>1. /\ img'.size = img.size /\ img'.l2 = img.l2
          /\ img'.data = img.data /\ img'.l1 = img.l1
      BY <2>1, <2>2, <2>3, FlagShape
    <3>2. PICK im \in Reach : /\ x \in Images /\ x.l1 = im.l1 /\ x.l2 = im.l2 /\ x.size = im.size
                              /\ x.data = im.data
      BY <2>1, <2>2, <2>3, FlagShape
    <3>3. Same(im, img)
      BY <1>s, <2>2 DEF Fresh
    <3>4. im.l1 = img.l1 /\ im.l2 = img.l2 /\ im.size = img.size /\ im.data = img.data
      BY <1>0, <3>3, SameFlag
    <3>5. img' \in Images
      BY DEF Typed, Reach
    <3> QED  BY <3>1, <3>2, <3>4, <3>5, SameFields
  <2>9. Given' /\ Fixing'
    BY <2>2 DEF Given, Busy, Linking, Fixing
  <2> QED  BY <1>g, <2>4, <2>5, <2>7, <2>8, <2>9
<1>6. CASE Resume
  <2>1. /\ pc = "opened" /\ pc' = "idle" /\ UNCHANGED disk /\ file_size' = file_size
        /\ backing' = backing /\ ncrash' = ncrash /\ cur' = cur /\ req' = req
        /\ may' = [s \in Virt |-> {Reads(s)}]
    BY <1>6 DEF Resume, mode, driver, count
  <2>2. Reach' = Reach /\ img' = img
    BY <2>1, SameReach
  <2>3. Shape /\ Bound = file_size
    BY <2>1, CoreParts DEF Bound, Linking
  <2>4. \A s \in Virt : Reads(s) = See(s)
    BY <2>3, FindIsEntry DEF Shape
  <2>5. ASSUME NEW x \in Reach, NEW s \in Virt
        PROVE  Holds(x, backing', may', s)
    <3>1. See(s) \in may'[s]
      BY <2>1, <2>4
    <3>2. Holds(img, backing, may', s)
      BY <2>3, <3>1, HoldsNow
    <3>3. Same(x, img)
      BY <1>s, <2>1 DEF Fresh
    <3>4. x \in Images /\ x.l1 = img.l1 /\ x.l2 = img.l2 /\ x.size = img.size /\ x.data = img.data
      BY <1>0, <3>3, SameFlag
    <3>5. Holds(x, backing, may', s)
      BY <1>0, <3>2, <3>4, HoldsAlike
    <3> QED  BY <2>1, <3>5
  <2>6. Kept'
    BY <2>2, <2>5 DEF Kept
  <2>7. Virgin'
    BY <1>s, <2>1, <2>2, QuietVirgin DEF Linking
  <2>8. Tables' /\ Given' /\ Fixing' /\ Fresh'
    BY <1>s, <2>1, <2>2 DEF Tables, Given, Busy, Linking, Fixing, Fresh
  <2> QED  BY <1>g, <2>6, <2>7, <2>8
<1> QED  BY <1>1, <1>2, <1>3, <1>4, <1>5, <1>6 DEF Open

\* So do flush, the need-check timer and close.
LEMMA OtherSafe ==
  ASSUME Typed, Typed', Core, Own, Safe, ~lostmark,
         \/ bdrv_qed_flush \/ qed_need_check_timer_cb \/ qed_clear_need_check
         \/ bdrv_qed_close \/ CloseClears
  PROVE  Safe'
<1>0. img \in Images /\ img \in Reach /\ \A im \in Reach : im \in Images
  BY TypedGives
<1>n. file_size \in Nat /\ img.size \in Nat
  BY <1>0, BoundType, Fields
<1>s. Tables /\ Virgin /\ Given /\ Fixing /\ Fresh /\ Kept
  BY SafeParts
<1>g. ASSUME pc' \in {"idle", "unmark", "closing", "down"}, Tables', Virgin', Kept' PROVE Safe'
  BY <1>g DEF Safe, Given, Fixing, Fresh, Busy, Linking
<1>h. pc \in Running => Shape
  BY CoreParts
<1>w. ASSUME ncrash = 0, pc \in {"idle", "closing"} PROVE img.size = 2 * file_size
  <2>1. Shape /\ Bound = file_size
    BY <1>h, <1>w DEF Running, Bound, Linking
  <2>2. 2 * file_size <= img.size /\ img.size <= 2 * file_size
    BY <1>s, <1>w, <2>1 DEF Shape, Virgin
  <2> QED  BY <1>n, <2>2
<1>1. CASE bdrv_qed_flush \/ bdrv_qed_close
  <2>1. /\ pc = "idle" /\ pc' \in {"idle", "closing", "down"} /\ Flush /\ backing' = backing
        /\ file_size' = file_size /\ cur' = cur /\ req' = req /\ ncrash' = ncrash
        /\ may' = [s \in Virt |-> {guest[s]}]
    BY <1>1 DEF bdrv_qed_flush, bdrv_qed_close, mode, driver, count
  <2>2. Reach' = {img} /\ img' = img /\ Reach' \subseteq Reach
    BY <1>0, <2>1, FlushReach
  <2>3. Tables'
    BY <1>s, <2>2 DEF Tables
  <2>4. Virgin'
    BY <1>s, <1>w, <2>1, <2>2, QuietVirgin DEF Linking
  <2>5. ASSUME NEW s \in Virt PROVE Holds(img, backing, may', s)
    <3>1. See(s) = guest[s]
      BY <2>1 DEF Own, Running
    <3>2. See(s) \in may'[s]
      BY <2>1, <3>1
    <3>3. Shape
      BY <1>h, <2>1 DEF Running
    <3> QED  BY <3>2, <3>3, HoldsNow
  <2>6. Kept'
    BY <2>1, <2>2, <2>5 DEF Kept
  <2> QED  BY <1>g, <2>1, <2>3, <2>4, <2>6
<1>2. CASE qed_need_check_timer_cb
  <2>1. /\ pc = "idle" /\ pc' = "unmark" /\ Flush /\ backing' = backing /\ volatile' = volatile
        /\ file_size' = file_size /\ cur' = cur /\ req' = req /\ ncrash' = ncrash /\ may' = may
    BY <1>2 DEF qed_need_check_timer_cb, mode, driver, expect, count
  <2>2. Reach' = {img} /\ img' = img /\ Reach' \subseteq Reach
    BY <1>0, <2>1, FlushReach
  <2>3. Tables'
    BY <1>s, <2>2 DEF Tables
  <2>4. Virgin'
    BY <1>s, <2>1, <2>2, QuietVirgin DEF Linking
  <2>5. Covered' => Covered
    BY <2>1, StillCovered DEF Running
  <2>6. Kept'
    BY <1>s, <2>1, <2>2, <2>5 DEF Kept
  <2> QED  BY <1>g, <2>1, <2>3, <2>4, <2>6
<1>3. CASE qed_clear_need_check \/ CloseClears
  <2>1. Write(SetFlag(FALSE))
    BY <1>3 DEF qed_clear_need_check, CloseClears
  <2>2. /\ \/ pc = "unmark" /\ pc' = "idle"
           \/ pc = "closing" /\ pc' = "down"
        /\ l1' = l1 /\ cur' = cur /\ file_size' = file_size /\ backing' = backing
        /\ volatile' = volatile /\ req' = req /\ may' = may /\ ncrash' = ncrash
    BY <1>3 DEF qed_clear_need_check, CloseClears, mode, expect, count
  <2>3. Shape /\ Bound' = Bound /\ pc' \notin Linking
    BY <1>h, <2>2 DEF Running, Bound, Linking
  <2>4. Tables' /\ ((\A im \in Reach, s \in Virt : Holds(im, backing, may, s)) =>
              (\A im \in Reach, s \in Virt : Holds(im, backing, may, s))')
    BY <1>s, <2>1, <2>2, <2>3, FlagSafe
  <2>5. ncrash = 0 /\ pc' = "down" => img.size = 2 * file_size
    BY <1>w, <2>2
  <2>6. Virgin'
    BY <1>s, <2>1, <2>2, <2>3, <2>5, FlagVirgin
  <2>7. Covered' => Covered
    BY <2>2, StillCovered, CoveredOpen DEF Running
  <2>8. Kept'
    BY <1>s, <2>4, <2>7 DEF Kept
  <2>9. pc' \in {"idle", "down"}
    BY <2>2
  <2> QED  BY <1>g, <2>4, <2>6, <2>8, <2>9
<1> QED  BY <1>1, <1>2, <1>3

\* After a crash the guest's data is as safe as it was in every image of Reach.
LEMMA CrashSafe ==
  ASSUME Typed, Safe, Crash
  PROVE  Safe'
<1> SUFFICES ASSUME ~lostmark' PROVE Safe'
  BY DEF Safe
<1>1. /\ ~lostmark /\ pc' = "down" /\ ncrash' = ncrash + 1 /\ backing' = backing
      /\ volatile' = volatile /\ may' = may /\ ncrash \in Nat
  BY DEF Crash, Typed, mode
<1>2. img' \in Reach /\ Reach' = {img'}
  BY CrashReach
<1>s. Tables /\ Kept
  BY <1>1, SafeParts
<1>3. Tables'
  BY <1>2, <1>s DEF Tables
<1>4. Virgin'
  BY <1>1 DEF Virgin
<1>5. Covered' => Covered
  BY <1>1 DEF Covered
<1>6. Kept'
  BY <1>1, <1>2, <1>5, <1>s DEF Kept
<1>7. Given' /\ Fixing' /\ Fresh'
  BY <1>1 DEF Given, Fixing, Fresh, Busy, Linking
<1> QED  BY <1>3, <1>4, <1>6, <1>7 DEF Safe

\* In a new image there is nothing to lose.
LEMMA InitSafe == Init => MayOK /\ Safe
<1> SUFFICES ASSUME Init PROVE MayOK /\ Safe
  OBVIOUS
<1>1. /\ Reach = {img} /\ img = NewImage /\ pc = "down" /\ file_size = FirstFree
      /\ may = [s \in Virt |-> {0}]
  <2>1. Pinned
    BY DEF Init, Pinned
  <2> QED  BY <2>1, PinnedReach DEF Init
<1>2. /\ \A i \in Index : img.l1[i] = 0
      /\ img.size = 2 * file_size
      /\ \A c \in Clusters, h \in {0, 1} : img.data[c][h] = Hole
  BY <1>1 DEF NewImage, NoTable
<1>3. Tables
  BY <1>1, <1>2 DEF Tables, TablesFit
<1>4. Virgin
  <2>1. file_size \in Nat /\ img.size <= 2 * file_size
    BY <1>1, <1>2, Sizes DEF FirstFree
  <2>2. pc \notin Linking
    BY <1>1 DEF Linking
  <2>3. \A im \in Reach, c \in Clusters, h \in {0, 1} : im.data[c][h] = Hole
    BY <1>1, <1>2
  <2> QED  BY <1>2, <2>1, <2>2, <2>3 DEF Virgin
<1>5. \A s \in Virt : Entry(img, s[1]) = 0
  BY <1>2, Places DEF Entry
<1>6. Kept
  BY <1>1, <1>5 DEF Kept, Holds, View
<1>7. MayOK
  <2>1. 0 \in Invalid..MaxWrites
    BY Sizes DEF Invalid
  <2> QED  BY <1>1, <2>1 DEF MayOK
<1> QED  BY <1>1, <1>3, <1>4, <1>6, <1>7 DEF Safe, Given, Fixing, Fresh, Busy, Linking

\* A step that changes nothing keeps the guest's data safe.
LEMMA StillSafe ==
  ASSUME Safe, UNCHANGED vars
  PROVE  Safe'
<1>1. /\ UNCHANGED disk /\ backing' = backing /\ volatile' = volatile /\ pc' = pc /\ req' = req
      /\ cur' = cur /\ file_size' = file_size /\ may' = may /\ lostmark' = lostmark
      /\ ncrash' = ncrash
  BY DEF vars, mode, driver, expect, count
<1>2. Reach' = Reach /\ img' = img
  BY <1>1, SameReach
<1>3. Covered' => Covered
  BY <1>1 DEF Covered
<1>4. (Tables => Tables') /\ (Given => Given') /\ (Fixing => Fixing') /\ (Fresh => Fresh')
  BY <1>1, <1>2 DEF Tables, Given, Fixing, Fresh
<1>5. Virgin => Virgin'
  BY <1>1, <1>2 DEF Virgin
<1>6. Kept => Kept'
  BY <1>1, <1>2, <1>3 DEF Kept
<1> QED  BY <1>1, <1>4, <1>5, <1>6 DEF Safe

SafeInv == Inv /\ MayOK /\ Safe

\* Every step keeps the invariant and the guest's data.
LEMMA NextSafe ==
  ASSUME SafeInv, [Next]_vars
  PROVE  SafeInv'
<1>0. Inv /\ Typed /\ Core /\ Own /\ MayOK /\ Safe
  BY DEF SafeInv, Inv
<1>1. Inv' /\ Typed' /\ MayOK'
  BY <1>0, NextInv, NextMay DEF Inv
<1>2. CASE Crash
  BY <1>0, <1>1, <1>2, CrashSafe DEF SafeInv
<1>3. CASE UNCHANGED vars
  BY <1>0, <1>1, <1>3, StillSafe DEF SafeInv
<1>4. CASE Next /\ ~Crash
  <2>1. lostmark' = lostmark
    BY <1>4, LostKept
  <2>2. CASE lostmark
    BY <1>1, <2>1, <2>2 DEF SafeInv, Safe
  <2>3. CASE ~lostmark
    BY <1>0, <1>1, <1>4, <2>3, OpenSafe, RequestSafe, OtherSafe DEF Next, SafeInv
  <2> QED  BY <2>2, <2>3
<1> QED  BY <1>2, <1>3, <1>4

\* If the data is safe, an opened image holds it.
LEMMA InvDurable ==
  ASSUME SafeInv
  PROVE  DurableData
<1>0. Typed /\ Core /\ Safe
  BY DEF SafeInv, Inv
<1> SUFFICES ASSUME pc = "opened", ~lostmark, backing \/ ~volatile \/ ncrash <= 1, NEW s \in Virt
             PROVE  Reads(s) \in may[s]
  BY DEF DurableData
<1>1. Shape /\ Bound = file_size
  BY <1>0, CoreParts DEF Bound, Linking
<1>2. Reads(s) = View(img, backing, s)
  BY <1>0, <1>1, FindIsEntry, SeeIsView DEF Shape
<1>3. Covered /\ Kept
  BY <1>0, SafeParts DEF Covered
<1>4. Holds(img, backing, may, s)
  BY <1>0, <1>3, TypedGives DEF Kept
<1> QED  BY <1>2, <1>4 DEF Holds

\* What the guest wrote and flushed is there after a crash, every other sector
\* holds what it held or something written to it since, and with a backing
\* file no part of a cluster is seen that was not filled from it
\* (qed_aio_write_flush_before_l2_update, qed_check).  With a volatile cache
\* and no backing file this holds for the first crash.
THEOREM DataIsDurable == Spec => []DurableData
<1>1. Init => SafeInv
  BY InitInv, InitSafe DEF SafeInv
<1>2. SafeInv /\ [Next]_vars => SafeInv'
  BY NextSafe
<1>3. SafeInv => DurableData
  BY InvDurable
<1> QED  BY <1>1, <1>2, <1>3, PTL DEF Spec
=============================================================================

--------------------------- MODULE SyncQueueProofs ---------------------------
(***************************************************************************)
(* Proofs about SyncQueue for every number of streams, whatever their time *)
(* bases, limits, frame sizes and frames: the queue's record agrees with   *)
(* itself, streams end together, none gets ahead of a limiting one,        *)
(* nothing is lost, and encoders are given what they are promised.         *)
(*                                                                         *)
(* First come the functions of sync_queue.c, each with what it makes of a  *)
(* queue: Ended, Advanced, Retimed, Sent, Taken.  The steps of the users   *)
(* of the queue then consist of these (StepIs), and each invariant is      *)
(* shown to be kept by them.                                               *)
(***************************************************************************)
EXTENDS SyncQueue, SequenceTheorems, FiniteSetTheorems, WellFoundedInduction, TLAPS

-----------------------------------------------------------------------------
(* Recursive functions *)

\* Induction up to a bound.
LEMMA UpTo ==
  ASSUME NEW L \in Nat, NEW T, T \subseteq 0 .. L, 0 \in T,
         \A k \in 1 .. L : k - 1 \in T => k \in T
  PROVE  T = 0 .. L
<1> DEFINE Rest == {k \in Nat : k <= L /\ k \notin T}
<1>1. ASSUME Rest # {} PROVE FALSE
  <2>0. Rest \subseteq Nat /\ \A m : m \in Rest <=> m \in Nat /\ m <= L /\ m \notin T
    OBVIOUS
  <2> HIDE DEF Rest
  <2>1. PICK k \in Rest : \A m \in Rest : <<m, k>> \notin OpToRel(<, Nat)
    BY <1>1, <2>0, NatLessThanWellFounded, WFMin
  <2>2. \A m \in Rest : ~(m < k)
    BY <2>0, <2>1 DEF OpToRel
  <2>3. k \in Nat /\ k <= L /\ k \notin T /\ k # 0
    BY <2>0
  <2>4. k - 1 \in Nat /\ k - 1 <= L /\ k \in 1 .. L /\ k - 1 < k
    BY <2>3
  <2>5. k - 1 \in T
    BY <2>0, <2>2, <2>4
  <2> QED BY <2>3, <2>4, <2>5
<1>2. \A m \in 0 .. L : m \in T
  <2> TAKE m \in 0 .. L
  <2>1. m \notin Rest
    BY <1>1
  <2> QED BY <2>1
<1> QED BY <1>2

\* A function defined by recursion from each number to the next.
Recursive(g, S, b, h, L) == /\ g \in [0 .. L -> S] /\ g[0] = b
                            /\ \A k \in 1 .. L : g[k] = h[<<g[k - 1], k>>]

\* There is a function with the values that the step h yields.
LEMMA Recursion ==
  ASSUME NEW S, NEW b \in S, NEW h \in [S \X Nat -> S], NEW L \in Nat
  PROVE  \E g : Recursive(g, S, b, h, L)
<1> DEFINE Good(g, m) == /\ g \in [0 .. m -> S] /\ g[0] = b
                         /\ \A k \in 1 .. m : g[k] = h[<<g[k - 1], k>>]
           T == {m \in 0 .. L : \E g : Good(g, m)}
<1>1. 0 \in T
  <2>1. PICK g : g = [k \in 0 .. 0 |-> b]
    OBVIOUS
  <2>2. Good(g, 0)
    BY <2>1
  <2>3. 0 \in 0 .. L
    OBVIOUS
  <2> HIDE DEF Good
  <2> QED BY <2>2, <2>3
<1>2. ASSUME NEW m \in 1 .. L, m - 1 \in T PROVE m \in T
  <2>1. PICK g : Good(g, m - 1)
    BY <1>2
  <2>2. PICK e : e = [k \in 0 .. m |-> IF k = m THEN h[<<g[m - 1], m>>] ELSE g[k]]
    OBVIOUS
  <2>3. \A k \in 0 .. m - 1 : k \in 0 .. m /\ k # m
    OBVIOUS
  <2>4. \A k \in 0 .. m - 1 : e[k] = g[k] /\ g[k] \in S
    BY <2>1, <2>2, <2>3
  <2>5. m - 1 \in 0 .. m - 1 /\ 0 \in 0 .. m - 1 /\ m \in 0 .. m /\ m \in Nat
    OBVIOUS
  <2>9. e[m] = h[<<g[m - 1], m>>]
    BY ONLY <2>2, <2>5
  <2>6. g[m - 1] \in S /\ h[<<g[m - 1], m>>] \in S /\ e[m - 1] = g[m - 1] /\ e[0] = b
    BY <2>1, <2>4, <2>5
  <2>11. \A k \in 0 .. m : e[k] \in S
    <3> TAKE k \in 0 .. m
    <3>1. CASE k = m
      BY <2>6, <2>9, <3>1
    <3>2. CASE k # m
      <4>1. k \in 0 .. m - 1
        BY <3>2
      <4> QED BY <2>4, <4>1
    <3> QED BY <3>1, <3>2
  <2>7. e \in [0 .. m -> S]
    BY <2>2, <2>11
  <2>8. ASSUME NEW k \in 1 .. m PROVE e[k] = h[<<e[k - 1], k>>]
    <3>1. CASE k = m
      BY <2>6, <2>9, <3>1
    <3>2. CASE k # m
      <4>1. k \in 1 .. m - 1 /\ k \in 0 .. m - 1 /\ k - 1 \in 0 .. m - 1
        BY <3>2
      <4>2. g[k] = h[<<g[k - 1], k>>]
        BY <2>1, <4>1
      <4> QED BY <2>4, <4>1, <4>2
    <3> QED BY <3>1, <3>2
  <2>10. Good(e, m) /\ m \in 0 .. L
    BY <2>6, <2>7, <2>8
  <2> HIDE DEF Good
  <2> QED BY <2>10
<1> HIDE DEF T
<1>3. T \subseteq 0 .. L
  BY DEF T
<1>4. T = 0 .. L
  BY <1>1, <1>2, <1>3, UpTo
<1>5. L \in T
  BY <1>4
<1>6. PICK g : Good(g, L)
  BY <1>5 DEF T
<1> QED BY <1>6 DEF Recursive

\* The values of a function that is defined by recursion.
LEMMA Values ==
  ASSUME NEW S, NEW L \in Nat, NEW s, s = [k \in 0 .. L |-> s[k]], s[0] \in S,
         \A k \in 1 .. L : s[k - 1] \in S => s[k] \in S
  PROVE  s \in [0 .. L -> S]
<1>1. PICK T : T = {k \in 0 .. L : s[k] \in S}
  OBVIOUS
<1>2. T \subseteq 0 .. L /\ 0 \in T
  BY <1>1
<1>3. \A k \in 1 .. L : k - 1 \in T => k \in T
  BY <1>1
<1>4. T = 0 .. L
  BY <1>2, <1>3, UpTo
<1> QED BY <1>1, <1>4
-----------------------------------------------------------------------------
(* Samples *)

FrameType == [pts : Nat, dur : Nat, nb_samples : Nat]

\* Frames that are handed on as they are, and frames that may be cut.
WholeFrames == {f \in FrameType : f.nb_samples = 0}
CutFrames   == {f \in FrameType : f.nb_samples # 0 /\ f.dur = f.nb_samples}

\* Sums adds up the samples of one frame after the other.
LEMMA SumsAre ==
  ASSUME NEW fifo \in Seq(FrameType)
  PROVE  /\ Sums(fifo) \in [0 .. Len(fifo) -> Nat]
         /\ Sums(fifo)[0] = 0
         /\ \A k \in 1 .. Len(fifo) : Sums(fifo)[k] = Sums(fifo)[k - 1] + fifo[k].nb_samples
<1> DEFINE L == Len(fifo)
           h == [x \in Nat \X Nat |-> IF x[2] \in 1 .. L THEN x[1] + fifo[x[2]].nb_samples ELSE 0]
           Is(s) == s = [k \in 0 .. L |-> IF k = 0 THEN 0 ELSE s[k - 1] + fifo[k].nb_samples]
<1>0. \A k \in 1 .. L : fifo[k] \in FrameType
  BY ElementOfSeq
<1>1. L \in Nat /\ \A k \in 1 .. L : fifo[k].nb_samples \in Nat
  BY <1>0, LenProperties DEF FrameType
<1>2. h \in [Nat \X Nat -> Nat]
  BY <1>1
<1> HIDE DEF h
<1>3. PICK g \in [0 .. L -> Nat] : g[0] = 0 /\ \A k \in 1 .. L : g[k] = h[<<g[k - 1], k>>]
  <2>1. 0 \in Nat /\ L \in Nat
    BY <1>1
  <2>2. \E g : Recursive(g, Nat, 0, h, L)
    BY ONLY <1>2, <2>1, Recursion
  <2> QED BY <2>2 DEF Recursive
<1>4. \A k \in 1 .. L : g[k] = g[k - 1] + fifo[k].nb_samples
  <2> TAKE k \in 1 .. L
  <2>1. k - 1 \in 0 .. L /\ k \in Nat
    BY <1>1
  <2>2. PICK a \in Nat : a = g[k - 1]
    BY <2>1
  <2>3. h[<<a, k>>] = a + fifo[k].nb_samples
    BY <2>1 DEF h
  <2> QED BY <1>3, <2>2, <2>3
<1>5. Is(g)
  BY <1>1, <1>3, <1>4
<1>6. Sums(fifo) = CHOOSE s : Is(s)
  BY DEF Sums
<1>7. Is(Sums(fifo))
  BY <1>5, <1>6
<1>8. PICK s : s = Sums(fifo)
  OBVIOUS
<1>9. s = [k \in 0 .. L |-> IF k = 0 THEN 0 ELSE s[k - 1] + fifo[k].nb_samples]
  BY <1>7, <1>8
<1>10. 0 \in 0 .. L /\ \A k \in 1 .. L : k # 0 /\ k \in 0 .. L /\ k - 1 \in 0 .. L
  BY <1>1
<1>11. s[0] = 0 /\ \A k \in 1 .. L : s[k] = s[k - 1] + fifo[k].nb_samples
  BY ONLY <1>9, <1>10
<1>12. s = [k \in 0 .. L |-> s[k]]
  BY <1>9
<1>13. \A k \in 1 .. L : s[k - 1] \in Nat => s[k] \in Nat
  BY <1>1, <1>11
<1>16. s \in [0 .. L -> Nat]
  <2>1. L \in Nat /\ s[0] \in Nat
    BY <1>1, <1>11
  <2> HIDE DEF L
  <2> QED BY ONLY <2>1, <1>12, <1>13, Values
<1> QED BY <1>8, <1>11, <1>16

LEMMA SamplesNat ==
  ASSUME NEW fifo \in Seq(FrameType)
  PROVE  Samples(fifo) \in Nat /\ (fifo = <<>> => Samples(fifo) = 0)
<1>1. PICK s, L : s = Sums(fifo) /\ L = Len(fifo) /\ L \in Nat
  BY LenProperties
<1>2. s \in [0 .. L -> Nat] /\ s[0] = 0
  BY <1>1, SumsAre
<1>3. L \in 0 .. L /\ Samples(fifo) = s[L]
  BY <1>1 DEF Samples
<1>4. fifo = <<>> => L = 0
  BY <1>1, EmptySeq
<1> QED BY <1>2, <1>3, <1>4

LEMMA SamplesAppend ==
  ASSUME NEW fifo \in Seq(FrameType), NEW f \in FrameType
  PROVE  Samples(Append(fifo, f)) = Samples(fifo) + f.nb_samples
<1>1. PICK more \in Seq(FrameType) : more = Append(fifo, f)
  BY AppendProperties
<1>2. PICK s, t, L : /\ s = Sums(fifo) /\ t = Sums(more)
                     /\ L = Len(fifo) /\ L \in Nat
  BY LenProperties
<1>3. /\ Len(more) = L + 1 /\ more[L + 1] = f
      /\ \A k \in 1 .. L : more[k] = fifo[k]
  BY <1>1, <1>2, AppendProperties
<1>4. /\ s \in [0 .. L -> Nat] /\ s[0] = 0
      /\ \A k \in 1 .. L : s[k] = s[k - 1] + fifo[k].nb_samples
  BY <1>2, SumsAre
<1>5. /\ t \in [0 .. L + 1 -> Nat] /\ t[0] = 0
      /\ \A k \in 1 .. L + 1 : t[k] = t[k - 1] + more[k].nb_samples
  BY <1>2, <1>3, SumsAre
<1>6. PICK T : T = {k \in 0 .. L : t[k] = s[k]}
  OBVIOUS
<1>7. T \subseteq 0 .. L /\ 0 \in T
  BY <1>2, <1>4, <1>5, <1>6
<1>8. \A k \in 1 .. L : k - 1 \in T => k \in T
  <2> TAKE k \in 1 .. L
  <2>1. k \in 1 .. L + 1 /\ k \in 0 .. L
    BY <1>2
  <2>2. s[k] = s[k - 1] + fifo[k].nb_samples /\ t[k] = t[k - 1] + fifo[k].nb_samples
    BY <1>3, <1>4, <1>5, <2>1
  <2> QED BY <1>6, <2>1, <2>2
<1>9. T = 0 .. L
  BY ONLY <1>2, <1>7, <1>8, UpTo
<1>10. t[L] = s[L] /\ t[L + 1] = t[L] + f.nb_samples
  <2>1. L \in 0 .. L /\ L + 1 \in 1 .. L + 1 /\ (L + 1) - 1 = L
    BY <1>2
  <2> QED BY <1>3, <1>5, <1>6, <1>9, <2>1
<1> QED BY <1>1, <1>2, <1>3, <1>10 DEF Samples

LEMMA SamplesTail ==
  ASSUME NEW fifo \in Seq(FrameType), fifo # <<>>
  PROVE  Samples(Tail(fifo)) = Samples(fifo) - fifo[1].nb_samples
<1>1. PICK rest \in Seq(FrameType) : rest = Tail(fifo)
  BY HeadTailProperties
<1>2. PICK s, t, L : /\ s = Sums(fifo) /\ t = Sums(rest)
                     /\ L = Len(rest) /\ L \in Nat
  BY LenProperties
<1>3. /\ Len(fifo) = L + 1 /\ \A k \in 1 .. L : rest[k] = fifo[k + 1]
  BY <1>1, <1>2, HeadTailProperties, LenProperties
<1>4. /\ s \in [0 .. L + 1 -> Nat] /\ s[0] = 0
      /\ \A k \in 1 .. L + 1 : s[k] = s[k - 1] + fifo[k].nb_samples
  BY <1>2, <1>3, SumsAre
<1>5. /\ t \in [0 .. L -> Nat] /\ t[0] = 0
      /\ \A k \in 1 .. L : t[k] = t[k - 1] + rest[k].nb_samples
  BY <1>2, SumsAre
<1>0. PICK n : n = fifo[1].nb_samples
  OBVIOUS
<1>01. n \in Nat
  <2>1. fifo[1] \in FrameType
    BY <1>2, <1>3, ElementOfSeq
  <2> QED BY <1>0, <2>1 DEF FrameType
<1>6. PICK T : T = {k \in 0 .. L : t[k] = s[k + 1] - n}
  OBVIOUS
<1>7. T \subseteq 0 .. L /\ 0 \in T
  <2>1. 1 \in 1 .. L + 1 /\ 0 \in 0 .. L /\ 1 - 1 = 0 /\ 0 + 1 = 1
    BY <1>2
  <2>2. s[1] = n
    BY <1>0, <1>01, <1>4, <2>1
  <2> QED BY <1>01, <1>5, <1>6, <2>1, <2>2
<1>8. \A k \in 1 .. L : k - 1 \in T => k \in T
  <2> TAKE k \in 1 .. L
  <2>1. /\ k + 1 \in 1 .. L + 1 /\ k \in 0 .. L /\ (k + 1) - 1 = k /\ (k - 1) + 1 = k
        /\ k - 1 \in 0 .. L /\ k \in 0 .. L + 1
    BY <1>2
  <2>2. PICK m : m = fifo[k + 1].nb_samples
    OBVIOUS
  <2>3. m \in Nat
    <3>1. fifo[k + 1] \in FrameType
      BY <1>3, <2>1, ElementOfSeq
    <3> QED BY <2>2, <3>1 DEF FrameType
  <2>4. s[k + 1] = s[k] + m /\ t[k] = t[k - 1] + m
    BY <1>3, <1>4, <1>5, <2>1, <2>2
  <2>5. s[k] \in Nat /\ t[k - 1] \in Nat
    BY <1>4, <1>5, <2>1
  <2> QED BY <1>01, <1>6, <2>1, <2>3, <2>4, <2>5
<1>9. T = 0 .. L
  BY ONLY <1>2, <1>7, <1>8, UpTo
<1>10. t[L] = s[L + 1] - n
  <2>1. L \in 0 .. L
    BY <1>2
  <2> QED BY <1>6, <1>9, <2>1
<1> QED BY <1>0, <1>1, <1>2, <1>3, <1>10 DEF Samples

LEMMA NoSamples ==
  ASSUME NEW fifo \in Seq(CutFrames), Samples(fifo) = 0
  PROVE  fifo = <<>>
<1>1. SUFFICES ASSUME fifo # <<>> PROVE FALSE
  OBVIOUS
<1>2. fifo \in Seq(FrameType)
  BY SeqMonotonic DEF CutFrames
<1>3. fifo[1] \in CutFrames
  BY <1>1, LenProperties, EmptySeq, ElementOfSeq
<1>4. PICK rest \in Seq(FrameType) : rest = Tail(fifo)
  BY <1>1, <1>2, HeadTailProperties
<1>5. Samples(rest) \in Nat
  BY SamplesNat
<1>6. Samples(rest) = Samples(fifo) - fifo[1].nb_samples
  BY <1>1, <1>2, <1>4, SamplesTail
<1> QED BY <1>3, <1>5, <1>6 DEF CutFrames, FrameType

\* What is left to drop, and what is left of the frames so far.
Rest == {r \in [n : Nat, fifo : Seq(CutFrames)] : r.n # 0 => Samples(r.fifo) = 0}

LEMMA DropFromIs ==
  ASSUME NEW r \in Rest, NEW f \in CutFrames
  PROVE  /\ DropFrom(r, f) \in Rest
         /\ Samples(DropFrom(r, f).fifo) - DropFrom(r, f).n
              = (Samples(r.fifo) - r.n) + f.nb_samples
<1>1. PICK d : d = DropFrom(r, f)
  OBVIOUS
<1>2. PICK b, n, have : b = f.nb_samples /\ n = r.n /\ have = Samples(r.fifo)
  OBVIOUS
<1>3. /\ b \in Nat \ {0} /\ n \in Nat /\ r.fifo \in Seq(CutFrames)
      /\ f.pts \in Nat /\ f.dur = b /\ f \in FrameType
      /\ n # 0 => have = 0
  BY <1>2 DEF CutFrames, FrameType, Rest
<1>4. r.fifo \in Seq(FrameType)
  BY <1>3, SeqMonotonic DEF CutFrames
<1>5. have \in Nat
  BY <1>2, <1>4, SamplesNat
<1>6. CASE b <= n
  <2>1. d.n = n - b /\ d.fifo = r.fifo /\ d = [n |-> n - b, fifo |-> r.fifo]
    BY <1>1, <1>2, <1>6 DEF DropFrom
  <2>2. d \in Rest
    <3>1. d \in [n : Nat, fifo : Seq(CutFrames)]
      BY <1>3, <1>6, <2>1
    <3>2. d.n # 0 => Samples(d.fifo) = 0
      BY <1>2, <1>3, <1>6, <2>1
    <3> QED BY <3>1, <3>2 DEF Rest
  <2> QED BY <1>1, <1>2, <1>3, <1>5, <1>6, <2>1, <2>2
<1>7. CASE ~(b <= n)
  <2>1. PICK c : c = [pts |-> f.pts + n, dur |-> b - n, nb_samples |-> b - n]
    OBVIOUS
  <2>2. c \in CutFrames /\ c \in FrameType /\ c.nb_samples = b - n
    BY <1>3, <1>7, <2>1 DEF CutFrames, FrameType
  <2>3. d.n = 0 /\ d.fifo = Append(r.fifo, c) /\ d = [n |-> 0, fifo |-> Append(r.fifo, c)]
    BY <1>1, <1>2, <1>3, <1>7, <2>1 DEF DropFrom
  <2>4. Append(r.fifo, c) \in Seq(CutFrames)
    BY <1>3, <2>2, AppendProperties
  <2>5. Samples(Append(r.fifo, c)) = have + (b - n)
    BY <1>2, <1>4, <2>2, SamplesAppend
  <2>6. d \in Rest
    BY <2>3, <2>4 DEF Rest
  <2>7. Samples(d.fifo) - d.n = (have - n) + b
    BY <1>3, <1>5, <2>3, <2>5
  <2> QED BY <1>1, <1>2, <2>3, <2>6, <2>7
<1> QED BY <1>6, <1>7

\* Drops goes through the frames one after the other.
LEMMA DropsAre ==
  ASSUME NEW fifo \in Seq(CutFrames), NEW n \in Nat
  PROVE  /\ Drops(fifo, n) \in [0 .. Len(fifo) -> Rest]
         /\ Drops(fifo, n)[0] = [n |-> n, fifo |-> <<>>]
         /\ \A k \in 1 .. Len(fifo) : Drops(fifo, n)[k] = DropFrom(Drops(fifo, n)[k - 1], fifo[k])
<1> DEFINE start == [n |-> n, fifo |-> <<>>]
           h == [x \in Rest \X Nat |-> IF x[2] \in 1 .. Len(fifo)
                                       THEN DropFrom(x[1], fifo[x[2]]) ELSE start]
           Is(d) == d = [k \in 0 .. Len(fifo) |->
                           IF k = 0 THEN start ELSE DropFrom(d[k - 1], fifo[k])]
<1>1. PICK L : L = Len(fifo) /\ L \in Nat
  BY LenProperties
<1>2. \A k \in 1 .. L : fifo[k] \in CutFrames
  BY <1>1, ElementOfSeq
<1>3. start \in Rest
  <2>1. <<>> \in Seq(CutFrames) /\ <<>> \in Seq(FrameType)
    BY EmptySeq
  <2>2. Samples(<<>>) = 0
    BY <2>1, SamplesNat
  <2> QED BY <2>1, <2>2 DEF Rest
<1> HIDE DEF start
<1>4. h \in [Rest \X Nat -> Rest]
  <2>1. \A x \in Rest \X Nat : h[x] \in Rest
    <3> TAKE x \in Rest \X Nat
    <3>1. PICK r, k : r = x[1] /\ k = x[2] /\ r \in Rest
      OBVIOUS
    <3>2. CASE k \in 1 .. L
      <4>1. h[x] = DropFrom(r, fifo[k])
        BY <1>1, <3>1, <3>2
      <4>2. DropFrom(r, fifo[k]) \in Rest
        BY <1>2, <3>1, <3>2, DropFromIs
      <4> QED BY <4>1, <4>2
    <3>3. CASE k \notin 1 .. L
      BY <1>1, <1>3, <3>1, <3>3
    <3> QED BY <3>2, <3>3
  <2>2. h = [x \in Rest \X Nat |-> h[x]]
    OBVIOUS
  <2> HIDE DEF h
  <2> QED BY <2>1, <2>2
<1>5. \A r \in Rest, k \in 1 .. L : h[<<r, k>>] = DropFrom(r, fifo[k])
  <2> TAKE r \in Rest, k \in 1 .. L
  <2>1. <<r, k>> \in Rest \X Nat
    BY <1>1
  <2> QED BY <1>1, <2>1
<1> HIDE DEF h
<1>6. PICK g : Recursive(g, Rest, start, h, L)
  BY ONLY <1>1, <1>3, <1>4, Recursion
<1>7. Is(g)
  <2>1. g \in [0 .. L -> Rest] /\ g[0] = start
    BY <1>6 DEF Recursive
  <2>2. \A k \in 1 .. L : g[k] = DropFrom(g[k - 1], fifo[k])
    <3> TAKE k \in 1 .. L
    <3>1. k - 1 \in 0 .. L
      BY <1>1
    <3>2. g[k] = h[<<g[k - 1], k>>] /\ g[k - 1] \in Rest
      BY <1>6, <2>1, <3>1 DEF Recursive
    <3> QED BY <1>5, <3>2
  <2>3. \A k \in 0 .. L : g[k] = IF k = 0 THEN start ELSE DropFrom(g[k - 1], fifo[k])
    <3> TAKE k \in 0 .. L
    <3>1. k # 0 => k \in 1 .. L
      BY <1>1
    <3> QED BY <2>1, <2>2, <3>1
  <2> QED BY <1>1, <2>1, <2>3
<1>8. Drops(fifo, n) = CHOOSE d : Is(d)
  BY DEF Drops, start
<1>9. Is(Drops(fifo, n))
  BY <1>7, <1>8
<1>10. PICK d : d = Drops(fifo, n)
  OBVIOUS
<1>11. d = [k \in 0 .. L |-> IF k = 0 THEN start ELSE DropFrom(d[k - 1], fifo[k])]
  BY <1>1, <1>9, <1>10
<1>12. 0 \in 0 .. L /\ \A k \in 1 .. L : k # 0 /\ k \in 0 .. L
  BY <1>1
<1>13. d[0] = start /\ \A k \in 1 .. L : d[k] = DropFrom(d[k - 1], fifo[k])
  BY ONLY <1>11, <1>12
<1>14. d = [k \in 0 .. L |-> d[k]]
  BY <1>11
<1>15. d[0] \in Rest /\ \A k \in 1 .. L : d[k - 1] \in Rest => d[k] \in Rest
  BY <1>2, <1>3, <1>13, DropFromIs
<1>16. d \in [0 .. L -> Rest]
  BY ONLY <1>1, <1>14, <1>15, Values
<1> QED BY <1>1, <1>10, <1>13, <1>16 DEF start

\* A fifo from which samples are dropped has as many less.
LEMMA DropIs ==
  ASSUME NEW fifo \in Seq(CutFrames), NEW n \in Nat, n <= Samples(fifo)
  PROVE  Drop(fifo, n) \in Seq(CutFrames) /\ Samples(Drop(fifo, n)) = Samples(fifo) - n
<1>0. fifo \in Seq(FrameType)
  BY SeqMonotonic DEF CutFrames
<1>1. PICK d, s, L : d = Drops(fifo, n) /\ s = Sums(fifo) /\ L = Len(fifo) /\ L \in Nat
  BY LenProperties
<1>2. /\ d \in [0 .. L -> Rest] /\ d[0] = [n |-> n, fifo |-> <<>>]
      /\ \A k \in 1 .. L : d[k] = DropFrom(d[k - 1], fifo[k])
  BY <1>1, DropsAre
<1>3. /\ s \in [0 .. L -> Nat] /\ s[0] = 0
      /\ \A k \in 1 .. L : s[k] = s[k - 1] + fifo[k].nb_samples
  BY <1>0, <1>1, SumsAre
<1>4. PICK T : T = {k \in 0 .. L : Samples(d[k].fifo) - d[k].n = s[k] - n}
  OBVIOUS
<1>5. T \subseteq 0 .. L /\ 0 \in T
  <2>1. 0 \in 0 .. L /\ d[0].n = n /\ d[0].fifo = <<>>
    BY <1>1, <1>2
  <2>2. Samples(<<>>) = 0
    BY EmptySeq, SamplesNat
  <2> QED BY <1>3, <1>4, <2>1, <2>2
<1>6. \A k \in 1 .. L : k - 1 \in T => k \in T
  <2> TAKE k \in 1 .. L
  <2> HAVE k - 1 \in T
  <2>1. k - 1 \in 0 .. L /\ k \in 0 .. L
    BY <1>1
  <2>2. PICK r, f : r = d[k - 1] /\ f = fifo[k]
    OBVIOUS
  <2>3. r \in Rest /\ f \in CutFrames
    BY <1>1, <1>2, <2>1, <2>2, ElementOfSeq
  <2>4. Samples(DropFrom(r, f).fifo) - DropFrom(r, f).n = (Samples(r.fifo) - r.n) + f.nb_samples
    BY <2>3, DropFromIs
  <2>5. Samples(r.fifo) - r.n = s[k - 1] - n
    BY <1>4, <2>1, <2>2
  <2>6. s[k] = s[k - 1] + f.nb_samples /\ s[k - 1] \in Nat /\ f.nb_samples \in Nat
    BY <1>3, <2>1, <2>2, <2>3 DEF CutFrames, FrameType
  <2>7. d[k] = DropFrom(r, f)
    BY <1>2, <2>2
  <2>8. Samples(d[k].fifo) - d[k].n = s[k] - n
    BY <2>4, <2>5, <2>6, <2>7
  <2> QED BY <1>4, <2>1, <2>8
<1>7. T = 0 .. L
  BY ONLY <1>1, <1>5, <1>6, UpTo
<1>8. L \in 0 .. L
  BY <1>1
<1>9. PICK r : r = d[L]
  OBVIOUS
<1>10. /\ r \in Rest /\ s[L] \in Nat /\ s[L] = Samples(fifo) /\ r.fifo = Drop(fifo, n)
       /\ Samples(r.fifo) - r.n = s[L] - n
  BY <1>1, <1>2, <1>3, <1>4, <1>7, <1>8, <1>9 DEF Samples, Drop
<1>11. r.n \in Nat /\ r.fifo \in Seq(CutFrames) /\ (r.n # 0 => Samples(r.fifo) = 0)
  BY <1>10 DEF Rest
<1>12. r.fifo \in Seq(FrameType)
  BY <1>11, SeqMonotonic DEF CutFrames
<1>13. Samples(r.fifo) \in Nat
  BY <1>12, SamplesNat
<1>14. Samples(r.fifo) = s[L] - n
  BY <1>10, <1>11, <1>13
<1> QED BY <1>10, <1>11, <1>14

\* All frames end at h at the latest.
EndsBy(fifo, h) == \A k \in 1 .. Len(fifo) : FrameEnd(fifo[k], 0) <= h

LEMMA EndsAppend ==
  ASSUME NEW fifo \in Seq(FrameType), NEW f \in FrameType, NEW h,
         EndsBy(fifo, h), FrameEnd(f, 0) <= h
  PROVE  EndsBy(Append(fifo, f), h)
<1>1. PICK more, L : more = Append(fifo, f) /\ L = Len(fifo) /\ L \in Nat
  BY LenProperties
<1>2. Len(more) = L + 1 /\ more[L + 1] = f /\ \A k \in 1 .. L : more[k] = fifo[k]
  BY <1>1, AppendProperties
<1>3. ASSUME NEW k \in 1 .. L + 1 PROVE FrameEnd(more[k], 0) <= h
  <2>1. CASE k = L + 1
    BY <1>2, <2>1
  <2>2. CASE k # L + 1
    <3>1. k \in 1 .. L
      BY <1>1, <2>2
    <3> QED BY <1>1, <1>2, <3>1 DEF EndsBy
  <2> QED BY <2>1, <2>2
<1> QED BY <1>1, <1>2, <1>3 DEF EndsBy

\* What is left of frames ends when they do.
LEMMA DropEnds ==
  ASSUME NEW fifo \in Seq(CutFrames), NEW n \in Nat, NEW h, EndsBy(fifo, h)
  PROVE  EndsBy(Drop(fifo, n), h)
<1>1. PICK d, L : d = Drops(fifo, n) /\ L = Len(fifo) /\ L \in Nat
  BY LenProperties
<1>2. /\ d \in [0 .. L -> Rest] /\ d[0] = [n |-> n, fifo |-> <<>>]
      /\ \A k \in 1 .. L : d[k] = DropFrom(d[k - 1], fifo[k])
  BY <1>1, DropsAre
<1>3. PICK T : T = {k \in 0 .. L : EndsBy(d[k].fifo, h)}
  OBVIOUS
<1>4. T \subseteq 0 .. L /\ 0 \in T
  <2>1. 0 \in 0 .. L /\ d[0].fifo = <<>>
    BY <1>1, <1>2
  <2>2. EndsBy(<<>>, h)
    <3>1. Len(<<>>) = 0
      BY EmptySeq
    <3> QED BY <3>1 DEF EndsBy
  <2> QED BY <1>3, <2>1, <2>2
<1>5. \A k \in 1 .. L : k - 1 \in T => k \in T
  <2> TAKE k \in 1 .. L
  <2> HAVE k - 1 \in T
  <2>1. k - 1 \in 0 .. L /\ k \in 0 .. L
    BY <1>1
  <2>2. PICK r, f : r = d[k - 1] /\ f = fifo[k] /\ d[k] = DropFrom(r, f)
    BY <1>2
  <2>3. r \in Rest /\ f \in CutFrames /\ EndsBy(r.fifo, h) /\ FrameEnd(f, 0) <= h
    BY <1>1, <1>2, <1>3, <2>1, <2>2, ElementOfSeq DEF EndsBy
  <2>4. EndsBy(DropFrom(r, f).fifo, h)
    <3>1. CASE f.nb_samples <= r.n
      BY <2>3, <3>1 DEF DropFrom
    <3>2. CASE ~(f.nb_samples <= r.n)
      <4>1. PICK m \in Nat, b \in Nat, g \in Nat :
              m = r.n /\ b = f.nb_samples /\ g = f.pts /\ f.dur = b
        BY <2>3 DEF Rest, CutFrames, FrameType
      <4>2. PICK c : c = [pts |-> f.pts + m, dur |-> b - m, nb_samples |-> b - m]
        OBVIOUS
      <4>3. c \in FrameType /\ FrameEnd(c, 0) = FrameEnd(f, 0)
        <5>1. PICK x, y : x = g + m /\ y = b - m
          OBVIOUS
        <5>2. x \in Nat /\ y \in Nat /\ x + y = g + b
          <6>1. ~(b <= m)
            BY <3>2, <4>1
          <6> QED BY ONLY m \in Nat, b \in Nat, g \in Nat, <5>1, <6>1
        <5>3. c = [pts |-> x, dur |-> y, nb_samples |-> y]
          BY <4>1, <4>2, <5>1, Zenon
        <5>4. c \in FrameType /\ c.pts = x /\ c.dur = y
          BY ONLY <5>2, <5>3 DEF FrameType
        <5>5. FrameEnd(c, 0) = x + y
          BY ONLY <5>2, <5>4 DEF FrameEnd
        <5>6. FrameEnd(f, 0) = g + b
          BY <4>1 DEF FrameEnd
        <5> QED BY <5>2, <5>4, <5>5, <5>6, Zenon
      <4>4. DropFrom(r, f).fifo = Append(r.fifo, c)
        BY <3>2, <4>1, <4>2 DEF DropFrom
      <4>5. r.fifo \in Seq(FrameType)
        <5>1. r.fifo \in Seq(CutFrames)
          BY <2>3 DEF Rest
        <5> QED BY <5>1, SeqMonotonic DEF CutFrames
      <4> QED BY <2>3, <4>3, <4>4, <4>5, EndsAppend
    <3> QED BY <3>1, <3>2
  <2> QED BY <1>3, <2>1, <2>2, <2>4
<1>6. T = 0 .. L
  BY ONLY <1>1, <1>4, <1>5, UpTo
<1>7. L \in T
  BY <1>1, <1>6
<1> QED BY <1>1, <1>3, <1>7 DEF Drop
-----------------------------------------------------------------------------
(* Numbers *)

LEMMA NoTimestamp == NOPTS \in Int /\ NOPTS \notin Nat
BY SyncAssumption DEF NOPTS

LEMMA MaxOfTwo ==
  ASSUME NEW a \in Int, NEW b \in Int
  PROVE  Max({a, b}) = IF a >= b THEN a ELSE b
<1>1. Max({a, b}) \in {a, b} /\ \A y \in {a, b} : Max({a, b}) >= y
  <2>1. \E x \in {a, b} : \A y \in {a, b} : x >= y
    BY SMT
  <2> QED BY <2>1 DEF Max
<1> QED BY <1>1

LEMMA MinOfTwo ==
  ASSUME NEW a \in Int, NEW b \in Int
  PROVE  Min({a, b}) = IF a <= b THEN a ELSE b
<1>1. Min({a, b}) \in {a, b} /\ \A y \in {a, b} : Min({a, b}) <= y
  <2>1. \E x \in {a, b} : \A y \in {a, b} : x <= y
    BY SMT
  <2> QED BY <2>1 DEF Min
<1> QED BY <1>1

\* A set of numbers has a least one.
LEMMA LeastOf ==
  ASSUME NEW S, S \subseteq Nat, S # {}
  PROVE  Min(S) \in S /\ \A m \in S : Min(S) <= m
<1>1. PICK k \in S : \A m \in S : <<m, k>> \notin OpToRel(<, Nat)
  BY NatLessThanWellFounded, WFMin
<1>2. \A m \in S : ~(m < k)
  BY <1>1 DEF OpToRel
<1>3. \A m \in S : k <= m
  BY <1>2
<1> QED BY <1>3 DEF Min

LEMMA Products ==
  ASSUME NEW a \in Int, NEW b \in Int, NEW t \in Nat \ {0}
  PROVE  a * t \in Int /\ (a <= b => a * t <= b * t)
OBVIOUS

LEMMA Quotient ==
  ASSUME NEW a \in Nat, NEW b \in Nat, NEW m \in Nat \ {0}, b < m
  PROVE  (a * m + b) \div m = a
OBVIOUS

\* What is rescaled of a number of units is one.
LEMMA RescaleNat ==
  ASSUME NEW ts \in Nat, NEW from \in Nat \ {0}, NEW to \in Nat \ {0}
  PROVE  Rescale(ts, from, to) \in Nat
<1>1. PICK x, m : x = 2 * ts * from + to /\ m = 2 * to
  OBVIOUS
<1>2. x \in Nat /\ m \in Nat \ {0}
  BY <1>1
<1>3. Rescale(ts, from, to) = x \div m
  BY <1>1 DEF Rescale
<1>4. x \div m \in Nat
  BY <1>2
<1> QED BY <1>3, <1>4

\* What is rescaled falls short by less than a unit.
LEMMA RescaleNear ==
  ASSUME NEW ts \in Nat, NEW from \in Nat \ {0}, NEW to \in Nat \ {0}
  PROVE  Rescale(ts, from, to) * to + to > ts * from
<1>1. PICK x, m, g : x = 2 * ts * from + to /\ m = 2 * to /\ g = ts * from
  OBVIOUS
<1>2. x \in Nat /\ m \in Nat \ {0} /\ g \in Nat /\ x = 2 * g + to
  BY <1>1
<1>3. PICK d : d = x \div m /\ d = Rescale(ts, from, to)
  BY <1>1 DEF Rescale
<1>4. d \in Nat
  BY <1>3, RescaleNat
<1>5. x < d * m + m
  BY <1>2, <1>3
<1>6. PICK e : e = d * to /\ e \in Nat /\ d * m = 2 * e
  BY <1>1, <1>4
<1>7. 2 * g + to < 2 * e + 2 * to
  BY <1>1, <1>2, <1>5, <1>6
<1>8. e + to > g
  BY <1>2, <1>6, <1>7
<1> QED BY <1>1, <1>3, <1>6, <1>8

\* A timestamp is expressed exactly in a unit that divides its own.
Multiple(from, to) == \E k \in Nat : from = k * to

LEMMA ExactRescale ==
  ASSUME NEW ts \in Nat, NEW from \in Nat \ {0}, NEW to \in Nat \ {0}, Multiple(from, to)
  PROVE  Rescale(ts, from, to) * to = ts * from
<1>0. PICK k \in Nat : from = k * to
  BY DEF Multiple
<1>1. PICK a, m : a = ts * k /\ m = 2 * to
  OBVIOUS
<1>2. a \in Nat /\ m \in Nat \ {0} /\ to < m
  BY <1>1
<1>3. 2 * ts * from + to = a * m + to
  BY <1>0, <1>1
<1>4. Rescale(ts, from, to) = (a * m + to) \div m
  BY <1>1, <1>3 DEF Rescale
<1>5. (a * m + to) \div m = a
  BY <1>2, Quotient
<1>6. a * to = ts * from
  BY <1>0, <1>1
<1> QED BY <1>4, <1>5, <1>6
-----------------------------------------------------------------------------
(* The setup and the queue *)

Setting ==
  /\ setup.nb_streams \in Nat \ {0}
  /\ Limiting \in [Streams -> BOOLEAN]
  /\ FramesMax \in [Streams -> Nat \cup {NoLimit}]
  /\ FrameSamples \in [Streams -> Nat]
  /\ Tick \in [Streams -> Nat \ {0}]
  /\ setup.gaps \subseteq Int /\ setup.durs \subseteq Nat
  /\ \A i \in Streams : FrameSamples[i] # 0 => 0 \notin setup.durs

LEMMA SettingIs == ASSUME setup \in Setups PROVE Setting
BY SyncAssumption DEF Setting, Streams, Limiting, FramesMax, FrameSamples, Tick

LEMMA StreamsAre ==
  ASSUME Setting
  PROVE  Streams \subseteq Nat /\ Streams = 0 .. setup.nb_streams - 1 /\ Streams # {}
<1>1. PICK n \in Nat : n = setup.nb_streams /\ n # 0
  BY DEF Setting
<1>2. 0 .. n - 1 \subseteq Nat /\ 0 \in 0 .. n - 1
  BY ONLY <1>1
<1> QED BY <1>1, <1>2 DEF Streams

StreamType ==
  [fifo : Seq(FrameType), tick : Nat \ {0}, samples_queued : Int, head_ts : Nat \cup {NOPTS},
   finished : BOOLEAN, frames_sent : Nat, samples_sent : Nat,
   frames_max : Nat \cup {NoLimit}, frame_samples : Nat]

\* The queues of the streams D.
Queue(D) == [finished : BOOLEAN, head_stream : {None} \cup D,
             head_finished_stream : {None} \cup D, st : [D -> StreamType]]

\* What there is of a stream besides its head and its end.
SameContents(s, t) ==
  /\ t.fifo = s.fifo /\ t.tick = s.tick /\ t.samples_queued = s.samples_queued
  /\ t.frames_sent = s.frames_sent /\ t.samples_sent = s.samples_sent
  /\ t.frames_max = s.frames_max /\ t.frame_samples = s.frame_samples

\* From queue q to queue r the streams D have only got ahead or ended.
Later(D, q, r) ==
  /\ \A j \in D : /\ SameContents(q.st[j], r.st[j])
                  /\ q.st[j].finished => r.st[j].finished
                  /\ q.st[j].head_ts # NOPTS =>
                       r.st[j].head_ts # NOPTS /\ q.st[j].head_ts <= r.st[j].head_ts
  /\ q.finished => r.finished
  /\ r.finished => q.finished \/ \A j \in D : r.st[j].finished

\* The stream that was kept as the one whose end counts: of the limiting streams
\* that are finished it is least ahead, and what is ahead of it is finished too.
\* (While stream i is being updated it may be ahead of it unfinished.)
EndsBut(D, q, i) ==
  LET hf == q.head_finished_stream
  IN  IF hf = None
      THEN \A j \in D : ~(Limiting[j] /\ q.st[j].finished /\ Timed(q, j))
      ELSE /\ Limiting[hf] /\ q.st[hf].finished /\ Timed(q, hf)
           /\ \A j \in D : Limiting[j] /\ q.st[j].finished /\ Timed(q, j)
                             => HeadTime(q, hf) <= HeadTime(q, j)
           /\ \A j \in D \ {i} : Timed(q, j) /\ HeadTime(q, hf) <= HeadTime(q, j)
                                   => q.st[j].finished

Ends(D, q) == EndsBut(D, q, None)

\* The head stream is the limiting one that is least ahead.
Lowest(D, q) ==
  LET lim == {j \in D : Limiting[j]}
  IN  IF q.head_stream = None
      THEN lim = {} \/ \E j \in lim : ~Timed(q, j)
      ELSE /\ q.head_stream \in lim
           /\ \A j \in lim : Timed(q, j) /\ HeadTime(q, q.head_stream) <= HeadTime(q, j)

Ordered(D, q) == Ends(D, q) /\ Lowest(D, q)

\* The type of what a stream of the queue has.
LEMMA StreamIs ==
  ASSUME NEW D, NEW q \in Queue(D), NEW j \in D
  PROVE  /\ q.st[j].samples_queued \in Int /\ q.st[j].samples_sent \in Nat
         /\ q.st[j].frames_sent \in Nat /\ q.st[j].fifo \in Seq(FrameType)
         /\ Len(q.st[j].fifo) \in Nat
         /\ q.st[j].head_ts \in Int /\ q.st[j].head_ts \in Nat \cup {NOPTS}
         /\ q.st[j].finished \in BOOLEAN /\ q.st[j].tick \in Nat \ {0}
<1>1. PICK s \in StreamType : s = q.st[j]
  BY DEF Queue
<1>2. s.fifo \in Seq(FrameType)
  BY DEF StreamType
<1>3. Len(s.fifo) \in Nat
  BY <1>2, LenProperties
<1>4. s.head_ts \in Int
  BY NoTimestamp DEF StreamType
<1> QED BY <1>1, <1>2, <1>3, <1>4 DEF StreamType

LEMMA HeadTimeInt ==
  ASSUME NEW D, NEW q \in Queue(D), NEW j \in D
  PROVE  HeadTime(q, j) \in Int
<1>1. PICK a, t : a = q.st[j].head_ts /\ t = q.st[j].tick
  OBVIOUS
<1>2. q.st[j] \in StreamType
  BY DEF Queue
<1>3. a \in Int /\ t \in Nat \ {0}
  BY <1>1, <1>2, NoTimestamp DEF StreamType
<1>4. a * t \in Int
  BY <1>3, Products
<1> QED BY <1>1, <1>4 DEF HeadTime, Time

\* From queue q to queue r stream i has ended, and others with it.
Ended(D, q, i, r) ==
  /\ r \in Queue(D) /\ Later(D, q, r)
  /\ r.head_stream = q.head_stream
  /\ r.st[i].finished /\ ((\A j \in D : r.st[j].finished) => r.finished)
  /\ \A j \in D : r.st[j].head_ts = q.st[j].head_ts
  /\ ~Timed(q, i) => \A j \in D : j # i /\ r.st[j].finished => q.st[j].finished
  /\ EndsBut(D, q, i) => Ends(D, r)

\* What finish_stream() does.
LEMMA FinishStreamIs ==
  ASSUME NEW D, NEW q \in Queue(D), NEW i \in D, D \subseteq Nat, Limiting \in [Streams -> BOOLEAN],
         D \subseteq Streams
  PROVE  Ended(D, q, i, FinishStream(q, i))
<1>1. PICK hq : hq = q.head_finished_stream
  OBVIOUS
<1>2. PICK ends \in BOOLEAN : ends = (Limiting[i] /\ Timed(q, i))
  BY DEF Timed
<1>3. PICK hf : hf = IF ends /\ (hq = None \/ HeadTime(q, i) < HeadTime(q, hq)) THEN i ELSE hq
  OBVIOUS
<1>4. PICK ahead : ahead = IF ends THEN {j \in D \ {hf} : Timed(q, j)
                                               /\ HeadTime(q, hf) <= HeadTime(q, j)}
                                   ELSE {}
  OBVIOUS
<1>5. PICK st : st = [j \in D |-> [q.st[j] EXCEPT !.finished = @ \/ j = i \/ j \in ahead]]
  OBVIOUS
<1>6. PICK r : r = FinishStream(q, i)
  OBVIOUS
<1>7. DOMAIN q.st = D /\ q.st \in [D -> StreamType] /\ hq \in {None} \cup D
  BY <1>1 DEF Queue
<1>8. r = [q EXCEPT !.st = st, !.head_finished_stream = hf,
                    !.finished = @ \/ \A j \in D : st[j].finished]
  <2>1. DOMAIN st = D
    BY <1>5
  <2> QED BY <1>1, <1>2, <1>3, <1>4, <1>5, <1>6, <1>7, <2>1 DEF FinishStream
<1>9. ASSUME NEW j \in D
      PROVE  /\ st[j] \in StreamType /\ SameContents(q.st[j], st[j])
             /\ st[j].head_ts = q.st[j].head_ts
             /\ st[j].finished = (q.st[j].finished \/ j = i \/ j \in ahead)
  <2>1. PICK s, t, b : s = q.st[j] /\ t = st[j] /\ b = (s.finished \/ j = i \/ j \in ahead)
    OBVIOUS
  <2>2. s \in StreamType /\ b \in BOOLEAN
    BY <1>7, <2>1 DEF StreamType
  <2>3. t = [s EXCEPT !.finished = b]
    BY <1>5, <2>1
  <2>4. t \in StreamType /\ t.finished = b /\ SameContents(s, t) /\ t.head_ts = s.head_ts
    BY ONLY <2>2, <2>3 DEF StreamType, SameContents
  <2> QED BY <2>1, <2>4
<1>10. st \in [D -> StreamType] /\ hf \in {None} \cup D /\ q.finished \in BOOLEAN
  BY <1>3, <1>5, <1>7, <1>9 DEF Queue
<1>11. /\ r \in Queue(D) /\ r.head_stream = q.head_stream /\ r.st = st
       /\ r.head_finished_stream = hf
       /\ r.finished = (q.finished \/ \A j \in D : st[j].finished)
  <2>1. PICK b : b = (q.finished \/ \A j \in D : st[j].finished)
    OBVIOUS
  <2>2. b \in BOOLEAN
    BY <2>1
  <2>3. r = [q EXCEPT !.st = st, !.head_finished_stream = hf, !.finished = b]
    BY <1>8, <2>1
  <2>4. /\ r \in Queue(D) /\ r.head_stream = q.head_stream /\ r.st = st
        /\ r.head_finished_stream = hf /\ r.finished = b
    BY ONLY <2>2, <2>3, <1>10, q \in Queue(D) DEF Queue
  <2> QED BY <2>1, <2>4
<1>12. Later(D, q, r)
  <2>1. \A j \in D : q.st[j].head_ts \in Int
    BY StreamIs
  <2>2. ASSUME NEW j \in D
        PROVE  /\ SameContents(q.st[j], r.st[j])
               /\ q.st[j].finished => r.st[j].finished
               /\ q.st[j].head_ts # NOPTS =>
                    r.st[j].head_ts # NOPTS /\ q.st[j].head_ts <= r.st[j].head_ts
    <3>1. /\ SameContents(q.st[j], r.st[j]) /\ r.st[j].head_ts = q.st[j].head_ts
          /\ r.st[j].finished = (q.st[j].finished \/ j = i \/ j \in ahead)
      BY <1>9, <1>11
    <3>2. q.st[j].head_ts # NOPTS =>
            r.st[j].head_ts # NOPTS /\ q.st[j].head_ts <= r.st[j].head_ts
      <4>1. PICK a : a = q.st[j].head_ts /\ a = r.st[j].head_ts
        BY <3>1
      <4>2. a \in Int
        BY <2>1, <4>1
      <4> QED BY ONLY <4>1, <4>2
    <3>3. q.st[j].finished => r.st[j].finished
      BY <3>1
    <3> QED BY <3>1, <3>2, <3>3
  <2>3. /\ q.finished => r.finished
        /\ r.finished => q.finished \/ \A j \in D : r.st[j].finished
    BY <1>11
  <2> QED BY <2>2, <2>3 DEF Later
<1>13. r.st[i].finished /\ ((\A j \in D : r.st[j].finished) => r.finished)
  BY <1>9, <1>11
<1>14. \A j \in D : r.st[j].head_ts = q.st[j].head_ts
  BY <1>9, <1>11
<1>15. ASSUME ~Timed(q, i), NEW j \in D, j # i, r.st[j].finished PROVE q.st[j].finished
  <2>1. ahead = {}
    BY <1>2, <1>4, <1>15
  <2> QED BY <1>9, <1>11, <1>15, <2>1
<1>16. ASSUME EndsBut(D, q, i) PROVE Ends(D, r)
  <2>1. PICK H, timed, fin, fin2 :
          /\ H = [j \in D |-> HeadTime(q, j)] /\ timed = {j \in D : Timed(q, j)}
          /\ fin = {j \in D : q.st[j].finished} /\ fin2 = {j \in D : r.st[j].finished}
    OBVIOUS
  <2>2. H \in [D -> Int]
    BY <2>1, HeadTimeInt
  <2>3. \A j \in D : HeadTime(r, j) = H[j] /\ (Timed(r, j) <=> j \in timed)
    BY <1>9, <1>11, <2>1 DEF HeadTime, Time, Timed, SameContents
  <2>4. None \notin D
    BY DEF None
  <2>5. /\ i \in fin2 /\ fin \subseteq fin2
        /\ \A j \in D : j \in fin2 <=> j \in fin \/ j = i \/ j \in ahead
    BY <1>9, <1>11, <2>1
  <2>6. IF hq = None
        THEN \A j \in D : ~(Limiting[j] /\ j \in fin /\ j \in timed)
        ELSE /\ hq \in D /\ Limiting[hq] /\ hq \in fin /\ hq \in timed
             /\ \A j \in D : Limiting[j] /\ j \in fin /\ j \in timed => H[hq] <= H[j]
             /\ \A j \in D \ {i} : j \in timed /\ H[hq] <= H[j] => j \in fin
    <3>1. CASE hq = None
      BY <1>1, <1>16, <2>1, <3>1 DEF EndsBut
    <3>2. CASE hq # None
      BY <1>1, <1>7, <1>16, <2>1, <3>2 DEF EndsBut
    <3> QED BY <3>1, <3>2
  <2>7. ends <=> Limiting[i] /\ i \in timed
    BY <1>2, <2>1
  <2>8. SUFFICES
        IF hf = None
        THEN \A j \in D : ~(Limiting[j] /\ j \in fin2 /\ j \in timed)
        ELSE /\ hf \in D /\ Limiting[hf] /\ hf \in fin2 /\ hf \in timed
             /\ \A j \in D : Limiting[j] /\ j \in fin2 /\ j \in timed => H[hf] <= H[j]
             /\ \A j \in D : j \in timed /\ H[hf] <= H[j] => j \in fin2
    <3>1. CASE hf = None
      BY <1>11, <2>1, <2>3, <2>8, <3>1 DEF Ends, EndsBut
    <3>2. CASE hf # None
      BY <1>11, <2>1, <2>3, <2>4, <2>8, <3>2 DEF Ends, EndsBut
    <3> QED BY <3>1, <3>2
  <2>9. CASE ends
    <3>1. hf \in D /\ hf = IF hq = None \/ H[i] < H[hq] THEN i ELSE hq
      <4>1. CASE hq = None
        BY <1>3, <2>9, <4>1
      <4>2. CASE hq # None
        <5>1. HeadTime(q, i) = H[i] /\ HeadTime(q, hq) = H[hq] /\ hq \in D
          BY <1>7, <2>1, <4>2
        <5> QED BY <1>3, <2>9, <4>2, <5>1
      <4> QED BY <4>1, <4>2
    <3>2. \A j \in D : j \in ahead <=> j # hf /\ j \in timed /\ H[hf] <= H[j]
      BY <1>4, <2>1, <2>9, <3>1
    <3>3. CASE hq = None \/ H[i] < H[hq]
      <4>1. hf = i
        BY <3>1, <3>3
      <4>2. \A j \in D : Limiting[j] /\ j \in fin2 /\ j \in timed => H[i] <= H[j]
        <5> SUFFICES ASSUME NEW j \in D, Limiting[j], j \in fin2, j \in timed
                     PROVE  H[i] <= H[j]
          OBVIOUS
        <5>1. H[i] \in Int /\ H[j] \in Int
          BY <2>2
        <5>2. CASE j \in fin
          <6>1. hq # None /\ hq \in D /\ H[hq] <= H[j] /\ H[hq] \in Int
            BY <2>2, <2>6, <5>2
          <6> QED BY <3>3, <5>1, <6>1
        <5>3. CASE j \notin fin
          BY <2>5, <3>2, <4>1, <5>1, <5>3
        <5> QED BY <5>2, <5>3
      <4> QED BY <2>4, <2>5, <2>7, <2>9, <3>2, <4>1, <4>2
    <3>4. CASE ~(hq = None \/ H[i] < H[hq])
      <4>1. hf = hq /\ hq \in D /\ hq # None /\ H[hq] <= H[i]
        BY <2>2, <2>6, <3>1, <3>4
      <4>2. \A j \in D : Limiting[j] /\ j \in fin2 /\ j \in timed => H[hq] <= H[j]
        BY <2>5, <2>6, <3>2, <4>1
      <4> QED BY <2>5, <2>6, <3>2, <4>1, <4>2
    <3> QED BY <3>3, <3>4
  <2>10. CASE ~ends
    <3>1. hf = hq /\ ahead = {}
      BY <1>3, <1>4, <2>10
    <3>2. \A j \in D : j \in fin2 <=> j \in fin \/ j = i
      BY <2>5, <3>1
    <3>3. CASE hq = None
      BY <2>6, <2>7, <2>10, <3>1, <3>2, <3>3
    <3>4. CASE hq # None
      BY <2>6, <2>7, <2>10, <3>1, <3>2, <3>4
    <3> QED BY <3>3, <3>4
  <2> QED BY <2>9, <2>10
<1> QED BY <1>6, <1>11, <1>12, <1>13, <1>14, <1>15, <1>16 DEF Ended

\* Only the head stream changes, and it is the lowest one then.
LEMMA QueueHeadUpdateIs ==
  ASSUME Setting, NEW q \in Queue(Streams), NEW i \in Streams, Limiting[i], Timed(q, i)
  PROVE  LET r == QueueHeadUpdate(q)
         IN  /\ r \in Queue(Streams) /\ r.st = q.st /\ r.finished = q.finished
             /\ r.head_finished_stream = q.head_finished_stream
             /\ (q.head_stream # None => \A j \in Streams : Limiting[j] => Timed(q, j))
                  => Lowest(Streams, r)
<1>1. PICK lim, timed, H :
        /\ lim = {j \in Streams : Limiting[j]} /\ timed = {j \in Streams : Timed(q, j)}
        /\ H = [j \in Streams |-> HeadTime(q, j)]
  OBVIOUS
<1>2. PICK lowest : lowest = {j \in lim : j \in timed /\ \A k \in lim : k \in timed => H[j] <= H[k]}
  OBVIOUS
<1>3. PICK r : r = QueueHeadUpdate(q)
  OBVIOUS
<1>4. DOMAIN q.st = Streams /\ q.head_stream \in {None} \cup Streams
  BY DEF Queue
<1>5. Streams \subseteq Nat /\ None \notin Streams
  BY StreamsAre DEF None
<1>6. r = IF q.head_stream \in lowest \/ (q.head_stream = None /\ \E j \in lim : j \notin timed)
          THEN q ELSE [q EXCEPT !.head_stream = Min(lowest)]
  <2>1. lowest = {j \in lim : /\ Timed(q, j)
                              /\ \A k \in lim : Timed(q, k) => HeadTime(q, j) <= HeadTime(q, k)}
    BY <1>1, <1>2
  <2>2. (\E j \in lim : j \notin timed) <=> \E j \in lim : ~Timed(q, j)
    BY <1>1
  <2>3. lim = {j \in DOMAIN q.st : Limiting[j]}
    BY <1>1, <1>4
  <2> QED BY <1>3, <2>1, <2>2, <2>3 DEF QueueHeadUpdate
<1>7. \A j \in timed : H[j] \in Nat
  <2> SUFFICES ASSUME NEW j \in Streams, Timed(q, j) PROVE HeadTime(q, j) \in Nat
    BY <1>1
  <2>1. PICK a, t : a = q.st[j].head_ts /\ t = q.st[j].tick
    OBVIOUS
  <2>2. q.st[j] \in StreamType
    BY DEF Queue
  <2>3. a \in Nat /\ t \in Nat
    BY <2>1, <2>2 DEF StreamType, Timed
  <2>4. a * t \in Nat
    BY <2>3
  <2> QED BY <2>1, <2>4 DEF HeadTime, Time
<1>8. lowest # {} /\ Min(lowest) \in lowest
  <2>1. PICK S : S = {H[j] : j \in lim \cap timed}
    OBVIOUS
  <2>2. S \subseteq Nat /\ S # {}
    BY <1>1, <1>7, <2>1
  <2>3. PICK m : m \in S /\ \A n \in S : m <= n
    BY <2>2, LeastOf
  <2>4. PICK j \in lim \cap timed : m = H[j]
    BY <2>1, <2>3
  <2>5. j \in lowest
    BY <1>2, <2>1, <2>3, <2>4
  <2>6. lowest \subseteq Nat
    BY <1>1, <1>2, <1>5
  <2> QED BY <2>5, <2>6, LeastOf
<1>9. PICK h : h = IF q.head_stream \in lowest
                      \/ (q.head_stream = None /\ \E j \in lim : j \notin timed)
                   THEN q.head_stream ELSE Min(lowest)
  OBVIOUS
<1>10. h \in {None} \cup Streams
  BY <1>1, <1>2, <1>4, <1>8, <1>9
<1>11. r = [q EXCEPT !.head_stream = h]
  <2>1. CASE h = q.head_stream
    <3>1. q = [q EXCEPT !.head_stream = q.head_stream]
      BY DEF Queue
    <3>2. r = q \/ r = [q EXCEPT !.head_stream = h]
      BY <1>6, <1>9
    <3> QED BY <2>1, <3>1, <3>2
  <2>2. CASE h # q.head_stream
    BY <1>6, <1>9, <2>2
  <2> QED BY <2>1, <2>2
<1>12. /\ r \in Queue(Streams) /\ r.st = q.st /\ r.finished = q.finished
       /\ r.head_finished_stream = q.head_finished_stream /\ r.head_stream = h
  BY ONLY <1>10, <1>11, q \in Queue(Streams) DEF Queue
<1>13. ASSUME q.head_stream # None => \A j \in Streams : Limiting[j] => Timed(q, j)
       PROVE  Lowest(Streams, r)
  <2>1. \A j \in Streams : HeadTime(r, j) = H[j] /\ (Timed(r, j) <=> j \in timed)
    BY <1>1, <1>12 DEF HeadTime, Time, Timed
  <2>2. q.head_stream # None => lim \subseteq timed
    BY <1>1, <1>13
  <2>3. IF h = None THEN \E j \in lim : j \notin timed
        ELSE h \in lim /\ \A j \in lim : j \in timed /\ H[h] <= H[j]
    <3>1. CASE q.head_stream = None /\ \E j \in lim : j \notin timed
      BY <1>1, <1>2, <1>5, <1>9, <3>1
    <3>2. CASE ~(q.head_stream = None /\ \E j \in lim : j \notin timed)
      <4>1. h \in lowest
        BY <1>8, <1>9, <3>2
      <4>2. lim \subseteq timed
        BY <2>2, <3>2
      <4>3. h \in lim /\ h # None /\ \A k \in lim : k \in timed /\ H[h] <= H[k]
        BY <1>1, <1>2, <1>5, <4>1, <4>2
      <4> QED BY <4>3
    <3> QED BY <3>1, <3>2
  <2>4. CASE h = None
    BY <1>1, <1>12, <2>1, <2>3, <2>4 DEF Lowest
  <2>5. CASE h # None
    BY <1>1, <1>12, <2>1, <2>3, <2>5 DEF Lowest
  <2> QED BY <2>4, <2>5
<1> QED BY <1>3, <1>12, <1>13

\* A queue is later than itself, and being later is transitive.
LEMMA LaterSame ==
  ASSUME NEW D, NEW q \in Queue(D)
  PROVE  Later(D, q, q)
<1>1. \A j \in D : q.st[j].head_ts \in Int
  BY NoTimestamp DEF Queue, StreamType
<1>2. \A j \in D : SameContents(q.st[j], q.st[j])
  BY DEF SameContents
<1>3. \A j \in D : q.st[j].head_ts <= q.st[j].head_ts
  BY <1>1
<1> QED BY <1>2, <1>3, Zenon DEF Later

LEMMA LaterLater ==
  ASSUME NEW D, NEW p \in Queue(D), NEW q \in Queue(D), NEW r \in Queue(D),
         Later(D, p, q), Later(D, q, r)
  PROVE  Later(D, p, r)
<1>1. ASSUME NEW j \in D
      PROVE  /\ SameContents(p.st[j], r.st[j])
             /\ p.st[j].finished => r.st[j].finished
             /\ q.st[j].finished => r.st[j].finished
             /\ p.st[j].head_ts # NOPTS =>
                  r.st[j].head_ts # NOPTS /\ p.st[j].head_ts <= r.st[j].head_ts
  <2>1. SameContents(p.st[j], r.st[j])
    BY DEF Later, SameContents
  <2>2. PICK a, b, c : a = p.st[j].head_ts /\ b = q.st[j].head_ts /\ c = r.st[j].head_ts
    OBVIOUS
  <2>3. a \in Int /\ b \in Int /\ c \in Int
    BY <2>2, StreamIs
  <2>4. (a # NOPTS => b # NOPTS /\ a <= b) /\ (b # NOPTS => c # NOPTS /\ b <= c)
    BY <2>2 DEF Later
  <2>5. a # NOPTS => c # NOPTS /\ a <= c
    BY <2>3, <2>4
  <2>6. /\ p.st[j].finished => q.st[j].finished
        /\ q.st[j].finished => r.st[j].finished
    BY DEF Later
  <2> QED BY <2>1, <2>2, <2>5, <2>6
<1>2. /\ p.finished => r.finished
      /\ r.finished => p.finished \/ \A j \in D : r.st[j].finished
  BY <1>1 DEF Later
<1> QED BY <1>1, <1>2 DEF Later

\* What the ends and the lowest head are depends on the heads and ends alone.
LEMMA OrderedSame ==
  ASSUME NEW D, NEW q \in Queue(D), NEW r \in Queue(D), NEW i,
         r.head_finished_stream = q.head_finished_stream,
         \A j \in D : /\ Timed(q, j) => HeadTime(r, j) = HeadTime(q, j)
                      /\ (Timed(r, j) <=> Timed(q, j))
                      /\ r.st[j].finished = q.st[j].finished
  PROVE  /\ EndsBut(D, q, i) => EndsBut(D, r, i)
         /\ r.head_stream = q.head_stream /\ Lowest(D, q) => Lowest(D, r)
<1>1. PICK hf, h : hf = q.head_finished_stream /\ h = q.head_stream
  OBVIOUS
<1>2. (hf = None \/ hf \in D) /\ (h = None \/ h \in D)
  BY <1>1 DEF Queue
<1>3. ASSUME EndsBut(D, q, i) PROVE EndsBut(D, r, i)
  <2>1. CASE hf = None
    BY <1>1, <1>3, <2>1 DEF EndsBut
  <2>2. CASE hf # None
    BY <1>1, <1>2, <1>3, <2>2 DEF EndsBut
  <2> QED BY <2>1, <2>2
<1>4. ASSUME r.head_stream = q.head_stream, Lowest(D, q) PROVE Lowest(D, r)
  <2>1. CASE h = None
    BY <1>1, <1>4, <2>1 DEF Lowest
  <2>2. CASE h # None
    BY <1>1, <1>2, <1>4, <2>2 DEF Lowest
  <2> QED BY <2>1, <2>2
<1> QED BY <1>3, <1>4

\* When a stream ends, all stay in order.
LEMMA EndedOrdered ==
  ASSUME NEW D, NEW q \in Queue(D), NEW i \in D, NEW r, D \subseteq Nat,
         Ended(D, q, i, r), Ordered(D, q)
  PROVE  Ordered(D, r)
<1>1. EndsBut(D, q, i)
  <2>1. D \ {None} = D
    BY DEF None
  <2>2. CASE q.head_finished_stream = None
    BY <2>2 DEF Ordered, Ends, EndsBut
  <2>3. CASE q.head_finished_stream # None
    BY <2>1, <2>3 DEF Ordered, Ends, EndsBut
  <2> QED BY <2>2, <2>3
<1>2. Ends(D, r)
  BY <1>1 DEF Ended
<1>3. \A j \in D : HeadTime(r, j) = HeadTime(q, j) /\ (Timed(r, j) <=> Timed(q, j))
  BY DEF Ended, Later, SameContents, HeadTime, Time, Timed
<1>4. PICK h : h = q.head_stream /\ h = r.head_stream /\ h \in {None} \cup D
  BY DEF Ended, Queue
<1>5. Lowest(D, r)
  <2>1. CASE h = None
    BY <1>3, <1>4, <2>1 DEF Ordered, Lowest
  <2>2. CASE h # None
    BY <1>3, <1>4, <2>2 DEF Ordered, Lowest
  <2> QED BY <2>1, <2>2
<1> QED BY <1>2, <1>5 DEF Ordered

\* The head of a stream gets no lower, and keeps the streams in order.
LEMMA StreamUpdateTsIs ==
  ASSUME Setting, NEW q \in Queue(Streams), NEW i \in Streams, NEW ts \in Nat
  PROVE  LET r == StreamUpdateTs(q, i, ts)
         IN  /\ r \in Queue(Streams) /\ Later(Streams, q, r)
             /\ \A j \in Streams \ {i} : r.st[j].head_ts = q.st[j].head_ts
             /\ r.st[i].head_ts = IF Timed(q, i) /\ q.st[i].head_ts >= ts
                                  THEN q.st[i].head_ts ELSE ts
             /\ ~q.st[i].finished /\ Ordered(Streams, q) => Ordered(Streams, r)
<1>1. PICK r : r = StreamUpdateTs(q, i, ts)
  OBVIOUS
<1>2. ts # NOPTS /\ Streams \subseteq Nat /\ None \notin Streams /\ Limiting \in [Streams -> BOOLEAN]
  BY StreamsAre, NoTimestamp DEF None, Setting
<1> SUFFICES /\ r \in Queue(Streams) /\ Later(Streams, q, r)
             /\ \A j \in Streams \ {i} : r.st[j].head_ts = q.st[j].head_ts
             /\ r.st[i].head_ts = IF Timed(q, i) /\ q.st[i].head_ts >= ts
                                  THEN q.st[i].head_ts ELSE ts
             /\ ~q.st[i].finished /\ Ordered(Streams, q) => Ordered(Streams, r)
  BY <1>1
<1>3. CASE Timed(q, i) /\ q.st[i].head_ts >= ts
  <2>1. r = q
    BY <1>1, <1>3 DEF StreamUpdateTs
  <2> QED BY <1>3, <2>1, LaterSame
<1>4. CASE ~(Timed(q, i) /\ q.st[i].head_ts >= ts)
  <2>1. PICK q1 : q1 = [q EXCEPT !.st[i].head_ts = ts]
    OBVIOUS
  <2>2. PICK q2 : q2 = IF /\ q.head_finished_stream # None
                          /\ HeadTime(q1, q.head_finished_stream) <= HeadTime(q1, i)
                       THEN FinishStream(q1, i) ELSE q1
    OBVIOUS
  <2>3. r = IF Limiting[i] /\ q2.head_stream \in {None, i} THEN QueueHeadUpdate(q2) ELSE q2
    BY <1>1, <1>2, <1>4, <2>1, <2>2 DEF StreamUpdateTs
  <2>4. /\ q1 \in Queue(Streams) /\ q1.finished = q.finished
        /\ q1.head_stream = q.head_stream /\ q1.head_finished_stream = q.head_finished_stream
        /\ q1.st = [q.st EXCEPT ![i] = [q.st[i] EXCEPT !.head_ts = ts]]
    <3>1. PICK s, st : s = [q.st[i] EXCEPT !.head_ts = ts] /\ st = [q.st EXCEPT ![i] = s]
      OBVIOUS
    <3>2. s \in StreamType
      <4>1. PICK t \in StreamType : t = q.st[i]
        BY DEF Queue
      <4>2. s = [t EXCEPT !.head_ts = ts] /\ ts \in Nat
        BY <3>1, <4>1
      <4> QED BY ONLY t \in StreamType, <4>2 DEF StreamType
    <3>3. st \in [Streams -> StreamType]
      BY <3>1, <3>2 DEF Queue
    <3>4. q1 = [q EXCEPT !.st = st]
      BY <2>1, <3>1 DEF Queue
    <3>5. /\ q1 \in Queue(Streams) /\ q1.finished = q.finished /\ q1.st = st
          /\ q1.head_stream = q.head_stream /\ q1.head_finished_stream = q.head_finished_stream
      BY ONLY <3>3, <3>4, q \in Queue(Streams) DEF Queue
    <3> QED BY <3>1, <3>5
  <2>5. /\ \A j \in Streams \ {i} : q1.st[j] = q.st[j]
        /\ SameContents(q.st[i], q1.st[i]) /\ q1.st[i].finished = q.st[i].finished
        /\ q1.st[i].head_ts = ts
    <3>1. PICK s : s = q.st[i] /\ s \in StreamType /\ q.st \in [Streams -> StreamType]
      BY DEF Queue
    <3>2. q1.st[i] = [s EXCEPT !.head_ts = ts] /\ \A j \in Streams \ {i} : q1.st[j] = q.st[j]
      BY <2>4, <3>1
    <3>3. SameContents(s, q1.st[i]) /\ q1.st[i].finished = s.finished /\ q1.st[i].head_ts = ts
      BY ONLY <3>1, <3>2 DEF SameContents, StreamType
    <3> QED BY <3>1, <3>2, <3>3
  <2>6. Later(Streams, q, q1)
    <3>1. ASSUME NEW j \in Streams
          PROVE  /\ SameContents(q.st[j], q1.st[j])
                 /\ q.st[j].finished => q1.st[j].finished
                 /\ q.st[j].head_ts # NOPTS =>
                      q1.st[j].head_ts # NOPTS /\ q.st[j].head_ts <= q1.st[j].head_ts
      <4>1. q.st[j].head_ts \in Int
        BY NoTimestamp DEF Queue, StreamType
      <4>2. CASE j = i
        <5>1. q.st[i].head_ts # NOPTS => q.st[i].head_ts < ts
          BY <1>4, <4>1, <4>2 DEF Timed
        <5>2. q.st[i].head_ts # NOPTS =>
                q1.st[i].head_ts # NOPTS /\ q.st[i].head_ts <= q1.st[i].head_ts
          BY <1>2, <2>5, <4>1, <4>2, <5>1
        <5> QED BY <2>5, <4>2, <5>2
      <4>3. CASE j # i
        <5>1. q1.st[j] = q.st[j] /\ SameContents(q.st[j], q.st[j])
          BY <2>5, <4>3 DEF SameContents
        <5>2. q.st[j].head_ts <= q.st[j].head_ts
          BY <4>1
        <5> QED BY <5>1, <5>2
      <4> QED BY <4>2, <4>3
    <3> QED BY <2>4, <3>1, Zenon DEF Later
  <2>7. /\ q2 \in Queue(Streams) /\ Later(Streams, q1, q2)
        /\ q2.head_stream = q.head_stream
        /\ \A j \in Streams : q2.st[j].head_ts = q1.st[j].head_ts
        /\ EndsBut(Streams, q1, i) => Ends(Streams, q2)
    <3>1. CASE /\ q.head_finished_stream # None
               /\ HeadTime(q1, q.head_finished_stream) <= HeadTime(q1, i)
      <4>1. q2 = FinishStream(q1, i)
        BY <2>2, <3>1
      <4>2. Streams \subseteq Streams
        OBVIOUS
      <4>3. Ended(Streams, q1, i, FinishStream(q1, i))
        <5>1. q1 \in Queue(Streams) /\ i \in Streams
          BY <2>4
        <5> QED BY ONLY <1>2, <4>2, <5>1, FinishStreamIs
      <4> QED BY <2>4, <4>1, <4>3 DEF Ended
    <3>2. CASE ~(/\ q.head_finished_stream # None
                 /\ HeadTime(q1, q.head_finished_stream) <= HeadTime(q1, i))
      <4>1. q2 = q1
        BY <2>2, <3>2
      <4>2. ASSUME EndsBut(Streams, q1, i) PROVE Ends(Streams, q1)
        <5>1. CASE q1.head_finished_stream = None
          BY <4>2, <5>1 DEF Ends, EndsBut
        <5>2. CASE q1.head_finished_stream # None
          BY <1>2, <2>4, <3>2, <4>2, <5>2 DEF Ends, EndsBut
        <5> QED BY <5>1, <5>2
      <4> QED BY <2>4, <4>1, <4>2, LaterSame
    <3> QED BY <3>1, <3>2
  <2>8. Later(Streams, q, q2)
    BY <2>4, <2>6, <2>7, LaterLater
  <2>9. /\ \A j \in Streams \ {i} : q2.st[j].head_ts = q.st[j].head_ts
        /\ q2.st[i].head_ts = ts /\ Timed(q2, i)
    BY <1>2, <2>5, <2>7 DEF Timed
  <2>12. r.st[i].head_ts = ts =>
           r.st[i].head_ts = IF Timed(q, i) /\ q.st[i].head_ts >= ts
                             THEN q.st[i].head_ts ELSE ts
    BY <1>4
  <2>13. ASSUME ~q.st[i].finished, Ends(Streams, q) PROVE EndsBut(Streams, q1, i)
    <3>1. \A j \in Streams : j # i => /\ HeadTime(q1, j) = HeadTime(q, j)
                                      /\ (Timed(q1, j) <=> Timed(q, j))
                                      /\ (q1.st[j].finished <=> q.st[j].finished)
      BY <2>5 DEF HeadTime, Time, Timed
    <3>2. PICK hf : hf = q.head_finished_stream
      OBVIOUS
    <3>5. ~q1.st[i].finished
      BY <2>5, <2>13
    <3>3. CASE hf = None
      <4>1. \A j \in Streams : ~(Limiting[j] /\ q.st[j].finished /\ Timed(q, j))
        BY <2>13, <3>2, <3>3 DEF Ends, EndsBut
      <4>2. \A j \in Streams : ~(Limiting[j] /\ q1.st[j].finished /\ Timed(q1, j))
        <5> TAKE j \in Streams
        <5>1. CASE j = i
          BY <3>5, <5>1
        <5>2. CASE j # i
          BY <3>1, <4>1, <5>2
        <5> QED BY <5>1, <5>2
      <4> QED BY <2>4, <3>2, <3>3, <4>2 DEF EndsBut
    <3>4. CASE hf # None
      <4>1. hf \in Streams /\ q.st[hf].finished
        BY <2>13, <3>2, <3>4 DEF Ends, EndsBut, Queue
      <4>2. hf \in Streams /\ hf # i
        BY <2>13, <4>1
      <4>3. /\ Limiting[hf] /\ q.st[hf].finished /\ Timed(q, hf)
            /\ \A j \in Streams : Limiting[j] /\ q.st[j].finished /\ Timed(q, j)
                                   => HeadTime(q, hf) <= HeadTime(q, j)
            /\ \A j \in Streams \ {None} : Timed(q, j) /\ HeadTime(q, hf) <= HeadTime(q, j)
                                              => q.st[j].finished
        BY <2>13, <3>2, <3>4 DEF Ends, EndsBut
      <4>4. Limiting[hf] /\ q1.st[hf].finished /\ Timed(q1, hf) /\ HeadTime(q1, hf) = HeadTime(q, hf)
        BY <3>1, <4>2, <4>3
      <4>5. \A j \in Streams : Limiting[j] /\ q1.st[j].finished /\ Timed(q1, j)
                               => HeadTime(q1, hf) <= HeadTime(q1, j)
        <5> SUFFICES ASSUME NEW j \in Streams, Limiting[j], q1.st[j].finished, Timed(q1, j)
                     PROVE  HeadTime(q1, hf) <= HeadTime(q1, j)
          OBVIOUS
        <5>1. j # i
          BY <3>5
        <5> QED BY <3>1, <4>3, <4>4, <5>1
      <4>6. \A j \in Streams \ {i} : Timed(q1, j) /\ HeadTime(q1, hf) <= HeadTime(q1, j)
                                     => q1.st[j].finished
        BY <1>2, <3>1, <4>3, <4>4
      <4>7. q1.head_finished_stream = hf
        BY <2>4, <3>2
      <4> QED BY <3>4, <4>4, <4>5, <4>6, <4>7 DEF EndsBut
    <3> QED BY <3>3, <3>4
  <2>14. ASSUME Lowest(Streams, q), q.head_stream # None, NEW j \in Streams, Limiting[j]
         PROVE  Timed(q2, j)
    <3>1. Timed(q, j)
      BY <2>14 DEF Lowest
    <3> QED BY <2>8, <3>1 DEF Later, Timed
  <2>10. CASE Limiting[i] /\ q2.head_stream \in {None, i}
    <3>1. r = QueueHeadUpdate(q2)
      BY <2>3, <2>10
    <3>2. LET u == QueueHeadUpdate(q2)
          IN  /\ u \in Queue(Streams) /\ u.st = q2.st /\ u.finished = q2.finished
              /\ u.head_finished_stream = q2.head_finished_stream
              /\ (q2.head_stream # None => \A j \in Streams : Limiting[j] => Timed(q2, j))
                   => Lowest(Streams, u)
      BY <2>7, <2>9, <2>10, QueueHeadUpdateIs
    <3>3. /\ r \in Queue(Streams) /\ r.st = q2.st /\ r.finished = q2.finished
          /\ r.head_finished_stream = q2.head_finished_stream
      BY <3>1, <3>2
    <3>4. Later(Streams, q, r)
      BY <2>8, <3>3 DEF Later
    <3>5. ASSUME ~q.st[i].finished, Ordered(Streams, q) PROVE Ordered(Streams, r)
      <4>1. Ends(Streams, q2)
        BY <2>7, <2>13, <3>5 DEF Ordered
      <4>2. Ends(Streams, r)
        <5>1. \A j \in Streams : /\ Timed(q2, j) => HeadTime(r, j) = HeadTime(q2, j)
                                 /\ (Timed(r, j) <=> Timed(q2, j))
                                 /\ r.st[j].finished = q2.st[j].finished
          BY <3>3 DEF HeadTime, Time, Timed
        <5>2. EndsBut(Streams, q2, None) => EndsBut(Streams, r, None)
          BY <2>7, <3>3, <5>1, OrderedSame
        <5> QED BY <4>1, <5>2 DEF Ends
      <4>3. q2.head_stream # None => \A j \in Streams : Limiting[j] => Timed(q2, j)
        BY <2>7, <2>14, <3>5 DEF Ordered
      <4>4. Lowest(Streams, r)
        BY <3>1, <3>2, <4>3
      <4> QED BY <4>2, <4>4 DEF Ordered
    <3> QED BY <2>9, <2>12, <3>3, <3>4, <3>5
  <2>11. CASE ~(Limiting[i] /\ q2.head_stream \in {None, i})
    <3>1. r = q2
      BY <2>3, <2>11
    <3>2. ASSUME ~q.st[i].finished, Ordered(Streams, q) PROVE Ordered(Streams, q2)
      <4>1. Ends(Streams, q2)
        BY <2>7, <2>13, <3>2 DEF Ordered
      <4>2. Lowest(Streams, q2)
        <5>1. PICK H, G, h : /\ H = [j \in Streams |-> HeadTime(q, j)] /\ h = q.head_stream
                             /\ G = [j \in Streams |-> HeadTime(q2, j)]
          OBVIOUS
        <5>2. H \in [Streams -> Int] /\ G \in [Streams -> Int]
          BY <2>7, <5>1, HeadTimeInt
        <5>3. \A j \in Streams \ {i} : G[j] = H[j] /\ (Timed(q2, j) <=> Timed(q, j))
          <6> TAKE j \in Streams \ {i}
          <6>1. q2.st[j].tick = q.st[j].tick /\ q2.st[j].head_ts = q.st[j].head_ts
            BY <2>8, <2>9 DEF Later, SameContents
          <6> QED BY <5>1, <6>1 DEF HeadTime, Time, Timed
        <5>4. Timed(q, i) => H[i] <= G[i]
          <6> HAVE Timed(q, i)
          <6>1. PICK t, a, b : t = q.st[i].tick /\ a = q.st[i].head_ts /\ b = q2.st[i].head_ts
            OBVIOUS
          <6>2. /\ q2.st[i].tick = t /\ a <= b /\ t \in Nat \ {0} /\ a \in Int /\ b \in Int
            BY <2>7, <2>8, <6>1, NoTimestamp DEF Later, SameContents, Timed, Queue, StreamType
          <6>3. a * t <= b * t
            BY <6>2, Products
          <6> QED BY <5>1, <6>1, <6>2, <6>3 DEF HeadTime, Time
        <5>5. Lowest(Streams, q)
          BY <3>2 DEF Ordered
        <5>6. CASE h = None
          <6>1. ~Limiting[i]
            BY <2>7, <2>11, <5>1, <5>6
          <6> QED BY <2>7, <5>1, <5>3, <5>5, <5>6, <6>1 DEF Lowest
        <5>7. CASE h # None
          <6>1. h \in Streams /\ Limiting[h]
                /\ \A j \in Streams : Limiting[j] => Timed(q, j) /\ H[h] <= H[j]
            BY <5>1, <5>5, <5>7 DEF Lowest
          <6>2. Limiting[i] => h # i
            BY <2>7, <2>11, <5>1
          <6>3. G[h] = H[h]
            BY <5>3, <6>1, <6>2
          <6>4. \A j \in Streams : Limiting[j] => Timed(q2, j) /\ G[h] <= G[j]
            <7> SUFFICES ASSUME NEW j \in Streams, Limiting[j]
                         PROVE  Timed(q2, j) /\ G[h] <= G[j]
              OBVIOUS
            <7>1. CASE j = i
              <8>1. H[h] <= H[i] /\ H[i] <= G[i]
                BY <5>4, <6>1, <7>1
              <8>2. G[h] <= G[i]
                BY <5>2, <6>1, <6>3, <8>1
              <8> QED BY <2>9, <7>1, <8>2
            <7>2. CASE j # i
              BY <5>3, <6>1, <6>3, <7>2
            <7> QED BY <7>1, <7>2
          <6> QED BY <2>7, <5>1, <5>7, <6>1, <6>4 DEF Lowest
        <5> QED BY <5>6, <5>7
      <4> QED BY <4>1, <4>2 DEF Ordered
    <3> QED BY <2>7, <2>8, <2>9, <2>12, <3>1, <3>2
  <2> QED BY <2>10, <2>11
<1> QED BY <1>3, <1>4
-----------------------------------------------------------------------------
(* Heartbeats *)

\* From queue q to queue r streams have got ahead, and stay in order.
Advanced(q, r) ==
  /\ r \in Queue(Streams) /\ Later(Streams, q, r)
  /\ Ordered(Streams, q) => Ordered(Streams, r)

LEMMA AdvancedTwice ==
  ASSUME NEW p \in Queue(Streams), NEW q, NEW r, Advanced(p, q), Advanced(q, r)
  PROVE  Advanced(p, r)
BY LaterLater DEF Advanced

\* What a fake heartbeat, and then what all of them, do.
LEMMA BeatIs ==
  ASSUME Setting, NEW q \in Queue(Streams), NEW i \in Streams, NEW j \in Streams, NEW ts \in Nat
  PROVE  Advanced(q, Beat(q, i, ts, j))
<1>1. PICK d, a, m : /\ d = Rescale(ts, q.st[i].tick, q.st[j].tick) /\ a = q.st[j].head_ts
                     /\ m = IF Timed(q, j) THEN Max({a + 1, d}) ELSE d
  OBVIOUS
<1>2. q.st[i] \in StreamType /\ q.st[j] \in StreamType
  BY DEF Queue
<1>3. q.st[i].tick \in Nat \ {0} /\ q.st[j].tick \in Nat \ {0} /\ (Timed(q, j) => a \in Nat)
  BY <1>1, <1>2 DEF StreamType, Timed
<1>4. d \in Nat
  BY <1>1, <1>3, RescaleNat
<1>5. m \in Nat
  <2>1. CASE Timed(q, j)
    <3>1. a + 1 \in Int /\ d \in Int /\ a + 1 \in Nat
      BY <1>3, <1>4, <2>1
    <3>2. Max({a + 1, d}) = IF a + 1 >= d THEN a + 1 ELSE d
      BY <3>1, MaxOfTwo
    <3> QED BY <1>1, <1>4, <2>1, <3>1, <3>2
  <2>2. CASE ~Timed(q, j)
    BY <1>1, <1>4, <2>2
  <2> QED BY <2>1, <2>2
<1>6. CASE j = i \/ q.st[j].finished \/ (Timed(q, j) /\ Time(q, i, ts) <= HeadTime(q, j))
  <2>1. Beat(q, i, ts, j) = q
    BY <1>6 DEF Beat
  <2> QED BY <2>1, LaterSame DEF Advanced
<1>7. CASE ~(j = i \/ q.st[j].finished \/ (Timed(q, j) /\ Time(q, i, ts) <= HeadTime(q, j)))
  <2>1. Beat(q, i, ts, j) = StreamUpdateTs(q, j, m)
    BY <1>1, <1>7 DEF Beat
  <2>2. LET r == StreamUpdateTs(q, j, m)
        IN  /\ r \in Queue(Streams) /\ Later(Streams, q, r)
            /\ ~q.st[j].finished /\ Ordered(Streams, q) => Ordered(Streams, r)
    BY <1>5, StreamUpdateTsIs
  <2> QED BY <1>7, <2>1, <2>2 DEF Advanced
<1> QED BY <1>6, <1>7

LEMMA BeatsGo ==
  ASSUME Setting, NEW q \in Queue(Streams), NEW i \in Streams, NEW ts \in Nat
  PROVE  LET b == Beats(q, i, ts)
         IN  /\ b[0] = q
             /\ \A n \in 0 .. setup.nb_streams : Advanced(q, b[n])
             /\ \A n \in 1 .. setup.nb_streams : b[n] = Beat(b[n - 1], i, ts, n - 1)
<1> DEFINE L == setup.nb_streams
           S == {r \in Queue(Streams) : Advanced(q, r)}
           h == [x \in S \X Nat |-> IF x[2] \in 1 .. L THEN Beat(x[1], i, ts, x[2] - 1) ELSE q]
           Is(b) == b = [n \in 0 .. L |-> IF n = 0 THEN q ELSE Beat(b[n - 1], i, ts, n - 1)]
<1>1. L \in Nat /\ \A n \in 1 .. L : n - 1 \in Streams /\ n \in Nat
  BY DEF Setting, Streams
<1>2. q \in S
  BY LaterSame DEF Advanced
<1>3. ASSUME NEW r \in S, NEW n \in 1 .. L PROVE Beat(r, i, ts, n - 1) \in S
  <2>1. Advanced(r, Beat(r, i, ts, n - 1))
    BY <1>1, BeatIs
  <2>2. Advanced(q, Beat(r, i, ts, n - 1))
    BY <2>1, AdvancedTwice
  <2> QED BY <2>2 DEF Advanced
<1> HIDE DEF S, L
<1>4. h \in [S \X Nat -> S]
  <2>1. \A x \in S \X Nat : h[x] \in S
    <3> TAKE x \in S \X Nat
    <3>1. PICK r, n : r = x[1] /\ n = x[2] /\ r \in S
      OBVIOUS
    <3>2. CASE n \in 1 .. L
      BY <1>3, <3>1, <3>2
    <3>3. CASE n \notin 1 .. L
      BY <1>2, <3>1, <3>3
    <3> QED BY <3>2, <3>3
  <2>2. h = [x \in S \X Nat |-> h[x]]
    OBVIOUS
  <2> HIDE DEF h
  <2> QED BY <2>1, <2>2
<1>5. \A r \in S, n \in 1 .. L : h[<<r, n>>] = Beat(r, i, ts, n - 1)
  <2> TAKE r \in S, n \in 1 .. L
  <2>1. <<r, n>> \in S \X Nat
    BY <1>1
  <2> QED BY <2>1
<1> HIDE DEF h
<1>6. PICK g : Recursive(g, S, q, h, L)
  BY ONLY <1>1, <1>2, <1>4, Recursion
<1>7. Is(g)
  <2>1. g \in [0 .. L -> S] /\ g[0] = q
    BY <1>6 DEF Recursive
  <2>2. \A n \in 1 .. L : g[n] = Beat(g[n - 1], i, ts, n - 1)
    <3> TAKE n \in 1 .. L
    <3>1. n - 1 \in 0 .. L
      BY <1>1
    <3>2. g[n] = h[<<g[n - 1], n>>] /\ g[n - 1] \in S
      BY <1>6, <2>1, <3>1 DEF Recursive
    <3> QED BY <1>5, <3>2
  <2>3. \A n \in 0 .. L : g[n] = IF n = 0 THEN q ELSE Beat(g[n - 1], i, ts, n - 1)
    <3> TAKE n \in 0 .. L
    <3>1. n # 0 => n \in 1 .. L
      BY <1>1
    <3> QED BY <2>1, <2>2, <3>1
  <2> QED BY <2>1, <2>3
<1>8. Beats(q, i, ts) = CHOOSE b : Is(b)
  BY DEF Beats, L
<1>9. Is(Beats(q, i, ts))
  BY <1>7, <1>8
<1>10. PICK b : b = Beats(q, i, ts)
  OBVIOUS
<1>11. b = [n \in 0 .. L |-> IF n = 0 THEN q ELSE Beat(b[n - 1], i, ts, n - 1)]
  BY <1>9, <1>10
<1>12. 0 \in 0 .. L /\ L \in 0 .. L /\ \A n \in 1 .. L : n # 0 /\ n \in 0 .. L
  BY <1>1
<1>13. b[0] = q /\ \A n \in 1 .. L : b[n] = Beat(b[n - 1], i, ts, n - 1)
  BY ONLY <1>11, <1>12
<1>14. b = [n \in 0 .. L |-> b[n]]
  BY <1>11
<1>15. b[0] \in S /\ \A n \in 1 .. L : b[n - 1] \in S => b[n] \in S
  BY <1>2, <1>3, <1>13
<1>16. b \in [0 .. L -> S]
  BY ONLY <1>1, <1>14, <1>15, Values
<1>17. \A n \in 0 .. L : Advanced(q, b[n])
  BY <1>16 DEF S
<1> QED BY <1>10, <1>13, <1>17 DEF L

LEMMA BeatsAre ==
  ASSUME Setting, NEW q \in Queue(Streams), NEW i \in Streams, NEW ts \in Nat
  PROVE  Advanced(q, Beats(q, i, ts)[setup.nb_streams])
<1>1. setup.nb_streams \in 0 .. setup.nb_streams
  BY DEF Setting
<1> QED BY <1>1, BeatsGo

\* No stream is ahead of m, and those that are as far ahead come after it.
Foremost(q, m) ==
  /\ m \in Streams /\ Timed(q, m)
  /\ \A j \in Streams : Timed(q, j) =>
       HeadTime(q, j) <= HeadTime(q, m) /\ (HeadTime(q, j) = HeadTime(q, m) => m <= j)

\* The stream that is most ahead is the first of them.
LEMMA MostAheadIs ==
  ASSUME Setting, NEW q \in Queue(Streams), NEW i \in Streams, Timed(q, i)
  PROVE  Foremost(q, MostAhead(q))
<1>1. PICK N, timed, H :
        /\ N = setup.nb_streams /\ timed = {j \in Streams : Timed(q, j)}
        /\ H = [j \in Streams |-> HeadTime(q, j)]
  OBVIOUS
<1>2. N \in Nat /\ Streams = 0 .. N - 1 /\ timed \subseteq Streams /\ i \in timed
  BY <1>1 DEF Setting, Streams
<1>17. /\ 0 \in 0 .. N /\ N \in 0 .. N /\ Streams \subseteq Nat
       /\ \A j \in timed : j \in Nat /\ j < N /\ ~(j < 0)
  <2>1. 0 \in 0 .. N /\ N \in 0 .. N
    BY <1>2
  <2>2. \A j \in Streams : j \in Nat /\ j < N /\ ~(j < 0)
    BY <1>2
  <2> QED BY <1>2, <2>1, <2>2
<1>3. H \in [Streams -> Int]
  BY <1>1, HeadTimeInt
<1>4. PICK Before : Before = [n \in 0 .. N |-> {j \in timed : j < n}]
  OBVIOUS
<1>5. PICK T : T = {n \in 0 .. N : Before[n] # {} =>
                       \E k \in Before[n] : \A j \in Before[n] : H[j] <= H[k]}
  OBVIOUS
<1>6. T \subseteq 0 .. N /\ 0 \in T
  <2>1. 0 \in 0 .. N /\ Before[0] = {}
    BY <1>4, <1>17
  <2> QED BY <1>5, <2>1
<1>7. \A n \in 1 .. N : n - 1 \in T => n \in T
  <2> SUFFICES ASSUME NEW n \in 1 .. N, n - 1 \in T, Before[n] # {}
               PROVE  \E k \in Before[n] : \A j \in Before[n] : H[j] <= H[k]
    BY <1>2, <1>5
  <2>1. n - 1 \in 0 .. N /\ n \in 0 .. N
    BY <1>2
  <2>2. Before[n] = Before[n - 1] \cup (timed \cap {n - 1})
    <3>1. Before[n] = {j \in timed : j < n} /\ Before[n - 1] = {j \in timed : j < n - 1}
      BY <1>4, <2>1
    <3>2. \A j \in timed : j < n <=> (j < n - 1 \/ j = n - 1)
      BY <1>2
    <3> QED BY <3>1, <3>2
  <2>3. Before[n] \subseteq timed
    BY <1>4, <2>1
  <2>4. \A j \in Before[n] : H[j] \in Int
    BY <1>2, <1>3, <2>3
  <2>5. CASE Before[n - 1] = {}
    <3>1. Before[n] = {n - 1}
      BY <2>2, <2>5
    <3> QED BY <2>4, <3>1
  <2>6. CASE Before[n - 1] # {}
    <3>1. PICK k \in Before[n - 1] : \A j \in Before[n - 1] : H[j] <= H[k]
      BY <1>5, <2>1, <2>6
    <3>2. k \in Before[n] /\ Before[n - 1] \subseteq Before[n]
      BY <2>2
    <3>3. CASE n - 1 \notin timed \/ H[n - 1] <= H[k]
      BY <2>2, <3>1, <3>2, <3>3
    <3>4. CASE n - 1 \in timed /\ ~(H[n - 1] <= H[k])
      <4>1. n - 1 \in Before[n]
        BY <2>2, <3>4
      <4>2. H[n - 1] \in Int /\ H[k] \in Int /\ H[k] <= H[n - 1]
        BY <2>4, <3>2, <3>4, <4>1
      <4>3. \A j \in Before[n] : H[j] <= H[n - 1]
        BY <2>2, <2>4, <3>1, <3>2, <4>2
      <4> QED BY <4>1, <4>3
    <3> QED BY <3>3, <3>4
  <2> QED BY <2>5, <2>6
<1>8. T = 0 .. N
  BY ONLY <1>2, <1>6, <1>7, UpTo
<1>9. N \in 0 .. N /\ Before[N] = timed
  BY <1>4, <1>17
<1>10. PICK k \in timed : \A j \in timed : H[j] <= H[k]
  BY <1>2, <1>5, <1>8, <1>9
<1>11. PICK S : S = {e \in timed : \A j \in timed : H[j] <= H[e]}
  OBVIOUS
<1>12. k \in S /\ S \subseteq Streams /\ S \subseteq Nat
  BY <1>2, <1>10, <1>11, <1>17
<1>13. Min(S) \in S /\ \A j \in S : Min(S) <= j
  BY <1>12, LeastOf
<1>14. DOMAIN q.st = Streams
  BY DEF Queue
<1>15. S = {e \in timed : \A j \in timed : HeadTime(q, j) <= HeadTime(q, e)}
  BY <1>1, <1>2, <1>11
<1>16. MostAhead(q) = Min(S)
  BY <1>1, <1>14, <1>15 DEF MostAhead
<1>18. PICK m : m = Min(S) /\ m \in S
  BY <1>13
<1>19. m \in timed /\ \A j \in timed : H[j] <= H[m] /\ (H[j] = H[m] => m <= j)
  <2>1. m \in timed /\ \A j \in timed : H[j] <= H[m]
    BY <1>11, <1>18
  <2>2. ASSUME NEW j \in timed, H[j] = H[m] PROVE m <= j
    <3>1. j \in S
      BY <1>11, <2>1, <2>2
    <3> QED BY <1>13, <1>18, <3>1
  <2> QED BY <2>1, <2>2
<1>20. \A j \in Streams : (j \in timed <=> Timed(q, j)) /\ H[j] = HeadTime(q, j)
  BY <1>1
<1> QED BY <1>2, <1>16, <1>18, <1>19, <1>20 DEF Foremost

\* The end of the first frame is a timestamp, if there is a frame.
LEMMA TailTsIs ==
  ASSUME NEW q \in Queue(Streams), NEW i \in Streams
  PROVE  TailTs(q, i) \in Nat \cup {NOPTS}
<1>1. PICK fifo : fifo = q.st[i].fifo
  OBVIOUS
<1>2. fifo \in Seq(FrameType) /\ DOMAIN fifo = 1 .. Len(fifo) /\ Len(fifo) \in Nat
  <2>1. fifo \in Seq(FrameType)
    BY <1>1 DEF Queue, StreamType
  <2> QED BY <2>1, LenProperties
<1>3. PICK K : K = {k \in DOMAIN fifo : FrameEnd(fifo[k], 0) # NOPTS}
  OBVIOUS
<1>4. TailTs(q, i) = IF K = {} THEN NOPTS ELSE FrameEnd(fifo[Min(K)], 0)
  BY <1>1, <1>3 DEF TailTs
<1>5. CASE K # {}
  <2>1. K \subseteq Nat
    BY <1>2, <1>3
  <2>2. Min(K) \in 1 .. Len(fifo)
    BY <1>2, <1>3, <1>5, <2>1, LeastOf
  <2>3. PICK f : f = fifo[Min(K)] /\ f \in FrameType
    BY <1>2, <2>2, ElementOfSeq
  <2>4. FrameEnd(f, 0) \in Nat
    BY <2>3 DEF FrameEnd, FrameType
  <2> QED BY <1>4, <1>5, <2>3, <2>4
<1>6. CASE K = {}
  BY <1>4, <1>6
<1> QED BY <1>5, <1>6

LEMMA OverflowHeartbeatIs ==
  ASSUME Setting, NEW q \in Queue(Streams)
  PROVE  Advanced(q, OverflowHeartbeat(q))
<1>1. DOMAIN q.st = Streams
  BY DEF Queue
<1>2. Advanced(q, q)
  BY LaterSame DEF Advanced
<1>3. CASE ~\E i \in Streams : Timed(q, i)
  <2>1. OverflowHeartbeat(q) = q
    BY <1>1, <1>3 DEF OverflowHeartbeat
  <2> QED BY <1>2, <2>1
<1>4. CASE \E i \in Streams : Timed(q, i)
  <2>1. PICK m \in Streams : m = MostAhead(q)
    BY <1>4, MostAheadIs DEF Foremost
  <2>2. PICK ts : ts = TailTs(q, m)
    OBVIOUS
  <2>3. ts \in Nat \cup {NOPTS}
    BY <2>2, TailTsIs
  <2>4. OverflowHeartbeat(q) = IF Overflows(q, m) THEN Beats(q, m, ts + 1)[setup.nb_streams] ELSE q
    BY <1>1, <1>4, <2>1, <2>2 DEF OverflowHeartbeat
  <2>5. CASE Overflows(q, m)
    <3>1. ts # NOPTS
      BY <2>2, <2>5 DEF Overflows
    <3>2. ts + 1 \in Nat
      BY <2>3, <3>1
    <3>3. Advanced(q, Beats(q, m, ts + 1)[setup.nb_streams])
      BY <3>2, BeatsAre
    <3> QED BY <2>4, <2>5, <3>3
  <2>6. CASE ~Overflows(q, m)
    BY <1>2, <2>4, <2>6
  <2> QED BY <2>5, <2>6
<1> QED BY <1>3, <1>4

LEMMA BeforeReceiveIs ==
  ASSUME Setting, NEW q \in Queue(Streams)
  PROVE  Advanced(q, BeforeReceive(q))
<1>1. BeforeReceive(q) \in {q, OverflowHeartbeat(q)}
  BY DEF BeforeReceive
<1>2. Advanced(q, q)
  BY LaterSame DEF Advanced
<1> QED BY <1>1, <1>2, OverflowHeartbeatIs
-----------------------------------------------------------------------------
(* Sending *)

\* The time bases that streams take on divide the one that they begin with.
WholeTicks ==
  \A c \in Setups : \A i \in 0 .. c.nb_streams - 1 :
    Multiple(DefaultTick, c.tick[i])

FramesOf(i) == IF FrameSamples[i] = 0 THEN WholeFrames ELSE CutFrames

\* What is true of stream i whatever its head and its end.
Fine(i, s) ==
  /\ s.frame_samples = FrameSamples[i] /\ s.frames_max = FramesMax[i]
  /\ s.fifo \in Seq(FramesOf(i)) /\ s.samples_queued = Samples(s.fifo)
  /\ s.tick \in {DefaultTick, Tick[i]} /\ (s.fifo # <<>> => s.tick = Tick[i])

AllFine(D, q) == \A j \in D : Fine(j, q.st[j])

LEMMA FineSame ==
  ASSUME NEW i, NEW s, NEW t, Fine(i, s), SameContents(s, t)
  PROVE  Fine(i, t)
BY DEF Fine, SameContents

LEMMA FramesOfType ==
  ASSUME NEW i
  PROVE  FramesOf(i) \subseteq FrameType /\ Seq(FramesOf(i)) \subseteq Seq(FrameType)
<1>1. FramesOf(i) \subseteq FrameType
  BY DEF FramesOf, WholeFrames, CutFrames
<1> QED BY <1>1, SeqMonotonic

\* Queue r is q but for its stream i.
HasNew(D, q, i, s, r) ==
  /\ r \in Queue(D) /\ r.finished = q.finished /\ r.head_stream = q.head_stream
  /\ r.head_finished_stream = q.head_finished_stream
  /\ r.st[i] = s /\ \A j \in D : j # i => r.st[j] = q.st[j]

LEMMA Replaced ==
  ASSUME NEW D, NEW q \in Queue(D), NEW i \in D, NEW s \in StreamType, NEW r,
         r = [q EXCEPT !.st = [q.st EXCEPT ![i] = s]]
  PROVE  HasNew(D, q, i, s, r)
<1>1. PICK st : st = [q.st EXCEPT ![i] = s]
  OBVIOUS
<1>2. st \in [D -> StreamType] /\ st[i] = s /\ \A j \in D : j # i => st[j] = q.st[j]
  BY <1>1 DEF Queue
<1>3. r = [q EXCEPT !.st = st]
  BY <1>1
<1>4. /\ r \in Queue(D) /\ r.finished = q.finished /\ r.head_stream = q.head_stream
      /\ r.head_finished_stream = q.head_finished_stream /\ r.st = st
  BY ONLY <1>2, <1>3, q \in Queue(D) DEF Queue
<1> QED BY <1>2, <1>4 DEF HasNew

\* What there is of a stream besides its timestamps.
SameCounts(s, t) ==
  /\ t.fifo = s.fifo /\ t.samples_queued = s.samples_queued /\ t.finished = s.finished
  /\ t.frames_sent = s.frames_sent /\ t.samples_sent = s.samples_sent
  /\ t.frames_max = s.frames_max /\ t.frame_samples = s.frame_samples

\* From queue q to queue r stream i has taken on its time base.
Retimed(q, i, r) ==
  /\ r \in Queue(Streams) /\ r.finished = q.finished
  /\ \A j \in Streams : j # i => r.st[j] = q.st[j]
  /\ SameCounts(q.st[i], r.st[i]) /\ r.st[i].tick = Tick[i]
  /\ q.st[i].tick = Tick[i] => r.st[i].head_ts = q.st[i].head_ts
  /\ q.st[i].head_ts = NOPTS => r.st[i].head_ts = NOPTS
  /\ Multiple(q.st[i].tick, Tick[i]) /\ Ordered(Streams, q) => Ordered(Streams, r)

\* What tb_update() does.
LEMMA TbUpdateIs ==
  ASSUME Setting, NEW q \in Queue(Streams), NEW i \in Streams
  PROVE  Retimed(q, i, TbUpdate(q, i))
<1>1. PICK r, s : r = TbUpdate(q, i) /\ s = q.st[i] /\ s \in StreamType
  BY DEF Queue
<1>2. CASE s.tick = Tick[i]
  <2>1. r = q
    BY <1>1, <1>2 DEF TbUpdate
  <2>2. SameCounts(q.st[i], q.st[i])
    BY DEF SameCounts
  <2> QED BY <1>1, <1>2, <2>1, <2>2 DEF Retimed
<1>3. CASE s.tick # Tick[i]
  <2>1. PICK a, d, u, m : /\ a = s.head_ts /\ d = s.tick /\ u = Tick[i]
                          /\ m = IF a = NOPTS THEN a ELSE Rescale(a, d, u)
    OBVIOUS
  <2>2. d \in Nat \ {0} /\ u \in Nat \ {0} /\ a \in Nat \cup {NOPTS}
    BY <1>1, <2>1 DEF Setting, StreamType
  <2>3. m \in Nat \cup {NOPTS} /\ (m = NOPTS <=> a = NOPTS)
    BY <2>1, <2>2, RescaleNat, NoTimestamp
  <2>4. PICK t : t = [s EXCEPT !.tick = u, !.head_ts = m]
    OBVIOUS
  <2>5. t \in StreamType /\ SameCounts(s, t) /\ t.tick = u /\ t.head_ts = m
    BY ONLY <1>1, <2>2, <2>3, <2>4 DEF StreamType, SameCounts
  <2>6. r = [q EXCEPT !.st = [q.st EXCEPT ![i] = t]]
    <3>1. r = [q EXCEPT !.st[i].tick = u, !.st[i].head_ts = m]
      BY <1>1, <1>3, <2>1 DEF TbUpdate
    <3> QED BY <1>1, <2>4, <3>1 DEF Queue
  <2>7. /\ r \in Queue(Streams) /\ r.finished = q.finished /\ r.head_stream = q.head_stream
        /\ r.head_finished_stream = q.head_finished_stream
        /\ r.st[i] = t /\ \A j \in Streams : j # i => r.st[j] = q.st[j]
    <3>1. q \in Queue(Streams) /\ i \in Streams /\ t \in StreamType
      BY <2>5
    <3>2. HasNew(Streams, q, i, t, r)
      BY ONLY <2>6, <3>1, Replaced
    <3> QED BY <3>2 DEF HasNew
  <2>8. ASSUME Multiple(d, u), Ordered(Streams, q) PROVE Ordered(Streams, r)
    <3>1. ASSUME NEW j \in Streams
          PROVE  /\ Timed(q, j) => HeadTime(r, j) = HeadTime(q, j)
                 /\ (Timed(r, j) <=> Timed(q, j))
                 /\ r.st[j].finished = q.st[j].finished
      <4>1. CASE j = i
        <5>1. Timed(r, j) <=> Timed(q, j)
          BY <1>1, <2>1, <2>3, <2>5, <2>7, <4>1 DEF Timed
        <5>2. ASSUME Timed(q, j) PROVE m * u = a * d
          <6>2. a # NOPTS
            BY <2>1, <2>5, <1>1, <4>1, <5>2 DEF Timed
          <6> QED
            <7>1. Multiple(d, u)
              BY <2>8
            <7>2. a \in Nat /\ m = Rescale(a, d, u)
              BY <2>1, <2>2, <6>2
            <7>3. d \in Nat \ {0} /\ u \in Nat \ {0}
              BY <2>2
            <7>4. Rescale(a, d, u) * u = a * d
              BY ONLY <7>1, <7>2, <7>3, ExactRescale
            <7> QED BY <7>2, <7>4
        <5>3. HeadTime(r, j) = m * u /\ HeadTime(q, j) = a * d
          BY <1>1, <2>1, <2>5, <2>7, <4>1 DEF HeadTime, Time
        <5>4. r.st[j].finished = q.st[j].finished
          BY <1>1, <2>5, <2>7, <4>1 DEF SameCounts
        <5> QED BY <5>1, <5>2, <5>3, <5>4
      <4>2. CASE j # i
        BY <2>7, <4>2 DEF HeadTime, Time, Timed
      <4> QED BY <4>1, <4>2
    <3> QED BY <2>7, <2>8, <3>1, OrderedSame DEF Ordered, Ends
  <2> QED BY <1>1, <1>3, <2>1, <2>3, <2>5, <2>7, <2>8 DEF Retimed
<1> QED BY <1>1, <1>2, <1>3

\* From queue q to queue r frame f has been sent on stream i.
Sent(q, i, f, r) ==
  /\ r \in Queue(Streams)
  /\ \A j \in Streams : j # i => /\ SameContents(q.st[j], r.st[j])
                                 /\ r.st[j].head_ts = q.st[j].head_ts
  /\ \A j \in Streams : q.st[j].finished => r.st[j].finished
  /\ r.st[i].fifo = Append(q.st[i].fifo, f) /\ r.st[i].tick = Tick[i]
  /\ r.st[i].samples_queued = q.st[i].samples_queued + f.nb_samples
  /\ r.st[i].samples_sent = q.st[i].samples_sent + f.nb_samples
  /\ r.st[i].frames_sent = q.st[i].frames_sent + 1
  /\ r.st[i].frames_max = q.st[i].frames_max
  /\ r.st[i].frame_samples = q.st[i].frame_samples
  /\ r.st[i].head_ts \in Nat /\ FrameEnd(f, 0) <= r.st[i].head_ts
  /\ q.st[i].tick = Tick[i] \/ ~Timed(q, i) =>
       r.st[i].head_ts = IF Timed(q, i) /\ q.st[i].head_ts >= FrameEnd(f, 0)
                         THEN q.st[i].head_ts ELSE FrameEnd(f, 0)
  /\ q.finished => r.finished
  /\ r.finished => q.finished \/ \A j \in Streams : r.st[j].finished
  /\ ~q.st[i].finished /\ Multiple(q.st[i].tick, Tick[i]) /\ Ordered(Streams, q)
       => Ordered(Streams, r)

\* What sq_send() does with a frame that it accepts.
LEMMA SendFrameIs ==
  ASSUME Setting, NEW q \in Queue(Streams), NEW i \in Streams, NEW f \in FrameType
  PROVE  Sent(q, i, f, SendFrame(q, i, f))
<1>1. PICK ts, n : ts = FrameEnd(f, 0) /\ n = f.nb_samples
  OBVIOUS
<1>2. ts \in Nat /\ n \in Nat
  BY <1>1 DEF FrameEnd, FrameType
<1>3. PICK q1 : q1 = TbUpdate(q, i)
  OBVIOUS
<1>4. Retimed(q, i, q1)
  BY <1>3, TbUpdateIs
<1>5. PICK app, s1, t1 : /\ s1 = q1.st[i] /\ app = Append(s1.fifo, f)
                         /\ t1 = [s1 EXCEPT !.fifo = app]
  OBVIOUS
<1>6. s1 \in StreamType /\ app \in Seq(FrameType)
  <2>1. s1 \in StreamType
    BY <1>4, <1>5 DEF Retimed, Queue
  <2>2. s1.fifo \in Seq(FrameType)
    BY <2>1 DEF StreamType
  <2> QED BY <1>5, <2>1, <2>2, AppendProperties
<1>7. /\ t1 \in StreamType /\ t1.fifo = app /\ t1.tick = s1.tick /\ t1.finished = s1.finished
      /\ t1.samples_queued = s1.samples_queued /\ t1.frames_sent = s1.frames_sent
      /\ t1.samples_sent = s1.samples_sent /\ t1.frames_max = s1.frames_max
      /\ t1.frame_samples = s1.frame_samples /\ t1.head_ts = s1.head_ts
  BY ONLY <1>5, <1>6 DEF StreamType
<1>8. PICK q2 : q2 = [q1 EXCEPT !.st[i].fifo = Append(@, f)]
  OBVIOUS
<1>9. HasNew(Streams, q1, i, t1, q2)
  <2>1. q2 = [q1 EXCEPT !.st[i].fifo = app]
    BY <1>4, <1>5, <1>8 DEF Retimed, Queue
  <2>2. q2 = [q1 EXCEPT !.st = [q1.st EXCEPT ![i] = t1]]
    BY <1>4, <1>5, <2>1 DEF Retimed, Queue
  <2>3. q1 \in Queue(Streams) /\ i \in Streams /\ t1 \in StreamType
    BY <1>4, <1>7 DEF Retimed
  <2> QED BY ONLY <2>2, <2>3, Replaced
<1>10. PICK q3 : q3 = StreamUpdateTs(q2, i, ts)
  OBVIOUS
<1>11. /\ q3 \in Queue(Streams) /\ Later(Streams, q2, q3)
       /\ \A j \in Streams \ {i} : q3.st[j].head_ts = q2.st[j].head_ts
       /\ q3.st[i].head_ts = IF Timed(q2, i) /\ q2.st[i].head_ts >= ts
                             THEN q2.st[i].head_ts ELSE ts
       /\ ~q2.st[i].finished /\ Ordered(Streams, q2) => Ordered(Streams, q3)
  <2>1. q2 \in Queue(Streams)
    BY <1>9 DEF HasNew
  <2> QED BY <1>2, <1>10, <2>1, StreamUpdateTsIs
<1>12. PICK s3, t3 : /\ s3 = q3.st[i]
                     /\ t3 = [s3 EXCEPT !.samples_queued = s3.samples_queued + n,
                                        !.samples_sent = s3.samples_sent + n,
                                        !.frames_sent = s3.frames_sent + 1]
  OBVIOUS
<1>13. s3 \in StreamType
  BY <1>11, <1>12 DEF Queue
<1>14. /\ t3 \in StreamType /\ t3.fifo = s3.fifo /\ t3.tick = s3.tick /\ t3.finished = s3.finished
       /\ t3.samples_queued = s3.samples_queued + n /\ t3.frames_sent = s3.frames_sent + 1
       /\ t3.samples_sent = s3.samples_sent + n /\ t3.frames_max = s3.frames_max
       /\ t3.frame_samples = s3.frame_samples /\ t3.head_ts = s3.head_ts
  <2>1. PICK a, b, c : /\ a = s3.samples_queued + n /\ b = s3.samples_sent + n
                       /\ c = s3.frames_sent + 1
    OBVIOUS
  <2>2. a \in Int /\ b \in Nat /\ c \in Nat
    BY <1>2, <1>13, <2>1 DEF StreamType
  <2>3. t3 = [s3 EXCEPT !.samples_queued = a, !.samples_sent = b, !.frames_sent = c]
    BY <1>12, <2>1
  <2>4. /\ t3 \in StreamType /\ t3.fifo = s3.fifo /\ t3.tick = s3.tick
        /\ t3.finished = s3.finished /\ t3.samples_queued = a /\ t3.frames_sent = c
        /\ t3.samples_sent = b /\ t3.frames_max = s3.frames_max
        /\ t3.frame_samples = s3.frame_samples /\ t3.head_ts = s3.head_ts
    BY ONLY <1>13, <2>2, <2>3 DEF StreamType
  <2> QED BY <2>1, <2>4
<1>15. PICK q4 : q4 = [q3 EXCEPT !.st[i].samples_queued = @ + f.nb_samples,
                                 !.st[i].samples_sent = @ + f.nb_samples,
                                 !.st[i].frames_sent = @ + 1]
  OBVIOUS
<1>16. HasNew(Streams, q3, i, t3, q4)
  <2>1. q4 = [q3 EXCEPT !.st = [q3.st EXCEPT ![i] = t3]]
    BY <1>1, <1>11, <1>12, <1>15 DEF Queue
  <2>2. q3 \in Queue(Streams) /\ i \in Streams /\ t3 \in StreamType
    BY <1>11, <1>14
  <2> QED BY ONLY <2>1, <2>2, Replaced
<1>17. PICK r : r = IF LimitReached(q4.st[i]) THEN FinishStream(q4, i) ELSE q4
  OBVIOUS
<1>18. r = SendFrame(q, i, f)
  <2> DEFINE Q2(p) == [p EXCEPT !.st[i].fifo = Append(@, f)]
             Q4(p) == [p EXCEPT !.st[i].samples_queued = @ + f.nb_samples,
                                !.st[i].samples_sent = @ + f.nb_samples,
                                !.st[i].frames_sent = @ + 1]
             R(p) == IF LimitReached(p.st[i]) THEN FinishStream(p, i) ELSE p
  <2>1. SendFrame(q, i, f) = R(Q4(StreamUpdateTs(Q2(TbUpdate(q, i)), i, FrameEnd(f, 0))))
    BY Zenon DEF SendFrame
  <2>2. q2 = Q2(q1) /\ q4 = Q4(q3) /\ r = R(q4)
    BY <1>8, <1>15, <1>17
  <2> HIDE DEF Q2, Q4, R
  <2> QED BY <1>1, <1>3, <1>10, <2>1, <2>2
<1>19. /\ r \in Queue(Streams) /\ Later(Streams, q4, r)
       /\ \A j \in Streams : r.st[j].head_ts = q4.st[j].head_ts
       /\ Ordered(Streams, q4) => Ordered(Streams, r)
  <2>1. q4 \in Queue(Streams)
    BY <1>16 DEF HasNew
  <2>2. CASE LimitReached(q4.st[i])
    <3>1. Streams \subseteq Nat /\ Streams \subseteq Streams /\ i \in Streams
          /\ Limiting \in [Streams -> BOOLEAN]
      BY StreamsAre DEF Setting
    <3>2. Ended(Streams, q4, i, FinishStream(q4, i))
      BY ONLY <2>1, <3>1, FinishStreamIs
    <3>3. Ended(Streams, q4, i, r)
      BY <1>17, <2>2, <3>2
    <3> QED BY <2>1, <3>1, <3>3, EndedOrdered DEF Ended
  <2>3. CASE ~LimitReached(q4.st[i])
    <3>1. r = q4
      BY <1>17, <2>3
    <3> QED BY <2>1, <3>1, LaterSame
  <2> QED BY <2>2, <2>3
<1>20. /\ q1.st[i] = s1 /\ q2.st[i] = t1 /\ q3.st[i] = s3 /\ q4.st[i] = t3
       /\ \A j \in Streams : j # i => q1.st[j] = q.st[j] /\ q2.st[j] = q.st[j]
                                      /\ q4.st[j] = q3.st[j]
  BY <1>4, <1>5, <1>9, <1>12, <1>16 DEF HasNew, Retimed
<1>21. ASSUME NEW j \in Streams, j # i
       PROVE  /\ SameContents(q.st[j], r.st[j]) /\ r.st[j].head_ts = q.st[j].head_ts
              /\ q.st[j].finished => r.st[j].finished
  <2>1. /\ SameContents(q2.st[j], q3.st[j]) /\ (q2.st[j].finished => q3.st[j].finished)
        /\ q3.st[j].head_ts = q2.st[j].head_ts
    BY <1>11, <1>21 DEF Later
  <2>2. /\ SameContents(q4.st[j], r.st[j]) /\ (q4.st[j].finished => r.st[j].finished)
        /\ r.st[j].head_ts = q4.st[j].head_ts
    BY <1>19 DEF Later
  <2> QED BY <1>20, <1>21, <2>1, <2>2 DEF SameContents
<1>22. /\ s1.fifo = q.st[i].fifo /\ s1.tick = Tick[i] /\ s1.finished = q.st[i].finished
       /\ s1.samples_queued = q.st[i].samples_queued /\ s1.frames_sent = q.st[i].frames_sent
       /\ s1.samples_sent = q.st[i].samples_sent /\ s1.frames_max = q.st[i].frames_max
       /\ s1.frame_samples = q.st[i].frame_samples
  BY <1>4, <1>5 DEF Retimed, SameCounts
<1>23. SameContents(t1, s3) /\ (t1.finished => s3.finished)
  BY <1>11, <1>20 DEF Later
<1>24. SameContents(t3, r.st[i]) /\ (t3.finished => r.st[i].finished)
       /\ r.st[i].head_ts = t3.head_ts
  BY <1>19, <1>20 DEF Later
<1>25. /\ r.st[i].fifo = Append(q.st[i].fifo, f) /\ r.st[i].tick = Tick[i]
       /\ r.st[i].samples_queued = q.st[i].samples_queued + n
       /\ r.st[i].samples_sent = q.st[i].samples_sent + n
       /\ r.st[i].frames_sent = q.st[i].frames_sent + 1
       /\ r.st[i].frames_max = q.st[i].frames_max
       /\ r.st[i].frame_samples = q.st[i].frame_samples
  <2>1. /\ r.st[i].fifo = t3.fifo /\ r.st[i].tick = t3.tick
        /\ r.st[i].samples_queued = t3.samples_queued /\ r.st[i].samples_sent = t3.samples_sent
        /\ r.st[i].frames_sent = t3.frames_sent /\ r.st[i].frames_max = t3.frames_max
        /\ r.st[i].frame_samples = t3.frame_samples
    BY <1>24 DEF SameContents
  <2>2. /\ s3.fifo = t1.fifo /\ s3.tick = t1.tick /\ s3.samples_queued = t1.samples_queued
        /\ s3.samples_sent = t1.samples_sent /\ s3.frames_sent = t1.frames_sent
        /\ s3.frames_max = t1.frames_max /\ s3.frame_samples = t1.frame_samples
    BY <1>23 DEF SameContents
  <2>3. r.st[i].fifo = Append(q.st[i].fifo, f)
    BY <1>5, <1>7, <1>14, <1>22, <2>1, <2>2
  <2>4. /\ r.st[i].tick = Tick[i] /\ r.st[i].frames_max = q.st[i].frames_max
        /\ r.st[i].frame_samples = q.st[i].frame_samples
    BY <1>7, <1>14, <1>22, <2>1, <2>2
  <2>5. /\ r.st[i].samples_queued = q.st[i].samples_queued + n
        /\ r.st[i].samples_sent = q.st[i].samples_sent + n
        /\ r.st[i].frames_sent = q.st[i].frames_sent + 1
    BY <1>7, <1>14, <1>22, <2>1, <2>2
  <2> QED BY <2>3, <2>4, <2>5
<1>26. \A j \in Streams : q.st[j].finished => r.st[j].finished
  <2>1. q.st[i].finished => r.st[i].finished
    BY <1>7, <1>14, <1>22, <1>23, <1>24
  <2> QED BY <1>21, <2>1
<1>27. r.st[i].head_ts = IF Timed(q2, i) /\ t1.head_ts >= ts THEN t1.head_ts ELSE ts
  BY <1>11, <1>14, <1>20, <1>24
<1>28. r.st[i].head_ts \in Nat /\ ts <= r.st[i].head_ts
  <2>1. Timed(q2, i) => t1.head_ts \in Nat
    BY <1>7, <1>20 DEF Timed, StreamType
  <2> QED BY <1>2, <1>27, <2>1
<1>29. ASSUME q.st[i].tick = Tick[i] \/ ~Timed(q, i)
       PROVE  r.st[i].head_ts = IF Timed(q, i) /\ q.st[i].head_ts >= ts
                                THEN q.st[i].head_ts ELSE ts
  <2>1. t1.head_ts = q.st[i].head_ts
    BY <1>4, <1>5, <1>7, <1>29 DEF Retimed, Timed
  <2>2. Timed(q2, i) <=> Timed(q, i)
    BY <1>20, <2>1 DEF Timed
  <2> QED BY <1>27, <2>1, <2>2
<1>30. /\ q.finished => r.finished
       /\ r.finished => q.finished \/ \A j \in Streams : r.st[j].finished
  <2>1. q1.finished = q.finished /\ q2.finished = q1.finished /\ q4.finished = q3.finished
    BY <1>4, <1>9, <1>16 DEF HasNew, Retimed
  <2>2. /\ q2.finished => q3.finished
        /\ q3.finished => q2.finished \/ \A j \in Streams : q3.st[j].finished
    BY <1>11 DEF Later
  <2>3. /\ q4.finished => r.finished
        /\ r.finished => q4.finished \/ \A j \in Streams : r.st[j].finished
    BY <1>19 DEF Later
  <2>4. \A j \in Streams : q3.st[j].finished => r.st[j].finished
    <3> TAKE j \in Streams
    <3>1. q3.st[j].finished => q4.st[j].finished
      <4>1. CASE j = i
        BY <1>14, <1>20, <4>1
      <4>2. CASE j # i
        BY <1>20, <4>2
      <4> QED BY <4>1, <4>2
    <3>2. q4.st[j].finished => r.st[j].finished
      BY <1>19 DEF Later
    <3> QED BY <3>1, <3>2
  <2> QED BY <2>1, <2>2, <2>3, <2>4
<1>31. ASSUME ~q.st[i].finished, Multiple(q.st[i].tick, Tick[i]), Ordered(Streams, q)
       PROVE  Ordered(Streams, r)
  <2>1. Ordered(Streams, q1) /\ ~s1.finished
    BY <1>4, <1>22, <1>31 DEF Retimed
  <2>2. Ordered(Streams, q2)
    <3>1. \A j \in Streams : /\ Timed(q1, j) => HeadTime(q2, j) = HeadTime(q1, j)
                             /\ (Timed(q2, j) <=> Timed(q1, j))
                             /\ q2.st[j].finished = q1.st[j].finished
      <4> TAKE j \in Streams
      <4>1. /\ q2.st[j].tick = q1.st[j].tick /\ q2.st[j].head_ts = q1.st[j].head_ts
            /\ q2.st[j].finished = q1.st[j].finished
        BY <1>7, <1>20
      <4> QED BY <4>1 DEF HeadTime, Time, Timed
    <3>2. q1 \in Queue(Streams) /\ q2 \in Queue(Streams)
          /\ q2.head_finished_stream = q1.head_finished_stream /\ q2.head_stream = q1.head_stream
      BY <1>4, <1>9 DEF Retimed, HasNew
    <3>3. /\ EndsBut(Streams, q1, None) => EndsBut(Streams, q2, None)
          /\ q2.head_stream = q1.head_stream /\ Lowest(Streams, q1) => Lowest(Streams, q2)
      BY <3>1, <3>2, OrderedSame
    <3> QED BY <2>1, <3>2, <3>3 DEF Ordered, Ends
  <2>3. Ordered(Streams, q3)
    BY <1>7, <1>11, <1>20, <2>1, <2>2
  <2>4. Ordered(Streams, q4)
    <3>1. \A j \in Streams : /\ Timed(q3, j) => HeadTime(q4, j) = HeadTime(q3, j)
                             /\ (Timed(q4, j) <=> Timed(q3, j))
                             /\ q4.st[j].finished = q3.st[j].finished
      <4> TAKE j \in Streams
      <4>1. /\ q4.st[j].tick = q3.st[j].tick /\ q4.st[j].head_ts = q3.st[j].head_ts
            /\ q4.st[j].finished = q3.st[j].finished
        BY <1>14, <1>20
      <4> QED BY <4>1 DEF HeadTime, Time, Timed
    <3>2. q3 \in Queue(Streams) /\ q4 \in Queue(Streams)
          /\ q4.head_finished_stream = q3.head_finished_stream /\ q4.head_stream = q3.head_stream
      BY <1>11, <1>16 DEF HasNew
    <3>3. /\ EndsBut(Streams, q3, None) => EndsBut(Streams, q4, None)
          /\ q4.head_stream = q3.head_stream /\ Lowest(Streams, q3) => Lowest(Streams, q4)
      BY <3>1, <3>2, OrderedSame
    <3> QED BY <2>3, <3>2, <3>3 DEF Ordered, Ends
  <2> QED BY <1>19, <2>4
<1> QED BY <1>1, <1>18, <1>19, <1>21, <1>25, <1>26, <1>28, <1>29, <1>30, <1>31 DEF Sent
-----------------------------------------------------------------------------
(* Receiving *)

\* From queue q to queue r frame f of stream i has been received.
Taken(q, i, f, r) ==
  /\ r \in Queue(Streams) /\ r.finished = q.finished /\ r.head_stream = q.head_stream
  /\ r.head_finished_stream = q.head_finished_stream
  /\ \A j \in Streams : j # i => r.st[j] = q.st[j]
  /\ r.st[i].head_ts = q.st[i].head_ts /\ r.st[i].tick = q.st[i].tick
  /\ r.st[i].finished = q.st[i].finished
  /\ r.st[i].samples_sent = q.st[i].samples_sent /\ r.st[i].frames_sent = q.st[i].frames_sent
  /\ Fine(i, r.st[i])
  /\ \A h : EndsBy(q.st[i].fifo, h) => EndsBy(r.st[i].fifo, h)
  /\ f.nb_samples \in Nat /\ r.st[i].samples_queued = q.st[i].samples_queued - f.nb_samples
  /\ FrameEnd(f, 0) \in Nat
  /\ FrameEnd(f, 0) = FrameEnd(q.st[i].fifo[1], NbSamples(q.st[i]))
  /\ FrameSamples[i] = 0 => Len(r.st[i].fifo) = Len(q.st[i].fifo) - 1
  /\ FrameSamples[i] # 0 /\ f.nb_samples # FrameSamples[i] =>
       q.st[i].finished /\ r.st[i].fifo = <<>>

\* What receive_samples() and its callers do.
LEMMA WithoutIs ==
  ASSUME Setting, NEW q \in Queue(Streams), NEW i \in Streams,
         Fine(i, q.st[i]), Releasable(q, i)
  PROVE  Taken(q, i, Frame(q, i), Without(q, i))
<1>1. PICK s, fifo, have, m, n, f, r :
        /\ s = q.st[i] /\ fifo = s.fifo /\ have = s.samples_queued /\ m = FrameSamples[i]
        /\ n = NbSamples(s) /\ f = Frame(q, i) /\ r = Without(q, i)
  OBVIOUS
<1>2. s \in StreamType /\ s.frame_samples = m /\ m \in Nat
  BY <1>1 DEF Queue, Fine, Setting
<1>3. /\ fifo \in Seq(FramesOf(i)) /\ fifo \in Seq(FrameType) /\ fifo # <<>>
      /\ have = Samples(fifo) /\ (m <= have \/ s.finished)
  BY <1>1, <1>2, FramesOfType DEF Fine, Releasable
<1>4. have \in Nat
  BY <1>3, SamplesNat
<1>5. n \in Nat /\ n <= have /\ n <= m /\ (n # m => s.finished /\ n = have)
  <2>1. m \in Int /\ have \in Int
    BY <1>2, <1>4
  <2>2. Min({m, have}) = IF m <= have THEN m ELSE have
    BY <2>1, MinOfTwo
  <2>3. CASE s.finished
    <3>1. n = Min({m, have})
      BY <1>1, <1>2, <2>3 DEF NbSamples
    <3> QED BY <1>2, <1>4, <2>2, <2>3, <3>1
  <2>4. CASE ~s.finished
    <3>1. n = m
      BY <1>1, <1>2, <2>4 DEF NbSamples
    <3> QED BY <1>2, <1>3, <2>4, <3>1
  <2> QED BY <2>3, <2>4
<1>6. PICK first \in FrameType : first = fifo[1] /\ first \in FramesOf(i)
  <2>1. 1 \in 1 .. Len(fifo)
    BY <1>3, EmptySeq
  <2>2. fifo[1] \in FramesOf(i)
    BY <1>3, <2>1, ElementOfSeq
  <2> QED BY <2>2, FramesOfType
<1>7. first.pts \in Nat /\ first.dur \in Nat /\ first.nb_samples \in Nat
  BY <1>6 DEF FrameType
<1>8. CASE n = 0
  <2>1. m = 0
    <3> SUFFICES ASSUME m # 0 PROVE FALSE
      OBVIOUS
    <3>1. have = 0
      BY <1>5, <1>8
    <3>2. fifo \in Seq(CutFrames)
      BY <1>1, <1>3 DEF FramesOf
    <3> QED BY <1>3, <3>1, <3>2, NoSamples
  <2>2. PICK rest : rest = Tail(fifo)
    OBVIOUS
  <2>3. rest \in Seq(FramesOf(i)) /\ Len(rest) = Len(fifo) - 1 /\ rest \in Seq(FrameType)
    BY <1>3, <2>2, HeadTailProperties
  <2>4. Samples(rest) = have - first.nb_samples
    BY <1>3, <1>6, <2>2, SamplesTail
  <2>5. PICK t, b : b = have - first.nb_samples
                    /\ t = [s EXCEPT !.fifo = rest, !.samples_queued = b]
    OBVIOUS
  <2>6. b \in Int
    BY <1>4, <1>7, <2>5
  <2>7. /\ t \in StreamType /\ t.fifo = rest /\ t.samples_queued = b /\ t.tick = s.tick
        /\ t.head_ts = s.head_ts /\ t.finished = s.finished /\ t.frames_sent = s.frames_sent
        /\ t.samples_sent = s.samples_sent /\ t.frames_max = s.frames_max
        /\ t.frame_samples = s.frame_samples
    BY ONLY <1>2, <2>3, <2>5, <2>6 DEF StreamType
  <2>8. r = [q EXCEPT !.st = [q.st EXCEPT ![i] = t]]
    <3>1. r = [q EXCEPT !.st[i].fifo = Tail(@),
                        !.st[i].samples_queued = @ - q.st[i].fifo[1].nb_samples]
      BY <1>1, <1>8 DEF Without
    <3>2. r = [q EXCEPT !.st[i].fifo = rest, !.st[i].samples_queued = b]
      BY <1>1, <1>6, <2>2, <2>5, <3>1 DEF Queue
    <3> QED BY <1>1, <2>5, <3>2 DEF Queue
  <2>9. HasNew(Streams, q, i, t, r)
    <3>1. q \in Queue(Streams) /\ i \in Streams /\ t \in StreamType
      BY <2>7
    <3> QED BY ONLY <2>8, <3>1, Replaced
  <2>10. f = first
    BY <1>1, <1>6, <1>8 DEF Frame
  <2>11. Fine(i, t)
    <3>1. s.tick \in {DefaultTick, Tick[i]} /\ s.tick = Tick[i] /\ s.frames_max = FramesMax[i]
      BY <1>1, <1>3 DEF Fine
    <3> QED BY <1>1, <1>2, <2>3, <2>4, <2>5, <2>7, <3>1 DEF Fine
  <2>12. FrameEnd(f, 0) \in Nat /\ FrameEnd(f, 0) = FrameEnd(fifo[1], n)
    BY <1>6, <1>7, <1>8, <2>10 DEF FrameEnd
  <2>13. ASSUME NEW h, EndsBy(fifo, h) PROVE EndsBy(rest, h)
    <3>1. \A k \in 1 .. Len(rest) : rest[k] = fifo[k + 1] /\ k + 1 \in 1 .. Len(fifo)
      BY <1>3, <2>2, <2>3, HeadTailProperties, LenProperties
    <3> QED BY <2>13, <3>1 DEF EndsBy
  <2> QED
    BY <1>1, <1>7, <2>1, <2>3, <2>5, <2>7, <2>9, <2>10, <2>11, <2>12, <2>13 DEF Taken, HasNew
<1>9. CASE n # 0
  <2>1. m # 0
    BY <1>2, <1>5, <1>9
  <2>2. fifo \in Seq(CutFrames) /\ FramesOf(i) = CutFrames
    BY <1>1, <1>3, <2>1 DEF FramesOf
  <2>3. PICK rest : rest = Drop(fifo, n)
    OBVIOUS
  <2>4. rest \in Seq(CutFrames) /\ Samples(rest) = have - n
    BY <1>3, <1>5, <2>2, <2>3, DropIs
  <2>5. rest \in Seq(FramesOf(i)) /\ rest \in Seq(FrameType)
    BY <2>2, <2>4, FramesOfType
  <2>6. PICK t, b : b = have - n /\ t = [s EXCEPT !.fifo = rest, !.samples_queued = b]
    OBVIOUS
  <2>7. b \in Int
    BY <1>4, <1>5, <2>6
  <2>8. /\ t \in StreamType /\ t.fifo = rest /\ t.samples_queued = b /\ t.tick = s.tick
        /\ t.head_ts = s.head_ts /\ t.finished = s.finished /\ t.frames_sent = s.frames_sent
        /\ t.samples_sent = s.samples_sent /\ t.frames_max = s.frames_max
        /\ t.frame_samples = s.frame_samples
    BY ONLY <1>2, <2>5, <2>6, <2>7 DEF StreamType
  <2>9. r = [q EXCEPT !.st = [q.st EXCEPT ![i] = t]]
    <3>1. r = [q EXCEPT !.st[i].fifo = Drop(@, n), !.st[i].samples_queued = @ - n]
      BY <1>1, <1>9 DEF Without
    <3>2. r = [q EXCEPT !.st[i].fifo = rest, !.st[i].samples_queued = b]
      BY <1>1, <2>3, <2>6, <3>1 DEF Queue
    <3>3. q \in Queue(Streams) /\ i \in Streams /\ s = q.st[i]
      BY <1>1
    <3> QED BY ONLY <2>6, <3>2, <3>3 DEF Queue
  <2>10. HasNew(Streams, q, i, t, r)
    <3>1. q \in Queue(Streams) /\ i \in Streams /\ t \in StreamType
      BY <2>8
    <3> QED BY ONLY <2>9, <3>1, Replaced
  <2>11. f = [pts |-> first.pts, dur |-> n, nb_samples |-> n]
    BY <1>1, <1>6, <1>9 DEF Frame
  <2>12. f.nb_samples = n /\ FrameEnd(f, 0) \in Nat /\ FrameEnd(f, 0) = FrameEnd(fifo[1], n)
    BY <1>5, <1>6, <1>7, <1>9, <2>11 DEF FrameEnd
  <2>13. Fine(i, t)
    <3>1. s.tick \in {DefaultTick, Tick[i]} /\ s.tick = Tick[i] /\ s.frames_max = FramesMax[i]
      BY <1>1, <1>3 DEF Fine
    <3> QED BY <1>1, <1>2, <2>4, <2>5, <2>6, <2>8, <3>1 DEF Fine
  <2>14. n # m => s.finished /\ rest = <<>>
    <3> HAVE n # m
    <3>1. s.finished /\ Samples(rest) = 0
      BY <1>4, <1>5, <2>4
    <3> QED BY <2>4, <3>1, NoSamples
  <2>15. \A h : EndsBy(fifo, h) => EndsBy(rest, h)
    BY <1>5, <2>2, <2>3, DropEnds
  <2> QED BY <1>1, <1>5, <2>1, <2>6, <2>8, <2>10, <2>12, <2>13, <2>14, <2>15 DEF Taken, HasNew
<1> QED BY <1>8, <1>9
-----------------------------------------------------------------------------
(* The invariant *)

OutType == [end : Nat \cup {NOPTS}, frames : Nat, samples : Nat, short : BOOLEAN]

Unsent == [end |-> NOPTS, frames |-> 0, samples |-> 0, short |-> FALSE]

Histories ==
  /\ ended \in [Streams -> BOOLEAN] /\ told \in [Streams -> BOOLEAN]
  /\ last \in [Streams -> Nat] /\ real \in [Streams -> Nat \cup {NOPTS}]
  /\ beaten \in [Streams -> BOOLEAN] /\ out \in [Streams -> OutType]

\* Streams are added one after the other, and only then anything is sent.
Added ==
  IF pc = "setup"
  THEN /\ \E n \in Nat : n < setup.nb_streams /\ DOMAIN sq.st = 0 .. n - 1
       /\ sq.head_stream = None
       /\ \A i \in DOMAIN sq.st : /\ ~Timed(sq, i) /\ sq.st[i].fifo = <<>>
                                  /\ sq.st[i].samples_sent = 0 /\ sq.st[i].frames_sent = 0
       /\ \A i \in Streams : ~told[i] /\ out[i] = Unsent
  ELSE DOMAIN sq.st = Streams

Typed ==
  /\ setup \in Setups /\ pc \in {"setup", "unlocked", "drain"}
  /\ sq \in Queue(DOMAIN sq.st) /\ AllFine(DOMAIN sq.st, sq)
  /\ Histories /\ Added

\* The setup is all that these depend on besides their parameters.
LEMMA SameSetup ==
  ASSUME setup' = setup, NEW D, NEW q
  PROVE  /\ Streams' = Streams /\ Limiting' = Limiting /\ Tick' = Tick
         /\ FrameSamples' = FrameSamples
         /\ Ordered(D, q) => Ordered(D, q)'
         /\ AllFine(D, q) => AllFine(D, q)'
BY DEF Streams, Limiting, Tick, FrameSamples, FramesMax, Ordered, Ends, EndsBut, Lowest,
       HeadTime, Time, Timed, AllFine, Fine, FramesOf

LEMMA TypedInit == Init => Typed
<1> SUFFICES ASSUME Init PROVE Typed
  OBVIOUS
<1>1. Setting
  BY SettingIs DEF Init
<1>2. PICK q : q = sq
  OBVIOUS
<1>3. q = [finished |-> FALSE, head_stream |-> None, head_finished_stream |-> None,
           st |-> [i \in {} |-> NewStream(i)]]
  BY <1>2 DEF Init
<1>4. PICK st : st = [i \in {} |-> NewStream(i)]
  OBVIOUS
<1>5. st \in [{} -> StreamType] /\ DOMAIN st = {}
  BY <1>4
<1>6. q = [finished |-> FALSE, head_stream |-> None, head_finished_stream |-> None, st |-> st]
  BY <1>3, <1>4
<1>7. q \in Queue({}) /\ q.st = st /\ q.head_stream = None
  BY ONLY <1>5, <1>6 DEF Queue
<1>8. 0 \in Nat /\ 0 < setup.nb_streams /\ 0 .. 0 - 1 = {}
  BY <1>1 DEF Setting
<1>9. Histories
  <2>1. Unsent \in OutType
    BY DEF Unsent, OutType
  <2>2. out = [i \in Streams |-> Unsent]
    BY DEF Init, Unsent
  <2>3. out \in [Streams -> OutType]
    BY <2>1, <2>2
  <2> QED BY <2>3 DEF Histories, Init
<1>10. Added
  <2>1. pc = "setup" /\ DOMAIN sq.st = 0 .. 0 - 1 /\ sq.head_stream = None
    BY <1>2, <1>5, <1>7, <1>8 DEF Init
  <2>2. \A i \in Streams : ~told[i] /\ out[i] = Unsent
    BY DEF Init, Unsent
  <2> QED BY <1>2, <1>5, <1>7, <1>8, <2>1, <2>2 DEF Added
<1> QED BY <1>2, <1>5, <1>7, <1>9, <1>10 DEF Typed, Init, AllFine

\* While the queue is in use it has all its streams.
LEMMA InUse ==
  ASSUME Typed, pc # "setup", NEW q, q = sq
  PROVE  /\ Setting /\ q \in Queue(Streams) /\ AllFine(Streams, q)
         /\ DOMAIN sq.st = Streams
BY SettingIs DEF Typed, Added

\* What is left when there is a change of the queue in use.
LEMMA StillTyped ==
  ASSUME Typed, pc # "setup", setup' = setup, pc' \in {"unlocked", "drain"}, Histories',
         NEW r \in Queue(Streams), AllFine(Streams, r), sq' = r
  PROVE  Typed'
<1>1. DOMAIN r.st = Streams
  BY DEF Queue
<1>2. Streams' = Streams /\ AllFine(Streams, r)'
  BY SameSetup
<1>3. AllFine(DOMAIN sq.st, sq)' /\ sq' \in Queue(DOMAIN sq'.st) /\ DOMAIN sq'.st = Streams'
  BY <1>1, <1>2
<1>4. Added'
  BY <1>3 DEF Added
<1> QED BY <1>3, <1>4 DEF Typed
-----------------------------------------------------------------------------
(* The steps *)

\* The queue r of the first n + 1 streams, while streams are added.
New(n, r) ==
  /\ r \in Queue(0 .. n) /\ AllFine(0 .. n, r) /\ r.head_stream = None
  /\ \A j \in 0 .. n : /\ ~Timed(r, j) /\ r.st[j].fifo = <<>>
                       /\ r.st[j].samples_sent = 0 /\ r.st[j].frames_sent = 0

LEMMA AddStreamIs ==
  ASSUME Typed, AddStream
  PROVE  \E n \in Nat : \E r :
           /\ n < setup.nb_streams /\ DOMAIN sq.st = 0 .. n - 1 /\ r = sq' /\ New(n, r)
           /\ pc' = IF n + 1 = setup.nb_streams THEN "unlocked" ELSE "setup"
           /\ Ordered(0 .. n - 1, sq) => Ordered(0 .. n, r)
           /\ r.finished => sq.finished \/ \A j \in 0 .. n : r.st[j].finished
           /\ FramesMax[n] # 0 => ~r.st[n].finished
           /\ \A j \in 0 .. n - 1 : r.st[j].finished => sq.st[j].finished
<1>1. Setting /\ pc = "setup"
  BY SettingIs DEF Typed, AddStream
<1>0. PICK p : p = sq
  OBVIOUS
<1>2. PICK n \in Nat : n < setup.nb_streams /\ DOMAIN sq.st = 0 .. n - 1 /\ p = sq
  BY <1>0, <1>1 DEF Typed, Added
<1>3. p \in Queue(0 .. n - 1) /\ AllFine(0 .. n - 1, p) /\ p.head_stream = None
      /\ \A j \in 0 .. n - 1 : /\ ~Timed(p, j) /\ p.st[j].fifo = <<>>
                               /\ p.st[j].samples_sent = 0 /\ p.st[j].frames_sent = 0
  BY <1>1, <1>2 DEF Typed, Added
<1>4. Cardinality(DOMAIN sq.st) = n
  <2>1. Cardinality(0 .. n - 1) = IF 0 > n - 1 THEN 0 ELSE (n - 1) - 0 + 1
    BY FS_Interval
  <2> QED BY <1>2, <2>1
<1>5. /\ n \in Streams /\ 0 .. n \subseteq Streams /\ 0 .. n \subseteq Nat /\ n \in 0 .. n
      /\ \A j \in 0 .. n : j # n => j \in 0 .. n - 1
      /\ \A j \in 0 .. n - 1 : j # n /\ j \in 0 .. n
  BY <1>1, <1>2 DEF Setting, Streams
<1>6. PICK s : s = NewStream(n)
  OBVIOUS
<1>7. /\ s \in StreamType /\ s.fifo = <<>> /\ s.head_ts = NOPTS /\ s.finished = FALSE
      /\ s.samples_sent = 0 /\ s.frames_sent = 0 /\ s.samples_queued = 0
      /\ s.tick = DefaultTick /\ s.frames_max = FramesMax[n] /\ s.frame_samples = FrameSamples[n]
  <2>1. PICK nil \in Seq(FrameType) : nil = <<>>
    BY EmptySeq
  <2>2. PICK d, m, k : d = DefaultTick /\ m = FramesMax[n] /\ k = FrameSamples[n]
    OBVIOUS
  <2>3. d \in Nat \ {0} /\ m \in Nat \cup {NoLimit} /\ k \in Nat
    BY <1>1, <1>5, <2>2, SyncAssumption DEF Setting
  <2>4. s = [fifo |-> nil, tick |-> d, samples_queued |-> 0, head_ts |-> NOPTS,
             finished |-> FALSE, frames_sent |-> 0, samples_sent |-> 0,
             frames_max |-> m, frame_samples |-> k]
    BY <1>6, <2>1, <2>2 DEF NewStream
  <2>5. s \in StreamType
    BY ONLY <2>1, <2>3, <2>4 DEF StreamType
  <2> QED BY <2>1, <2>2, <2>4, <2>5
<1>8. Fine(n, s)
  <2>1. <<>> \in Seq(FramesOf(n)) /\ <<>> \in Seq(FrameType)
    BY EmptySeq
  <2>2. Samples(<<>>) = 0
    BY <2>1, SamplesNat
  <2> QED BY <1>7, <2>1, <2>2 DEF Fine
<1>9. PICK st : st = [j \in 0 .. n |-> IF j = n THEN s ELSE p.st[j]]
  OBVIOUS
<1>10. st \in [0 .. n -> StreamType] /\ st[n] = s /\ \A j \in 0 .. n - 1 : st[j] = p.st[j]
  BY <1>3, <1>5, <1>7, <1>9 DEF Queue
<1>11. PICK q : q = [p EXCEPT !.st = st]
  OBVIOUS
<1>12. p.head_finished_stream \in {None} \cup (0 .. n) /\ p.finished \in BOOLEAN
  BY <1>3, <1>5 DEF Queue
<1>13. /\ q \in Queue(0 .. n) /\ q.st = st /\ q.head_stream = None /\ q.finished = p.finished
       /\ q.head_finished_stream = p.head_finished_stream
  <2>1. p = [finished |-> p.finished, head_stream |-> None,
             head_finished_stream |-> p.head_finished_stream, st |-> p.st]
    BY <1>3 DEF Queue
  <2>2. q = [finished |-> p.finished, head_stream |-> None,
             head_finished_stream |-> p.head_finished_stream, st |-> st]
    BY <1>11, <2>1
  <2> QED BY <1>10, <1>12, <2>2 DEF Queue
<1>14. \A j \in 0 .. n : /\ ~Timed(q, j) /\ q.st[j].fifo = <<>>
                         /\ q.st[j].samples_sent = 0 /\ q.st[j].frames_sent = 0
                         /\ Fine(j, q.st[j])
  BY <1>3, <1>5, <1>7, <1>8, <1>10, <1>13 DEF Timed, AllFine
<1>15. ASSUME Ordered(0 .. n - 1, p) PROVE Ordered(0 .. n, q)
  <2>1. p.head_finished_stream = None
    <3> SUFFICES ASSUME p.head_finished_stream # None PROVE FALSE
      OBVIOUS
    <3>1. Timed(p, p.head_finished_stream)
      BY <1>15 DEF Ordered, Ends, EndsBut
    <3>2. p.head_finished_stream \in 0 .. n - 1
      BY <1>3 DEF Queue
    <3> QED BY <1>3, <3>1, <3>2
  <2>2. Ends(0 .. n, q)
    BY <1>13, <1>14, <2>1 DEF Ends, EndsBut
  <2>3. Lowest(0 .. n, q)
    BY <1>13, <1>14 DEF Lowest
  <2> QED BY <2>2, <2>3 DEF Ordered
<1>16. PICK r : r = IF LimitReached(q.st[n]) THEN FinishStream(q, n) ELSE q
  OBVIOUS
<1>17. sq' = r /\ pc' = IF n + 1 = setup.nb_streams THEN "unlocked" ELSE "setup"
  <2>1. q = [sq EXCEPT !.st = [j \in 0 .. n |-> IF j = n THEN NewStream(n) ELSE sq.st[j]]]
    BY <1>2, <1>6, <1>9, <1>11
  <2> QED BY <1>4, <1>16, <2>1 DEF AddStream
<1>18. CASE LimitReached(q.st[n])
  <2>1. Limiting \in [Streams -> BOOLEAN]
    BY <1>1 DEF Setting
  <2>2. Ended(0 .. n, q, n, FinishStream(q, n))
    BY ONLY <1>5, <1>13, <2>1, FinishStreamIs
  <2>3. Ended(0 .. n, q, n, r)
    BY <1>16, <1>18, <2>2
  <2>4. New(n, r)
    <3>1. \A j \in 0 .. n : SameContents(q.st[j], r.st[j]) /\ r.st[j].head_ts = q.st[j].head_ts
      BY <2>3 DEF Ended, Later
    <3>2. \A j \in 0 .. n : Fine(j, r.st[j])
      BY <1>14, <3>1, FineSame
    <3> QED BY <1>13, <1>14, <2>3, <3>1, <3>2 DEF New, Ended, SameContents, Timed, AllFine
  <2>5. Ordered(0 .. n - 1, p) => Ordered(0 .. n, r)
    BY <1>5, <1>13, <1>15, <2>3, EndedOrdered
  <2>6. FramesMax[n] = 0
    <3>1. FramesMax[n] \in Nat \cup {NoLimit} /\ FrameSamples[n] \in Nat
      BY <1>1, <1>5 DEF Setting
    <3>2. q.st[n] = s
      BY <1>10, <1>13
    <3>3. FramesMax[n] # NoLimit /\ FramesSent(s) >= FramesMax[n]
      BY <1>7, <1>18, <3>2 DEF LimitReached
    <3>4. FramesSent(s) = 0
      <4>1. FrameSamples[n] # 0 => 0 \div FrameSamples[n] = 0
        BY <3>1
      <4> QED BY <1>7, <4>1 DEF FramesSent
    <3> QED BY <3>1, <3>3, <3>4
  <2>7. r.finished => p.finished \/ \A j \in 0 .. n : r.st[j].finished
    BY <1>13, <2>3 DEF Ended, Later
  <2>8. \A j \in 0 .. n - 1 : r.st[j].finished => p.st[j].finished
    BY <1>5, <1>10, <1>13, <1>14, <2>3 DEF Ended
  <2> QED BY <1>2, <1>17, <2>4, <2>5, <2>6, <2>7, <2>8
<1>19. CASE ~LimitReached(q.st[n])
  <2>1. r = q
    BY <1>16, <1>19
  <2>2. New(n, r)
    BY <1>13, <1>14, <2>1 DEF New, AllFine
  <2>3. r.finished = p.finished /\ ~r.st[n].finished
        /\ \A j \in 0 .. n - 1 : r.st[j].finished = p.st[j].finished
    BY <1>7, <1>10, <1>13, <2>1
  <2> QED BY <1>2, <1>15, <1>17, <2>1, <2>2, <2>3
<1> QED BY <1>18, <1>19

\* Frame f is sent on stream i of queue q, which is r then.
Sends(q, i, f, r) ==
  /\ q = sq /\ r = sq' /\ q \in Queue(Streams) /\ AllFine(Streams, q)
  /\ Setting /\ i \in Streams /\ f \in FramesOf(i) /\ FrameEnd(f, 0) \in Nat
  /\ pc = "unlocked" /\ pc' = "drain" /\ ~q.st[i].finished
  /\ Sent(q, i, f, r) /\ AllFine(Streams, r)
  /\ last' = [last EXCEPT ![i] = FrameEnd(f, 0)]
  /\ real' = [real EXCEPT ![i] = Max({@, FrameEnd(f, 0)})]
  /\ UNCHANGED <<setup, ended, told, beaten, out>>

LEMMA SendIs ==
  ASSUME Typed, NEW i \in Streams, NEW gap \in setup.gaps, NEW dur \in setup.durs,
         Send(i, gap, dur)
  PROVE  \E q, f, r : Sends(q, i, f, r)
<1>1. PICK q, r : q = sq /\ r = sq'
  OBVIOUS
<1>2. pc = "unlocked" /\ pc # "setup" /\ pc' = "drain"
  BY DEF Send
<1>3. Setting /\ q \in Queue(Streams) /\ AllFine(Streams, q)
  BY <1>1, <1>2, InUse
<1>4. PICK m, pts, f : /\ m = (IF FrameSamples[i] = 0 THEN 0 ELSE dur) /\ pts = last[i] + gap
                       /\ f = [pts |-> pts, dur |-> dur, nb_samples |-> m]
  OBVIOUS
<1>5. gap \in Int /\ dur \in Nat /\ last[i] \in Nat /\ (FrameSamples[i] # 0 => dur # 0)
  BY <1>3 DEF Setting, Typed, Histories
<1>6. /\ pts >= 0 /\ ~q.st[i].finished
      /\ r = SendFrame(q, i, f) /\ last' = [last EXCEPT ![i] = FrameEnd(f, m)]
      /\ real' = [real EXCEPT ![i] = Max({@, FrameEnd(f, m)})]
      /\ UNCHANGED <<setup, ended, told, beaten, out>>
  BY <1>1, <1>4 DEF Send, Accepts
<1>7. pts \in Nat /\ m \in Nat
  BY <1>4, <1>5, <1>6
<1>8. f \in FrameType /\ f \in FramesOf(i)
  <2>1. f \in FrameType /\ f.nb_samples = m /\ f.dur = dur
    BY <1>4, <1>5, <1>7 DEF FrameType
  <2>2. CASE FrameSamples[i] = 0
    BY <1>4, <2>1, <2>2 DEF FramesOf, WholeFrames
  <2>3. CASE FrameSamples[i] # 0
    BY <1>4, <1>5, <2>1, <2>3 DEF FramesOf, CutFrames
  <2> QED BY <2>1, <2>2, <2>3
<1>9. FrameEnd(f, m) = FrameEnd(f, 0) /\ FrameEnd(f, 0) \in Nat
  BY <1>4, <1>5, <1>7 DEF FrameEnd
<1>10. Sent(q, i, f, r)
  BY <1>3, <1>6, <1>8, SendFrameIs
<1>11. AllFine(Streams, r)
  <2> SUFFICES ASSUME NEW j \in Streams PROVE Fine(j, r.st[j])
    BY DEF AllFine
  <2>1. Fine(j, q.st[j])
    BY <1>3 DEF AllFine
  <2>2. CASE j # i
    BY <1>10, <2>1, <2>2, FineSame DEF Sent
  <2>3. CASE j = i
    <3>1. PICK fifo, more : fifo = q.st[i].fifo /\ more = Append(fifo, f)
      OBVIOUS
    <3>2. fifo \in Seq(FramesOf(i)) /\ fifo \in Seq(FrameType)
          /\ q.st[i].samples_queued = Samples(fifo)
      BY <2>1, <2>3, <3>1, FramesOfType DEF Fine
    <3>3. more \in Seq(FramesOf(i))
      BY <1>8, <3>1, <3>2, AppendProperties
    <3>4. Samples(more) = Samples(fifo) + f.nb_samples
      BY <1>8, <3>1, <3>2, SamplesAppend
    <3> QED BY <1>10, <2>1, <2>3, <3>1, <3>2, <3>3, <3>4 DEF Fine, Sent
  <2> QED BY <2>2, <2>3
<1> QED BY <1>1, <1>2, <1>3, <1>6, <1>8, <1>9, <1>10, <1>11 DEF Sends

\* Stream i of queue q ends, which is r then.
Finishes(q, i, r) ==
  /\ q = sq /\ r = sq' /\ q \in Queue(Streams) /\ AllFine(Streams, q)
  /\ Setting /\ i \in Streams /\ pc = "unlocked" /\ pc' = "drain"
  /\ Ended(Streams, q, i, r) /\ AllFine(Streams, r)
  /\ UNCHANGED <<setup, ended, told, last, real, beaten, out>>

LEMMA EndedIs ==
  ASSUME Setting, NEW q \in Queue(Streams), AllFine(Streams, q), NEW i \in Streams
  PROVE  LET r == FinishStream(q, i)
         IN  Ended(Streams, q, i, r) /\ AllFine(Streams, r)
<1>1. Streams \subseteq Nat /\ Streams \subseteq Streams /\ Limiting \in [Streams -> BOOLEAN]
      /\ i \in Streams /\ q \in Queue(Streams)
  BY StreamsAre DEF Setting
<1>2. Ended(Streams, q, i, FinishStream(q, i))
  BY ONLY <1>1, FinishStreamIs
<1>3. \A j \in Streams : SameContents(q.st[j], FinishStream(q, i).st[j])
  BY <1>2 DEF Ended, Later
<1>4. AllFine(Streams, FinishStream(q, i))
  BY <1>3, FineSame DEF AllFine
<1> QED BY <1>2, <1>4

LEMMA SendEndIs ==
  ASSUME Typed, NEW i \in Streams, SendEnd(i)
  PROVE  \E q, r : Finishes(q, i, r)
<1>1. PICK q, r : q = sq /\ r = sq'
  OBVIOUS
<1>2. pc = "unlocked" /\ pc # "setup" /\ r = FinishStream(q, i)
  BY <1>1 DEF SendEnd
<1>3. Setting /\ q \in Queue(Streams) /\ AllFine(Streams, q)
  BY <1>1, <1>2, InUse
<1>4. Ended(Streams, q, i, r) /\ AllFine(Streams, r)
  BY <1>2, <1>3, EndedIs
<1> QED BY <1>1, <1>2, <1>3, <1>4 DEF Finishes, SendEnd

\* Frame f of stream i is received from queue q, once it has become p; it is w then,
\* and r after the stream has ended if its encoder has.
Receives(q, p, i, f, w, r) ==
  /\ q = sq /\ r = sq' /\ q \in Queue(Streams) /\ AllFine(Streams, q)
  /\ Setting /\ i \in Streams /\ pc = "drain" /\ pc' = pc
  /\ p = BeforeReceive(q) /\ Advanced(q, p) /\ AllFine(Streams, p)
  /\ Releasable(p, i) /\ Taken(p, i, f, w) /\ AllFine(Streams, w)
  /\ beaten' = Beaten(p)
  /\ IF ended[i]
     THEN Ended(Streams, w, i, r) /\ UNCHANGED out
     ELSE r = w /\ out' = [out EXCEPT ![i] = [end |-> Max({@.end, FrameEnd(f, 0)}),
                                              frames |-> @.frames + 1,
                                              samples |-> @.samples + f.nb_samples,
                                              short |-> f.nb_samples # FrameSamples[i]]]
  /\ r \in Queue(Streams) /\ AllFine(Streams, r)
  /\ UNCHANGED <<setup, ended, told, last, real>>

LEMMA ReceiveIs ==
  ASSUME Typed, Receive
  PROVE  \E q, p, i, f, w, r : Receives(q, p, i, f, w, r)
<1>1. PICK q, r, p, i, f, w :
        /\ q = sq /\ r = sq' /\ p = BeforeReceive(q) /\ i = Min(ReleasableStreams(p))
        /\ f = Frame(p, i) /\ w = Without(p, i)
  OBVIOUS
<1>2. pc = "drain" /\ pc # "setup" /\ ReleasableStreams(p) # {}
  BY <1>1 DEF Receive
<1>3. Setting /\ q \in Queue(Streams) /\ AllFine(Streams, q)
  BY <1>1, <1>2, InUse
<1>4. Advanced(q, p) /\ p \in Queue(Streams)
  BY <1>1, <1>3, BeforeReceiveIs DEF Advanced
<1>5. AllFine(Streams, p)
  BY <1>3, <1>4, FineSame DEF AllFine, Advanced, Later
<1>6. i \in Streams /\ Releasable(p, i)
  <2>1. ReleasableStreams(p) \subseteq Nat
    BY <1>3, StreamsAre DEF ReleasableStreams
  <2>2. i \in ReleasableStreams(p)
    BY <1>1, <1>2, <2>1, LeastOf
  <2> QED BY <2>2 DEF ReleasableStreams
<1>7. Taken(p, i, f, w)
  BY <1>1, <1>3, <1>4, <1>5, <1>6, WithoutIs DEF AllFine
<1>8. w \in Queue(Streams) /\ AllFine(Streams, w)
  BY <1>5, <1>7 DEF Taken, AllFine
<1>9. IF ended[i]
      THEN r = FinishStream(w, i) /\ UNCHANGED out
      ELSE r = w /\ out' = [out EXCEPT ![i] = [end |-> Max({@.end, FrameEnd(f, 0)}),
                                               frames |-> @.frames + 1,
                                               samples |-> @.samples + f.nb_samples,
                                               short |-> f.nb_samples # FrameSamples[i]]]
  BY <1>1 DEF Receive
<1>10. r = FinishStream(w, i) => Ended(Streams, w, i, r) /\ AllFine(Streams, r)
  BY <1>3, <1>6, <1>8, EndedIs
<1>11. r \in Queue(Streams) /\ AllFine(Streams, r)
  BY <1>8, <1>9, <1>10 DEF Ended
<1>12. beaten' = Beaten(p) /\ UNCHANGED <<setup, pc, ended, told, last, real>>
  BY <1>1 DEF Receive
<1> QED
  BY <1>1, <1>2, <1>3, <1>4, <1>5, <1>6, <1>7, <1>8, <1>9, <1>10, <1>11, <1>12 DEF Receives

\* Nothing is to be received from queue q, once it has become r.
Waits(q, r) ==
  /\ q = sq /\ r = sq' /\ q \in Queue(Streams) /\ AllFine(Streams, q)
  /\ Setting /\ pc = "drain" /\ pc' = "unlocked"
  /\ r = BeforeReceive(q) /\ Advanced(q, r) /\ AllFine(Streams, r)
  /\ ReleasableStreams(r) = {} /\ beaten' = Beaten(r)
  /\ IF AllEof(r) THEN told' = [j \in Streams |-> TRUE] ELSE UNCHANGED told
  /\ UNCHANGED <<setup, ended, last, real, out>>

LEMMA WaitIs ==
  ASSUME Typed, ReceiveEof \/ ReceiveAgain
  PROVE  \E q, r : Waits(q, r)
<1>1. PICK q, r : q = sq /\ r = BeforeReceive(q)
  OBVIOUS
<1>2. pc = "drain" /\ pc # "setup" /\ pc' = "unlocked" /\ r = sq'
  BY <1>1 DEF ReceiveEof, ReceiveAgain
<1>3. Setting /\ q \in Queue(Streams) /\ AllFine(Streams, q)
  BY <1>1, <1>2, InUse
<1>4. Advanced(q, r)
  BY <1>1, <1>3, BeforeReceiveIs
<1>5. AllFine(Streams, r)
  BY <1>3, <1>4, FineSame DEF AllFine, Advanced, Later
<1>6. /\ ReleasableStreams(r) = {} /\ beaten' = Beaten(r)
      /\ IF AllEof(r) THEN told' = [j \in Streams |-> TRUE] ELSE UNCHANGED told
      /\ UNCHANGED <<setup, ended, last, real, out>>
  BY <1>1 DEF ReceiveEof, ReceiveAgain
<1> QED BY <1>1, <1>2, <1>3, <1>4, <1>5, <1>6 DEF Waits
-----------------------------------------------------------------------------
(* Types *)

LEMMA TypedAdd ==
  ASSUME Typed, NEW n \in Nat, NEW r, AddStream, n < setup.nb_streams,
         DOMAIN sq.st = 0 .. n - 1, r = sq', New(n, r),
         pc' = IF n + 1 = setup.nb_streams THEN "unlocked" ELSE "setup"
  PROVE  Typed'
<1>1. Setting /\ UNCHANGED <<setup, ended, told, last, real, beaten, out>> /\ pc = "setup"
  BY SettingIs DEF Typed, AddStream
<1>2. Streams' = Streams /\ AllFine(0 .. n, r)'
  BY <1>1, SameSetup DEF New
<1>3. DOMAIN r.st = 0 .. n /\ r \in Queue(0 .. n)
  BY DEF New, Queue
<1>4. AllFine(DOMAIN sq.st, sq)' /\ sq' \in Queue(DOMAIN sq'.st)
  BY <1>2, <1>3
<1>5. Histories'
  BY <1>1, <1>2 DEF Typed, Histories
<1>6. Added'
  <2>1. CASE n + 1 = setup.nb_streams
    <3>1. DOMAIN sq'.st = Streams' /\ pc' = "unlocked"
      BY <1>1, <1>2, <1>3, <2>1 DEF Streams
    <3> QED BY <3>1 DEF Added
  <2>2. CASE n + 1 # setup.nb_streams
    <3>1. n + 1 \in Nat /\ n + 1 < setup'.nb_streams /\ DOMAIN sq'.st = 0 .. (n + 1) - 1
      BY <1>1, <1>3, <2>2 DEF Setting
    <3>2. sq'.head_stream = None
          /\ \A i \in DOMAIN sq'.st : /\ ~Timed(sq', i) /\ sq'.st[i].fifo = <<>>
                                      /\ sq'.st[i].samples_sent = 0 /\ sq'.st[i].frames_sent = 0
      BY <1>3 DEF New
    <3>3. \A i \in Streams' : ~told'[i] /\ out'[i] = Unsent
      BY <1>1, <1>2 DEF Typed, Added
    <3>4. pc' = "setup"
      BY <2>2
    <3> QED BY <3>1, <3>2, <3>3, <3>4 DEF Added, Timed
  <2> QED BY <2>1, <2>2
<1>7. pc' \in {"setup", "unlocked", "drain"}
  OBVIOUS
<1> QED BY <1>1, <1>4, <1>5, <1>6, <1>7 DEF Typed

LEMMA TypedSend ==
  ASSUME Typed, NEW q, NEW i, NEW f, NEW r, Sends(q, i, f, r)
  PROVE  Typed'
<1>1. /\ pc # "setup" /\ setup' = setup /\ pc' \in {"unlocked", "drain"}
      /\ r \in Queue(Streams) /\ AllFine(Streams, r) /\ sq' = r
  BY DEF Sends, Sent
<1>2. Streams' = Streams
  BY <1>1, SameSetup
<1>3. PICK e, a : e = FrameEnd(f, 0) /\ a = real[i]
  OBVIOUS
<1>4. e \in Nat /\ a \in Nat \cup {NOPTS} /\ i \in Streams
  BY <1>3 DEF Sends, Typed, Histories
<1>5. Max({a, e}) \in Nat
  <2>1. a \in Int /\ e \in Int /\ (a \notin Nat => a < 0)
    BY <1>4, NoTimestamp
  <2>2. Max({a, e}) = IF a >= e THEN a ELSE e
    BY <2>1, MaxOfTwo
  <2> QED BY <1>4, <2>1, <2>2
<1>6. last' = [last EXCEPT ![i] = e] /\ real' = [real EXCEPT ![i] = Max({a, e})]
      /\ UNCHANGED <<ended, told, beaten, out>>
  BY <1>3 DEF Sends
<1>7. Histories'
  BY <1>2, <1>4, <1>5, <1>6 DEF Typed, Histories
<1> QED BY <1>1, <1>7, StillTyped

LEMMA TypedEnd ==
  ASSUME Typed, NEW q, NEW i, NEW r, Finishes(q, i, r)
  PROVE  Typed'
<1>1. /\ pc # "setup" /\ setup' = setup /\ pc' \in {"unlocked", "drain"}
      /\ r \in Queue(Streams) /\ AllFine(Streams, r) /\ sq' = r
  BY DEF Finishes, Ended
<1>2. Streams' = Streams
  BY <1>1, SameSetup
<1>3. Histories'
  BY <1>2 DEF Typed, Histories, Finishes
<1> QED BY <1>1, <1>3, StillTyped

LEMMA BeatenIs ==
  ASSUME Typed, NEW q
  PROVE  Beaten(q) \in [Streams -> BOOLEAN] /\ \A j \in Streams : beaten[j] => Beaten(q)[j]
BY DEF Typed, Histories, Beaten

LEMMA TypedReceive ==
  ASSUME Typed, NEW q, NEW p, NEW i, NEW f, NEW w, NEW r, Receives(q, p, i, f, w, r)
  PROVE  Typed'
<1>1. /\ pc # "setup" /\ setup' = setup /\ pc' \in {"unlocked", "drain"}
      /\ r \in Queue(Streams) /\ AllFine(Streams, r) /\ sq' = r
  BY DEF Receives
<1>2. Streams' = Streams
  BY <1>1, SameSetup
<1>3. out' \in [Streams -> OutType]
  <2>1. CASE ended[i]
    BY <2>1 DEF Receives, Typed, Histories
  <2>2. CASE ~ended[i]
    <3>1. PICK o, e, m, t : /\ o = out[i] /\ e = FrameEnd(f, 0) /\ m = Max({o.end, e})
                            /\ t = [end |-> m, frames |-> o.frames + 1,
                                    samples |-> o.samples + f.nb_samples,
                                    short |-> f.nb_samples # FrameSamples[i]]
      OBVIOUS
    <3>2. out' = [out EXCEPT ![i] = t] /\ i \in Streams /\ e \in Nat /\ f.nb_samples \in Nat
      BY <2>2, <3>1 DEF Receives, Taken
    <3>3. o.end \in Nat \cup {NOPTS} /\ o.frames \in Nat /\ o.samples \in Nat
      BY <3>1, <3>2 DEF Typed, Histories, OutType
    <3>4. m \in Nat
      <4>1. o.end \in Int /\ e \in Int /\ (o.end \notin Nat => o.end < 0)
        BY <3>2, <3>3, NoTimestamp
      <4>2. Max({o.end, e}) = IF o.end >= e THEN o.end ELSE e
        BY <4>1, MaxOfTwo
      <4> QED BY <3>1, <3>2, <4>1, <4>2
    <3>5. t \in OutType
      <4>1. PICK b \in BOOLEAN : b = (f.nb_samples # FrameSamples[i])
        OBVIOUS
      <4>2. PICK x, y : x = o.frames + 1 /\ y = o.samples + f.nb_samples
                        /\ x \in Nat /\ y \in Nat
        BY <3>2, <3>3
      <4>3. t = [end |-> m, frames |-> x, samples |-> y, short |-> b]
        BY <3>1, <4>1, <4>2
      <4> QED BY <3>4, <4>2, <4>3 DEF OutType
    <3> QED BY <3>2, <3>5 DEF Typed, Histories
  <2> QED BY <2>1, <2>2
<1>4. beaten' \in [Streams -> BOOLEAN]
  BY BeatenIs DEF Receives
<1>5. Histories'
  BY <1>2, <1>3, <1>4 DEF Typed, Histories, Receives
<1> QED BY <1>1, <1>5, StillTyped

LEMMA TypedWait ==
  ASSUME Typed, NEW q, NEW r, Waits(q, r)
  PROVE  Typed'
<1>1. /\ pc # "setup" /\ setup' = setup /\ pc' \in {"unlocked", "drain"}
      /\ r \in Queue(Streams) /\ AllFine(Streams, r) /\ sq' = r
  BY DEF Waits, Advanced
<1>2. Streams' = Streams
  BY <1>1, SameSetup
<1>3. beaten' \in [Streams -> BOOLEAN]
  BY BeatenIs DEF Waits
<1>4. told' \in [Streams -> BOOLEAN]
  BY DEF Waits, Typed, Histories
<1>5. Histories'
  BY <1>2, <1>3, <1>4 DEF Typed, Histories, Waits
<1> QED BY <1>1, <1>5, StillTyped

\* What a step may be.
StepIs ==
  \/ \E n \in Nat : \E r :
       /\ AddStream /\ n < setup.nb_streams /\ DOMAIN sq.st = 0 .. n - 1 /\ r = sq' /\ New(n, r)
       /\ pc' = IF n + 1 = setup.nb_streams THEN "unlocked" ELSE "setup"
       /\ Ordered(0 .. n - 1, sq) => Ordered(0 .. n, r)
       /\ r.finished => sq.finished \/ \A j \in 0 .. n : r.st[j].finished
       /\ FramesMax[n] # 0 => ~r.st[n].finished
       /\ \A j \in 0 .. n - 1 : r.st[j].finished => sq.st[j].finished
  \/ \E q, i, f, r : Sends(q, i, f, r)
  \/ \E q, i, r : Finishes(q, i, r)
  \/ \E q, p, i, f, w, r : Receives(q, p, i, f, w, r)
  \/ \E q, r : Waits(q, r)
  \/ \E i \in Streams : EncoderEnds(i)
  \/ UNCHANGED vars

LEMMA Steps ==
  ASSUME Typed, [Next]_vars
  PROVE  StepIs
<1>1. CASE AddStream
  BY <1>1, AddStreamIs DEF StepIs
<1>2. ASSUME NEW i \in Streams, NEW gap \in setup.gaps, NEW dur \in setup.durs, Send(i, gap, dur)
      PROVE  StepIs
  BY <1>2, SendIs DEF StepIs
<1>3. ASSUME NEW i \in Streams, SendEnd(i) PROVE StepIs
  BY <1>3, SendEndIs DEF StepIs
<1>4. CASE Receive
  BY <1>4, ReceiveIs DEF StepIs
<1>5. CASE ReceiveEof \/ ReceiveAgain
  BY <1>5, WaitIs DEF StepIs
<1>6. ASSUME NEW i \in Streams, EncoderEnds(i) PROVE StepIs
  BY <1>6 DEF StepIs
<1>7. CASE UNCHANGED vars
  BY <1>7 DEF StepIs
<1> QED BY <1>1, <1>2, <1>3, <1>4, <1>5, <1>6, <1>7 DEF Next

LEMMA TypedNext ==
  ASSUME Typed, [Next]_vars
  PROVE  Typed'
<1>0. StepIs
  BY Steps
<1>1. ASSUME NEW n \in Nat, NEW r,
             AddStream /\ n < setup.nb_streams /\ DOMAIN sq.st = 0 .. n - 1 /\ r = sq' /\ New(n, r)
             /\ pc' = IF n + 1 = setup.nb_streams THEN "unlocked" ELSE "setup"
      PROVE  Typed'
  BY <1>1, TypedAdd
<1>2. ASSUME NEW q, NEW i, NEW f, NEW r, Sends(q, i, f, r) PROVE Typed'
  BY <1>2, TypedSend
<1>3. ASSUME NEW q, NEW i, NEW r, Finishes(q, i, r) PROVE Typed'
  BY <1>3, TypedEnd
<1>4. ASSUME NEW q, NEW p, NEW i, NEW f, NEW w, NEW r, Receives(q, p, i, f, w, r) PROVE Typed'
  BY <1>4, TypedReceive
<1>5. ASSUME NEW q, NEW r, Waits(q, r) PROVE Typed'
  BY <1>5, TypedWait
<1>6. ASSUME NEW i \in Streams, EncoderEnds(i) PROVE Typed'
  <2>1. /\ UNCHANGED <<setup, sq, pc, told, last, real, beaten, out>>
        /\ ended' = [ended EXCEPT ![i] = TRUE]
    BY <1>6 DEF EncoderEnds
  <2>2. Streams' = Streams /\ (AllFine(DOMAIN sq.st, sq) => AllFine(DOMAIN sq.st, sq)')
    BY <2>1 DEF Streams, AllFine, Fine, FramesOf, FramesMax, FrameSamples, Tick
  <2>3. Histories'
    BY <2>1, <2>2 DEF Typed, Histories
  <2>4. Added'
    BY <2>1, <2>2 DEF Typed, Added, Timed
  <2> QED BY <2>1, <2>2, <2>3, <2>4 DEF Typed
<1>7. CASE UNCHANGED vars
  <2>1. UNCHANGED <<setup, sq, pc, ended, told, last, real, beaten, out>>
    BY <1>7 DEF vars
  <2>2. Streams' = Streams /\ (AllFine(DOMAIN sq.st, sq) => AllFine(DOMAIN sq.st, sq)')
    BY <2>1 DEF Streams, AllFine, Fine, FramesOf, FramesMax, FrameSamples, Tick
  <2>3. Histories'
    BY <2>1, <2>2 DEF Typed, Histories
  <2>4. Added'
    BY <2>1, <2>2 DEF Typed, Added, Timed
  <2> QED BY <2>1, <2>2, <2>3, <2>4 DEF Typed
<1> QED BY <1>0, <1>1, <1>2, <1>3, <1>4, <1>5, <1>6, <1>7 DEF StepIs

\* The records of the queue are what the code takes them for: the samples that are
\* counted are those that are queued, whatever was sent, cut and received, and a
\* stream has its own time base from its first frame on.
THEOREM Invariant == Spec => []Typed
<1>1. Typed /\ [Next]_vars => Typed'
  BY TypedNext
<1> QED BY <1>1, TypedInit, PTL DEF Spec
-----------------------------------------------------------------------------
(* Nothing is lost *)

\* All of stream j that was sent was received, or is still queued.
AllThere(s, o, j) ==
  /\ o.samples + s.samples_queued = s.samples_sent
  /\ FrameSamples[j] = 0 => o.frames + Len(s.fifo) = s.frames_sent

\* The setup does not change.
LEMMA SetupStays ==
  ASSUME [Next]_vars
  PROVE  setup' = setup
<1>1. CASE AddStream
  BY <1>1 DEF AddStream
<1>2. ASSUME NEW i \in Streams, NEW gap \in setup.gaps, NEW dur \in setup.durs, Send(i, gap, dur)
      PROVE  setup' = setup
  BY <1>2 DEF Send
<1>3. ASSUME NEW i \in Streams, SendEnd(i) PROVE setup' = setup
  BY <1>3 DEF SendEnd
<1>4. CASE Receive
  BY <1>4 DEF Receive
<1>5. CASE ReceiveEof \/ ReceiveAgain
  BY <1>5 DEF ReceiveEof, ReceiveAgain
<1>6. ASSUME NEW i \in Streams, EncoderEnds(i) PROVE setup' = setup
  BY <1>6 DEF EncoderEnds
<1>7. CASE UNCHANGED vars
  BY <1>7 DEF vars
<1> QED BY <1>1, <1>2, <1>3, <1>4, <1>5, <1>6, <1>7 DEF Next

LEMMA NothingLostNext ==
  ASSUME Typed, NothingLost, [Next]_vars
  PROVE  NothingLost'
<1>0. StepIs
  BY Steps
<1> DEFINE Goal == \A j \in DOMAIN sq'.st : ~ended'[j] => AllThere(sq'.st[j], out'[j], j)
<1> SUFFICES Goal
  <2>1. setup' = setup
    BY SetupStays
  <2> QED BY <2>1 DEF AllThere, NothingLost, FrameSamples
<1> HIDE DEF Goal
<1>1. \A j \in DOMAIN sq.st : ~ended[j] => AllThere(sq.st[j], out[j], j)
  BY DEF NothingLost, AllThere
<1>2. \A j \in Streams : out[j].samples \in Nat /\ out[j].frames \in Nat
  BY DEF Typed, Histories, OutType
<1>3. ASSUME NEW n \in Nat, NEW r, AddStream, n < setup.nb_streams, DOMAIN sq.st = 0 .. n - 1,
             r = sq', New(n, r)
      PROVE  Goal
  <2> SUFFICES ASSUME NEW j \in 0 .. n PROVE AllThere(r.st[j], out'[j], j)
    BY <1>3 DEF Goal, New, Queue
  <2>1. out' = out /\ pc = "setup" /\ Setting
    BY <1>3, SettingIs DEF AddStream, Typed
  <2>2. j \in Streams
    BY <1>3, <2>1 DEF Setting, Streams
  <2>3. out[j] = Unsent
    BY <2>1, <2>2 DEF Typed, Added
  <2>4. /\ r.st[j].fifo = <<>> /\ r.st[j].samples_sent = 0 /\ r.st[j].frames_sent = 0
        /\ r.st[j].samples_queued = Samples(r.st[j].fifo)
    BY <1>3 DEF New, AllFine, Fine
  <2>5. <<>> \in Seq(FrameType) /\ Len(<<>>) = 0
    BY EmptySeq
  <2>6. Samples(<<>>) = 0
    BY <2>5, SamplesNat
  <2> QED BY <2>1, <2>3, <2>4, <2>5, <2>6 DEF AllThere, Unsent
<1>4. ASSUME NEW q, NEW i, NEW f, NEW r, Sends(q, i, f, r) PROVE Goal
  <2>1. DOMAIN sq'.st = Streams /\ DOMAIN sq.st = Streams /\ sq' = r /\ sq = q
        /\ ended' = ended /\ out' = out /\ i \in Streams
    BY <1>4 DEF Sends, Sent, Queue
  <2> SUFFICES ASSUME NEW j \in Streams, ~ended[j] PROVE AllThere(r.st[j], out[j], j)
    BY <2>1 DEF Goal
  <2>2. AllThere(q.st[j], out[j], j)
    BY <1>1, <2>1
  <2>3. CASE j # i
    <3>1. SameContents(q.st[j], r.st[j])
      BY <1>4, <2>3 DEF Sends, Sent
    <3> QED BY <2>2, <3>1 DEF SameContents, AllThere
  <2>4. CASE j = i
    <3>1. PICK s, t, m : s = q.st[i] /\ t = r.st[i] /\ m = f.nb_samples
      OBVIOUS
    <3>2. /\ t.fifo = Append(s.fifo, f) /\ t.samples_queued = s.samples_queued + m
          /\ t.samples_sent = s.samples_sent + m /\ t.frames_sent = s.frames_sent + 1
          /\ f \in FramesOf(i) /\ q \in Queue(Streams)
      BY <1>4, <3>1 DEF Sends, Sent
    <3>3. /\ s.samples_queued \in Int /\ s.samples_sent \in Nat /\ s.frames_sent \in Nat
          /\ s.fifo \in Seq(FrameType) /\ Len(s.fifo) \in Nat
      BY <2>1, <3>1, <3>2, StreamIs
    <3>4. f \in FrameType
      BY <3>2, FramesOfType
    <3>5. m \in Nat /\ Len(t.fifo) = Len(s.fifo) + 1
      BY <3>1, <3>2, <3>3, <3>4, AppendProperties DEF FrameType
    <3>6. out[i].samples \in Nat /\ out[i].frames \in Nat
      BY <1>2, <2>1
    <3>7. /\ out[i].samples + s.samples_queued = s.samples_sent
          /\ FrameSamples[i] = 0 => out[i].frames + Len(s.fifo) = s.frames_sent
      BY <2>2, <2>4, <3>1 DEF AllThere
    <3>8. out[i].samples + t.samples_queued = t.samples_sent
      BY <3>2, <3>3, <3>5, <3>6, <3>7
    <3>9. FrameSamples[i] = 0 => out[i].frames + Len(t.fifo) = t.frames_sent
      <4> HAVE FrameSamples[i] = 0
      <4>1. PICK a, b, c, d, e : /\ a = out[i].frames /\ b = Len(s.fifo) /\ c = s.frames_sent
                                 /\ d = Len(t.fifo) /\ e = t.frames_sent
        OBVIOUS
      <4>2. a + b = c /\ d = b + 1 /\ e = c + 1
        BY <3>2, <3>5, <3>7, <4>1
      <4>3. a \in Nat /\ b \in Nat /\ c \in Nat
        BY <3>3, <3>6, <4>1
      <4>4. a + d = e
        BY ONLY <4>2, <4>3
      <4> QED BY <4>1, <4>4
    <3> QED BY <2>4, <3>1, <3>8, <3>9 DEF AllThere
  <2> QED BY <2>3, <2>4
<1>5. ASSUME NEW q, NEW i, NEW r, Finishes(q, i, r) PROVE Goal
  <2>1. DOMAIN sq'.st = Streams /\ DOMAIN sq.st = Streams /\ sq' = r /\ sq = q
        /\ ended' = ended /\ out' = out
    BY <1>5 DEF Finishes, Ended, Queue
  <2>2. \A j \in Streams : SameContents(q.st[j], r.st[j])
    BY <1>5 DEF Finishes, Ended, Later
  <2> QED BY <1>1, <2>1, <2>2 DEF Goal, SameContents, AllThere
<1>6. ASSUME NEW q, NEW p, NEW i, NEW f, NEW w, NEW r, Receives(q, p, i, f, w, r) PROVE Goal
  <2>1. DOMAIN sq'.st = Streams /\ DOMAIN sq.st = Streams /\ sq' = r /\ sq = q
        /\ ended' = ended /\ i \in Streams
    BY <1>6 DEF Receives, Queue
  <2> SUFFICES ASSUME NEW j \in Streams, ~ended[j] PROVE AllThere(r.st[j], out'[j], j)
    BY <2>1 DEF Goal
  <2>2. SameContents(q.st[j], p.st[j])
    BY <1>6 DEF Receives, Advanced, Later
  <2>3. AllThere(p.st[j], out[j], j)
    BY <1>1, <2>1, <2>2 DEF SameContents, AllThere
  <2>4. SameContents(w.st[j], r.st[j])
    <3>1. CASE ended[i]
      BY <1>6, <3>1 DEF Receives, Ended, Later
    <3>2. CASE ~ended[i]
      BY <1>6, <3>2 DEF Receives, SameContents
    <3> QED BY <3>1, <3>2
  <2>5. CASE j # i
    <3>1. w.st[j] = p.st[j]
      BY <1>6, <2>5 DEF Receives, Taken
    <3>2. out'[j] = out[j]
      BY <1>6, <2>5 DEF Receives, Typed, Histories
    <3> QED BY <2>3, <2>4, <3>1, <3>2 DEF SameContents, AllThere
  <2>6. CASE j = i
    <3>1. PICK s, t, m, o : s = p.st[i] /\ t = w.st[i] /\ m = f.nb_samples /\ o = out[i]
      OBVIOUS
    <3>2. /\ t.samples_queued = s.samples_queued - m /\ m \in Nat
          /\ t.samples_sent = s.samples_sent /\ t.frames_sent = s.frames_sent
          /\ FrameSamples[i] = 0 => Len(t.fifo) = Len(s.fifo) - 1
      BY <1>6, <3>1 DEF Receives, Taken
    <3>3. out'[i].samples = o.samples + m /\ out'[i].frames = o.frames + 1
      <4>1. PICK a, b, c, d : out' = [out EXCEPT ![i] = [end |-> a, frames |-> b, samples |-> c,
                                                         short |-> d]]
                              /\ b = o.frames + 1 /\ c = o.samples + m
        BY <1>6, <2>6, <3>1 DEF Receives
      <4>2. out'[i] = [end |-> a, frames |-> b, samples |-> c, short |-> d]
        BY <2>1, <4>1 DEF Typed, Histories
      <4> QED BY <4>1, <4>2
    <3>4. /\ s.samples_queued \in Int /\ s.samples_sent \in Nat /\ s.frames_sent \in Nat
          /\ Len(s.fifo) \in Nat
      BY <1>6, <2>1, <3>1, StreamIs DEF Receives, Advanced
    <3>5. o.samples \in Nat /\ o.frames \in Nat
      BY <1>2, <2>1, <3>1
    <3>6. /\ o.samples + s.samples_queued = s.samples_sent
          /\ FrameSamples[i] = 0 => o.frames + Len(s.fifo) = s.frames_sent
      BY <2>3, <2>6, <3>1 DEF AllThere
    <3>7. (o.samples + m) + t.samples_queued = t.samples_sent
      BY <3>2, <3>4, <3>5, <3>6
    <3>8. FrameSamples[i] = 0 => (o.frames + 1) + Len(t.fifo) = t.frames_sent
      <4> HAVE FrameSamples[i] = 0
      <4>1. PICK a, b, c, d, e : /\ a = o.frames /\ b = Len(s.fifo) /\ c = s.frames_sent
                                 /\ d = Len(t.fifo) /\ e = t.frames_sent
        OBVIOUS
      <4>2. a + b = c /\ d = b - 1 /\ e = c
        BY <3>2, <3>6, <4>1
      <4>3. a \in Nat /\ b \in Nat /\ c \in Nat
        BY <3>4, <3>5, <4>1
      <4>4. (a + 1) + d = e
        BY ONLY <4>2, <4>3
      <4> QED BY <4>1, <4>4
    <3> QED BY <2>4, <2>6, <3>1, <3>3, <3>7, <3>8 DEF SameContents, AllThere
  <2> QED BY <2>5, <2>6
<1>7. ASSUME NEW q, NEW r, Waits(q, r) PROVE Goal
  <2>1. DOMAIN sq'.st = Streams /\ DOMAIN sq.st = Streams /\ sq' = r /\ sq = q
        /\ ended' = ended /\ out' = out
    BY <1>7 DEF Waits, Advanced, Queue
  <2>2. \A j \in Streams : SameContents(q.st[j], r.st[j])
    BY <1>7 DEF Waits, Advanced, Later
  <2> QED BY <1>1, <2>1, <2>2 DEF Goal, SameContents, AllThere
<1>8. ASSUME NEW i \in Streams, EncoderEnds(i) PROVE Goal
  <2>1. sq' = sq /\ out' = out /\ \A j \in Streams : ended[j] => ended'[j]
    BY <1>8 DEF EncoderEnds, Typed, Histories
  <2>2. DOMAIN sq.st \subseteq Streams
    BY SettingIs DEF Typed, Added, Setting, Streams
  <2> QED BY <1>1, <2>1, <2>2 DEF Goal
<1>9. CASE UNCHANGED vars
  BY <1>1, <1>9 DEF Goal, vars
<1> QED BY <1>0, <1>3, <1>4, <1>5, <1>6, <1>7, <1>8, <1>9 DEF StepIs

\* Whatever is sent of a stream, in however many frames it is cut, it was received or is
\* in its fifo, as long as its encoder takes frames: receive_samples() drops from the
\* fifo as much as it hands out.
THEOREM AllArrives == Spec => []NothingLost
<1>1. Init => NothingLost
  BY DEF Init, NothingLost
<1>2. Typed /\ NothingLost /\ [Next]_vars => NothingLost'
  BY NothingLostNext
<1> QED BY <1>1, <1>2, Invariant, PTL DEF Spec
-----------------------------------------------------------------------------
(* The order of the streams *)

OrderInv == Ordered(DOMAIN sq.st, sq)

\* The time base that a stream has is kept exactly in its own.
LEMMA OwnTick ==
  ASSUME WholeTicks, setup \in Setups, Setting, NEW i \in Streams, NEW s, Fine(i, s)
  PROVE  Multiple(s.tick, Tick[i])
<1>1. CASE s.tick = DefaultTick
  BY <1>1 DEF WholeTicks, Streams, Tick
<1>2. CASE s.tick = Tick[i]
  <2>1. Tick[i] \in Nat
    BY DEF Setting
  <2>2. Tick[i] = 1 * Tick[i] /\ 1 \in Nat
    BY <2>1
  <2> QED BY <1>2, <2>2 DEF Multiple
<1> QED BY <1>1, <1>2 DEF Fine

\* What is received of a stream does not move its head.
LEMMA TakenOrdered ==
  ASSUME NEW q \in Queue(Streams), NEW i \in Streams, NEW f, NEW r, Taken(q, i, f, r),
         Ordered(Streams, q)
  PROVE  Ordered(Streams, r)
<1>1. ASSUME NEW j \in Streams
      PROVE  /\ Timed(q, j) => HeadTime(r, j) = HeadTime(q, j)
             /\ (Timed(r, j) <=> Timed(q, j))
             /\ r.st[j].finished = q.st[j].finished
  BY DEF Taken, HeadTime, Time, Timed
<1>2. r \in Queue(Streams) /\ r.head_stream = q.head_stream
      /\ r.head_finished_stream = q.head_finished_stream
  BY DEF Taken
<1> QED BY <1>1, <1>2, OrderedSame DEF Ordered, Ends

LEMMA OrderNext ==
  ASSUME WholeTicks, Typed, OrderInv, [Next]_vars
  PROVE  OrderInv'
<1>0. StepIs /\ setup' = setup
  BY Steps, SetupStays
<1> SUFFICES Ordered(DOMAIN sq'.st, sq')
  BY <1>0, SameSetup DEF OrderInv
<1>1. Ordered(DOMAIN sq.st, sq)
  BY DEF OrderInv
<1>2. ASSUME NEW n \in Nat, NEW r, DOMAIN sq.st = 0 .. n - 1, r = sq', New(n, r),
             Ordered(0 .. n - 1, sq) => Ordered(0 .. n, r)
      PROVE  Ordered(DOMAIN sq'.st, sq')
  <2>1. DOMAIN r.st = 0 .. n
    BY <1>2 DEF New, Queue
  <2> QED BY <1>1, <1>2, <2>1
<1>3. ASSUME NEW q, NEW i, NEW f, NEW r, Sends(q, i, f, r)
      PROVE  Ordered(DOMAIN sq'.st, sq')
  <2>1. DOMAIN sq'.st = Streams /\ DOMAIN sq.st = Streams /\ sq' = r /\ sq = q /\ i \in Streams
    BY <1>3 DEF Sends, Sent, Queue
  <2>2. Multiple(q.st[i].tick, Tick[i])
    BY <1>3, <2>1, OwnTick DEF Sends, AllFine, Typed
  <2> QED BY <1>1, <1>3, <2>1, <2>2 DEF Sends, Sent
<1>4. ASSUME NEW q, NEW i, NEW r, Finishes(q, i, r)
      PROVE  Ordered(DOMAIN sq'.st, sq')
  <2>1. DOMAIN sq'.st = Streams /\ DOMAIN sq.st = Streams /\ sq' = r /\ sq = q
    BY <1>4 DEF Finishes, Ended, Queue
  <2>2. Streams \subseteq Nat
    BY <1>4, StreamsAre DEF Finishes
  <2> QED BY <1>1, <1>4, <2>1, <2>2, EndedOrdered DEF Finishes
<1>5. ASSUME NEW q, NEW p, NEW i, NEW f, NEW w, NEW r, Receives(q, p, i, f, w, r)
      PROVE  Ordered(DOMAIN sq'.st, sq')
  <2>1. DOMAIN sq'.st = Streams /\ DOMAIN sq.st = Streams /\ sq' = r /\ sq = q
        /\ i \in Streams /\ Streams \subseteq Nat /\ p \in Queue(Streams) /\ w \in Queue(Streams)
    BY <1>5, StreamsAre DEF Receives, Queue, Advanced, Taken
  <2>2. Ordered(Streams, p)
    BY <1>1, <1>5, <2>1 DEF Receives, Advanced
  <2>3. Ordered(Streams, w)
    BY <1>5, <2>1, <2>2, TakenOrdered DEF Receives
  <2>4. Ended(Streams, w, i, r) \/ r = w
    BY <1>5 DEF Receives
  <2> QED BY <2>1, <2>3, <2>4, EndedOrdered
<1>6. ASSUME NEW q, NEW r, Waits(q, r)
      PROVE  Ordered(DOMAIN sq'.st, sq')
  BY <1>1, <1>6 DEF Waits, Advanced, Queue
<1>7. ASSUME NEW i \in Streams, EncoderEnds(i)
      PROVE  Ordered(DOMAIN sq'.st, sq')
  BY <1>1, <1>7 DEF EncoderEnds
<1>8. CASE UNCHANGED vars
  BY <1>1, <1>8 DEF vars
<1> QED BY <1>0, <1>2, <1>3, <1>4, <1>5, <1>6, <1>7, <1>8 DEF StepIs

LEMMA OrderInit == Init => OrderInv
<1> SUFFICES ASSUME Init PROVE OrderInv
  OBVIOUS
<1>1. PICK q, st : q = sq /\ st = [i \in {} |-> NewStream(i)]
  OBVIOUS
<1>2. q = [finished |-> FALSE, head_stream |-> None, head_finished_stream |-> None, st |-> st]
  BY <1>1 DEF Init
<1>3. q.st = st /\ DOMAIN st = {} /\ q.head_stream = None /\ q.head_finished_stream = None
  BY <1>1, <1>2
<1>4. Ends({}, q)
  BY <1>3 DEF Ends, EndsBut
<1>5. Lowest({}, q)
  BY <1>3 DEF Lowest
<1> QED BY <1>1, <1>3, <1>4, <1>5 DEF OrderInv, Ordered

LEMMA OrderHolds == WholeTicks /\ Spec => [](Typed /\ OrderInv)
<1>1. WholeTicks /\ Typed /\ OrderInv /\ [Next]_vars => OrderInv'
  BY OrderNext
<1>2. SUFFICES ASSUME WholeTicks PROVE Spec => [](Typed /\ OrderInv)
  OBVIOUS
<1>3. Typed /\ OrderInv /\ [Next]_vars => OrderInv'
  BY <1>1, <1>2
<1> QED BY <1>3, OrderInit, Invariant, PTL DEF Spec

\* The head stream, which is looked for again only when it advances itself, is always a
\* limiting one that is least ahead, and the counts of samples are those of the fifos;
\* provided the time base that streams begin with is kept exactly when it is replaced.
THEOREM HeadIsFound == WholeTicks /\ Spec => []Consistent
<1>1. Typed => TypeOK
  <2> SUFFICES ASSUME Typed PROVE TypeOK
    OBVIOUS
  <2>1. sq.finished \in BOOLEAN /\ sq.head_stream \in {None} \cup DOMAIN sq.st
        /\ sq.head_finished_stream \in {None} \cup DOMAIN sq.st
    BY DEF Typed, Queue
  <2>2. ASSUME NEW i \in DOMAIN sq.st
        PROVE  /\ sq.st[i].head_ts \in Int /\ sq.st[i].finished \in BOOLEAN
               /\ sq.st[i].samples_queued = Samples(sq.st[i].fifo)
    <3>1. PICK D, q : D = DOMAIN sq.st /\ q = sq
      OBVIOUS
    <3>2. q \in Queue(D) /\ i \in D /\ Fine(i, q.st[i])
      BY <3>1 DEF Typed, AllFine
    <3> QED BY <3>1, <3>2, StreamIs DEF Fine
  <2> QED BY <2>1, <2>2 DEF TypeOK, Typed
<1>2. OrderInv => HeadIsLowest
  BY DEF OrderInv, Ordered, Lowest, HeadIsLowest
<1> QED BY <1>1, <1>2, OrderHolds, PTL DEF Consistent

\* When a limiting stream has ended, all streams that are as far ahead have ended too,
\* whichever of them got there first.
THEOREM EndTogether == WholeTicks /\ Spec => []FinishedTogether
<1>1. Typed /\ OrderInv => FinishedTogether
  <2> SUFFICES ASSUME Typed, OrderInv, NEW i \in DOMAIN sq.st, NEW j \in DOMAIN sq.st,
                      Limiting[i], sq.st[i].finished, Timed(sq, i), Timed(sq, j),
                      HeadTime(sq, i) <= HeadTime(sq, j)
               PROVE  sq.st[j].finished
    BY DEF FinishedTogether
  <2>1. PICK D, q, hf : D = DOMAIN sq.st /\ q = sq /\ hf = q.head_finished_stream
    OBVIOUS
  <2>2. q \in Queue(D) /\ EndsBut(D, q, None) /\ hf \in {None} \cup D /\ D \subseteq Nat
    BY <2>1, SettingIs DEF Typed, OrderInv, Ordered, Ends, Queue, Added, Streams, Setting
  <2>3. hf # None /\ hf \in D
    BY <2>1, <2>2 DEF EndsBut
  <2>4. /\ HeadTime(q, hf) <= HeadTime(q, i)
        /\ \A k \in D \ {None} : Timed(q, k) /\ HeadTime(q, hf) <= HeadTime(q, k)
                                   => q.st[k].finished
    BY <2>1, <2>2, <2>3 DEF EndsBut
  <2>5. HeadTime(q, hf) \in Int /\ HeadTime(q, i) \in Int /\ HeadTime(q, j) \in Int
    BY <2>1, <2>2, <2>3, HeadTimeInt
  <2>6. HeadTime(q, hf) <= HeadTime(q, j)
    BY <2>1, <2>4, <2>5
  <2>7. j \in D \ {None}
    BY <2>1, <2>2 DEF None
  <2> QED BY <2>1, <2>4, <2>6, <2>7
<1> QED BY <1>1, OrderHolds, PTL
-----------------------------------------------------------------------------
(* No stream gets ahead *)

\* Unless it was moved by a fake heartbeat the head of stream j counts the stream's own
\* units, and is no larger than the largest end, e, of what was sent on it.
Own(s, j, e) ==
  s.head_ts # NOPTS => s.tick = Tick[j] /\ e # NOPTS /\ s.head_ts <= e

\* What ends at e on stream i is not ahead of s.
Held(e, i, s) ==
  e # NOPTS => s.head_ts # NOPTS /\ e * Tick[i] <= s.head_ts * s.tick

AheadInv ==
  pc # "setup" =>
    \A j \in Streams : ~beaten[j] =>
      /\ Own(sq.st[j], j, real[j])
      /\ Limiting[j] => \A i \in Streams : Held(out[i].end, i, sq.st[j])

\* When a frame is sent the head is moved by what was really sent at most.
LEMMA AheadSend ==
  ASSUME Typed, AheadInv, NEW q, NEW i, NEW f, NEW r, Sends(q, i, f, r),
         NEW j \in Streams, ~beaten[j]
  PROVE  /\ Own(r.st[j], j, real'[j])
         /\ Limiting[j] => \A k \in Streams : Held(out[k].end, k, r.st[j])
<1>1. /\ q = sq /\ q \in Queue(Streams) /\ r \in Queue(Streams) /\ i \in Streams
      /\ pc # "setup" /\ Sent(q, i, f, r)
  BY DEF Sends, Sent
<1>2. /\ Own(q.st[j], j, real[j])
      /\ Limiting[j] => \A k \in Streams : Held(out[k].end, k, q.st[j])
  BY <1>1 DEF AheadInv
<1>3. CASE j # i
  <2>1. r.st[j].head_ts = q.st[j].head_ts /\ r.st[j].tick = q.st[j].tick
    BY <1>1, <1>3 DEF Sent, SameContents
  <2>2. real'[j] = real[j]
    BY <1>1, <1>3 DEF Sends, Typed, Histories
  <2> QED BY <1>2, <2>1, <2>2 DEF Own, Held
<1>4. CASE j = i
  <2>1. PICK a, b, e, g, m, d : /\ a = q.st[i].head_ts /\ b = r.st[i].head_ts
                                /\ e = FrameEnd(f, 0) /\ g = real[i]
                                /\ m = Max({g, e}) /\ d = q.st[i].tick
    OBVIOUS
  <2>2. r.st[i].tick = Tick[i] /\ e \in Nat /\ real' = [real EXCEPT ![i] = m]
    BY <1>1, <2>1 DEF Sends, Sent
  <2>3. real'[j] = m
    BY <1>1, <1>4, <2>2 DEF Typed, Histories
  <2>4. a \in Nat \cup {NOPTS} /\ g \in Nat \cup {NOPTS} /\ Tick[i] \in Nat \ {0} /\ NOPTS \in Int
        /\ NOPTS \notin Nat /\ a \in Int /\ g \in Int /\ e \in Int
    BY <1>1, <2>1, <2>2, StreamIs, NoTimestamp DEF Typed, Histories, Sends, Setting
  <2>5. a # NOPTS => d = Tick[i] /\ g # NOPTS /\ a <= g
    BY <1>2, <1>4, <2>1 DEF Own
  <2>6. b = IF a # NOPTS /\ a >= e THEN a ELSE e
    BY <1>1, <2>1, <2>5 DEF Sent, Timed
  <2>7. m = IF g >= e THEN g ELSE e
    BY <2>1, <2>4, MaxOfTwo
  <2>8. m # NOPTS /\ b # NOPTS /\ b <= m /\ (a # NOPTS => a <= b)
    <3>1. g >= e => g \in Nat
      BY <2>2, <2>4
    <3> QED BY <2>2, <2>4, <2>5, <2>6, <2>7, <3>1
  <2>9. Own(r.st[j], j, real'[j])
    BY <1>4, <2>1, <2>2, <2>3, <2>8 DEF Own
  <2>10. ASSUME Limiting[j], NEW k \in Streams PROVE Held(out[k].end, k, r.st[j])
    <3>1. PICK x, y : x = out[k].end /\ y = x * Tick[k]
      OBVIOUS
    <3>2. x # NOPTS => a # NOPTS /\ y <= a * d
      BY <1>2, <1>4, <2>1, <2>10, <3>1 DEF Held
    <3>3. x # NOPTS => y \in Int
      <4>1. x \in Nat \cup {NOPTS} /\ Tick[k] \in Nat
        BY <3>1 DEF Typed, Histories, OutType, Sends, Setting
      <4> QED BY <3>1, <4>1, <2>4, Products
    <3>4. ASSUME x # NOPTS PROVE y <= b * Tick[i]
      <4>1. PICK u : u = Tick[i] /\ u \in Nat \ {0}
        BY <2>4
      <4>2. a \in Nat /\ b \in Nat /\ a <= b /\ y <= a * u /\ y \in Int
        BY <2>2, <2>4, <2>5, <2>6, <2>8, <3>2, <3>3, <3>4, <4>1
      <4>3. a * u <= b * u /\ a * u \in Int /\ b * u \in Int
        BY <4>1, <4>2, Products
      <4> QED BY <4>1, <4>2, <4>3
    <3> QED BY <1>4, <2>1, <2>2, <2>8, <3>1, <3>4 DEF Held
  <2> QED BY <2>9, <2>10
<1> QED BY <1>3, <1>4

\* From queue q to queue p the streams have advanced: those that are not counted as
\* beaten then have not.
LEMMA AheadAdvanced ==
  ASSUME Typed, AheadInv, pc # "setup", NEW p, Advanced(sq, p), NEW j \in Streams, ~Beaten(p)[j]
  PROVE  /\ Own(p.st[j], j, real[j])
         /\ Limiting[j] => \A i \in Streams : Held(out[i].end, i, p.st[j])
<1>1. ~beaten[j] /\ p.st[j].head_ts = sq.st[j].head_ts
  BY DEF Beaten
<1>2. p.st[j].tick = sq.st[j].tick
  BY DEF Advanced, Later, SameContents
<1> QED BY <1>1, <1>2 DEF AheadInv, Own, Held

\* What is received ends no later than the head of the head stream.
LEMMA AheadReceive ==
  ASSUME Typed, OrderInv, AheadInv, NEW q, NEW p, NEW i, NEW f, NEW w, NEW r,
         Receives(q, p, i, f, w, r), NEW j \in Streams, ~Beaten(p)[j]
  PROVE  /\ Own(r.st[j], j, real[j])
         /\ Limiting[j] => \A k \in Streams : Held(out'[k].end, k, r.st[j])
<1>1. /\ q = sq /\ p \in Queue(Streams) /\ i \in Streams /\ pc # "setup"
      /\ Advanced(q, p) /\ Taken(p, i, f, w) /\ Releasable(p, i) /\ DOMAIN sq.st = Streams
  BY DEF Receives, Advanced, Queue
<1>2. /\ Own(p.st[j], j, real[j])
      /\ Limiting[j] => \A k \in Streams : Held(out[k].end, k, p.st[j])
  BY <1>1, AheadAdvanced
<1>3. r.st[j].head_ts = p.st[j].head_ts /\ r.st[j].tick = p.st[j].tick
  <2>1. w.st[j].head_ts = p.st[j].head_ts /\ w.st[j].tick = p.st[j].tick
    BY <1>1 DEF Taken
  <2>2. r.st[j].head_ts = w.st[j].head_ts /\ r.st[j].tick = w.st[j].tick
    BY DEF Receives, Ended, Later, SameContents
  <2> QED BY <2>1, <2>2
<1>4. Own(r.st[j], j, real[j])
  BY <1>2, <1>3 DEF Own
<1>5. ASSUME Limiting[j], NEW k \in Streams PROVE Held(out'[k].end, k, r.st[j])
  <2>1. Held(out[k].end, k, r.st[j])
    BY <1>2, <1>3, <1>5 DEF Held
  <2>2. CASE k # i \/ ended[i]
    <3>1. out'[k] = out[k]
      BY <1>1, <2>2 DEF Receives, Typed, Histories
    <3> QED BY <2>1, <3>1
  <2>3. CASE k = i /\ ~ended[i]
    <3>1. PICK x, e, m : x = out[i].end /\ e = FrameEnd(f, 0) /\ m = Max({x, e})
      OBVIOUS
    <3>2. out'[i].end = m
      <4>1. PICK a, b, c, d : out' = [out EXCEPT ![i] = [end |-> a, frames |-> b, samples |-> c,
                                                         short |-> d]] /\ a = m
        BY <2>3, <3>1 DEF Receives
      <4>2. out'[i] = [end |-> a, frames |-> b, samples |-> c, short |-> d]
        BY <1>1, <4>1 DEF Typed, Histories
      <4> QED BY <4>1, <4>2
    <3>3. e \in Nat /\ x \in Nat \cup {NOPTS} /\ NOPTS \in Int /\ x \in Int /\ e \in Int
          /\ NOPTS \notin Nat
      BY <1>1, <3>1, NoTimestamp DEF Taken, Typed, Histories, OutType
    <3>4. m = x \/ m = e
      BY <3>1, <3>3, MaxOfTwo
    <3>5. m = x => Held(m, i, r.st[j])
      BY <2>1, <2>3, <3>1
    <3>6. Held(e, i, r.st[j])
      <4>1. PICK hs : hs = p.head_stream
        OBVIOUS
      <4>2. Lowest(Streams, p)
        BY <1>1 DEF OrderInv, Advanced, Ordered
      <4>3. e = FrameEnd(p.st[i].fifo[1], NbSamples(p.st[i])) /\ p.st[i].fifo # <<>>
            /\ DOMAIN p.st = Streams
        BY <1>1, <3>1 DEF Taken, Releasable, Queue
      <4>4. hs # None /\ Time(p, i, e) <= HeadTime(p, hs)
        BY <1>1, <1>5, <3>3, <4>1, <4>3 DEF Releasable
      <4>5. Timed(p, j) /\ HeadTime(p, hs) <= HeadTime(p, j) /\ hs \in Streams
        BY <1>5, <4>1, <4>2, <4>4 DEF Lowest
      <4>6. p.st[i].tick = Tick[i]
        BY <1>1, <4>3 DEF Receives, AllFine, Fine
      <4>7. Time(p, i, e) = e * Tick[i] /\ HeadTime(p, j) = r.st[j].head_ts * r.st[j].tick
            /\ r.st[j].head_ts # NOPTS
        BY <1>3, <4>5, <4>6 DEF Time, HeadTime, Timed
      <4>8. HeadTime(p, hs) \in Int /\ HeadTime(p, j) \in Int
        BY <1>1, <4>5, HeadTimeInt
      <4>9. Time(p, i, e) \in Int
        <5>1. Tick[i] \in Nat
          BY <1>1 DEF Receives, Setting
        <5> QED BY <3>3, <4>7, <5>1, Products
      <4>10. Time(p, i, e) <= HeadTime(p, j)
        BY <4>4, <4>5, <4>8, <4>9
      <4> QED BY <4>7, <4>10 DEF Held
    <3> QED BY <2>3, <3>2, <3>4, <3>5, <3>6
  <2> QED BY <2>2, <2>3
<1> QED BY <1>4, <1>5

LEMMA AheadNext ==
  ASSUME Typed, OrderInv, AheadInv, [Next]_vars
  PROVE  AheadInv'
<1>0. StepIs /\ setup' = setup
  BY Steps, SetupStays
<1> DEFINE Goal == pc' # "setup" =>
      \A j \in Streams : ~beaten'[j] =>
        /\ Own(sq'.st[j], j, real'[j])
        /\ Limiting[j] => \A i \in Streams : Held(out'[i].end, i, sq'.st[j])
<1> SUFFICES Goal
  BY <1>0 DEF AheadInv, Own, Held, Streams, Limiting, Tick
<1> HIDE DEF Goal
<1>1. ASSUME NEW n \in Nat, NEW r, AddStream, n < setup.nb_streams, DOMAIN sq.st = 0 .. n - 1,
             r = sq', New(n, r), pc' = IF n + 1 = setup.nb_streams THEN "unlocked" ELSE "setup"
      PROVE  Goal
  <2> SUFFICES ASSUME pc' # "setup", NEW j \in Streams, NEW i \in Streams
               PROVE  Own(sq'.st[j], j, real'[j]) /\ Held(out'[i].end, i, sq'.st[j])
    BY DEF Goal
  <2>1. Setting
    BY SettingIs DEF Typed
  <2>2. j \in 0 .. n
    BY <1>1, <2>1 DEF Streams, Setting
  <2>3. sq'.st[j].head_ts = NOPTS
    BY <1>1, <2>2 DEF New, Timed
  <2>4. out' = out /\ pc = "setup"
    BY <1>1 DEF AddStream
  <2>5. out'[i] = Unsent
    BY <2>4 DEF Typed, Added
  <2> QED BY <2>3, <2>5 DEF Own, Held, Unsent
<1>2. ASSUME NEW q, NEW i, NEW f, NEW r, Sends(q, i, f, r) PROVE Goal
  <2>1. sq' = r /\ beaten' = beaten /\ out' = out
    BY <1>2 DEF Sends
  <2> QED BY <1>2, <2>1, AheadSend DEF Goal
<1>3. ASSUME NEW q, NEW i, NEW r, Finishes(q, i, r) PROVE Goal
  <2>1. sq' = r /\ beaten' = beaten /\ out' = out /\ real' = real /\ pc # "setup" /\ sq = q
    BY <1>3 DEF Finishes
  <2>2. \A j \in Streams : r.st[j].head_ts = q.st[j].head_ts /\ r.st[j].tick = q.st[j].tick
    BY <1>3 DEF Finishes, Ended, Later, SameContents
  <2> QED BY <2>1, <2>2 DEF Goal, AheadInv, Own, Held
<1>4. ASSUME NEW q, NEW p, NEW i, NEW f, NEW w, NEW r, Receives(q, p, i, f, w, r) PROVE Goal
  <2>1. sq' = r /\ beaten' = Beaten(p) /\ real' = real
    BY <1>4 DEF Receives
  <2> QED BY <1>4, <2>1, AheadReceive DEF Goal
<1>5. ASSUME NEW q, NEW r, Waits(q, r) PROVE Goal
  <2>1. sq' = r /\ beaten' = Beaten(r) /\ real' = real /\ out' = out /\ pc # "setup"
        /\ Advanced(sq, r)
    BY <1>5 DEF Waits
  <2> QED BY <2>1, AheadAdvanced DEF Goal
<1>6. ASSUME NEW i \in Streams, EncoderEnds(i) PROVE Goal
  BY <1>6 DEF Goal, EncoderEnds, AheadInv
<1>7. CASE UNCHANGED vars
  BY <1>7 DEF Goal, vars, AheadInv
<1> QED BY <1>0, <1>1, <1>2, <1>3, <1>4, <1>5, <1>6, <1>7 DEF StepIs

\* Nothing is received of any stream that ends after what was really sent on a limiting
\* one, unless a fake heartbeat has moved the limiting one on.
THEOREM LimitsHold == WholeTicks /\ Spec => []NotAhead
<1>1. Init => AheadInv
  BY DEF Init, AheadInv
<1>2. Typed /\ OrderInv /\ AheadInv /\ [Next]_vars => AheadInv'
  BY AheadNext
<1>3. Typed /\ AheadInv => NotAhead
  <2> SUFFICES ASSUME Typed, AheadInv, NEW i \in Streams, NEW j \in Streams,
                      Limiting[j], ~beaten[j], out[i].end # NOPTS
               PROVE  real[j] # NOPTS /\ out[i].end * Tick[i] <= real[j] * Tick[j]
    BY DEF NotAhead
  <2>1. pc # "setup"
    BY DEF Typed, Added, Unsent
  <2>2. PICK s, g, a, u, y : /\ s = sq.st[j] /\ g = real[j] /\ a = s.head_ts /\ u = Tick[j]
                             /\ y = out[i].end * Tick[i]
    OBVIOUS
  <2>3. a # NOPTS /\ y <= a * s.tick /\ s.tick = u /\ g # NOPTS /\ a <= g
    BY <2>1, <2>2 DEF AheadInv, Own, Held
  <2>4. Setting /\ sq \in Queue(Streams)
    BY <2>1, InUse
  <2>5. a \in Nat /\ g \in Nat /\ u \in Nat \ {0}
    <3>1. PICK q : q = sq /\ q \in Queue(Streams)
      BY <2>4
    <3> QED BY <2>2, <2>3, <2>4, <3>1, StreamIs DEF Typed, Histories, Setting
  <2>6. y \in Int
    <3>1. out[i].end \in Nat /\ Tick[i] \in Nat
      BY <2>4 DEF Typed, Histories, OutType, Setting
    <3> QED BY <2>2, <3>1, Products
  <2>7. a * u <= g * u /\ a * u \in Int /\ g * u \in Int
    BY <2>3, <2>5, Products
  <2> QED BY <2>2, <2>3, <2>6, <2>7
<1> QED BY <1>1, <1>2, <1>3, OrderHolds, PTL DEF Spec
-----------------------------------------------------------------------------
(* What the encoders are given *)

\* A stream of which a short frame was received has nothing more to give.
ShortInv ==
  pc # "setup" => \A j \in Streams : FrameSamples[j] # 0 /\ out[j].short =>
                    sq.st[j].finished /\ sq.st[j].fifo = <<>>

LEMMA ShortNext ==
  ASSUME Typed, ShortInv, [Next]_vars
  PROVE  /\ ShortInv'
         /\ \A j \in Streams : FrameSamples[j] # 0 /\ out[j].short => out'[j] = out[j]
<1>0. StepIs /\ setup' = setup
  BY Steps, SetupStays
<1> DEFINE Goal(j) == /\ pc' # "setup" /\ out'[j].short =>
                           sq'.st[j].finished /\ sq'.st[j].fifo = <<>>
                      /\ out[j].short => out'[j] = out[j]
<1> SUFFICES ASSUME NEW j \in Streams, FrameSamples[j] # 0 PROVE Goal(j)
  BY <1>0 DEF ShortInv, FrameSamples, Streams
<1> HIDE DEF Goal
<1>1. pc # "setup" /\ out[j].short => sq.st[j].finished /\ sq.st[j].fifo = <<>>
  BY DEF ShortInv
<1>2. CASE AddStream
  <2>1. out' = out /\ out[j] = Unsent
    BY <1>2 DEF AddStream, Typed, Added
  <2> QED BY <2>1 DEF Unsent, Goal
<1>3. ASSUME NEW q, NEW i, NEW f, NEW r, Sends(q, i, f, r) PROVE Goal(j)
  <2>1. out' = out /\ sq' = r /\ sq = q /\ pc # "setup" /\ ~q.st[i].finished
    BY <1>3 DEF Sends
  <2>2. j # i => r.st[j].fifo = q.st[j].fifo /\ (q.st[j].finished => r.st[j].finished)
    BY <1>3 DEF Sends, Sent, SameContents
  <2> QED BY <1>1, <2>1, <2>2 DEF Goal
<1>4. ASSUME NEW q, NEW i, NEW r, Finishes(q, i, r) PROVE Goal(j)
  <2>1. out' = out /\ sq' = r /\ sq = q /\ pc # "setup"
    BY <1>4 DEF Finishes
  <2>2. r.st[j].fifo = q.st[j].fifo /\ (q.st[j].finished => r.st[j].finished)
    BY <1>4 DEF Finishes, Ended, Later, SameContents
  <2> QED BY <1>1, <2>1, <2>2 DEF Goal
<1>5. ASSUME NEW q, NEW p, NEW i, NEW f, NEW w, NEW r, Receives(q, p, i, f, w, r) PROVE Goal(j)
  <2>1. sq' = r /\ sq = q /\ pc # "setup" /\ i \in Streams
    BY <1>5 DEF Receives
  <2>2. p.st[j].fifo = q.st[j].fifo /\ (q.st[j].finished => p.st[j].finished)
    BY <1>5 DEF Receives, Advanced, Later, SameContents
  <2>3. r.st[j].fifo = w.st[j].fifo /\ (w.st[j].finished => r.st[j].finished)
    BY <1>5 DEF Receives, Ended, Later, SameContents
  <2>4. CASE j # i
    <3>1. w.st[j] = p.st[j]
      BY <1>5, <2>4 DEF Receives, Taken
    <3>2. out'[j] = out[j]
      BY <1>5, <2>4 DEF Receives, Typed, Histories
    <3> QED BY <1>1, <2>1, <2>2, <2>3, <3>1, <3>2 DEF Goal
  <2>5. CASE j = i
    <3>1. q.st[j].fifo # <<>>
      BY <1>5, <2>2, <2>5 DEF Receives, Releasable
    <3>2. ~out[j].short
      BY <1>1, <2>1, <3>1
    <3>3. CASE ended[i]
      <4>1. out'[j] = out[j]
        BY <1>5, <3>3 DEF Receives
      <4> QED BY <3>2, <4>1 DEF Goal
    <3>4. CASE ~ended[i]
      <4>0. PICK d \in BOOLEAN : d = (f.nb_samples # FrameSamples[i])
        OBVIOUS
      <4>1. PICK a, b, c : out' = [out EXCEPT ![i] = [end |-> a, frames |-> b, samples |-> c,
                                                      short |-> d]]
        BY <1>5, <3>4, <4>0 DEF Receives
      <4>2. out'[i] = [end |-> a, frames |-> b, samples |-> c, short |-> d]
        BY <2>1, <4>1 DEF Typed, Histories
      <4>3. out'[j].short => f.nb_samples # FrameSamples[i]
        <5>1. d => f.nb_samples # FrameSamples[i]
          BY <4>0
        <5>2. out'[i].short = d
          BY <4>2
        <5> QED BY <2>5, <5>1, <5>2
      <4>4. f.nb_samples # FrameSamples[i] => p.st[i].finished /\ w.st[i].fifo = <<>>
                                              /\ w.st[i].finished
        BY <1>5, <2>5 DEF Receives, Taken
      <4> QED BY <2>1, <2>3, <2>5, <3>2, <4>3, <4>4 DEF Goal
    <3> QED BY <3>3, <3>4
  <2> QED BY <2>4, <2>5
<1>6. ASSUME NEW q, NEW r, Waits(q, r) PROVE Goal(j)
  <2>1. out' = out /\ sq' = r /\ sq = q /\ pc # "setup"
    BY <1>6 DEF Waits
  <2>2. r.st[j].fifo = q.st[j].fifo /\ (q.st[j].finished => r.st[j].finished)
    BY <1>6 DEF Waits, Advanced, Later, SameContents
  <2> QED BY <1>1, <2>1, <2>2 DEF Goal
<1>7. ASSUME NEW i \in Streams, EncoderEnds(i) PROVE Goal(j)
  BY <1>1, <1>7 DEF Goal, EncoderEnds
<1>8. CASE UNCHANGED vars
  BY <1>1, <1>8 DEF Goal, vars
<1> QED BY <1>0, <1>2, <1>3, <1>4, <1>5, <1>6, <1>7, <1>8 DEF StepIs

\* If there is more than one stream the first is not limited to no frames: it would
\* finish the queue before the others are added.
FirstGoesOn == \A c \in Setups : c.nb_streams > 1 => c.frames_max[0] # 0

\* The queue is only finished when all streams are, and when the end is told there is
\* nothing left that could be received.
EndInv ==
  /\ IF pc = "setup"
     THEN ~sq.finished /\ (0 \in DOMAIN sq.st => ~sq.st[0].finished)
     ELSE sq.finished => \A j \in Streams : sq.st[j].finished
  /\ (\E j \in Streams : told[j]) => ReleasableStreams(sq) = {} /\ AllEof(sq)

\* Whether a stream can be received from depends on its contents, its end and its head,
\* and on the head stream.
LEMMA ReleasableSame ==
  ASSUME NEW D, NEW q \in Queue(D), NEW r \in Queue(D), r.head_stream = q.head_stream,
         \A j \in D : /\ SameContents(q.st[j], r.st[j]) /\ r.st[j].head_ts = q.st[j].head_ts
                      /\ (r.st[j].finished <=> q.st[j].finished),
         NEW i \in D
  PROVE  Releasable(r, i) => Releasable(q, i)
<1>1. PICK s, t, h : s = q.st[i] /\ t = r.st[i] /\ h = q.head_stream /\ h = r.head_stream
  OBVIOUS
<1>2. /\ t.fifo = s.fifo /\ t.frame_samples = s.frame_samples
      /\ t.samples_queued = s.samples_queued /\ (t.finished <=> s.finished) /\ t.tick = s.tick
  BY <1>1 DEF SameContents
<1>3. NbSamples(t) = NbSamples(s)
  BY <1>2 DEF NbSamples
<1>4. \A ts : Time(r, i, ts) = Time(q, i, ts)
  BY <1>1, <1>2 DEF Time
<1>5. h # None => HeadTime(r, h) = HeadTime(q, h)
  BY <1>1 DEF HeadTime, Time, SameContents, Queue
<1>6. DOMAIN r.st = DOMAIN q.st
  BY DEF Queue
<1> QED BY <1>1, <1>2, <1>3, <1>4, <1>5, <1>6 DEF Releasable

\* A queue that has ended has no stream that goes on.
LEMMA AllFinished ==
  ASSUME EndInv, pc # "setup", AllEof(sq)
  PROVE  \A j \in Streams : sq.st[j].finished
BY DEF EndInv, AllEof, Eof

\* Nothing happens to a queue whose end was told when it is asked for more.
LEMMA ToldWaits ==
  ASSUME EndInv, NEW j \in Streams, told[j]
  PROVE  BeforeReceive(sq) = sq
BY DEF EndInv, BeforeReceive

LEMMA EndNext ==
  ASSUME FirstGoesOn, Typed, EndInv, [Next]_vars
  PROVE  /\ EndInv'
         /\ \A j \in Streams : told[j] => out'[j].frames = out[j].frames
<1>0. StepIs /\ setup' = setup
  BY Steps, SetupStays
<1> DEFINE Fin  == IF pc' = "setup"
                   THEN ~sq'.finished /\ (0 \in DOMAIN sq'.st => ~sq'.st[0].finished)
                   ELSE sq'.finished => \A j \in Streams : sq'.st[j].finished
           End  == (\E j \in Streams : told'[j]) => ReleasableStreams(sq') = {} /\ AllEof(sq')
           Same == \A j \in Streams : told[j] => out'[j].frames = out[j].frames
           Goal == Fin /\ End /\ Same
<1> SUFFICES Goal
  BY <1>0, Zenon DEF EndInv, ReleasableStreams, Releasable, AllEof, Eof, Streams, Limiting,
       HeadTime, Time
<1> HIDE DEF Fin, End, Same
<1>1. ASSUME NEW n \in Nat, NEW r, AddStream, n < setup.nb_streams, DOMAIN sq.st = 0 .. n - 1,
             r = sq', New(n, r), pc' = IF n + 1 = setup.nb_streams THEN "unlocked" ELSE "setup",
             r.finished => sq.finished \/ \A j \in 0 .. n : r.st[j].finished,
             FramesMax[n] # 0 => ~r.st[n].finished,
             \A j \in 0 .. n - 1 : r.st[j].finished => sq.st[j].finished
      PROVE  Goal
  <2>1. pc = "setup" /\ told' = told /\ out' = out /\ Setting
    BY <1>1, SettingIs DEF AddStream, Typed
  <2>2. \A j \in Streams : ~told[j]
    BY <2>1 DEF Typed, Added
  <2>3. End /\ Same
    BY <2>1, <2>2 DEF End, Same
  <2>4. ~sq.finished /\ (0 \in 0 .. n - 1 => ~sq.st[0].finished)
    BY <1>1, <2>1 DEF EndInv
  <2>5. CASE n + 1 = setup.nb_streams
    <3>1. Streams = 0 .. n /\ pc' # "setup"
      BY <1>1, <2>1, <2>5 DEF Streams, Setting
    <3> QED BY <1>1, <2>3, <2>4, <3>1 DEF Fin
  <2>6. CASE n + 1 # setup.nb_streams
    <3>1. setup.nb_streams > 1 /\ setup.nb_streams \in Nat
      BY <1>1, <2>1, <2>6 DEF Setting
    <3>2. FramesMax[0] # 0
      BY <3>1 DEF FirstGoesOn, FramesMax, Typed
    <3>3. 0 \in 0 .. n /\ (n # 0 => 0 \in 0 .. n - 1)
      OBVIOUS
    <3>4. ~r.st[0].finished
      BY <1>1, <2>4, <3>2, <3>3
    <3> QED BY <1>1, <2>3, <2>4, <3>3, <3>4 DEF Fin
  <2> QED BY <2>5, <2>6
<1>2. ASSUME NEW q, NEW i, NEW f, NEW r, Sends(q, i, f, r) PROVE Goal
  <2>1. /\ sq' = r /\ sq = q /\ out' = out /\ told' = told /\ pc # "setup" /\ pc' # "setup"
        /\ i \in Streams /\ ~q.st[i].finished
    BY <1>2 DEF Sends
  <2>2. Fin
    BY <1>2, <2>1 DEF Fin, EndInv, Sends, Sent
  <2>3. ~\E j \in Streams : told[j]
    BY <2>1, AllFinished DEF EndInv
  <2> QED BY <2>1, <2>2, <2>3 DEF End, Same
<1>3. ASSUME NEW q, NEW i, NEW r, Finishes(q, i, r) PROVE Goal
  <2>1. /\ sq' = r /\ sq = q /\ out' = out /\ told' = told /\ pc # "setup" /\ pc' # "setup"
        /\ i \in Streams /\ q \in Queue(Streams) /\ r \in Queue(Streams)
        /\ Later(Streams, q, r) /\ r.head_stream = q.head_stream
        /\ \A j \in Streams : r.st[j].head_ts = q.st[j].head_ts
    BY <1>3 DEF Finishes, Ended
  <2>2. Fin
    BY <2>1 DEF Fin, EndInv, Later
  <2>3. Same
    BY <2>1 DEF Same
  <2>4. ASSUME NEW j \in Streams, told[j] PROVE ReleasableStreams(r) = {} /\ AllEof(r)
    <3>1. ReleasableStreams(q) = {} /\ AllEof(q) /\ \A k \in Streams : q.st[k].finished
      BY <2>1, <2>4, AllFinished DEF EndInv
    <3>2. \A k \in Streams : SameContents(q.st[k], r.st[k]) /\ r.st[k].finished
      BY <2>1, <3>1 DEF Later
    <3>3. ASSUME NEW k \in Streams PROVE Releasable(r, k) => Releasable(q, k)
      BY <2>1, <3>1, <3>2, ReleasableSame
    <3>4. ReleasableStreams(r) = {}
      BY <3>1, <3>3 DEF ReleasableStreams
    <3>5. AllEof(r)
      BY <2>1, <3>1, <3>2 DEF AllEof, Eof, Later, SameContents
    <3> QED BY <3>4, <3>5
  <2> QED BY <2>1, <2>2, <2>3, <2>4 DEF End
<1>4. ASSUME NEW q, NEW p, NEW i, NEW f, NEW w, NEW r, Receives(q, p, i, f, w, r) PROVE Goal
  <2>1. /\ sq' = r /\ sq = q /\ told' = told /\ pc # "setup" /\ pc' # "setup"
        /\ i \in Streams /\ p = BeforeReceive(sq) /\ Releasable(p, i)
        /\ Later(Streams, q, p) /\ Taken(p, i, f, w) /\ (r = w \/ Ended(Streams, w, i, r))
    BY <1>4 DEF Receives, Advanced
  <2>2. Fin
    <3>1. q.finished => \A j \in Streams : q.st[j].finished
      BY <2>1 DEF EndInv
    <3>2. p.finished => \A j \in Streams : p.st[j].finished
      BY <2>1, <3>1 DEF Later
    <3>3. w.finished => \A j \in Streams : w.st[j].finished
      BY <2>1, <3>2 DEF Taken
    <3>4. r.finished => \A j \in Streams : r.st[j].finished
      BY <2>1, <3>3 DEF Ended, Later
    <3> QED BY <2>1, <3>4 DEF Fin
  <2>3. ASSUME NEW j \in Streams, told[j] PROVE FALSE
    <3>1. p = sq /\ ReleasableStreams(sq) = {}
      BY <2>1, <2>3, ToldWaits DEF EndInv
    <3> QED BY <2>1, <3>1 DEF ReleasableStreams
  <2> QED BY <2>1, <2>2, <2>3 DEF End, Same
<1>5. ASSUME NEW q, NEW r, Waits(q, r) PROVE Goal
  <2>1. /\ sq' = r /\ sq = q /\ out' = out /\ pc # "setup" /\ pc' # "setup"
        /\ r = BeforeReceive(sq) /\ Later(Streams, q, r) /\ ReleasableStreams(r) = {}
        /\ (AllEof(r) \/ told' = told)
    BY <1>5 DEF Waits, Advanced
  <2>2. Fin
    BY <2>1 DEF Fin, EndInv, Later
  <2>3. ASSUME ~AllEof(r), NEW j \in Streams, told'[j] PROVE FALSE
    BY <2>1, <2>3, ToldWaits DEF EndInv
  <2>4. End
    BY <2>1, <2>3 DEF End
  <2> QED BY <2>1, <2>2, <2>4 DEF Same
<1>6. ASSUME NEW i \in Streams, EncoderEnds(i) PROVE Goal
  BY <1>6 DEF Fin, End, Same, EncoderEnds, EndInv
<1>7. CASE UNCHANGED vars
  BY <1>7 DEF Fin, End, Same, vars, EndInv
<1> QED BY <1>0, <1>1, <1>2, <1>3, <1>4, <1>5, <1>6, <1>7 DEF StepIs

\* An encoder that takes frames of a fixed size gets no other but the last one, and no
\* encoder gets a frame after it was told the end.
THEOREM EncodersAreGiven == FirstGoesOn /\ Spec => EncoderInput
<1> SUFFICES ASSUME FirstGoesOn PROVE Spec => EncoderInput
  OBVIOUS
<1>1. Init => ShortInv /\ EndInv
  <2> SUFFICES ASSUME Init PROVE ShortInv /\ EndInv
    OBVIOUS
  <2>1. pc = "setup" /\ \A j \in Streams : ~told[j]
    BY DEF Init
  <2>2. PICK q, st : q = sq /\ st = [i \in {} |-> NewStream(i)]
    OBVIOUS
  <2>3. q = [finished |-> FALSE, head_stream |-> None, head_finished_stream |-> None, st |-> st]
    BY <2>2 DEF Init
  <2>4. ~q.finished /\ DOMAIN q.st = {}
    BY <2>2, <2>3
  <2> QED BY <2>1, <2>2, <2>4 DEF ShortInv, EndInv
<1>2. Typed /\ ShortInv /\ [Next]_vars
        => ShortInv' /\ [\A i \in Streams : FrameSamples[i] # 0 /\ out[i].short
                                              => out'[i] = out[i]]_vars
  BY ShortNext
<1>3. Typed /\ EndInv /\ [Next]_vars
        => EndInv' /\ [\A i \in Streams : told[i] => out'[i].frames = out[i].frames]_vars
  BY EndNext
<1>4. Spec => ShortIsLast
  BY <1>1, <1>2, Invariant, PTL DEF Spec, ShortIsLast
<1>5. Spec => EndIsLast
  BY <1>1, <1>3, Invariant, PTL DEF Spec, EndIsLast
<1> QED BY <1>4, <1>5 DEF EncoderInput
-----------------------------------------------------------------------------
(* The buffers are bounded *)

\* What is buffered of a stream ends at its head at the latest.
Covered(s) == s.fifo # <<>> => s.head_ts # NOPTS /\ EndsBy(s.fifo, s.head_ts)

AllCovered(q) == \A j \in Streams : Covered(q.st[j])

\* Stream j is past what ends at ts on stream i, but for what rounding leaves.
Past(q, i, ts, j) ==
  \/ q.st[j].finished
  \/ Timed(q, j) /\ HeadTime(q, j) + q.st[j].tick > Time(q, i, ts)

\* Too much is only buffered of the stream most ahead if the others are past it.
Bounded(q) ==
  (\E i \in Streams : Timed(q, i)) =>
    LET i == MostAhead(q)
    IN  ~Overflows(q, i) \/ \A j \in Streams \ {i} : Past(q, i, TailTs(q, i), j)

\* From queue p to queue r stream j has got a heartbeat, for the sake of ts of i: it is
\* past ts then, and was moved only if it was before.
Moved(p, i, ts, j, r) ==
  /\ \A k \in Streams \ {j} : r.st[k].head_ts = p.st[k].head_ts
  /\ j = i => r.st[j].head_ts = p.st[j].head_ts
  /\ j # i => Past(r, i, ts, j)
  /\ r.st[j].head_ts # p.st[j].head_ts /\ Timed(p, j) => HeadTime(p, j) < Time(p, i, ts)

LEMMA BeatMoves ==
  ASSUME Setting, NEW p \in Queue(Streams), NEW i \in Streams, NEW j \in Streams, NEW ts \in Nat
  PROVE  Moved(p, i, ts, j, Beat(p, i, ts, j))
<1>1. PICK d, a, m, u, v :
        /\ u = p.st[i].tick /\ v = p.st[j].tick /\ d = Rescale(ts, u, v)
        /\ a = p.st[j].head_ts /\ m = IF Timed(p, j) THEN Max({a + 1, d}) ELSE d
  OBVIOUS
<1>2. u \in Nat \ {0} /\ v \in Nat \ {0} /\ (Timed(p, j) => a \in Nat)
  BY <1>1, StreamIs DEF Timed
<1>3. d \in Nat /\ d * v + v > ts * u
  BY <1>1, <1>2, RescaleNat, RescaleNear
<1>4. m \in Nat /\ d <= m
  <2>1. CASE Timed(p, j)
    <3>1. a + 1 \in Int /\ d \in Int /\ a + 1 \in Nat
      BY <1>2, <1>3, <2>1
    <3>2. Max({a + 1, d}) = IF a + 1 >= d THEN a + 1 ELSE d
      BY <3>1, MaxOfTwo
    <3> QED BY <1>1, <1>3, <2>1, <3>1, <3>2
  <2>2. CASE ~Timed(p, j)
    BY <1>1, <1>3, <2>2
  <2> QED BY <2>1, <2>2
<1>5. Time(p, i, ts) = ts * u /\ HeadTime(p, j) = a * v /\ (Timed(p, j) <=> a # NOPTS)
  BY <1>1 DEF Time, HeadTime, Timed
<1>6. ts * u \in Nat /\ (a \in Nat => a * v \in Nat)
  BY <1>2
<1>7. CASE j = i \/ p.st[j].finished \/ (Timed(p, j) /\ Time(p, i, ts) <= HeadTime(p, j))
  <2>1. Beat(p, i, ts, j) = p
    BY <1>7 DEF Beat
  <2>2. j # i => Past(p, i, ts, j)
    <3> SUFFICES ASSUME Timed(p, j), Time(p, i, ts) <= HeadTime(p, j)
                 PROVE  HeadTime(p, j) + v > Time(p, i, ts)
      BY <1>1, <1>7 DEF Past
    <3>1. PICK x, y : x = Time(p, i, ts) /\ y = HeadTime(p, j) /\ x \in Nat /\ y \in Nat
      BY <1>2, <1>5, <1>6
    <3> QED BY <1>2, <3>1
  <2> QED BY <2>1, <2>2 DEF Moved
<1>8. CASE ~(j = i \/ p.st[j].finished \/ (Timed(p, j) /\ Time(p, i, ts) <= HeadTime(p, j)))
  <2>1. PICK r : r = StreamUpdateTs(p, j, m) /\ r = Beat(p, i, ts, j)
    BY <1>1, <1>8 DEF Beat
  <2>2. /\ r \in Queue(Streams) /\ Later(Streams, p, r)
        /\ \A k \in Streams \ {j} : r.st[k].head_ts = p.st[k].head_ts
        /\ r.st[j].head_ts = IF Timed(p, j) /\ a >= m THEN a ELSE m
    <3>1. LET s == StreamUpdateTs(p, j, m)
          IN  /\ s \in Queue(Streams) /\ Later(Streams, p, s)
              /\ \A k \in Streams \ {j} : s.st[k].head_ts = p.st[k].head_ts
              /\ s.st[j].head_ts = IF Timed(p, j) /\ p.st[j].head_ts >= m
                                   THEN p.st[j].head_ts ELSE m
      BY <1>4, StreamUpdateTsIs
    <3> QED BY <1>1, <2>1, <3>1
  <2>3. r.st[i].tick = u /\ r.st[j].tick = v
    BY <1>1, <2>2 DEF Later, SameContents
  <2>4. PICK b : b = r.st[j].head_ts /\ b \in Nat /\ d <= b
    BY <1>2, <1>3, <1>4, <2>2
  <2>5. HeadTime(r, j) = b * v /\ Time(r, i, ts) = ts * u /\ Timed(r, j)
    BY <2>3, <2>4, NoTimestamp DEF HeadTime, Time, Timed
  <2>6. b * v + v > ts * u
    <3>1. d * v <= b * v /\ d * v \in Int /\ b * v \in Int
      BY <1>2, <1>3, <2>4, Products
    <3> QED BY <1>2, <1>3, <1>6, <3>1
  <2>7. Past(r, i, ts, j)
    BY <2>3, <2>5, <2>6 DEF Past
  <2>8. Timed(p, j) => HeadTime(p, j) < Time(p, i, ts)
    <3> HAVE Timed(p, j)
    <3>1. PICK x, y : x = Time(p, i, ts) /\ y = HeadTime(p, j) /\ x \in Nat /\ y \in Nat
      BY <1>2, <1>5, <1>6
    <3> QED BY <1>8, <3>1
  <2> QED BY <1>8, <2>1, <2>2, <2>7, <2>8 DEF Moved
<1> QED BY <1>7, <1>8

\* A stream stays past ts while others are moved.
LEMMA PastLater ==
  ASSUME NEW p \in Queue(Streams), NEW r \in Queue(Streams), Later(Streams, p, r),
         NEW i \in Streams, NEW ts, NEW j \in Streams, Past(p, i, ts, j),
         r.st[j].head_ts = p.st[j].head_ts
  PROVE  Past(r, i, ts, j)
<1>1. /\ r.st[j].tick = p.st[j].tick /\ r.st[i].tick = p.st[i].tick
      /\ p.st[j].finished => r.st[j].finished
  BY DEF Later, SameContents
<1>2. HeadTime(r, j) = HeadTime(p, j) /\ Time(r, i, ts) = Time(p, i, ts)
      /\ (Timed(r, j) <=> Timed(p, j))
  BY <1>1 DEF HeadTime, Time, Timed
<1> QED BY <1>1, <1>2 DEF Past

\* From queue q to queue r the first n streams have got heartbeats.
FirstMoved(q, i, ts, n, r) ==
  /\ r.st[i].head_ts = q.st[i].head_ts
  /\ \A j \in Streams : IF j < n THEN j # i => Past(r, i, ts, j)
                                 ELSE r.st[j].head_ts = q.st[j].head_ts
  /\ \A j \in Streams : r.st[j].head_ts # q.st[j].head_ts /\ Timed(q, j)
                          => HeadTime(q, j) < Time(q, i, ts)

LEMMA FirstMovedNext ==
  ASSUME Setting, NEW q \in Queue(Streams), NEW i \in Streams, NEW ts \in Nat,
         NEW n \in 1 .. setup.nb_streams, NEW p, Advanced(q, p),
         FirstMoved(q, i, ts, n - 1, p)
  PROVE  FirstMoved(q, i, ts, n, Beat(p, i, ts, n - 1))
<1>1. PICK r, m : r = Beat(p, i, ts, n - 1) /\ m = n - 1
  OBVIOUS
<1>2. /\ m \in Streams /\ p \in Queue(Streams) /\ Later(Streams, q, p)
      /\ \A j \in Streams : (j < n <=> j < m \/ j = m) /\ (j < m => j # m)
  BY <1>1 DEF Setting, Streams, Advanced
<1>3. Moved(p, i, ts, m, r) /\ r \in Queue(Streams) /\ Later(Streams, p, r)
  BY <1>1, <1>2, BeatMoves, BeatIs DEF Advanced
<1>4. FirstMoved(q, i, ts, m, p)
  BY <1>1
<1>5. r.st[i].head_ts = q.st[i].head_ts
  BY <1>3, <1>4 DEF FirstMoved, Moved
<1>6. ASSUME NEW j \in Streams
      PROVE  IF j < n THEN j # i => Past(r, i, ts, j) ELSE r.st[j].head_ts = q.st[j].head_ts
  <2>1. CASE j = m
    BY <1>2, <1>3, <2>1 DEF Moved
  <2>2. CASE j # m
    <3>1. r.st[j].head_ts = p.st[j].head_ts
      BY <1>3, <2>2 DEF Moved
    <3>2. CASE j < m
      <4>1. j # i => Past(p, i, ts, j)
        BY <1>4, <3>2 DEF FirstMoved
      <4>2. j # i => Past(r, i, ts, j)
        BY <1>2, <1>3, <3>1, <4>1, PastLater
      <4> QED BY <1>2, <3>2, <4>2
    <3>3. CASE ~(j < m)
      <4>1. p.st[j].head_ts = q.st[j].head_ts
        BY <1>4, <3>3 DEF FirstMoved
      <4> QED BY <1>2, <2>2, <3>1, <3>3, <4>1
    <3> QED BY <3>2, <3>3
  <2> QED BY <2>1, <2>2
<1>7. ASSUME NEW j \in Streams, r.st[j].head_ts # q.st[j].head_ts, Timed(q, j)
      PROVE  HeadTime(q, j) < Time(q, i, ts)
  <2>1. CASE p.st[j].head_ts # q.st[j].head_ts
    BY <1>4, <1>7, <2>1 DEF FirstMoved
  <2>2. CASE p.st[j].head_ts = q.st[j].head_ts
    <3>1. r.st[j].head_ts # p.st[j].head_ts /\ Timed(p, j) /\ j = m
      BY <1>3, <1>7, <2>2 DEF Moved, Timed
    <3>2. HeadTime(p, j) < Time(p, i, ts)
      BY <1>3, <3>1 DEF Moved
    <3>3. HeadTime(p, j) = HeadTime(q, j) /\ Time(p, i, ts) = Time(q, i, ts)
      BY <1>2, <2>2 DEF Later, SameContents, HeadTime, Time
    <3> QED BY <3>2, <3>3
  <2> QED BY <2>1, <2>2
<1> QED BY <1>1, <1>5, <1>6, <1>7 DEF FirstMoved

LEMMA AllMoved ==
  ASSUME Setting, NEW q \in Queue(Streams), NEW i \in Streams, NEW ts \in Nat
  PROVE  FirstMoved(q, i, ts, setup.nb_streams, Beats(q, i, ts)[setup.nb_streams])
<1>1. PICK b, L : b = Beats(q, i, ts) /\ L = setup.nb_streams /\ L \in Nat
  BY DEF Setting
<1>2. /\ b[0] = q /\ \A n \in 0 .. L : Advanced(q, b[n])
      /\ \A n \in 1 .. L : b[n] = Beat(b[n - 1], i, ts, n - 1)
  BY <1>1, BeatsGo
<1>3. PICK T : T = {n \in 0 .. L : FirstMoved(q, i, ts, n, b[n])}
  OBVIOUS
<1>4. T \subseteq 0 .. L /\ 0 \in T
  <2>1. \A j \in Streams : ~(j < 0)
    BY DEF Setting, Streams
  <2>2. FirstMoved(q, i, ts, 0, q)
    BY <2>1 DEF FirstMoved
  <2>3. 0 \in 0 .. L
    BY <1>1
  <2> QED BY <1>2, <1>3, <2>2, <2>3
<1>5. \A n \in 1 .. L : n - 1 \in T => n \in T
  <2> TAKE n \in 1 .. L
  <2> HAVE n - 1 \in T
  <2>1. n - 1 \in 0 .. L /\ n \in 0 .. L /\ n \in 1 .. setup.nb_streams
    BY <1>1
  <2>2. PICK p : p = b[n - 1] /\ Advanced(q, p) /\ FirstMoved(q, i, ts, n - 1, p)
    BY <1>2, <1>3, <2>1
  <2>3. FirstMoved(q, i, ts, n, Beat(p, i, ts, n - 1))
    BY <2>1, <2>2, FirstMovedNext
  <2> QED BY <1>2, <1>3, <2>1, <2>2, <2>3
<1>6. T = 0 .. L
  BY ONLY <1>1, <1>4, <1>5, UpTo
<1>7. L \in T
  BY <1>1, <1>6
<1> QED BY <1>1, <1>3, <1>7

\* The end of the first frame, if there is one, is not ahead of the head.
LEMMA TailCovered ==
  ASSUME NEW q \in Queue(Streams), NEW i \in Streams, Covered(q.st[i]), TailTs(q, i) # NOPTS
  PROVE  Timed(q, i) /\ TailTs(q, i) \in Nat /\ TailTs(q, i) <= q.st[i].head_ts
<1>1. PICK fifo : fifo = q.st[i].fifo
  OBVIOUS
<1>2. fifo \in Seq(FrameType) /\ DOMAIN fifo = 1 .. Len(fifo) /\ Len(fifo) \in Nat
  BY <1>1, StreamIs, LenProperties
<1>3. PICK K : K = {k \in DOMAIN fifo : FrameEnd(fifo[k], 0) # NOPTS}
  OBVIOUS
<1>4. TailTs(q, i) = IF K = {} THEN NOPTS ELSE FrameEnd(fifo[Min(K)], 0)
  BY <1>1, <1>3 DEF TailTs
<1>5. K # {} /\ K \subseteq Nat
  BY <1>2, <1>3, <1>4
<1>6. PICK k : k = Min(K) /\ k \in 1 .. Len(fifo)
  BY <1>2, <1>3, <1>5, LeastOf
<1>7. fifo # <<>>
  BY <1>2, <1>6, EmptySeq
<1>8. FrameEnd(fifo[k], 0) <= q.st[i].head_ts
  BY <1>1, <1>6, <1>7 DEF Covered, EndsBy
<1>9. TailTs(q, i) \in Nat
  BY TailTsIs
<1> QED BY <1>1, <1>4, <1>5, <1>6, <1>7, <1>8, <1>9 DEF Covered, Timed

LEMMA CoveredAdvanced ==
  ASSUME NEW q \in Queue(Streams), NEW r, AllCovered(q), Advanced(q, r)
  PROVE  AllCovered(r)
<1> SUFFICES ASSUME NEW j \in Streams PROVE Covered(r.st[j])
  BY DEF AllCovered
<1>1. PICK fifo, a, b : fifo = q.st[j].fifo /\ a = q.st[j].head_ts /\ b = r.st[j].head_ts
  OBVIOUS
<1>2. /\ r.st[j].fifo = fifo /\ (a # NOPTS => b # NOPTS /\ a <= b) /\ a \in Int /\ b \in Int
      /\ fifo \in Seq(FrameType)
  BY <1>1, StreamIs DEF Advanced, Later, SameContents
<1>3. CASE fifo # <<>>
  <2>1. a # NOPTS /\ EndsBy(fifo, a)
    BY <1>1, <1>3 DEF AllCovered, Covered
  <2>2. \A k \in 1 .. Len(fifo) : FrameEnd(fifo[k], 0) \in Int
    <3> TAKE k \in 1 .. Len(fifo)
    <3>1. fifo[k] \in FrameType
      BY <1>2, ElementOfSeq
    <3> QED BY <3>1 DEF FrameEnd, FrameType
  <2>3. EndsBy(fifo, b)
    BY <1>2, <2>1, <2>2 DEF EndsBy
  <2> QED BY <1>1, <1>2, <2>1, <2>3 DEF Covered
<1>4. CASE fifo = <<>>
  BY <1>2, <1>4 DEF Covered
<1> QED BY <1>3, <1>4

\* The heartbeats move all streams past the end of the first frame of the one that is
\* most ahead; if one of them is most ahead then, it had been behind that end, and so is
\* all that is buffered of it.
LEMMA HeartbeatBounds ==
  ASSUME Setting, NEW q \in Queue(Streams), AllCovered(q)
  PROVE  Bounded(OverflowHeartbeat(q))
<1>1. DOMAIN q.st = Streams
  BY DEF Queue
<1>2. CASE ~\E i \in Streams : Timed(q, i)
  <2>1. OverflowHeartbeat(q) = q
    BY <1>1, <1>2 DEF OverflowHeartbeat
  <2> QED BY <1>2, <2>1 DEF Bounded
<1>3. CASE \E i \in Streams : Timed(q, i)
  <2>1. PICK i \in Streams : i = MostAhead(q) /\ Foremost(q, i)
    BY <1>3, MostAheadIs DEF Foremost
  <2>2. PICK tail : tail = TailTs(q, i)
    OBVIOUS
  <2>3. OverflowHeartbeat(q) = IF Overflows(q, i) THEN Beats(q, i, tail + 1)[setup.nb_streams] ELSE q
    BY <1>1, <1>3, <2>1, <2>2 DEF OverflowHeartbeat
  <2>4. CASE ~Overflows(q, i)
    BY <2>1, <2>3, <2>4 DEF Bounded
  <2>5. CASE Overflows(q, i)
    <3>1. PICK r : r = Beats(q, i, tail + 1)[setup.nb_streams] /\ r = OverflowHeartbeat(q)
      BY <2>3, <2>5
    <3>2. Timed(q, i) /\ tail \in Nat /\ tail < q.st[i].head_ts
      BY <2>2, <2>5, TailTsIs, TailCovered DEF Overflows, AllCovered
    <3>3. tail + 1 \in Nat
      BY <3>2
    <3>4. r \in Queue(Streams) /\ Later(Streams, q, r)
      BY <3>1, <3>3, BeatsAre DEF Advanced
    <3>5. FirstMoved(q, i, tail + 1, setup.nb_streams, r)
      BY <3>1, <3>3, AllMoved
    <3>6. \A j \in Streams : j < setup.nb_streams
      BY DEF Setting, Streams
    <3>7. \A j \in Streams \ {i} : Past(r, i, tail + 1, j)
      BY <3>5, <3>6 DEF FirstMoved
    <3>8. \A j \in Streams : /\ r.st[j].tick = q.st[j].tick /\ r.st[j].fifo = q.st[j].fifo
                             /\ Timed(q, j) => Timed(r, j)
                             /\ \A ts : Time(r, j, ts) = Time(q, j, ts)
                             /\ TailTs(r, j) = TailTs(q, j)
      <4> TAKE j \in Streams
      <4>1. /\ r.st[j].tick = q.st[j].tick /\ r.st[j].fifo = q.st[j].fifo
            /\ q.st[j].head_ts # NOPTS => r.st[j].head_ts # NOPTS
        BY <3>4 DEF Later, SameContents
      <4>2. TailTs(r, j) = TailTs(q, j)
        BY <4>1 DEF TailTs
      <4> QED BY <4>1, <4>2 DEF Timed, Time
    <3>9. Timed(r, i) /\ HeadTime(r, i) = HeadTime(q, i)
      BY <3>2, <3>5, <3>8 DEF FirstMoved, HeadTime, Time
    <3>10. PICK m \in Streams : m = MostAhead(r) /\ Foremost(r, m)
      BY <3>4, <3>9, MostAheadIs DEF Foremost
    <3> DEFINE Goal == ~Overflows(r, m) \/ \A j \in Streams \ {m} : Past(r, m, TailTs(r, m), j)
    <3> SUFFICES Goal
      BY <3>1, <3>10 DEF Bounded
    \* What is past x is past what is no later.
    <3>11. PICK t, h, y : /\ t = q.st[i].tick /\ h = q.st[i].head_ts /\ y = Time(q, i, tail + 1)
                          /\ t \in Nat \ {0} /\ h \in Nat
      BY <3>2, StreamIs DEF Timed
    <3>12. y \in Int /\ Time(q, i, tail) \in Int /\ Time(q, i, tail) < y /\ y <= HeadTime(q, i)
      <4>1. y = (tail + 1) * t /\ Time(q, i, tail) = tail * t /\ HeadTime(q, i) = h * t
        BY <3>11 DEF Time, HeadTime
      <4>2. tail + 1 <= h
        BY <3>2, <3>11
      <4>3. (tail + 1) * t <= h * t /\ (tail + 1) * t \in Int
        BY <3>3, <3>11, <4>2, Products
      <4>4. tail * t \in Int /\ tail * t < (tail + 1) * t
        BY <3>2, <3>11
      <4> QED BY <4>1, <4>3, <4>4
    <3>13. ASSUME NEW j \in Streams, j # i, NEW x \in Int, x < y
           PROVE  r.st[j].finished \/ (Timed(r, j) /\ HeadTime(r, j) + r.st[j].tick > x)
      <4>1. r.st[j].finished \/ (Timed(r, j) /\ HeadTime(r, j) + r.st[j].tick > y)
        BY <3>7, <3>8, <3>11, <3>13 DEF Past
      <4>2. HeadTime(r, j) \in Int /\ r.st[j].tick \in Int
        BY <3>4, HeadTimeInt, StreamIs
      <4> QED BY <3>12, <3>13, <4>1, <4>2
    <3>14. CASE m = i
      <4>1. \A j \in Streams \ {m} : Past(r, m, TailTs(r, m), j)
        <5> TAKE j \in Streams \ {m}
        <5>1. Time(r, m, TailTs(r, m)) = Time(q, i, tail)
          BY <2>2, <3>8, <3>14
        <5> QED BY <3>12, <3>13, <3>14, <5>1 DEF Past
      <4> QED BY <4>1
    <3>15. CASE m # i
      <4>1. r.st[m].head_ts # q.st[m].head_ts
        <5> SUFFICES ASSUME r.st[m].head_ts = q.st[m].head_ts PROVE FALSE
          OBVIOUS
        <5>1. Timed(q, m) /\ HeadTime(r, m) = HeadTime(q, m)
          BY <3>8, <3>10 DEF Foremost, Timed, HeadTime
        <5>2. /\ HeadTime(q, m) <= HeadTime(q, i)
              /\ HeadTime(q, m) = HeadTime(q, i) => i <= m
          BY <2>1, <5>1 DEF Foremost
        <5>3. /\ HeadTime(q, i) <= HeadTime(q, m)
              /\ HeadTime(q, i) = HeadTime(q, m) => m <= i
          BY <3>9, <3>10, <5>1 DEF Foremost
        <5>4. HeadTime(q, i) \in Int /\ HeadTime(q, m) \in Int /\ i \in Int /\ m \in Int
          <6>1. HeadTime(q, i) \in Int /\ HeadTime(q, m) \in Int
            BY HeadTimeInt
          <6>2. i \in Int /\ m \in Int
            BY DEF Setting, Streams
          <6> QED BY <6>1, <6>2
        <5> QED BY <3>15, <5>2, <5>3, <5>4
      <4>2. Timed(q, m) => HeadTime(q, m) < y
        BY <3>5, <3>11, <4>1 DEF FirstMoved
      <4>3. CASE TailTs(q, m) = NOPTS
        BY <3>8, <4>3 DEF Overflows
      <4>4. CASE TailTs(q, m) # NOPTS
        <5>1. PICK a, b, u : a = TailTs(q, m) /\ b = q.st[m].head_ts /\ u = q.st[m].tick
                             /\ a \in Nat /\ b \in Int /\ a <= b /\ u \in Nat \ {0}
          BY <4>4, TailCovered, StreamIs DEF AllCovered
        <5>2. Timed(q, m)
          BY <4>4, TailCovered DEF AllCovered
        <5>3. Time(r, m, TailTs(r, m)) = a * u /\ HeadTime(q, m) = b * u
          BY <3>8, <5>1 DEF Time, HeadTime
        <5>4. a * u <= b * u /\ a * u \in Int /\ b * u \in Int
          BY <5>1, Products
        <5>5. PICK x \in Int : x = Time(r, m, TailTs(r, m)) /\ x < y
          BY <3>12, <4>2, <5>2, <5>3, <5>4
        <5>6. ASSUME NEW j \in Streams \ {m} PROVE Past(r, m, TailTs(r, m), j)
          <6>1. CASE j # i
            BY <3>13, <5>5, <6>1 DEF Past
          <6>2. CASE j = i
            <7>1. HeadTime(q, i) \in Int /\ r.st[i].tick \in Nat \ {0}
              BY <3>4, HeadTimeInt, StreamIs
            <7>2. HeadTime(r, i) + r.st[i].tick > x
              BY <3>9, <3>12, <5>5, <7>1
            <7> QED BY <3>9, <5>5, <6>2, <7>2 DEF Past
          <6> QED BY <6>1, <6>2
        <5> QED BY <5>6
      <4> QED BY <4>3, <4>4
    <3> QED BY <3>14, <3>15
  <2> QED BY <2>4, <2>5
<1> QED BY <1>2, <1>3

BufferInv ==
  /\ pc # "setup" => AllCovered(sq)
  /\ pc = "unlocked" /\ ~sq.finished => Bounded(sq)

LEMMA BufferNext ==
  ASSUME Typed, BufferInv, [Next]_vars
  PROVE  BufferInv'
<1>0. StepIs /\ setup' = setup
  BY Steps, SetupStays
<1> DEFINE Goal == /\ pc' # "setup" => AllCovered(sq')
                   /\ pc' = "unlocked" /\ ~sq'.finished => Bounded(sq')
<1> SUFFICES Goal
  BY <1>0 DEF BufferInv, AllCovered, Bounded, Past, Streams
<1>1. ASSUME NEW n \in Nat, NEW r, AddStream, n < setup.nb_streams, r = sq', New(n, r),
             pc' = IF n + 1 = setup.nb_streams THEN "unlocked" ELSE "setup"
      PROVE  Goal
  <2>1. CASE pc' = "setup"
    BY <2>1
  <2>2. CASE pc' # "setup"
    <3>1. Streams = 0 .. n
      BY <1>1, <2>2, SettingIs DEF Typed, Setting, Streams
    <3>2. \A j \in Streams : ~Timed(r, j) /\ r.st[j].fifo = <<>>
      BY <1>1, <3>1 DEF New
    <3> QED BY <1>1, <3>2 DEF AllCovered, Covered, Bounded
  <2> QED BY <2>1, <2>2
<1>2. ASSUME NEW q, NEW i, NEW f, NEW r, Sends(q, i, f, r) PROVE Goal
  <2>1. /\ sq' = r /\ sq = q /\ pc # "setup" /\ pc' = "drain" /\ i \in Streams /\ Sent(q, i, f, r)
        /\ q \in Queue(Streams) /\ AllFine(Streams, q) /\ f \in FrameType
    BY <1>2, FramesOfType DEF Sends
  <2>2. ASSUME NEW j \in Streams PROVE Covered(r.st[j])
    <3>1. Covered(q.st[j])
      BY <2>1 DEF BufferInv, AllCovered
    <3>2. CASE j # i
      BY <2>1, <3>1, <3>2 DEF Sent, SameContents, Covered
    <3>3. CASE j = i
      <4>1. PICK fifo, a, b, e : /\ fifo = q.st[i].fifo /\ a = q.st[i].head_ts
                                 /\ b = r.st[i].head_ts /\ e = FrameEnd(f, 0)
        OBVIOUS
      <4>2. /\ fifo \in Seq(FrameType) /\ r.st[i].fifo = Append(fifo, f)
            /\ b \in Nat /\ e <= b /\ a \in Int /\ b # NOPTS
        BY <2>1, <4>1, StreamIs, NoTimestamp DEF Sent
      <4>3. EndsBy(fifo, b)
        <5>1. CASE fifo = <<>>
          <6>1. Len(fifo) = 0
            BY <5>1, EmptySeq
          <6> QED BY <6>1 DEF EndsBy
        <5>2. CASE fifo # <<>>
          <6>1. a # NOPTS /\ EndsBy(fifo, a)
            BY <3>1, <3>3, <4>1, <5>2 DEF Covered
          <6>2. q.st[i].tick = Tick[i]
            BY <2>1, <4>1, <5>2 DEF AllFine, Fine
          <6>3. b = IF a # NOPTS /\ a >= e THEN a ELSE e
            BY <2>1, <4>1, <6>2 DEF Sent, Timed
          <6>4. e \in Nat
            BY <4>1, <1>2 DEF Sends
          <6>5. a <= b
            BY <4>2, <6>1, <6>3, <6>4
          <6>6. \A k \in 1 .. Len(fifo) : FrameEnd(fifo[k], 0) \in Nat
            <7> TAKE k \in 1 .. Len(fifo)
            <7>1. fifo[k] \in FrameType
              BY <4>2, ElementOfSeq
            <7> QED BY <7>1 DEF FrameEnd, FrameType
          <6> QED BY <4>2, <6>1, <6>5, <6>6 DEF EndsBy
        <5> QED BY <5>1, <5>2
      <4>4. EndsBy(r.st[i].fifo, b)
        BY <2>1, <4>1, <4>2, <4>3, EndsAppend
      <4> QED BY <3>3, <4>1, <4>2, <4>4 DEF Covered
    <3> QED BY <3>2, <3>3
  <2> QED BY <2>1, <2>2 DEF AllCovered
<1>3. ASSUME NEW q, NEW i, NEW r, Finishes(q, i, r) PROVE Goal
  <2>1. /\ sq' = r /\ sq = q /\ pc # "setup" /\ pc' = "drain"
        /\ \A j \in Streams : r.st[j].fifo = q.st[j].fifo /\ r.st[j].head_ts = q.st[j].head_ts
    BY <1>3 DEF Finishes, Ended, Later, SameContents
  <2> QED BY <2>1 DEF AllCovered, Covered, BufferInv
<1>4. ASSUME NEW q, NEW p, NEW i, NEW f, NEW w, NEW r, Receives(q, p, i, f, w, r) PROVE Goal
  <2>1. /\ sq' = r /\ sq = q /\ pc = "drain" /\ pc' = pc /\ i \in Streams
        /\ q \in Queue(Streams) /\ Advanced(q, p) /\ Taken(p, i, f, w)
        /\ (r = w \/ Ended(Streams, w, i, r))
    BY <1>4 DEF Receives
  <2>2. AllCovered(p)
    BY <2>1, CoveredAdvanced DEF BufferInv
  <2>3. ASSUME NEW j \in Streams PROVE Covered(w.st[j])
    <3>1. Covered(p.st[j])
      BY <2>2 DEF AllCovered
    <3>2. CASE j # i
      BY <2>1, <3>1, <3>2 DEF Taken
    <3>3. CASE j = i
      <4>1. p.st[i].fifo # <<>>
        BY <1>4 DEF Receives, Releasable
      <4> QED BY <2>1, <3>1, <3>3, <4>1 DEF Taken, Covered
    <3> QED BY <3>2, <3>3
  <2>4. \A j \in Streams : r.st[j].fifo = w.st[j].fifo /\ r.st[j].head_ts = w.st[j].head_ts
    BY <2>1 DEF Ended, Later, SameContents
  <2> QED BY <2>1, <2>3, <2>4 DEF AllCovered, Covered
<1>5. ASSUME NEW q, NEW r, Waits(q, r) PROVE Goal
  <2>1. /\ sq' = r /\ sq = q /\ pc = "drain" /\ pc' = "unlocked" /\ Setting
        /\ q \in Queue(Streams) /\ r = BeforeReceive(q) /\ Advanced(q, r)
        /\ ReleasableStreams(r) = {}
    BY <1>5 DEF Waits
  <2>2. AllCovered(q) /\ AllCovered(r)
    BY <2>1, CoveredAdvanced DEF BufferInv
  <2>3. ASSUME ~r.finished PROVE Bounded(r)
    <3>1. CASE r = q /\ AllEof(q)
      <4>1. \A j \in Streams : r.st[j].finished
        BY <2>3, <3>1 DEF AllEof, Eof
      <4> QED BY <4>1 DEF Bounded, Past
    <3>2. CASE r = OverflowHeartbeat(q)
      BY <2>1, <2>2, <3>2, HeartbeatBounds
    <3> QED BY <2>1, <3>1, <3>2 DEF BeforeReceive
  <2> QED BY <2>1, <2>2, <2>3
<1>6. ASSUME NEW i \in Streams, EncoderEnds(i) PROVE Goal
  BY <1>6 DEF EncoderEnds, BufferInv
<1>7. CASE UNCHANGED vars
  BY <1>7 DEF vars, BufferInv
<1> QED BY <1>0, <1>1, <1>2, <1>3, <1>4, <1>5, <1>6, <1>7 DEF StepIs

\* A stream that lags behind, whatever the time bases and lengths, cannot make the queue
\* buffer more than it may of the stream most ahead: the heartbeats move all others past
\* the first frame, and then no other is behind the new one that is most ahead.
THEOREM BuffersStayBounded == Spec => []BufferBounded
<1>1. Init => BufferInv
  BY DEF Init, BufferInv
<1>2. Typed /\ BufferInv /\ [Next]_vars => BufferInv'
  BY BufferNext
<1>3. BufferInv => BufferBounded
  BY DEF BufferInv, BufferBounded, Bounded, Past
<1> QED BY <1>1, <1>2, <1>3, Invariant, PTL DEF Spec
=============================================================================

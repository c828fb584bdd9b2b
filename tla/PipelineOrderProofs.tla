------------------------ MODULE PipelineOrderProofs ------------------------
(***************************************************************************)
(* Proof that the pipeline brings frames to filtergraphs in order, for     *)
(* every transcoding graph, tolerance and queue size, whichever tasks fail *)
(* and whenever the user stops.                                            *)
(***************************************************************************)
EXTENDS PipelineProofs

-----------------------------------------------------------------------------
(* Numbers in order                                                        *)

\* The positive numbers of s are a + 1 .. b, in this order; the others are not
\* looked at.
Run(s, a, b) ==
  /\ a <= b
  /\ \A k \in 1 .. Len(s) : s[k] > 0 => a < s[k] /\ s[k] <= b
  /\ \A j, k \in 1 .. Len(s) : (j < k /\ s[j] > 0 /\ s[k] > 0) => s[j] < s[k]
  /\ \A v \in a + 1 .. b : \E k \in 1 .. Len(s) : s[k] = v

Quiet(s) == \A k \in 1 .. Len(s) : s[k] <= 0

\* r is s without its first n elements.
Shifted(s, r, n) == /\ n \in 0 .. Len(s) /\ Len(r) = Len(s) - n
                    /\ \A k \in 1 .. Len(r) : r[k] = s[k + n]

\* Where there is nothing positive there is nothing between a and b.
LEMMA RunQuiet ==
  ASSUME NEW s \in Seq(Int), NEW a \in Nat, NEW b \in Nat, Quiet(s)
  PROVE  Run(s, a, b) <=> a = b
<1>1. ASSUME Run(s, a, b) PROVE a = b
  <2>1. ASSUME a # b PROVE FALSE
    <3>1. a + 1 \in a + 1 .. b
      BY <1>1, <2>1 DEF Run
    <3>2. PICK k \in 1 .. Len(s) : s[k] = a + 1
      BY <1>1, <3>1 DEF Run
    <3> QED BY <3>2 DEF Quiet
  <2> QED BY <2>1
<1>2. ASSUME a = b PROVE Run(s, a, b)
  BY <1>2 DEF Run, Quiet
<1> QED BY <1>1, <1>2

\* One number after what was there.
LEMMA RunAppend ==
  ASSUME NEW s \in Seq(Int), NEW a \in Nat, NEW b \in Nat, NEW v \in Int, Run(s, a, b)
  PROVE  /\ v <= 0 => Run(Append(s, v), a, b)
         /\ v = b + 1 => Run(Append(s, v), a, b + 1)
<1> DEFINE r == Append(s, v)
<1>1. r \in Seq(Int) /\ Len(r) = Len(s) + 1 /\ r[Len(s) + 1] = v
      /\ \A k \in 1 .. Len(s) : r[k] = s[k]
  OBVIOUS
<1>2. \A k \in 1 .. Len(s) : s[k] \in Int
  OBVIOUS
<1>3. Len(s) \in Nat /\ \A k \in 1 .. Len(r) : k \in 1 .. Len(s) \/ k = Len(s) + 1
  BY <1>1
<1> HIDE DEF r
<1>4. ASSUME v <= 0 PROVE Run(r, a, b)
  <2>1. \A k \in 1 .. Len(r) : r[k] > 0 => k \in 1 .. Len(s)
    BY <1>1, <1>3, <1>4
  <2>2. \A k \in 1 .. Len(s) : k \in 1 .. Len(r)
    BY <1>1, <1>3
  <2> QED BY <1>1, <1>2, <2>1, <2>2 DEF Run
<1>5. ASSUME v = b + 1 PROVE Run(r, a, b + 1)
  <2>1. ASSUME NEW k \in 1 .. Len(r), r[k] > 0 PROVE a < r[k] /\ r[k] <= b + 1
    <3>1. CASE k \in 1 .. Len(s)
      <4>1. s[k] \in Int /\ a < s[k] /\ s[k] <= b
        BY <1>1, <1>2, <2>1, <3>1 DEF Run
      <4>2. r[k] = s[k]
        BY <1>1, <3>1
      <4> QED BY <4>1, <4>2
    <3>2. CASE k = Len(s) + 1
      <4>1. a <= b
        BY DEF Run
      <4> QED BY <1>1, <1>5, <3>2, <4>1
    <3> QED BY <1>3, <3>1, <3>2
  <2>2. ASSUME NEW j \in 1 .. Len(r), NEW k \in 1 .. Len(r), j < k, r[j] > 0, r[k] > 0
        PROVE  r[j] < r[k]
    <3>1. j \in 1 .. Len(s)
      BY <1>1, <1>3, <2>2
    <3>2. CASE k \in 1 .. Len(s)
      BY <1>1, <2>2, <3>1, <3>2 DEF Run
    <3>3. CASE k = Len(s) + 1
      <4>1. s[j] <= b /\ s[j] \in Int
        BY <1>1, <1>2, <2>2, <3>1 DEF Run
      <4> QED BY <1>1, <1>5, <3>1, <3>3, <4>1
    <3> QED BY <1>3, <3>2, <3>3
  <2>3. ASSUME NEW w \in a + 1 .. b + 1 PROVE \E k \in 1 .. Len(r) : r[k] = w
    <3>1. CASE w = b + 1
      <4>1. Len(s) + 1 \in 1 .. Len(r)
        BY <1>1, <1>3
      <4> QED BY <1>1, <1>5, <3>1, <4>1
    <3>2. CASE w \in a + 1 .. b
      <4>1. PICK k \in 1 .. Len(s) : s[k] = w
        BY <3>2 DEF Run
      <4>2. k \in 1 .. Len(r)
        BY <1>1, <1>3
      <4> QED BY <1>1, <4>1, <4>2
    <3> QED BY <3>1, <3>2
  <2>4. a <= b + 1
    BY DEF Run
  <2> QED BY <2>1, <2>2, <2>3, <2>4 DEF Run
<1> QED BY <1>4, <1>5 DEF r

\* Without numbers that are not looked at, and without the first one that is.
LEMMA RunShifted ==
  ASSUME NEW s \in Seq(Int), NEW r \in Seq(Int), NEW n \in Nat, Shifted(s, r, n),
         NEW a \in Nat, NEW b \in Nat, Run(s, a, b)
  PROVE  /\ (\A k \in 1 .. n : s[k] <= 0) => Run(r, a, b)
         /\ (n > 0 /\ s[n] > 0 /\ \A k \in 1 .. n - 1 : s[k] <= 0)
            => s[n] = a + 1 /\ a + 1 <= b /\ Run(r, a + 1, b)
<1>1. \A k \in 1 .. Len(s) : s[k] \in Int
  OBVIOUS
<1>2. Len(s) \in Nat /\ Len(r) \in Nat /\ n <= Len(s) /\ Len(r) = Len(s) - n
  BY DEF Shifted
<1>3. \A k \in 1 .. Len(r) : k + n \in 1 .. Len(s) /\ r[k] = s[k + n]
  BY <1>2 DEF Shifted
<1>4. \A k \in 1 .. Len(s) : k > n => k - n \in 1 .. Len(r) /\ r[k - n] = s[k]
  <2> TAKE k \in 1 .. Len(s)
  <2> HAVE k > n
  <2>1. k - n \in 1 .. Len(r) /\ (k - n) + n = k
    BY <1>2
  <2> QED BY <1>3, <2>1
<1>7. \A j, k \in 1 .. Len(r) : (j < k /\ r[j] > 0 /\ r[k] > 0) => r[j] < r[k]
  <2> TAKE j, k \in 1 .. Len(r)
  <2> HAVE j < k /\ r[j] > 0 /\ r[k] > 0
  <2>1. j + n \in 1 .. Len(s) /\ k + n \in 1 .. Len(s) /\ j + n < k + n
    BY <1>2, <1>3
  <2>2. s[j + n] > 0 /\ s[k + n] > 0
    BY <1>3
  <2> QED BY <1>3, <2>1, <2>2 DEF Run
<1>5. ASSUME \A k \in 1 .. n : s[k] <= 0 PROVE Run(r, a, b)
  <2>1. ASSUME NEW v \in a + 1 .. b PROVE \E k \in 1 .. Len(r) : r[k] = v
    <3>1. PICK k \in 1 .. Len(s) : s[k] = v
      BY DEF Run
    <3>2. k > n
      BY <1>2, <1>5, <3>1
    <3> QED BY <1>4, <3>1, <3>2
  <2>2. \A k \in 1 .. Len(r) : r[k] > 0 => a < r[k] /\ r[k] <= b
    BY <1>3 DEF Run
  <2>4. a <= b
    BY DEF Run
  <2> QED BY <1>7, <2>1, <2>2, <2>4 DEF Run
<1>6. ASSUME n > 0, s[n] > 0, \A k \in 1 .. n - 1 : s[k] <= 0
      PROVE  s[n] = a + 1 /\ a + 1 <= b /\ Run(r, a + 1, b)
  <2>1. n \in 1 .. Len(s) /\ s[n] \in Int /\ a < s[n] /\ s[n] <= b
    BY <1>1, <1>2, <1>6 DEF Run
  <2>2. \A k \in 1 .. Len(s) : (k > n /\ s[k] > 0) => s[n] < s[k] /\ s[k] <= b
    BY <1>6, <2>1 DEF Run
  <2>3. ASSUME NEW v \in a + 1 .. b PROVE \E k \in 1 .. Len(s) : s[k] = v /\ k >= n
    <3>1. PICK k \in 1 .. Len(s) : s[k] = v
      BY DEF Run
    <3>2. k >= n
      BY <1>2, <1>6, <3>1
    <3> QED BY <3>1, <3>2
  <2>4. s[n] = a + 1
    <3>1. a + 1 \in a + 1 .. b
      BY <2>1
    <3>2. PICK k \in 1 .. Len(s) : s[k] = a + 1 /\ k >= n
      BY <2>3, <3>1
    <3>3. k = n
      BY <2>1, <2>2, <3>2
    <3> QED BY <3>2, <3>3
  <2>5. ASSUME NEW v \in a + 2 .. b PROVE \E k \in 1 .. Len(r) : r[k] = v
    <3>1. PICK k \in 1 .. Len(s) : s[k] = v /\ k >= n
      BY <2>3
    <3>2. k > n
      BY <1>2, <2>4, <3>1
    <3> QED BY <1>4, <3>1, <3>2
  <2>6. ASSUME NEW k \in 1 .. Len(r), r[k] > 0 PROVE a + 1 < r[k] /\ r[k] <= b
    <3>3. k + n \in 1 .. Len(s) /\ s[k + n] = r[k]
      BY <1>3
    <3>4. k + n > n
      OBVIOUS
    <3>1. k + n \in 1 .. Len(s) /\ k + n > n /\ s[k + n] > 0 /\ s[k + n] = r[k]
      BY <2>6, <3>3, <3>4
    <3>2. s[n] < s[k + n] /\ s[k + n] <= b
      BY <2>2, <3>1
    <3> QED BY <2>4, <3>1, <3>2
  <2>8. a + 1 <= b
    BY <2>1, <2>4
  <2>9. Run(r, a + 1, b)
    BY <1>7, <2>5, <2>6, <2>8 DEF Run
  <2> QED BY <2>4, <2>8, <2>9
<1> QED BY <1>5, <1>6

\* Numbers that are not looked at, in front.
LEMMA RunPrefixed ==
  ASSUME NEW s \in Seq(Int), NEW r \in Seq(Int), NEW n \in Nat, Shifted(r, s, n),
         \A k \in 1 .. n : r[k] <= 0,
         NEW a \in Nat, NEW b \in Nat, Run(s, a, b)
  PROVE  Run(r, a, b)
<1>1. \A k \in 1 .. Len(r) : r[k] \in Int
  OBVIOUS
<1>2. Len(s) \in Nat /\ Len(r) \in Nat /\ n <= Len(r) /\ Len(s) = Len(r) - n
  BY DEF Shifted
<1>3. \A k \in 1 .. Len(s) : k + n \in 1 .. Len(r) /\ s[k] = r[k + n]
  BY <1>2 DEF Shifted
<1>4. \A k \in 1 .. Len(r) : k > n => k - n \in 1 .. Len(s) /\ s[k - n] = r[k]
  <2> TAKE k \in 1 .. Len(r)
  <2> HAVE k > n
  <2>1. k - n \in 1 .. Len(s) /\ (k - n) + n = k
    BY <1>2
  <2> QED BY <1>3, <2>1
<1>5. \A k \in 1 .. Len(r) : r[k] > 0 => k > n
  BY <1>2
<1>6. ASSUME NEW v \in a + 1 .. b PROVE \E k \in 1 .. Len(r) : r[k] = v
  <2>1. PICK k \in 1 .. Len(s) : s[k] = v
    BY DEF Run
  <2> QED BY <1>3, <2>1
<1>7. \A k \in 1 .. Len(r) : r[k] > 0 => a < r[k] /\ r[k] <= b
  BY <1>4, <1>5 DEF Run
<1>8. \A j, k \in 1 .. Len(r) : (j < k /\ r[j] > 0 /\ r[k] > 0) => r[j] < r[k]
  <2> TAKE j, k \in 1 .. Len(r)
  <2> HAVE j < k /\ r[j] > 0 /\ r[k] > 0
  <2>1. j - n < k - n
    BY <1>2
  <2> QED BY <1>4, <1>5, <2>1 DEF Run
<1>9. a <= b
  BY DEF Run
<1> QED BY <1>6, <1>7, <1>8, <1>9 DEF Run
-----------------------------------------------------------------------------
(* What is on its way to an input                                          *)

\* The numbers of those of the items s that are for input i, and of those of the
\* messages s that carry data to x; 0 stands for anything else.
Numbers(s, i) == [k \in 1 .. Len(s) |-> IF s[k].in = i THEN s[k].n ELSE 0]
Carried(s, x) == [k \in 1 .. Len(s) |-> IF s[k].kind = "data" /\ s[k].to = x THEN s[k].n ELSE 0]

\* In the queue and with the sender, unless that has ended, are those from a + 1 to c.
FlowOf(p, s, over, a, c) == \E b \in Nat : Run(p, a, b) /\ (over \/ Run(s, b, c))
Flow(t, x, a, c) ==
  FlowOf(Numbers(q[x[1]], x[2]), Carried(todo[t], x), <<t, x>> \in dstFin, a, c)

\* Where a task goes on with what it does.
Working == {"run", "recv", "drain", "poll", "wait", "request", "close", "configure"}

HasRead(d, x, c) == \A j \in DOMAIN G.streams[d] : x \in Range(G.streams[d][j]) => c = Counted(d, j)

\* What demuxer m has read for x comes after e.
FedBy(m, x, e) == \E h \in Nat : Flow(m, x, e, h) /\ (pc[m] \in Working => HasRead(m, x, h))

\* What decoder d has still to decode comes after c.
Fed(d, c) ==
  pc[d] \in Working =>
    \E e \in Nat :
      /\ Run(dec[d].overflow, c, e)
      /\ "RECV" \notin fin[d][0] =>
           \A m \in G.demuxers : <<d, 0>> \in Range(G.dsts[m]) => FedBy(m, <<d, 0>>, e)

\* The last frame that t has sent, or is about to send, is c.
Passed(t, c) == /\ (t \in G.graphs /\ pc[t] \in Working) => c = fg[t].made
                /\ t \in G.decoders => Fed(t, c)

Arrived(f, i) == fg[f].took[i] + fg[f].have[i]

\* The frames on their way to filtergraph input x follow those that have arrived.
Follow(t, x, a) == \E c \in Nat : Flow(t, x, a, c) /\ Passed(t, c)

AllFollow ==
  \A f \in G.graphs : \A i \in FgInputs(G, f) :
    "RECV" \notin fin[f][i] =>
      /\ Arrived(f, i) \in Nat
      /\ \A t \in G.tasks : <<f, i>> \in Range(G.dsts[t]) => Follow(t, <<f, i>>, Arrived(f, i))
-----------------------------------------------------------------------------
(* What a step does with the numbers on their way                          *)

Keeps(r, s) == \A a, b \in Nat : Run(r, a, b) => Run(s, a, b)

\* Numbers is a sequence as long as what it looks at.
LEMMA NumbersAre ==
  ASSUME NEW S, \A e \in S : e.n \in Int, NEW s \in Seq(S), NEW i
  PROVE  /\ Numbers(s, i) \in Seq(Int) /\ Len(Numbers(s, i)) = Len(s) /\ Len(s) \in Nat
         /\ \A k \in 1 .. Len(s) : Numbers(s, i)[k] = IF s[k].in = i THEN s[k].n ELSE 0
<1>1. Len(s) \in Nat /\ \A k \in 1 .. Len(s) : s[k].n \in Int
  OBVIOUS
<1>2. Numbers(s, i) \in [1 .. Len(s) -> Int]
  BY <1>1 DEF Numbers
<1>3. \A k \in 1 .. Len(s) : Numbers(s, i)[k] = IF s[k].in = i THEN s[k].n ELSE 0
  BY DEF Numbers
<1> QED BY <1>1, <1>2, <1>3, IsASeq, LenProperties

\* So is Carried.
LEMMA CarriedAre ==
  ASSUME NEW S, \A e \in S : e.n \in Int, NEW s \in Seq(S), NEW x
  PROVE  /\ Carried(s, x) \in Seq(Int) /\ Len(Carried(s, x)) = Len(s) /\ Len(s) \in Nat
         /\ \A k \in 1 .. Len(s) :
              Carried(s, x)[k] = IF s[k].kind = "data" /\ s[k].to = x THEN s[k].n ELSE 0
<1>1. Len(s) \in Nat /\ \A k \in 1 .. Len(s) : s[k].n \in Int
  OBVIOUS
<1>2. Carried(s, x) \in [1 .. Len(s) -> Int]
  BY <1>1 DEF Carried
<1>3. \A k \in 1 .. Len(s) : Carried(s, x)[k] = IF s[k].kind = "data" /\ s[k].to = x THEN s[k].n ELSE 0
  BY DEF Carried
<1> QED BY <1>1, <1>2, <1>3, IsASeq, LenProperties

\* Nothing positive before and after;
LEMMA KeepsQuiet ==
  ASSUME NEW r \in Seq(Int), NEW s \in Seq(Int), Quiet(r), Quiet(s)
  PROVE  Keeps(r, s)
BY RunQuiet DEF Keeps

\* something that is not positive added at the end;
LEMMA KeepsAppend ==
  ASSUME NEW s \in Seq(Int), NEW v \in Int, v <= 0
  PROVE  Keeps(s, Append(s, v))
BY RunAppend DEF Keeps

\* Both have the same behind what does not matter.
LEMMA KeepsBehind ==
  ASSUME NEW r \in Seq(Int), NEW s \in Seq(Int), NEW z \in Seq(Int), NEW j \in Nat, NEW k \in Nat,
         Shifted(r, z, j), \A l \in 1 .. j : r[l] <= 0,
         Shifted(s, z, k), \A l \in 1 .. k : s[l] <= 0
  PROVE  Keeps(r, s)
<1> SUFFICES ASSUME NEW a \in Nat, NEW b \in Nat, Run(r, a, b) PROVE Run(s, a, b)
  BY DEF Keeps
<1>1. Run(z, a, b)
  BY RunShifted
<1> QED BY <1>1, RunPrefixed

\* An item more, which does not count for input i or does.
LEMMA NumbersAppend ==
  ASSUME NEW S, \A e \in S : e.n \in Int, NEW s \in Seq(S), NEW e \in S, NEW i
  PROVE  /\ e.in = i => Numbers(Append(s, e), i) = Append(Numbers(s, i), e.n)
         /\ e.in # i \/ e.n <= 0 => Keeps(Numbers(s, i), Numbers(Append(s, e), i))
<1> DEFINE v == IF e.in = i THEN e.n ELSE 0
           r == Append(s, e)
<1>1. r \in Seq(S) /\ Len(r) = Len(s) + 1 /\ r[Len(s) + 1] = e /\ \A k \in 1 .. Len(s) : r[k] = s[k]
  OBVIOUS
<1>2. /\ Numbers(s, i) \in Seq(Int) /\ Len(Numbers(s, i)) = Len(s) /\ Len(s) \in Nat
      /\ \A k \in 1 .. Len(s) : Numbers(s, i)[k] = IF s[k].in = i THEN s[k].n ELSE 0
  BY NumbersAre
<1> HIDE DEF r
<1>3. /\ Numbers(r, i) \in Seq(Int) /\ Len(Numbers(r, i)) = Len(r)
      /\ \A k \in 1 .. Len(r) : Numbers(r, i)[k] = IF r[k].in = i THEN r[k].n ELSE 0
  BY <1>1, NumbersAre
<1>4. v \in Int
  OBVIOUS
<1>5. Numbers(r, i) = Append(Numbers(s, i), v)
  <2>1. PICK a \in Seq(Int), b \in Seq(Int) : a = Numbers(s, i) /\ b = Numbers(r, i)
    BY <1>2, <1>3
  <2>2. Len(b) = Len(a) + 1 /\ \A k \in 1 .. Len(a) : b[k] = a[k]
    BY <1>1, <1>2, <1>3, <2>1
  <2>3. b[Len(a) + 1] = v
    BY <1>1, <1>2, <1>3, <2>1
  <2> HIDE DEF v
  <2>4. b = Append(a, v)
    BY <1>4, <2>2, <2>3
  <2> QED BY <2>1, <2>4
<1>6. ASSUME e.in # i \/ e.n <= 0 PROVE Keeps(Numbers(s, i), Numbers(r, i))
  <2>1. v <= 0
    BY <1>6
  <2> HIDE DEF v
  <2> QED BY <1>2, <1>4, <1>5, <2>1, KeepsAppend
<1> QED BY <1>5, <1>6 DEF r

\* The items after the first k.
LEMMA NumbersBehind ==
  ASSUME NEW S, \A e \in S : e.n \in Int, NEW s \in Seq(S), NEW r \in Seq(S), NEW k \in 0 .. Len(s),
         Len(r) = Len(s) - k, \A j \in 1 .. Len(r) : r[j] = s[j + k], NEW i
  PROVE  Shifted(Numbers(s, i), Numbers(r, i), k)
<1>0. r \in Seq(S) /\ \A e \in S : e.n \in Int
  OBVIOUS
<1>1. /\ Len(Numbers(s, i)) = Len(s) /\ Len(s) \in Nat
      /\ \A j \in 1 .. Len(s) : Numbers(s, i)[j] = IF s[j].in = i THEN s[j].n ELSE 0
  BY NumbersAre
<1>2. /\ Len(Numbers(r, i)) = Len(r) /\ Len(r) \in Nat
      /\ \A j \in 1 .. Len(r) : Numbers(r, i)[j] = IF r[j].in = i THEN r[j].n ELSE 0
  BY ONLY <1>0, NumbersAre
<1>3. \A j \in 1 .. Len(r) : j + k \in 1 .. Len(s)
  BY <1>1, <1>2
<1> QED BY <1>1, <1>2, <1>3 DEF Shifted

\* The messages behind those of p.
LEMMA CarriedBehind ==
  ASSUME NEW S, \A e \in S : e.n \in Int, NEW p \in Seq(S), NEW r \in Seq(S), NEW x
  PROVE  /\ Shifted(Carried(p \o r, x), Carried(r, x), Len(p))
         /\ \A k \in 1 .. Len(p) : Carried(p \o r, x)[k] = Carried(p, x)[k]
<1>1. PICK s \in Seq(S) : s = p \o r
  BY ConcatProperties
<1>2. /\ Len(s) = Len(p) + Len(r) /\ Len(p) \in Nat /\ Len(r) \in Nat
      /\ \A k \in 1 .. Len(p) : s[k] = p[k]
      /\ \A k \in 1 .. Len(r) : s[k + Len(p)] = r[k]
  BY <1>1
<1>3. /\ Len(Carried(s, x)) = Len(s)
      /\ \A j \in 1 .. Len(s) : Carried(s, x)[j] = IF s[j].kind = "data" /\ s[j].to = x THEN s[j].n ELSE 0
  BY CarriedAre
<1>4. /\ Len(Carried(r, x)) = Len(r)
      /\ \A j \in 1 .. Len(r) : Carried(r, x)[j] = IF r[j].kind = "data" /\ r[j].to = x THEN r[j].n ELSE 0
  BY CarriedAre
<1>5. \A j \in 1 .. Len(p) : Carried(p, x)[j] = IF p[j].kind = "data" /\ p[j].to = x THEN p[j].n ELSE 0
  BY CarriedAre
<1>6. (\A k \in 1 .. Len(r) : k + Len(p) \in 1 .. Len(s)) /\ (\A k \in 1 .. Len(p) : k \in 1 .. Len(s))
      /\ Len(r) = Len(s) - Len(p) /\ Len(p) \in 0 .. Len(s)
  BY <1>2
<1>7. Shifted(Carried(s, x), Carried(r, x), Len(p))
  BY <1>2, <1>3, <1>4, <1>6 DEF Shifted
<1>8. \A k \in 1 .. Len(p) : Carried(s, x)[k] = Carried(p, x)[k]
  BY <1>2, <1>3, <1>5, <1>6
<1> QED BY <1>1, <1>7, <1>8
\* One more message in front that carries nothing to x.
LEMMA CarriedMore ==
  ASSUME NEW S, \A e \in S : e.n \in Int, NEW r \in Seq(S), NEW m \in S, NEW x,
         ~(m.kind = "data" /\ m.to = x)
  PROVE  /\ Keeps(Carried(<<m>> \o r, x), Carried(r, x))
         /\ Keeps(Carried(r, x), Carried(<<m>> \o r, x))
<1>0. <<m>> \in Seq(S) /\ Len(<<m>>) = 1 /\ <<m>>[1] = m
  OBVIOUS
<1>1. PICK p \in Seq(S) : p = <<m>> /\ Len(p) = 1 /\ p[1] = m
  BY <1>0
<1>2. \A k \in 1 .. Len(p) : Carried(p, x)[k] = IF p[k].kind = "data" /\ p[k].to = x THEN p[k].n ELSE 0
  BY CarriedAre
<1>3. PICK z \in Seq(S) : z = p \o r
  BY ConcatProperties
<1>4. Carried(p, x)[1] = 0
  BY <1>1, <1>2
<1>5. Shifted(Carried(z, x), Carried(r, x), Len(p)) /\ \A k \in 1 .. Len(p) : Carried(z, x)[k] = Carried(p, x)[k]
  BY <1>3, CarriedBehind
<1>6. Shifted(Carried(z, x), Carried(r, x), 1) /\ \A k \in 1 .. 1 : Carried(z, x)[k] <= 0
  BY <1>1, <1>4, <1>5
<1>7. Carried(z, x) \in Seq(Int)
  BY CarriedAre
<1>8. Carried(r, x) \in Seq(Int)
  BY CarriedAre
<1>9. PICK a \in Seq(Int), b \in Seq(Int) : a = Carried(z, x) /\ b = Carried(r, x)
  BY <1>7, <1>8
<1>10. Shifted(a, b, 1) /\ \A k \in 1 .. 1 : a[k] <= 0
  BY <1>6, <1>9
<1>11. Shifted(b, b, 0) /\ \A k \in 1 .. 0 : b[k] <= 0
  <2>1. Len(b) \in Nat
    OBVIOUS
  <2> QED BY <2>1 DEF Shifted
<1>12. Keeps(a, b)
  BY ONLY <1>9, <1>10, <1>11, KeepsBehind
<1>13. Keeps(b, a)
  BY ONLY <1>9, <1>10, <1>11, KeepsBehind
<1> QED BY <1>1, <1>3, <1>9, <1>12, <1>13

\* Two steps that keep runs make one.
LEMMA KeepsChain ==
  ASSUME NEW r, NEW s, NEW z, Keeps(r, s), Keeps(s, z)
  PROVE  Keeps(r, z)
BY DEF Keeps

\* Staying the same keeps them.
LEMMA KeepsSame == \A r : Keeps(r, r)
BY DEF Keeps

\* What is left of a task's messages after it has sent one.
SendingStep(t, x) ==
  \/ todo'[t] = <<>> /\ pc'[t] \in {"finish", "fail"}
  \/ /\ Head(todo[t]).kind = "data" /\ Head(todo[t]).to = x
     /\ <<t, x>> \in dstFin \/ Refused(x) \/ SendItem(t, Head(todo[t]), Tail(todo[t]))
  \/ Keeps(Carried(todo[t], x), Carried(todo'[t], x))

\* What a send leaves to be sent to x, one of the sends at a time.
LEMMA SendSending ==
  ASSUME Typed, NEW t \in G.tasks, SendStep(t), NEW x, x[1] \in G.decoders \cup G.graphs
  PROVE  SendingStep(t, x)
<1>1. TasksTyped /\ G \in Graphs
  BY DEF Typed, TasksTyped
<1>2. PICK s \in Sends(t), r \in Seq(Sends(t)) :
        /\ s = Head(todo[t]) /\ r = Tail(todo[t]) /\ SendCase(t, s, r)
        /\ s.to \in G.owners \X Nat /\ s.n \in Int
  BY <1>1, SendIs
<1>3. todo[t] \in Seq(Sends(t)) /\ ~(todo[t] = <<>>)
  BY <1>1 DEF TasksTyped, SendStep
<1>4. todo[t] = <<s>> \o r /\ <<>> \o r = r
  <2>1. PICK z \in Seq(Sends(t)) : z = todo[t] /\ ~(z = <<>>) /\ s = Head(z) /\ r = Tail(z)
    BY <1>2, <1>3
  <2>2. z = <<s>> \o r
    BY <2>1
  <2> QED BY <2>1, <2>2
<1>5. x[1] \notin G.encoders \cup G.muxers /\ \A y \in G.muxed : y[1] \in G.muxers
  BY <1>1, GraphFacts, OneKind
<1>6. \A m \in Sends(t) : m.n \in Int
  BY DEF Sends, Message
<1>7. ASSUME NEW z, Stay(t, z) PROVE todo'[t] = z
  BY <1>1, <1>7 DEF Stay, Go, TasksTyped
<1>8. ASSUME NEW z, NEW w \in {"finish", "fail"}, Go(t, w, <<>>) PROVE SendingStep(t, x)
  BY <1>1, <1>8 DEF Go, TasksTyped, SendingStep
<1> DEFINE Other(m) == m.n \in Int /\ ~(m.kind = "data" /\ m.to = x)
<1>9. ASSUME Other(s) PROVE Keeps(Carried(todo[t], x), Carried(r, x))
  BY <1>4, <1>6, <1>9, CarriedMore
<1>10. ASSUME NEW S, \A e \in S : e.n \in Int, NEW z \in Seq(S), NEW m, Other(m)
       PROVE  Keeps(Carried(z, x), Carried(<<m>> \o z, x))
  <2>1. PICK T : T = S \cup {m}
    OBVIOUS
  <2>2. \A e \in T : e.n \in Int
    BY <1>10, <2>1
  <2>3. z \in Seq(T) /\ m \in T
    BY <2>1
  <2> QED BY <1>10, <2>2, <2>3, CarriedMore
<1>11. ASSUME Other(s), Stay(t, r) PROVE SendingStep(t, x)
  BY <1>7, <1>9, <1>11 DEF SendingStep
<1>12. ASSUME Other(s), NEW m, Other(m), Stay(t, <<m>> \o r) PROVE SendingStep(t, x)
  <2>1. Keeps(Carried(r, x), Carried(<<m>> \o r, x))
    BY <1>6, <1>10, <1>12
  <2>2. todo'[t] = <<m>> \o r
    BY <1>7, <1>12
  <2> QED BY <1>9, <1>12, <2>1, <2>2, KeepsChain DEF SendingStep
<1>13. ASSUME todo' = todo PROVE SendingStep(t, x)
  BY <1>13, KeepsSame DEF SendingStep
<1>14. ASSUME s.kind = "data", s.to = x, <<t, x>> \in dstFin \/ Refused(x) \/ SendItem(t, s, r) PROVE SendingStep(t, x)
  BY <1>2, <1>14 DEF SendingStep
<1>15. \A kind, to, n : Send(kind, to, n).kind = kind /\ Send(kind, to, n).to = to /\ Send(kind, to, n).n = n
  BY DEF Send
<1>16. \A kind, to, n : (n \in Int /\ (kind # "data" \/ to # x)) => Other(Send(kind, to, n))
  BY <1>15
<1>17. s.kind # "data" \/ s.to # x => Other(s)
  BY <1>2
<1>18. Fits(t, s.kind, s.to, s.n)
  BY DEF Sends
<1> HIDE DEF Other
<1>20. CASE Skip(t, s, r)
  <2>1. CASE s.kind = "data" /\ s.to = x
    BY <1>14, <1>20, <2>1 DEF Skip, Skipped
  <2> QED BY <1>11, <1>17, <1>20, <2>1 DEF Skip
<1>21. CASE SendRefused(t, s, r)
  <2>1. CASE s.kind = "data" /\ s.to = x
    BY <1>14, <1>21, <2>1 DEF SendRefused
  <2> QED BY <1>12, <1>16, <1>17, <1>21, <2>1 DEF SendRefused
<1>22. CASE SendItem(t, s, r)
  <2>1. CASE s.kind = "data" /\ s.to = x
    BY <1>14, <1>22, <2>1
  <2>2. CASE s.kind # "data" \/ s.to # x
    <3>1. Other(Send("dts", s.to, s.n)) /\ Other(Send("await", s.to, 0))
      BY <1>2, <1>16
    <3>2. Stay(t, <<Send("dts", s.to, s.n)>> \o r) \/ Stay(t, <<Send("await", s.to, 0)>> \o r) \/ Stay(t, r)
      BY <1>4, <1>22 DEF SendItem
    <3> QED BY <1>11, <1>12, <1>17, <2>2, <3>1, <3>2
  <2> QED BY <2>1, <2>2
<1>23. CASE SendDts(t, s, r) \/ SendSourceFinished(t, s, r) \/ SendAwait(t, s, r) \/ SendFilterEof(t, s, r)
            \/ SendBeat(t, s, r)
  BY <1>11, <1>17, <1>23 DEF SendDts, SendSourceFinished, SendAwait, SendFilterEof, SendBeat
<1>24. CASE SendEof(t, s, r)
  <2>1. Other(Send("end", s.to, 0)) /\ Other(s)
    BY <1>16, <1>17, <1>24 DEF SendEof
  <2>2. Stay(t, <<Send("end", s.to, 0)>> \o r) \/ Stay(t, r)
    BY <1>4, <1>24 DEF SendEof
  <2> QED BY <1>11, <1>12, <2>1, <2>2
<1>25. CASE SendFlushFails(t, s)
  BY <1>8, <1>25 DEF SendFlushFails
<1>26. CASE SendOpen(t, s, r)
  <2> DEFINE ms == CHOOSE dst \in Range(G.out[s.to[1]]) : dst[1] \in G.muxers
  <2>1. s.to[1] \in G.encoders /\ Stay(t, <<Send("ready", ms, 0)>> \o ((IF s.n = Special THEN <<>> ELSE <<s>>) \o r))
    BY <1>26 DEF SendOpen, OpenEncoder
  <2> HIDE DEF ms
  <2>2. Other(s) /\ Other(Send("ready", ms, 0))
    BY <1>5, <1>16, <1>17, <2>1
  <2>3. Stay(t, <<Send("ready", ms, 0)>> \o r) \/ Stay(t, <<Send("ready", ms, 0)>> \o todo[t])
    BY <1>4, <2>1
  <2>4. CASE Stay(t, <<Send("ready", ms, 0)>> \o todo[t])
    <3>1. Keeps(Carried(todo[t], x), Carried(<<Send("ready", ms, 0)>> \o todo[t], x))
      BY <1>3, <1>6, <1>10, <2>2
    <3>2. todo'[t] = <<Send("ready", ms, 0)>> \o todo[t]
      BY <1>7, <2>4
    <3> QED BY <3>1, <3>2 DEF SendingStep
  <2> QED BY <1>12, <2>2, <2>3, <2>4
<1>27. CASE SendReady(t, s, r)
  <2>1. Other(s) /\ Other(Send("move", s.to, 0))
    BY <1>16, <1>17, <1>27 DEF SendReady
  <2>2. CASE Stay(t, r) \/ Go(t, "fail", <<>>)
    BY <1>8, <1>11, <2>1, <2>2
  <2>3. CASE todo' = [todo EXCEPT ![t] = <<Send("move", s.to, 0)>> \o r]
    <3>1. Keeps(Carried(r, x), Carried(<<Send("move", s.to, 0)>> \o r, x))
      BY <1>6, <1>10, <2>1
    <3>2. todo'[t] = <<Send("move", s.to, 0)>> \o r
      BY <1>1, <2>3 DEF TasksTyped
    <3> QED BY <1>9, <2>1, <3>1, <3>2, KeepsChain DEF SendingStep
  <2> QED BY <1>27, <2>2, <2>3 DEF SendReady
<1>28. CASE SendMove(t, s, r)
  BY <1>11, <1>13, <1>17, <1>28 DEF SendMove
<1>29. CASE SendEarly(t, s, r)
  <2>1. Other(s) /\ Other(Send("queue", s.to, s.n))
    BY <1>2, <1>5, <1>16, <1>17, <1>29 DEF SendEarly
  <2> QED BY <1>12, <1>29, <2>1 DEF SendEarly
<1>30. CASE SendQueue(t, s, r)
  <2>1. Other(s) /\ Other(Send("end", s.to, s.n)) /\ Other(Send("dts", s.to, s.n))
    BY <1>2, <1>16, <1>17, <1>30 DEF SendQueue
  <2>2. \/ Stay(t, <<Send("end", s.to, s.n)>> \o r) \/ Stay(t, <<Send("dts", s.to, s.n)>> \o r)
        \/ Stay(t, r) \/ Go(t, "fail", <<>>)
    BY <1>30 DEF SendQueue
  <2> QED BY <1>8, <1>11, <1>12, <2>1, <2>2
<1>31. CASE SendLate(t, s, r)
  <2>1. s.to \in G.muxed /\ s.kind = "queue"
    BY <1>18, <1>31 DEF SendLate, Fits
  <2>2. Other(s) /\ Other(Send("eof", s.to, s.n)) /\ Other(Send("data", s.to, s.n))
    BY <1>2, <1>5, <1>16, <1>17, <2>1
  <2>3. Stay(t, <<Send("eof", s.to, s.n)>> \o r) \/ Stay(t, <<Send("data", s.to, s.n)>> \o r)
    BY <1>31 DEF SendLate
  <2> QED BY <1>12, <2>2, <2>3
<1>32. CASE SyncEnd(t, s, r)
  <2>1. Other(s) /\ Other(Send("syncend", s.to, Special))
    BY <1>16, <1>17, <1>32 DEF SyncEnd, Special
  <2> QED BY <1>12, <1>32, <2>1 DEF SyncEnd
<1>33. CASE SyncSend(t, s, r)
  <2>1. s.kind = "syncend" \/ Synced(s.to)
    BY <1>33 DEF SyncSend
  <2>2. s.kind # "data" \/ s.to # x
    <3>1. ASSUME Synced(s.to) PROVE s.to[1] \in G.encoders
      <4>1. G.sync.enc \in Seq(G.encoders)
        BY <1>1, GraphsAssumption DEF Furnished
      <4> QED BY <3>1, <4>1 DEF Synced, Range
    <3> QED BY <1>5, <2>1, <3>1
  <2>3. Other(s) /\ Other(Send("drain", s.to, s.n)) /\ Other(Send("eof", s.to, 0))
    BY <1>2, <1>16, <1>17, <2>2
  <2>4. Stay(t, <<Send("drain", s.to, s.n)>> \o r) \/ Stay(t, <<Send("eof", s.to, 0)>> \o r)
    BY <1>33 DEF SyncSend
  <2> QED BY <1>12, <2>3, <2>4
<1>34. CASE SyncDrain(t, s, r)
  <2>1. Other(s) /\ Other(Send("eof", s.to, 0))
    BY <1>16, <1>17, <1>34 DEF SyncDrain
  <2>2. todo' = todo \/ Stay(t, <<Send("eof", s.to, 0)>> \o r) \/ Stay(t, r)
    BY <1>4, <1>34 DEF SyncDrain, SyncPass
  <2> QED BY <1>11, <1>12, <1>13, <2>1, <2>2
<1> QED BY <1>2, <1>20, <1>21, <1>22, <1>23, <1>24, <1>25, <1>26, <1>27, <1>28, <1>29, <1>30, <1>31,
           <1>32, <1>33, <1>34 DEF SendCase
\* What is done to the items of n for input i by a step that sends.
LEMMA QueueAppends ==
  ASSUME Typed, NEW n \in G.decoders \cup G.graphs, NEW i, NEW m \in G.owners, NEW j, NEW v \in Int,
         q' = [q EXCEPT ![m] = Append(@, Item(j, v))],
         m = n => Item(j, v) \in Items(n) /\ (j # i \/ v <= 0)
  PROVE  Keeps(Numbers(q[n], i), Numbers(q'[n], i))
<1>1. TasksTyped /\ QueuesTyped /\ G \in Graphs
  BY DEF Typed, TasksTyped
<1>2. n \in G.owners /\ q[n] \in Seq(Items(n)) /\ q = [k \in G.owners |-> q[k]]
  BY <1>1, GraphFacts DEF QueuesTyped
<1>3. \A e \in Items(n) : e.n \in Int
  BY DEF Items
<1>4. CASE m # n
  <2>1. q'[n] = q[n]
    BY <1>2, <1>4
  <2> QED BY <2>1, KeepsSame
<1>5. CASE m = n
  <2>1. PICK e \in Items(n) : e = Item(j, v) /\ e.in = j /\ e.n = v
    BY <1>5 DEF Item
  <2>2. q'[n] = Append(q[n], e)
    BY <1>2, <1>5, <2>1
  <2>3. e.in # i \/ e.n <= 0
    BY <1>5, <2>1
  <2> QED BY <1>2, <1>3, <2>2, <2>3, NumbersAppend
<1> QED BY <1>4, <1>5

\* A send adds to a queue only what it carries there.
LEMMA SendPort ==
  ASSUME Typed, NEW u \in G.tasks, SendStep(u), NEW n \in G.decoders \cup G.graphs, NEW i
  PROVE  \/ Keeps(Numbers(q[n], i), Numbers(q'[n], i))
         \/ /\ Head(todo[u]).kind = "data" /\ Head(todo[u]).to = <<n, i>>
            /\ SendItem(u, Head(todo[u]), Tail(todo[u]))
<1>1. TasksTyped /\ QueuesTyped /\ StartTyped /\ SyncTyped /\ G \in Graphs
  BY DEF Typed, TasksTyped
<1>2. PICK s \in Sends(u), r \in Seq(Sends(u)) :
        /\ s = Head(todo[u]) /\ r = Tail(todo[u]) /\ SendCase(u, s, r)
        /\ s.to \in G.owners \X Nat /\ s.n \in Int
  BY <1>1, SendIs
<1>3. n \in G.owners /\ n \notin G.encoders \cup G.muxers
  BY <1>1, GraphFacts, OneKind
<1>4. Fits(u, s.kind, s.to, s.n)
  BY DEF Sends
<1> DEFINE Kept == Keeps(Numbers(q[n], i), Numbers(q'[n], i))
<1>5. ASSUME q' = q PROVE Kept
  BY <1>5, KeepsSame
<1>6. ASSUME NEW m \in G.owners, NEW j, NEW v \in Int, q' = [q EXCEPT ![m] = Append(@, Item(j, v))],
             m = n => Item(j, v) \in Items(n) /\ (j # i \/ v <= 0)
      PROVE  Kept
  BY <1>6, QueueAppends
<1> HIDE DEF Kept
<1>10. CASE SendItem(u, s, r)
  <2>1. CASE s.kind = "data" /\ s.to = <<n, i>>
    BY <1>2, <1>10, <2>1
  <2>2. CASE ~(s.kind = "data" /\ s.to = <<n, i>>)
    <3>1. s.to[1] \in G.owners /\ s.to = <<s.to[1], s.to[2]>> /\ s.to \in Range(G.dsts[u]) /\ s.kind \in {"data", "flush"}
      <4>1. s.kind \in {"data", "flush"}
        BY <1>10 DEF SendItem
      <4>2. s.to \in Range(G.dsts[u])
        BY <1>4, <4>1 DEF Fits
      <4>3. s.to[1] \in G.owners /\ s.to = <<s.to[1], s.to[2]>>
        BY <1>2
      <4> QED BY <4>1, <4>2, <4>3
    <3>2. s.to[2] \in Ports(s.to[1]) /\ s.n \in Nat
      BY <1>1, <1>4, <3>1, SinkFacts DEF Fits
    <3>3. Item(s.to[2], s.n) \in Items(s.to[1])
      BY <3>2, ItemIs
    <3>4. ASSUME s.to[1] = n PROVE s.to[2] # i \/ s.n <= 0
      <4>1. CASE s.kind = "flush"
        BY <1>4, <4>1 DEF Fits
      <4>2. CASE s.kind = "data"
        BY <2>2, <3>1, <3>4, <4>2
      <4> QED BY <3>1, <4>1, <4>2
    <3>5. q' = [q EXCEPT ![s.to[1]] = Append(@, Item(s.to[2], s.n))]
      BY <1>10 DEF SendItem
    <3>6. Kept
      BY <1>2, <1>6, <3>1, <3>3, <3>4, <3>5
    <3> QED BY <3>6 DEF Kept
  <2> QED BY <2>1, <2>2
<1>11. CASE \/ Skip(u, s, r) \/ SendRefused(u, s, r) \/ SendDts(u, s, r) \/ SendEof(u, s, r)
            \/ SendSourceFinished(u, s, r) \/ SendFilterEof(u, s, r)
  BY <1>5, <1>11 DEF Skip, SendRefused, SendDts, SendEof, SendSourceFinished, SendFilterEof, queues, Kept
<1>12. CASE \/ SendAwait(u, s, r) \/ SendFlushFails(u, s) \/ SendOpen(u, s, r) \/ SendReady(u, s, r)
            \/ SendEarly(u, s, r)
  BY <1>5, <1>12 DEF SendAwait, SendFlushFails, SendOpen, SendReady, SendEarly, queues, Kept
<1>13. CASE \/ SendQueue(u, s, r) \/ SendLate(u, s, r) \/ SyncEnd(u, s, r) \/ SyncSend(u, s, r)
  BY <1>5, <1>13 DEF SendQueue, SendLate, SyncEnd, SyncSend, queues, Kept
<1>14. CASE SendMove(u, s, r)
  <2>1. s.to[1] \in G.muxers /\ s.to[1] \in G.owners
    BY <1>1, <1>4, <1>14, GraphFacts DEF SendMove, Fits
  <2>2. q' = q \/ q' = [q EXCEPT ![s.to[1]] = Append(@, Item(NextPreMuxed(s.to[1])[2], Head(start.pre[NextPreMuxed(s.to[1])])))]
    BY <1>14 DEF SendMove, queues
  <2>3. n # s.to[1] /\ q = [k \in G.owners |-> q[k]]
    BY <1>1, <1>3, <2>1 DEF QueuesTyped
  <2>4. q'[n] = q[n]
    BY <1>3, <2>1, <2>2, <2>3
  <2> QED BY <2>4, KeepsSame
<1>15. CASE SyncDrain(u, s, r)
  <2>1. q' = q \/ SyncPass(SQ!BeforeReceive(sq.queue))
    BY <1>15 DEF SyncDrain, queues
  <2>2. CASE q' = q
    BY <1>5, <2>2 DEF Kept
  <2>3. CASE SyncPass(SQ!BeforeReceive(sq.queue)) /\ ~(q' = q)
    <3>1. PICK p : p = SQ!BeforeReceive(sq.queue)
      OBVIOUS
    <3>2. PICK k : k = Minimum(SQ!ReleasableStreams(p))
      OBVIOUS
    <3>3. ~(SQ!ReleasableStreams(p) = {}) /\ \E v : q' = [q EXCEPT ![G.sync.enc[k + 1]] = Append(@, v)]
      BY <2>3, <3>1, <3>2 DEF SyncPass
    <3>4. SyncQueueTyped(p)
      <4>1. SyncQueueTyped(sq.queue)
        BY <1>1 DEF SyncTyped
      <4> QED BY <1>1, <3>1, <4>1, SyncFacts, SyncBefore
    <3>5. G.sync.enc[k + 1] \in G.encoders
      BY <1>1, <3>2, <3>3, <3>4, Passes
    <3>6. q'[n] = q[n]
      BY <1>1, <1>3, <3>3, <3>5 DEF QueuesTyped
    <3> QED BY <3>6, KeepsSame
  <2> QED BY <2>1, <2>2, <2>3
<1>16. CASE SendBeat(u, s, r)
  <2>1. s.to[1] \in G.owners /\ s.to[1] \in G.decoders /\ s.to \in OnlyInputs(G.decoders)
    <3>1. s.to \in OnlyInputs(G.decoders)
      BY <1>4, <1>16 DEF SendBeat, Fits
    <3>2. s.to[1] \in G.decoders
      BY <3>1 DEF OnlyInputs
    <3> QED BY <1>1, <3>1, <3>2, GraphFacts
  <2>2. q' = q \/ q' = [q EXCEPT ![s.to[1]] = Append(@, Item(0, Beat))]
    BY <1>16 DEF SendBeat, queues
  <2>3. Item(0, Beat) \in Items(s.to[1]) /\ Beat \in Int /\ Beat <= 0
    <3>1. 0 \in Ports(s.to[1])
      <4>1. s.to[1] \notin G.graphs
        BY <1>1, <2>1, OneKind
      <4>2. G.inputs = [o \in G.owners |->
                 IF o \in G.muxers THEN {x[2] : x \in {y \in G.muxed : y[1] = o}}
                 ELSE IF o \in G.graphs THEN 0 .. G.nb[o] ELSE {0}]
        BY <1>1, GraphsAssumption DEF WellConnected
      <4> QED BY <1>1, <2>1, <4>1, <4>2, OneKind DEF Ports
    <3> QED BY <2>1, <3>1, ItemIs DEF Beat
  <2>4. Kept
    BY <1>5, <1>6, <2>1, <2>2, <2>3
  <2> QED BY <2>4 DEF Kept
<1> QED BY <1>2, <1>10, <1>11, <1>12, <1>13, <1>14, <1>15, <1>16 DEF SendCase
\* A task sends only its own messages, and ends of destinations are final.
LEMMA SendOthers ==
  ASSUME Typed, NEW u \in G.tasks, SendStep(u)
  PROVE  /\ \A t \in G.tasks : t # u => todo'[t] = todo[t]
         /\ dstFin \subseteq dstFin'
<1>1. TasksTyped /\ G \in Graphs
  BY DEF Typed, TasksTyped
<1>2. PICK s \in Sends(u), r \in Seq(Sends(u)) : SendCase(u, s, r)
  BY <1>1, SendIs
<1> DEFINE Others == \A t \in G.tasks : t # u => todo'[t] = todo[t]
<1> SUFFICES Others /\ dstFin \subseteq dstFin'
  OBVIOUS
<1>3. ASSUME NEW z, todo' = [todo EXCEPT ![u] = z] PROVE Others
  BY <1>1, <1>3 DEF TasksTyped
<1>4. ASSUME NEW w, NEW z, Go(u, w, z) PROVE Others
  BY <1>3, <1>4 DEF Go
<1>5. ASSUME NEW z, Stay(u, z) PROVE Others
  BY <1>4, <1>5 DEF Stay
<1>6. ASSUME todo' = todo PROVE Others
  BY <1>6
<1> HIDE DEF Others
<1>11. CASE Skip(u, s, r) \/ SendRefused(u, s, r) \/ SendItem(u, s, r) \/ SendDts(u, s, r) \/ SendEof(u, s, r)
  BY <1>5, <1>11 DEF Skip, SendRefused, SendItem, SendDts, SendEof
<1>12. CASE SendSourceFinished(u, s, r) \/ SendFilterEof(u, s, r) \/ SendAwait(u, s, r)
            \/ SendFlushFails(u, s)
  BY <1>4, <1>5, <1>12 DEF SendSourceFinished, SendFilterEof, SendAwait, SendFlushFails
<1>13. CASE SendOpen(u, s, r) \/ SendReady(u, s, r)
  BY <1>3, <1>4, <1>5, <1>13 DEF SendOpen, OpenEncoder, SendReady
<1>14. CASE SendMove(u, s, r) \/ SendEarly(u, s, r) \/ SendLate(u, s, r) \/ SendBeat(u, s, r)
  BY <1>5, <1>6, <1>14 DEF SendMove, SendEarly, SendLate, SendBeat
<1>15. CASE SendQueue(u, s, r)
  <2>1. \E w, z : Go(u, w, z)
    BY <1>15 DEF SendQueue, Stay
  <2>2. dstFin \subseteq dstFin'
    BY <1>15 DEF SendQueue
  <2> QED BY <1>4, <2>1, <2>2
<1>16. CASE SyncEnd(u, s, r) \/ SyncSend(u, s, r)
  BY <1>5, <1>16 DEF SyncEnd, SyncSend
<1>17. CASE SyncDrain(u, s, r)
  BY <1>5, <1>6, <1>17 DEF SyncDrain, SyncPass
<1> QED BY <1>2, <1>11, <1>12, <1>13, <1>14, <1>15, <1>16, <1>17 DEF SendCase

\* A queue that is told not to receive an input is never told to do so again.
LEMMA FlagsStay ==
  ASSUME QueuesTyped, FlagsStep, NEW n \in G.owners, NEW i \in G.inputs[n],
         "RECV" \in fin[n][i]
  PROVE  "RECV" \in fin'[n][i]
<1>1. fin = [m \in G.owners |-> fin[m]] /\ fin[n] = [j \in G.inputs[n] |-> fin[n][j]]
  BY DEF QueuesTyped
<1>2. CASE fin' = fin
  BY <1>2
<1>3. ASSUME NEW m \in G.owners, NEW I, NEW f, fin' = Mark(m, I, f) PROVE "RECV" \in fin'[n][i]
  BY <1>1, <1>3 DEF Mark
<1>4. ASSUME NEW E, fin' = [m \in G.owners |-> IF m \in E THEN [fin[m] EXCEPT ![0] = @ \cup {"SEND"}]
                                               ELSE fin[m]]
      PROVE  "RECV" \in fin'[n][i]
  BY <1>1, <1>4
<1> QED BY <1>2, <1>3, <1>4 DEF FlagsStep

\* What keeps the numbers in the queue and with the sender keeps the flow.
LEMMA FlowKept ==
  ASSUME NEW t, NEW x, Keeps(Numbers(q[x[1]], x[2]), Numbers(q'[x[1]], x[2])),
         <<t, x>> \in dstFin => <<t, x>> \in dstFin',
         <<t, x>> \in dstFin' \/ Keeps(Carried(todo[t], x), Carried(todo'[t], x)),
         NEW a \in Nat, NEW c \in Nat, Flow(t, x, a, c)
  PROVE  Flow(t, x, a, c)'
BY DEF Flow, FlowOf, Keeps

\* A sender that drops what it had to send cuts the flow behind what is queued.
LEMMA FlowCut ==
  ASSUME NEW t, NEW x, Keeps(Numbers(q[x[1]], x[2]), Numbers(q'[x[1]], x[2])), todo'[t] = <<>>,
         NEW a \in Nat, NEW c \in Nat, Flow(t, x, a, c)
  PROVE  \E e \in Nat : Flow(t, x, a, e)'
<1>1. PICK b \in Nat : Run(Numbers(q[x[1]], x[2]), a, b)
  BY DEF Flow, FlowOf
<1>2. Run(Numbers(q'[x[1]], x[2]), a, b)
  BY <1>1 DEF Keeps
<1>3. Run(Carried(<<>>, x), b, b)
  BY DEF Carried, Run
<1> QED BY <1>2, <1>3 DEF Flow, FlowOf

\* The step keeps what is between t and x, or t will send nothing more.
Linked(t, x) == \A a, c \in Nat : Flow(t, x, a, c) => Flow(t, x, a, c)'
Unlinked(t, x) == /\ pc'[t] \in {"finish", "fail"}
                  /\ \A a, c \in Nat : Flow(t, x, a, c) => \E e \in Nat : Flow(t, x, a, e)'
\* A send keeps the flow from t to x, or cuts it as its task ends.
LEMMA SendLinks ==
  ASSUME Typed, NEW u \in G.tasks, SendStep(u), NEW t \in G.tasks, NEW x \in Range(G.dsts[t]),
         x[1] \in G.decoders \cup G.graphs, "RECV" \notin fin[x[1]][x[2]]
  PROVE  Linked(t, x) \/ Unlinked(t, x)
<1>1. TasksTyped /\ QueuesTyped /\ G \in Graphs
  BY DEF Typed, TasksTyped
<1>2. PICK n, i : x = <<n, i>> /\ n = x[1] /\ i = x[2] /\ n \in G.decoders \cup G.graphs
  BY <1>1, SinkFacts
<1>3. dstFin \subseteq dstFin' /\ \A v \in G.tasks : v # u => todo'[v] = todo[v]
  BY SendOthers
<1> DEFINE N == Numbers(q[x[1]], x[2])
           NN == Numbers(q'[x[1]], x[2])
           C == Carried(todo[t], x)
           CC == Carried(todo'[t], x)
<1>4. \/ Keeps(N, NN)
      \/ /\ Head(todo[u]).kind = "data" /\ Head(todo[u]).to = x
         /\ SendItem(u, Head(todo[u]), Tail(todo[u]))
  BY <1>2, SendPort
<1>5. ASSUME Keeps(N, NN), <<t, x>> \in dstFin' \/ Keeps(C, CC) PROVE Linked(t, x)
  BY <1>3, <1>5, FlowKept DEF Linked
<1>6. ASSUME Keeps(N, NN), todo'[t] = <<>>, pc'[t] \in {"finish", "fail"} PROVE Unlinked(t, x)
  BY <1>6, FlowCut DEF Unlinked
<1>7. PICK s \in Sends(u), r \in Seq(Sends(u)) : s = Head(todo[u]) /\ r = Tail(todo[u]) /\ s.n \in Int
  BY <1>1, SendIs
<1>8. ~(todo[u] = <<>>) /\ todo[u] \in Seq(Sends(u))
  BY <1>1 DEF TasksTyped, SendStep
<1>9. s.kind = "data" /\ s.to = x => u = t /\ s.n \in Nat
  <2>1. Fits(u, s.kind, s.to, s.n)
    BY DEF Sends
  <2> QED BY <1>1, <2>1, SinkFacts DEF Fits
<1>10. ASSUME s.kind = "data", s.to = x, SendItem(u, s, r) PROVE Linked(t, x)
  <2>1. u = t /\ todo'[t] = r /\ ~(<<t, x>> \in dstFin) /\ dstFin' = dstFin
        /\ q' = [q EXCEPT ![n] = Append(@, Item(i, s.n))]
    <3>1. u = t /\ n \notin G.muxers
      BY <1>1, <1>2, <1>9, <1>10, OneKind
    <3>2. <<>> \o r = r
      OBVIOUS
    <3>3. Stay(t, r) /\ ~Skipped(t, s)
      BY <1>2, <1>10, <3>1, <3>2 DEF SendItem
    <3>4. todo'[t] = r
      BY <1>1, <3>3 DEF Stay, Go, TasksTyped
    <3> QED BY <1>2, <1>10, <3>1, <3>3, <3>4 DEF SendItem, Skipped
  <2>2. NN = Append(N, s.n) /\ N \in Seq(Int)
    <3>1. n \in G.owners /\ q[n] \in Seq(Items(n)) /\ q = [k \in G.owners |-> q[k]]
      BY <1>1, <1>2, GraphFacts DEF QueuesTyped
    <3>2. \A e \in Items(n) : e.n \in Int
      BY DEF Items
    <3>3. i \in Ports(n) /\ s.n \in Nat
      BY <1>1, <1>2, <1>9, <1>10, SinkFacts
    <3>4. PICK e \in Items(n) : e = Item(i, s.n) /\ e.in = i /\ e.n = s.n
      <4>1. Item(i, s.n) \in Items(n)
        BY <3>3, ItemIs
      <4> QED BY <4>1 DEF Item
    <3>5. q'[n] = Append(q[n], e)
      BY <2>1, <3>1, <3>4
    <3>6. Numbers(Append(q[n], e), i) = Append(Numbers(q[n], i), e.n)
      BY <3>1, <3>2, <3>4, NumbersAppend
    <3>7. Numbers(q[n], i) \in Seq(Int)
      BY <3>1, <3>2, NumbersAre
    <3> QED BY <1>2, <3>4, <3>5, <3>6, <3>7
  <2>3. Shifted(C, CC, 1) /\ C[1] = s.n /\ C \in Seq(Int) /\ CC \in Seq(Int)
    <3>1. PICK S : S = Sends(t) /\ \A e \in S : e.n \in Int
      <4>1. \A e \in Sends(t) : e.n \in Int
        BY DEF Sends, Message
      <4> QED BY <4>1
    <3>2. s \in S /\ r \in Seq(S) /\ todo[t] \in Seq(S) /\ todo[t] = <<s>> \o r
      <4>1. PICK z \in Seq(S) : z = todo[t] /\ ~(z = <<>>) /\ s = Head(z) /\ r = Tail(z)
        BY <1>7, <1>8, <2>1, <3>1
      <4>2. z = <<s>> \o r
        BY <4>1
      <4> QED BY <1>7, <2>1, <3>1, <4>1, <4>2
    <3>3. <<s>> \in Seq(S) /\ Len(<<s>>) = 1 /\ <<s>>[1] = s
      BY <3>2
    <3>4. PICK p \in Seq(S) : p = <<s>> /\ Len(p) = 1 /\ p[1] = s
      BY <3>3
    <3>5. Shifted(Carried(p \o r, x), Carried(r, x), Len(p))
          /\ \A k \in 1 .. Len(p) : Carried(p \o r, x)[k] = Carried(p, x)[k]
      BY <3>1, <3>2, CarriedBehind
    <3>6. Carried(p, x)[1] = s.n
      <4>1. \A k \in 1 .. Len(p) :
              Carried(p, x)[k] = IF p[k].kind = "data" /\ p[k].to = x THEN p[k].n ELSE 0
        BY <3>1, CarriedAre
      <4> QED BY <1>10, <3>4, <4>1
    <3>7. Carried(todo[t], x) \in Seq(Int) /\ Carried(r, x) \in Seq(Int)
      BY <3>1, <3>2, CarriedAre
    <3>8. Shifted(C, CC, 1) /\ C[1] = Carried(p, x)[1]
      BY <2>1, <3>2, <3>4, <3>5
    <3> QED BY <2>1, <3>6, <3>7, <3>8
  <2>4. ASSUME NEW a \in Nat, NEW c \in Nat, Flow(t, x, a, c) PROVE Flow(t, x, a, c)'
    <3>1. PICK b \in Nat : Run(N, a, b) /\ Run(C, b, c)
      BY <2>1, <2>4 DEF Flow, FlowOf
    <3>2. PICK v \in Nat : v = s.n
      BY <1>9, <1>10
    <3> HIDE DEF N, NN, C, CC
    <3>3. CASE v = 0
      <4>1. Run(NN, a, b)
        BY <2>2, <3>1, <3>2, <3>3, RunAppend
      <4>2. Run(CC, b, c)
        BY <2>3, <3>1, <3>2, <3>3, RunShifted
      <4> QED BY <4>1, <4>2 DEF Flow, FlowOf, NN, CC
    <3>4. CASE v > 0
      <4>1. v = b + 1 /\ Run(CC, b + 1, c)
        BY <2>3, <3>1, <3>2, <3>4, RunShifted
      <4>2. Run(NN, a, b + 1)
        <5>1. NN = Append(N, v) /\ v \in Int /\ N \in Seq(Int)
          BY <2>2, <3>2
        <5> QED BY ONLY <2>4, <3>1, <4>1, <5>1, RunAppend
      <4>3. b + 1 \in Nat
        OBVIOUS
      <4> QED BY <4>1, <4>2, <4>3 DEF Flow, FlowOf, NN, CC
    <3> QED BY <3>2, <3>3, <3>4
  <2> QED BY <2>4 DEF Linked
<1>11. CASE s.kind = "data" /\ s.to = x /\ SendItem(u, s, r)
  BY <1>10, <1>11
<1>12. CASE ~(s.kind = "data" /\ s.to = x /\ SendItem(u, s, r))
  <2>1. Keeps(N, NN)
    BY <1>4, <1>7, <1>12
  <2>2. CASE t # u
    <3>1. todo'[t] = todo[t]
      BY <1>3, <2>2
    <3>2. Keeps(C, CC)
      BY <3>1, KeepsSame
    <3> QED BY <1>5, <2>1, <3>2
  <2>3. CASE t = u
    <3>1. SendingStep(t, x)
      BY <1>2, <2>3, SendSending
    <3>2. CASE todo'[t] = <<>> /\ pc'[t] \in {"finish", "fail"}
      BY <1>6, <2>1, <3>2
    <3>3. CASE Keeps(C, CC)
      BY <1>5, <2>1, <3>3
    <3>4. CASE Head(todo[t]).kind = "data" /\ Head(todo[t]).to = x /\ (<<t, x>> \in dstFin \/ Refused(x))
      <4>1. ~Refused(x)
        BY DEF Refused
      <4>2. <<t, x>> \in dstFin'
        BY <1>3, <3>4, <4>1
      <4> QED BY <1>5, <2>1, <4>2
    <3>5. ~(Head(todo[t]).kind = "data" /\ Head(todo[t]).to = x /\ SendItem(t, Head(todo[t]), Tail(todo[t])))
      BY <1>7, <1>12, <2>3
    <3> QED BY <3>1, <3>2, <3>3, <3>4, <3>5 DEF SendingStep
  <2> QED BY <2>2, <2>3
<1> QED BY <1>11, <1>12
\* A step that sends nothing concerns its task alone.
Local(u) ==
  /\ dstFin' = dstFin
  /\ \A t \in G.tasks : t # u => todo'[t] = todo[t]
  /\ \A n \in G.owners : n # u => q'[n] = q[n]
  /\ u \notin G.muxers => todo[u] = <<>>
  /\ \A d \in G.demuxers : d # u => pos'[d] = pos[d]
  /\ \A d \in G.decoders : d # u => dec'[d] = dec[d]
  /\ \A g \in G.graphs : g # u => fg'[g] = fg[g]

\* What a task does besides sending it does to its own state and its own queue.
LEMMA LocalIs ==
  ASSUME Typed, NEW u \in G.tasks, TaskStep(u) \/ TaskFails(u), ~SendStep(u)
  PROVE  Local(u)
<1>1. TasksTyped /\ QueuesTyped /\ SourcesTyped /\ GraphsTyped /\ G \in Graphs
  BY DEF Typed, TasksTyped
<1>2. /\ todo = [t \in G.tasks |-> todo[t]] /\ q = [n \in G.owners |-> q[n]]
      /\ pos = [d \in G.demuxers |-> pos[d]]
      /\ dec = [d \in G.decoders |-> dec[d]]
  BY <1>1 DEF TasksTyped, QueuesTyped, SourcesTyped
<1>3. ASSUME NEW w, NEW z, Go(u, w, z) PROVE \A t \in G.tasks : t # u => todo'[t] = todo[t]
  BY <1>2, <1>3 DEF Go
<1>4. ASSUME NEW z, Stay(u, z) PROVE \A t \in G.tasks : t # u => todo'[t] = todo[t]
  BY <1>3, <1>4 DEF Stay
<1>5. ASSUME \/ \E item : Take(u, item)
             \/ \E i : TakeEof(u, i)
             \/ TakeEnd(u) \/ TakeNothing(u)
      PROVE  \A n \in G.owners : n # u => q'[n] = q[n]
  BY <1>2, <1>5 DEF Take, TakeEof, TakeEnd, TakeNothing
<1> DEFINE Todo == \A t \in G.tasks : t # u => todo'[t] = todo[t]
           Items0 == \A n \in G.owners : n # u => q'[n] = q[n]
<1>6. ASSUME \/ \E w, z : Go(u, w, z)
             \/ \E z : Stay(u, z)
             \/ todo' = todo
      PROVE  Todo
  BY <1>3, <1>4, <1>6
<1>7. ASSUME q' = q PROVE Items0
  BY <1>7
<1>8. ASSUME pos' = pos PROVE \A d \in G.demuxers : d # u => pos'[d] = pos[d]
  BY <1>8
<1>9. ASSUME dec' = dec PROVE \A d \in G.decoders : d # u => dec'[d] = dec[d]
  BY <1>9
<1>10. ASSUME fg' = fg PROVE \A g \in G.graphs : g # u => fg'[g] = fg[g]
  BY <1>10
<1>11. CASE u \in G.demuxers /\ DemuxStep(u)
  <2>1. dstFin' = dstFin /\ q' = q /\ dec' = dec /\ fg' = fg /\ todo[u] = <<>>
    BY <1>11 DEF DemuxStep, DemuxPacket, DemuxLoop, DemuxEnd, Idle, queues
  <2>2. Todo
    <3>1. \/ \E w, z : Go(u, w, z)
          \/ \E z : Stay(u, z)
          \/ todo' = todo
      BY <1>11 DEF DemuxStep, DemuxPacket, DemuxLoop, DemuxEnd
    <3> QED BY <1>6, <3>1
  <2>3. \A d \in G.demuxers : d # u => pos'[d] = pos[d]
    BY <1>2, <1>11 DEF DemuxStep, DemuxPacket, DemuxLoop, DemuxEnd
  <2> QED BY <1>7, <1>9, <1>10, <2>1, <2>2, <2>3 DEF Local
<1>12. CASE u \in G.decoders /\ DecStep(u)
  <2>1. dstFin' = dstFin /\ pos' = pos /\ fg' = fg
    BY <1>12 DEF DecStep
  <2>2. Todo /\ todo[u] = <<>>
    <3>1. \/ \E w, z : Go(u, w, z)
          \/ \E z : Stay(u, z)
          \/ todo' = todo
      BY <1>12 DEF DecStep, DecOverflow, DecAsk, DecReceive, DecEof, DecDrain, DecNothing, DecConsumersDone,
                   Decode, DecFinish
    <3>2. todo[u] = <<>>
      BY <1>12 DEF DecStep, DecOverflow, DecAsk, DecReceive, DecEof, DecDrain, DecNothing, DecConsumersDone, Idle
    <3> QED BY <1>6, <3>1, <3>2
  <2>3. Items0
    <3>1. \/ q' = q
          \/ \E item : Take(u, item)
          \/ \E i : TakeEof(u, i)
          \/ TakeEnd(u) \/ TakeNothing(u)
      BY <1>12 DEF DecStep, DecOverflow, DecAsk, DecReceive, DecEof, DecDrain, DecNothing, DecConsumersDone, queues
    <3> QED BY <1>5, <1>7, <3>1
  <2>4. \A d \in G.decoders : d # u => dec'[d] = dec[d]
    BY <1>12, DecoderStep
  <2> QED BY <1>8, <1>10, <2>1, <2>2, <2>3, <2>4 DEF Local
<1>13. CASE u \in G.graphs /\ FilterStep(u)
  <2>1. dstFin' = dstFin /\ pos' = pos /\ dec' = dec
    BY <1>13 DEF FilterStep
  <2>2. Todo
    <3>1. CASE FilterRequest(u)
      <4>1. \/ \E w, z : Go(u, w, z)
            \/ \E z : Stay(u, z)
        BY <3>1 DEF FilterRequest
      <4> QED BY <1>6, <4>1
    <3>2. CASE FilterStep(u) /\ ~FilterRequest(u)
      <4>1. \E w, z : Go(u, w, z)
        BY <3>2 DEF FilterStep, FilterAsk, FilterFrame, FilterConfigure, FilterEof, FilterIdle, FilterWake,
                     FilterClose, FilterFinish
      <4> QED BY <1>6, <4>1
    <3> QED BY <1>13, <3>1, <3>2
  <2>3. todo[u] = <<>>
    BY <1>13 DEF FilterStep, FilterAsk, FilterFrame, FilterConfigure, FilterEof, FilterIdle, FilterWake,
                 FilterClose, FilterFinish, FilterRequest, Idle
  <2>4. Items0
    <3>1. \/ q' = q
          \/ \E item : Take(u, item)
          \/ \E i : TakeEof(u, i)
          \/ TakeEnd(u) \/ TakeNothing(u)
      BY <1>13 DEF FilterStep, FilterAsk, FilterFrame, FilterConfigure, FilterEof, FilterIdle, FilterWake,
                 FilterClose, FilterFinish, FilterRequest, queues
    <3> QED BY <1>5, <1>7, <3>1
  <2>5. \A g \in G.graphs : g # u => fg'[g] = fg[g]
    BY <1>13, FilterGraphs
  <2> QED BY <1>8, <1>9, <2>1, <2>2, <2>3, <2>4, <2>5 DEF Local
<1>14. CASE u \in G.encoders /\ EncStep(u)
  <2>1. dstFin' = dstFin /\ pos' = pos /\ dec' = dec /\ fg' = fg
    BY <1>14 DEF EncStep
  <2>2. Todo /\ todo[u] = <<>>
    <3>1. \/ \E w, z : Go(u, w, z)
          \/ \E z : Stay(u, z)
          \/ todo' = todo
      BY <1>14 DEF EncStep, EncOpen, EncReceive, EncEof, OpenEncoder
    <3>2. todo[u] = <<>>
      BY <1>14 DEF EncStep, EncOpen, EncReceive, EncEof, Idle
    <3> QED BY <1>6, <3>1, <3>2
  <2>3. Items0
    <3>1. \/ q' = q
          \/ \E item : Take(u, item)
          \/ \E i : TakeEof(u, i)
          \/ TakeEnd(u)
      BY <1>14 DEF EncStep, EncOpen, EncReceive, EncEof, queues
    <3> QED BY <1>5, <1>7, <3>1
  <2> QED BY <1>8, <1>9, <1>10, <2>1, <2>2, <2>3 DEF Local
<1>15. CASE u \in G.muxers /\ MuxStep(u)
  <2>1. dstFin' = dstFin /\ pos' = pos /\ dec' = dec /\ fg' = fg
    BY <1>15 DEF MuxStep
  <2>2. Todo
    <3>1. \/ \E w, z : Go(u, w, z)
          \/ \E z : Stay(u, z)
          \/ todo' = todo
      BY <1>15 DEF MuxStep, MuxReceive, MuxWrite, MuxEof, Write
    <3> QED BY <1>6, <3>1
  <2>3. Items0
    <3>1. CASE MuxReceive(u)
      BY <1>2, <3>1 DEF MuxReceive
    <3>2. CASE MuxWrite(u)
      BY <1>7, <3>2 DEF MuxWrite
    <3>3. CASE MuxEof(u)
      BY <1>5, <3>3 DEF MuxEof
    <3> QED BY <1>15, <3>1, <3>2, <3>3 DEF MuxStep
  <2> QED BY <1>8, <1>9, <1>10, <1>15, <2>1, <2>2, <2>3 DEF Local
<1>16. CASE Cleanup(u)
  <2>1. dstFin' = dstFin /\ pos' = pos /\ fg' = fg /\ todo[u] = <<>> /\ q' = q
    BY <1>16 DEF Cleanup, CleanupTask, CleanupMux, Idle
  <2>2. Todo
    <3>1. \E w, z : Go(u, w, z)
      BY <1>16 DEF Cleanup, CleanupTask, CleanupMux
    <3> QED BY <1>6, <3>1
  <2>3. \A d \in G.decoders : d # u => dec'[d] = dec[d]
    BY <1>2, <1>16 DEF Cleanup, CleanupTask, CleanupMux
  <2> QED BY <1>7, <1>8, <1>10, <2>1, <2>2, <2>3 DEF Local
<1>17. CASE Exit(u) \/ TaskFails(u)
  <2>1. dstFin' = dstFin /\ pos' = pos /\ fg' = fg /\ dec' = dec /\ todo[u] = <<>> /\ q' = q
    BY <1>17 DEF Exit, TaskFails, Idle, queues
  <2>2. Todo
    <3>1. \E w, z : Go(u, w, z)
      BY <1>17 DEF Exit, TaskFails
    <3> QED BY <1>6, <3>1
  <2> QED BY <1>7, <1>8, <1>9, <1>10, <2>1, <2>2 DEF Local
<1> QED BY <1>11, <1>12, <1>13, <1>14, <1>15, <1>16, <1>17 DEF TaskStep
-----------------------------------------------------------------------------
(* Taking and sending                                                      *)

\* What is taken off the front is v, after what does not matter.
Drops(r, s, v) == \E k \in 1 .. Len(r) :
                    /\ Shifted(r, s, k) /\ r[k] = v /\ v > 0
                    /\ \A j \in 1 .. k - 1 : r[j] <= 0

\* A first positive number that is taken away.
LEMMA DropsAt ==
  ASSUME NEW r, NEW s, NEW v, v > 0, NEW k \in 1 .. Len(r), Shifted(r, s, k), r[k] = v,
         \A j \in 1 .. k - 1 : r[j] <= 0
  PROVE  Drops(r, s, v)
BY DEF Drops

\* The first positive number of a run is the one that follows.
LEMMA RunDrops ==
  ASSUME NEW r \in Seq(Int), NEW s \in Seq(Int), NEW v, Drops(r, s, v),
         NEW a \in Nat, NEW b \in Nat, Run(r, a, b)
  PROVE  v = a + 1 /\ Run(s, a + 1, b)
<1>1. PICK k \in 1 .. Len(r) :
        Shifted(r, s, k) /\ r[k] = v /\ v > 0 /\ \A j \in 1 .. k - 1 : r[j] <= 0
  BY DEF Drops
<1>2. k \in Nat /\ k > 0
  OBVIOUS
<1> QED BY <1>1, <1>2, RunShifted

\* The numbers in the queue of n for input i.
LEMMA NumbersTyped ==
  ASSUME QueuesTyped, NEW n \in G.owners, NEW i
  PROVE  /\ Numbers(q[n], i) \in Seq(Int) /\ Len(Numbers(q[n], i)) = Len(q[n])
         /\ \A k \in 1 .. Len(q[n]) : Numbers(q[n], i)[k] = IF q[n][k].in = i THEN q[n][k].n ELSE 0
<1>1. q[n] \in Seq(Items(n))
  BY DEF QueuesTyped
<1>2. \A e \in Items(n) : e.n \in Int
  BY DEF Items
<1> QED BY <1>1, <1>2, NumbersAre

\* An item is taken off the queue, for input i or for another one.
LEMMA TakeItem ==
  ASSUME QueuesTyped, NEW n \in G.owners, NEW i, ~Refused(<<n, i>>), NEW item, Take(n, item)
  PROVE  /\ item.in = i /\ item.n > 0 => Drops(Numbers(q[n], i), Numbers(q'[n], i), item.n)
         /\ item.in # i \/ item.n <= 0 => Keeps(Numbers(q[n], i), Numbers(q'[n], i))
<1>1. HasItem(n) /\ item = q[n][FirstWanted(n)] /\ q' = [q EXCEPT ![n] = SubSeq(@, FirstWanted(n) + 1, Len(@))]
  BY DEF Take
<1>2. PICK k \in 1 .. Len(q[n]) : k = FirstWanted(n)
  BY <1>1, Takes
<1>3. item \in Items(n) /\ \A j \in 1 .. k - 1 : Refused(<<n, q[n][j].in>>)
  BY <1>1, <1>2, Takes
<1>4. PICK r : r = SubSeq(q[n], FirstWanted(n) + 1, Len(q[n]))
  OBVIOUS
<1>5. r \in Seq(Items(n)) /\ Len(r) = Len(q[n]) - k /\ \A j \in 1 .. Len(r) : r[j] = q[n][j + k]
  BY <1>1, <1>2, <1>4, FewerItems
<1>6. q'[n] = r /\ q[n] \in Seq(Items(n)) /\ \A e \in Items(n) : e.n \in Int
  <2>1. q'[n] = r
    BY <1>1, <1>4 DEF QueuesTyped
  <2>2. q[n] \in Seq(Items(n))
    BY DEF QueuesTyped
  <2> QED BY <2>1, <2>2 DEF Items
<1>7. k \in 0 .. Len(q[n])
  BY <1>6
<1>8. Shifted(Numbers(q[n], i), Numbers(r, i), k)
  BY <1>5, <1>6, <1>7, NumbersBehind
<1>9. /\ Numbers(q[n], i) \in Seq(Int) /\ Len(Numbers(q[n], i)) = Len(q[n])
      /\ \A j \in 1 .. Len(q[n]) : Numbers(q[n], i)[j] = IF q[n][j].in = i THEN q[n][j].n ELSE 0
  BY NumbersTyped
<1>10. Numbers(r, i) \in Seq(Int)
  BY <1>5, <1>6, NumbersAre
<1>11. \A j \in 1 .. k - 1 : Numbers(q[n], i)[j] = 0
  <2>1. ASSUME NEW j \in 1 .. k - 1 PROVE Numbers(q[n], i)[j] = 0
    <3>1. j \in 1 .. Len(q[n]) /\ q[n][j].in # i
      <4>1. j \in 1 .. Len(q[n])
        BY <1>6
      <4> QED BY <1>3, <4>1
    <3> QED BY <1>9, <3>1
  <2> QED BY <2>1
<1>12. Numbers(q[n], i)[k] = IF item.in = i THEN item.n ELSE 0
  BY <1>1, <1>2, <1>9
<1>13. PICK a \in Seq(Int), b \in Seq(Int) : a = Numbers(q[n], i) /\ b = Numbers(r, i)
  BY <1>9, <1>10
<1>14. k \in 1 .. Len(a) /\ Shifted(a, b, k) /\ (\A j \in 1 .. k - 1 : a[j] = 0) /\ item.n \in Int
       /\ a[k] = IF item.in = i THEN item.n ELSE 0
  BY <1>3, <1>6, <1>8, <1>9, <1>11, <1>12, <1>13
<1>15. ASSUME item.in = i, item.n > 0 PROVE Drops(a, b, item.n)
  <2>1. k \in 1 .. Len(a) /\ Shifted(a, b, k) /\ a[k] = item.n
    BY <1>14, <1>15
  <2>2. \A j \in 1 .. k - 1 : a[j] <= 0
    BY <1>14
  <2> QED BY <1>15, <2>1, <2>2, DropsAt
<1>16. ASSUME item.in # i \/ item.n <= 0 PROVE Keeps(a, b)
  <2>1. \A j \in 1 .. k : a[j] <= 0
    <3>1. a[k] <= 0
      BY <1>14, <1>16
    <3>2. ASSUME NEW j \in 1 .. k PROVE j = k \/ j \in 1 .. k - 1
      BY <1>14
    <3>3. \A j \in 1 .. k - 1 : a[j] = 0
      BY <1>14
    <3> QED BY <3>1, <3>2, <3>3
  <2>2. k \in Nat
    BY <1>14
  <2> QED BY <1>14, <2>1, <2>2, RunShifted DEF Keeps
<1> QED BY <1>6, <1>13, <1>15, <1>16

\* Nothing is left of a queue that has nothing for an input that is wanted.
LEMMA TakeNone ==
  ASSUME QueuesTyped, NEW n \in G.owners, NEW i, ~Refused(<<n, i>>), ~HasItem(n), q'[n] = <<>>
  PROVE  Keeps(Numbers(q[n], i), Numbers(q'[n], i))
<1>1. q[n] \in Seq(Items(n)) /\ Len(q[n]) \in Nat /\ DOMAIN q[n] = 1 .. Len(q[n])
  BY LenProperties DEF QueuesTyped
<1>2. PICK W : W = {k \in DOMAIN q[n] : ~Refused(<<n, q[n][k].in>>)}
  OBVIOUS
<1>3. W = {}
  <2> SUFFICES ASSUME ~(W = {}) PROVE FALSE
    OBVIOUS
  <2>1. W \subseteq Nat
    BY <1>1, <1>2
  <2>2. \E k \in W : \A j \in W : k <= j
    BY <2>1, Least
  <2>3. FirstWanted(n) = CHOOSE k \in W : \A j \in W : k <= j
    BY <1>2 DEF FirstWanted
  <2>4. FirstWanted(n) \in W
    BY <2>2, <2>3
  <2> QED BY <1>1, <1>2, <2>4 DEF HasItem
<1>4. Numbers(q[n], i) \in Seq(Int) /\ Len(Numbers(q[n], i)) = Len(q[n])
  BY NumbersTyped, Zenon
<1>5. \A j \in 1 .. Len(q[n]) : q[n][j].in # i
  BY <1>1, <1>2, <1>3
<1>6. Quiet(Numbers(q[n], i))
  <2>1. \A j \in 1 .. Len(q[n]) : Numbers(q[n], i)[j] = 0
    BY <1>5 DEF Numbers
  <2> QED BY <1>4, <2>1 DEF Quiet
<1>7. Numbers(<<>>, i) \in Seq(Int) /\ Quiet(Numbers(<<>>, i))
  BY DEF Numbers, Quiet
<1> QED BY <1>4, <1>6, <1>7, KeepsQuiet

\* A step of the owner of a queue that is not a message of its own.
LEMMA Listens ==
  ASSUME Typed, NEW u \in G.decoders \cup G.graphs, TaskStep(u) \/ TaskFails(u), ~SendStep(u), NEW i,
         "RECV" \notin fin[u][i]
  PROVE  \/ Keeps(Numbers(q[u], i), Numbers(q'[u], i))
         \/ \E item : Take(u, item) /\ item.in = i /\ Drops(Numbers(q[u], i), Numbers(q'[u], i), item.n)
<1>1. QueuesTyped /\ G \in Graphs
  BY DEF Typed, TasksTyped
<1>2. u \in G.owners /\ u \notin G.demuxers \cup G.encoders \cup G.muxers
  BY <1>1, GraphFacts, OneKind
<1>3. ~Refused(<<u, i>>)
  BY DEF Refused
<1> DEFINE Goal == \/ Keeps(Numbers(q[u], i), Numbers(q'[u], i))
                   \/ \E item : Take(u, item) /\ item.in = i /\ Drops(Numbers(q[u], i), Numbers(q'[u], i), item.n)
<1>4. ASSUME q' = q PROVE Goal
  BY <1>4, KeepsSame
<1>5. ASSUME NEW item, Take(u, item) PROVE Goal
  <2>1. item \in Items(u) /\ item.n \in Int
    <3>1. item \in Items(u)
      BY <1>1, <1>2, <1>5, Takes DEF Take
    <3> QED BY <3>1 DEF Items
  <2>2. (item.in = i /\ item.n > 0) \/ (item.in # i \/ item.n <= 0)
    BY <2>1
  <2> QED BY <1>1, <1>2, <1>3, <1>5, <2>2, TakeItem
<1>6. ASSUME (\E j : TakeEof(u, j)) \/ TakeEnd(u) \/ TakeNothing(u) PROVE Goal
  <2>1. ~HasItem(u) /\ q' = [q EXCEPT ![u] = <<>>]
    BY <1>6 DEF TakeEof, TakeEnd, TakeNothing
  <2>2. q'[u] = <<>>
    BY <1>1, <1>2, <2>1 DEF QueuesTyped
  <2> QED BY <1>1, <1>2, <1>3, <2>1, <2>2, TakeNone
<1>7. \/ q' = q
      \/ \E item : Take(u, item)
      \/ \E j : TakeEof(u, j)
      \/ TakeEnd(u) \/ TakeNothing(u)
  <2>1. CASE u \in G.decoders /\ DecStep(u)
    BY <2>1 DEF DecStep, DecOverflow, DecAsk, DecReceive, DecEof, DecDrain, DecNothing, DecConsumersDone, queues
  <2>2. CASE u \in G.graphs /\ FilterStep(u)
    BY <2>2 DEF FilterStep, FilterAsk, FilterFrame, FilterConfigure, FilterEof, FilterIdle, FilterWake,
                 FilterClose, FilterFinish, FilterRequest, queues
  <2>3. CASE Cleanup(u) \/ Exit(u) \/ TaskFails(u)
    BY <2>3 DEF Cleanup, CleanupTask, CleanupMux, Exit, TaskFails, queues
  <2> QED BY <1>2, <2>1, <2>2, <2>3 DEF TaskStep
<1> HIDE DEF Goal
<1>8. Goal
  BY <1>4, <1>5, <1>6, <1>7
<1> QED BY <1>8 DEF Goal
\* Nothing that counts is sent to x.
Silent(s, x) == \A k \in 1 .. Len(s) : ~(s[k].kind = "data" /\ s[k].to = x /\ s[k].n > 0)

\* The numbers that t has still to send to x.
LEMMA CarriedTyped ==
  ASSUME TasksTyped, NEW t \in G.tasks, NEW x, NEW s \in Seq(Sends(t))
  PROVE  /\ Carried(s, x) \in Seq(Int) /\ Len(Carried(s, x)) = Len(s)
         /\ \A k \in 1 .. Len(s) :
              Carried(s, x)[k] = IF s[k].kind = "data" /\ s[k].to = x THEN s[k].n ELSE 0
         /\ Silent(s, x) => Quiet(Carried(s, x))
<1>1. \A e \in Sends(t) : e.n \in Int
  BY DEF Sends, Message
<1>2. /\ Carried(s, x) \in Seq(Int) /\ Len(Carried(s, x)) = Len(s)
      /\ \A k \in 1 .. Len(s) :
              Carried(s, x)[k] = IF s[k].kind = "data" /\ s[k].to = x THEN s[k].n ELSE 0
  BY <1>1, CarriedAre
<1>3. \A k \in 1 .. Len(s) : s[k].n \in Int
  BY <1>1
<1>4. Silent(s, x) => Quiet(Carried(s, x))
  BY <1>2, <1>3 DEF Silent, Quiet
<1> QED BY <1>2, <1>4

\* A task that has nothing to send yet goes on without anything for x.
LEMMA SilentKeeps ==
  ASSUME TasksTyped, NEW t \in G.tasks, NEW x, todo[t] = <<>>, NEW s \in Seq(Sends(t)), Silent(s, x)
  PROVE  Keeps(Carried(todo[t], x), Carried(s, x))
<1>1. todo[t] \in Seq(Sends(t))
  BY DEF TasksTyped
<1>2. Silent(todo[t], x)
  BY DEF Silent
<1>3. Quiet(Carried(todo[t], x)) /\ Carried(todo[t], x) \in Seq(Int)
  BY <1>1, <1>2, CarriedTyped
<1>4. Quiet(Carried(s, x)) /\ Carried(s, x) \in Seq(Int)
  BY CarriedTyped
<1> QED BY <1>3, <1>4, KeepsQuiet

\* What the messages of a task say.
LEMMA SilentOnes ==
  ASSUME NEW x
  PROVE  /\ Silent(<<>>, x)
         /\ \A dsts \in Seq(G.owners \X Nat) :
              /\ Silent(SendEnds(dsts), x) /\ Silent(SendAll(dsts, 0), x)
              /\ \A v : x \notin Range(dsts) => Silent(SendAll(dsts, v), x)
              /\ Silent([k \in DOMAIN dsts |-> Send("flush", dsts[k], Special)], x)
<1>1. Silent(<<>>, x)
  BY DEF Silent
<1>2. \A dsts \in Seq(G.owners \X Nat) :
              /\ Silent(SendEnds(dsts), x) /\ Silent(SendAll(dsts, 0), x)
              /\ \A v : x \notin Range(dsts) => Silent(SendAll(dsts, v), x)
              /\ Silent([k \in DOMAIN dsts |-> Send("flush", dsts[k], Special)], x)
  <2> TAKE dsts \in Seq(G.owners \X Nat)
  <2>1. DOMAIN dsts = 1 .. Len(dsts) /\ Len(dsts) \in Nat
    OBVIOUS
  <2>3. Silent(SendEnds(dsts), x)
    BY <2>1 DEF Silent, SendEnds, Send
  <2>4. Silent(SendAll(dsts, 0), x)
    BY <2>1 DEF Silent, SendAll, Send
  <2>5. \A v : x \notin Range(dsts) => Silent(SendAll(dsts, v), x)
    BY <2>1 DEF Silent, SendAll, Send, Range
  <2>6. Silent([k \in DOMAIN dsts |-> Send("flush", dsts[k], Special)], x)
    BY <2>1 DEF Silent, Send
  <2> QED BY <2>3, <2>4, <2>5, <2>6
<1> QED BY <1>1, <1>2, Zenon

\* Two silent lists of sends make one.
LEMMA SilentBoth ==
  ASSUME NEW S, NEW r \in Seq(S), NEW s \in Seq(S), NEW x, Silent(r, x), Silent(s, x)
  PROVE  Silent(r \o s, x)
<1>1. PICK z \in Seq(S) : z = r \o s
  BY ConcatProperties
<1>2. /\ Len(z) = Len(r) + Len(s) /\ Len(r) \in Nat /\ Len(s) \in Nat
      /\ \A k \in 1 .. Len(r) : z[k] = r[k]
      /\ \A k \in 1 .. Len(s) : z[Len(r) + k] = s[k]
  BY <1>1
<1>3. ASSUME NEW k \in 1 .. Len(z) PROVE ~(z[k].kind = "data" /\ z[k].to = x /\ z[k].n > 0)
  <2>1. CASE k <= Len(r)
    <3>1. k \in 1 .. Len(r)
      BY <1>2, <2>1
    <3> QED BY <1>2, <3>1 DEF Silent
  <2>2. CASE k > Len(r)
    <3>1. k - Len(r) \in 1 .. Len(s) /\ k = Len(r) + (k - Len(r))
      BY <1>2, <2>2
    <3>2. z[k] = s[k - Len(r)]
      BY <1>2, <3>1
    <3> QED BY <3>1, <3>2 DEF Silent
  <2> QED BY <1>2, <2>1, <2>2
<1> QED BY <1>1, <1>3 DEF Silent

\* A message to each of some destinations, x among them.
LEMMA AllCarry ==
  ASSUME TasksTyped, NEW t \in G.tasks, NEW dsts \in Seq(Range(G.dsts[t])),
         NEW x \in Range(dsts), \A j, k \in DOMAIN dsts : dsts[j] = dsts[k] => j = k,
         NEW v \in Nat, v > 0
  PROVE  \A c \in Nat : v = c + 1 => Run(Carried(SendAll(dsts, v), x), c, c + 1)
<1>1. G \in Graphs
  BY DEF TasksTyped
<1>2. PICK s \in Seq(Sends(t)) : s = SendAll(dsts, v) /\ Len(s) = Len(dsts)
  BY <1>1, ToAll
<1>3. DOMAIN dsts = 1 .. Len(dsts) /\ Len(dsts) \in Nat
  OBVIOUS
<1>4. \A k \in 1 .. Len(s) : s[k].kind = "data" /\ s[k].to = dsts[k] /\ s[k].n = v
  BY <1>2, <1>3 DEF SendAll, Send
<1>5. PICK p \in Seq(Int) : p = Carried(s, x) /\ Len(p) = Len(s)
                            /\ \A k \in 1 .. Len(s) : p[k] = IF dsts[k] = x THEN v ELSE 0
  <2>1. /\ Carried(s, x) \in Seq(Int) /\ Len(Carried(s, x)) = Len(s)
        /\ \A k \in 1 .. Len(s) :
              Carried(s, x)[k] = IF s[k].kind = "data" /\ s[k].to = x THEN s[k].n ELSE 0
    BY CarriedTyped
  <2>2. \A k \in 1 .. Len(s) : Carried(s, x)[k] = IF dsts[k] = x THEN v ELSE 0
    BY <1>4, <2>1
  <2> QED BY <2>1, <2>2
<1>6. PICK j \in 1 .. Len(p) : dsts[j] = x
  BY <1>2, <1>3, <1>5 DEF Range
<1>7. /\ p[j] = v /\ \A k \in 1 .. Len(p) : k # j => p[k] = 0
  BY <1>2, <1>3, <1>5, <1>6
<1>8. ASSUME NEW c \in Nat, v = c + 1 PROVE Run(p, c, c + 1)
  <2>1. \A k \in 1 .. Len(p) : p[k] > 0 => c < p[k] /\ p[k] <= c + 1
    BY <1>7, <1>8
  <2>2. \A i, k \in 1 .. Len(p) : (i < k /\ p[i] > 0 /\ p[k] > 0) => p[i] < p[k]
    BY <1>7
  <2>3. \A w \in c + 1 .. c + 1 : \E k \in 1 .. Len(p) : p[k] = w
    BY <1>7, <1>8
  <2> QED BY <2>1, <2>2, <2>3 DEF Run
<1> QED BY <1>2, <1>5, <1>8

\* The next one is sent on its way to x.
LEMMA FlowIssued ==
  ASSUME TasksTyped, NEW t \in G.tasks, NEW x, NEW dsts \in Seq(Range(G.dsts[t])),
         x \in Range(dsts), \A j, k \in DOMAIN dsts : dsts[j] = dsts[k] => j = k,
         todo[t] = <<>>, dstFin' = dstFin,
         Keeps(Numbers(q[x[1]], x[2]), Numbers(q'[x[1]], x[2])),
         NEW a \in Nat, NEW c \in Nat, todo'[t] = SendAll(dsts, c + 1), Flow(t, x, a, c)
  PROVE  Flow(t, x, a, c + 1)'
<1>1. PICK b \in Nat : Run(Numbers(q[x[1]], x[2]), a, b)
                       /\ (<<t, x>> \in dstFin \/ Run(Carried(todo[t], x), b, c))
  BY DEF Flow, FlowOf
<1>2. Run(Numbers(q'[x[1]], x[2]), a, b)
  BY <1>1 DEF Keeps
<1>3. CASE <<t, x>> \in dstFin
  BY <1>1, <1>2, <1>3 DEF Flow, FlowOf
<1>4. CASE Run(Carried(todo[t], x), b, c)
  <2>1. todo[t] \in Seq(Sends(t)) /\ Silent(todo[t], x)
    BY DEF TasksTyped, Silent
  <2>2. Quiet(Carried(todo[t], x)) /\ Carried(todo[t], x) \in Seq(Int)
    BY <2>1, CarriedTyped
  <2>3. b = c
    BY <1>4, <2>2, RunQuiet
  <2>4. c + 1 \in Nat /\ c + 1 > 0
    OBVIOUS
  <2>5. Run(Carried(SendAll(dsts, c + 1), x), c, c + 1)
    BY <2>4, AllCarry
  <2>6. Run(Carried(todo'[t], x), b, c + 1)
    BY <2>3, <2>5
  <2> QED BY <1>2, <2>6 DEF Flow, FlowOf
<1> QED BY <1>1, <1>3, <1>4

\* The first one on its way to x arrives.
LEMMA FlowTaken ==
  ASSUME QueuesTyped, QueuesTyped', G' = G, NEW t, NEW x, x[1] \in G.owners, dstFin' = dstFin,
         Keeps(Carried(todo[t], x), Carried(todo'[t], x)),
         NEW v, Drops(Numbers(q[x[1]], x[2]), Numbers(q'[x[1]], x[2]), v),
         NEW a \in Nat, NEW c \in Nat, Flow(t, x, a, c)
  PROVE  v = a + 1 /\ Flow(t, x, a + 1, c)'
<1>1. PICK b \in Nat : Run(Numbers(q[x[1]], x[2]), a, b)
                       /\ (<<t, x>> \in dstFin \/ Run(Carried(todo[t], x), b, c))
  BY DEF Flow, FlowOf
<1>2. Numbers(q[x[1]], x[2]) \in Seq(Int)
  BY NumbersTyped
<1>3. Numbers(q'[x[1]], x[2]) \in Seq(Int)
  <2>1. q'[x[1]] \in Seq(Items(x[1])') /\ \A e \in Items(x[1])' : e.n \in Int
    BY DEF QueuesTyped, Items
  <2> QED BY <2>1, NumbersAre
<1>4. v = a + 1 /\ Run(Numbers(q'[x[1]], x[2]), a + 1, b)
  BY <1>1, <1>2, <1>3, RunDrops
<1>5. <<t, x>> \in dstFin' \/ Run(Carried(todo'[t], x), b, c)
  BY <1>1 DEF Keeps
<1> QED BY <1>4, <1>5 DEF Flow, FlowOf
-----------------------------------------------------------------------------
(* What demuxers feed to decoders                                          *)

\* A step of another task keeps the flow from t as long as it takes nothing from
\* the queue.
LEMMA LinkedLocal ==
  ASSUME NEW u, Local(u), NEW t \in G.tasks, t # u, NEW x, x[1] \in G.owners,
         Keeps(Numbers(q[x[1]], x[2]), Numbers(q'[x[1]], x[2]))
  PROVE  Linked(t, x)
<1>1. dstFin' = dstFin /\ todo'[t] = todo[t]
  BY DEF Local
<1>2. Keeps(Carried(todo[t], x), Carried(todo'[t], x))
  BY <1>1, KeepsSame
<1> QED BY <1>1, <1>2, FlowKept DEF Linked

\* A demuxer that stands still has read the same packets.
LEMMA CountedSame ==
  ASSUME G' = G, NEW d, pos'[d] = pos[d], NEW j
  PROVE  Counted(d, j)' = Counted(d, j)
<1>1. \A n : Count(d, j, n)' = Count(d, j, n)
  BY DEF Count
<1>2. /\ Counted(d, j)' = (G'.loop[d] - pos'[d].loops) * (Count(d, j, Len(G.file[d])))' + (Count(d, j, pos[d].next - 1))'
      /\ Counted(d, j) = (G.loop[d] - pos[d].loops) * Count(d, j, Len(G.file[d])) + Count(d, j, pos[d].next - 1)
  BY DEF Counted, Count
<1> QED BY <1>1, <1>2

\* Where a demuxer is in its file, and in its loops.
LEMMA FileFacts ==
  ASSUME TasksTyped, SourcesTyped, NEW d \in G.demuxers
  PROVE  /\ Len(G.file[d]) \in Nat /\ G.loop[d] \in Nat
         /\ pos[d].next \in Nat \ {0} /\ pos[d].next <= Len(G.file[d]) + 1
         /\ pos[d].loops \in 0 .. G.loop[d]
         /\ \A j, n : n \in Nat => Count(d, j, n) \in Nat
<1>1. G.file[d] \in Seq(DOMAIN G.streams[d]) /\ G.loop[d] \in Nat
  BY GraphsAssumption DEF TasksTyped, Furnished
<1>2. pos[d] \in [next : Nat \ {0}, loops : Nat] /\ pos[d].next <= Len(G.file[d]) + 1 /\ pos[d].loops <= G.loop[d]
  BY DEF SourcesTyped
<1>3. \A j, n : n \in Nat => Count(d, j, n) \in Nat
  BY CountFacts
<1> QED BY <1>1, <1>2, <1>3

\* Reading a packet counts it, for its stream only.
LEMMA CountedNext ==
  ASSUME TasksTyped, SourcesTyped, G' = G, NEW d \in G.demuxers, ~AtEnd(d),
         pos' = [pos EXCEPT ![d].next = @ + 1], NEW j
  PROVE  /\ Counted(d, j) \in Nat
         /\ Counted(d, j)' = Counted(d, j) + (IF G.file[d][pos[d].next] = j THEN 1 ELSE 0)
<1>1. PICK L \in Nat, K \in Nat, n \in Nat, l \in Nat :
        /\ L = Len(G.file[d]) /\ K = G.loop[d] /\ n + 1 = pos[d].next /\ l = pos[d].loops /\ l <= K
        /\ pos[d].next - 1 = n
  <2>1. pos[d].next - 1 \in Nat /\ (pos[d].next - 1) + 1 = pos[d].next
    BY FileFacts
  <2> QED BY <2>1, FileFacts
<1>2. pos'[d].next - 1 = n + 1 /\ pos'[d].loops = l
  <2>1. pos'[d] = [pos[d] EXCEPT !.next = @ + 1] /\ pos[d] \in [next : Nat \ {0}, loops : Nat]
    BY DEF SourcesTyped
  <2> QED BY <1>1, <2>1
<1>3. Count(d, j, n + 1) = Count(d, j, n) + IF G.file[d][n + 1] = j THEN 1 ELSE 0
  BY <1>1, CountFacts
<1>4. PICK A \in Nat, B \in Nat, C \in Nat : A = Count(d, j, L) /\ B = Count(d, j, n) /\ C = Count(d, j, n + 1)
  BY <1>1, CountFacts
<1>5. Counted(d, j) = (K - l) * A + B
  BY <1>1, <1>4 DEF Counted
<1>6. Counted(d, j)' = (K - l) * A + C
  BY <1>1, <1>2, <1>4 DEF Counted, Count
<1>7. PICK P \in Nat : P = (K - l) * A
  <2>1. K - l \in Nat
    BY <1>1
  <2> QED BY <1>4, <2>1
<1>8. PICK e \in {0, 1} : e = IF G.file[d][pos[d].next] = j THEN 1 ELSE 0
  OBVIOUS
<1>9. C = B + e
  BY <1>1, <1>3, <1>4, <1>8
<1>10. P + B \in Nat /\ P + C = (P + B) + e
  BY <1>9
<1> QED BY <1>5, <1>6, <1>7, <1>8, <1>10

\* Starting over, with a loop less to go, changes no count: all packets of the
\* file were read in this loop.
LEMMA CountedLoop ==
  ASSUME TasksTyped, SourcesTyped, G' = G, NEW d \in G.demuxers, AtEnd(d), pos[d].loops > 0,
         pos' = [pos EXCEPT ![d] = [next |-> 1, loops |-> @.loops - 1]], NEW j
  PROVE  Counted(d, j)' = Counted(d, j)
<1>1. PICK L \in Nat, K \in Nat, l \in Nat :
        L = Len(G.file[d]) /\ K = G.loop[d] /\ pos[d].next - 1 = L /\ l + 1 = pos[d].loops /\ l + 1 <= K
  <2>1. pos[d].loops - 1 \in Nat /\ (pos[d].loops - 1) + 1 = pos[d].loops /\ pos[d].next - 1 = Len(G.file[d])
    BY FileFacts DEF AtEnd
  <2>2. PICK L \in Nat, K \in Nat, l \in Nat : L = Len(G.file[d]) /\ K = G.loop[d] /\ l = pos[d].loops - 1
    <3>1. Len(G.file[d]) \in Nat /\ G.loop[d] \in Nat
      BY FileFacts
    <3> QED BY <2>1, <3>1
  <2>3. l + 1 <= K
    BY FileFacts, <2>1, <2>2
  <2>4. L = Len(G.file[d]) /\ K = G.loop[d] /\ pos[d].next - 1 = L /\ l + 1 = pos[d].loops /\ l + 1 <= K
    BY <2>1, <2>2, <2>3
  <2> QED BY <2>4, Zenon
<1>2. pos'[d].next - 1 = 0 /\ pos'[d].loops = l
  <2>1. pos'[d] = [next |-> 1, loops |-> pos[d].loops - 1] /\ pos[d].loops - 1 = l
    <3>1. pos'[d] = [next |-> 1, loops |-> pos[d].loops - 1]
      BY DEF SourcesTyped
    <3>2. pos[d].loops - 1 = l
      BY <1>1
    <3> QED BY <3>1, <3>2
  <2> QED BY <2>1
<1>3. PICK A \in Nat : A = Count(d, j, L) /\ Count(d, j, 0) = 0
  BY <1>1, CountFacts
<1>4. Counted(d, j) = (K - (l + 1)) * A + A
  BY <1>1, <1>3 DEF Counted
<1>5. Counted(d, j)' = (K - l) * A + 0
  BY <1>1, <1>2, <1>3 DEF Counted, Count
<1>6. \A k \in Int : k * A + A = (k + 1) * A
  OBVIOUS
<1>7. PICK k \in Int : k = K - (l + 1) /\ k + 1 = K - l
  BY <1>1
<1>8. (K - l) * A = (K - (l + 1)) * A + A
  BY <1>6, <1>7
<1>9. (K - l) * A \in Int
  BY <1>1, <1>3
<1> QED BY <1>4, <1>5, <1>8, <1>9
\* The demuxer is not touched, or the step is another one's message.
LEMMA FeedLinked ==
  ASSUME G' = G, NEW m, NEW x, Linked(m, x), pos'[m] = pos[m], pc'[m] = pc[m],
         NEW e \in Nat, FedBy(m, x, e)
  PROVE  FedBy(m, x, e)'
<1>1. PICK h \in Nat : Flow(m, x, e, h) /\ (pc[m] \in Working => HasRead(m, x, h))
  BY DEF FedBy
<1>2. Flow(m, x, e, h)'
  BY <1>1 DEF Linked
<1>3. pc'[m] \in Working => HasRead(m, x, h)'
  BY <1>1, CountedSame DEF HasRead
<1> QED BY <1>2, <1>3 DEF FedBy

\* Who has ended does not read any more.
LEMMA FeedEnded ==
  ASSUME NEW m, NEW x, Linked(m, x) \/ Unlinked(m, x), pc'[m] \notin Working,
         NEW e \in Nat, FedBy(m, x, e)
  PROVE  FedBy(m, x, e)'
<1>1. PICK h \in Nat : Flow(m, x, e, h)
  BY DEF FedBy
<1>2. PICK l \in Nat : Flow(m, x, e, l)'
  BY <1>1 DEF Linked, Unlinked
<1> QED BY <1>2 DEF FedBy

\* A send keeps what a decoder is fed in order.
LEMMA FeedSends ==
  ASSUME Typed, NEW u \in G.tasks, SendStep(u), NEW d \in G.decoders, "RECV" \notin fin[d][0],
         NEW m \in G.demuxers, <<d, 0>> \in Range(G.dsts[m]), NEW e \in Nat, FedBy(m, <<d, 0>>, e)
  PROVE  FedBy(m, <<d, 0>>, e)'
<1>1. TasksTyped /\ G \in Graphs /\ G' = G /\ pos' = pos
  BY DEF Typed, TasksTyped, SendStep
<1>2. m \in G.tasks \ G.muxers
  BY <1>1, GraphFacts, OneKind
<1>3. PICK x : x = <<d, 0>> /\ x[1] = d /\ x[2] = 0
  OBVIOUS
<1>4. Linked(m, x) \/ Unlinked(m, x)
  BY <1>2, <1>3, SendLinks
<1>5. pc'[m] = pc[m] \/ pc'[m] \in {"finish", "fail"}
  BY <1>2, SendPlaces DEF Places
<1>6. CASE pc'[m] = pc[m] /\ Linked(m, x)
  BY <1>1, <1>3, <1>6, FeedLinked
<1>7. CASE pc'[m] \in {"finish", "fail"}
  <2>1. pc'[m] \notin Working
    BY <1>7 DEF Working
  <2> QED BY <1>3, <1>4, <2>1, FeedEnded
<1> QED BY <1>4, <1>5, <1>6, <1>7 DEF Unlinked

\* A step of demuxer m itself.
LEMMA SilentLinks ==
  ASSUME TasksTyped, TasksTyped', G' = G, NEW t \in G.tasks, NEW x, todo[t] = <<>>, dstFin' = dstFin,
         Silent(todo'[t], x), Keeps(Numbers(q[x[1]], x[2]), Numbers(q'[x[1]], x[2]))
  PROVE  Linked(t, x)
<1>1. todo'[t] \in Seq(Sends(t))
  <2>1. todo'[t] \in Seq(Sends(t)')
    BY DEF TasksTyped
  <2> QED BY <2>1, SameGraph
<1>2. Keeps(Carried(todo[t], x), Carried(todo'[t], x))
  BY <1>1, SilentKeeps
<1> QED BY <1>2, FlowKept DEF Linked

\* A demuxer that reads sends the number that follows.
LEMMA FeedReads ==
  ASSUME Typed, Typed', G' = G, NEW m \in G.demuxers, TaskStep(m) \/ TaskFails(m), ~SendStep(m),
         NEW d \in G.decoders, <<d, 0>> \in Range(G.dsts[m]), NEW e \in Nat, FedBy(m, <<d, 0>>, e)
  PROVE  FedBy(m, <<d, 0>>, e)'
<1>1. TasksTyped /\ TasksTyped' /\ QueuesTyped /\ SourcesTyped /\ G \in Graphs
  BY DEF Typed, TasksTyped
<1>2. /\ m \in G.tasks /\ m \notin G.owners /\ m \notin G.muxers /\ m # d /\ d \in G.owners
      /\ m \notin G.decoders \cup G.graphs \cup G.encoders
  BY <1>1, GraphFacts, OneKind
<1>3. PICK x : x = <<d, 0>> /\ x[1] = d /\ x[2] = 0
  OBVIOUS
<1>4. Local(m)
  BY <1>2, LocalIs
<1>5. todo[m] = <<>> /\ dstFin' = dstFin /\ q'[d] = q[d]
  BY <1>2, <1>4 DEF Local
<1>6. Keeps(Numbers(q[x[1]], x[2]), Numbers(q'[x[1]], x[2]))
  BY <1>3, <1>5, KeepsSame
<1>7. ASSUME Silent(todo'[m], x) PROVE Linked(m, x)
  BY <1>1, <1>2, <1>5, <1>6, <1>7, SilentLinks
<1>8. PICK h \in Nat : Flow(m, x, e, h) /\ (pc[m] \in Working => HasRead(m, x, h))
  BY <1>3 DEF FedBy
<1>9. ASSUME NEW k \in Nat, Flow(m, x, e, k)', pc'[m] \in Working => HasRead(m, x, k)' PROVE FedBy(m, <<d, 0>>, e)'
  BY <1>3, <1>9 DEF FedBy
<1>10. G.dsts[m] \in Seq(G.owners \X Nat)
  BY <1>1, <1>2, SinkFacts
<1>20. CASE DemuxPacket(m)
  <2>1. /\ ~AtEnd(m) /\ pc[m] = "run" /\ pos' = [pos EXCEPT ![m].next = @ + 1]
    BY <1>20 DEF DemuxPacket, Idle
  <2>2. PICK i : i = G.file[m][pos[m].next]
    OBVIOUS
  <2>3. /\ i \in DOMAIN G.streams[m] /\ G.streams[m][i] \in Seq(Range(G.dsts[m]))
        /\ Number(m) = Counted(m, i) + 1 /\ Counted(m, i) \in Nat
    BY <1>1, <2>1, <2>2, PacketFacts
  <2>4. HasRead(m, x, h)
    BY <1>8, <2>1 DEF Working
  <2>5. \A j : Counted(m, j) \in Nat /\ Counted(m, j)' = Counted(m, j) + (IF i = j THEN 1 ELSE 0)
    BY <1>1, <2>1, <2>2, CountedNext
  <2>6. \A j, k \in DOMAIN G.streams[m] :
          \A a \in DOMAIN G.streams[m][j], b \in DOMAIN G.streams[m][k] :
            G.streams[m][j][a] = G.streams[m][k][b] => j = k /\ a = b
    BY <1>1, GraphsAssumption DEF WellConnected
  <2>7. CASE x \in Range(G.streams[m][i])
    <3>1. h = Counted(m, i)
      BY <2>3, <2>4, <2>7 DEF HasRead
    <3>2. \A j \in DOMAIN G.streams[m] : x \in Range(G.streams[m][j]) => j = i
      BY <2>3, <2>6, <2>7 DEF Range
    <3>3. HasRead(m, x, h + 1)'
      <4> SUFFICES ASSUME NEW j \in DOMAIN G'.streams[m], x \in Range(G'.streams[m][j])
                   PROVE h + 1 = Counted(m, j)'
        BY DEF HasRead
      <4>1. j = i
        BY <3>2
      <4> QED BY <2>5, <3>1, <4>1
    <3>4. CASE StreamDone(m, i)
      <4>1. <<m, x>> \in dstFin
        BY <2>7, <3>4 DEF StreamDone
      <4>2. Flow(m, x, e, h + 1)
        <5>1. PICK b \in Nat : Run(Numbers(q[x[1]], x[2]), e, b)
          BY <1>8 DEF Flow, FlowOf
        <5> QED BY <4>1, <5>1 DEF Flow, FlowOf
      <4>3. todo' = todo
        BY <1>20, <2>2, <3>4 DEF DemuxPacket
      <4>4. Silent(todo'[m], x)
        BY <1>5, <4>3, SilentOnes
      <4>5. h + 1 \in Nat
        OBVIOUS
      <4>6. Flow(m, x, e, h + 1)'
        BY <1>7, <4>2, <4>4, <4>5 DEF Linked
      <4> QED BY <1>9, <3>3, <4>5, <4>6
    <3>5. CASE ~StreamDone(m, i)
      <4>1. Stay(m, SendAll(G.streams[m][i], Number(m)))
        BY <1>20, <2>2, <3>5 DEF DemuxPacket
      <4>2. todo'[m] = SendAll(G.streams[m][i], h + 1)
        BY <1>1, <1>2, <2>3, <3>1, <4>1 DEF Stay, Go, TasksTyped
      <4>3. \A j, k \in DOMAIN G.streams[m][i] : G.streams[m][i][j] = G.streams[m][i][k] => j = k
        BY <2>3, <2>6
      <4>4. Flow(m, x, e, h + 1)'
        BY <1>1, <1>2, <1>5, <1>6, <1>8, <2>3, <2>7, <4>2, <4>3, FlowIssued
      <4>5. h + 1 \in Nat
        OBVIOUS
      <4> QED BY <1>9, <3>3, <4>4, <4>5
    <3> QED BY <3>4, <3>5
  <2>8. CASE x \notin Range(G.streams[m][i])
    <3>1. Silent(todo'[m], x)
      <4>1. CASE StreamDone(m, i)
        <5>1. todo' = todo
          BY <1>20, <2>2, <4>1 DEF DemuxPacket
        <5> QED BY <1>5, <5>1, SilentOnes
      <4>2. CASE ~StreamDone(m, i)
        <5>1. Stay(m, SendAll(G.streams[m][i], Number(m)))
          BY <1>20, <2>2, <4>2 DEF DemuxPacket
        <5>2. todo'[m] = SendAll(G.streams[m][i], Number(m))
          BY <1>1, <1>2, <5>1 DEF Stay, Go, TasksTyped
        <5>3. G.streams[m][i] \in Seq(G.owners \X Nat)
          <6>1. Range(G.dsts[m]) \subseteq G.owners \X Nat
            BY <1>1, <1>2, SinkFacts
          <6> QED BY <2>3, <6>1
        <5> QED BY <2>8, <5>2, <5>3, SilentOnes
      <4> QED BY <4>1, <4>2
    <3>2. HasRead(m, x, h)'
      <4> SUFFICES ASSUME NEW j \in DOMAIN G'.streams[m], x \in Range(G'.streams[m][j])
                   PROVE h = Counted(m, j)'
        BY DEF HasRead
      <4>1. j # i /\ h = Counted(m, j)
        BY <2>4, <2>8 DEF HasRead
      <4> QED BY <2>5, <4>1
    <3> QED BY <1>7, <1>8, <1>9, <3>1, <3>2 DEF Linked
  <2> QED BY <2>7, <2>8
<1>21. CASE DemuxLoop(m)
  <2>1. AtEnd(m) /\ pos[m].loops > 0 /\ pc[m] = "run" /\ pos' = [pos EXCEPT ![m] = [next |-> 1, loops |-> @.loops - 1]]
    BY <1>21 DEF DemuxLoop, Idle
  <2>2. todo'[m] = [k \in DOMAIN G.dsts[m] |-> Send("flush", G.dsts[m][k], Special)]
    BY <1>1, <1>2, <1>21 DEF DemuxLoop, Stay, Go, TasksTyped
  <2>3. Silent(todo'[m], x)
    BY <1>10, <2>2, SilentOnes
  <2>4. HasRead(m, x, h)
    BY <1>8, <2>1 DEF Working
  <2>5. HasRead(m, x, h)'
    BY <1>1, <2>1, <2>4, CountedLoop DEF HasRead
  <2> QED BY <1>7, <1>8, <1>9, <2>3, <2>5 DEF Linked
<1>22. CASE DemuxEnd(m) \/ TaskFails(m) \/ Exit(m)
  <2>1. todo'[m] = <<>> /\ pc'[m] \in {"finish", "fail", "exited"}
    BY <1>1, <1>2, <1>22 DEF DemuxEnd, TaskFails, Exit, Go, TasksTyped
  <2>2. Silent(todo'[m], x) /\ pc'[m] \notin Working
    BY <2>1, SilentOnes DEF Working
  <2> QED BY <1>3, <1>7, <2>2, FeedEnded
<1>23. CASE Cleanup(m)
  <2>1. todo'[m] = SendEnds(G.dsts[m]) /\ pc'[m] = Cleaned(m)
    BY <1>1, <1>2, <1>23 DEF Cleanup, CleanupTask, CleanupMux, Go, TasksTyped
  <2>2. Silent(todo'[m], x) /\ pc'[m] \notin Working
    BY <1>10, <2>1, SilentOnes DEF Working, Cleaned
  <2> QED BY <1>3, <1>7, <2>2, FeedEnded
<1> QED BY <1>2, <1>20, <1>21, <1>22, <1>23 DEF TaskStep, DemuxStep

\* A decoder has one input, and a demuxer feeds it.
LEMMA FeederOf ==
  ASSUME G \in Graphs, NEW d \in G.decoders
  PROVE  /\ G.inputs[d] = {0} /\ Ports(d) = {0} /\ d \in G.owners /\ d \in G.tasks \ G.muxers
         /\ \A m \in G.demuxers : m \in G.tasks \ G.muxers /\ m # d
         /\ \E m \in G.demuxers : <<d, 0>> \in Range(G.dsts[m])
<1>0. PICK y : y = <<d, 0>>
  OBVIOUS
<1>7. y[1] = d /\ y[2] = 0
  BY <1>0
<1>1. WellConnected(G)
  BY GraphsAssumption
<1>2. d \in G.owners /\ d \in G.tasks /\ d \notin G.muxers /\ d \notin G.graphs
  BY GraphFacts, OneKind
<1>3. G.inputs[d] = {0} /\ Ports(d) = {0}
  <2>1. G.inputs = [n \in G.owners |->
                   IF n \in G.muxers THEN {ms[2] : ms \in {x \in G.muxed : x[1] = n}}
                   ELSE IF n \in G.graphs THEN 0 .. G.nb[n] ELSE {0}]
    BY <1>1 DEF WellConnected
  <2> QED BY <1>2, <2>1 DEF Ports
<1>4. \A m \in G.demuxers : m \in G.tasks \ G.muxers /\ m # d
  BY <1>2, GraphFacts, OneKind
<1>5. PICK t \in G.tasks : <<d, 0>> \in Range(G.dsts[t])
  <2>1. <<d, 0>> \in FilterInputs(G) \cup OnlyInputs(G.decoders \cup G.encoders) \cup G.muxed
    BY DEF OnlyInputs
  <2> QED BY <1>1, <2>1 DEF WellConnected
<1>6. t \in G.demuxers
  <2>1. t \in G.demuxers \/ t \in G.decoders \cup G.graphs \/ t \in G.encoders \/ t \in G.muxers
    BY GraphFacts
  <2>2. /\ t \in G.decoders \cup G.graphs => d \in G.graphs \cup G.encoders
        /\ t \in G.encoders => <<d, 0>> \in G.muxed
        /\ t \notin G.muxers
    BY <1>0, <1>5, <1>7, SinkFacts
  <2>3. <<d, 0>> \notin G.muxed
    BY <1>2, GraphFacts
  <2> QED BY <2>1, <2>2, <2>3, OneKind
<1> QED BY <1>2, <1>3, <1>4, <1>5, <1>6

\* Tasks do not change the graph.
LEMMA TaskNext ==
  ASSUME NEW u \in G.tasks, TaskStep(u) \/ TaskFails(u)
  PROVE  G' = G
<1>1. [Next]_vars
  BY DEF Next
<1> QED BY <1>1, GraphStays

\* A reader that has not finished with an input had not before.
LEMMA FlagsKept ==
  ASSUME Typed, NEW u \in G.tasks, TaskStep(u) \/ TaskFails(u),
         NEW n \in G.owners, NEW i \in G.inputs[n], "RECV" \notin fin'[n][i]
  PROVE  "RECV" \notin fin[n][i]
<1>1. FlagsStep
  BY SendQueues, OtherQueues
<1> QED BY <1>1, FlagsStay DEF Typed

\* A step of another task, or a message of its own, leaves a decoder as it is.
LEMMA FedStep ==
  ASSUME Typed, Typed', NEW u \in G.tasks, TaskStep(u) \/ TaskFails(u),
         NEW d \in G.decoders, SendStep(u) \/ u # d, NEW c \in Nat, Fed(d, c)
  PROVE  Fed(d, c)'
<1>1. TasksTyped /\ QueuesTyped /\ SourcesTyped /\ G \in Graphs /\ G' = G
  BY TaskNext DEF Typed, TasksTyped
<1>2. d \in G.tasks \ G.muxers /\ d \in G.owners /\ 0 \in G.inputs[d]
  BY <1>1, FeederOf
<1>5. PICK x : x = <<d, 0>>
  OBVIOUS
<1>6. x[1] = d /\ x[2] = 0
  BY <1>5
<1>3. CASE pc'[d] \notin Working
  BY <1>3 DEF Fed
<1>4. CASE pc'[d] \in Working
  <2>1. pc[d] \in Working
    <3>1. CASE SendStep(u)
      <4>1. pc'[d] = pc[d] \/ pc'[d] \in {"finish", "fail"}
        BY <1>2, <3>1, SendPlaces DEF Places
      <4> QED BY <1>4, <4>1 DEF Working
    <3>2. CASE u # d
      BY <1>2, <1>4, <3>2, OtherPlaces
    <3> QED BY <3>1, <3>2
  <2>2. dec'[d].overflow = dec[d].overflow
    <3>1. CASE SendStep(u)
      <4>1. dec[d] \in [overflow : Seq(Int), expect : BOOLEAN, endts : {"none", "sent", "closed"}]
            /\ dec = [g \in G.decoders |-> dec[g]]
        BY <1>1 DEF SourcesTyped
      <4>2. \/ dec' = dec
            \/ \E g \in G.decoders : dec' = [dec EXCEPT ![g].endts = "none"]
        BY <3>1, SendDecoders
      <4>3. ASSUME NEW g \in G.decoders, dec' = [dec EXCEPT ![g].endts = "none"]
            PROVE  dec'[d].overflow = dec[d].overflow
        BY <4>1, <4>3
      <4> QED BY <4>2, <4>3
    <3>2. CASE ~SendStep(u)
      <4>1. Local(u)
        BY <3>2, LocalIs
      <4> QED BY <3>2, <4>1 DEF Local
    <3> QED BY <3>1, <3>2
  <2>3. PICK e \in Nat :
          /\ Run(dec[d].overflow, c, e)
          /\ "RECV" \notin fin[d][0] =>
               \A m \in G.demuxers : <<d, 0>> \in Range(G.dsts[m]) => FedBy(m, <<d, 0>>, e)
    BY <2>1 DEF Fed
  <2>4. ASSUME "RECV" \notin fin'[d][0], NEW m \in G.demuxers, <<d, 0>> \in Range(G.dsts[m])
        PROVE  FedBy(m, <<d, 0>>, e)'
    <3>1. "RECV" \notin fin[d][0]
      BY <1>2, <2>4, FlagsKept
    <3>2. FedBy(m, <<d, 0>>, e)
      BY <2>3, <2>4, <3>1
    <3>3. m \in G.tasks \ G.muxers /\ m # d
      BY <1>1, FeederOf
    <3>4. CASE SendStep(u)
      BY <2>4, <3>1, <3>2, <3>4, FeedSends
    <3>5. CASE ~SendStep(u) /\ u = m
      BY <1>1, <2>4, <3>2, <3>5, FeedReads
    <3>6. CASE ~SendStep(u) /\ u # m
      <4>2. Local(u)
        BY <3>6, LocalIs
      <4>3. q'[d] = q[d] /\ pos'[m] = pos[m]
        BY <1>2, <3>6, <4>2 DEF Local
      <4>4. pc'[m] = pc[m]
        BY <3>3, <3>6, OtherPlaces
      <4>5. Keeps(Numbers(q[x[1]], x[2]), Numbers(q'[x[1]], x[2]))
        BY <1>6, <4>3, KeepsSame
      <4>6. Linked(m, x)
        BY <1>2, <3>3, <1>6, <3>6, <4>2, <4>5, LinkedLocal
      <4> QED BY <1>1, <1>5, <3>2, <4>3, <4>4, <4>6, FeedLinked
    <3> QED BY <3>4, <3>5, <3>6
  <2> QED BY <1>1, <2>2, <2>3, <2>4 DEF Fed
<1> QED BY <1>3, <1>4

\* What a decoder does itself: it either sends on the next frame or none.
FedOn(d, c) ==
  \/ Fed(d, c)' /\ \A x : Silent(todo'[d], x)
  \/ Fed(d, c + 1)' /\ todo'[d] = SendAll(G.out[d], c + 1)

\* The packets that are fed come after e, or after e + 1 when the first is taken.
LEMMA FeedTaken ==
  ASSUME Typed, Typed', NEW d \in G.decoders, TaskStep(d) \/ TaskFails(d), ~SendStep(d),
         NEW m \in G.demuxers, <<d, 0>> \in Range(G.dsts[m]), NEW e \in Nat, FedBy(m, <<d, 0>>, e)
  PROVE  /\ Keeps(Numbers(q[d], 0), Numbers(q'[d], 0)) => FedBy(m, <<d, 0>>, e)'
         /\ \A v : Drops(Numbers(q[d], 0), Numbers(q'[d], 0), v)
                     => v = e + 1 /\ FedBy(m, <<d, 0>>, e + 1)'
<1>1. QueuesTyped /\ QueuesTyped' /\ G \in Graphs /\ G' = G
  BY TaskNext, GraphFacts DEF Typed, TasksTyped
<1>2. d \in G.tasks \ G.muxers /\ d \in G.owners /\ m \in G.tasks \ G.muxers /\ m # d
  BY <1>1, FeederOf
<1>3. PICK x : x = <<d, 0>>
  OBVIOUS
<1>4. x[1] = d /\ x[2] = 0
  BY <1>3
<1>5. Local(d)
  BY <1>2, LocalIs
<1>6. pos'[m] = pos[m] /\ pc'[m] = pc[m] /\ todo'[m] = todo[m] /\ dstFin' = dstFin
  BY <1>2, <1>5, OtherPlaces DEF Local
<1>7. ASSUME Keeps(Numbers(q[d], 0), Numbers(q'[d], 0)) PROVE FedBy(m, x, e)'
  <2>1. Linked(m, x)
    BY <1>2, <1>4, <1>5, <1>7, LinkedLocal
  <2> QED BY <1>1, <1>3, <1>6, <2>1, FeedLinked
<1>8. ASSUME NEW v, Drops(Numbers(q[d], 0), Numbers(q'[d], 0), v) PROVE v = e + 1 /\ FedBy(m, x, e + 1)'
  <2>1. PICK h \in Nat : Flow(m, x, e, h) /\ (pc[m] \in Working => HasRead(m, x, h))
    BY <1>3 DEF FedBy
  <2>2. Keeps(Carried(todo[m], x), Carried(todo'[m], x))
    BY <1>6, KeepsSame
  <2>3. v = e + 1 /\ Flow(m, x, e + 1, h)'
    BY <1>1, <1>2, <1>4, <1>6, <1>8, <2>1, <2>2, FlowTaken
  <2>4. pc'[m] \in Working => HasRead(m, x, h)'
    BY <1>1, <1>6, <2>1, CountedSame DEF HasRead
  <2> QED BY <2>3, <2>4 DEF FedBy
<1> QED BY <1>3, <1>7, <1>8

\* A decoder decodes, puts aside or takes back the packet that follows.
LEMMA FedOwn ==
  ASSUME Typed, Typed', NEW d \in G.decoders, TaskStep(d) \/ TaskFails(d), ~SendStep(d),
         NEW c \in Nat, Fed(d, c)
  PROVE  FedOn(d, c)
<1>1. TasksTyped /\ QueuesTyped /\ SourcesTyped /\ G \in Graphs /\ G' = G
  BY TaskNext, GraphFacts DEF Typed, TasksTyped
<1>2. d \in G.tasks \ G.muxers /\ d \in G.owners /\ G.inputs[d] = {0} /\ Ports(d) = {0}
  BY <1>1, FeederOf
<1>3. Local(d)
  BY <1>2, LocalIs
<1>4. todo[d] = <<>> /\ dstFin' = dstFin
  BY <1>2, <1>3 DEF Local
<1>5. ASSUME NEW w, NEW z, Go(d, w, z) PROVE pc'[d] = w /\ todo'[d] = z
  BY <1>1, <1>2, <1>5 DEF Go, TasksTyped
<1>6. G.out[d] = G.dsts[d] /\ G.out[d] \in Seq(G.owners \X Nat)
  BY <1>1, <1>2, Outputs, SinkFacts
<1>7. dec[d].overflow \in Seq(Int)
  BY <1>1 DEF SourcesTyped
<1>8. ASSUME pc'[d] \notin Working, todo'[d] \in {<<>>, SendAll(G.out[d], 0), SendEnds(G.out[d])}
      PROVE  FedOn(d, c)
  <2>1. Fed(d, c)'
    BY <1>8 DEF Fed
  <2>2. \A x : Silent(todo'[d], x)
    BY <1>6, <1>8, SilentOnes
  <2> QED BY <2>1, <2>2 DEF FedOn
<1> DEFINE All(e) == \A m \in G.demuxers : <<d, 0>> \in Range(G.dsts[m]) => FedBy(m, <<d, 0>>, e)
<1>9. ASSUME NEW a \in Nat, NEW e \in Nat, Run(dec'[d].overflow, a, e), "RECV" \notin fin'[d][0] => All(e)'
      PROVE  Fed(d, a)'
  BY <1>1, <1>9 DEF Fed
<1>10. ASSUME NEW e \in Nat, All(e), Keeps(Numbers(q[d], 0), Numbers(q'[d], 0)) PROVE All(e)'
  BY <1>1, <1>10, FeedTaken
<1>11. ASSUME NEW e \in Nat, All(e), NEW v, Drops(Numbers(q[d], 0), Numbers(q'[d], 0), v)
       PROVE  v = e + 1 /\ All(e + 1)'
  <2>1. \E m \in G.demuxers : <<d, 0>> \in Range(G.dsts[m])
    BY <1>1, FeederOf
  <2> QED BY <1>1, <1>11, <2>1, FeedTaken
<1>12. ASSUME pc[d] \in Working
       PROVE  \E e \in Nat : Run(dec[d].overflow, c, e) /\ ("RECV" \notin fin[d][0] => All(e))
  BY <1>12 DEF Fed
<1>13. \A x : Silent(<<>>, x)
  BY SilentOnes
<1>14. ASSUME pc[d] \in Working, UNCHANGED queues, dec'[d].overflow = dec[d].overflow, todo'[d] = <<>>
       PROVE  FedOn(d, c)
  <2>1. PICK e \in Nat : Run(dec[d].overflow, c, e) /\ ("RECV" \notin fin[d][0] => All(e))
    BY <1>12, <1>14
  <2>2. q' = q /\ fin' = fin /\ Keeps(Numbers(q[d], 0), Numbers(q'[d], 0))
    BY <1>14, KeepsSame DEF queues
  <2>3. Fed(d, c)'
    BY <1>9, <1>10, <1>14, <2>1, <2>2
  <2> QED BY <1>13, <1>14, <2>3 DEF FedOn
<1>15. ASSUME pc[d] \in Working, UNCHANGED queues, ~(dec[d].overflow = <<>>),
              Decode(d, Head(dec[d].overflow)), dec'[d].overflow = Tail(dec[d].overflow)
       PROVE  FedOn(d, c)
  <2>1. PICK e \in Nat : Run(dec[d].overflow, c, e) /\ ("RECV" \notin fin[d][0] => All(e))
    BY <1>12, <1>15
  <2>2. q' = q /\ fin' = fin /\ Keeps(Numbers(q[d], 0), Numbers(q'[d], 0))
    BY <1>15, KeepsSame DEF queues
  <2>7. Tail(dec[d].overflow) \in Seq(Int)
    BY <1>7, <1>15
  <2>3. PICK r \in Seq(Int), s \in Seq(Int) : r = dec[d].overflow /\ s = Tail(dec[d].overflow)
    BY <1>7, <2>7
  <2>4. Shifted(r, s, 1) /\ 1 \in Nat /\ r[1] = Head(r) /\ r[1] \in Int
    <3>1. ~(r = <<>>) /\ s = Tail(r)
      BY <1>15, <2>3
    <3>2. Len(r) \in Nat /\ Len(r) # 0 /\ Len(s) = Len(r) - 1 /\ \A k \in 1 .. Len(s) : s[k] = r[k + 1]
      BY <3>1
    <3> QED BY <3>2 DEF Shifted
  <2>5. CASE r[1] <= 0
    <3>1. Run(s, c, e)
      <4>1. Run(r, c, e) /\ \A k \in 1 .. 1 : r[k] <= 0
        BY <2>1, <2>3, <2>5
      <4> QED BY <2>4, <4>1, RunShifted
    <3>2. todo'[d] = <<>>
      BY <1>5, <1>15, <2>3, <2>4, <2>5 DEF Decode, Special
    <3>3. Fed(d, c)'
      BY <1>9, <1>10, <1>15, <2>1, <2>2, <2>3, <3>1
    <3> QED BY <1>13, <3>2, <3>3 DEF FedOn
  <2>6. CASE r[1] > 0
    <3>1. r[1] = c + 1 /\ Run(s, c + 1, e)
      <4>1. Run(r, c, e) /\ \A k \in 1 .. 1 - 1 : r[k] <= 0
        BY <2>1, <2>3
      <4> QED BY <2>4, <2>6, <4>1, RunShifted
    <3>2. todo'[d] = SendAll(G.out[d], c + 1)
      BY <1>5, <1>15, <2>3, <2>4, <2>6, <3>1 DEF Decode, Special
    <3>3. Fed(d, c + 1)'
      <4>1. c + 1 \in Nat
        OBVIOUS
      <4> QED BY <1>9, <1>10, <1>15, <2>1, <2>2, <2>3, <3>1, <4>1
    <3> QED BY <3>2, <3>3 DEF FedOn
  <2> QED BY <2>4, <2>5, <2>6
<1> HIDE DEF All
<1>20. CASE DecOverflow(d)
  <2>1. /\ pc[d] \in Working /\ UNCHANGED queues /\ ~(dec[d].overflow = <<>>)
        /\ Decode(d, Head(dec[d].overflow)) /\ dec' = [dec EXCEPT ![d].overflow = Tail(@)]
    BY <1>20 DEF DecOverflow, Idle, Working
  <2>2. dec'[d].overflow = Tail(dec[d].overflow)
    BY <1>1, <2>1 DEF SourcesTyped
  <2> QED BY <1>15, <2>1, <2>2
<1>21. CASE DecDrain(d)
  <2>1. pc[d] = "drain" /\ UNCHANGED queues
    BY <1>21 DEF DecDrain, Idle
  <2>2. ~(dec[d].overflow = <<>>) /\ pc[d] \in Working
    BY <1>1, <2>1 DEF SourcesTyped, Working
  <2>3. CASE Decode(d, Head(dec[d].overflow)) /\ dec' = [dec EXCEPT ![d].overflow = Tail(@)]
    <3>1. dec'[d].overflow = Tail(dec[d].overflow)
      BY <1>1, <2>3 DEF SourcesTyped
    <3> QED BY <1>15, <2>1, <2>2, <2>3, <3>1
  <2>4. CASE DecFinish(d)
    BY <1>5, <1>8, <2>4 DEF DecFinish, Working, Special
  <2> QED BY <1>21, <2>3, <2>4 DEF DecDrain
<1>22. CASE DecAsk(d)
  <2>1. pc[d] \in Working /\ UNCHANGED queues /\ todo'[d] = <<>>
    BY <1>5, <1>22 DEF DecAsk, Idle, Working
  <2>2. dec' = dec \/ dec' = [dec EXCEPT ![d].expect = FALSE, ![d].endts = "sent"]
    BY <1>22 DEF DecAsk
  <2>3. dec'[d].overflow = dec[d].overflow
    BY <1>1, <2>2 DEF SourcesTyped
  <2> QED BY <1>14, <2>1, <2>3
<1>23. CASE DecReceive(d)
  <2>1. PICK item, b, put :
          /\ item \in Range(q[d]) /\ Take(d, item) /\ put = (choked[d] \/ dec[d].overflow # <<>>)
          /\ IF put THEN Go(d, "run", <<>>) ELSE Decode(d, item.n)
          /\ dec' = [dec EXCEPT ![d].expect = @ \/ b, ![d].overflow = IF put THEN Append(@, item.n) ELSE @]
    <3>1. PICK item \in Range(q[d]) :
            /\ Take(d, item)
            /\ IF choked[d] \/ dec[d].overflow # <<>> THEN Go(d, "run", <<>>) ELSE Decode(d, item.n)
            /\ dec' = [dec EXCEPT ![d].expect = @ \/ (item.n <= Special /\ d \in G.endts),
                                  ![d].overflow = IF choked[d] \/ dec[d].overflow # <<>>
                                                  THEN Append(@, item.n) ELSE @]
      BY <1>23 DEF DecReceive
    <3>2. PICK b, put : /\ b = (item.n <= Special /\ d \in G.endts)
                        /\ put = (choked[d] \/ dec[d].overflow # <<>>)
      OBVIOUS
    <3>3. /\ item \in Range(q[d]) /\ Take(d, item) /\ put = (choked[d] \/ dec[d].overflow # <<>>)
          /\ IF put THEN Go(d, "run", <<>>) ELSE Decode(d, item.n)
          /\ dec' = [dec EXCEPT ![d].expect = @ \/ b, ![d].overflow = IF put THEN Append(@, item.n) ELSE @]
      BY <3>1, <3>2
    <3> QED BY <3>3, Zenon
  <2>2. HasItem(d) /\ item = q[d][FirstWanted(d)] /\ fin' = fin
    BY <2>1 DEF Take
  <2>3. item \in Items(d) /\ ~Refused(<<d, item.in>>)
    BY <1>1, <1>2, <2>2, Takes
  <2>4. item.n \in Int /\ item.in = 0
    BY <1>2, <2>3 DEF Items
  <2>5. ~Refused(<<d, 0>>)
    BY <2>3, <2>4
  <2>6. "RECV" \notin fin[d][0]
    BY <2>5 DEF Refused
  <2>7. pc[d] \in Working
    BY <1>23 DEF DecReceive, Idle, Working
  <2>8. PICK e \in Nat : Run(dec[d].overflow, c, e) /\ All(e)
    BY <1>12, <2>6, <2>7
  <2>9. PICK o \in Seq(Int) : o = dec[d].overflow
    BY <1>7
  <2>10. /\ put => dec'[d].overflow = Append(o, item.n)
         /\ ~put => dec'[d].overflow = o /\ o = <<>>
    <3>1. dec'[d] = [dec[d] EXCEPT !.expect = @ \/ b, !.overflow = IF put THEN Append(@, item.n) ELSE @]
      BY <1>1, <2>1 DEF SourcesTyped
    <3>2. dec[d] \in [overflow : Seq(Int), expect : BOOLEAN, endts : {"none", "sent", "closed"}]
      BY <1>1 DEF SourcesTyped
    <3> QED BY <2>1, <2>9, <3>1, <3>2
  <2>11. put => todo'[d] = <<>>
    BY <1>5, <2>1
  <2>12. CASE item.n <= 0
    <3>1. Keeps(Numbers(q[d], 0), Numbers(q'[d], 0))
      BY <1>1, <1>2, <2>1, <2>5, <2>12, TakeItem
    <3>2. All(e)'
      BY <1>10, <2>8, <3>1
    <3>3. todo'[d] = <<>>
      <4>1. ~put => todo'[d] = <<>>
        BY <1>5, <2>1, <2>12 DEF Decode, Special
      <4> QED BY <2>11, <4>1
    <3>4. Run(dec'[d].overflow, c, e)
      <4>1. Run(o, c, e) /\ Run(Append(o, item.n), c, e)
        BY <2>4, <2>8, <2>9, <2>12, RunAppend
      <4> QED BY <2>10, <4>1
    <3>5. Fed(d, c)'
      BY <1>9, <3>2, <3>4
    <3> QED BY <1>13, <3>3, <3>5 DEF FedOn
  <2>13. CASE item.n > 0
    <3>1. Drops(Numbers(q[d], 0), Numbers(q'[d], 0), item.n)
      BY <1>1, <1>2, <2>1, <2>4, <2>5, <2>13, TakeItem
    <3>2. item.n = e + 1 /\ All(e + 1)'
      BY <1>11, <2>8, <3>1
    <3>3. e + 1 \in Nat
      OBVIOUS
    <3>4. CASE put
      <4>1. Run(dec'[d].overflow, c, e + 1)
        BY <2>4, <2>8, <2>9, <2>10, <3>2, <3>4, RunAppend
      <4>2. Fed(d, c)'
        BY <1>9, <3>2, <3>3, <4>1
      <4> QED BY <1>13, <2>11, <3>4, <4>2 DEF FedOn
    <3>5. CASE ~put
      <4>1. o = <<>> /\ Quiet(o) /\ Run(o, c, e)
        BY <2>8, <2>9, <2>10, <3>5 DEF Quiet
      <4>2. c = e
        BY <4>1, RunQuiet
      <4>3. Run(dec'[d].overflow, c + 1, e + 1)
        <5>1. Run(o, c + 1, e + 1)
          BY <3>3, <4>1, <4>2, RunQuiet
        <5> QED BY <2>10, <3>5, <5>1
      <4>4. Fed(d, c + 1)'
        BY <1>9, <3>2, <3>3, <4>2, <4>3
      <4>5. todo'[d] = SendAll(G.out[d], c + 1)
        BY <1>5, <2>1, <2>13, <3>2, <3>5, <4>2 DEF Decode, Special
      <4> QED BY <4>4, <4>5 DEF FedOn
    <3> QED BY <3>4, <3>5
  <2> QED BY <2>4, <2>12, <2>13
<1>24. CASE DecEof(d)
  <2>1. CASE dec[d].overflow = <<>>
    BY <1>5, <1>8, <1>24, <2>1 DEF DecEof, DecFinish, Working, Special
  <2>2. CASE ~(dec[d].overflow = <<>>)
    <3>1. todo'[d] = <<>> /\ dec' = dec /\ pc[d] \in Working
      BY <1>5, <1>24, <2>2 DEF DecEof, Idle, Working
    <3>2. fin[d] = [i \in {0} |-> fin[d][i]] /\ fin = [n \in G.owners |-> fin[n]]
      BY <1>1, <1>2 DEF QueuesTyped
    <3>3. "RECV" \in fin'[d][0]
      <4>1. CASE TakeEof(d, 0)
        <5>1. fin' = Mark(d, {0}, "RECV")
          BY <4>1 DEF TakeEof
        <5>2. fin'[d] = [i \in DOMAIN fin[d] |-> IF i \in {0} THEN fin[d][i] \cup {"RECV"} ELSE fin[d][i]]
          BY <1>2, <3>2, <5>1 DEF Mark
        <5>3. 0 \in DOMAIN fin[d]
          BY <3>2
        <5> QED BY <5>2, <5>3
      <4>2. CASE TakeEnd(d)
        BY <3>2, <4>2 DEF TakeEnd
      <4> QED BY <1>24, <4>1, <4>2 DEF DecEof
    <3>4. PICK e \in Nat : Run(dec[d].overflow, c, e)
      BY <1>12, <3>1
    <3>5. Fed(d, c)'
      BY <1>9, <3>1, <3>3, <3>4
    <3> QED BY <1>13, <3>1, <3>5 DEF FedOn
  <2> QED BY <2>1, <2>2
<1>25. CASE DecNothing(d)
  <2>1. TakeNothing(d) /\ todo' = todo /\ dec' = dec /\ pc[d] \in Working
    BY <1>25 DEF DecNothing, Idle, Working
  <2>2. ~HasItem(d) /\ q'[d] = <<>> /\ fin' = fin
    BY <1>1, <1>2, <2>1 DEF TakeNothing, QueuesTyped
  <2>3. PICK e \in Nat : Run(dec[d].overflow, c, e) /\ ("RECV" \notin fin[d][0] => All(e))
    BY <1>12, <2>1
  <2>4. ASSUME "RECV" \notin fin[d][0] PROVE All(e)'
    <3>1. ~Refused(<<d, 0>>)
      BY <2>4 DEF Refused
    <3>2. Keeps(Numbers(q[d], 0), Numbers(q'[d], 0))
      BY <1>1, <1>2, <2>2, <3>1, TakeNone
    <3> QED BY <1>10, <2>3, <2>4, <3>2
  <2>5. Fed(d, c)'
    BY <1>9, <2>1, <2>2, <2>3, <2>4
  <2> QED BY <1>4, <1>13, <2>1, <2>5 DEF FedOn
<1>26. CASE DecConsumersDone(d)
  BY <1>5, <1>8, <1>26 DEF DecConsumersDone, Working
<1>27. CASE Cleanup(d)
  <2>1. todo'[d] = SendEnds(G.out[d]) /\ pc'[d] = Cleaned(d)
    BY <1>2, <1>5, <1>6, <1>27 DEF Cleanup, CleanupTask, CleanupMux
  <2> QED BY <1>8, <2>1 DEF Cleaned, Working
<1>28. CASE Exit(d) \/ TaskFails(d)
  <2>1. todo'[d] = <<>> /\ pc'[d] \in {"exited", "fail"}
    BY <1>5, <1>28 DEF Exit, TaskFails
  <2> QED BY <1>8, <2>1 DEF Working
<1>29. d \notin G.demuxers \cup G.graphs \cup G.encoders \cup G.muxers
  BY <1>1, OneKind, GraphFacts
<1> QED BY <1>20, <1>21, <1>22, <1>23, <1>24, <1>25, <1>26, <1>27, <1>28, <1>29 DEF TaskStep, DecStep
-----------------------------------------------------------------------------
(* What comes to the filtergraphs                                          *)

\* What a step that is no message does at the sender's end: nothing that concerns x,
\* or it sends the next frame.
SenderOn(u, t, x, c) ==
  \/ Passed(t, c)' /\ Keeps(Carried(todo[t], x), Carried(todo'[t], x))
  \/ /\ Passed(t, c + 1)' /\ todo[t] = <<>> /\ todo'[t] = SendAll(G.out[t], c + 1)
     /\ u = t /\ (t \in G.graphs => q' = q)

\* What a task has passed on is its own affair.
LEMMA PassedStep ==
  ASSUME Typed, Typed', NEW u \in G.tasks, TaskStep(u) \/ TaskFails(u),
         NEW t \in G.decoders \cup G.graphs, SendStep(u) \/ u # t, NEW c \in Nat, Passed(t, c)
  PROVE  Passed(t, c)'
<1>1. TasksTyped /\ G \in Graphs /\ G' = G
  BY TaskNext DEF Typed, TasksTyped
<1>2. t \in G.tasks \ G.muxers
  BY <1>1, GraphFacts, OneKind
<1>3. pc'[t] \in Working => pc[t] = pc'[t]
  <2>1. CASE SendStep(u)
    <3>1. pc'[t] = pc[t] \/ pc'[t] \in {"finish", "fail"}
      BY <1>2, <2>1, SendPlaces DEF Places
    <3> QED BY <3>1 DEF Working
  <2>2. CASE u # t
    BY <1>2, <2>2, OtherPlaces
  <2> QED BY <2>1, <2>2
<1>4. t \in G.graphs => fg'[t] = fg[t]
  <2>1. CASE SendStep(u)
    BY <2>1 DEF SendStep
  <2>2. CASE ~SendStep(u)
    <3>1. Local(u)
      BY <2>2, LocalIs
    <3> QED BY <2>2, <3>1 DEF Local
  <2> QED BY <2>1, <2>2
<1>5. t \in G.decoders => Fed(t, c)'
  BY FedStep DEF Passed
<1> QED BY <1>1, <1>3, <1>4, <1>5 DEF Passed

\* Filtergraph f after it has got a frame or an EOF frame.
LEMMA FrameMade ==
  ASSUME TasksTyped, QueuesTyped, NEW f \in G.graphs, FgTyped(f, fg[f]), fg = [g \in G.graphs |-> fg[g]],
         FilterFrame(f)
  PROVE  /\ fg'[f].made = fg[f].made
         /\ \E item \in Items(f) :
              /\ Take(f, item)
              /\ \A i \in FgInputs(G, f) :
                   Arrived(f, i)' = Arrived(f, i) + (IF item.in = i /\ item.n > 0 THEN 1 ELSE 0)
<1>1. G \in Graphs /\ f \in G.owners
  BY GraphFacts DEF TasksTyped
<1>2. PICK item, x, ready :
        /\ Take(f, item)
        /\ x = IF item.n = Special THEN [fg[f] EXCEPT !.eof = @ \cup {item.in}]
               ELSE [fg[f] EXCEPT !.have[item.in] = @ + 1]
        /\ SetFg(f, IF ready THEN Pushed(f, [x EXCEPT !.configured = TRUE]) ELSE x)
  BY DEF FilterFrame
<1>3. HasItem(f) /\ item = q[f][FirstWanted(f)]
  BY <1>2 DEF Take
<1>4. item \in Items(f)
  BY <1>1, <1>3, Takes
<1>5. item.in \in FgInputs(G, f) /\ item.n \in Nat
  BY <1>1, <1>4, OneKind DEF Items, Ports
<1>6. PICK old : old = fg[f] /\ FgTyped(f, old)
  OBVIOUS
<1>7. old.have \in [FgInputs(G, f) -> Nat] /\ old.took \in [FgInputs(G, f) -> Int]
      /\ old = [y \in FgFields |-> old[y]]
  BY <1>6 DEF FgTyped
<1>8. FgTyped(f, x) /\ x.made = old.made /\ x.took = old.took
  <2>1. CASE item.n = Special
    BY <1>2, <1>6, <2>1 DEF FgTyped, FgFields
  <2>2. CASE item.n # Special
    <3>1. PICK h : h = [old.have EXCEPT ![item.in] = @ + 1]
      OBVIOUS
    <3>2. h \in [FgInputs(G, f) -> Nat]
      BY <1>5, <1>7, <3>1
    <3>3. x = [old EXCEPT !.have = h]
      BY <1>2, <1>6, <2>2, <3>1
    <3>4. x = [y \in FgFields |-> IF y = "have" THEN h ELSE old[y]]
      BY <1>7, <3>3 DEF FgFields
    <3>5. /\ x = [y \in FgFields |-> x[y]] /\ x.have = h /\ x.took = old.took
          /\ x.next = old.next /\ x.made = old.made
      BY <3>4 DEF FgFields
    <3> QED BY <1>6, <3>2, <3>5 DEF FgTyped
  <2> QED BY <2>1, <2>2
<1>9. \A i \in FgInputs(G, f) : x.have[i] = old.have[i] + (IF item.in = i /\ item.n > 0 THEN 1 ELSE 0)
  <2>1. CASE item.n = Special
    <3>1. x.have = old.have
      BY <1>2, <1>6, <1>7, <2>1 DEF FgFields
    <3> QED BY <1>7, <2>1, <3>1 DEF Special
  <2>2. CASE item.n # Special
    <3>1. x.have = [old.have EXCEPT ![item.in] = @ + 1]
      BY <1>2, <1>6, <1>7, <2>2 DEF FgFields
    <3>2. item.n > 0
      BY <1>5, <2>2 DEF Special
    <3> QED BY <1>5, <1>7, <3>1, <3>2
  <2> QED BY <2>1, <2>2
<1>10. PICK y : y = [x EXCEPT !.configured = TRUE]
  OBVIOUS
<1>11. FgTyped(f, y) /\ y.made = x.made /\ y.took = x.took /\ y.have = x.have
  BY <1>8, <1>10 DEF FgTyped, FgFields
<1>12. PICK p : p = (IF ready THEN Pushed(f, y) ELSE x) /\ fg' = [fg EXCEPT ![f] = p]
  BY <1>2, <1>10 DEF SetFg
<1>13. p.made = old.made /\ \A i \in FgInputs(G, f) : p.took[i] + p.have[i] = x.took[i] + x.have[i]
  <2>1. CASE ready
    BY <1>8, <1>11, <1>12, <2>1, PushedFacts
  <2>2. CASE ~ready
    BY <1>8, <1>12, <2>2
  <2> QED BY <2>1, <2>2
<1>14. fg'[f] = p
  BY <1>12
<1>15. ASSUME NEW i \in FgInputs(G, f)
       PROVE  Arrived(f, i)' = Arrived(f, i) + (IF item.in = i /\ item.n > 0 THEN 1 ELSE 0)
  <2>1. PICK t \in Int, h \in Int, e \in Int : t = old.took[i] /\ h = old.have[i]
                                           /\ e = (IF item.in = i /\ item.n > 0 THEN 1 ELSE 0)
    <3>1. old.took[i] \in Int /\ old.have[i] \in Int
      BY <1>7
    <3>2. (IF item.in = i /\ item.n > 0 THEN 1 ELSE 0) \in Int
      OBVIOUS
    <3> QED BY <3>1, <3>2
  <2>2. x.took[i] = t /\ x.have[i] = h + e
    BY <1>8, <1>9, <2>1
  <2>3. p.took[i] + p.have[i] = t + (h + e)
    BY <1>13, <2>2
  <2>4. Arrived(f, i) = t + h /\ Arrived(f, i)' = t + (h + e)
    BY <1>6, <1>14, <2>1, <2>3 DEF Arrived
  <2> QED BY <2>1, <2>4
<1> QED BY <1>2, <1>4, <1>6, <1>13, <1>14, <1>15

\* A step of the sender: what it adds to the flow follows.
LEMMA SenderSide ==
  ASSUME Typed, Typed', NEW u \in G.tasks, TaskStep(u) \/ TaskFails(u), ~SendStep(u),
         NEW t \in G.decoders \cup G.graphs, NEW x, NEW c \in Nat, Passed(t, c)
  PROVE  SenderOn(u, t, x, c)
<1>1. TasksTyped /\ TasksTyped' /\ QueuesTyped /\ GraphsTyped /\ G \in Graphs /\ G' = G
  BY TaskNext DEF Typed, TasksTyped
<1>2. t \in G.tasks \ G.muxers
  BY <1>1, GraphFacts, OneKind
<1>3. Local(u)
  BY LocalIs
<1>4. ASSUME u # t PROVE SenderOn(u, t, x, c)
  <2>1. todo'[t] = todo[t]
    BY <1>2, <1>3, <1>4 DEF Local
  <2>2. Keeps(Carried(todo[t], x), Carried(todo'[t], x))
    BY <2>1, KeepsSame
  <2>3. Passed(t, c)'
    BY <1>4, PassedStep
  <2> QED BY <2>2, <2>3 DEF SenderOn
<1>5. ASSUME u = t PROVE todo[t] = <<>>
  BY <1>2, <1>3, <1>5 DEF Local
<1>6. ASSUME u = t, Silent(todo'[t], x) PROVE Keeps(Carried(todo[t], x), Carried(todo'[t], x))
  <2>1. todo'[t] \in Seq(Sends(t))
    <3>1. todo'[t] \in Seq(Sends(t)')
      BY <1>1, <1>2 DEF TasksTyped
    <3> QED BY <1>1, <3>1, SameGraph
  <2> QED BY <1>1, <1>2, <1>5, <1>6, <2>1, SilentKeeps
<1>7. CASE u = t /\ t \in G.decoders
  <2>1. FedOn(t, c)
    BY <1>7, FedOwn DEF Passed
  <2>2. t \notin G.graphs
    BY <1>1, <1>7, OneKind
  <2>3. CASE Fed(t, c)' /\ \A y : Silent(todo'[t], y)
    <3>1. Passed(t, c)'
      BY <1>1, <2>2, <2>3 DEF Passed
    <3> QED BY <1>6, <1>7, <2>3, <3>1 DEF SenderOn
  <2>4. CASE Fed(t, c + 1)' /\ todo'[t] = SendAll(G.out[t], c + 1)
    <3>1. Passed(t, c + 1)'
      BY <1>1, <2>2, <2>4 DEF Passed
    <3> QED BY <1>5, <1>7, <2>2, <2>4, <3>1 DEF SenderOn
  <2> QED BY <2>1, <2>3, <2>4 DEF FedOn
<1>8. CASE u = t /\ t \in G.graphs
  <2>1. t \notin G.demuxers \cup G.decoders \cup G.encoders \cup G.muxers
    BY <1>1, <1>8, OneKind, GraphFacts
  <2>2. ASSUME NEW w, NEW z, Go(t, w, z) PROVE pc'[t] = w /\ todo'[t] = z
    BY <1>1, <1>2, <2>2 DEF Go, TasksTyped
  <2>3. G.out[t] = G.dsts[t] /\ G.out[t] \in Seq(G.owners \X Nat)
    BY <1>1, <1>2, <1>8, Outputs, SinkFacts
  <2>4. ASSUME pc'[t] \notin Working, Silent(todo'[t], x) PROVE SenderOn(u, t, x, c)
    <3>1. Passed(t, c)'
      BY <1>1, <2>1, <2>4 DEF Passed
    <3> QED BY <1>6, <1>8, <2>4, <3>1 DEF SenderOn
  <2>5. ASSUME pc[t] \in Working, todo'[t] = <<>>, fg'[t].made = fg[t].made PROVE SenderOn(u, t, x, c)
    <3>1. c = fg[t].made
      BY <1>8, <2>5 DEF Passed
    <3>2. Passed(t, c)'
      BY <1>1, <2>1, <2>5, <3>1 DEF Passed
    <3>3. Silent(todo'[t], x)
      BY <2>5, SilentOnes
    <3> QED BY <1>6, <1>8, <3>2, <3>3 DEF SenderOn
  <2>6. Silent(<<>>, x) /\ Silent(SendEnds(G.out[t]), x) /\ Silent(SendAll(G.out[t], 0), x)
    BY <2>3, SilentOnes
  <2>7. FgTyped(t, fg[t]) /\ fg = [g \in G.graphs |-> fg[g]]
    BY <1>1, <1>8 DEF GraphsTyped
  <2>8. ASSUME NEW y, SetFg(t, y), y.made = fg[t].made PROVE fg'[t].made = fg[t].made
    BY <1>8, <2>7, <2>8 DEF SetFg
  <2>10. CASE FilterAsk(t) \/ FilterEof(t) \/ FilterIdle(t) \/ FilterWake(t)
    <3>1. pc[t] \in Working /\ fg' = fg /\ \E w : Go(t, w, <<>>)
      BY <2>10 DEF FilterAsk, FilterEof, FilterIdle, FilterWake, Idle, Working
    <3> QED BY <2>2, <2>5, <3>1
  <2>11. CASE FilterFrame(t)
    <3>1. pc[t] \in Working /\ \E w : Go(t, w, <<>>)
      BY <2>11 DEF FilterFrame, Working
    <3>2. fg'[t].made = fg[t].made
      BY <1>1, <1>8, <2>7, <2>11, FrameMade
    <3> QED BY <2>2, <2>5, <3>1, <3>2
  <2>12. CASE FilterConfigure(t)
    <3>1. pc[t] \in Working /\ \E w : Go(t, w, <<>>)
      BY <2>12 DEF FilterConfigure, Idle, Working
    <3>2. PICK y : y = [fg[t] EXCEPT !.configured = TRUE] /\ SetFg(t, Pushed(t, y))
      BY <2>12 DEF FilterConfigure
    <3>3. FgTyped(t, y) /\ y.made = fg[t].made
      BY <2>7, <3>2 DEF FgTyped, FgFields
    <3>4. Pushed(t, y).made = fg[t].made
      BY <1>1, <1>8, <3>3, PushedFacts
    <3> QED BY <2>2, <2>5, <2>8, <3>1, <3>2, <3>4
  <2>13. CASE FilterClose(t)
    <3>1. pc[t] \in Working /\ \E w : Go(t, w, <<>>)
      BY <2>13 DEF FilterClose, Idle, Working
    <3>2. PICK y, i : y = [fg[t] EXCEPT !.closed = @ \cup {i}] /\ SetFg(t, y)
      BY <2>13 DEF FilterClose
    <3>3. y.made = fg[t].made
      BY <2>7, <3>2 DEF FgTyped, FgFields
    <3> QED BY <2>2, <2>5, <2>8, <3>1, <3>2, <3>3
  <2>14. CASE FilterRequest(t)
    <3>1. pc[t] = "request" /\ q' = q /\ pc[t] \in Working
      BY <2>14 DEF FilterRequest, Idle, queues, Working
    <3>2. \/ \E w : Go(t, w, <<>>) /\ (fg' = fg \/ \E n : SetFg(t, [fg[t] EXCEPT !.next = n]))
          \/ /\ \E w : Go(t, w, <<>>)
             /\ SetFg(t, [fg[t] EXCEPT !.extra = @ - 1, !.ready = 1, !.next = G.nb[t]])
          \/ /\ SetFg(t, [fg[t] EXCEPT !.ready = @ - 1, !.made = @ + 1])
             /\ Stay(t, SendAll(G.out[t], fg[t].made + 1))
      BY <2>14 DEF FilterRequest
    <3>3. CASE \E w : Go(t, w, <<>>) /\ (fg' = fg \/ \E n : SetFg(t, [fg[t] EXCEPT !.next = n]))
      <4>1. \A n : [fg[t] EXCEPT !.next = n].made = fg[t].made
        BY <2>7 DEF FgTyped, FgFields
      <4> QED BY <2>2, <2>5, <2>8, <3>1, <3>3, <4>1
    <3>4. CASE /\ \E w : Go(t, w, <<>>)
               /\ SetFg(t, [fg[t] EXCEPT !.extra = @ - 1, !.ready = 1, !.next = G.nb[t]])
      <4>1. [fg[t] EXCEPT !.extra = @ - 1, !.ready = 1, !.next = G.nb[t]].made = fg[t].made
        BY <2>7 DEF FgTyped, FgFields
      <4> QED BY <2>2, <2>5, <2>8, <3>1, <3>4, <4>1
    <3>5. CASE /\ SetFg(t, [fg[t] EXCEPT !.ready = @ - 1, !.made = @ + 1])
               /\ Stay(t, SendAll(G.out[t], fg[t].made + 1))
      <4>1. c = fg[t].made
        BY <1>8, <3>1 DEF Passed
      <4>2. todo'[t] = SendAll(G.out[t], c + 1)
        BY <2>2, <3>5, <4>1 DEF Stay
      <4>3. PICK y : y = [fg[t] EXCEPT !.ready = @ - 1, !.made = @ + 1] /\ fg' = [fg EXCEPT ![t] = y]
        BY <3>5 DEF SetFg
      <4>4. fg'[t] = y /\ y.made = c + 1
        BY <1>8, <2>7, <4>1, <4>3 DEF FgTyped, FgFields
      <4>5. Passed(t, c + 1)'
        BY <1>1, <2>1, <4>4 DEF Passed
      <4> QED BY <1>5, <1>8, <3>1, <4>2, <4>5 DEF SenderOn
    <3> QED BY <3>2, <3>3, <3>4, <3>5
  <2>15. CASE FilterFinish(t)
    <3>1. PICK r : r = (IF fg[t].made = 0 THEN SendAll(G.out[t], Special) ELSE <<>>)
      OBVIOUS
    <3>2. pc'[t] = "finished" /\ todo'[t] \in {<<>>, r \o SendEnds(G.out[t])}
      BY <2>2, <2>15, <3>1 DEF FilterFinish
    <3>3. G.out[t] \in Seq(Range(G.dsts[t]))
      BY <1>1, <1>8, Outputs
    <3>4. r \in Seq(Sends(t)) /\ SendEnds(G.out[t]) \in Seq(Sends(t)) /\ Silent(r, x)
      BY <1>1, <1>2, <2>6, <3>1, <3>3, ToAll, EmptySeq DEF Special
    <3>5. Silent(r \o SendEnds(G.out[t]), x)
      BY <2>6, <3>4, SilentBoth
    <3>6. Silent(todo'[t], x) /\ pc'[t] \notin Working
      BY <2>6, <3>2, <3>5 DEF Working
    <3> QED BY <2>4, <3>6
  <2>16. CASE Cleanup(t)
    <3>1. todo'[t] = SendEnds(G.out[t]) /\ pc'[t] = Cleaned(t)
      BY <1>2, <2>2, <2>3, <2>16 DEF Cleanup, CleanupTask, CleanupMux
    <3> QED BY <2>4, <2>6, <3>1 DEF Cleaned, Working
  <2>17. CASE Exit(t) \/ TaskFails(t)
    <3>1. todo'[t] = <<>> /\ pc'[t] \in {"exited", "fail"}
      BY <2>2, <2>17 DEF Exit, TaskFails
    <3> QED BY <2>4, <2>6, <3>1 DEF Working
  <2> QED BY <1>8, <2>1, <2>10, <2>11, <2>12, <2>13, <2>14, <2>15, <2>16, <2>17 DEF TaskStep, FilterStep
<1> QED BY <1>4, <1>7, <1>8

\* What a step that is no message does at the receiver's end: nothing that concerns
\* input i, or it takes the next frame.
ReceiverOn(u, f, i) ==
  \/ Keeps(Numbers(q[f], i), Numbers(q'[f], i)) /\ Arrived(f, i)' = Arrived(f, i)
  \/ /\ \E v : Drops(Numbers(q[f], i), Numbers(q'[f], i), v)
     /\ Arrived(f, i)' = Arrived(f, i) + 1

\* A step of the filtergraph: what it takes from its queue is added to what has
\* arrived.
LEMMA ReceiverSide ==
  ASSUME Typed, Typed', NEW u \in G.tasks, TaskStep(u) \/ TaskFails(u), ~SendStep(u),
         NEW f \in G.graphs, NEW i \in FgInputs(G, f), "RECV" \notin fin[f][i]
  PROVE  ReceiverOn(u, f, i)
<1>1. TasksTyped /\ QueuesTyped /\ GraphsTyped /\ G \in Graphs /\ G' = G
  BY TaskNext DEF Typed, TasksTyped
<1>2. f \in G.owners /\ f \in G.tasks /\ f \notin G.demuxers \cup G.decoders \cup G.encoders \cup G.muxers
  BY <1>1, GraphFacts, OneKind
<1>3. FgTyped(f, fg[f]) /\ fg = [g \in G.graphs |-> fg[g]]
  BY <1>1 DEF GraphsTyped
<1>4. ~Refused(<<f, i>>)
  BY DEF Refused
<1>5. fg[f].took[i] \in Int /\ fg[f].have[i] \in Nat
  BY <1>3 DEF FgTyped
<1>6. ASSUME q'[f] = q[f], fg'[f] = fg[f] PROVE ReceiverOn(u, f, i)
  BY <1>6, KeepsSame DEF ReceiverOn, Arrived
<1>7. CASE u # f
  <2>1. Local(u)
    BY LocalIs
  <2>2. q'[f] = q[f] /\ fg'[f] = fg[f]
    BY <1>2, <1>7, <2>1 DEF Local
  <2> QED BY <1>6, <2>2
<1>8. ASSUME NEW y, SetFg(f, y), y.took[i] + y.have[i] = fg[f].took[i] + fg[f].have[i], q' = q
      PROVE  ReceiverOn(u, f, i)
  <2>1. fg'[f] = y /\ q'[f] = q[f]
    BY <1>3, <1>8 DEF SetFg
  <2>2. Arrived(f, i)' = Arrived(f, i)
    BY <1>8, <2>1 DEF Arrived
  <2> QED BY <2>1, <2>2, KeepsSame DEF ReceiverOn
<1>9. CASE u = f
  <2>1. CASE FilterAsk(f) \/ FilterIdle(f) \/ FilterWake(f) \/ FilterFinish(f) \/ Cleanup(f) \/ Exit(f) \/ TaskFails(f)
    <3>1. q' = q /\ fg' = fg
      BY <1>2, <2>1 DEF FilterAsk, FilterIdle, FilterWake, FilterFinish, Cleanup, CleanupTask, CleanupMux, Exit,
                         TaskFails, queues
    <3> QED BY <1>6, <3>1
  <2>2. CASE FilterEof(f)
    <3>1. ~HasItem(f) /\ q' = [q EXCEPT ![f] = <<>>] /\ fg' = fg
      BY <2>2 DEF FilterEof, TakeEof, TakeEnd, TakeNothing
    <3>2. q'[f] = <<>>
      BY <1>1, <1>2, <3>1 DEF QueuesTyped
    <3>3. Keeps(Numbers(q[f], i), Numbers(q'[f], i))
      BY <1>1, <1>2, <1>4, <3>1, <3>2, TakeNone
    <3>4. Arrived(f, i)' = Arrived(f, i)
      BY <3>1 DEF Arrived
    <3> QED BY <3>3, <3>4 DEF ReceiverOn
  <2>3. CASE FilterFrame(f)
    <3>1. PICK item \in Items(f) :
            /\ Take(f, item)
            /\ Arrived(f, i)' = Arrived(f, i) + (IF item.in = i /\ item.n > 0 THEN 1 ELSE 0)
      BY <1>1, <1>3, <2>3, FrameMade
    <3>2. item.n \in Nat
      BY <1>2, <3>1 DEF Items
    <3>3. Arrived(f, i) \in Int
      BY <1>5 DEF Arrived
    <3>4. CASE item.in = i /\ item.n > 0
      <4>1. Drops(Numbers(q[f], i), Numbers(q'[f], i), item.n)
        BY <1>1, <1>2, <1>4, <3>1, <3>4, TakeItem
      <4>2. Arrived(f, i)' = Arrived(f, i) + 1
        BY <3>1, <3>4
      <4> QED BY <4>1, <4>2 DEF ReceiverOn
    <3>5. CASE ~(item.in = i /\ item.n > 0)
      <4>1. item.in # i \/ item.n <= 0
        BY <3>2, <3>5
      <4>2. Keeps(Numbers(q[f], i), Numbers(q'[f], i))
        BY <1>1, <1>2, <1>4, <3>1, <4>1, TakeItem
      <4>3. Arrived(f, i)' = Arrived(f, i)
        BY <3>1, <3>3, <3>5
      <4> QED BY <4>2, <4>3 DEF ReceiverOn
    <3> QED BY <3>4, <3>5
  <2>4. CASE FilterConfigure(f)
    <3>1. PICK y : y = [fg[f] EXCEPT !.configured = TRUE] /\ SetFg(f, Pushed(f, y)) /\ q' = q
      BY <2>4 DEF FilterConfigure
    <3>2. FgTyped(f, y) /\ y.took = fg[f].took /\ y.have = fg[f].have
      BY <1>3, <3>1 DEF FgTyped, FgFields
    <3>3. Pushed(f, y).took[i] + Pushed(f, y).have[i] = fg[f].took[i] + fg[f].have[i]
      BY <1>1, <3>2, PushedFacts
    <3> QED BY <1>8, <3>1, <3>3
  <2>5. CASE FilterClose(f)
    <3>1. PICK y, j : y = [fg[f] EXCEPT !.closed = @ \cup {j}] /\ SetFg(f, y) /\ q' = q
      BY <2>5 DEF FilterClose
    <3>2. y.took = fg[f].took /\ y.have = fg[f].have
      BY <1>3, <3>1 DEF FgTyped, FgFields
    <3> QED BY <1>8, <3>1, <3>2
  <2>6. CASE FilterRequest(f)
    <3>1. q' = q
      BY <2>6 DEF FilterRequest, queues
    <3>2. \/ fg' = fg
          \/ \E n : SetFg(f, [fg[f] EXCEPT !.next = n])
          \/ SetFg(f, [fg[f] EXCEPT !.extra = @ - 1, !.ready = 1, !.next = G.nb[f]])
          \/ SetFg(f, [fg[f] EXCEPT !.ready = @ - 1, !.made = @ + 1])
      BY <2>6 DEF FilterRequest
    <3>3. \A y : y \in {[fg[f] EXCEPT !.extra = @ - 1, !.ready = 1, !.next = G.nb[f]],
                        [fg[f] EXCEPT !.ready = @ - 1, !.made = @ + 1]}
                 => y.took = fg[f].took /\ y.have = fg[f].have
      BY <1>3 DEF FgTyped, FgFields
    <3>4. \A n : [fg[f] EXCEPT !.next = n].took = fg[f].took /\ [fg[f] EXCEPT !.next = n].have = fg[f].have
      BY <1>3 DEF FgTyped, FgFields
    <3>5. CASE fg' = fg
      BY <1>6, <3>1, <3>5
    <3>6. CASE \E y : SetFg(f, y) /\ y.took = fg[f].took /\ y.have = fg[f].have
      BY <1>8, <3>1, <3>6
    <3> QED BY <3>2, <3>3, <3>4, <3>5, <3>6
  <2> QED BY <1>2, <1>9, <2>1, <2>2, <2>3, <2>4, <2>5, <2>6 DEF TaskStep, FilterStep
<1> QED BY <1>7, <1>9

\* A send keeps the frames on their way in order.
LEMMA FollowSends ==
  ASSUME Typed, Typed', NEW u \in G.tasks, SendStep(u), NEW f \in G.graphs, NEW i, "RECV" \notin fin[f][i],
         NEW t \in G.decoders \cup G.graphs, <<f, i>> \in Range(G.dsts[t]),
         NEW a \in Nat, Follow(t, <<f, i>>, a)
  PROVE  Follow(t, <<f, i>>, a)'
<1>1. G \in Graphs /\ t \in G.tasks
  BY GraphFacts DEF Typed, TasksTyped
<1>2. PICK x : x = <<f, i>>
  OBVIOUS
<1>3. x[1] = f /\ x[2] = i
  BY <1>2
<1>4. Linked(t, x) \/ Unlinked(t, x)
  BY <1>1, <1>2, <1>3, SendLinks
<1>5. PICK c \in Nat : Flow(t, x, a, c) /\ Passed(t, c)
  BY <1>2 DEF Follow
<1>6. CASE Linked(t, x)
  <2>1. Flow(t, x, a, c)'
    BY <1>5, <1>6 DEF Linked
  <2>2. Passed(t, c)'
    BY <1>5, PassedStep DEF TaskStep
  <2> QED BY <1>2, <2>1, <2>2 DEF Follow
<1>7. CASE Unlinked(t, x)
  <2>1. PICK e \in Nat : Flow(t, x, a, e)'
    BY <1>5, <1>7 DEF Unlinked
  <2>2. pc'[t] \notin Working
    BY <1>7 DEF Unlinked, Working
  <2>3. Passed(t, e)'
    BY <2>2 DEF Passed, Fed
  <2> QED BY <1>2, <2>1, <2>3 DEF Follow
<1> QED BY <1>4, <1>6, <1>7

\* So does every other step, with what arrives.
LEMMA FollowLocal ==
  ASSUME Typed, Typed', NEW u \in G.tasks, TaskStep(u) \/ TaskFails(u), ~SendStep(u),
         NEW f \in G.graphs, NEW i \in FgInputs(G, f), "RECV" \notin fin[f][i], Arrived(f, i) \in Nat,
         NEW t \in G.decoders \cup G.graphs, <<f, i>> \in Range(G.dsts[t]),
         Follow(t, <<f, i>>, Arrived(f, i))
  PROVE  Follow(t, <<f, i>>, Arrived(f, i))'
<1>1. TasksTyped /\ QueuesTyped /\ QueuesTyped' /\ G \in Graphs /\ G' = G
  BY TaskNext DEF Typed, TasksTyped
<1>2. f \in G.owners /\ t \in G.tasks
  BY <1>1, GraphFacts
<1>3. PICK x : x = <<f, i>>
  OBVIOUS
<1>4. x[1] = f /\ x[2] = i
  BY <1>3
<1>5. PICK a \in Nat : a = Arrived(f, i)
  OBVIOUS
<1>6. PICK c \in Nat : Flow(t, x, a, c) /\ Passed(t, c)
  BY <1>3, <1>5 DEF Follow
<1>7. dstFin' = dstFin
  BY LocalIs DEF Local
<1>8. SenderOn(u, t, x, c) /\ ReceiverOn(u, f, i)
  BY <1>6, SenderSide, ReceiverSide
<1>9. ASSUME NEW k \in Nat, NEW e \in Nat, Arrived(f, i)' = k, Flow(t, x, k, e)', Passed(t, e)'
      PROVE  Follow(t, <<f, i>>, Arrived(f, i))'
  BY <1>3, <1>9 DEF Follow
<1>10. c + 1 \in Nat /\ a + 1 \in Nat
  OBVIOUS
<1>11. CASE Passed(t, c)' /\ Keeps(Carried(todo[t], x), Carried(todo'[t], x))
  <2>1. CASE Keeps(Numbers(q[f], i), Numbers(q'[f], i)) /\ Arrived(f, i)' = Arrived(f, i)
    <3>1. Flow(t, x, a, c)'
      BY <1>4, <1>6, <1>7, <1>11, <2>1, FlowKept
    <3> QED BY <1>5, <1>9, <1>11, <2>1, <3>1
  <2>2. ASSUME NEW v, Drops(Numbers(q[f], i), Numbers(q'[f], i), v), Arrived(f, i)' = Arrived(f, i) + 1
        PROVE  Follow(t, <<f, i>>, Arrived(f, i))'
    <3>1. Flow(t, x, a + 1, c)'
      BY <1>1, <1>2, <1>4, <1>6, <1>7, <1>11, <2>2, FlowTaken
    <3> QED BY <1>5, <1>9, <1>10, <1>11, <2>2, <3>1
  <2> QED BY <1>8, <2>1, <2>2 DEF ReceiverOn
<1>12. CASE /\ Passed(t, c + 1)' /\ todo[t] = <<>> /\ todo'[t] = SendAll(G.out[t], c + 1)
            /\ u = t /\ (t \in G.graphs => q' = q)
  <2>1. Keeps(Numbers(q[f], i), Numbers(q'[f], i)) /\ Arrived(f, i)' = Arrived(f, i)
    <3>1. q'[f] = q[f]
      <4>1. CASE t \in G.graphs
        BY <1>12, <4>1
      <4>2. CASE t \notin G.graphs
        <5>1. Local(u) /\ u # f
          BY <1>12, <4>2, LocalIs
        <5> QED BY <1>2, <5>1 DEF Local
      <4> QED BY <4>1, <4>2
    <3>2. Numbers(q[f], i) \in Seq(Int)
      BY <1>1, <1>2, NumbersTyped
    <3>3. ASSUME NEW v, Drops(Numbers(q[f], i), Numbers(q'[f], i), v) PROVE FALSE
      <4>1. PICK r \in Seq(Int) : r = Numbers(q[f], i) /\ Drops(r, r, v)
        BY <3>1, <3>2, <3>3
      <4>2. PICK k \in 1 .. Len(r) : Len(r) = Len(r) - k
        BY <4>1 DEF Drops, Shifted
      <4> QED BY <4>2
    <3> QED BY <1>8, <3>3 DEF ReceiverOn
  <2>2. /\ G.out[t] \in Seq(Range(G.dsts[t])) /\ x \in Range(G.out[t])
        /\ \A j, k \in DOMAIN G.out[t] : G.out[t][j] = G.out[t][k] => j = k
    BY <1>1, <1>3, Outputs DEF IsInjective
  <2>3. Flow(t, x, a, c + 1)'
    BY <1>1, <1>2, <1>4, <1>6, <1>7, <1>12, <2>1, <2>2, FlowIssued
  <2> QED BY <1>5, <1>9, <1>10, <1>12, <2>1, <2>3
<1> QED BY <1>8, <1>11, <1>12 DEF SenderOn

\* An input of a filtergraph is fed by one decoder or filtergraph.
LEMMA SourceOf ==
  ASSUME G \in Graphs, NEW f \in G.graphs, NEW i \in FgInputs(G, f)
  PROVE  /\ f \in G.owners /\ i \in G.inputs[f]
         /\ \A t \in G.tasks : <<f, i>> \in Range(G.dsts[t]) => t \in G.decoders \cup G.graphs
         /\ \E t \in G.tasks : <<f, i>> \in Range(G.dsts[t])
<1>1. WellConnected(G)
  BY GraphsAssumption
<1>2. f \in G.owners /\ f \notin G.demuxers \cup G.decoders \cup G.encoders \cup G.muxers /\ G.nb[f] \in Nat
  BY GraphFacts, OneKind
<1>3. i \in G.inputs[f]
  <2>1. G.inputs[f] = 0 .. G.nb[f]
    BY <1>1, <1>2 DEF WellConnected
  <2> QED BY <1>2, <2>1 DEF FgInputs
<1>4. <<f, i>> \in FilterInputs(G)
  BY DEF FilterInputs, FgInputs
<1>5. \E t \in G.tasks : <<f, i>> \in Range(G.dsts[t])
  BY <1>1, <1>4 DEF WellConnected
<1>6. PICK x : x = <<f, i>>
  OBVIOUS
<1>7. x[1] = f
  BY <1>6
<1>8. ASSUME NEW t \in G.tasks, x \in Range(G.dsts[t]) PROVE t \in G.decoders \cup G.graphs
  <2>1. /\ t \in G.demuxers => f \in G.decoders \cup G.muxers
        /\ t \in G.encoders => x \in G.muxed
        /\ t \notin G.muxers
    BY <1>7, <1>8, SinkFacts
  <2>2. x \notin G.muxed
    BY <1>2, <1>7, GraphFacts
  <2> QED BY <1>2, <2>1, <2>2, GraphFacts
<1> QED BY <1>2, <1>3, <1>5, <1>6, <1>8

\* At first no frame is on its way.
LEMMA FollowInit == Init => AllFollow
<1> SUFFICES ASSUME Init PROVE AllFollow
  OBVIOUS
<1>1. G \in Graphs
  BY DEF Init
<1>2. Run(<<>>, 0, 0) /\ <<>> \in Seq(Int)
  BY EmptySeq DEF Run
<1>3. \A i, x : Numbers(<<>>, i) = <<>> /\ Carried(<<>>, x) = <<>>
  BY DEF Numbers, Carried
<1>4. ASSUME NEW t \in G.tasks, NEW x, x[1] \in G.owners PROVE Flow(t, x, 0, 0)
  <2>1. q[x[1]] = <<>> /\ todo[t] = <<>>
    BY <1>4 DEF Init
  <2> QED BY <1>2, <1>3, <2>1 DEF Flow, FlowOf
<1>5. ASSUME NEW d \in G.demuxers, NEW x PROVE HasRead(d, x, 0)
  <2>1. pos[d].next = 1 /\ pos[d].loops = G.loop[d]
    BY <1>5 DEF Init
  <2>2. G.loop[d] \in Nat /\ G.file[d] \in Seq(DOMAIN G.streams[d])
    BY <1>1, GraphsAssumption DEF Furnished
  <2>3. \A j : Count(d, j, 0) = 0 /\ Count(d, j, Len(G.file[d])) \in Nat
    BY <2>2, CountFacts
  <2>4. ASSUME NEW j PROVE Counted(d, j) = 0
    <3>1. PICK K \in Nat, A \in Nat : K = G.loop[d] /\ A = Count(d, j, Len(G.file[d])) /\ Count(d, j, 0) = 0
      BY <2>2, <2>3
    <3>2. Counted(d, j) = (K - K) * A + Count(d, j, 1 - 1)
      BY <2>1, <3>1 DEF Counted
    <3>3. K - K = 0 /\ 0 * A = 0 /\ 1 - 1 = 0
      OBVIOUS
    <3> QED BY <3>1, <3>2, <3>3
  <2> QED BY <2>4 DEF HasRead
<1>6. ASSUME NEW d \in G.decoders PROVE Fed(d, 0)
  <2>1. dec[d].overflow = <<>>
    BY <1>6 DEF Init
  <2>2. ASSUME NEW m \in G.demuxers PROVE FedBy(m, <<d, 0>>, 0)
    <3>1. m \in G.tasks /\ d \in G.owners
      BY <1>1, <1>6, GraphFacts
    <3>2. Flow(m, <<d, 0>>, 0, 0)
      BY <1>4, <3>1
    <3> QED BY <1>5, <2>2, <3>2 DEF FedBy
  <2> QED BY <1>2, <2>1, <2>2 DEF Fed
<1>7. ASSUME NEW t \in G.tasks PROVE Passed(t, 0)
  <2>1. t \in G.graphs => fg[t].made = 0
    BY DEF Init, NewFg
  <2> QED BY <1>6, <2>1 DEF Passed
<1>8. ASSUME NEW f \in G.graphs, NEW i \in FgInputs(G, f)
      PROVE  /\ Arrived(f, i) = 0
             /\ \A t \in G.tasks : <<f, i>> \in Range(G.dsts[t]) => Follow(t, <<f, i>>, Arrived(f, i))
  <2>1. fg[f].took[i] = 0 /\ fg[f].have[i] = 0
    BY <1>8 DEF Init, NewFg
  <2>2. Arrived(f, i) = 0
    BY <2>1 DEF Arrived
  <2>3. f \in G.owners
    BY <1>1, GraphFacts
  <2> QED BY <1>4, <1>7, <2>2, <2>3 DEF Follow
<1>9. ASSUME NEW f \in G.graphs, NEW i \in FgInputs(G, f) PROVE Arrived(f, i) \in Nat
  <2>1. Arrived(f, i) = 0
    BY <1>8
  <2> QED BY <2>1
<1> QED BY <1>8, <1>9 DEF AllFollow

\* Every step keeps the frames on their way in order.
LEMMA FollowNext == Typed /\ Typed' /\ AllFollow /\ [Next]_vars => AllFollow'
<1> SUFFICES ASSUME Typed, Typed', AllFollow, [Next]_vars PROVE AllFollow'
  OBVIOUS
<1>1. G \in Graphs /\ G' = G
  BY GraphStays DEF Typed, TasksTyped
<1>2. ASSUME NEW u \in G.tasks, TaskStep(u) \/ TaskFails(u),
             NEW f \in G.graphs, NEW i \in FgInputs(G, f), "RECV" \notin fin'[f][i]
      PROVE  /\ Arrived(f, i)' \in Nat
             /\ \A t \in G.tasks : <<f, i>> \in Range(G.dsts[t]) => Follow(t, <<f, i>>, Arrived(f, i))'
  <2>1. /\ f \in G.owners /\ i \in G.inputs[f]
        /\ \A t \in G.tasks : <<f, i>> \in Range(G.dsts[t]) => t \in G.decoders \cup G.graphs
    BY <1>1, SourceOf
  <2>2. "RECV" \notin fin[f][i]
    BY <1>2, <2>1, FlagsKept
  <2>3. /\ Arrived(f, i) \in Nat
        /\ \A t \in G.tasks : <<f, i>> \in Range(G.dsts[t]) => Follow(t, <<f, i>>, Arrived(f, i))
    BY <2>2 DEF AllFollow
  <2>4. CASE SendStep(u)
    <3>1. fg' = fg
      BY <2>4 DEF SendStep
    <3>2. Arrived(f, i)' = Arrived(f, i)
      BY <3>1 DEF Arrived
    <3>3. PICK a \in Nat : a = Arrived(f, i)
      BY <2>3
    <3>4. ASSUME NEW t \in G.tasks, <<f, i>> \in Range(G.dsts[t]) PROVE Follow(t, <<f, i>>, a)'
      BY <2>1, <2>2, <2>3, <2>4, <3>3, <3>4, FollowSends
    <3>5. \A t : Follow(t, <<f, i>>, Arrived(f, i))' <=> Follow(t, <<f, i>>, a)'
      BY <3>2, <3>3 DEF Follow
    <3> QED BY <2>3, <3>2, <3>4, <3>5
  <2>5. CASE ~SendStep(u)
    <3>1. Arrived(f, i)' \in Nat
      <4>1. ReceiverOn(u, f, i)
        BY <1>2, <2>2, <2>5, ReceiverSide
      <4> QED BY <2>3, <4>1 DEF ReceiverOn
    <3> QED BY <1>2, <2>1, <2>2, <2>3, <2>5, <3>1, FollowLocal
  <2> QED BY <2>4, <2>5
<1>3. ASSUME MainStep \/ Quit \/ Stopped \/ UNCHANGED vars PROVE AllFollow'
  <2>1. /\ G' = G /\ q' = q /\ fin' = fin /\ pc' = pc /\ todo' = todo /\ dstFin' = dstFin
        /\ pos' = pos /\ dec' = dec /\ fg' = fg
    BY <1>3 DEF MainStep, Start, Finish, StopSources, Join, Quit, Stopped, rest, vars, queues
  <2>2. \A m, j : Counted(m, j)' = Counted(m, j)
    BY <2>1, CountedSame
  <2>3. \A m, x, c : HasRead(m, x, c)' <=> HasRead(m, x, c)
    BY <2>1, <2>2 DEF HasRead
  <2>4. \A t, x, a, c : Flow(t, x, a, c)' <=> Flow(t, x, a, c)
    BY <2>1 DEF Flow
  <2>5. \A m, x, e : FedBy(m, x, e)' <=> FedBy(m, x, e)
    BY <2>1, <2>3, <2>4 DEF FedBy
  <2>6. \A d, c : Fed(d, c)' <=> Fed(d, c)
    BY <2>1, <2>5 DEF Fed
  <2>7. \A t, c : Passed(t, c)' <=> Passed(t, c)
    BY <2>1, <2>6 DEF Passed
  <2>9. \A f, i : Arrived(f, i)' = Arrived(f, i)
    BY <2>1 DEF Arrived
  <2>10. ASSUME NEW f \in G.graphs, NEW i \in FgInputs(G, f), "RECV" \notin fin[f][i]
         PROVE  /\ Arrived(f, i)' \in Nat
                /\ \A t \in G.tasks : <<f, i>> \in Range(G.dsts[t]) => Follow(t, <<f, i>>, Arrived(f, i))'
    <3>1. /\ Arrived(f, i) \in Nat
          /\ \A t \in G.tasks : <<f, i>> \in Range(G.dsts[t]) => Follow(t, <<f, i>>, Arrived(f, i))
      BY <2>10 DEF AllFollow
    <3>2. \A t : Follow(t, <<f, i>>, Arrived(f, i))' <=> Follow(t, <<f, i>>, Arrived(f, i))
      BY <2>4, <2>7, <2>9 DEF Follow
    <3> QED BY <2>9, <3>1, <3>2
  <2> QED BY <2>1, <2>10 DEF AllFollow, FgInputs
<1>4. ASSUME NEW u \in G.tasks, TaskStep(u) \/ TaskFails(u) PROVE AllFollow'
  BY <1>1, <1>2, <1>4 DEF AllFollow, FgInputs
<1> QED BY <1>3, <1>4 DEF Next

\* What follows is in order.
LEMMA FollowOrder == Typed /\ AllFollow => FramesInOrder
<1> SUFFICES ASSUME Typed, AllFollow,
                    NEW f \in G.graphs, NEW i \in FgInputs(G, f), "RECV" \notin fin[f][i],
                    NEW k \in {l \in DOMAIN q[f] : q[f][l].in = i /\ q[f][l].n # Special}
             PROVE  /\ q[f][k].n > Arrived(f, i)
                    /\ {q[f][j].n : j \in {l \in {h \in DOMAIN q[f] : q[f][h].in = i /\ q[f][h].n # Special} :
                                             l < k}}
                       = Arrived(f, i) + 1 .. q[f][k].n - 1
  BY DEF FramesInOrder, Arrived
<1>1. QueuesTyped /\ G \in Graphs
  BY DEF Typed, TasksTyped
<1>2. f \in G.owners /\ f \notin G.decoders
  BY <1>1, GraphFacts, OneKind
<1>3. PICK t \in G.tasks : <<f, i>> \in Range(G.dsts[t])
  BY <1>1, SourceOf
<1>4. Arrived(f, i) \in Nat /\ Follow(t, <<f, i>>, Arrived(f, i))
  BY <1>3 DEF AllFollow
<1>5. PICK x : x = <<f, i>>
  OBVIOUS
<1>6. x[1] = f /\ x[2] = i
  BY <1>5
<1>7. PICK a \in Nat, c \in Nat : a = Arrived(f, i) /\ Flow(t, x, a, c)
  <2>1. \E c \in Nat : Flow(t, x, Arrived(f, i), c)
    BY <1>4, <1>5 DEF Follow
  <2> QED BY <1>4, <2>1
<1>8. PICK b \in Nat : Run(Numbers(q[f], i), a, b)
  BY <1>6, <1>7 DEF Flow, FlowOf
<1>9. PICK s \in Seq(Int) : /\ s = Numbers(q[f], i) /\ Len(s) = Len(q[f])
                            /\ \A j \in 1 .. Len(q[f]) : s[j] = IF q[f][j].in = i THEN q[f][j].n ELSE 0
  <2>1. /\ Numbers(q[f], i) \in Seq(Int) /\ Len(Numbers(q[f], i)) = Len(q[f])
        /\ \A j \in 1 .. Len(q[f]) : Numbers(q[f], i)[j] = IF q[f][j].in = i THEN q[f][j].n ELSE 0
    BY <1>1, <1>2, NumbersTyped
  <2>2. PICK s : s = Numbers(q[f], i)
    OBVIOUS
  <2> QED BY <2>1, <2>2
<1>10. DOMAIN q[f] = 1 .. Len(s) /\ Len(s) \in Nat
  <2>1. q[f] \in Seq(Items(f))
    BY <1>1, <1>2 DEF QueuesTyped
  <2> QED BY <1>9, <2>1, LenProperties
<1>11. \A j \in DOMAIN q[f] : q[f][j].n \in Nat
  <2>1. q[f] \in Seq(Items(f))
    BY <1>1, <1>2 DEF QueuesTyped
  <2>2. \A j \in DOMAIN q[f] : q[f][j] \in Items(f)
    BY <2>1, LenProperties
  <2> QED BY <1>2, <2>2 DEF Items
<1>12. \A j \in 1 .. Len(s) : s[j] \in Int
  OBVIOUS
<1> DEFINE Frame(j) == j \in DOMAIN q[f] /\ q[f][j].in = i /\ q[f][j].n # Special
<1>13. \A j : Frame(j) <=> j \in 1 .. Len(s) /\ s[j] > 0
  BY <1>9, <1>10, <1>11 DEF Special
<1>14. \A j : Frame(j) => q[f][j].n = s[j]
  BY <1>9, <1>10
<1>15. Frame(k)
  OBVIOUS
<1>16. \A v : v \in {q[f][j].n : j \in {l \in {h \in DOMAIN q[f] : q[f][h].in = i /\ q[f][h].n # Special} : l < k}}
              <=> \E j : Frame(j) /\ j < k /\ q[f][j].n = v
  OBVIOUS
<1> HIDE DEF Frame
<1>17. k \in 1 .. Len(s) /\ s[k] > 0 /\ q[f][k].n = s[k] /\ s[k] \in Int
  BY <1>12, <1>13, <1>14, <1>15
<1>18. Run(s, a, b)
  BY <1>8, <1>9
<1>19. a < s[k] /\ s[k] <= b
  BY <1>17, <1>18 DEF Run
<1>20. ASSUME NEW j, Frame(j), j < k PROVE s[j] \in a + 1 .. s[k] - 1
  <2>1. j \in 1 .. Len(s) /\ s[j] > 0 /\ s[j] \in Int
    BY <1>12, <1>13, <1>20
  <2>2. a < s[j] /\ s[j] < s[k]
    BY <1>17, <1>18, <1>20, <2>1 DEF Run
  <2> QED BY <1>17, <2>1, <2>2
<1>21. ASSUME NEW v \in a + 1 .. s[k] - 1 PROVE \E j : Frame(j) /\ j < k /\ q[f][j].n = v
  <2>1. v \in a + 1 .. b /\ v > 0 /\ v < s[k]
    BY <1>17, <1>19
  <2>2. PICK j \in 1 .. Len(s) : s[j] = v
    BY <1>18, <2>1 DEF Run
  <2>3. Frame(j) /\ q[f][j].n = v
    BY <1>13, <1>14, <2>1, <2>2
  <2>4. ~(k < j)
    <3>1. ASSUME k < j PROVE s[k] < s[j]
      <4>1. s[j] > 0
        BY <2>1, <2>2
      <4> QED BY <1>17, <1>18, <3>1, <4>1 DEF Run
    <3> QED BY <1>17, <2>1, <2>2, <3>1
  <2>5. j # k
    BY <2>1, <2>2
  <2> QED BY <1>10, <1>17, <2>2, <2>3, <2>4, <2>5
<1>22. \A v : v \in a + 1 .. s[k] - 1 <=> \E j : Frame(j) /\ j < k /\ q[f][j].n = v
  BY <1>14, <1>20, <1>21
<1> QED BY <1>7, <1>16, <1>17, <1>19, <1>22

\* A filtergraph gets the frames of each of its inputs in order and without a
\* gap: what sits in its queue follows what has arrived. This holds in every graph,
\* whatever a choked decoder puts aside (the overflow fifo of dec_open()'s queue),
\* however often a file is looped, whichever tasks fail, and whenever the user
\* quits (thread_queue.h, ffmpeg_sched.c).
THEOREM FramesArriveInOrder == Spec => []QueuesInOrder
<1>1. Init => Typed /\ AllFollow
  BY TypedInit, FollowInit
<1>2. Typed /\ AllFollow /\ [Next]_vars => Typed' /\ AllFollow'
  BY TypedNext, FollowNext
<1>3. Typed /\ AllFollow => QueuesInOrder
  BY TypedIsTypeOK, FollowOrder DEF QueuesInOrder
<1> QED BY <1>1, <1>2, <1>3, PTL DEF Spec
=============================================================================

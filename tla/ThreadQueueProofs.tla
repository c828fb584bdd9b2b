------------------------- MODULE ThreadQueueProofs -------------------------
(***************************************************************************)
(* Proofs about ThreadQueue for any number of streams and senders and any  *)
(* capacity.                                                               *)
(***************************************************************************)
EXTENDS ThreadQueue, SequenceTheorems, TLAPS

-----------------------------------------------------------------------------
(* Facts about the helpers. *)

\* Drain(k) drops the first k entries of both fifos and shifts the others down.
LEMMA DrainShifts ==
  ASSUME TypeOK, NEW k \in 0 .. Len(fifo), Drain(k)
  PROVE  /\ fifo' \in Seq(Item)
         /\ Len(fifo') = Len(fifo) - k
         /\ \A i \in 1 .. Len(fifo) - k : fifo'[i] = fifo[i + k]
         /\ fifo_stream_index' \in Seq(Streams)
         /\ Len(fifo_stream_index') = Len(fifo_stream_index) - k
         /\ \A i \in 1 .. Len(fifo_stream_index) - k :
              fifo_stream_index'[i] = fifo_stream_index[i + k]
<1>1. /\ fifo \in Seq(Item)
      /\ fifo_stream_index \in Seq(Streams)
      /\ Len(fifo) \in Nat
      /\ Len(fifo_stream_index) \in Nat
      /\ Len(fifo) <= Len(fifo_stream_index)
  BY LenProperties DEF TypeOK
<1>2. /\ fifo' = SubSeq(fifo, k + 1, Len(fifo))
      /\ fifo_stream_index' = SubSeq(fifo_stream_index, k + 1, Len(fifo_stream_index))
  BY DEF Drain
<1>3. /\ SubSeq(fifo, k + 1, Len(fifo)) \in Seq(Item)
      /\ Len(SubSeq(fifo, k + 1, Len(fifo))) = Len(fifo) - k
      /\ \A i \in 1 .. Len(fifo) - k : SubSeq(fifo, k + 1, Len(fifo))[i] = fifo[i + k]
  BY <1>1, SubSeqProperties
<1>4. LET f == fifo_stream_index
      IN  /\ SubSeq(f, k + 1, Len(f)) \in Seq(Streams)
          /\ Len(SubSeq(f, k + 1, Len(f))) = Len(f) - k
          /\ \A i \in 1 .. Len(f) - k : SubSeq(f, k + 1, Len(f))[i] = f[i + k]
  BY <1>1, SubSeqProperties
<1> QED BY <1>2, <1>3, <1>4

\* The threads keep a state of the program whatever a broadcast wakes.
LEMMA BroadcastType ==
  ASSUME TypeOK
  PROVE  /\ Broadcast \in [Threads -> {"idle", "wait", "woken"}]
         /\ BroadcastIfDrained \in [Threads -> {"idle", "wait", "woken"}]
BY DEF TypeOK, Broadcast, BroadcastIfDrained

LEMMA FlagType ==
  ASSUME TypeOK, NEW s \in Streams, NEW f \in {"SEND", "RECV"}
  PROVE  Flag(s, f) \in [Streams -> SUBSET {"SEND", "RECV"}]
BY DEF TypeOK, Flag

-----------------------------------------------------------------------------
(* Type correctness and the capacity. *)

LEMMA TypeInit == Init => TypeOK
<1>1. <<>> \in Seq(Item) /\ <<>> \in Seq(Streams)
  OBVIOUS
<1>2. Len(<<>>) <= Len(<<>>) /\ Len(<<>>) <= QueueSize
  BY QueueAssumption DEF QueueAssumption
<1> SUFFICES ASSUME Init PROVE TypeOK
  OBVIOUS
<1>3. fifo = <<>> /\ fifo_stream_index = <<>>
  BY DEF Init
<1>4. /\ fifo \in Seq(Item) /\ fifo_stream_index \in Seq(Streams)
      /\ Len(fifo) <= Len(fifo_stream_index) /\ Len(fifo_stream_index) <= QueueSize
  BY <1>1, <1>2, <1>3
<1> QED BY <1>4 DEF Init, TypeOK

LEMMA TypeStep == TypeOK /\ [Next]_vars => TypeOK'
<1> SUFFICES ASSUME TypeOK, [Next]_vars PROVE TypeOK'
  OBVIOUS
<1> USE QueueAssumption DEF QueueAssumption
<1>1. ASSUME NEW t \in Senders, SendLoop(t) PROVE TypeOK'
  <2> DEFINE s == StreamOf[t]
  <2>1. s \in Streams /\ t \in Threads
    BY DEF Threads
  <2>2. CASE SendEof(t, s)
    BY <2>1, <2>2, FlagType DEF SendEof, TypeOK, history
  <2>3. CASE SendBlock(t, s)
    BY <2>1, <2>3 DEF SendBlock, TypeOK, queue, history
  <2>4. ASSUME CanWrite, fifo_stream_index' = Append(fifo_stream_index, s)
        PROVE  /\ fifo_stream_index' \in Seq(Streams)
               /\ Len(fifo_stream_index') = Len(fifo_stream_index) + 1
               /\ Len(fifo_stream_index') <= QueueSize
    BY <2>1, <2>4, AppendProperties, LenProperties DEF CanWrite, TypeOK
  <2>5. CASE SendWrite(t, s)
    <3>1. accepted[s] + 1 \in Nat
      BY <2>1 DEF TypeOK
    <3>2. [stream |-> s, n |-> accepted[s] + 1] \in Item
      BY <2>1, <3>1 DEF Item
    <3>3. fifo' \in Seq(Item) /\ Len(fifo') = Len(fifo) + 1
      BY <2>5, <3>2, AppendProperties DEF SendWrite, TypeOK
    <3> QED BY <2>1, <2>4, <2>5, <3>1, <3>3, BroadcastType, LenProperties DEF SendWrite, TypeOK
  <2>6. CASE SendNoMem(t, s)
    BY <2>1, <2>4, <2>6, LenProperties DEF SendNoMem, TypeOK, history
  <2> QED BY <1>1, <2>2, <2>3, <2>5, <2>6 DEF SendLoop
<1>2. ASSUME NEW t \in Senders, SendFinish(t) PROVE TypeOK'
  BY <1>2, FlagType, BroadcastType DEF SendFinish, TypeOK, history
<1>3. ASSUME Receive \/ Poll PROVE TypeOK'
  <2>1. ASSUME NEW k \in 0 .. Len(fifo), Drain(k)
        PROVE  /\ fifo' \in Seq(Item)
               /\ fifo_stream_index' \in Seq(Streams)
               /\ Len(fifo') <= Len(fifo_stream_index')
               /\ Len(fifo_stream_index') <= QueueSize
    <3>1. /\ fifo' \in Seq(Item)
          /\ Len(fifo') = Len(fifo) - k
          /\ fifo_stream_index' \in Seq(Streams)
          /\ Len(fifo_stream_index') = Len(fifo_stream_index) - k
      BY <2>1, DrainShifts
    <3>2. /\ Len(fifo) \in Nat /\ Len(fifo_stream_index) \in Nat
          /\ Len(fifo) <= Len(fifo_stream_index) /\ Len(fifo_stream_index) <= QueueSize
      BY LenProperties DEF TypeOK
    <3> QED BY <3>1, <3>2
  <2>2. Len(fifo) \in 0 .. Len(fifo)
    BY LenProperties DEF TypeOK
  <2>3. Receiver \in Threads
    BY DEF Threads
  <2>4. CASE ReceiveItem
    <3>1. PICK k \in DOMAIN fifo :
            /\ FirstLive(k)
            /\ Drain(k)
            /\ delivered' = [delivered EXCEPT ![fifo_stream_index[k]] = fifo[k].n]
      BY <2>4 DEF ReceiveItem
    <3>2. k \in 0 .. Len(fifo) /\ fifo[k] \in Item
      BY <3>1, LenProperties DEF TypeOK
    <3>3. delivered' \in [Streams -> Nat]
      BY <3>1, <3>2 DEF TypeOK, Item
    <3> QED BY <2>1, <2>3, <2>4, <3>1, <3>2, <3>3, BroadcastType DEF ReceiveItem, TypeOK
  <2>5. CASE ReceiveEof
    <3>1. PICK s \in Streams :
            /\ finished' = Flag(s, "RECV")
            /\ eofs' = [eofs EXCEPT ![s] = @ + 1]
      BY <2>5 DEF ReceiveEof
    <3>2. finished' \in [Streams -> SUBSET {"SEND", "RECV"}] /\ eofs' \in [Streams -> Nat]
      BY <3>1, FlagType DEF TypeOK
    <3> QED BY <2>1, <2>2, <2>3, <2>5, <3>2, BroadcastType DEF ReceiveEof, TypeOK
  <2>6. CASE ReceiveEnd
    BY <2>1, <2>2, <2>3, <2>6, BroadcastType DEF ReceiveEnd, TypeOK, history
  <2>7. ASSUME NEW p \in {"idle", "wait"}, NothingYet(p) PROVE TypeOK'
    BY <2>1, <2>2, <2>3, <2>7, BroadcastType DEF NothingYet, TypeOK, queue, history
  <2> QED BY <1>3, <2>4, <2>5, <2>6, <2>7 DEF Receive, Poll
<1>4. ASSUME NEW s \in Streams, ReceiveFinish(s) PROVE TypeOK'
  BY <1>4, FlagType, BroadcastType DEF ReceiveFinish, TypeOK, history
<1>5. CASE Choke
  BY <1>5, BroadcastType DEF Choke, SetChoked, TypeOK
<1>6. CASE Unchoke
  BY <1>6, BroadcastType DEF Unchoke, SetChoked, TypeOK
<1>7. ASSUME NEW t \in Threads, SpuriousWake(t) PROVE TypeOK'
  BY <1>7 DEF SpuriousWake, TypeOK, queue, history
<1>8. CASE UNCHANGED vars
  BY <1>8 DEF vars, TypeOK
<1> QED BY <1>1, <1>2, <1>3, <1>4, <1>5, <1>6, <1>7, <1>8 DEF Next, Send, SendResume

\* Every variable keeps its type and the queue never holds more than queue_size
\* entries, whichever thread runs tq_send() after how many waits, and even when
\* allocations fail.
THEOREM TypeCorrect == Spec => []TypeOK
<1>1. Init => TypeOK
  BY TypeInit
<1>2. TypeOK /\ [Next]_vars => TypeOK'
  BY TypeStep
<1> QED BY <1>1, <1>2, PTL DEF Spec

-----------------------------------------------------------------------------
(* The contents of the queue.  ItemsInOrder is not inductive: it needs the  *)
(* two fifos in lockstep, or an item would count as dropped or delivered    *)
(* for another stream, and numbers that never run ahead of accepted[s], or  *)
(* a new item would not be the last one of its stream.  All this requires   *)
(* that writing to the container fifo succeeds.                             *)

Numbered == /\ \A i \in DOMAIN fifo : fifo[i].n \in 1 .. accepted[fifo[i].stream]
            /\ \A s \in Streams : delivered[s] <= accepted[s]

EndIsRefusal == \A s \in Streams : eofs[s] > 0 => "RECV" \in finished[s]

Content == /\ FifosInLockstep
           /\ Numbered
           /\ ItemsInOrder
           /\ EndIsRefusal
           /\ EofAfterAll

LEMMA ContentInit == Init => Content
<1> SUFFICES ASSUME Init PROVE Content
  OBVIOUS
<1>1. fifo = <<>> /\ fifo_stream_index = <<>> /\ DOMAIN fifo = {}
  BY DEF Init
<1>2. \A s \in Streams : accepted[s] = 0 /\ delivered[s] = 0 /\ eofs[s] = 0
  BY DEF Init
<1> QED BY <1>1, <1>2 DEF Content, FifosInLockstep, IndexOfItsStream, Numbered, ItemsInOrder,
          EndIsRefusal, EofAfterAll

\* What only adds flags does not disturb the contents.
LEMMA FlagsKeepContent ==
  ASSUME TypeOK, Content,
         UNCHANGED <<fifo, fifo_stream_index, accepted, delivered, eofs>>,
         \A s \in Streams : "RECV" \in finished[s] => "RECV" \in finished'[s]
  PROVE  Content'
<1>1. FifosInLockstep' /\ Numbered' /\ EofAfterAll'
  BY DEF Content, FifosInLockstep, IndexOfItsStream, Numbered, EofAfterAll
<1>2. ItemsInOrder'
  BY DEF Content, ItemsInOrder
<1>3. EndIsRefusal'
  BY DEF Content, EndIsRefusal
<1> QED BY <1>1, <1>2, <1>3 DEF Content

\* A write appends the next item of its stream at the end of both fifos.
LEMMA WriteKeepsContent ==
  ASSUME TypeOK, Content, NEW t \in Senders, NEW s \in Streams, SendWrite(t, s)
  PROVE  Content'
<1> DEFINE item == [stream |-> s, n |-> accepted[s] + 1]
           len == Len(fifo)
<1>1. /\ fifo \in Seq(Item) /\ fifo_stream_index \in Seq(Streams)
      /\ len \in Nat /\ Len(fifo_stream_index) = len
      /\ DOMAIN fifo = 1 .. len
      /\ accepted \in [Streams -> Nat] /\ delivered \in [Streams -> Nat]
  BY LenProperties DEF TypeOK, Content, FifosInLockstep
<1>2. item \in Item
  BY <1>1 DEF Item
<1>3. /\ fifo' = Append(fifo, item)
      /\ fifo_stream_index' = Append(fifo_stream_index, s)
      /\ accepted' = [accepted EXCEPT ![s] = @ + 1]
      /\ UNCHANGED <<finished, delivered, eofs>>
      /\ "RECV" \notin finished[s]
  BY DEF SendWrite
<1>4. /\ fifo' \in Seq(Item) /\ Len(fifo') = len + 1
      /\ DOMAIN fifo' = 1 .. len + 1
      /\ \A i \in 1 .. len : fifo'[i] = fifo[i]
      /\ fifo'[len + 1] = item
  BY <1>1, <1>2, <1>3, AppendProperties, LenProperties
<1>5. /\ Len(fifo_stream_index') = len + 1
      /\ \A i \in 1 .. len : fifo_stream_index'[i] = fifo_stream_index[i]
      /\ fifo_stream_index'[len + 1] = s
  BY <1>1, <1>3, AppendProperties
<1>6. \A i \in 1 .. len : fifo[i] \in Item
  BY <1>1
<1>7. FifosInLockstep'
  <2>1. \A i \in 1 .. len : fifo'[i].stream = fifo_stream_index'[i]
    BY <1>1, <1>4, <1>5 DEF Content, FifosInLockstep, IndexOfItsStream
  <2>2. fifo'[len + 1].stream = fifo_stream_index'[len + 1]
    BY <1>4, <1>5
  <2>3. \A i \in 1 .. len + 1 : i \in 1 .. len \/ i = len + 1
    BY <1>1
  <2> QED BY <2>1, <2>2, <2>3, <1>4, <1>5 DEF FifosInLockstep, IndexOfItsStream
<1>11. ASSUME NEW r \in Streams
       PROVE  /\ accepted[r] \in Nat /\ delivered[r] \in Nat
              /\ delivered[r] <= accepted[r]
              /\ delivered'[r] = delivered[r]
              /\ accepted'[r] = IF r = s THEN accepted[r] + 1 ELSE accepted[r]
  BY <1>1, <1>3 DEF Content, Numbered
<1>8. Numbered'
  <2>3. ASSUME NEW r \in Streams PROVE delivered'[r] <= accepted'[r]
    <3>1. /\ accepted[r] \in Nat /\ delivered[r] \in Nat /\ delivered[r] <= accepted[r]
          /\ delivered'[r] = delivered[r]
          /\ accepted'[r] = IF r = s THEN accepted[r] + 1 ELSE accepted[r]
      BY <1>11
    <3> QED BY <3>1
  <2> SUFFICES ASSUME NEW i \in 1 .. len + 1
               PROVE  fifo'[i].n \in 1 .. accepted'[fifo'[i].stream]
    BY <2>3, <1>4 DEF Numbered
  <2>1. CASE i = len + 1
    BY <2>1, <1>1, <1>3, <1>4
  <2>2. CASE i \in 1 .. len
    <3>1. fifo[i].n \in 1 .. accepted[fifo[i].stream] /\ fifo[i].stream \in Streams
      BY <2>2, <1>1, <1>6 DEF Content, Numbered, Item
    <3>2. fifo[i].n <= accepted'[fifo[i].stream] /\ accepted'[fifo[i].stream] \in Nat
      BY <3>1, <1>11
    <3> QED BY <3>1, <3>2, <2>2, <1>4
  <2> QED BY <2>1, <2>2, <1>1
<1>9. ItemsInOrder'
  <2>1. ASSUME NEW i \in 1 .. len + 1, NEW j \in 1 .. len + 1,
               i < j, fifo'[i].stream = fifo'[j].stream
        PROVE  fifo'[i].n < fifo'[j].n
    <3>1. i \in 1 .. len /\ fifo'[i] = fifo[i] /\ fifo[i] \in Item
      BY <2>1, <1>1, <1>4, <1>6
    <3>2. CASE j = len + 1
      <4>2. fifo[i].stream = s
        BY <2>1, <3>1, <3>2, <1>4
      <4>1. fifo[i].n \in 1 .. accepted[s]
        BY <3>1, <4>2, <1>1 DEF Content, Numbered
      <4> QED BY <3>1, <3>2, <4>1, <1>1, <1>4
    <3>3. CASE j \in 1 .. len
      BY <2>1, <3>1, <3>3, <1>1, <1>4 DEF Content, ItemsInOrder
    <3> QED BY <3>2, <3>3, <1>1
  <2>2. ASSUME NEW r \in Streams, "RECV" \notin finished'[r], NEW n \in 1 .. accepted'[r]
        PROVE  delivered'[r] < n <=> \E i \in 1 .. len + 1 : fifo'[i] = [stream |-> r, n |-> n]
    <3>1. CASE r = s /\ n = accepted[s] + 1
      <4>1. delivered'[s] < accepted[s] + 1
        BY <1>11 DEF Content, Numbered
      <4>2. fifo'[len + 1] = [stream |-> r, n |-> n] /\ len + 1 \in 1 .. len + 1
        BY <3>1, <1>1, <1>4
      <4> QED BY <3>1, <4>1, <4>2
    <3>2. CASE n \in 1 .. accepted[r]
      <4>1. delivered[r] < n <=> \E i \in 1 .. len : fifo[i] = [stream |-> r, n |-> n]
        BY <2>2, <3>2, <1>1, <1>3 DEF Content, ItemsInOrder
      <4>2. r = s => n # accepted[s] + 1
        BY <3>2, <1>11
      <4>3. fifo'[len + 1] # [stream |-> r, n |-> n]
        BY <4>2, <1>4
      <4>4. \A i \in 1 .. len + 1 : i \in 1 .. len \/ i = len + 1
        BY <1>1
      <4>5. 1 .. len \subseteq 1 .. len + 1
        BY <1>1
      <4>6. (\E i \in 1 .. len : fifo[i] = [stream |-> r, n |-> n])
              <=> \E i \in 1 .. len + 1 : fifo'[i] = [stream |-> r, n |-> n]
        BY <4>3, <4>4, <4>5, <1>4
      <4> QED BY <4>1, <4>6, <1>3
    <3>3. (r = s /\ n = accepted[s] + 1) \/ n \in 1 .. accepted[r]
      BY <2>2, <1>11
    <3> QED BY <3>1, <3>2, <3>3
  <2> QED BY <2>1, <2>2, <1>4 DEF ItemsInOrder
<1>10. EndIsRefusal' /\ EofAfterAll'
  BY <1>1, <1>3 DEF Content, EndIsRefusal, EofAfterAll
<1> QED BY <1>7, <1>8, <1>9, <1>10 DEF Content

\* The item that is returned is the next one of its stream, and the other
\* streams that have a reader lose nothing.
LEMMA FirstLiveIsNext ==
  ASSUME TypeOK, Content, NEW k \in DOMAIN fifo, FirstLive(k)
  PROVE  /\ fifo[k].stream \in Streams /\ fifo_stream_index[k] = fifo[k].stream
         /\ "RECV" \notin finished[fifo[k].stream]
         /\ fifo[k].n = delivered[fifo[k].stream] + 1
         /\ fifo[k].n <= accepted[fifo[k].stream]
         /\ \A i \in DOMAIN fifo : i < k => "RECV" \in finished[fifo[i].stream]
<1> DEFINE s == fifo[k].stream
<1>1. /\ k \in 1 .. Len(fifo) /\ Len(fifo) \in Nat /\ DOMAIN fifo = 1 .. Len(fifo)
      /\ \A i \in DOMAIN fifo : fifo[i] \in Item /\ fifo[i].stream = fifo_stream_index[i]
  BY LenProperties, ElementOfSeq DEF TypeOK, Content, FifosInLockstep, IndexOfItsStream
<1>2. s \in Streams /\ fifo[k].n \in Nat /\ fifo_stream_index[k] = s
  BY <1>1 DEF Item
<1>3. "RECV" \notin finished[s]
  BY <1>2 DEF FirstLive, Live
<1>4. ASSUME NEW i \in DOMAIN fifo, i < k PROVE "RECV" \in finished[fifo[i].stream]
  <2>1. i \in 1 .. k - 1
    BY <1>1, <1>4
  <2> QED BY <2>1, <1>1 DEF FirstLive, Live
<1>5. accepted[s] \in Nat /\ delivered[s] \in Nat /\ fifo[k].n \in 1 .. accepted[s]
  BY <1>2 DEF TypeOK, Content, Numbered
<1>6. fifo[k] = [stream |-> s, n |-> fifo[k].n]
  BY <1>1 DEF Item
<1>7. delivered[s] < fifo[k].n
  BY <1>2, <1>3, <1>5, <1>6 DEF Content, ItemsInOrder
<1>8. ASSUME delivered[s] + 1 < fifo[k].n PROVE FALSE
  <2>1. delivered[s] + 1 \in 1 .. accepted[s] /\ delivered[s] < delivered[s] + 1
    BY <1>5, <1>8
  <2>2. PICK i \in DOMAIN fifo : fifo[i] = [stream |-> s, n |-> delivered[s] + 1]
    BY <2>1, <1>2, <1>3 DEF Content, ItemsInOrder
  <2>3. ~(i < k)
    BY <2>2, <1>3, <1>4
  <2>4. i # k
    BY <2>2, <1>5, <1>8
  <2>5. k < i
    BY <2>3, <2>4, <1>1
  <2>6. fifo[k].n < fifo[i].n
    BY <2>5, <2>2, <1>1 DEF Content, ItemsInOrder
  <2> QED BY <2>2, <2>6, <1>5, <1>8
<1> QED BY <1>1, <1>2, <1>3, <1>4, <1>5, <1>7, <1>8

LEMMA ReceiveKeepsContent ==
  ASSUME TypeOK, Content, ReceiveItem
  PROVE  Content'
<1>1. PICK k \in DOMAIN fifo :
        /\ FirstLive(k)
        /\ Drain(k)
        /\ delivered' = [delivered EXCEPT ![fifo_stream_index[k]] = fifo[k].n]
  BY DEF ReceiveItem
<1> DEFINE s == fifo[k].stream
           len == Len(fifo)
<1>2. /\ s \in Streams /\ fifo_stream_index[k] = s
      /\ "RECV" \notin finished[s]
      /\ fifo[k].n = delivered[s] + 1
      /\ fifo[k].n <= accepted[s]
      /\ \A i \in DOMAIN fifo : i < k => "RECV" \in finished[fifo[i].stream]
  BY <1>1, FirstLiveIsNext
<1>3. /\ len \in Nat /\ k \in 1 .. len /\ k \in 0 .. len
      /\ DOMAIN fifo = 1 .. len /\ Len(fifo_stream_index) = len
      /\ fifo \in Seq(Item)
      /\ \A i \in 1 .. len : fifo[i] \in Item
  BY LenProperties, ElementOfSeq DEF TypeOK, Content, FifosInLockstep
<1>4. /\ fifo' \in Seq(Item) /\ Len(fifo') = len - k
      /\ \A i \in 1 .. len - k : fifo'[i] = fifo[i + k]
      /\ Len(fifo_stream_index') = len - k
      /\ \A i \in 1 .. len - k : fifo_stream_index'[i] = fifo_stream_index[i + k]
  BY <1>1, <1>3, DrainShifts
<1>5. DOMAIN fifo' = 1 .. len - k
  BY <1>4, LenProperties
<1>6. UNCHANGED <<finished, accepted, eofs>>
  BY DEF ReceiveItem
<1>7. ASSUME NEW r \in Streams
      PROVE  /\ accepted[r] \in Nat /\ delivered[r] \in Nat
             /\ delivered[r] <= accepted[r]
             /\ accepted'[r] = accepted[r]
             /\ delivered'[r] = IF r = s THEN delivered[r] + 1 ELSE delivered[r]
  BY <1>1, <1>2, <1>6 DEF TypeOK, Content, Numbered
<1>8. \A i \in 1 .. len - k : i + k \in 1 .. len
  BY <1>3
<1>9. FifosInLockstep'
  BY <1>3, <1>4, <1>5, <1>8 DEF Content, FifosInLockstep, IndexOfItsStream
<1>10. Numbered'
  <2>1. ASSUME NEW r \in Streams PROVE delivered'[r] <= accepted'[r]
    BY <1>2, <1>7
  <2>2. ASSUME NEW i \in 1 .. len - k PROVE fifo'[i].n \in 1 .. accepted'[fifo'[i].stream]
    BY <1>3, <1>4, <1>6, <1>8 DEF Content, Numbered
  <2> QED BY <2>1, <2>2, <1>5 DEF Numbered
<1>11. ItemsInOrder'
  <2>1. ASSUME NEW i \in 1 .. len - k, NEW j \in 1 .. len - k,
               i < j, fifo'[i].stream = fifo'[j].stream
        PROVE  fifo'[i].n < fifo'[j].n
    <3>1. i + k \in 1 .. len /\ j + k \in 1 .. len /\ i + k < j + k
      BY <2>1, <1>3
    <3> QED BY <2>1, <3>1, <1>3, <1>4 DEF Content, ItemsInOrder
  <2>2. ASSUME NEW r \in Streams, "RECV" \notin finished'[r], NEW n \in 1 .. accepted'[r]
        PROVE  delivered'[r] < n <=> \E i \in 1 .. len - k : fifo'[i] = [stream |-> r, n |-> n]
    <3> DEFINE item == [stream |-> r, n |-> n]
    <3>1. /\ accepted[r] \in Nat /\ delivered[r] \in Nat /\ accepted'[r] = accepted[r]
          /\ delivered'[r] = IF r = s THEN delivered[r] + 1 ELSE delivered[r]
      BY <1>7
    <3>2. delivered[r] < n <=> \E i \in 1 .. len : fifo[i] = item
      BY <2>2, <3>1, <1>3, <1>6 DEF Content, ItemsInOrder
    <3>3. ASSUME delivered'[r] < n PROVE \E i \in 1 .. len - k : fifo'[i] = item
      <4>1. PICK i \in 1 .. len : fifo[i] = item
        BY <3>1, <3>2, <3>3
      <4>2. ~(i < k)
        BY <4>1, <2>2, <1>2, <1>3, <1>6
      <4>3. i # k
        BY <4>1, <3>1, <3>3, <1>2
      <4>4. i - k \in 1 .. len - k /\ (i - k) + k = i
        BY <4>2, <4>3, <1>3
      <4> QED BY <4>1, <4>4, <1>4
    <3>4. ASSUME NEW i \in 1 .. len - k, fifo'[i] = item PROVE delivered'[r] < n
      <4>1. i + k \in 1 .. len /\ k < i + k /\ fifo[i + k] = item
        BY <3>4, <1>3, <1>4
      <4>2. delivered[r] < n
        BY <3>2, <4>1
      <4>3. CASE r = s
        <5>1. fifo[k].n < n
          BY <4>1, <4>3, <1>3 DEF Content, ItemsInOrder
        <5> QED BY <5>1, <4>3, <3>1, <1>2
      <4> QED BY <4>2, <4>3, <3>1
    <3> QED BY <3>3, <3>4
  <2> QED BY <2>1, <2>2, <1>5 DEF ItemsInOrder
<1>12. EndIsRefusal' /\ EofAfterAll'
  <2>1. EndIsRefusal'
    BY <1>6 DEF Content, EndIsRefusal
  <2>2. ASSUME NEW r \in Streams, eofs'[r] > 0 PROVE delivered'[r] = accepted'[r]
    <3>1. r # s
      BY <2>2, <1>2, <1>6 DEF Content, EndIsRefusal
    <3> QED BY <2>2, <3>1, <1>6, <1>7 DEF Content, EofAfterAll
  <2> QED BY <2>1, <2>2 DEF EofAfterAll
<1> QED BY <1>9, <1>10, <1>11, <1>12 DEF Content

\* Nothing that still has a reader is left when all that is queued is dropped.
LEMMA NoneLiveIsDelivered ==
  ASSUME TypeOK, Content, NoneLive, NEW s \in Streams, "RECV" \notin finished[s]
  PROVE  delivered[s] = accepted[s]
<1>1. delivered[s] \in Nat /\ accepted[s] \in Nat /\ delivered[s] <= accepted[s]
  BY DEF TypeOK, Content, Numbered
<1>2. ASSUME delivered[s] < accepted[s] PROVE FALSE
  <2>1. accepted[s] \in 1 .. accepted[s]
    BY <1>1, <1>2
  <2>2. PICK i \in DOMAIN fifo : fifo[i] = [stream |-> s, n |-> accepted[s]]
    BY <2>1, <1>2 DEF Content, ItemsInOrder
  <2>3. fifo_stream_index[i] = s
    BY <2>2 DEF Content, FifosInLockstep, IndexOfItsStream
  <2> QED BY <2>3 DEF NoneLive, Live
<1> QED BY <1>1, <1>2

LEMMA DropKeepsContent ==
  ASSUME TypeOK, Content, NoneLive, Drain(Len(fifo)), UNCHANGED <<accepted, delivered>>,
         \/ UNCHANGED <<finished, eofs>>
         \/ \E s \in Streams : /\ EofPending(s)
                               /\ finished' = Flag(s, "RECV")
                               /\ eofs' = [eofs EXCEPT ![s] = @ + 1]
  PROVE  Content'
<1>1. Len(fifo) \in 0 .. Len(fifo) /\ Len(fifo) - Len(fifo) = 0
      /\ Len(fifo_stream_index) = Len(fifo)
  BY LenProperties DEF TypeOK, Content, FifosInLockstep
<1>2. Len(fifo') = 0 /\ Len(fifo_stream_index') = 0 /\ fifo' \in Seq(Item)
  BY <1>1, DrainShifts
<1>3. DOMAIN fifo' = {}
  BY <1>2, LenProperties
<1>4. ASSUME NEW s \in Streams
      PROVE  /\ accepted[s] \in Nat /\ delivered[s] \in Nat
             /\ "RECV" \in finished[s] => "RECV" \in finished'[s]
             /\ eofs'[s] > 0 => \/ eofs[s] > 0
                                \/ "RECV" \notin finished[s] /\ "RECV" \in finished'[s]
  <2>1. accepted[s] \in Nat /\ delivered[s] \in Nat
    BY DEF TypeOK
  <2>2. CASE UNCHANGED <<finished, eofs>>
    BY <2>1, <2>2
  <2>3. ASSUME NEW r \in Streams, EofPending(r), finished' = Flag(r, "RECV"),
               eofs' = [eofs EXCEPT ![r] = @ + 1]
        PROVE  /\ "RECV" \in finished[s] => "RECV" \in finished'[s]
               /\ eofs'[s] > 0 => \/ eofs[s] > 0
                                  \/ "RECV" \notin finished[s] /\ "RECV" \in finished'[s]
    BY <2>3 DEF Flag, EofPending, TypeOK
  <2> QED BY <2>1, <2>2, <2>3
<1>5. FifosInLockstep' /\ Numbered'
  BY <1>2, <1>3 DEF Content, FifosInLockstep, IndexOfItsStream, Numbered
<1>6. ItemsInOrder'
  <2>1. ASSUME NEW s \in Streams, "RECV" \notin finished'[s], NEW n \in 1 .. accepted'[s]
        PROVE  ~(delivered'[s] < n)
    <3>1. delivered[s] = accepted[s] /\ accepted[s] \in Nat
      BY <2>1, <1>4, NoneLiveIsDelivered
    <3> QED BY <3>1
  <2> QED BY <2>1, <1>3 DEF ItemsInOrder
<1>7. EndIsRefusal' /\ EofAfterAll'
  <2>1. ASSUME NEW s \in Streams, eofs'[s] > 0
        PROVE  "RECV" \in finished'[s] /\ delivered'[s] = accepted'[s]
    <3>1. CASE eofs[s] > 0
      BY <3>1, <1>4 DEF Content, EndIsRefusal, EofAfterAll
    <3>2. CASE "RECV" \notin finished[s] /\ "RECV" \in finished'[s]
      BY <3>2, NoneLiveIsDelivered
    <3> QED BY <2>1, <3>1, <3>2, <1>4
  <2> QED BY <2>1 DEF EndIsRefusal, EofAfterAll
<1> QED BY <1>5, <1>6, <1>7 DEF Content

\* Setting a flag never clears another one.
LEMMA FlagGrows ==
  ASSUME TypeOK, NEW s \in Streams, NEW f \in {"SEND", "RECV"}, finished' = Flag(s, f)
  PROVE  \A r \in Streams : "RECV" \in finished[r] => "RECV" \in finished'[r]
BY DEF Flag, TypeOK

LEMMA ContentStep == ASSUME ~AllocMayFail, TypeOK, Content, [Next]_vars PROVE Content'
<1> USE QueueAssumption DEF QueueAssumption
<1>1. ASSUME NEW t \in Senders, SendLoop(t) PROVE Content'
  <2> DEFINE s == StreamOf[t]
  <2>1. s \in Streams
    OBVIOUS
  <2>2. CASE SendEof(t, s)
    BY <2>1, <2>2, FlagGrows, FlagsKeepContent DEF SendEof, history
  <2>3. CASE SendBlock(t, s)
    BY <2>3, FlagsKeepContent DEF SendBlock, queue, history
  <2>4. CASE SendWrite(t, s)
    BY <2>1, <2>4, WriteKeepsContent
  <2> QED BY <1>1, <2>2, <2>3, <2>4 DEF SendLoop, SendNoMem
<1>2. ASSUME NEW t \in Senders, SendFinish(t) PROVE Content'
  BY <1>2, FlagGrows, FlagsKeepContent DEF SendFinish, history
<1>3. ASSUME Receive \/ Poll PROVE Content'
  <2>1. CASE ReceiveItem
    BY <2>1, ReceiveKeepsContent
  <2>2. CASE ReceiveEof
    BY <2>2, DropKeepsContent DEF ReceiveEof
  <2>3. CASE ReceiveEnd
    BY <2>3, DropKeepsContent DEF ReceiveEnd, history
  <2>4. ASSUME NEW p, NothingYet(p) PROVE Content'
    <3>1. CASE choked
      BY <2>4, <3>1, FlagsKeepContent DEF NothingYet, queue, history
    <3>2. CASE ~choked
      BY <2>4, <3>2, DropKeepsContent DEF NothingYet, history
    <3> QED BY <3>1, <3>2
  <2> QED BY <1>3, <2>1, <2>2, <2>3, <2>4 DEF Receive, Poll
<1>4. ASSUME NEW s \in Streams, ReceiveFinish(s) PROVE Content'
  BY <1>4, FlagGrows, FlagsKeepContent DEF ReceiveFinish, history
<1>5. CASE Choke \/ Unchoke
  BY <1>5, FlagsKeepContent DEF Choke, Unchoke, SetChoked
<1>6. ASSUME NEW t \in Threads, SpuriousWake(t) PROVE Content'
  BY <1>6, FlagsKeepContent DEF SpuriousWake, queue, history
<1>7. CASE UNCHANGED vars
  BY <1>7, FlagsKeepContent DEF vars
<1> QED BY <1>1, <1>2, <1>3, <1>4, <1>5, <1>6, <1>7 DEF Next, Send, SendResume

LEMMA ContentInvariant == ASSUME ~AllocMayFail PROVE Spec => [](TypeOK /\ Content)
<1>1. Init => TypeOK /\ Content
  BY TypeInit, ContentInit
<1>2. TypeOK /\ Content /\ [Next]_vars => TypeOK' /\ Content'
  BY TypeStep, ContentStep
<1> QED BY <1>1, <1>2, PTL DEF Spec

\* An item is never returned for a stream it was not sent to, as long as the
\* container fifo can be written.
THEOREM Lockstep == ASSUME ~AllocMayFail PROVE Spec => []FifosInLockstep
<1>1. TypeOK /\ Content => FifosInLockstep
  BY DEF Content
<1> QED BY <1>1, ContentInvariant, PTL

\* No item is lost, duplicated or reordered between tq_send() and tq_receive().
THEOREM Order == ASSUME ~AllocMayFail PROVE Spec => []ItemsInOrder
<1>1. TypeOK /\ Content => ItemsInOrder
  BY DEF Content
<1> QED BY <1>1, ContentInvariant, PTL

\* The end of a stream is reported after all of its items.
THEOREM EndComesLast == ASSUME ~AllocMayFail PROVE Spec => []EofAfterAll
<1>1. TypeOK /\ Content => EofAfterAll
  BY DEF Content
<1> QED BY <1>1, ContentInvariant, PTL

-----------------------------------------------------------------------------
(* A stream the receiver has finished with never moves again, even when     *)
(* allocations fail.                                                        *)

Still(s) == eofs'[s] = eofs[s] /\ accepted'[s] = accepted[s] /\ delivered'[s] = delivered[s]

LEMMA RefusalIsFinal ==
  ASSUME TypeOK, [Next]_vars, NEW s \in Streams, "RECV" \in finished[s]
  PROVE  "RECV" \in finished'[s] /\ Still(s)
<1> USE QueueAssumption DEF QueueAssumption
<1>1. ASSUME NEW t \in Senders, SendLoop(t) PROVE "RECV" \in finished'[s] /\ Still(s)
  <2> DEFINE r == StreamOf[t]
  <2>1. r \in Streams
    OBVIOUS
  <2>2. CASE SendEof(t, r)
    BY <2>1, <2>2, FlagGrows DEF SendEof, Still, history
  <2>3. CASE SendBlock(t, r)
    BY <2>3 DEF SendBlock, Still, queue, history
  <2>4. CASE SendWrite(t, r)
    BY <2>1, <2>4 DEF SendWrite, Still, TypeOK
  <2>5. CASE SendNoMem(t, r)
    BY <2>5 DEF SendNoMem, Still, history
  <2> QED BY <1>1, <2>2, <2>3, <2>4, <2>5 DEF SendLoop
<1>2. ASSUME NEW t \in Senders, SendFinish(t) PROVE "RECV" \in finished'[s] /\ Still(s)
  BY <1>2, FlagGrows DEF SendFinish, Still, history
<1>3. ASSUME Receive \/ Poll PROVE "RECV" \in finished'[s] /\ Still(s)
  <2>1. CASE ReceiveItem
    <3>1. PICK k \in DOMAIN fifo :
            /\ "RECV" \notin finished[fifo_stream_index[k]]
            /\ delivered' = [delivered EXCEPT ![fifo_stream_index[k]] = fifo[k].n]
      BY <2>1 DEF ReceiveItem, FirstLive, Live
    <3> QED BY <2>1, <3>1 DEF ReceiveItem, Still, TypeOK
  <2>2. CASE ReceiveEof
    <3>1. PICK r \in Streams : /\ "RECV" \notin finished[r]
                               /\ finished' = Flag(r, "RECV")
                               /\ eofs' = [eofs EXCEPT ![r] = @ + 1]
      BY <2>2 DEF ReceiveEof, EofPending
    <3> QED BY <2>2, <3>1, FlagGrows DEF ReceiveEof, Still, TypeOK
  <2>3. CASE ReceiveEnd
    BY <2>3 DEF ReceiveEnd, Still, history
  <2>4. ASSUME NEW p, NothingYet(p) PROVE "RECV" \in finished'[s] /\ Still(s)
    BY <2>4 DEF NothingYet, Still, queue, history
  <2> QED BY <1>3, <2>1, <2>2, <2>3, <2>4 DEF Receive, Poll
<1>4. ASSUME NEW r \in Streams, ReceiveFinish(r) PROVE "RECV" \in finished'[s] /\ Still(s)
  BY <1>4, FlagGrows DEF ReceiveFinish, Still, history
<1>5. CASE Choke \/ Unchoke
  BY <1>5 DEF Choke, Unchoke, SetChoked, Still
<1>6. ASSUME NEW t \in Threads, SpuriousWake(t) PROVE "RECV" \in finished'[s] /\ Still(s)
  BY <1>6 DEF SpuriousWake, Still, queue, history
<1>7. CASE UNCHANGED vars
  BY <1>7 DEF vars, Still
<1> QED BY <1>1, <1>2, <1>3, <1>4, <1>5, <1>6, <1>7 DEF Next, Send, SendResume

\* An EOF is counted only together with the receiver's flag.
LEMMA EndIsRefusalStep == ASSUME TypeOK, EndIsRefusal, [Next]_vars PROVE EndIsRefusal'
<1> SUFFICES ASSUME NEW s \in Streams, eofs'[s] > 0 PROVE "RECV" \in finished'[s]
  BY DEF EndIsRefusal
<1>1. CASE "RECV" \in finished[s]
  BY <1>1, RefusalIsFinal
<1>2. CASE "RECV" \notin finished[s]
  <2>1. eofs'[s] # eofs[s]
    BY <1>2 DEF EndIsRefusal
  <2>2. CASE ReceiveEof
    BY <2>1, <2>2 DEF ReceiveEof, Flag, TypeOK
  <2>3. CASE ~ReceiveEof
    BY <2>1, <2>3 DEF Next, vars, history, queue, Send, SendResume, SendLoop, SendEof, SendBlock,
       SendWrite, SendNoMem, SendFinish, Receive, Poll, ReceiveItem, ReceiveEnd, NothingYet,
       ReceiveFinish, Choke, Unchoke, SetChoked, SpuriousWake
  <2> QED BY <2>2, <2>3
<1> QED BY <1>1, <1>2

\* The end of a stream is reported at most once, and nothing of the stream is
\* accepted or delivered after it.
THEOREM EndIsFinal == Spec => EofOnceAndLast
<1>1. Init => TypeOK /\ EndIsRefusal
  BY TypeInit DEF Init, EndIsRefusal
<1>2. TypeOK /\ EndIsRefusal /\ [Next]_vars => TypeOK' /\ EndIsRefusal'
  BY TypeStep, EndIsRefusalStep
<1>3. TypeOK /\ EndIsRefusal /\ [Next]_vars =>
        [\A s \in Streams : eofs[s] > 0 =>
           eofs'[s] = eofs[s] /\ accepted'[s] = accepted[s] /\ delivered'[s] = delivered[s]]_vars
  BY RefusalIsFinal DEF EndIsRefusal, Still
<1> QED BY <1>1, <1>2, <1>3, PTL DEF Spec, EofOnceAndLast

-----------------------------------------------------------------------------
(* Wake-ups.  Returning an EOF sets the flag that blocked senders wait for  *)
(* without a broadcast of its own; nobody is left asleep because a sender   *)
(* blocks only while the index fifo is full, and then, the two fifos being  *)
(* in lockstep, the same call has dropped something and broadcasts.         *)

NobodyWaits == \A t \in Threads : pc[t] # "wait"

LEMMA BroadcastWakes ==
  ASSUME TypeOK, NEW t \in Threads, NEW p, p # "wait", pc' = [Broadcast EXCEPT ![t] = p]
  PROVE  NobodyWaits'
BY DEF Broadcast, NobodyWaits

LEMMA WakeupInit == Init => NoLostWakeup
BY QueueAssumption DEF QueueAssumption, Init, NoLostWakeup, Threads

LEMMA WakeupStep ==
  ASSUME TypeOK, Content, NoLostWakeup, [Next]_vars, ~AllocMayFail
  PROVE  NoLostWakeup'
<1> USE QueueAssumption DEF QueueAssumption
<1>1. Receiver \in Threads /\ \A t \in Senders : t \in Threads /\ t # Receiver
  BY DEF Threads
<1>2. ASSUME NobodyWaits' PROVE NoLostWakeup'
  BY <1>1, <1>2 DEF NobodyWaits, NoLostWakeup
<1>3. ASSUME pc' = Broadcast PROVE NobodyWaits'
  BY <1>3 DEF Broadcast, NobodyWaits
<1>4. ASSUME NEW t \in Senders, SendLoop(t) PROVE NoLostWakeup'
  <2> DEFINE s == StreamOf[t]
  <2>1. s \in Streams
    OBVIOUS
  <2>2. CASE SendEof(t, s)
    <3>1. \A r \in Streams : /\ "RECV" \in finished'[r] <=> "RECV" \in finished[r]
                             /\ EofPending(r)' => EofPending(r)
      BY <2>1, <2>2 DEF SendEof, Flag, EofPending, TypeOK
    <3>2. \A u \in Threads : pc'[u] = "wait" => pc[u] = "wait"
      BY <2>2 DEF SendEof, TypeOK
    <3>3. UNCHANGED <<choked, fifo, fifo_stream_index>>
      BY <2>2 DEF SendEof
    <3>4. \A u \in Senders : pc'[u] = "wait" =>
            ~CanWrite' /\ "RECV" \notin finished'[StreamOf[u]]
      BY <1>1, <3>1, <3>2, <3>3 DEF NoLostWakeup, CanWrite
    <3>5. NoneLive => NoneLive'
      <4>1. ASSUME NEW i \in DOMAIN fifo PROVE fifo_stream_index[i] \in Streams
        BY <4>1, LenProperties, ElementOfSeq DEF Content, FifosInLockstep, TypeOK
      <4> QED BY <4>1, <3>1, <3>3 DEF NoneLive, Live
    <3>6. ~AllFinished => ~AllFinished'
      BY <3>1 DEF AllFinished
    <3> QED BY <1>1, <3>1, <3>2, <3>3, <3>4, <3>5, <3>6 DEF NoLostWakeup
  <2>3. CASE SendBlock(t, s)
    BY <1>1, <2>3 DEF SendBlock, NoLostWakeup, CanWrite, NoneLive, Live, AllFinished,
       EofPending, TypeOK, queue
  <2>4. CASE SendWrite(t, s)
    BY <1>1, <1>2, <2>4, BroadcastWakes DEF SendWrite
  <2> QED BY <1>4, <2>2, <2>3, <2>4 DEF SendLoop, SendNoMem
<1>5. ASSUME NEW t \in Senders, SendFinish(t) PROVE NoLostWakeup'
  BY <1>2, <1>3, <1>5 DEF SendFinish
<1>6. ASSUME Receive \/ Poll PROVE NoLostWakeup'
  <2>1. CASE ReceiveItem
    BY <1>1, <1>2, <2>1, BroadcastWakes DEF ReceiveItem
  <2>2. ASSUME NEW p, pc' = [BroadcastIfDrained EXCEPT ![Receiver] = p]
        PROVE  \A t \in Senders : pc'[t] # "wait"
    <3>1. CASE fifo = <<>>
      <4>1. ASSUME NEW t \in Senders PROVE pc[t] # "wait"
        BY <3>1 DEF NoLostWakeup, CanWrite, Content, FifosInLockstep
      <4> QED BY <1>1, <2>2, <3>1, <4>1 DEF BroadcastIfDrained, TypeOK
    <3>2. CASE fifo # <<>>
      BY <1>1, <2>2, <3>2 DEF BroadcastIfDrained, Broadcast
    <3> QED BY <3>1, <3>2
  <2>3. CASE ReceiveEof
    <3>1. pc'[Receiver] = "idle"
      BY <1>1, <2>3, BroadcastType DEF ReceiveEof
    <3> QED BY <2>2, <2>3, <3>1 DEF ReceiveEof, NoLostWakeup
  <2>4. CASE ReceiveEnd
    <3>1. pc'[Receiver] = "idle"
      BY <1>1, <2>4, BroadcastType DEF ReceiveEnd
    <3> QED BY <2>2, <2>4, <3>1 DEF ReceiveEnd, NoLostWakeup
  <2>5. ASSUME NEW p, NothingYet(p) PROVE NoLostWakeup'
    <3>1. CASE choked
      <4>1. choked' /\ finished' = finished /\ fifo_stream_index' = fifo_stream_index
        BY <2>5, <3>1 DEF NothingYet, queue
      <4>2. \A t \in Senders : pc'[t] = pc[t]
        BY <1>1, <2>5, <3>1 DEF NothingYet, TypeOK
      <4> QED BY <4>1, <4>2 DEF NoLostWakeup, CanWrite
    <3>2. CASE ~choked
      <4>1. \A t \in Senders : pc'[t] # "wait"
        BY <2>2, <2>5, <3>2 DEF NothingYet
      <4>2. Len(fifo) \in 0 .. Len(fifo) /\ Drain(Len(fifo)) /\ Len(fifo) - Len(fifo) = 0
        BY <2>5, <3>2, LenProperties DEF NothingYet, TypeOK
      <4>3. DOMAIN fifo' = {}
        BY <4>2, DrainShifts, LenProperties
      <4>4. NoneLive'
        BY <4>3 DEF NoneLive
      <4>5. ~AllFinished' /\ \A s \in Streams : ~EofPending(s)'
        BY <2>5, <3>2 DEF NothingYet, AllFinished, EofPending
      <4> QED BY <4>1, <4>4, <4>5 DEF NoLostWakeup
    <3> QED BY <3>1, <3>2
  <2> QED BY <1>6, <2>1, <2>3, <2>4, <2>5 DEF Receive, Poll
<1>7. ASSUME NEW s \in Streams, ReceiveFinish(s) PROVE NoLostWakeup'
  BY <1>2, <1>3, <1>7 DEF ReceiveFinish
<1>8. ASSUME NEW b, SetChoked(b) PROVE NoLostWakeup'
  <2>1. CASE choked = b
    BY <1>8, <2>1 DEF SetChoked, NoLostWakeup, CanWrite, NoneLive, Live, AllFinished, EofPending
  <2>2. CASE choked # b
    BY <1>2, <1>3, <1>8, <2>2 DEF SetChoked
  <2> QED BY <2>1, <2>2
<1>9. ASSUME NEW t \in Threads, SpuriousWake(t) PROVE NoLostWakeup'
  <2>1. \A u \in Threads : pc'[u] = "wait" => pc[u] = "wait"
    BY <1>9 DEF SpuriousWake, TypeOK
  <2> QED BY <1>1, <1>9, <2>1 DEF SpuriousWake, NoLostWakeup, CanWrite, NoneLive, Live,
             AllFinished, EofPending, queue
<1>10. CASE UNCHANGED vars
  BY <1>10 DEF vars, NoLostWakeup, CanWrite, NoneLive, Live, AllFinished, EofPending
<1> QED BY <1>4, <1>5, <1>6, <1>7, <1>8, <1>9, <1>10
         DEF Next, Send, SendResume, Choke, Unchoke

\* No thread sleeps in pthread_cond_wait() while it could go on, for any number
\* of senders and streams.
THEOREM NoSleeper == ASSUME ~AllocMayFail PROVE Spec => []NoLostWakeup
<1>1. Init => NoLostWakeup
  BY WakeupInit
<1>2. TypeOK /\ Content /\ NoLostWakeup /\ [Next]_vars => NoLostWakeup'
  BY WakeupStep
<1> QED BY <1>1, <1>2, ContentInvariant, PTL DEF Spec

-----------------------------------------------------------------------------
(* The queue implements the channels of StreamChannel. *)

LEMMA ChannelInit == Init => Channel!Init
BY DEF Init, Channel!Init, phase

\* A step that moves no item and leaves the phase of every stream is a stutter.
LEMMA ChannelStutter ==
  ASSUME UNCHANGED <<accepted, delivered, eofs>>,
         \A s \in Streams : /\ "RECV" \in finished'[s] <=> "RECV" \in finished[s]
                            /\ "RECV" \notin finished[s] =>
                                 ("SEND" \in finished'[s] <=> "SEND" \in finished[s])
  PROVE  UNCHANGED Channel!vars
<1>1. phase' = phase
  BY DEF phase
<1> QED BY <1>1 DEF Channel!vars

LEMMA NotEnded ==
  ASSUME TypeOK, Content, NEW s \in Streams, "RECV" \notin finished[s]
  PROVE  eofs[s] = 0
<1>1. eofs[s] \in Nat /\ ~(eofs[s] > 0)
  BY DEF TypeOK, Content, EndIsRefusal
<1> QED BY <1>1

\* One stream changes its phase, the others keep their flags.
LEMMA PhaseChange ==
  ASSUME NEW s \in Streams, NEW p, phase'[s] = p,
         \A r \in Streams : r # s => eofs'[r] = eofs[r] /\ finished'[r] = finished[r]
  PROVE  phase' = [phase EXCEPT ![s] = p]
<1>1. ASSUME NEW r \in Streams PROVE phase'[r] = IF r = s THEN p ELSE phase[r]
  BY DEF phase
<1>2. phase' = [r \in Streams |-> phase'[r]] /\ DOMAIN phase = Streams
  BY DEF phase
<1> HIDE DEF phase
<1>3. phase' = [r \in Streams |-> IF r = s THEN p ELSE phase[r]]
  BY <1>1, <1>2
<1>4. [phase EXCEPT ![s] = p] = [r \in Streams |-> IF r = s THEN p ELSE phase[r]]
  BY <1>2
<1> QED BY <1>3, <1>4

LEMMA FlagSet ==
  ASSUME TypeOK, NEW s \in Streams, NEW f, finished' = Flag(s, f)
  PROVE  /\ finished'[s] = finished[s] \cup {f}
         /\ \A r \in Streams : r # s => finished'[r] = finished[r]
BY DEF Flag, TypeOK

LEMMA ChannelStep ==
  ASSUME TypeOK, Content, [Next]_vars, ~AllocMayFail
  PROVE  [Channel!Next]_Channel!vars
<1> USE QueueAssumption DEF QueueAssumption
<1>1. ASSUME NEW s \in Streams, finished' = Flag(s, "SEND"),
             UNCHANGED <<accepted, delivered, eofs>>
      PROVE  Channel!End(s) \/ UNCHANGED Channel!vars
  <2>1. CASE "RECV" \in finished[s] \/ "SEND" \in finished[s]
    BY <1>1, <2>1, ChannelStutter DEF Flag, TypeOK
  <2>2. CASE "RECV" \notin finished[s] /\ "SEND" \notin finished[s]
    <3>1. eofs[s] = 0
      BY <2>2, NotEnded
    <3>2. phase[s] = "open"
      BY <2>2, <3>1 DEF phase
    <3>4. phase'[s] = "ended"
      BY <1>1, <2>2, <3>1, FlagSet DEF phase
    <3>3. phase' = [phase EXCEPT ![s] = "ended"]
      BY <1>1, <3>4, FlagSet, PhaseChange
    <3> QED BY <1>1, <3>2, <3>3 DEF Channel!End
  <2> QED BY <2>1, <2>2
<1>2. ASSUME NEW t \in Senders, SendLoop(t) PROVE [Channel!Next]_Channel!vars
  <2> DEFINE s == StreamOf[t]
  <2>1. s \in Streams
    OBVIOUS
  <2>2. CASE SendEof(t, s)
    BY <1>1, <2>1, <2>2 DEF SendEof, history, Channel!Next
  <2>3. CASE SendBlock(t, s)
    BY <2>3, ChannelStutter DEF SendBlock, queue, history
  <2>4. CASE SendWrite(t, s)
    <3>1. eofs[s] = 0
      BY <2>1, <2>4, NotEnded DEF SendWrite
    <3>2. phase[s] \in {"open", "ended"} /\ UNCHANGED phase
      BY <2>1, <2>4, <3>1 DEF SendWrite, phase
    <3>3. Channel!Put(s)
      BY <2>4, <3>2 DEF SendWrite, Channel!Put
    <3> QED BY <2>1, <3>3 DEF Channel!Next
  <2> QED BY <1>2, <2>2, <2>3, <2>4 DEF SendLoop, SendNoMem
<1>3. ASSUME NEW t \in Senders, SendFinish(t) PROVE [Channel!Next]_Channel!vars
  <2>1. StreamOf[t] \in Streams
    OBVIOUS
  <2> QED BY <1>1, <1>3, <2>1 DEF SendFinish, history, Channel!Next
<1>4. ASSUME Receive \/ Poll PROVE [Channel!Next]_Channel!vars
  <2>1. CASE ReceiveItem
    <3>1. PICK k \in DOMAIN fifo :
            /\ FirstLive(k)
            /\ delivered' = [delivered EXCEPT ![fifo_stream_index[k]] = fifo[k].n]
      BY <2>1 DEF ReceiveItem
    <3> DEFINE s == fifo[k].stream
    <3>2. /\ s \in Streams /\ fifo_stream_index[k] = s
          /\ "RECV" \notin finished[s]
          /\ fifo[k].n = delivered[s] + 1
          /\ fifo[k].n <= accepted[s]
      BY <3>1, FirstLiveIsNext
    <3>3. /\ delivered[s] \in Nat /\ accepted[s] \in Nat
          /\ delivered' = [delivered EXCEPT ![s] = @ + 1]
      BY <3>1, <3>2 DEF TypeOK
    <3>4. eofs[s] = 0
      BY <3>2, NotEnded
    <3>5. phase[s] \in {"open", "ended"} /\ UNCHANGED phase
      BY <2>1, <3>2, <3>4 DEF ReceiveItem, phase
    <3>6. delivered[s] < accepted[s]
      BY <3>2, <3>3
    <3>7. Channel!Get(s)
      BY <2>1, <3>3, <3>5, <3>6 DEF ReceiveItem, Channel!Get
    <3> QED BY <3>2, <3>7 DEF Channel!Next
  <2>2. CASE ReceiveEof
    <3>1. PICK s \in Streams : /\ EofPending(s)
                               /\ finished' = Flag(s, "RECV")
                               /\ eofs' = [eofs EXCEPT ![s] = @ + 1]
      BY <2>2 DEF ReceiveEof
    <3>2. delivered[s] = accepted[s]
      BY <2>2, <3>1, NoneLiveIsDelivered DEF ReceiveEof, EofPending
    <3>3. eofs[s] = 0 /\ eofs'[s] = 1
      BY <3>1 DEF EofPending, Content, EndIsRefusal, TypeOK
    <3>4. phase[s] = "ended"
      BY <3>1, <3>3 DEF EofPending, phase
    <3>5. \A r \in Streams : r # s => eofs'[r] = eofs[r] /\ finished'[r] = finished[r]
      BY <3>1, FlagSet DEF TypeOK
    <3>8. phase'[s] = "eof"
      BY <3>3 DEF phase
    <3>6. phase' = [phase EXCEPT ![s] = "eof"]
      BY <3>5, <3>8, PhaseChange
    <3>7. Channel!Eof(s)
      BY <2>2, <3>2, <3>4, <3>6 DEF ReceiveEof, Channel!Eof
    <3> QED BY <3>7 DEF Channel!Next
  <2>3. CASE ReceiveEnd
    BY <2>3, ChannelStutter DEF ReceiveEnd, history
  <2>4. ASSUME NEW p, NothingYet(p) PROVE UNCHANGED Channel!vars
    BY <2>4, ChannelStutter DEF NothingYet, queue, history
  <2> QED BY <1>4, <2>1, <2>2, <2>3, <2>4 DEF Receive, Poll
<1>5. ASSUME NEW s \in Streams, ReceiveFinish(s) PROVE [Channel!Next]_Channel!vars
  <2>1. finished' = Flag(s, "RECV") /\ UNCHANGED <<accepted, delivered, eofs>>
    BY <1>5 DEF ReceiveFinish, history
  <2>2. CASE "RECV" \in finished[s]
    BY <2>1, <2>2, ChannelStutter DEF Flag, TypeOK
  <2>3. CASE "RECV" \notin finished[s]
    <3>1. eofs[s] = 0
      BY <2>3, NotEnded
    <3>2. phase[s] \in {"open", "ended"}
      BY <2>3, <3>1 DEF phase
    <3>5. phase'[s] = "refused"
      BY <2>1, <3>1, FlagSet DEF phase
    <3>3. phase' = [phase EXCEPT ![s] = "refused"]
      BY <2>1, <3>5, FlagSet, PhaseChange
    <3>4. Channel!Refuse(s)
      BY <2>1, <3>2, <3>3 DEF Channel!Refuse
    <3> QED BY <3>4 DEF Channel!Next
  <2> QED BY <2>2, <2>3
<1>6. CASE Choke \/ Unchoke
  BY <1>6, ChannelStutter DEF Choke, Unchoke, SetChoked
<1>7. ASSUME NEW t \in Threads, SpuriousWake(t) PROVE UNCHANGED Channel!vars
  BY <1>7, ChannelStutter DEF SpuriousWake, queue, history
<1>8. CASE UNCHANGED vars
  BY <1>8, ChannelStutter DEF vars
<1> QED BY <1>2, <1>3, <1>4, <1>5, <1>6, <1>7, <1>8 DEF Next, Send, SendResume

\* For its senders and its receiver the bounded, locked and chokable queue is a
\* set of FIFO channels.
THEOREM Refinement == ASSUME ~AllocMayFail PROVE Spec => Channels
<1>1. Init => Channel!Init
  BY ChannelInit
<1>2. TypeOK /\ Content /\ [Next]_vars => [Channel!Next]_Channel!vars
  BY ChannelStep
<1> QED BY <1>1, <1>2, ContentInvariant, PTL DEF Spec, Channels, Channel!Spec
=============================================================================

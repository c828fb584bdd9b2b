-------------------------- MODULE FifoMuxerProofs --------------------------
(***************************************************************************)
(* Proofs about ThreadMessage and about FifoMuxer, which is built on it.   *)
(*                                                                         *)
(* The thread message queue, for any number of threads and any capacity:   *)
(* signalling a single thread per message and per free slot loses no       *)
(* wake-up.                                                                *)
(*                                                                         *)
(* The fifo muxer, for every length of the queue, all options and any      *)
(* number of packets and failures: packets are written in order, not twice, *)
(* none is lost that should not be, after a gap the output goes on with a  *)
(* keyframe, and the timeshift is kept.                                    *)
(***************************************************************************)
EXTENDS FifoMuxer, FiniteSetTheorems, SequenceTheorems, TLAPS

States == {"idle", "wait", "woken"}

-----------------------------------------------------------------------------
(* What the signals and the moves of one thread do to the threads of one    *)
(* side.                                                                    *)

LEMMA ThreadsFinite ==
  /\ Senders \subseteq Threads /\ IsFiniteSet(Senders)
  /\ Receivers \subseteq Threads /\ IsFiniteSet(Receivers)
  /\ \A t \in Senders : t \notin Receivers
BY MessageAssumption DEF MessageAssumption, Threads

LEMMA InStateFinite ==
  ASSUME NEW T, IsFiniteSet(T), NEW state
  PROVE  /\ IsFiniteSet(InState(T, state)) /\ Cardinality(InState(T, state)) \in Nat
         /\ IsFiniteSet(InState(T, state)') /\ Cardinality(InState(T, state)') \in Nat
<1>1. InState(T, state) \in SUBSET T /\ InState(T, state)' \in SUBSET T
  BY DEF InState
<1>2. IsFiniteSet(InState(T, state)) /\ IsFiniteSet(InState(T, state)')
  BY <1>1, FS_Subset
<1> QED BY <1>2, FS_CardinalityType

LEMMA Signalling ==
  ASSUME pc \in [Threads -> States], NEW T \in SUBSET Threads, NEW p \in Signalled(T)
  PROVE  /\ p \in [Threads -> States]
         /\ \A t \in Threads : p[t] # pc[t] => t \in T
         /\ \/ InState(T, "wait") = {} /\ p = pc
            \/ \E t \in InState(T, "wait") : p = [pc EXCEPT ![t] = "woken"]
BY DEF Signalled, InState, States

LEMMA Broadcasting ==
  ASSUME pc \in [Threads -> States], NEW T \in SUBSET Threads
  PROVE  /\ Broadcast(T) \in [Threads -> States]
         /\ \A t \in Threads \ T : Broadcast(T)[t] = pc[t]
         /\ \A t \in T : Broadcast(T)[t] # "wait"
BY DEF Broadcast, InState, States

\* Nothing happens to the threads of T.
LEMMA SameStates ==
  ASSUME NEW T, \A t \in T : pc'[t] = pc[t], NEW state
  PROVE  InState(T, state)' = InState(T, state)
BY DEF InState

\* One thread of T is signalled: if any sleeps on, one more is on its way.
LEMMA OneMoreWoken ==
  ASSUME pc \in [Threads -> States], NEW T \in SUBSET Threads, IsFiniteSet(T),
         NEW p \in Signalled(T), \A t \in T : pc'[t] = p[t],
         InState(T, "wait")' # {}
  PROVE  /\ InState(T, "wait") # {}
         /\ Cardinality(InState(T, "woken")') = Cardinality(InState(T, "woken")) + 1
<1>1. InState(T, "wait") # {}
  <2>1. CASE InState(T, "wait") = {} /\ p = pc
    BY <2>1 DEF InState
  <2>2. CASE \E t \in InState(T, "wait") : p = [pc EXCEPT ![t] = "woken"]
    BY <2>2
  <2> QED BY <2>1, <2>2, Signalling
<1>2. PICK u \in InState(T, "wait") : p = [pc EXCEPT ![u] = "woken"]
  BY <1>1, Signalling
<1>3. u \notin InState(T, "woken")
  BY <1>2 DEF InState
<1>4. InState(T, "woken")' = InState(T, "woken") \cup {u}
  BY <1>2 DEF InState
<1> QED BY <1>1, <1>3, <1>4, FS_AddElement, InStateFinite

\* One thread of T, which was not asleep, goes on: at most one less is on its way.
LEMMA OneLessWoken ==
  ASSUME NEW T, IsFiniteSet(T), NEW u \in T, pc[u] # "wait", pc'[u] = "idle",
         \A t \in T : t # u => pc'[t] = pc[t]
  PROVE  /\ InState(T, "wait")' = InState(T, "wait")
         /\ Cardinality(InState(T, "woken")') >= Cardinality(InState(T, "woken")) - 1
<1>1. InState(T, "wait")' = InState(T, "wait")
  BY DEF InState
<1>2. InState(T, "woken")' = InState(T, "woken") \ {u}
  BY DEF InState
<1>3. Cardinality(InState(T, "woken")') =
        IF u \in InState(T, "woken") THEN Cardinality(InState(T, "woken")) - 1
                                     ELSE Cardinality(InState(T, "woken"))
  BY <1>2, FS_RemoveElement, InStateFinite
<1>4. Cardinality(InState(T, "woken")) \in Nat
  BY InStateFinite
<1> QED BY <1>1, <1>3, <1>4

LEMMA SpuriousMove ==
  ASSUME NEW T, IsFiniteSet(T), NEW u, pc[u] = "wait", pc'[u] = "woken",
         \A t \in T : t # u => pc'[t] = pc[t]
  PROVE  /\ InState(T, "wait")' \subseteq InState(T, "wait")
         /\ Cardinality(InState(T, "woken")') >= Cardinality(InState(T, "woken"))
<1>1. InState(T, "wait")' \subseteq InState(T, "wait")
  BY DEF InState
<1>2. InState(T, "woken") \in SUBSET (InState(T, "woken")')
  BY DEF InState
<1>3. Cardinality(InState(T, "woken")) <= Cardinality(InState(T, "woken")')
  BY <1>2, FS_Subset, InStateFinite
<1> QED BY <1>1, <1>3, InStateFinite

-----------------------------------------------------------------------------
(* Type correctness *)

LEMMA TypeInit == Init => TypeOK
<1> SUFFICES ASSUME Init PROVE TypeOK
  OBVIOUS
<1>1. fifo \in Seq(Nat) /\ Len(fifo) = 0
  BY DEF Init
<1>2. Len(fifo) <= NElem
  BY <1>1, MessageAssumption DEF MessageAssumption
<1> QED BY <1>1, <1>2 DEF Init, TypeOK

LEMMA TypeStep == TypeOK /\ [Next]_vars => TypeOK'
<1> SUFFICES ASSUME TypeOK, [Next]_vars PROVE TypeOK'
  OBVIOUS
<1> USE MessageAssumption DEF MessageAssumption
<1>1. /\ Len(fifo) \in Nat /\ pc \in [Threads -> States]
      /\ Senders \in SUBSET Threads /\ Receivers \in SUBSET Threads
  BY LenProperties, ThreadsFinite DEF TypeOK, States
<1>2. ASSUME NEW t \in Senders, SendLoop(t) PROVE TypeOK'
  <2>1. CASE SendErr(t)
    BY <2>1 DEF SendErr, TypeOK
  <2>2. CASE SendBlock(t)
    BY <2>2 DEF SendBlock, TypeOK
  <2>3. CASE SendWrite(t)
    <3>1. /\ fifo' \in Seq(Nat) /\ Len(fifo') = Len(fifo) + 1 /\ sent' \in Nat
      BY <2>3, AppendProperties DEF SendWrite, TypeOK
    <3>2. pc' \in [Threads -> States]
      BY <1>1, <2>3, Signalling DEF SendWrite, States
    <3> QED BY <1>1, <2>3, <3>1, <3>2 DEF SendWrite, TypeOK, States
  <2> QED BY <1>2, <2>1, <2>2, <2>3 DEF SendLoop
<1>3. ASSUME NEW t \in Receivers, Recv(t) PROVE TypeOK'
  <2>1. CASE RecvErr(t)
    BY <2>1 DEF RecvErr, TypeOK
  <2>2. CASE RecvBlock(t)
    BY <2>2 DEF RecvBlock, TypeOK
  <2>3. CASE RecvRead(t)
    <3>1. fifo' \in Seq(Nat) /\ Len(fifo') = Len(fifo) - 1
      BY <2>3, HeadTailProperties DEF RecvRead, TypeOK
    <3>2. pc' \in [Threads -> States]
      BY <1>1, <2>3, Signalling DEF RecvRead, States
    <3> QED BY <1>1, <2>3, <3>1, <3>2 DEF RecvRead, TypeOK, States
  <2> QED BY <1>3, <2>1, <2>2, <2>3 DEF Recv
<1>4. ASSUME NEW t \in Threads, NEW e \in BOOLEAN, SetErrSend(t, e) PROVE TypeOK'
  BY <1>1, <1>4, Broadcasting DEF SetErrSend, TypeOK, States
<1>5. ASSUME NEW t \in Threads, NEW e \in BOOLEAN, SetErrRecv(t, e) PROVE TypeOK'
  BY <1>1, <1>5, Broadcasting DEF SetErrRecv, TypeOK, States
<1>6. ASSUME NEW t \in Threads, Flush(t) PROVE TypeOK'
  <2>1. fifo' \in Seq(Nat) /\ Len(fifo') \in Nat /\ Len(fifo') <= NElem
    <3>1. CASE FreeFunc
      BY <1>6, <3>1, EmptySeq DEF Flush
    <3>2. CASE ~FreeFunc
      BY <1>1, <1>6, <3>2 DEF Flush, TypeOK
    <3> QED BY <3>1, <3>2
  <2>2. pc' \in [Threads -> States]
    BY <1>1, <1>6, Broadcasting DEF Flush
  <2> QED BY <1>6, <2>1, <2>2 DEF Flush, TypeOK, States
<1>7. ASSUME NEW t \in Threads, SpuriousWake(t) PROVE TypeOK'
  BY <1>7 DEF SpuriousWake, TypeOK
<1>8. CASE UNCHANGED vars
  BY <1>8 DEF vars, TypeOK
<1> QED BY <1>2, <1>3, <1>4, <1>5, <1>6, <1>7, <1>8 DEF Next, Send, SendResume

\* Every variable keeps its type and the queue its capacity.
THEOREM TypeCorrect == Spec => []TypeOK
<1> QED BY TypeInit, TypeStep, PTL DEF Spec

-----------------------------------------------------------------------------
(* Wake-ups.  The two invariants are inductive together with TypeOK: a      *)
(* thread goes to sleep only when there is nothing for it, every message    *)
(* and every slot that appears later wakes one more sleeper, and a woken    *)
(* thread that returns without taking anything does so because of an error, *)
(* during which nobody sleeps.                                              *)

OnTheWay == ReceiversOnTheWay /\ SendersOnTheWay

LEMMA OnTheWayInit == Init => OnTheWay
BY ThreadsFinite DEF Init, OnTheWay, ReceiversOnTheWay, SendersOnTheWay, InState

LEMMA ReceiversStep ==
  ASSUME TypeOK, ReceiversOnTheWay, [Next]_vars
  PROVE  ReceiversOnTheWay'
<1> DEFINE R == Receivers
           asleep == InState(R, "wait")
           woken == InState(R, "woken")
<1>1. /\ Len(fifo) \in Nat /\ pc \in [Threads -> States]
      /\ Senders \in SUBSET Threads /\ R \in SUBSET Threads /\ IsFiniteSet(R)
      /\ \A t \in Senders : t \notin R
  BY LenProperties, ThreadsFinite DEF TypeOK, States
<1>2. /\ Cardinality(woken) \in Nat /\ Cardinality(woken') \in Nat
      /\ asleep # {} => ~err_recv /\ Len(fifo) <= Cardinality(woken)
  BY <1>1, InStateFinite DEF ReceiversOnTheWay
<1> SUFFICES ASSUME asleep' # {}
             PROVE  ~err_recv' /\ Len(fifo') <= Cardinality(woken')
  BY DEF ReceiversOnTheWay
<1> HIDE DEF asleep, woken
<1>3. ASSUME \A t \in R : pc'[t] = pc[t], err_recv' = err_recv, Len(fifo') <= Len(fifo)
      PROVE  ~err_recv' /\ Len(fifo') <= Cardinality(woken')
  <2>1. asleep' = asleep /\ woken' = woken
    BY <1>3, SameStates DEF asleep, woken
  <2>2. Len(fifo) <= Cardinality(woken) /\ ~err_recv
    BY <2>1, <1>2
  <2>3. CASE Len(fifo') = Len(fifo)
    BY <1>3, <2>1, <2>2, <2>3
  <2> QED BY <1>3, <2>1, <2>2, <1>1, <1>2, LenProperties DEF TypeOK
<1>4. ASSUME NEW t \in Senders, SendLoop(t)
      PROVE  ~err_recv' /\ Len(fifo') <= Cardinality(woken')
  <2>1. CASE SendErr(t) \/ SendBlock(t)
    <3>1. \A u \in R : pc'[u] = pc[u]
      BY <1>1, <2>1 DEF SendErr, SendBlock
    <3>2. UNCHANGED <<err_recv, fifo>>
      BY <2>1 DEF SendErr, SendBlock
    <3> QED BY <3>1, <3>2, <1>1, <1>3
  <2>2. CASE SendWrite(t)
    <3>1. PICK p \in Signalled(R) : pc' = [p EXCEPT ![t] = "idle"]
      BY <2>2 DEF SendWrite
    <3>2. \A u \in R : pc'[u] = p[u]
      BY <1>1, <3>1, Signalling
    <3>3. asleep # {} /\ Cardinality(woken') = Cardinality(woken) + 1
      BY <1>1, <3>2, OneMoreWoken DEF asleep, woken
    <3>4. Len(fifo') = Len(fifo) + 1 /\ err_recv' = err_recv
      BY <2>2, AppendProperties DEF SendWrite, TypeOK
    <3> QED BY <1>1, <1>2, <3>3, <3>4
  <2> QED BY <1>4, <2>1, <2>2 DEF SendLoop
<1>5. ASSUME NEW t \in R, Recv(t)
      PROVE  ~err_recv' /\ Len(fifo') <= Cardinality(woken')
  <2>1. CASE RecvErr(t)
    <3>1. pc[t] # "wait" /\ pc'[t] = "idle" /\ \A u \in R : u # t => pc'[u] = pc[u]
      BY <1>1, <1>5, <2>1 DEF Recv, RecvErr
    <3>2. asleep' = asleep
      BY <1>1, <3>1, OneLessWoken DEF asleep
    <3> QED BY <1>2, <2>1, <3>2 DEF RecvErr
  <2>2. CASE RecvBlock(t)
    <3>1. Len(fifo') = 0 /\ ~err_recv'
      BY <2>2 DEF RecvBlock
    <3> QED BY <1>2, <3>1
  <2>3. CASE RecvRead(t)
    <3>1. PICK p \in Signalled(Senders) : pc' = [p EXCEPT ![t] = "idle"]
      BY <2>3 DEF RecvRead
    <3>2. pc[t] # "wait" /\ pc'[t] = "idle" /\ \A u \in R : u # t => pc'[u] = pc[u]
      BY <1>1, <1>5, <3>1, Signalling DEF Recv
    <3>3. asleep' = asleep /\ Cardinality(woken') >= Cardinality(woken) - 1
      BY <1>1, <3>2, OneLessWoken DEF asleep, woken
    <3>4. Len(fifo') = Len(fifo) - 1 /\ err_recv' = err_recv
      BY <2>3, HeadTailProperties DEF RecvRead, TypeOK
    <3> QED BY <1>1, <1>2, <3>3, <3>4
  <2> QED BY <1>5, <2>1, <2>2, <2>3 DEF Recv
<1>6. ASSUME NEW t \in Threads, NEW e \in BOOLEAN, SetErrSend(t, e)
      PROVE  ~err_recv' /\ Len(fifo') <= Cardinality(woken')
  <2>1. \A u \in R : pc'[u] = pc[u]
    BY <1>1, <1>6, Broadcasting DEF SetErrSend
  <2> QED BY <1>1, <1>3, <1>6, <2>1 DEF SetErrSend
<1>7. ASSUME NEW t \in Threads, NEW e \in BOOLEAN, SetErrRecv(t, e) PROVE FALSE
  BY <1>1, <1>7, Broadcasting DEF SetErrRecv, asleep, InState
<1>8. ASSUME NEW t \in Threads, Flush(t)
      PROVE  ~err_recv' /\ Len(fifo') <= Cardinality(woken')
  <2>1. \A u \in R : pc'[u] = pc[u]
    BY <1>1, <1>8, Broadcasting DEF Flush
  <2>2. Len(fifo') <= Len(fifo) /\ err_recv' = err_recv
    <3>1. CASE FreeFunc
      BY <1>1, <1>8, <3>1 DEF Flush
    <3>2. CASE ~FreeFunc
      BY <1>1, <1>8, <3>2 DEF Flush
    <3> QED BY <3>1, <3>2
  <2> QED BY <1>3, <2>1, <2>2
<1>9. ASSUME NEW t \in Threads, SpuriousWake(t)
      PROVE  ~err_recv' /\ Len(fifo') <= Cardinality(woken')
  <2>1. pc[t] = "wait" /\ pc'[t] = "woken" /\ \A u \in R : u # t => pc'[u] = pc[u]
    BY <1>1, <1>9 DEF SpuriousWake
  <2>2. asleep' \subseteq asleep /\ Cardinality(woken') >= Cardinality(woken)
    BY <1>1, <2>1, SpuriousMove DEF asleep, woken
  <2>3. UNCHANGED <<err_recv, fifo>>
    BY <1>9 DEF SpuriousWake
  <2> QED BY <1>1, <1>2, <2>2, <2>3
<1>10. CASE UNCHANGED vars
  BY <1>1, <1>3, <1>10 DEF vars
<1> QED BY <1>4, <1>5, <1>6, <1>7, <1>8, <1>9, <1>10 DEF Next, Send, SendResume

LEMMA SendersStep ==
  ASSUME TypeOK, SendersOnTheWay, [Next]_vars
  PROVE  SendersOnTheWay'
<1> DEFINE S == Senders
           asleep == InState(S, "wait")
           woken == InState(S, "woken")
           free == NElem - Len(fifo)
<1>1. /\ Len(fifo) \in Nat /\ NElem \in Nat /\ pc \in [Threads -> States]
      /\ S \in SUBSET Threads /\ Receivers \in SUBSET Threads /\ IsFiniteSet(S)
      /\ \A t \in Receivers : t \notin S
  BY LenProperties, ThreadsFinite, MessageAssumption DEF TypeOK, States, MessageAssumption
<1>2. /\ Cardinality(woken) \in Nat /\ Cardinality(woken') \in Nat
      /\ asleep # {} => ~err_send /\ free <= Cardinality(woken)
  BY <1>1, InStateFinite DEF SendersOnTheWay
<1> SUFFICES ASSUME asleep' # {}
             PROVE  ~err_send' /\ NElem - Len(fifo') <= Cardinality(woken')
  BY DEF SendersOnTheWay
<1> HIDE DEF asleep, woken
<1>3. ASSUME \A t \in S : pc'[t] = pc[t], err_send' = err_send, Len(fifo') = Len(fifo)
      PROVE  ~err_send' /\ NElem - Len(fifo') <= Cardinality(woken')
  <2>1. asleep' = asleep /\ woken' = woken
    BY <1>3, SameStates DEF asleep, woken
  <2> QED BY <1>2, <1>3, <2>1
<1>4. ASSUME NEW t \in S, SendLoop(t), pc[t] # "wait"
      PROVE  ~err_send' /\ NElem - Len(fifo') <= Cardinality(woken')
  <2>1. CASE SendErr(t)
    <3>1. pc'[t] = "idle" /\ \A u \in S : u # t => pc'[u] = pc[u]
      BY <1>1, <2>1 DEF SendErr
    <3>2. asleep' = asleep
      BY <1>1, <1>4, <3>1, OneLessWoken DEF asleep
    <3> QED BY <1>2, <2>1, <3>2 DEF SendErr
  <2>2. CASE SendBlock(t)
    <3>1. NElem - Len(fifo') = 0 /\ ~err_send'
      BY <1>1, <2>2 DEF SendBlock
    <3> QED BY <1>2, <3>1
  <2>3. CASE SendWrite(t)
    <3>1. PICK p \in Signalled(Receivers) : pc' = [p EXCEPT ![t] = "idle"]
      BY <2>3 DEF SendWrite
    <3>2. pc'[t] = "idle" /\ \A u \in S : u # t => pc'[u] = pc[u]
      BY <1>1, <3>1, Signalling
    <3>3. asleep' = asleep /\ Cardinality(woken') >= Cardinality(woken) - 1
      BY <1>1, <1>4, <3>2, OneLessWoken DEF asleep, woken
    <3>4. Len(fifo') = Len(fifo) + 1 /\ err_send' = err_send
      BY <2>3, AppendProperties DEF SendWrite, TypeOK
    <3> QED BY <1>1, <1>2, <3>3, <3>4
  <2> QED BY <1>4, <2>1, <2>2, <2>3 DEF SendLoop
<1>5. ASSUME NEW t \in Receivers, Recv(t)
      PROVE  ~err_send' /\ NElem - Len(fifo') <= Cardinality(woken')
  <2>1. CASE RecvErr(t) \/ RecvBlock(t)
    <3>1. \A u \in S : pc'[u] = pc[u]
      BY <1>1, <2>1 DEF RecvErr, RecvBlock
    <3>2. UNCHANGED <<err_send, fifo>>
      BY <2>1 DEF RecvErr, RecvBlock
    <3> QED BY <3>1, <3>2, <1>3
  <2>2. CASE RecvRead(t)
    <3>1. PICK p \in Signalled(S) : pc' = [p EXCEPT ![t] = "idle"]
      BY <2>2 DEF RecvRead
    <3>2. \A u \in S : pc'[u] = p[u]
      BY <1>1, <3>1, Signalling
    <3>3. asleep # {} /\ Cardinality(woken') = Cardinality(woken) + 1
      BY <1>1, <3>2, OneMoreWoken DEF asleep, woken
    <3>4. Len(fifo') = Len(fifo) - 1 /\ err_send' = err_send
      BY <2>2, HeadTailProperties DEF RecvRead, TypeOK
    <3> QED BY <1>1, <1>2, <3>3, <3>4
  <2> QED BY <1>5, <2>1, <2>2 DEF Recv
<1>6. ASSUME NEW t \in Threads, NEW e \in BOOLEAN, SetErrSend(t, e) PROVE FALSE
  BY <1>1, <1>6, Broadcasting DEF SetErrSend, asleep, InState
<1>7. ASSUME NEW t \in Threads, NEW e \in BOOLEAN, SetErrRecv(t, e)
      PROVE  ~err_send' /\ NElem - Len(fifo') <= Cardinality(woken')
  <2>1. \A u \in S : pc'[u] = pc[u]
    BY <1>1, <1>7, Broadcasting DEF SetErrRecv
  <2> QED BY <1>3, <1>7, <2>1 DEF SetErrRecv
<1>8. ASSUME NEW t \in Threads, Flush(t) PROVE FALSE
  BY <1>1, <1>8, Broadcasting DEF Flush, asleep, InState
<1>9. ASSUME NEW t \in Threads, SpuriousWake(t)
      PROVE  ~err_send' /\ NElem - Len(fifo') <= Cardinality(woken')
  <2>1. pc[t] = "wait" /\ pc'[t] = "woken" /\ \A u \in S : u # t => pc'[u] = pc[u]
    BY <1>1, <1>9 DEF SpuriousWake
  <2>2. asleep' \subseteq asleep /\ Cardinality(woken') >= Cardinality(woken)
    BY <1>1, <2>1, SpuriousMove DEF asleep, woken
  <2>3. UNCHANGED <<err_send, fifo>>
    BY <1>9 DEF SpuriousWake
  <2> QED BY <1>1, <1>2, <2>2, <2>3
<1>10. CASE UNCHANGED vars
  BY <1>3, <1>10 DEF vars
<1>11. ASSUME NEW t \in S, Send(t) \/ SendResume(t) PROVE SendLoop(t) /\ pc[t] # "wait"
  BY <1>11 DEF Send, SendResume
<1> QED BY <1>4, <1>5, <1>6, <1>7, <1>8, <1>9, <1>10, <1>11 DEF Next

LEMMA OnTheWayInvariant == Spec => [](TypeOK /\ OnTheWay)
<1>1. Init => TypeOK /\ OnTheWay
  BY TypeInit, OnTheWayInit
<1>2. TypeOK /\ OnTheWay /\ [Next]_vars => TypeOK' /\ OnTheWay'
  BY TypeStep, ReceiversStep, SendersStep DEF OnTheWay
<1> QED BY <1>1, <1>2, PTL DEF Spec

\* A receiver sleeps only while every queued message has a woken receiver of its
\* own, and never once the receiving error code is set.
THEOREM NoReceiverForgotten == Spec => []ReceiversOnTheWay
<1>1. TypeOK /\ OnTheWay => ReceiversOnTheWay
  BY DEF OnTheWay
<1> QED BY <1>1, OnTheWayInvariant, PTL

\* A sender sleeps only while every free slot has a woken sender of its own, and
\* never once the sending error code is set.
THEOREM NoSenderForgotten == Spec => []SendersOnTheWay
<1>1. TypeOK /\ OnTheWay => SendersOnTheWay
  BY DEF OnTheWay
<1> QED BY <1>1, OnTheWayInvariant, PTL

-----------------------------------------------------------------------------
(* The fifo muxer: what its variables are, and what they say of each other.  *)

Sendable == Packets \cup {"flush"}
Message  == [type : Sendable \cup {"noop"}, dts : Nat]

InWork == {"none", "top", "recover"}   \* the message in hand is not dealt with
Ending == {"fail", "trailer", "exited"}

Typed ==
  /\ FreeFunc
  /\ pc \in [Threads -> States]
  /\ opt \in Options
  /\ pc[user] # "idle" => upc \in Sendable
  /\ offered \in Nat
  /\ messages \in Seq(Message) /\ Len(messages) = sent
  /\ recovery_nr \in Nat /\ failures \in Nat
  /\ drop_until_keyframe \in BOOLEAN /\ header_written \in BOOLEAN
  /\ overflow_flag \in BOOLEAN /\ overflowed \in BOOLEAN /\ failed \in BOOLEAN
  /\ cpc \in InWork \cup Ending \cup {"check", "delay", "receive"}
  /\ upc = "new" => cpc = "none"
  /\ cpc = "none" => written = <<>> /\ recovery_nr = 0

\* The queue holds the last messages, and the one in hand is before them: right
\* before them as long as nothing was flushed.
Queue ==
  /\ fifo \in Seq(Nat) /\ sent \in Nat /\ msg \in Nat
  /\ msg + Len(fifo) <= sent
  /\ cpc \in InWork \cup {"check"} => msg + Len(fifo) = sent
  /\ \A i \in 1 .. Len(fifo) : fifo[i] = sent - Len(fifo) + i

History ==
  /\ written \in Seq(Nat)
  /\ WrittenInOrder
  /\ \A i \in DOMAIN written : written[i] <= msg
  /\ cpc \in InWork => \A i \in DOMAIN written : written[i] # msg

\* What has to happen before packets are dropped.
Causes ==
  /\ upc = "overflow" => opt.drop
  /\ overflow_flag => overflowed
  /\ overflowed => opt.drop
  /\ drop_until_keyframe => opt.drop /\ (overflowed \/ failures > 0)
  /\ cpc = "recover" \/ recovery_nr > 0 => failures > 0
  /\ cpc = "top" => recovery_nr = 0
  /\ failed => cpc \in Ending

LastWritten == IF written = <<>> THEN 0 ELSE written[Len(written)]

\* Packets are missing between what was written and what is in hand.
Gap == \E n \in LastWritten + 1 .. sent : IsPacket(n) /\ ~InHand(n)

\* After a gap the consumer waits for a keyframe, or will once it has recovered.
GapsKnown ==
  opt.keyframe /\ Gap =>
    \/ drop_until_keyframe
    \/ opt.drop /\ (recovery_nr > 0 \/ cpc = "recover")
    \/ cpc \in Ending
-----------------------------------------------------------------------------
(* The kinds of steps there are, as far as the invariant is concerned.      *)

Accepts == \E m \in Message : /\ fifo' = Append(fifo, sent + 1) /\ sent' = sent + 1
                              /\ messages' = Append(messages, m)

UserMoves ==
  /\ UNCHANGED <<opt, msg, recovery_nr, drop_until_keyframe, header_written, written,
                 failures, failed>>
  /\ pc' \in [Threads -> States]
  /\ pc'[user] # "idle" => upc' \in Sendable
  /\ offered' \in Nat
  /\ upc' = "overflow" => opt.drop
  /\ \/ cpc' = cpc /\ (upc' = "new" => upc = "new")
     \/ upc = "new" /\ cpc' = "top" /\ upc' # "new"
  /\ UNCHANGED <<fifo, sent, messages>> \/ Accepts
  /\ \/ UNCHANGED <<overflow_flag, overflowed>>
     \/ upc = "overflow" /\ overflow_flag' = TRUE /\ overflowed' = TRUE

ConsumerFrame ==
  /\ UNCHANGED <<opt, upc, offered, messages, sent, overflowed>>
  /\ pc' \in [Threads -> States]
  /\ pc'[user] # "idle" => pc[user] # "idle"

\* A message is dispatched with the outcome o, from drop_until_keyframe = d.
Works(o, d) ==
  /\ ConsumerFrame
  /\ UNCHANGED <<fifo, msg, overflow_flag>>
  /\ failures' = failures + (IF o.ret = "ok" THEN 0 ELSE 1)
  /\ header_written' = o.header /\ drop_until_keyframe' = o.drop
  /\ written' = IF o.wrote THEN Append(written, msg) ELSE written
  /\ \/ /\ cpc = "top" /\ d = drop_until_keyframe
        /\ UNCHANGED <<recovery_nr, failed>>
        /\ cpc' = IF o.ret = "ok" THEN "check" ELSE "recover"
     \/ /\ cpc = "recover" /\ d = (drop_until_keyframe \/ (opt.keyframe /\ opt.drop))
        /\ \/ o.ret = "ok" /\ recovery_nr' = 0 /\ failed' = FALSE /\ cpc' = "check"
           \/ /\ o.ret # "ok" /\ recovery_nr' \in Nat \ {0}
              /\ \/ failed' = TRUE /\ cpc' = "fail"
                 \/ failed' = FALSE /\ cpc' = TryAgain

Moves ==
  /\ ConsumerFrame
  /\ UNCHANGED <<fifo, msg, overflow_flag, recovery_nr, drop_until_keyframe, written, failures>>
  /\ header_written' \in BOOLEAN
  /\ \/ cpc = "recover" /\ cpc' = "fail" /\ failed' = TRUE
     \/ cpc = "recover" /\ cpc' = TryAgain /\ recovery_nr > 0 /\ failed' = failed
     \/ cpc \in Ending \cup {"delay", "receive"} /\ cpc' \in Ending /\ failed' = failed
     \/ cpc \in {"delay", "receive"} /\ cpc' = "receive" /\ failed' = failed

Takes ==
  /\ ConsumerFrame
  /\ UNCHANGED <<overflow_flag, recovery_nr, drop_until_keyframe, header_written, written,
                 failures, failed>>
  /\ fifo # <<>> /\ fifo' = Tail(fifo) /\ msg' = Head(fifo)
  /\ cpc = "receive" /\ cpc' = IF recovery_nr = 0 THEN "top" ELSE "recover"

Cleans ==
  /\ ConsumerFrame
  /\ UNCHANGED <<msg, recovery_nr, header_written, written, failures, failed>>
  /\ fifo' = IF overflow_flag THEN <<>> ELSE fifo
  /\ drop_until_keyframe' = (drop_until_keyframe \/ (overflow_flag /\ opt.keyframe))
  /\ overflow_flag' = FALSE
  /\ cpc = "check" /\ cpc' \in {"delay", "receive"}

LEMMA Constants ==
  /\ user \in Threads /\ user \in Senders /\ user \notin Receivers
  /\ consumer \in Threads /\ user # consumer
  /\ Senders \subseteq Threads /\ Receivers \subseteq Threads
  /\ Options \subseteq Option
BY FifoAssumption, MessageAssumption DEF FifoAssumption, MessageAssumption, Threads

\* What a step of the queue does to the states of the threads.
LEMMA SendStates ==
  ASSUME Typed, NEW p \in Signalled(Receivers), pc' = [p EXCEPT ![user] = "idle"]
  PROVE  pc' \in [Threads -> States] /\ pc'[user] = "idle"
BY Constants DEF Typed, Signalled, InState, States

LEMMA ReceiveStates ==
  ASSUME Typed, NEW p \in Signalled(Senders), pc' = [p EXCEPT ![consumer] = "idle"]
  PROVE  pc' \in [Threads -> States] /\ (pc'[user] # "idle" => pc[user] # "idle")
BY Constants DEF Typed, Signalled, InState, States

LEMMA BroadcastStates ==
  ASSUME Typed, NEW T, pc' = Broadcast(T)
  PROVE  pc' \in [Threads -> States] /\ (pc'[user] # "idle" => pc[user] # "idle")
BY Constants DEF Typed, Broadcast, InState, States

LEMMA MoveStates ==
  ASSUME Typed, NEW t \in Threads, NEW s \in States, pc' = [pc EXCEPT ![t] = s]
  PROVE  pc' \in [Threads -> States] /\ pc'[t] = s
         /\ (t = consumer => (pc'[user] # "idle" => pc[user] # "idle"))
BY Constants DEF Typed

-----------------------------------------------------------------------------
(* The actions are steps of these kinds.                                    *)

LEMMA Accepting ==
  ASSUME Typed, NEW type \in Sendable \cup {"noop"}, NEW dts \in Nat, Accept(type, dts)
  PROVE  /\ Accepts
         /\ pc' \in [Threads -> States] /\ pc'[user] = "idle"
         /\ UNCHANGED <<err_send, err_recv>>
<1>1. Accepts
  BY DEF Accept, Accepts, SendWrite, Message
<1>2. PICK p \in Signalled(Receivers) : pc' = [p EXCEPT ![user] = "idle"]
  BY DEF Accept, SendWrite
<1> QED BY <1>1, <1>2, SendStates DEF Accept, SendWrite

LEMMA WriteIsUserMove ==
  ASSUME Typed, Causes, NEW type \in Sendable, WritePacket(type)
  PROVE  UserMoves
<1> USE DEF UserMoves, rest, consumerVars
<1>1. offered' \in Nat /\ type # "overflow" /\ upc = "user" /\ upc # "new"
      /\ type # "new" /\ offered' = offered + 1
  BY DEF WritePacket, Typed, Sendable, Packets
<1>2. user \in Threads /\ "idle" \in States /\ "wait" \in States
  BY Constants DEF States
<1>3. CASE SendErr(user) /\ upc' = "user" /\ UNCHANGED messages
  BY <1>1, <1>2, <1>3, MoveStates DEF WritePacket, SendErr
<1>4. CASE ~opt.drop /\ SendBlock(user) /\ upc' = type /\ UNCHANGED messages
  BY <1>1, <1>2, <1>4, MoveStates DEF WritePacket, SendBlock
<1>5. CASE /\ opt.drop /\ ~err_send /\ Len(fifo) = NElem
           /\ upc' = "overflow"
           /\ UNCHANGED <<vars, messages>>
  BY <1>1, <1>5 DEF WritePacket, vars, Typed, Sendable, Packets
<1>6. CASE Accept(type, offered') /\ upc' = IF opt.timeshift > 0 THEN "account" ELSE "user"
  <2>1. /\ Accepts
        /\ pc' \in [Threads -> States] /\ pc'[user] = "idle"
    BY <1>1, <1>6, Accepting
  <2> QED BY <1>1, <1>6, <2>1 DEF WritePacket
<1> QED BY <1>3, <1>4, <1>5, <1>6 DEF WritePacket

LEMMA ResumeIsUserMove ==
  ASSUME Typed, Causes, ResumeSend
  PROVE  UserMoves
<1> USE DEF UserMoves, rest, consumerVars
<1>1. /\ upc \in Sendable /\ upc # "overflow" /\ upc # "new"
      /\ offered' \in Nat /\ offered \in Nat
  BY DEF ResumeSend, Typed, Sendable, Packets
<1>2. user \in Threads /\ "idle" \in States /\ "wait" \in States
  BY Constants DEF States
<1>3. CASE SendErr(user) /\ upc' = "user" /\ UNCHANGED messages
  BY <1>1, <1>2, <1>3, MoveStates DEF ResumeSend, SendErr
<1>4. CASE SendBlock(user) /\ UNCHANGED <<upc, messages>>
  BY <1>1, <1>2, <1>4, MoveStates DEF ResumeSend, SendBlock
<1>5. CASE Accept(upc, offered) /\ upc' = IF opt.timeshift > 0 THEN "account" ELSE "user"
  <2>1. /\ Accepts
        /\ pc' \in [Threads -> States] /\ pc'[user] = "idle"
    BY <1>1, <1>5, Accepting
  <2> QED BY <1>1, <1>5, <2>1 DEF ResumeSend
<1> QED BY <1>3, <1>4, <1>5 DEF ResumeSend

LEMMA PingIsUserMove ==
  ASSUME Typed, Causes, Ping
  PROVE  UserMoves
<1> USE DEF UserMoves, rest, consumerVars
<1>1. upc = "ping" /\ pc[user] = "idle" /\ offered' \in Nat
  BY DEF Ping, Typed, Sendable, Packets
<1>2. user \in Threads /\ "idle" \in States
  BY Constants DEF States
<1>3. CASE SendErr(user) /\ upc' = "join" /\ UNCHANGED messages
  BY <1>1, <1>2, <1>3, MoveStates DEF Ping, SendErr
<1>4. CASE ~err_send /\ Len(fifo) = NElem /\ upc' = "shift" /\ UNCHANGED <<vars, messages>>
  BY <1>1, <1>4 DEF Ping, vars, Typed
<1>5. CASE Accept("noop", 0) /\ upc' = "shift"
  <2>1. /\ Accepts
        /\ pc' \in [Threads -> States] /\ pc'[user] = "idle"
    BY <1>5, Accepting
  <2> QED BY <1>1, <1>5, <2>1 DEF Ping
<1> QED BY <1>3, <1>4, <1>5 DEF Ping

LEMMA OtherUserMoves ==
  ASSUME Typed, Causes,
         Start \/ StartFails \/ SetOverflow \/ Account \/ Trailer \/ PassTime \/ Join \/ Wakes
  PROVE  UserMoves
<1> USE DEF UserMoves, rest, consumerVars, vars, shared
<1>0. /\ offered \in Nat /\ pc \in [Threads -> States]
      /\ upc \notin Sendable => pc[user] = "idle"
  BY DEF Typed
<1>1. CASE Start
  BY <1>0, <1>1 DEF Start, Sendable, Packets
<1>2. CASE StartFails
  BY <1>0, <1>2 DEF StartFails, Sendable, Packets
<1>3. CASE SetOverflow
  BY <1>0, <1>3 DEF SetOverflow, Sendable, Packets
<1>4. CASE Account
  BY <1>0, <1>4 DEF Account, Sendable, Packets
<1>5. CASE Trailer
  <2>1. /\ pc' \in [Threads -> States] /\ (pc'[user] # "idle" => pc[user] # "idle")
    BY <1>5, BroadcastStates DEF Trailer, SetErrRecv
  <2> QED BY <1>0, <1>5, <2>1 DEF Trailer, SetErrRecv, Sendable, Packets
<1>6. CASE PassTime
  BY <1>0, <1>6 DEF PassTime, Sendable, Packets
<1>7. CASE Join
  BY <1>0, <1>7 DEF Join, Sendable, Packets
<1>8. CASE Wakes
  <2>1. PICK t \in Threads : SpuriousWake(t) /\ UNCHANGED <<opt, userVars, shared, consumerVars>>
    BY <1>8 DEF Wakes
  <2>2. /\ pc' \in [Threads -> States] /\ (pc'[user] # "idle" => pc[user] # "idle")
    BY <2>1, Constants DEF SpuriousWake, Typed, States
  <2>3. pc'[user] # "idle" => upc' \in Sendable
    BY <2>1, <2>2 DEF Typed, userVars
  <2> QED BY <1>0, <2>1, <2>2, <2>3 DEF SpuriousWake, userVars, Causes
<1> QED BY <1>1, <1>2, <1>3, <1>4, <1>5, <1>6, <1>7, <1>8

\* What fifo_thread_dispatch_message() makes of a message.
OutcomeOK(o, d) ==
  /\ o.header \in BOOLEAN /\ o.drop \in BOOLEAN
  /\ o.ret \in {"ok"} \cup Errors
  /\ o.wrote \in BOOLEAN /\ o.received \in BOOLEAN
  /\ o.drop => d
  /\ o.wrote => o.ret = "ok" /\ ~(d /\ Type(msg) = "other")
                /\ Type(msg) \notin {"noop", "header", "flush"}
  /\ ~o.wrote /\ o.ret = "ok" =>
       /\ o.drop = d
       /\ Type(msg) \in Packets => d
  /\ ~o.received => o.drop = d
  /\ o.received => Type(msg) \notin {"noop", "header", "flush"}

LEMMA OutcomeFacts ==
  ASSUME NEW h \in BOOLEAN, NEW d \in BOOLEAN, NEW o \in Outcomes(h, d)
  PROVE  OutcomeOK(o, d)
<1> DEFINE First == Untouched(h, d)
           ready == Headers(First)
<1>1. /\ First = [ret |-> "ok", header |-> h, drop |-> d, received |-> FALSE, wrote |-> FALSE]
      /\ First \in [ret : {"ok"} \cup Errors, header : BOOLEAN, drop : BOOLEAN,
                    received : BOOLEAN, wrote : BOOLEAN]
  BY DEF Untouched
<1> HIDE DEF First
<1>2. ASSUME NEW r \in ready
      PROVE  /\ r \in [ret : {"ok"} \cup Errors, header : BOOLEAN, drop : BOOLEAN,
                       received : BOOLEAN, wrote : BOOLEAN]
             /\ r.drop = d /\ ~r.received /\ ~r.wrote
  <2>1. CASE r = First
    BY <1>1, <2>1
  <2>2. CASE r = [First EXCEPT !.header = TRUE]
    BY <1>1, <2>2
  <2>3. CASE \E e \in Errors, g \in BOOLEAN : r = HeaderFails(First, e, g)
    <3>1. PICK e \in Errors, g \in BOOLEAN : r = [First EXCEPT !.ret = e, !.header = g]
      BY <2>3 DEF HeaderFails
    <3> QED BY <1>1, <3>1
  <2>4. \/ r = First \/ r = [First EXCEPT !.header = TRUE]
        \/ \E e \in Errors, g \in BOOLEAN : r = HeaderFails(First, e, g)
    BY DEF Headers
  <2> QED BY <2>1, <2>2, <2>3, <2>4
<1> HIDE DEF ready
<1>3. CASE Type(msg) \in {"noop", "header"} \/ (o \in ready /\ o.ret # "ok")
  <2>1. o \in ready \/ o = First
    BY <1>3 DEF Outcomes, First, ready
  <2>2. Type(msg) \in {"noop", "header"} => Type(msg) \notin Packets
    BY DEF Packets
  <2> QED BY <1>1, <1>2, <1>3, <2>1, <2>2 DEF OutcomeOK
<1>4. CASE Type(msg) \notin {"noop", "header"} /\ ~(o \in ready /\ o.ret # "ok")
  <2>1. PICK r \in ready : r.ret = "ok"
                           /\ o \in IF Type(msg) = "flush" THEN Flushes(r) ELSE WritesPacket(r)
    BY <1>4 DEF Outcomes, First, ready
  <2>2. r \in [ret : {"ok"} \cup Errors, header : BOOLEAN, drop : BOOLEAN,
               received : BOOLEAN, wrote : BOOLEAN]
        /\ r.drop = d /\ ~r.received /\ ~r.wrote /\ r.ret = "ok"
    BY <1>2, <2>1
  <2>3. CASE Type(msg) = "flush"
    <3>1. o = r \/ \E e \in Errors : o = [r EXCEPT !.ret = e]
      BY <2>1, <2>3 DEF Flushes
    <3>2. \A e \in Errors : e # "ok"
      BY DEF Errors
    <3> QED BY <2>2, <2>3, <3>1, <3>2 DEF OutcomeOK, Packets
  <2>4. CASE Type(msg) # "flush" /\ d /\ Type(msg) = "other"
    BY <2>1, <2>2, <2>4 DEF OutcomeOK, WritesPacket
  <2>5. CASE Type(msg) # "flush" /\ ~(d /\ Type(msg) = "other")
    <3>1. \/ o = [r EXCEPT !.received = TRUE, !.drop = FALSE, !.wrote = TRUE]
          \/ \E e \in Errors : o = [r EXCEPT !.received = TRUE, !.drop = FALSE, !.ret = e]
      BY <2>1, <2>2, <2>5 DEF WritesPacket
    <3>2. \A e \in Errors : e # "ok"
      BY DEF Errors
    <3> QED BY <1>4, <2>2, <2>5, <3>1, <3>2 DEF OutcomeOK
  <2> QED BY <2>3, <2>4, <2>5
<1> QED BY <1>3, <1>4

LEMMA DispatchWorks ==
  ASSUME Typed, Causes, Dispatch
  PROVE  \E o \in Outcomes(header_written, drop_until_keyframe) : Works(o, drop_until_keyframe)
BY DEF Dispatch, DispatchMessage, Works, ConsumerFrame, others, userVars, vars, Typed

LEMMA RecoveryWorks ==
  ASSUME Typed, Causes, AttemptRecovery
  PROVE  LET d == drop_until_keyframe \/ (opt.keyframe /\ opt.drop)
         IN  \E o \in Outcomes(FALSE, d) : Works(o, d)
<1> DEFINE d == drop_until_keyframe \/ (opt.keyframe /\ opt.drop)
<1>1. PICK o \in Outcomes(FALSE, d) :
        LET fatal == \/ o.ret = "permanent"
                     \/ o.ret = "transient" /\ opt.attempts > 0 /\ NextAttempt >= opt.attempts
        IN /\ DispatchMessage(o)
           /\ recovery_nr' = IF o.ret = "ok" THEN 0 ELSE NextAttempt
           /\ failed' = fatal
           /\ cpc' = IF o.ret = "ok" THEN Recovered ELSE IF fatal THEN "fail" ELSE TryAgain
  BY DEF AttemptRecovery
<1>2. NextAttempt \in Nat \ {0}
  BY DEF NextAttempt, Typed
<1>3. cpc = "recover" /\ UNCHANGED <<vars, others, overflow_flag, overflowed, msg>>
  BY DEF AttemptRecovery
<1>4. ConsumerFrame
  BY <1>3 DEF ConsumerFrame, vars, others, userVars, Typed
<1> HIDE DEF d
<1>5. Works(o, d)
  <2>1. CASE o.ret = "ok"
    BY <1>1, <1>3, <1>4, <2>1 DEF Works, DispatchMessage, Recovered, vars, d
  <2>2. CASE o.ret # "ok"
    BY <1>1, <1>2, <1>3, <1>4, <2>2 DEF Works, DispatchMessage, vars, d
  <2> QED BY <2>1, <2>2
<1> QED BY <1>5 DEF d

LEMMA ReceiveKinds ==
  ASSUME Typed, Causes, Receive
  PROVE  Moves \/ Takes
<1> USE DEF others, shared, userVars
<1>0. consumer \in Threads /\ "idle" \in States /\ "wait" \in States
  BY Constants DEF States
<1>1. CASE RecvErr(consumer) /\ cpc' = "fail"
  <2>1. ConsumerFrame
    BY <1>0, <1>1, MoveStates DEF Receive, RecvErr, ConsumerFrame
  <2> QED BY <1>1, <2>1 DEF Receive, RecvErr, Moves, Typed, Ending
<1>2. CASE RecvBlock(consumer) /\ UNCHANGED <<cpc, msg, ret>>
  <2>1. ConsumerFrame
    BY <1>0, <1>2, MoveStates DEF Receive, RecvBlock, ConsumerFrame
  <2> QED BY <1>2, <2>1 DEF Receive, RecvBlock, Moves, Typed
<1>3. CASE RecvRead(consumer) /\ msg' = Head(fifo)
           /\ cpc' = IF recovery_nr = 0 THEN "top" ELSE "recover"
  <2>1. PICK p \in Signalled(Senders) : pc' = [p EXCEPT ![consumer] = "idle"]
    BY <1>3 DEF RecvRead
  <2>2. ConsumerFrame
    BY <1>3, <2>1, ReceiveStates DEF Receive, RecvRead, ConsumerFrame
  <2> QED BY <1>3, <2>2 DEF Receive, RecvRead, Takes
<1> QED BY <1>1, <1>2, <1>3 DEF Receive

LEMMA CheckCleans ==
  ASSUME Typed, Causes, CheckOverflow
  PROVE  Cleans
<1> USE DEF others, userVars
<1>1. CASE overflow_flag
  <2>1. ConsumerFrame
    BY <1>1, BroadcastStates DEF CheckOverflow, Flush, ConsumerFrame
  <2> QED BY <1>1, <2>1 DEF CheckOverflow, Flush, Cleans, Typed
<1>2. CASE ~overflow_flag
  <2>1. ConsumerFrame
    BY <1>2 DEF CheckOverflow, vars, ConsumerFrame, Typed
  <2> QED BY <1>2, <2>1 DEF CheckOverflow, vars, Cleans
<1> QED BY <1>1, <1>2

LEMMA OtherMoves ==
  ASSUME Typed, Causes, GiveUp \/ TooEarly \/ Delay \/ SetError \/ WriteTrailer
  PROVE  Moves
<1> USE DEF others, userVars, shared, vars, ConsumerFrame, Ending
<1>0. header_written \in BOOLEAN /\ pc \in [Threads -> States] /\ recovery_nr \in Nat
  BY DEF Typed
<1>1. CASE GiveUp
  BY <1>0, <1>1 DEF GiveUp, Moves
<1>2. CASE TooEarly
  BY <1>0, <1>2 DEF TooEarly, Moves
<1>3. CASE Delay
  BY <1>0, <1>3 DEF Delay, Moves
<1>4. CASE SetError
  <2>1. pc' \in [Threads -> States] /\ (pc'[user] # "idle" => pc[user] # "idle")
    BY <1>4, BroadcastStates DEF SetError, SetErrSend
  <2> QED BY <1>0, <1>4, <2>1 DEF SetError, SetErrSend, Moves
<1>5. CASE WriteTrailer
  BY <1>0, <1>5 DEF WriteTrailer, Moves
<1> QED BY <1>1, <1>2, <1>3, <1>4, <1>5

Worked == \E d, o : d \in BOOLEAN /\ OutcomeOK(o, d) /\ Works(o, d)

LEMMA ConsumerKinds ==
  ASSUME Typed, Causes, Consumer
  PROVE  Worked \/ Moves \/ Takes \/ Cleans
<1>1. CASE Dispatch
  BY <1>1, DispatchWorks, OutcomeFacts DEF Worked, Typed
<1>2. CASE AttemptRecovery
  <2>1. (drop_until_keyframe \/ (opt.keyframe /\ opt.drop)) \in BOOLEAN
    OBVIOUS
  <2> QED BY <1>2, <2>1, RecoveryWorks, OutcomeFacts DEF Worked
<1> QED BY <1>1, <1>2, ReceiveKinds, CheckCleans, OtherMoves DEF Consumer

LEMMA Kinds ==
  ASSUME Typed, Causes, FifoNext
  PROVE  UserMoves \/ Worked \/ Moves \/ Takes \/ Cleans
<1>1. CASE Calls \/ Inside \/ Wakes
  BY <1>1, WriteIsUserMove, ResumeIsUserMove, PingIsUserMove, OtherUserMoves
  DEF Calls, Inside, Sendable
<1> QED BY <1>1, ConsumerKinds DEF FifoNext
-----------------------------------------------------------------------------
(* The parts of the invariant that the others rest on.                      *)

LEMMA TypedInit == FifoInit => Typed
<1> SUFFICES ASSUME FifoInit PROVE Typed
  OBVIOUS
<1>1. pc = [t \in Threads |-> "idle"] /\ sent = 0
  BY DEF FifoInit, Init
<1>2. pc \in [Threads -> States] /\ pc[user] = "idle"
  BY <1>1, Constants DEF States
<1>3. messages \in Seq(Message) /\ Len(messages) = sent
  BY <1>1 DEF FifoInit
<1> QED BY <1>2, <1>3 DEF FifoInit, Typed, InWork

LEMMA AcceptedMessages ==
  ASSUME Typed, Queue, Accepts
  PROVE  /\ messages' \in Seq(Message) /\ Len(messages') = sent'
         /\ \A n \in 1 .. sent : messages'[n] = messages[n]
<1>1. PICK m \in Message : messages' = Append(messages, m)
  BY DEF Accepts
<1>2. /\ messages' \in Seq(Message) /\ Len(messages') = Len(messages) + 1
      /\ \A n \in 1 .. Len(messages) : messages'[n] = messages[n]
  BY <1>1, AppendProperties DEF Typed
<1> QED BY <1>2 DEF Accepts, Typed, Queue

LEMMA TypedStep ==
  ASSUME Typed, Queue, Causes, [FifoNext]_fifoVars
  PROVE  Typed'
<1> USE DEF Typed, InWork, Ending
<1>1. CASE UserMoves
  <2>1. messages' \in Seq(Message) /\ Len(messages') = sent'
    BY <1>1, AcceptedMessages DEF UserMoves
  <2>2. overflow_flag' \in BOOLEAN /\ overflowed' \in BOOLEAN
    BY <1>1 DEF UserMoves
  <2>3. /\ cpc' \in {"none", "top", "recover", "fail", "trailer", "exited", "check",
                     "delay", "receive"}
        /\ upc' = "new" => cpc' = "none"
        /\ cpc' = "none" => written' = <<>> /\ recovery_nr' = 0
    BY <1>1 DEF UserMoves
  <2> QED BY <1>1, <2>1, <2>2, <2>3 DEF UserMoves
<1>2. CASE Worked
  <2>1. PICK d, o : d \in BOOLEAN /\ OutcomeOK(o, d) /\ Works(o, d)
    BY <1>2 DEF Worked
  <2>2. o.drop \in BOOLEAN /\ o.header \in BOOLEAN
    BY <2>1 DEF OutcomeOK
  <2>3. failures' \in Nat
    BY <2>1 DEF Works
  <2>4. recovery_nr' \in Nat /\ failed' \in BOOLEAN
        /\ cpc' \in {"check", "recover", "fail"} /\ upc # "new"
    <3>1. CASE cpc = "top"
      BY <2>1, <3>1 DEF Works
    <3>2. CASE cpc = "recover"
      <4>1. recovery_nr' \in Nat /\ cpc' \in {"check", "fail", TryAgain}
        BY <2>1, <3>2 DEF Works
      <4>2. failed' \in BOOLEAN
        BY <2>1, <3>2 DEF Works
      <4>3. TryAgain \in {"check", "recover"}
        BY DEF TryAgain
      <4>4. upc # "new"
        BY <3>2
      <4> QED BY <4>1, <4>2, <4>3, <4>4
    <3> QED BY <2>1, <3>1, <3>2 DEF Works
  <2> QED BY <2>1, <2>2, <2>3, <2>4 DEF Works, ConsumerFrame
<1>3. CASE Moves
  <2>1. failed' \in BOOLEAN /\ cpc' \in {"check", "recover", "fail", "trailer", "exited", "receive"}
        /\ upc # "new"
    BY <1>3 DEF Moves, TryAgain
  <2> QED BY <1>3, <2>1 DEF Moves, ConsumerFrame
<1>4. CASE Takes
  BY <1>4 DEF Takes, ConsumerFrame
<1>5. CASE Cleans
  BY <1>5 DEF Cleans, ConsumerFrame
<1>6. CASE UNCHANGED fifoVars
  BY <1>6 DEF fifoVars, vars, userVars, consumerVars
<1> QED BY <1>1, <1>2, <1>3, <1>4, <1>5, <1>6, Kinds

LEMMA QueueInit == FifoInit => Queue
<1> SUFFICES ASSUME FifoInit PROVE Queue
  OBVIOUS
<1>1. fifo \in Seq(Nat) /\ Len(fifo) = 0 /\ sent = 0 /\ msg = 0
  BY DEF FifoInit, Init
<1> QED BY <1>1 DEF Queue

LEMMA QueueStep ==
  ASSUME Typed, Queue, Causes, [FifoNext]_fifoVars
  PROVE  Queue'
<1> USE DEF Queue, InWork
<1>0. Len(fifo) \in Nat
  OBVIOUS
<1>1. CASE UserMoves
  <2>1. msg' = msg /\ (cpc' \in {"none", "top", "recover", "check"}
                        => cpc \in {"none", "top", "recover", "check"})
    BY <1>1 DEF UserMoves, Typed, Ending
  <2>2. CASE UNCHANGED <<fifo, sent, messages>>
    BY <2>1, <2>2
  <2>3. CASE Accepts
    <3>1. /\ fifo' \in Seq(Nat) /\ Len(fifo') = Len(fifo) + 1
          /\ \A i \in 1 .. Len(fifo) : fifo'[i] = fifo[i]
          /\ fifo'[Len(fifo) + 1] = sent + 1 /\ sent' = sent + 1
      BY <2>3, AppendProperties DEF Accepts
    <3>2. ASSUME NEW i \in 1 .. Len(fifo') PROVE fifo'[i] = sent' - Len(fifo') + i
      <4>1. CASE i = Len(fifo) + 1
        BY <1>0, <3>1, <4>1
      <4>2. CASE i \in 1 .. Len(fifo)
        BY <1>0, <3>1, <4>2
      <4> QED BY <1>0, <3>1, <4>1, <4>2
    <3>3. sent' \in Nat /\ msg' \in Nat /\ msg' + Len(fifo') <= sent'
      BY <1>0, <2>1, <3>1
    <3>4. ASSUME cpc' \in InWork \cup {"check"} PROVE msg' + Len(fifo') = sent'
      <4>1. msg + Len(fifo) = sent
        BY <2>1, <3>4
      <4> QED BY <1>0, <2>1, <3>1, <4>1
    <3> QED BY ONLY <3>1, <3>2, <3>3, <3>4 DEF Queue
  <2> QED BY <1>1, <2>2, <2>3 DEF UserMoves
<1>2. CASE Worked
  <2>1. cpc \in {"top", "recover"} /\ UNCHANGED <<fifo, sent, msg>>
    BY <1>2 DEF Worked, Works, ConsumerFrame
  <2> QED BY <2>1
<1>3. CASE Moves
  <2>1. UNCHANGED <<fifo, sent, msg>>
        /\ (cpc' \in {"none", "top", "recover", "check"} => cpc = "recover")
    BY <1>3 DEF Moves, ConsumerFrame, Ending
  <2> QED BY <2>1
<1>4. CASE Takes
  <2>1. /\ fifo' \in Seq(Nat) /\ Len(fifo') = Len(fifo) - 1
        /\ \A i \in 1 .. Len(fifo') : fifo'[i] = fifo[i + 1]
        /\ msg' = fifo[1] /\ Len(fifo) > 0
    BY <1>4, HeadTailProperties DEF Takes
  <2>2. msg' = sent - Len(fifo) + 1 /\ sent' = sent
    BY <1>0, <1>4, <2>1 DEF Takes, ConsumerFrame
  <2>3. \A i \in 1 .. Len(fifo') : fifo'[i] = sent' - Len(fifo') + i
    BY <1>0, <2>1, <2>2
  <2> QED BY <1>0, <2>1, <2>2, <2>3
<1>5. CASE Cleans
  <2>1. msg' = msg /\ sent' = sent /\ cpc' \notin {"none", "top", "recover", "check"}
    BY <1>5 DEF Cleans, ConsumerFrame
  <2>2. CASE overflow_flag
    <3>1. fifo' = <<>>
      BY <1>5, <2>2 DEF Cleans
    <3>2. fifo' \in Seq(Nat) /\ Len(fifo') = 0
      BY <3>1
    <3> QED BY <1>0, <2>1, <3>2
  <2>3. CASE ~overflow_flag
    BY <1>5, <2>1, <2>3 DEF Cleans
  <2> QED BY <2>2, <2>3
<1>6. CASE UNCHANGED fifoVars
  BY <1>6 DEF fifoVars, vars, consumerVars
<1> QED BY <1>1, <1>2, <1>3, <1>4, <1>5, <1>6, Kinds

LEMMA CausesInit == FifoInit => Causes
BY DEF FifoInit, Causes

LEMMA CausesStep ==
  ASSUME Typed, Causes, [FifoNext]_fifoVars
  PROVE  Causes'
<1> USE DEF Causes, Ending
<1>1. CASE UserMoves
  BY <1>1 DEF UserMoves, Typed
<1>2. CASE Worked
  <2>1. PICK d, o : d \in BOOLEAN /\ OutcomeOK(o, d) /\ Works(o, d)
    BY <1>2 DEF Worked
  <2>2. (o.drop => d) /\ failures \in Nat
    BY <2>1 DEF OutcomeOK, Typed
  <2>3. /\ failures' >= failures
        /\ cpc = "recover" \/ o.ret # "ok" => failures' > 0
        /\ UNCHANGED <<opt, upc, overflowed, overflow_flag>>
    BY <2>1, <2>2 DEF Works, ConsumerFrame
  <2>4. drop_until_keyframe' => opt.drop /\ (overflowed \/ failures' > 0)
    <3>1. CASE cpc = "top"
      BY <2>1, <2>2, <2>3, <3>1 DEF Works
    <3>2. CASE cpc = "recover"
      BY <2>1, <2>2, <2>3, <3>2 DEF Works
    <3> QED BY <2>1, <3>1, <3>2 DEF Works
  <2>5. /\ cpc' = "recover" \/ recovery_nr' > 0 => failures' > 0
        /\ cpc' # "top" /\ (failed' => cpc' \in Ending)
    BY <2>1, <2>3 DEF Works, TryAgain
  <2> QED BY <2>3, <2>4, <2>5
<1>3. CASE Moves
  BY <1>3 DEF Moves, ConsumerFrame, TryAgain, Typed
<1>4. CASE Takes
  BY <1>4 DEF Takes, ConsumerFrame, Typed
<1>5. CASE Cleans
  BY <1>5 DEF Cleans, ConsumerFrame
<1>6. CASE UNCHANGED fifoVars
  BY <1>6 DEF fifoVars, userVars, consumerVars
<1> QED BY <1>1, <1>2, <1>3, <1>4, <1>5, <1>6, Kinds
-----------------------------------------------------------------------------
(* Packets are written in order.                                            *)

LEMMA HistoryInit == FifoInit => History
<1> SUFFICES ASSUME FifoInit PROVE History
  OBVIOUS
<1>1. written \in Seq(Nat) /\ DOMAIN written = {}
  BY DEF FifoInit
<1> QED BY <1>1 DEF History, WrittenInOrder

\* What a dispatched message adds to what is written.
LEMMA WrittenAppend ==
  ASSUME Queue, History, written' = Append(written, msg)
  PROVE  /\ written' \in Seq(Nat) /\ Len(written') = Len(written) + 1 /\ Len(written) \in Nat
         /\ \A i \in 1 .. Len(written) : written'[i] = written[i]
         /\ written'[Len(written) + 1] = msg
         /\ DOMAIN written = 1 .. Len(written) /\ DOMAIN written' = 1 .. Len(written) + 1
BY AppendProperties DEF Queue, History

LEMMA HistoryStep ==
  ASSUME Typed, Queue, History, Causes, [FifoNext]_fifoVars
  PROVE  History'
<1> USE DEF History, InWork
<1>0. written \in Seq(Nat) /\ msg \in Nat /\ DOMAIN written \subseteq Nat
      /\ \A i \in DOMAIN written : written[i] \in Nat
  BY DEF Queue
<1>1. CASE /\ UNCHANGED <<written, msg>>
           /\ cpc' \in InWork => cpc \in InWork
  BY <1>1 DEF WrittenInOrder
<1>2. CASE UserMoves
  BY <1>1, <1>2 DEF UserMoves, Typed, Ending
<1>3. CASE Worked
  <2>1. PICK d, o : d \in BOOLEAN /\ OutcomeOK(o, d) /\ Works(o, d)
    BY <1>3 DEF Worked
  <2>2. msg' = msg /\ cpc \in {"top", "recover"}
    BY <2>1 DEF Works
  <2>3. CASE o.wrote
    <3>1. written' = Append(written, msg) /\ o.ret = "ok"
      BY <2>1, <2>3 DEF Works, OutcomeOK
    <3>2. cpc' = "check"
      BY <2>1, <3>1 DEF Works
    <3>3. \A i \in 1 .. Len(written) : written[i] < msg
      BY <1>0, <2>2
    <3>4. \A i \in DOMAIN written' : written'[i] <= msg
      BY <1>0, <3>1, <3>3, WrittenAppend
    <3>5. ASSUME NEW i \in DOMAIN written', NEW j \in DOMAIN written', i < j
          PROVE  written'[i] < written'[j]
      <4>1. i \in 1 .. Len(written) /\ Len(written) \in Nat
            /\ (j \in 1 .. Len(written) \/ j = Len(written) + 1)
        BY <3>1, <3>5, WrittenAppend
      <4>2. CASE j \in 1 .. Len(written)
        BY <3>1, <3>5, <4>1, <4>2, WrittenAppend DEF WrittenInOrder
      <4>3. CASE j = Len(written) + 1
        BY <3>1, <3>3, <4>1, <4>3, WrittenAppend
      <4> QED BY <4>1, <4>2, <4>3
    <3>6. WrittenInOrder'
      BY <3>5 DEF WrittenInOrder
    <3>7. written' \in Seq(Nat)
      BY <3>1, WrittenAppend
    <3> QED BY <2>2, <3>2, <3>4, <3>6, <3>7
  <2>4. CASE ~o.wrote
    BY <1>1, <2>1, <2>2, <2>4 DEF Works
  <2> QED BY <2>3, <2>4
<1>4. CASE Moves
  BY <1>1, <1>4 DEF Moves, Ending
<1>5. CASE Takes
  <2>1. written' = written /\ msg' > msg
    <3>1. Len(fifo) \in Nat /\ Len(fifo) > 0 /\ msg' = fifo[1]
      BY <1>5 DEF Takes, Queue
    <3>2. fifo[1] = sent - Len(fifo) + 1 /\ msg + Len(fifo) <= sent /\ sent \in Nat
      BY <3>1 DEF Queue
    <3> QED BY <1>0, <1>5, <3>1, <3>2 DEF Takes
  <2>2. msg' \in Nat
    BY <1>5 DEF Takes, Queue
  <2>3. \A i \in DOMAIN written : written[i] < msg'
    BY <1>0, <2>1, <2>2
  <2> QED BY <1>0, <2>1, <2>2, <2>3 DEF WrittenInOrder
<1>6. CASE Cleans
  BY <1>1, <1>6 DEF Cleans
<1>7. CASE UNCHANGED fifoVars
  BY <1>1, <1>7 DEF fifoVars, consumerVars
<1> QED BY <1>2, <1>3, <1>4, <1>5, <1>6, <1>7, Kinds

Base == Typed /\ Queue /\ Causes /\ History

LEMMA BaseInvariant == FifoSpec => []Base
<1>1. FifoInit => Base
  BY TypedInit, QueueInit, CausesInit, HistoryInit DEF Base
<1>2. Base /\ [FifoNext]_fifoVars => Base'
  BY TypedStep, QueueStep, CausesStep, HistoryStep DEF Base
<1> QED BY <1>1, <1>2, PTL DEF FifoSpec

\* Packets are written in the order in which the user has sent them and none is
\* written twice, whatever fails and however it is recovered from.
THEOREM InOrder == FifoSpec => []WrittenInOrder
<1>1. Base => WrittenInOrder
  BY DEF Base, History
<1> QED BY <1>1, BaseInvariant, PTL
-----------------------------------------------------------------------------
(* No packet is lost.                                                       *)

\* The numbers in hand are an interval up to the last one sent.
LEMMA InHandIs ==
  ASSUME NEW n \in Nat
  PROVE  /\ Queue => (InHand(n) <=> \/ sent - Len(fifo) < n /\ n <= sent
                                    \/ cpc \in {"top", "recover"} /\ msg = n)
         /\ Queue' => (InHand(n)' <=> \/ sent' - Len(fifo') < n /\ n <= sent'
                                      \/ cpc' \in {"top", "recover"} /\ msg' = n)
<1>1. ASSUME Queue
      PROVE  InHand(n) <=> \/ sent - Len(fifo) < n /\ n <= sent
                           \/ cpc \in {"top", "recover"} /\ msg = n
  <2>1. Len(fifo) \in Nat /\ sent \in Nat /\ DOMAIN fifo = 1 .. Len(fifo)
    BY <1>1 DEF Queue
  <2>2. ASSUME sent - Len(fifo) < n, n <= sent
        PROVE  \E i \in DOMAIN fifo : fifo[i] = n
    <3>1. PICK k \in 1 .. Len(fifo) : n = sent - Len(fifo) + k
      <4>1. n - (sent - Len(fifo)) \in 1 .. Len(fifo)
        BY <2>1, <2>2
      <4> QED BY <2>1, <4>1
    <3>2. fifo[k] = n
      BY <1>1, <3>1 DEF Queue
    <3> QED BY <2>1, <3>2
  <2>3. ASSUME NEW i \in DOMAIN fifo, fifo[i] = n
        PROVE  sent - Len(fifo) < n /\ n <= sent
    BY <1>1, <2>1, <2>3 DEF Queue
  <2> QED BY <2>2, <2>3 DEF InHand
<1>2. ASSUME Queue'
      PROVE  InHand(n)' <=> \/ sent' - Len(fifo') < n /\ n <= sent'
                            \/ cpc' \in {"top", "recover"} /\ msg' = n
  <2>1. Len(fifo') \in Nat /\ sent' \in Nat /\ DOMAIN fifo' = 1 .. Len(fifo')
    BY <1>2 DEF Queue
  <2>2. ASSUME sent' - Len(fifo') < n, n <= sent'
        PROVE  \E i \in DOMAIN fifo' : fifo'[i] = n
    <3>1. PICK k \in 1 .. Len(fifo') : n = sent' - Len(fifo') + k
      <4>1. n - (sent' - Len(fifo')) \in 1 .. Len(fifo')
        BY <2>1, <2>2
      <4> QED BY <2>1, <4>1
    <3>2. fifo'[k] = n
      BY <1>2, <3>1 DEF Queue
    <3> QED BY <2>1, <3>2
  <2>3. ASSUME NEW i \in DOMAIN fifo', fifo'[i] = n
        PROVE  sent' - Len(fifo') < n /\ n <= sent'
    BY <1>2, <2>1, <2>3 DEF Queue
  <2> QED BY <2>2, <2>3 DEF InHand
<1> QED BY <1>1, <1>2

\* What is in hand after a step.
LEMMA UserInHand ==
  ASSUME Typed, Queue, Queue', UserMoves, NEW n \in 1 .. sent'
  PROVE  /\ n \in 1 .. sent /\ ~InHand(n)' => ~InHand(n)
         /\ n \notin 1 .. sent => InHand(n)'
<1>0. Len(fifo) \in Nat /\ sent \in Nat /\ sent' \in Nat
  BY DEF Queue
<1>1. cpc \in {"top", "recover"} => cpc' \in {"top", "recover"} /\ msg' = msg
  BY DEF UserMoves, Typed
<1>2. CASE UNCHANGED <<fifo, sent, messages>>
  BY <1>0, <1>1, <1>2, InHandIs
<1>3. CASE Accepts
  <2>1. sent' = sent + 1 /\ Len(fifo') = Len(fifo) + 1
    BY <1>3, AppendProperties DEF Accepts, Queue
  <2> QED BY <1>0, <1>1, <2>1, InHandIs
<1> QED BY <1>2, <1>3 DEF UserMoves

LEMMA TakesInHand ==
  ASSUME Queue, Queue', Takes, NEW n \in 1 .. sent, ~InHand(n)'
  PROVE  ~InHand(n)
<1>0. Len(fifo) \in Nat /\ sent \in Nat
  BY DEF Queue
<1>1. /\ sent' = sent /\ Len(fifo') = Len(fifo) - 1 /\ msg' = fifo[1] /\ Len(fifo) > 0
      /\ cpc' \in {"top", "recover"} /\ cpc \notin {"top", "recover"}
  BY HeadTailProperties DEF Takes, Queue, ConsumerFrame
<1>2. msg' = sent - Len(fifo) + 1
  BY <1>0, <1>1 DEF Queue
<1>3. n \in Nat /\ ~(sent' - Len(fifo') < n) /\ n # msg'
  BY <1>0, <1>1, InHandIs
<1>4. ~(sent - Len(fifo) < n)
  BY <1>0, <1>1, <1>2, <1>3
<1> QED BY <1>1, <1>3, <1>4, InHandIs

LEMMA SameInHand ==
  ASSUME Queue, Queue', UNCHANGED <<fifo, sent, msg>>, NEW n \in 1 .. sent,
         cpc \in {"top", "recover"} => cpc' \in {"top", "recover"} \/ n # msg,
         ~InHand(n)'
  PROVE  ~InHand(n)
<1>1. n \in Nat /\ n <= sent /\ sent' = sent /\ Len(fifo') = Len(fifo) /\ msg' = msg
  BY DEF Queue
<1>2. ~(sent - Len(fifo) < n) /\ ~(cpc' \in {"top", "recover"} /\ msg = n)
  BY <1>1, InHandIs
<1>3. ~(cpc \in {"top", "recover"} /\ msg = n)
  BY <1>2
<1>4. InHand(n) <=> \/ sent - Len(fifo) < n /\ n <= sent
                    \/ cpc \in {"top", "recover"} /\ msg = n
  BY <1>1, InHandIs
<1> QED BY <1>2, <1>3, <1>4

LEMMA SamePackets ==
  ASSUME Typed, Queue, UserMoves \/ ConsumerFrame, NEW n \in 1 .. sent
  PROVE  IsPacket(n)' <=> IsPacket(n)
<1>1. messages'[n] = messages[n]
  BY AcceptedMessages DEF UserMoves, ConsumerFrame
<1> QED BY <1>1 DEF IsPacket

\* As long as no packet may be lost.
Careful == ~failed /\ (opt.drop => ~overflowed /\ failures = 0)

Written(n) == \E i \in DOMAIN written : written[i] = n

LEMMA WrittenStays ==
  ASSUME History, Queue, NEW n, Written(n), UNCHANGED written \/ written' = Append(written, msg)
  PROVE  Written(n)'
BY WrittenAppend DEF Written

LEMMA NothingLostStep ==
  ASSUME Base, Base', NothingLost, [FifoNext]_fifoVars
  PROVE  NothingLost'
<1> SUFFICES ASSUME Careful', NEW n \in 1 .. sent', IsPacket(n)', ~InHand(n)'
             PROVE  Written(n)'
  BY DEF NothingLost, Careful, Written
<1> USE DEF Base
<1>0. sent \in Nat /\ sent' \in Nat /\ failures \in Nat
  BY DEF Queue, Typed
<1>1. ASSUME Careful, n \in 1 .. sent, IsPacket(n), ~InHand(n),
             UNCHANGED written \/ written' = Append(written, msg)
      PROVE  Written(n)'
  <2>1. Written(n)
    BY <1>1 DEF NothingLost, Careful, Written
  <2> QED BY <1>1, <2>1, WrittenStays
<1>2. CASE UserMoves
  <2>1. Careful
    BY <1>2 DEF Careful, UserMoves
  <2>2. n \in 1 .. sent /\ ~InHand(n) /\ IsPacket(n)
    BY <1>2, UserInHand, SamePackets
  <2> QED BY <1>1, <1>2, <2>1, <2>2 DEF UserMoves
<1>3. CASE Worked
  <2>1. PICK d, o : d \in BOOLEAN /\ OutcomeOK(o, d) /\ Works(o, d)
    BY <1>3 DEF Worked
  <2>2. /\ UNCHANGED <<fifo, sent, msg, opt, overflowed>> /\ ConsumerFrame
        /\ cpc \in {"top", "recover"}
        /\ failures' >= failures /\ (o.ret # "ok" => failures' > 0)
    BY <1>0, <2>1 DEF Works, ConsumerFrame
  <2>3. Careful
    <3>1. ~failed
      BY <2>2 DEF Causes, Ending
    <3> QED BY <1>0, <2>2, <3>1 DEF Careful, Typed
  <2>4. n \in 1 .. sent /\ IsPacket(n)
    BY <2>2, SamePackets
  <2>5. CASE n # msg
    <3>1. ~InHand(n)
      BY <2>2, <2>4, <2>5, SameInHand
    <3> QED BY <1>1, <2>1, <2>3, <2>4, <3>1 DEF Works
  <2>6. CASE n = msg
    <3>1. o.ret = "ok"
      <4>1. SUFFICES ASSUME o.ret # "ok" PROVE FALSE
        OBVIOUS
      <4>2. ~opt.drop
        BY <2>2, <4>1 DEF Careful
      <4>3. cpc' = "recover"
        BY <2>1, <4>1, <4>2 DEF Works, TryAgain, Careful
      <4>4. InHand(n)'
        BY <2>2, <2>6, <4>3 DEF InHand
      <4> QED BY <4>4
    <3>2. ~d
      <4>1. ~drop_until_keyframe
        BY <2>3 DEF Causes, Careful
      <4>2. cpc = "recover" => ~opt.drop
        BY <1>0, <2>3 DEF Causes, Careful
      <4> QED BY <2>1, <4>1, <4>2 DEF Works
    <3>3. Type(msg) \in Packets
      BY <2>4, <2>6 DEF IsPacket, Type
    <3>4. o.wrote
      BY <2>1, <3>1, <3>2, <3>3 DEF OutcomeOK
    <3>5. written' = Append(written, msg)
      BY <2>1, <3>4 DEF Works
    <3> QED BY <2>6, <3>5, WrittenAppend DEF Written
  <2> QED BY <2>5, <2>6
<1>4. CASE Moves
  <2>1. /\ UNCHANGED <<fifo, sent, msg, opt, overflowed, written, failures>> /\ ConsumerFrame
        /\ ~failed' /\ failed' = failed
    BY <1>4 DEF Moves, ConsumerFrame, Careful
  <2>2. Careful
    BY <2>1 DEF Careful
  <2>3. cpc = "recover" => cpc' = "recover"
    BY <1>0, <1>4, <2>1, <2>2 DEF Moves, TryAgain, Careful, Causes, Ending
  <2>4. cpc # "top"
    BY <1>4 DEF Moves, Ending
  <2>5. n \in 1 .. sent /\ ~InHand(n) /\ IsPacket(n)
    BY <2>1, <2>3, <2>4, SameInHand, SamePackets
  <2> QED BY <1>1, <2>1, <2>2, <2>5
<1>5. CASE Takes
  <2>1. ConsumerFrame /\ UNCHANGED <<written, sent>> /\ Careful
    BY <1>5 DEF Takes, ConsumerFrame, Careful
  <2>2. n \in 1 .. sent /\ ~InHand(n) /\ IsPacket(n)
    BY <1>5, <2>1, TakesInHand, SamePackets
  <2> QED BY <1>1, <2>1, <2>2
<1>6. CASE Cleans
  <2>1. ConsumerFrame /\ UNCHANGED <<written, sent, msg>> /\ Careful /\ cpc = "check"
    BY <1>6 DEF Cleans, ConsumerFrame, Careful
  <2>2. ~overflow_flag
    BY <2>1 DEF Careful, Causes
  <2>3. fifo' = fifo
    BY <1>6, <2>2 DEF Cleans
  <2>4. n \in 1 .. sent /\ ~InHand(n) /\ IsPacket(n)
    BY <2>1, <2>3, SameInHand, SamePackets
  <2> QED BY <1>1, <2>1, <2>4
<1>7. CASE UNCHANGED fifoVars
  <2>1. /\ UNCHANGED <<fifo, sent, msg, cpc, written, messages>> /\ Careful
    BY <1>7 DEF fifoVars, vars, userVars, consumerVars, Careful
  <2>2. n \in 1 .. sent /\ ~InHand(n) /\ IsPacket(n)
    BY <2>1 DEF InHand, IsPacket
  <2> QED BY <1>1, <2>1, <2>2
<1> QED BY <1>2, <1>3, <1>4, <1>5, <1>6, <1>7, Kinds

\* Without dropping no accepted packet is lost as long as the failures of the
\* output can be recovered from, and with it none before something was dropped.
THEOREM NoneLost == FifoSpec => []NothingLost
<1>1. FifoInit => NothingLost
  BY DEF FifoInit, Init, NothingLost
<1>2. Base /\ NothingLost /\ [FifoNext]_fifoVars /\ Base' => NothingLost'
  BY NothingLostStep
<1> QED BY <1>1, <1>2, BaseInvariant, PTL DEF FifoSpec
-----------------------------------------------------------------------------
(* After a gap the output goes on with a keyframe.                          *)

LEMMA LastWrittenIs ==
  ASSUME Base
  PROVE  /\ LastWritten \in Nat /\ LastWritten <= msg /\ msg <= sent
         /\ \A i \in DOMAIN written : written[i] \in Nat /\ written[i] <= msg
BY DEF Base, Queue, History, LastWritten

LEMMA LastWrittenAppend ==
  ASSUME Queue, History, written' = Append(written, msg)
  PROVE  LastWritten' = msg
<1>1. written' # <<>>
  BY WrittenAppend
<1> QED BY <1>1, WrittenAppend DEF LastWritten

\* A gap that there is before a message is dispatched makes it wait for a keyframe.
LEMMA GapDrops ==
  ASSUME Base, GapsKnown, opt.keyframe, NEW d \in BOOLEAN, NEW o, Works(o, d),
         NEW n \in LastWritten + 1 .. sent, IsPacket(n), ~InHand(n)
  PROVE  d /\ opt.drop
<1>1. Gap
  BY DEF Gap
<1>2. \/ drop_until_keyframe
      \/ opt.drop /\ (recovery_nr > 0 \/ cpc = "recover")
  BY <1>1 DEF GapsKnown, Works, Ending
<1>3. CASE cpc = "top"
  BY <1>2, <1>3 DEF Base, Causes, Works
<1>4. CASE cpc = "recover"
  <2>1. opt.drop
    BY <1>2 DEF Base, Causes
  <2> QED BY <1>4, <2>1 DEF Works
<1> QED BY <1>3, <1>4 DEF Works

LEMMA WorkedGap ==
  ASSUME Base, Base', GapsKnown, opt.keyframe,
         NEW d \in BOOLEAN, NEW o, OutcomeOK(o, d), Works(o, d),
         NEW n \in LastWritten' + 1 .. sent', IsPacket(n)', ~InHand(n)'
  PROVE  \/ drop_until_keyframe'
         \/ opt.drop /\ (recovery_nr' > 0 \/ cpc' = "recover")
         \/ cpc' = "fail"
<1> USE DEF Base
<1>1. /\ UNCHANGED <<fifo, sent, msg, opt>> /\ ConsumerFrame /\ cpc \in {"top", "recover"}
  BY DEF Works, ConsumerFrame
<1>2. Len(fifo) \in Nat /\ sent \in Nat /\ msg + Len(fifo) = sent /\ msg \in Nat
  BY <1>1 DEF Queue, InWork
<1>3. ~o.wrote
  <2>1. SUFFICES ASSUME o.wrote PROVE FALSE
    OBVIOUS
  <2>2. written' = Append(written, msg)
    BY <2>1 DEF Works
  <2>3. LastWritten' = msg
    BY <2>2, LastWrittenAppend
  <2>4. n \in Nat /\ msg < n /\ n <= sent
    BY <1>1, <1>2, <2>3
  <2>5. sent' - Len(fifo') < n /\ n <= sent'
    BY <1>1, <1>2, <2>4
  <2> QED BY <2>4, <2>5, InHandIs
<1>4. written' = written /\ LastWritten' = LastWritten
  BY <1>3 DEF Works, LastWritten
<1>5. LastWritten \in Nat
  BY LastWrittenIs
<1>6. n \in LastWritten + 1 .. sent /\ n \in 1 .. sent
  BY <1>1, <1>2, <1>4, <1>5
<1>7. IsPacket(n)
  BY <1>1, <1>6, SamePackets
<1>8. d /\ o.ret = "ok" => drop_until_keyframe'
  BY <1>3 DEF OutcomeOK, Works
<1>9. CASE n # msg
  <2>1. ~InHand(n)
    BY <1>1, <1>6, <1>9, SameInHand
  <2>2. d /\ opt.drop
    BY <1>6, <1>7, <2>1, GapDrops
  <2>3. o.ret # "ok" => cpc' = "recover" \/ recovery_nr' > 0
    BY DEF Works
  <2> QED BY <1>8, <2>2, <2>3
<1>10. CASE n = msg
  <2>1. CASE o.ret = "ok"
    <3>1. Type(msg) \in Packets
      BY <1>6, <1>7, <1>10 DEF IsPacket, Type
    <3> QED BY <1>3, <1>8, <2>1, <3>1 DEF OutcomeOK
  <2>2. CASE o.ret # "ok"
    <3>1. cpc' # "recover"
      BY <1>1, <1>10 DEF InHand
    <3>2. cpc = "recover"
      BY <1>1, <2>2, <3>1 DEF Works
    <3>3. cpc' = "fail" \/ (cpc' = TryAgain /\ recovery_nr' > 0)
      BY <2>2, <3>2 DEF Works
    <3> QED BY <3>1, <3>3 DEF TryAgain
  <2> QED BY <2>1, <2>2
<1> QED BY <1>9, <1>10

LEMMA GapStep ==
  ASSUME Base, Base', GapsKnown, [FifoNext]_fifoVars
  PROVE  GapsKnown'
<1> SUFFICES ASSUME opt'.keyframe, NEW n \in LastWritten' + 1 .. sent', IsPacket(n)', ~InHand(n)'
             PROVE  \/ drop_until_keyframe'
                    \/ opt'.drop /\ (recovery_nr' > 0 \/ cpc' = "recover")
                    \/ cpc' \in Ending
  BY DEF GapsKnown, Gap
<1> USE DEF Base
<1>0. sent \in Nat /\ LastWritten \in Nat
  BY LastWrittenIs DEF Queue
<1>1. ASSUME written' = written, opt' = opt, n \in 1 .. sent, IsPacket(n), ~InHand(n)
      PROVE  \/ drop_until_keyframe
             \/ opt.drop /\ (recovery_nr > 0 \/ cpc = "recover")
             \/ cpc \in Ending
  <2>1. LastWritten' = LastWritten
    BY <1>1 DEF LastWritten
  <2>2. n \in LastWritten + 1 .. sent
    BY <1>0, <1>1, <2>1
  <2> QED BY <1>1, <2>2 DEF GapsKnown, Gap
<1>2. CASE UserMoves
  <2>1. written' = written /\ opt' = opt
    BY <1>2 DEF UserMoves
  <2>2. n \in 1 .. sent'
    BY <1>0, <2>1 DEF LastWritten
  <2>3. n \in 1 .. sent /\ ~InHand(n) /\ IsPacket(n)
    BY <1>2, <2>2, UserInHand, SamePackets
  <2>4. cpc' = cpc \/ cpc = "none"
    BY <1>2 DEF UserMoves, Typed
  <2> QED BY <1>1, <1>2, <2>1, <2>3, <2>4 DEF UserMoves, Ending
<1>3. CASE Worked
  <2>1. PICK d, o : d \in BOOLEAN /\ OutcomeOK(o, d) /\ Works(o, d)
    BY <1>3 DEF Worked
  <2>2. opt' = opt
    BY <2>1 DEF Works, ConsumerFrame
  <2> QED BY <2>1, <2>2, WorkedGap DEF Ending
<1>4. CASE Moves
  <2>1. /\ UNCHANGED <<fifo, sent, msg, opt, written, drop_until_keyframe, recovery_nr>>
        /\ ConsumerFrame
    BY <1>4 DEF Moves, ConsumerFrame
  <2>2. n \in 1 .. sent
    BY <1>0, <2>1 DEF LastWritten
  <2>3. IsPacket(n)
    BY <2>1, <2>2, SamePackets
  <2>4. CASE cpc = "recover"
    <3>1. \/ cpc' = "fail"
          \/ cpc' = "recover"
          \/ opt.drop /\ recovery_nr > 0
      BY <1>4, <2>4 DEF Moves, TryAgain, Ending
    <3>2. CASE cpc' = "recover"
      <4>1. ~InHand(n)
        BY <2>1, <2>2, <3>2, SameInHand
      <4> QED BY <1>1, <2>1, <2>2, <2>3, <2>4, <3>2, <4>1 DEF Ending
    <3> QED BY <2>1, <3>1, <3>2 DEF Ending
  <2>5. CASE cpc # "recover"
    <3>1. cpc # "top" /\ (cpc \in Ending => cpc' \in Ending)
      BY <1>4, <2>5 DEF Moves, Ending
    <3>2. ~InHand(n)
      BY <2>1, <2>2, <2>5, <3>1, SameInHand
    <3> QED BY <1>1, <2>1, <2>2, <2>3, <2>5, <3>1, <3>2
  <2> QED BY <2>4, <2>5
<1>5. CASE Takes
  <2>1. ConsumerFrame /\ UNCHANGED <<written, sent, opt, drop_until_keyframe, recovery_nr>>
        /\ cpc = "receive"
    BY <1>5 DEF Takes, ConsumerFrame
  <2>2. n \in 1 .. sent
    BY <1>0, <2>1 DEF LastWritten
  <2>3. ~InHand(n) /\ IsPacket(n)
    BY <1>5, <2>1, <2>2, TakesInHand, SamePackets
  <2> QED BY <1>1, <2>1, <2>2, <2>3 DEF Ending
<1>6. CASE Cleans
  <2>1. ConsumerFrame /\ UNCHANGED <<written, sent, msg, opt, recovery_nr>> /\ cpc = "check"
    BY <1>6 DEF Cleans, ConsumerFrame
  <2>2. CASE overflow_flag
    BY <1>6, <2>1, <2>2 DEF Cleans
  <2>3. CASE ~overflow_flag
    <3>1. fifo' = fifo /\ (drop_until_keyframe => drop_until_keyframe')
      BY <1>6, <2>3 DEF Cleans
    <3>2. n \in 1 .. sent
      BY <1>0, <2>1 DEF LastWritten
    <3>3. ~InHand(n) /\ IsPacket(n)
      BY <2>1, <3>1, <3>2, SameInHand, SamePackets
    <3> QED BY <1>1, <2>1, <3>1, <3>2, <3>3 DEF Ending
  <2> QED BY <2>2, <2>3
<1>7. CASE UNCHANGED fifoVars
  <2>1. UNCHANGED <<fifo, sent, msg, cpc, written, messages, opt, drop_until_keyframe,
                    recovery_nr>>
    BY <1>7 DEF fifoVars, vars, userVars, consumerVars
  <2>2. n \in 1 .. sent /\ ~InHand(n) /\ IsPacket(n)
    BY <1>0, <2>1 DEF InHand, IsPacket, LastWritten
  <2> QED BY <1>1, <2>1, <2>2
<1> QED BY <1>2, <1>3, <1>4, <1>5, <1>6, <1>7, Kinds

LEMMA KeyStep ==
  ASSUME Base, Base', GapsKnown, RestartsAtKey, [FifoNext]_fifoVars
  PROVE  RestartsAtKey'
<1> DEFINE Before(i) == IF i = 1 THEN 0 ELSE written[i - 1]
<1> SUFFICES ASSUME opt'.keyframe, NEW i \in DOMAIN written',
                    NEW n \in Before(i)' + 1 .. written'[i] - 1, IsPacket(n)'
             PROVE  messages'[written'[i]].type = "key"
  BY DEF RestartsAtKey
<1> USE DEF Base
<1>0. /\ sent \in Nat /\ sent' \in Nat /\ LastWritten \in Nat
      /\ written \in Seq(Nat) /\ Len(written) \in Nat /\ DOMAIN written = 1 .. Len(written)
  <2>1. sent \in Nat /\ sent' \in Nat
    BY DEF Queue
  <2>2. written \in Seq(Nat)
    BY DEF History
  <2>3. LastWritten \in Nat
    BY LastWrittenIs
  <2> QED BY ONLY <2>1, <2>2, <2>3
<1>1. ASSUME UserMoves \/ ConsumerFrame, opt' = opt,
             i \in DOMAIN written, written'[i] = written[i], Before(i)' = Before(i)
      PROVE  messages'[written'[i]].type = "key"
  <2>1. written[i] \in Nat /\ written[i] <= sent /\ Before(i) \in Nat
    <3>1. msg \in Nat /\ msg <= sent /\ written[i] \in Nat /\ written[i] <= msg
      BY <1>1, LastWrittenIs DEF Queue
    <3>2. i # 1 => i - 1 \in DOMAIN written
      BY <1>0, <1>1
    <3> QED BY <1>0, <3>1, <3>2
  <2>2. n \in Before(i) + 1 .. written[i] - 1
    BY <1>1
  <2>3. n \in 1 .. sent /\ written[i] \in 1 .. sent
    BY <1>0, <2>1, <2>2
  <2>4. IsPacket(n)
    BY <1>1, <2>3, SamePackets
  <2>5. messages[written[i]].type = "key"
    BY <1>1, <2>2, <2>4 DEF RestartsAtKey
  <2>6. messages'[written[i]] = messages[written[i]]
    BY <1>1, <2>3, AcceptedMessages DEF UserMoves, ConsumerFrame
  <2> QED BY <1>1, <2>5, <2>6
<1>2. CASE written' = written /\ (UserMoves \/ ConsumerFrame)
  BY <1>1, <1>2 DEF UserMoves, ConsumerFrame
<1>3. CASE Worked
  <2>1. PICK d, o : d \in BOOLEAN /\ OutcomeOK(o, d) /\ Works(o, d)
    BY <1>3 DEF Worked
  <2>2. /\ ConsumerFrame /\ UNCHANGED <<fifo, sent, msg, opt, messages>>
        /\ cpc \in {"top", "recover"}
    BY <2>1 DEF Works, ConsumerFrame
  <2>3. CASE ~o.wrote
    BY <1>2, <2>1, <2>2, <2>3 DEF Works
  <2>4. CASE o.wrote
    <3>1. written' = Append(written, msg)
      BY <2>1, <2>4 DEF Works
    <3>2. /\ i \in DOMAIN written \/ i = Len(written) + 1
          /\ \A j \in DOMAIN written : written'[j] = written[j]
          /\ written'[Len(written) + 1] = msg
      BY <3>1, WrittenAppend
    <3>3. CASE i \in DOMAIN written
      <4>1. i # 1 => i - 1 \in DOMAIN written
        BY <1>0, <3>3
      <4>2. Before(i)' = Before(i)
        BY <3>2, <4>1
      <4> QED BY <1>1, <2>2, <3>2, <3>3, <4>2
    <3>4. CASE i = Len(written) + 1
      <4>1. Before(i)' = LastWritten
        <5>1. CASE Len(written) = 0
          BY <1>0, <3>4, <5>1 DEF LastWritten
        <5>2. CASE Len(written) # 0
          <6>1. i - 1 = Len(written) /\ Len(written) \in DOMAIN written /\ i # 1 /\ written # <<>>
            BY <1>0, <3>4, <5>2
          <6> QED BY <3>2, <6>1 DEF LastWritten
        <5> QED BY <5>1, <5>2
      <4>2. Len(fifo) \in Nat /\ msg + Len(fifo) = sent /\ msg \in Nat
        BY <2>2 DEF Queue, InWork
      <4>3. n \in LastWritten + 1 .. msg - 1
        BY <3>2, <3>4, <4>1
      <4>4. n \in LastWritten + 1 .. sent /\ n \in 1 .. sent /\ msg \in 1 .. sent
            /\ n # msg /\ ~(sent - Len(fifo) < n)
        BY <1>0, <4>2, <4>3
      <4>5. ~InHand(n)
        BY <4>4, InHandIs
      <4>6. IsPacket(n)
        BY <2>2, <4>4, SamePackets
      <4>7. d
        BY <2>1, <2>2, <4>4, <4>5, <4>6, GapDrops
      <4>8. Type(msg) \notin {"noop", "header", "flush", "other"}
        BY <2>1, <2>4, <4>7 DEF OutcomeOK
      <4>9. Type(msg) = messages[msg].type
        BY <4>4 DEF Type
      <4>10. messages[msg] \in Message
        BY <4>4 DEF Typed
      <4>11. messages[msg].type = "key"
        BY <4>8, <4>9, <4>10 DEF Message, Sendable, Packets
      <4> QED BY <2>2, <3>2, <3>4, <4>11
    <3> QED BY <3>2, <3>3, <3>4
  <2> QED BY <2>3, <2>4
<1>4. CASE Moves \/ Takes \/ Cleans
  BY <1>2, <1>4 DEF Moves, Takes, Cleans
<1>5. CASE UserMoves
  BY <1>2, <1>5 DEF UserMoves
<1>6. CASE UNCHANGED fifoVars
  <2>1. UNCHANGED <<messages, written, opt>>
    BY <1>6 DEF fifoVars, userVars, consumerVars
  <2> QED BY <2>1 DEF RestartsAtKey, IsPacket
<1> QED BY <1>3, <1>4, <1>5, <1>6, Kinds

\* With restart_with_keyframe, an output in which accepted packets are missing
\* goes on with a keyframe, whether they were flushed after an overflow or given
\* up while the output was being restarted.
THEOREM KeyFirst == FifoSpec => []RestartsAtKey
<1>1. FifoInit => GapsKnown /\ RestartsAtKey
  <2> SUFFICES ASSUME FifoInit PROVE GapsKnown /\ RestartsAtKey
    OBVIOUS
  <2>1. sent = 0 /\ written = <<>>
    BY DEF FifoInit, Init
  <2>2. ~Gap
    BY <2>1 DEF Gap, LastWritten
  <2> QED BY <2>1, <2>2 DEF GapsKnown, RestartsAtKey
<1>2. Base /\ Base' /\ GapsKnown /\ RestartsAtKey /\ [FifoNext]_fifoVars
      => GapsKnown' /\ RestartsAtKey'
  BY GapStep, KeyStep
<1> QED BY <1>1, <1>2, BaseInvariant, PTL DEF FifoSpec
-----------------------------------------------------------------------------
(* The timeshift: packets are written when the queue holds enough time.      *)

\* The time up to packet n, which next_duration() adds up.
Since(n) == IF n = 0 THEN 0 ELSE n - 1

Dated ==
  /\ \A n \in 1 .. sent : messages[n].dts <= offered
  /\ \A i \in DOMAIN written : written[i] >= 1
  /\ upc = "flush" => opt.timeshift = 0

\* The user still goes on, nothing is dropped and there is a timeshift.
Early == /\ upc \in {"new", "user", "account", "key", "other"}
         /\ ~opt.drop /\ opt.timeshift > 0

\* What was accepted are all the packets that were offered, as long as the queue
\* takes any, and the last one may not be accounted for yet.
Complete ==
  /\ \A n \in 1 .. sent : messages[n].type \in Packets /\ messages[n].dts = n
  /\ upc \in {"new", "account"} => offered = sent
  /\ upc = "account" => sent > 0
  /\ upc \in {"key", "other"} => offered = sent + 1
  /\ upc = "user" => sent <= offered /\ (err_send \/ offered = sent)
  /\ last_sent_dts = IF upc = "account" THEN sent - 1 ELSE sent

\* No message is skipped, and queue_duration is the time between the last packet
\* accounted for and the last one taken note of, which is the one in hand.
Measured ==
  /\ ~overflow_flag
  /\ last_received_dts \in Nat
  /\ queue_duration = Since(last_sent_dts) - Since(last_received_dts)
  /\ cpc \notin Ending => msg + Len(fifo) = sent
  /\ cpc \in {"check", "delay", "receive"} => last_received_dts = msg
  /\ cpc \in InWork => last_received_dts \in {msg, msg - 1}

\* A packet gets into the hands of the consumer when enough time follows it.
Shifted ==
  /\ cpc = "receive" => msg + opt.timeshift <= last_sent_dts
  /\ cpc \in InWork /\ msg > 0 => msg + opt.timeshift <= last_sent_dts + 1
  /\ \A i \in DOMAIN written : written[i] + opt.timeshift <= last_sent_dts + 1

Steady == Dated /\ (Early => Complete /\ Measured /\ Shifted)

UserSteps == Calls \/ Inside \/ Wakes

LEMMA SteadyInit == FifoInit => Steady
<1> SUFFICES ASSUME FifoInit PROVE Steady
  OBVIOUS
<1>1. /\ sent = 0 /\ fifo = <<>> /\ Len(fifo) = 0 /\ msg = 0 /\ cpc = "none" /\ upc = "new"
      /\ offered = 0 /\ last_sent_dts = 0 /\ last_received_dts = 0 /\ queue_duration = 0
      /\ written = <<>> /\ DOMAIN written = {} /\ ~overflow_flag
  BY DEF FifoInit, Init
<1>2. Dated
  BY <1>1 DEF Dated
<1>3. Complete
  BY <1>1 DEF Complete
<1>4. Measured
  BY <1>1 DEF Measured, Since, InWork, Ending
<1>5. Shifted
  BY <1>1 DEF Shifted, InWork
<1> QED BY <1>2, <1>3, <1>4, <1>5 DEF Steady

\* What the queue has got when it accepts a message.
LEMMA Accepted ==
  ASSUME Base, NEW type \in Sendable \cup {"noop"}, NEW dts \in Nat, Accept(type, dts)
  PROVE  /\ sent \in Nat /\ sent' = sent + 1 /\ Len(fifo') = Len(fifo) + 1 /\ Len(fifo) \in Nat
         /\ ~err_send /\ UNCHANGED err_send
         /\ \A n \in 1 .. sent : messages'[n] = messages[n]
         /\ messages'[sent + 1].type = type /\ messages'[sent + 1].dts = dts
<1> DEFINE m == [type |-> type, dts |-> dts]
<1>1. m \in Message /\ m.type = type /\ m.dts = dts
  BY DEF Message
<1>2. /\ messages \in Seq(Message) /\ Len(messages) = sent /\ sent \in Nat
      /\ fifo \in Seq(Nat) /\ sent + 1 \in Nat
  BY DEF Base, Typed, Queue
<1>3. messages' = Append(messages, m) /\ fifo' = Append(fifo, sent + 1) /\ sent' = sent + 1
      /\ ~err_send /\ err_send' = err_send
  BY DEF Accept, SendWrite
<1> HIDE DEF m
<1>4. /\ \A n \in 1 .. Len(messages) : messages'[n] = messages[n]
      /\ messages'[Len(messages) + 1] = m
  BY <1>1, <1>2, <1>3, AppendProperties
<1>5. Len(fifo') = Len(fifo) + 1 /\ Len(fifo) \in Nat
  BY <1>2, <1>3, AppendProperties
<1> QED BY <1>1, <1>2, <1>3, <1>4, <1>5

\* What the user's steps do to what Dated is about.
Offers ==
  /\ UNCHANGED <<opt, written>>
  /\ offered \in Nat /\ offered' \in Nat /\ offered <= offered'
  /\ upc' = "flush" => upc = "flush" \/ opt.timeshift = 0
  /\ \/ UNCHANGED <<sent, messages>>
     \/ /\ sent \in Nat /\ sent' = sent + 1
        /\ \A n \in 1 .. sent : messages'[n] = messages[n]
        /\ messages'[sent + 1].dts <= offered'

LEMMA UserOffers ==
  ASSUME Base, UserSteps
  PROVE  Offers
<1> USE DEF rest, consumerVars, vars, shared, userVars, SendErr, SendBlock, SetErrRecv
<1>0. offered \in Nat /\ offered + 1 \in Nat /\ (pc[user] # "idle" => upc \in Sendable)
  BY DEF Base, Typed
<1>1. ASSUME NEW type \in Sendable, WritePacket(type) PROVE Offers
  <2>1. /\ offered' = offered + 1 /\ UNCHANGED <<opt, written>>
        /\ (type = "flush" => opt.timeshift = 0)
    BY <1>1 DEF WritePacket
  <2>2. CASE Accept(type, offered')
    <3>1. upc' # "flush"
      BY <1>1, <2>2 DEF WritePacket, Accept, SendWrite
    <3> QED BY <1>0, <2>1, <2>2, <3>1, Accepted DEF Offers
  <2>3. CASE ~Accept(type, offered')
    <3>1. UNCHANGED <<sent, messages>>
      BY <1>1, <2>3 DEF WritePacket
    <3>2. upc' = "flush" => opt.timeshift = 0
      BY <1>1, <2>1, <2>3 DEF WritePacket
    <3> QED BY <1>0, <2>1, <3>1, <3>2 DEF Offers
  <2> QED BY <2>2, <2>3
<1>2. CASE ResumeSend
  <2>1. offered' = offered /\ UNCHANGED <<opt, written>> /\ upc \in Sendable
    BY <1>0, <1>2 DEF ResumeSend
  <2>2. CASE Accept(upc, offered)
    <3>1. upc' # "flush" \/ upc = "flush"
      BY <1>2, <2>2 DEF ResumeSend
    <3> QED BY <1>0, <2>1, <2>2, <3>1, Accepted DEF Offers
  <2>3. CASE ~Accept(upc, offered)
    BY <1>0, <1>2, <2>1, <2>3 DEF ResumeSend, Offers
  <2> QED BY <2>2, <2>3
<1>3. CASE Ping
  <2>1. offered' = offered /\ UNCHANGED <<opt, written>> /\ upc' # "flush"
    BY <1>3 DEF Ping
  <2>2. CASE Accept("noop", 0)
    <3>1. "noop" \in Sendable \cup {"noop"} /\ 0 \in Nat
      OBVIOUS
    <3>2. /\ sent \in Nat /\ sent' = sent + 1
          /\ \A n \in 1 .. sent : messages'[n] = messages[n]
          /\ messages'[sent + 1].dts = 0
      BY <2>2, <3>1, Accepted
    <3> QED BY <1>0, <2>1, <3>2 DEF Offers
  <2>3. CASE ~Accept("noop", 0)
    BY <1>0, <1>3, <2>1, <2>3 DEF Ping, Offers
  <2> QED BY <2>2, <2>3
<1>4. CASE Start \/ StartFails \/ SetOverflow \/ Account \/ PassTime \/ Join
  BY <1>0, <1>4 DEF Start, StartFails, SetOverflow, Account, PassTime, Join, Offers
<1>5. CASE Trailer
  BY <1>0, <1>5 DEF Trailer, Offers
<1>6. CASE Wakes
  BY <1>0, <1>6 DEF Wakes, SpuriousWake, Offers
<1> QED BY <1>1, <1>2, <1>3, <1>4, <1>5, <1>6 DEF UserSteps, Calls, Inside, Sendable

LEMMA DatedStep ==
  ASSUME Base, Dated, [FifoNext]_fifoVars
  PROVE  Dated'
<1> USE DEF Dated
<1>0. /\ sent \in Nat /\ msg \in Nat /\ offered \in Nat /\ msg <= sent
      /\ \A n \in 1 .. sent : messages[n].dts \in Nat
  <2>1. messages \in Seq(Message) /\ Len(messages) = sent
    BY DEF Base, Typed
  <2>2. \A n \in 1 .. sent : messages[n] \in Message
    BY <2>1
  <2>3. Len(fifo) \in Nat /\ msg + Len(fifo) <= sent /\ sent \in Nat /\ msg \in Nat
    BY DEF Base, Queue
  <2> QED BY <2>2, <2>3 DEF Base, Typed, Message
<1>1. CASE UserSteps
  <2>1. Offers
    BY <1>1, UserOffers
  <2>2. ASSUME NEW n \in 1 .. sent' PROVE messages'[n].dts <= offered'
    <3>1. CASE UNCHANGED <<sent, messages>>
      <4>1. messages'[n] = messages[n] /\ n \in 1 .. sent
        BY <3>1
      <4> QED BY <1>0, <2>1, <4>1 DEF Offers
    <3>2. CASE n = sent + 1 /\ ~UNCHANGED <<sent, messages>>
      BY <2>1, <3>2 DEF Offers
    <3>3. CASE n # sent + 1 /\ ~UNCHANGED <<sent, messages>>
      <4>1. n \in 1 .. sent
        BY <1>0, <2>1, <3>3 DEF Offers
      <4>2. messages'[n] = messages[n]
        BY <2>1, <3>3, <4>1 DEF Offers
      <4> QED BY <1>0, <2>1, <4>1, <4>2 DEF Offers
    <3> QED BY <3>1, <3>2, <3>3
  <2> QED BY <2>1, <2>2 DEF Offers
<1>2. CASE Worked
  <2>1. PICK d, o : d \in BOOLEAN /\ OutcomeOK(o, d) /\ Works(o, d)
    BY <1>2 DEF Worked
  <2>2. UNCHANGED <<opt, upc, offered, messages, sent>>
    BY <2>1 DEF Works, ConsumerFrame
  <2>3. ASSUME NEW i \in DOMAIN written' PROVE written'[i] >= 1
    <3>1. CASE o.wrote
      <4>1. written' = Append(written, msg)
        BY <2>1, <3>1 DEF Works
      <4>2. (i \in DOMAIN written /\ written'[i] = written[i]) \/ written'[i] = msg
        BY <4>1, WrittenAppend DEF Base
      <4>3. msg >= 1
        <5>1. Type(msg) \notin {"noop", "header"}
          BY <2>1, <3>1 DEF OutcomeOK
        <5> QED BY <1>0, <5>1 DEF Type
      <4> QED BY <4>2, <4>3
    <3>2. CASE ~o.wrote
      BY <2>1, <3>2 DEF Works
    <3> QED BY <3>1, <3>2
  <2> QED BY <2>2, <2>3
<1>3. CASE Moves \/ Takes \/ Cleans
  BY <1>3 DEF Moves, Takes, Cleans, ConsumerFrame
<1>4. CASE UNCHANGED fifoVars
  BY <1>4 DEF fifoVars, vars, userVars, consumerVars
<1>5. FifoNext => UserSteps \/ Worked \/ Moves \/ Takes \/ Cleans
  BY ConsumerKinds DEF FifoNext, UserSteps, Base
<1> QED BY <1>1, <1>2, <1>3, <1>4, <1>5

\* The consumer as it is seen by the steps of the user, and the user by the others.
UserFrame ==
  /\ UNCHANGED <<opt, msg, written, last_received_dts, err_send>>
  /\ cpc' = cpc \/ (cpc = "none" /\ cpc' = "top")

LEMMA UserFrames ==
  ASSUME Base, UserSteps
  PROVE  UserFrame
<1> USE DEF UserFrame, rest, consumerVars, vars, shared, userVars, SendErr, SendBlock, SetErrRecv
<1>1. ASSUME NEW type, WritePacket(type) PROVE UserFrame
  BY <1>1 DEF WritePacket, Accept, SendWrite
<1>2. CASE ResumeSend
  BY <1>2 DEF ResumeSend, Accept, SendWrite
<1>3. CASE Ping
  BY <1>3 DEF Ping, Accept, SendWrite
<1>4. CASE Start
  BY <1>4 DEF Start, Base, Typed
<1>5. CASE StartFails \/ SetOverflow \/ Account \/ PassTime \/ Join
  BY <1>5 DEF StartFails, SetOverflow, Account, PassTime, Join
<1>6. CASE Trailer
  BY <1>6 DEF Trailer
<1>7. CASE Wakes
  BY <1>7 DEF Wakes, SpuriousWake
<1> QED BY <1>1, <1>2, <1>3, <1>4, <1>5, <1>6, <1>7 DEF UserSteps, Calls, Inside

\* What the user does while it goes on without dropping: it offers a packet that is
\* refused or has to wait, or goes on without a new message, ...
Waits ==
  /\ UNCHANGED <<fifo, sent, messages, last_sent_dts, queue_duration, overflow_flag>>
  /\ \/ UNCHANGED <<upc, offered>>
     \/ upc = "user" /\ upc' = "user" /\ offered' = offered + 1 /\ err_send
     \/ upc = "user" /\ upc' \in Packets /\ offered' = offered + 1 /\ ~err_send
     \/ upc \in Packets /\ upc' = "user" /\ offered' = offered /\ err_send
     \/ upc = "new" /\ upc' = "user" /\ offered' = offered

\* ... or a packet is accepted, ...
Succeeds ==
  /\ \/ upc = "user" /\ offered' = offered + 1
     \/ upc \in Packets /\ offered' = offered
  /\ upc' = "account"
  /\ UNCHANGED <<last_sent_dts, queue_duration, overflow_flag>>
  /\ \E type \in Packets : Accept(type, offered')

\* ... or accounted for.
LEMMA UserKinds ==
  ASSUME Base, Dated, UserSteps, Early'
  PROVE  Early /\ (Waits \/ Succeeds \/ Account)
<1> USE DEF Early, rest, consumerVars, vars, shared, userVars, SendErr, SendBlock, Packets
<1>0. opt' = opt /\ (pc[user] # "idle" => upc \in Sendable) /\ (pc[user] = "woken" => pc[user] # "idle")
  BY UserOffers DEF Offers, Base, Typed
<1>1. ASSUME NEW type \in Sendable, WritePacket(type) PROVE Early /\ (Waits \/ Succeeds)
  <2>1. /\ upc = "user" /\ offered' = offered + 1 /\ type \in Packets
        /\ UNCHANGED <<last_sent_dts, queue_duration, overflow_flag>>
    BY <1>0, <1>1 DEF WritePacket, Sendable
  <2>2. CASE Accept(type, offered')
    <3>1. ~err_send /\ Len(fifo) < NElem /\ NElem \in Nat
      BY <2>2, MessageAssumption DEF Accept, SendWrite, MessageAssumption
    <3>2. upc' = "account"
      BY <1>0, <1>1, <3>1 DEF WritePacket
    <3> QED BY <1>0, <2>1, <2>2, <3>2 DEF Succeeds
  <2>3. CASE ~Accept(type, offered')
    BY <1>0, <1>1, <2>1, <2>3 DEF WritePacket, Waits
  <2> QED BY <1>0, <2>1, <2>2, <2>3
<1>2. CASE ResumeSend
  <2>1. /\ upc \in Packets /\ offered' = offered
        /\ UNCHANGED <<last_sent_dts, queue_duration, overflow_flag>>
    BY <1>0, <1>2 DEF ResumeSend, Sendable, Dated
  <2>2. CASE Accept(upc, offered)
    <3>1. ~err_send /\ Len(fifo) < NElem /\ NElem \in Nat
      BY <2>2, MessageAssumption DEF Accept, SendWrite, MessageAssumption
    <3>2. upc' = "account"
      BY <1>0, <1>2, <3>1 DEF ResumeSend
    <3>3. Accept(upc, offered')
      BY <2>1, <2>2
    <3> QED BY <1>0, <2>1, <3>2, <3>3 DEF Succeeds
  <2>3. CASE ~Accept(upc, offered)
    BY <1>0, <1>2, <2>1, <2>3 DEF ResumeSend, Waits
  <2> QED BY <1>0, <2>1, <2>2, <2>3
<1>3. CASE Account
  BY <1>0, <1>3 DEF Account
<1>4. CASE Start
  BY <1>0, <1>4 DEF Start, Waits
<1>5. CASE Wakes
  BY <1>0, <1>5 DEF Wakes, Waits, SpuriousWake
<1>6. ~SetOverflow
  BY <1>0 DEF SetOverflow, Base, Causes
<1>7. ~StartFails /\ ~Trailer /\ ~PassTime /\ ~Ping /\ ~Join
  BY DEF StartFails, Trailer, PassTime, Ping, Join
<1> QED BY <1>1, <1>2, <1>3, <1>4, <1>5, <1>6, <1>7 DEF UserSteps, Calls, Inside, Sendable

LEMMA UserSteady ==
  ASSUME Base, Base', Steady, UserSteps, Early'
  PROVE  Complete' /\ Measured' /\ Shifted'
<1>1. Early /\ Dated /\ Complete /\ Measured /\ Shifted
  BY UserKinds DEF Steady
<1>2. UserFrame
  BY UserFrames
<1>3. /\ sent \in Nat /\ msg \in Nat /\ offered \in Nat /\ Len(fifo) \in Nat /\ last_sent_dts \in Nat
      /\ opt.timeshift \in Nat /\ last_received_dts \in Nat
  <2>1. sent \in Nat /\ msg \in Nat /\ offered \in Nat /\ Len(fifo) \in Nat /\ opt \in Option
    BY Constants DEF Base, Typed, Queue
  <2> QED BY <1>1, <2>1 DEF Option, Complete, Measured
<1>4. CASE Waits
  <2>1. Complete'
    BY <1>1, <1>2, <1>3, <1>4 DEF Complete, Waits, UserFrame, Packets
  <2>2. Measured'
    BY <1>1, <1>2, <1>3, <1>4 DEF Measured, Waits, UserFrame, InWork, Ending, Since
  <2>3. Shifted'
    BY <1>1, <1>2, <1>3, <1>4 DEF Shifted, Waits, UserFrame, InWork
  <2> QED BY <2>1, <2>2, <2>3
<1>5. CASE Succeeds
  <2>1. PICK type \in Packets : Accept(type, offered')
    BY <1>5 DEF Succeeds
  <2>2. offered' \in Nat /\ type \in Sendable \cup {"noop"}
    BY DEF Base, Typed, Sendable
  <2>3. /\ sent' = sent + 1 /\ Len(fifo') = Len(fifo) + 1 /\ ~err_send
        /\ \A n \in 1 .. sent : messages'[n] = messages[n]
        /\ messages'[sent + 1].type = type /\ messages'[sent + 1].dts = offered'
    BY <2>1, <2>2, Accepted
  <2>4. offered' = sent + 1 /\ last_sent_dts = sent
    BY <1>1, <1>3, <1>5, <2>3 DEF Succeeds, Complete, Packets
  <2>5. Complete'
    <3>1. ASSUME NEW n \in 1 .. sent' PROVE messages'[n].type \in Packets /\ messages'[n].dts = n
      <4>1. CASE n = sent + 1
        BY <2>3, <2>4, <4>1
      <4>2. CASE n # sent + 1
        <5>1. n \in 1 .. sent
          BY <1>3, <2>3, <4>2
        <5> QED BY <1>1, <2>3, <5>1 DEF Complete
      <4> QED BY <4>1, <4>2
    <3> QED BY <1>3, <1>5, <2>3, <2>4, <3>1 DEF Complete, Succeeds
  <2>6. Measured'
    <3>1. cpc' \notin Ending => msg' + Len(fifo') = sent'
      BY <1>1, <1>2, <1>3, <2>3 DEF Measured, UserFrame, Ending
    <3> QED BY <1>1, <1>2, <1>5, <3>1 DEF Measured, Succeeds, UserFrame, InWork, Since
  <2>7. Shifted'
    BY <1>1, <1>2, <1>5 DEF Shifted, Succeeds, UserFrame, InWork
  <2> QED BY <2>5, <2>6, <2>7
<1>6. CASE Account
  <2>1. /\ upc = "account" /\ upc' = "user" /\ last_sent_dts' = offered /\ offered' = offered
        /\ queue_duration' = queue_duration + Duration(offered, last_sent_dts)
        /\ UNCHANGED <<fifo, sent, messages, overflow_flag, err_send>>
    BY <1>6 DEF Account, vars, rest
  <2>2. offered = sent /\ sent > 0 /\ last_sent_dts = sent - 1
    BY <1>1, <2>1 DEF Complete
  <2>3. Complete'
    BY <1>1, <1>3, <2>1, <2>2 DEF Complete
  <2>4. Measured'
    <3>1. Since(sent) = Since(sent - 1) + Duration(sent, sent - 1) /\ Since(sent) \in Nat
          /\ Since(sent - 1) \in Nat /\ Since(last_received_dts) \in Nat
          /\ Duration(sent, sent - 1) \in Nat
      BY <1>3, <2>2 DEF Since, Duration
    <3>2. queue_duration = Since(sent - 1) - Since(last_received_dts)
      BY <1>1, <2>2 DEF Measured
    <3>3. queue_duration' = Since(last_sent_dts') - Since(last_received_dts')
      BY <1>2, <2>1, <2>2, <3>1, <3>2 DEF UserFrame
    <3> QED BY <1>1, <1>2, <2>1, <3>3 DEF Measured, UserFrame, InWork, Ending
  <2>5. Shifted'
    <3>1. last_sent_dts' >= last_sent_dts /\ last_sent_dts' \in Nat
      BY <1>3, <2>1, <2>2
    <3>2. \A i \in DOMAIN written : written[i] \in Nat
      BY DEF Base, History
    <3> QED BY <1>1, <1>2, <1>3, <3>1, <3>2 DEF Shifted, UserFrame, InWork
  <2> QED BY <2>3, <2>4, <2>5
<1> QED BY <1>4, <1>5, <1>6, UserKinds DEF Steady

\* A packet that was dispatched without an error has been taken note of.
LEMMA TakenNoteOf ==
  ASSUME NEW h \in BOOLEAN, NEW d \in BOOLEAN, NEW o \in Outcomes(h, d),
         Type(msg) \in Packets, o.ret = "ok"
  PROVE  o.received
<1> DEFINE First == Untouched(h, d)
           Shape == [ret : {"ok"} \cup Errors, header : BOOLEAN, drop : BOOLEAN,
                     received : BOOLEAN, wrote : BOOLEAN]
<1>1. First \in Shape
  BY DEF Untouched
<1>2. Type(msg) \notin {"noop", "header", "flush"}
  BY DEF Packets
<1>3. PICK r \in Headers(First) : o \in WritesPacket(r)
  BY <1>2 DEF Outcomes
<1> HIDE DEF First
<1>4. r \in Shape
  <2>1. \/ r = First \/ r = [First EXCEPT !.header = TRUE]
        \/ \E e \in Errors, g \in BOOLEAN : r = HeaderFails(First, e, g)
    BY <1>3 DEF Headers
  <2>2. ASSUME NEW e \in Errors, NEW g \in BOOLEAN, r = HeaderFails(First, e, g)
        PROVE  r \in Shape
    BY <1>1, <2>2 DEF HeaderFails
  <2> QED BY <1>1, <2>1, <2>2
<1>5. \/ o = [r EXCEPT !.received = TRUE]
      \/ o = [r EXCEPT !.received = TRUE, !.drop = FALSE, !.wrote = TRUE]
      \/ \E e \in Errors : o = [r EXCEPT !.received = TRUE, !.drop = FALSE, !.ret = e]
  BY <1>3 DEF WritesPacket
<1> QED BY <1>4, <1>5

\* What a dispatched message does to the times: o is what became of it.
Dispatched(o) ==
  /\ OutcomeOK(o, drop_until_keyframe)
  /\ Type(msg) \in Packets /\ o.ret = "ok" => o.received
  /\ cpc \in {"top", "recover"}
  /\ cpc' = IF o.ret = "ok" THEN "check" ELSE IF cpc' = "fail" THEN "fail" ELSE "recover"
  /\ UNCHANGED <<vars, others, overflow_flag, msg>>
  /\ DispatchMessage(o)

LEMMA DispatchTimes ==
  ASSUME Base, ~opt.drop, Dispatch \/ AttemptRecovery
  PROVE  \E o : Dispatched(o)
<1>0. header_written \in BOOLEAN /\ drop_until_keyframe \in BOOLEAN /\ FALSE \in BOOLEAN
  BY DEF Base, Typed
<1>1. CASE Dispatch
  <2>1. PICK o \in Outcomes(header_written, drop_until_keyframe) :
          /\ DispatchMessage(o)
          /\ cpc' = IF o.ret = "ok" THEN "check" ELSE "recover"
    BY <1>1 DEF Dispatch
  <2>2. OutcomeOK(o, drop_until_keyframe) /\ (Type(msg) \in Packets /\ o.ret = "ok" => o.received)
    BY <1>0, OutcomeFacts, TakenNoteOf
  <2>3. Dispatched(o)
    BY <1>1, <2>1, <2>2 DEF Dispatch, Dispatched
  <2> QED BY <2>3
<1>2. CASE AttemptRecovery
  <2>1. PICK o \in Outcomes(FALSE, drop_until_keyframe \/ (opt.keyframe /\ opt.drop)) :
          /\ DispatchMessage(o)
          /\ cpc' = IF o.ret = "ok" THEN "check" ELSE IF cpc' = "fail" THEN "fail" ELSE "recover"
    BY <1>2 DEF AttemptRecovery, Recovered, TryAgain
  <2>2. (drop_until_keyframe \/ (opt.keyframe /\ opt.drop)) = drop_until_keyframe
    BY <1>0
  <2>3. o \in Outcomes(FALSE, drop_until_keyframe)
    BY <2>2
  <2>4. OutcomeOK(o, drop_until_keyframe) /\ (Type(msg) \in Packets /\ o.ret = "ok" => o.received)
    BY <1>0, <2>3, OutcomeFacts, TakenNoteOf
  <2>5. Dispatched(o)
    BY <1>2, <2>1, <2>4 DEF AttemptRecovery, Dispatched
  <2> QED BY <2>5
<1> QED BY <1>1, <1>2

LEMMA DispatchSteady ==
  ASSUME Base, Early, Complete, Measured, Shifted, NEW o, Dispatched(o)
  PROVE  Measured' /\ Shifted'
<1>1. /\ UNCHANGED <<fifo, sent, opt, upc, last_sent_dts, overflow_flag, msg>>
      /\ cpc \in {"top", "recover"} /\ cpc' \in {"check", "fail", "recover"}
      /\ (cpc' = "check" => o.ret = "ok")
  BY DEF Dispatched, vars, others, userVars
<1>2. /\ sent \in Nat /\ msg \in Nat /\ Len(fifo) \in Nat /\ msg + Len(fifo) = sent
      /\ opt.timeshift \in Nat /\ opt.timeshift > 0 /\ last_received_dts \in {msg, msg - 1}
      /\ last_received_dts \in Nat
  <2>1. sent \in Nat /\ msg \in Nat /\ Len(fifo) \in Nat /\ opt \in Option
    BY Constants DEF Base, Typed, Queue
  <2> QED BY <1>1, <2>1 DEF Option, Measured, Ending, InWork, Early
<1>3. msg > 0 => Type(msg) \in Packets /\ messages[msg].dts = msg
  <2>1. msg > 0 => msg \in 1 .. sent
    BY <1>2
  <2> QED BY <2>1 DEF Complete, Type
<1>4. o.received \/ o.wrote => msg > 0
  <2>1. o.received \/ o.wrote => Type(msg) # "noop"
    BY DEF Dispatched, OutcomeOK
  <2> QED BY <1>2, <2>1 DEF Type
<1>5. Measured'
  <2>1. CASE o.received
    <3>1. /\ queue_duration' = queue_duration - Duration(msg, last_received_dts)
          /\ last_received_dts' = msg
      BY <1>2, <1>3, <1>4, <2>1 DEF Dispatched, DispatchMessage
    <3>2. msg > 0
      BY <1>4, <2>1
    <3>3. Since(msg) = Since(last_received_dts) + Duration(msg, last_received_dts)
      BY <1>2, <3>2 DEF Since, Duration
    <3>4. /\ Since(last_received_dts) \in Int /\ Duration(msg, last_received_dts) \in Int
          /\ Since(last_sent_dts) \in Int
      <4>1. last_sent_dts \in Int
        BY <1>2 DEF Complete
      <4> QED BY <1>2, <4>1 DEF Since, Duration
    <3>5. queue_duration = Since(last_sent_dts) - Since(last_received_dts)
      BY DEF Measured
    <3>6. queue_duration' = Since(last_sent_dts) - Since(msg)
      BY ONLY <3>1, <3>3, <3>4, <3>5
    <3> QED BY <1>1, <1>2, <3>1, <3>6 DEF Measured, InWork, Ending
  <2>2. CASE ~o.received
    <3>1. UNCHANGED <<queue_duration, last_received_dts>>
      BY <2>2 DEF Dispatched, DispatchMessage
    <3>2. cpc' = "check" => last_received_dts = msg
      BY <1>1, <1>2, <1>3, <2>2 DEF Dispatched
    <3> QED BY <1>1, <1>2, <3>1, <3>2 DEF Measured, InWork, Ending
  <2> QED BY <2>1, <2>2
<1>6. Shifted'
  <2>1. cpc' \in InWork /\ msg > 0 => msg + opt.timeshift <= last_sent_dts + 1
    BY <1>1 DEF Shifted, InWork
  <2>2. ASSUME NEW i \in DOMAIN written' PROVE written'[i] + opt.timeshift <= last_sent_dts + 1
    <3>1. CASE o.wrote
      <4>1. written' = Append(written, msg) /\ msg > 0
        BY <1>4, <3>1 DEF Dispatched, DispatchMessage
      <4>2. (i \in DOMAIN written /\ written'[i] = written[i]) \/ written'[i] = msg
        BY <4>1, WrittenAppend DEF Base
      <4> QED BY <1>1, <4>1, <4>2 DEF Shifted, InWork
    <3>2. CASE ~o.wrote
      BY <3>2 DEF Dispatched, DispatchMessage, Shifted
    <3> QED BY <3>1, <3>2
  <2> QED BY <1>1, <2>1, <2>2 DEF Shifted
<1> QED BY <1>5, <1>6

\* The other steps of the consumer that take no message; only one goes past the
\* time that has to be in the queue.
Passes ==
  /\ UNCHANGED <<opt, upc, last_sent_dts, sent>>
  /\ UNCHANGED <<fifo, msg, written, queue_duration, last_received_dts>>
  /\ overflow_flag' = FALSE
  /\ \/ cpc' \in Ending
     \/ cpc' = cpc
     \/ cpc = "check" /\ cpc' = "delay"
     \/ cpc = "delay" /\ cpc' = "receive" /\ queue_duration >= opt.timeshift

LEMMA PassesSteady ==
  ASSUME Base, Early, Complete, Measured, Shifted, Passes
  PROVE  Measured' /\ Shifted'
<1>1. /\ sent \in Nat /\ msg \in Nat /\ Len(fifo) \in Nat
      /\ opt.timeshift \in Nat /\ opt.timeshift > 0 /\ ~opt.drop
      /\ last_sent_dts \in Int /\ last_received_dts \in Nat
  <2>1. sent \in Nat /\ msg \in Nat /\ Len(fifo) \in Nat /\ opt \in Option
    BY Constants DEF Base, Typed, Queue
  <2> QED BY <2>1 DEF Option, Early, Complete, Measured
<1>2. /\ UNCHANGED <<opt, upc, last_sent_dts, sent>>
      /\ UNCHANGED <<fifo, msg, written, queue_duration, last_received_dts>>
      /\ ~overflow_flag'
  BY DEF Passes
<1>3. \/ cpc' \in Ending
      \/ cpc' = cpc
      \/ cpc = "check" /\ cpc' = "delay"
      \/ cpc = "delay" /\ cpc' = "receive" /\ queue_duration >= opt.timeshift
  BY DEF Passes
<1>4. cpc \in Ending => cpc' \in Ending \/ cpc' = cpc
  BY <1>3 DEF Ending
<1>5. Measured'
  <2>1. cpc' \notin Ending => cpc \notin Ending /\ msg + Len(fifo) = sent
    BY <1>3, <1>4 DEF Measured, Ending
  <2>2. cpc' \in {"check", "delay", "receive"} => last_received_dts = msg
    BY <1>3 DEF Measured, Ending
  <2>3. cpc' \in InWork => last_received_dts \in {msg, msg - 1}
    BY <1>3 DEF Measured, Ending, InWork
  <2>4. queue_duration' = Since(last_sent_dts') - Since(last_received_dts')
    BY <1>2 DEF Measured
  <2> QED BY <1>1, <1>2, <2>1, <2>2, <2>3, <2>4 DEF Measured
<1>6. cpc' = "receive" => msg + opt.timeshift <= last_sent_dts
  <2>1. CASE cpc = "delay" /\ cpc' = "receive" /\ queue_duration >= opt.timeshift
    <3>1. queue_duration = Since(last_sent_dts) - Since(msg)
      BY <2>1 DEF Measured
    <3> QED BY <1>1, <2>1, <3>1 DEF Since
  <2>2. CASE cpc' = cpc
    BY <2>2 DEF Shifted
  <2> QED BY <1>3, <2>1, <2>2 DEF Ending
<1>7. cpc' \in InWork => cpc \in InWork
  BY <1>3 DEF InWork, Ending
<1> QED BY <1>2, <1>5, <1>6, <1>7 DEF Shifted

LEMMA ConsumerSteady ==
  ASSUME Base, Steady, Consumer, Early'
  PROVE  Complete' /\ Measured' /\ Shifted'
<1> USE DEF others, userVars, shared, SetErrSend, RecvErr, RecvBlock
<1>1. UNCHANGED <<opt, upc, offered, messages, last_sent_dts, sent>> /\ (err_send' = err_send \/ err_send')
  BY DEF Consumer, Dispatch, GiveUp, TooEarly, AttemptRecovery, CheckOverflow, Delay, Receive,
         SetError, WriteTrailer, vars, Flush, RecvRead
<1>2. Early /\ Complete /\ Measured /\ Shifted
  BY <1>1 DEF Early, Steady
<1>3. Complete'
  BY <1>1, <1>2 DEF Complete
<1>4. /\ sent \in Nat /\ msg \in Nat /\ Len(fifo) \in Nat
      /\ opt.timeshift \in Nat /\ opt.timeshift > 0 /\ ~opt.drop
      /\ last_sent_dts \in Int /\ last_received_dts \in Nat
  <2>1. sent \in Nat /\ msg \in Nat /\ Len(fifo) \in Nat /\ opt \in Option
    BY Constants DEF Base, Typed, Queue
  <2> QED BY <1>2, <2>1 DEF Option, Early, Complete, Measured
<1>5. CASE Dispatch \/ AttemptRecovery
  <2>1. PICK o : Dispatched(o)
    BY <1>4, <1>5, DispatchTimes
  <2> QED BY <1>2, <1>3, <2>1, DispatchSteady
<1>6. ASSUME Passes PROVE Measured' /\ Shifted'
  BY <1>2, <1>6, PassesSteady
<1>7. overflow_flag = FALSE
  BY <1>2 DEF Measured, Base, Typed
<1>8. CASE GiveUp \/ SetError \/ WriteTrailer \/ Delay
  <2>1. Passes
    BY <1>1, <1>8, <1>7 DEF GiveUp, SetError, WriteTrailer, Delay, vars, Ending, Passes
  <2> QED BY <1>3, <1>6, <2>1
<1>9. CASE TooEarly
  <2>1. Passes
    BY <1>1, <1>4, <1>9, <1>7 DEF TooEarly, TryAgain, vars, Passes
  <2> QED BY <1>3, <1>6, <2>1
<1>10. CASE CheckOverflow
  <2>1. Passes
    BY <1>1, <1>4, <1>10, <1>7 DEF CheckOverflow, vars, Passes
  <2> QED BY <1>3, <1>6, <2>1
<1>11. CASE Receive
  <2>1. CASE RecvErr(consumer) \/ RecvBlock(consumer)
    <3>1. Passes
      BY <1>1, <1>11, <1>7, <2>1 DEF Receive, RecvRead, Ending, Passes
    <3> QED BY <1>3, <1>6, <3>1
  <2>2. CASE RecvRead(consumer) /\ ~RecvErr(consumer) /\ ~RecvBlock(consumer)
    <3>1. /\ cpc = "receive" /\ cpc' \in {"top", "recover"} /\ msg' = Head(fifo) /\ fifo # <<>>
          /\ fifo' = Tail(fifo)
          /\ UNCHANGED <<written, queue_duration, last_received_dts, overflow_flag>>
      BY <1>11, <2>2 DEF Receive, RecvRead
    <3>2. msg' = msg + 1 /\ Len(fifo') = Len(fifo) - 1
      <4>1. msg + Len(fifo) = sent /\ Len(fifo) > 0 /\ Head(fifo) = fifo[1]
            /\ Len(Tail(fifo)) = Len(fifo) - 1
        BY <1>2, <3>1, HeadTailProperties DEF Measured, Ending, Base, Queue
      <4>2. fifo[1] = sent - Len(fifo) + 1
        BY <4>1 DEF Base, Queue
      <4> QED BY <1>4, <3>1, <4>1, <4>2
    <3>3. Measured'
      BY <1>1, <1>2, <1>4, <3>1, <3>2 DEF Measured, InWork, Ending
    <3>4. Shifted'
      BY <1>1, <1>2, <1>4, <3>1, <3>2 DEF Shifted, InWork
    <3> QED BY <1>3, <3>3, <3>4
  <2> QED BY <1>11, <2>1, <2>2 DEF Receive
<1> QED BY <1>5, <1>8, <1>9, <1>10, <1>11 DEF Consumer

LEMMA SteadyStep ==
  ASSUME Base, Base', Steady, [FifoNext]_fifoVars
  PROVE  Steady'
<1>1. Dated'
  BY DatedStep DEF Steady
<1>2. CASE UserSteps
  BY <1>1, <1>2, UserSteady DEF Steady
<1>3. CASE Consumer
  BY <1>1, <1>3, ConsumerSteady DEF Steady
<1>4. CASE UNCHANGED fifoVars
  BY <1>4 DEF fifoVars, vars, userVars, consumerVars, Steady, Dated, Early, Complete, Measured, Shifted
<1> QED BY <1>2, <1>3, <1>4 DEF FifoNext, UserSteps

\* While the user goes on without dropping, a packet is not written before the time
\* that timeshift asks for is in the queue, whatever fails and is tried again.
THEOREM ShiftHolds == FifoSpec => []TimeshiftKept
<1>1. Base /\ Steady => TimeshiftKept
  <2> SUFFICES ASSUME Base, Steady, upc \in {"user", "account", "key", "other"}, ~opt.drop,
                      written # <<>>
               PROVE  offered + 1 >= messages[written[Len(written)]].dts + opt.timeshift
    BY DEF TimeshiftKept
  <2> DEFINE w == written[Len(written)]
  <2>1. /\ sent \in Nat /\ offered \in Nat /\ opt.timeshift \in Nat /\ w \in 1 .. sent
        /\ Len(written) \in DOMAIN written
    <3>1. sent \in Nat /\ offered \in Nat /\ opt \in Option /\ written \in Seq(Nat)
      BY Constants DEF Base, Typed, Queue, History
    <3>2. Len(written) \in DOMAIN written
      BY <3>1
    <3>3. w <= msg /\ w >= 1 /\ w \in Nat
      BY <3>1, <3>2 DEF Base, History, Steady, Dated
    <3>4. msg \in Nat /\ msg <= sent
      <4>1. Len(fifo) \in Nat /\ msg \in Nat /\ msg + Len(fifo) <= sent
        BY DEF Base, Queue
      <4> QED BY <3>1, <4>1
    <3> QED BY <3>1, <3>2, <3>3, <3>4 DEF Option
  <2>2. CASE opt.timeshift = 0
    <3>1. messages[w].dts <= offered /\ messages[w].dts \in Nat
      <4>1. messages[w] \in Message
        BY <2>1 DEF Base, Typed
      <4> QED BY <2>1, <4>1 DEF Steady, Dated, Message
    <3> QED BY <2>1, <2>2, <3>1
  <2>3. CASE opt.timeshift > 0
    <3>1. Complete /\ Shifted
      BY <2>3 DEF Steady, Early
    <3>2. messages[w].dts = w /\ w + opt.timeshift <= last_sent_dts + 1
      BY <2>1, <3>1 DEF Complete, Shifted
    <3>3. last_sent_dts <= offered /\ last_sent_dts \in Int
      BY <2>1, <3>1 DEF Complete
    <3> QED BY <2>1, <3>2, <3>3
  <2> QED BY <2>1, <2>2, <2>3
<1>2. FifoInit => Steady
  BY SteadyInit
<1>3. Base /\ Base' /\ Steady /\ [FifoNext]_fifoVars => Steady'
  BY SteadyStep
<1> QED BY <1>1, <1>2, <1>3, BaseInvariant, PTL DEF FifoSpec
=============================================================================

--------------------------- MODULE ThreadMessage ---------------------------
(***************************************************************************)
(* libavutil/threadmessage.c: a bounded queue of messages between any      *)
(* number of senders and receivers.  Both ends can be given an error code, *)
(* which the other threads get instead of blocking.                        *)
(*                                                                         *)
(* Unlike the thread queue of fftools there are two condition variables,   *)
(* and a message or a free slot is announced to one waiting thread only.   *)
(* The signalled thread may find that another one has been faster.         *)
(*                                                                         *)
(* A critical section is one action; pc[t] is "idle" outside of the        *)
(* queue's functions, "wait" inside pthread_cond_wait() and "woken" between *)
(* the signal and the reacquiring of the mutex.  A call with               *)
(* AV_THREAD_MESSAGE_NONBLOCK differs in returning EAGAIN where the other  *)
(* waits, which changes nothing.                                           *)
(***************************************************************************)
EXTENDS Integers, Sequences, FiniteSets

CONSTANTS
  Senders,    \* threads that call av_thread_message_queue_send()
  Receivers,  \* threads that call av_thread_message_queue_recv()
  NElem,      \* the capacity, nelem of av_thread_message_queue_alloc()
  FreeFunc,   \* was av_thread_message_queue_set_free_func() called?
  MaxSent     \* bound on the messages sent

ASSUME MessageAssumption ==
  /\ IsFiniteSet(Senders) /\ IsFiniteSet(Receivers)
  /\ Senders \cap Receivers = {}
  /\ NElem \in Nat \ {0}
  /\ FreeFunc \in BOOLEAN
  /\ MaxSent \in Nat

Threads == Senders \cup Receivers

VARIABLES
  fifo,      \* the messages, numbered in the order in which they were accepted
  err_send,  \* senders get an error
  err_recv,  \* receivers get an error once the fifo is empty
  pc,        \* pc[t]: "idle", "wait" or "woken"
  sent       \* history: number of the last accepted message

vars == <<fifo, err_send, err_recv, pc, sent>>

InState(T, state) == {t \in T : pc[t] = state}

\* pthread_cond_signal(): one of the waiting threads, if there is any.
Signalled(T) ==
  IF InState(T, "wait") = {} THEN {pc}
  ELSE {[pc EXCEPT ![t] = "woken"] : t \in InState(T, "wait")}

\* pthread_cond_broadcast()
Broadcast(T) ==
  [t \in Threads |-> IF t \in InState(T, "wait") THEN "woken" ELSE pc[t]]

\* av_thread_message_queue_alloc()
Init ==
  /\ fifo = <<>>
  /\ err_send = FALSE
  /\ err_recv = FALSE
  /\ pc = [t \in Threads |-> "idle"]
  /\ sent = 0

-----------------------------------------------------------------------------
(* av_thread_message_queue_send_locked(), from its loop on *)

SendErr(t) ==
  /\ err_send
  /\ pc' = [pc EXCEPT ![t] = "idle"]
  /\ UNCHANGED <<fifo, err_send, err_recv, sent>>

SendBlock(t) ==
  /\ ~err_send
  /\ Len(fifo) = NElem
  /\ pc' = [pc EXCEPT ![t] = "wait"]
  /\ UNCHANGED <<fifo, err_send, err_recv, sent>>

\* Mutant: the message is announced only if it is the first one.
SendWriteFirst(t) ==
  /\ ~err_send
  /\ Len(fifo) < NElem
  /\ fifo' = Append(fifo, sent + 1)
  /\ sent' = sent + 1
  /\ \E p \in IF fifo = <<>> THEN Signalled(Receivers) ELSE {pc} : pc' = [p EXCEPT ![t] = "idle"]
  /\ UNCHANGED <<err_send, err_recv>>

SendWrite(t) ==
  /\ ~err_send
  /\ Len(fifo) < NElem
  /\ fifo' = Append(fifo, sent + 1)
  /\ sent' = sent + 1
  /\ \E p \in Signalled(Receivers) : pc' = [p EXCEPT ![t] = "idle"]
  /\ UNCHANGED <<err_send, err_recv>>

SendLoop(t) == SendErr(t) \/ SendBlock(t) \/ SendWrite(t)

\* A call of av_thread_message_queue_send().
Send(t) == pc[t] = "idle" /\ sent < MaxSent /\ SendLoop(t)

\* pthread_cond_wait() returns.
SendResume(t) == pc[t] = "woken" /\ SendLoop(t)

-----------------------------------------------------------------------------
(* av_thread_message_queue_recv_locked(), from its loop on *)

\* The error is returned only when there is nothing left to read.
RecvErr(t) ==
  /\ err_recv
  /\ fifo = <<>>
  /\ pc' = [pc EXCEPT ![t] = "idle"]
  /\ UNCHANGED <<fifo, err_send, err_recv, sent>>

RecvBlock(t) ==
  /\ ~err_recv
  /\ fifo = <<>>
  /\ pc' = [pc EXCEPT ![t] = "wait"]
  /\ UNCHANGED <<fifo, err_send, err_recv, sent>>

RecvRead(t) ==
  /\ fifo # <<>>
  /\ fifo' = Tail(fifo)
  /\ \E p \in Signalled(Senders) : pc' = [p EXCEPT ![t] = "idle"]
  /\ UNCHANGED <<err_send, err_recv, sent>>

\* A call of av_thread_message_queue_recv(), or the return from the wait.
Recv(t) == pc[t] \in {"idle", "woken"} /\ (RecvErr(t) \/ RecvBlock(t) \/ RecvRead(t))

-----------------------------------------------------------------------------
(* The other calls; each may come from a sender or a receiver. *)

\* av_thread_message_queue_set_err_send(); a code of 0 clears the error.
SetErrSend(t, e) ==
  /\ pc[t] = "idle"
  /\ err_send' = e
  /\ pc' = Broadcast(Senders)
  /\ UNCHANGED <<fifo, err_recv, sent>>

\* av_thread_message_queue_set_err_recv()
SetErrRecv(t, e) ==
  /\ pc[t] = "idle"
  /\ err_recv' = e
  /\ pc' = Broadcast(Receivers)
  /\ UNCHANGED <<fifo, err_send, sent>>

\* Mutant: one slot's worth of senders is woken although all slots are free.
FlushSignal(t) ==
  /\ pc[t] = "idle"
  /\ fifo' = IF FreeFunc THEN <<>> ELSE fifo
  /\ pc' \in Signalled(Senders)
  /\ UNCHANGED <<err_send, err_recv, sent>>

\* av_thread_message_flush(): the messages go through free_func, without which
\* they stay in the queue.
Flush(t) ==
  /\ pc[t] = "idle"
  /\ fifo' = IF FreeFunc THEN <<>> ELSE fifo
  /\ pc' = Broadcast(Senders)
  /\ UNCHANGED <<err_send, err_recv, sent>>

\* pthread_cond_wait() may return without a signal.
SpuriousWake(t) ==
  /\ pc[t] = "wait"
  /\ pc' = [pc EXCEPT ![t] = "woken"]
  /\ UNCHANGED <<fifo, err_send, err_recv, sent>>

Next ==
  \/ \E t \in Senders : Send(t) \/ SendResume(t)
  \/ \E t \in Receivers : Recv(t)
  \/ \E t \in Threads :
       \/ \E e \in BOOLEAN : SetErrSend(t, e) \/ SetErrRecv(t, e)
       \/ Flush(t)
       \/ SpuriousWake(t)

Spec == Init /\ [][Next]_vars

-----------------------------------------------------------------------------
(* Properties *)

TypeOK ==
  /\ fifo \in Seq(Nat)
  /\ Len(fifo) <= NElem
  /\ err_send \in BOOLEAN
  /\ err_recv \in BOOLEAN
  /\ pc \in [Threads -> {"idle", "wait", "woken"}]
  /\ sent \in Nat

\* Signalling one thread per message is enough: as long as a receiver sleeps,
\* every message in the queue has a receiver of its own that is on its way to
\* read it, and an error leaves no receiver asleep.
ReceiversOnTheWay ==
  InState(Receivers, "wait") # {} =>
    /\ ~err_recv
    /\ Len(fifo) <= Cardinality(InState(Receivers, "woken"))

\* The same for the senders and the free slots, whatever flushes and errors that
\* are set and cleared come in between.
SendersOnTheWay ==
  InState(Senders, "wait") # {} =>
    /\ ~err_send
    /\ NElem - Len(fifo) <= Cardinality(InState(Senders, "woken"))
=============================================================================

---------------------------- MODULE ThreadQueue ----------------------------
(***************************************************************************)
(* fftools/thread_queue.c: the blocking queue through which every task of  *)
(* the transcoding pipeline receives its input.                            *)
(*                                                                         *)
(* One mutex and one condition variable protect the queue.  A critical     *)
(* section, from pthread_mutex_lock() or the return of pthread_cond_wait() *)
(* to pthread_mutex_unlock() or the next pthread_cond_wait(), is one       *)
(* action.  A thread is "idle" outside of the queue's functions, "wait"    *)
(* inside pthread_cond_wait(), and "woken" between the broadcast and its   *)
(* reacquiring of the mutex; other threads may enter in between.           *)
(*                                                                         *)
(* As in ffmpeg_sched.c, each queue is read by one thread and each stream  *)
(* may have several senders (a decoder's only stream is fed by a demuxer   *)
(* and by the subtitle heartbeats of a muxer).                             *)
(***************************************************************************)
EXTENDS Integers, Sequences

CONSTANTS
  NbStreams,     \* number of streams, nb_streams of tq_alloc()
  QueueSize,     \* capacity, queue_size of tq_alloc()
  Senders,       \* the sending threads
  Receiver,      \* the receiving thread
  StreamOf,      \* the stream each sender feeds
  AllocMayFail,  \* may av_container_fifo_write() run out of memory?
  MaxItems,      \* bound on the items a stream is offered
  MaxChokes      \* bound on how often the scheduler chokes the queue

Streams == 0 .. NbStreams - 1

ASSUME QueueAssumption ==
  /\ NbStreams \in Nat \ {0}
  /\ QueueSize \in Nat \ {0}
  /\ Receiver \notin Senders
  /\ StreamOf \in [Senders -> Streams]
  /\ AllocMayFail \in BOOLEAN
  /\ MaxItems \in Nat
  /\ MaxChokes \in Nat

Threads == Senders \cup {Receiver}

VARIABLES
  choked,             \* the receiver must not read
  finished,           \* finished[s]: the flags FINISHED_SEND and FINISHED_RECV
  fifo,               \* the queued items, in an auto-growing container fifo
  fifo_stream_index,  \* their stream indices, in a fifo of fixed size
  pc,                 \* pc[t]: "idle", "wait" or "woken"
  accepted,           \* history: items of s for which tq_send() returned 0
  delivered,          \* history: number of the last item returned for s
  eofs,               \* history: how often the EOF of s was returned
  chokes              \* how often the queue was choked, for MaxChokes

queue   == <<choked, finished, fifo, fifo_stream_index>>
history == <<accepted, delivered, eofs, chokes>>
vars    == <<choked, finished, fifo, fifo_stream_index, pc,
             accepted, delivered, eofs, chokes>>

-----------------------------------------------------------------------------
Item == [stream : Streams, n : Nat]

\* finished[s] after the flag f is or'ed in.
Flag(s, f) == [finished EXCEPT ![s] = @ \cup {f}]

\* pthread_cond_broadcast(): every waiting thread will compete for the mutex.
Broadcast == [t \in Threads |-> IF pc[t] = "wait" THEN "woken" ELSE pc[t]]

\* tq_alloc(): an empty, unchoked queue with all streams open.
Init ==
  /\ choked = FALSE
  /\ finished = [s \in Streams |-> {}]
  /\ fifo = <<>>
  /\ fifo_stream_index = <<>>
  /\ pc = [t \in Threads |-> "idle"]
  /\ accepted  = [s \in Streams |-> 0]
  /\ delivered = [s \in Streams |-> 0]
  /\ eofs      = [s \in Streams |-> 0]
  /\ chokes = 0

-----------------------------------------------------------------------------
(* tq_send() *)

\* Mutant: one entry too many.
CanWriteOffByOne == Len(fifo_stream_index) <= QueueSize

CanWrite == Len(fifo_stream_index) < QueueSize

\* The receiving side is finished: return EOF and remember it.
SendEof(t, s) ==
  /\ "RECV" \in finished[s]
  /\ finished' = Flag(s, "SEND")
  /\ pc' = [pc EXCEPT ![t] = "idle"]
  /\ UNCHANGED <<choked, fifo, fifo_stream_index, history>>

\* No room: release the mutex and wait.
SendBlock(t, s) ==
  /\ "RECV" \notin finished[s]
  /\ ~CanWrite
  /\ pc' = [pc EXCEPT ![t] = "wait"]
  /\ UNCHANGED <<queue, history>>

\* Mutant: the receiver's flag is not looked at again after the wait.
SendWriteUnwanted(t, s) ==
  /\ CanWrite
  /\ fifo_stream_index' = Append(fifo_stream_index, s)
  /\ fifo' = Append(fifo, [stream |-> s, n |-> accepted[s] + 1])
  /\ accepted' = [accepted EXCEPT ![s] = @ + 1]
  /\ pc' = [Broadcast EXCEPT ![t] = "idle"]
  /\ UNCHANGED <<choked, finished, delivered, eofs, chokes>>

\* Write the stream index and the item, in this order, and wake everyone.
SendWrite(t, s) ==
  /\ "RECV" \notin finished[s]
  /\ CanWrite
  /\ fifo_stream_index' = Append(fifo_stream_index, s)
  /\ fifo' = Append(fifo, [stream |-> s, n |-> accepted[s] + 1])
  /\ accepted' = [accepted EXCEPT ![s] = @ + 1]
  /\ pc' = [Broadcast EXCEPT ![t] = "idle"]
  /\ UNCHANGED <<choked, finished, delivered, eofs, chokes>>

\* The container fifo cannot allocate an entry: ENOMEM is returned with the
\* stream index already written and without a broadcast.
SendNoMem(t, s) ==
  /\ AllocMayFail
  /\ "RECV" \notin finished[s]
  /\ CanWrite
  /\ fifo_stream_index' = Append(fifo_stream_index, s)
  /\ pc' = [pc EXCEPT ![t] = "idle"]
  /\ UNCHANGED <<choked, finished, fifo, history>>

\* The part of tq_send() from the wait loop on.
SendLoop(t) ==
  LET s == StreamOf[t]
  IN  SendEof(t, s) \/ SendBlock(t, s) \/ SendWrite(t, s) \/ SendNoMem(t, s)

\* A call of tq_send(); on a send-finished stream it returns EINVAL and changes
\* nothing.
Send(t) ==
  /\ pc[t] = "idle"
  /\ "SEND" \notin finished[StreamOf[t]]
  /\ accepted[StreamOf[t]] < MaxItems
  /\ SendLoop(t)

\* pthread_cond_wait() returns; FINISHED_SEND is not looked at again.
SendResume(t) == pc[t] = "woken" /\ SendLoop(t)

\* Mutant: the reader is not woken.
SendFinishSilently(t) ==
  /\ pc[t] = "idle"
  /\ finished' = Flag(StreamOf[t], "SEND")
  /\ choked' = FALSE
  /\ UNCHANGED <<fifo, fifo_stream_index, pc, history>>

\* tq_send_finish(): also unchokes the queue, so that the EOF can be read.
SendFinish(t) ==
  /\ pc[t] = "idle"
  /\ finished' = Flag(StreamOf[t], "SEND")
  /\ choked' = FALSE
  /\ pc' = Broadcast
  /\ UNCHANGED <<fifo, fifo_stream_index, history>>

-----------------------------------------------------------------------------
(* tq_receive() *)

\* Items of streams the receiver has finished with are dropped by the reader.
Live(i) == "RECV" \notin finished[fifo_stream_index[i]]

FirstLive(k) == /\ k \in DOMAIN fifo
                /\ Live(k)
                /\ \A j \in 1 .. k - 1 : ~Live(j)

NoneLive == \A j \in DOMAIN fifo : ~Live(j)

\* Mutant: the stream index of a dropped item is not read.
DrainFifoOnly(k) ==
  /\ fifo' = SubSeq(fifo, k + 1, Len(fifo))
  /\ fifo_stream_index' = SubSeq(fifo_stream_index, 2, Len(fifo_stream_index))

\* Both fifos without their first k entries.
Drain(k) ==
  /\ fifo' = SubSeq(fifo, k + 1, Len(fifo))
  /\ fifo_stream_index' = SubSeq(fifo_stream_index, k + 1, Len(fifo_stream_index))

\* Mutant: nobody is told that dropped items have made room.
NoBroadcastIfDrained == pc

\* Only a change of the fifo's length is broadcast.
BroadcastIfDrained == IF fifo = <<>> THEN pc ELSE Broadcast

\* The next item of a stream that still has a reader.
ReceiveItem ==
  /\ ~choked
  /\ \E k \in DOMAIN fifo :
       /\ FirstLive(k)
       /\ Drain(k)
       /\ delivered' = [delivered EXCEPT ![fifo_stream_index[k]] = fifo[k].n]
  /\ pc' = [Broadcast EXCEPT ![Receiver] = "idle"]
  /\ UNCHANGED <<choked, finished, accepted, eofs, chokes>>

\* The stream is send-finished and its EOF was not returned yet.
EofPending(s) == "SEND" \in finished[s] /\ "RECV" \notin finished[s]

\* Nothing to read: report the end of the first such stream.
ReceiveEof ==
  /\ ~choked
  /\ NoneLive
  /\ \E s \in Streams :
       /\ EofPending(s)
       /\ \A r \in 0 .. s - 1 : ~EofPending(r)
       /\ finished' = Flag(s, "RECV")
       /\ eofs' = [eofs EXCEPT ![s] = @ + 1]
  /\ Drain(Len(fifo))
  /\ pc' = [BroadcastIfDrained EXCEPT ![Receiver] = "idle"]
  /\ UNCHANGED <<choked, accepted, delivered, chokes>>

\* Every stream is finished: EOF with stream index -1, however often it is asked.
AllFinished == \A s \in Streams : "RECV" \in finished[s]

ReceiveEnd ==
  /\ ~choked
  /\ NoneLive
  /\ AllFinished
  /\ Drain(Len(fifo))
  /\ pc' = [BroadcastIfDrained EXCEPT ![Receiver] = "idle"]
  /\ UNCHANGED <<choked, finished, history>>

\* AVERROR(EAGAIN): the queue is choked and nothing was looked at, or all that
\* was queued has been dropped.  A blocking call goes on to wait; its own
\* broadcast comes before that and does not wake it.
NothingYet(next) ==
  \/ /\ choked
     /\ pc' = [pc EXCEPT ![Receiver] = next]
     /\ UNCHANGED <<queue, history>>
  \/ /\ ~choked
     /\ NoneLive
     /\ ~AllFinished
     /\ \A s \in Streams : ~EofPending(s)
     /\ Drain(Len(fifo))
     /\ pc' = [BroadcastIfDrained EXCEPT ![Receiver] = next]
     /\ UNCHANGED <<choked, finished, history>>

\* A call of tq_receive(), or its return from pthread_cond_wait().
Receive ==
  /\ pc[Receiver] \in {"idle", "woken"}
  /\ ReceiveItem \/ ReceiveEof \/ ReceiveEnd \/ NothingYet("wait")

\* A call with THREAD_QUEUE_FLAG_NO_BLOCK that finds nothing.
Poll == pc[Receiver] = "idle" /\ NothingYet("idle")

\* tq_receive_finish(), called by the receiving thread.
ReceiveFinish(s) ==
  /\ pc[Receiver] = "idle"
  /\ finished' = Flag(s, "RECV")
  /\ pc' = Broadcast
  /\ UNCHANGED <<choked, fifo, fifo_stream_index, history>>

-----------------------------------------------------------------------------
\* tq_choke(), called by whichever thread runs the scheduler.  Only a change
\* is broadcast.
SetChoked(b) ==
  /\ choked' = b
  /\ pc' = IF choked = b THEN pc ELSE Broadcast
  /\ UNCHANGED <<finished, fifo, fifo_stream_index, accepted, delivered, eofs>>

Choke   == chokes < MaxChokes /\ chokes' = chokes + 1 /\ SetChoked(TRUE)
Unchoke == SetChoked(FALSE) /\ UNCHANGED chokes

\* pthread_cond_wait() may return without a broadcast.
SpuriousWake(t) ==
  /\ pc[t] = "wait"
  /\ pc' = [pc EXCEPT ![t] = "woken"]
  /\ UNCHANGED <<queue, history>>

Next ==
  \/ \E t \in Senders : Send(t) \/ SendResume(t) \/ SendFinish(t)
  \/ Receive
  \/ Poll
  \/ \E s \in Streams : ReceiveFinish(s)
  \/ Choke \/ Unchoke
  \/ \E t \in Threads : SpuriousWake(t)

Spec == Init /\ [][Next]_vars

EndOfTask(t) == SendFinish(t) /\ "SEND" \notin finished[StreamOf[t]]

\* A woken thread reacquires the mutex; the receiver keeps reading, as the task
\* loops of ffmpeg do; every sender ends its stream when its task returns; and
\* the scheduler unchokes what it has choked (schedule_update_locked()).
Fairness ==
  /\ \A t \in Senders : WF_vars(SendResume(t)) /\ WF_vars(EndOfTask(t))
  /\ WF_vars(Receive)
  /\ WF_vars(Unchoke)

FairSpec == Spec /\ Fairness

-----------------------------------------------------------------------------
(* Properties *)

\* Every variable has its type and neither fifo exceeds the capacity given to
\* tq_alloc().
TypeOK ==
  /\ choked \in BOOLEAN
  /\ finished \in [Streams -> SUBSET {"SEND", "RECV"}]
  /\ fifo \in Seq(Item)
  /\ fifo_stream_index \in Seq(Streams)
  /\ Len(fifo) <= Len(fifo_stream_index)
  /\ Len(fifo_stream_index) <= QueueSize
  /\ pc \in [Threads -> {"idle", "wait", "woken"}]
  /\ accepted  \in [Streams -> Nat]
  /\ delivered \in [Streams -> Nat]
  /\ eofs      \in [Streams -> Nat]
  /\ chokes \in Nat

\* The i-th stream index belongs to the i-th item: "the index of the stream that
\* was processed", written by tq_receive(), is the one the item was sent to.
IndexOfItsStream == \A i \in DOMAIN fifo : fifo[i].stream = fifo_stream_index[i]

\* The two fifos stay in lockstep: no index without an item, so that the fixed
\* size of the one bounds the other, and every index is that of its item.
FifosInLockstep == Len(fifo) = Len(fifo_stream_index) /\ IndexOfItsStream

\* No item is lost, duplicated or reordered: what is queued of a stream that
\* still has a reader is exactly what was accepted and not yet delivered, in
\* the order of acceptance, whoever sent it.
ItemsInOrder ==
  /\ \A i, j \in DOMAIN fifo :
       i < j /\ fifo[i].stream = fifo[j].stream => fifo[i].n < fifo[j].n
  /\ \A s \in Streams : "RECV" \notin finished[s] =>
       \A n \in 1 .. accepted[s] :
         delivered[s] < n <=> \E i \in DOMAIN fifo : fifo[i] = [stream |-> s, n |-> n]

\* When the end of a stream is reported, all of its items were delivered, those
\* included whose tq_send() was blocked when another sender ended the stream.
EofAfterAll == \A s \in Streams : eofs[s] > 0 => delivered[s] = accepted[s]

\* The end of a stream is reported at most once, and it is final: nothing of the
\* stream is accepted or delivered afterwards.
EofOnceAndLast ==
  [][\A s \in Streams : eofs[s] > 0 =>
       eofs'[s] = eofs[s] /\ accepted'[s] = accepted[s] /\ delivered'[s] = delivered[s]]_vars

\* No wake-up is lost: a thread inside pthread_cond_wait() has nothing to do.  A
\* sender waits only for room and only while its stream is wanted; the receiver
\* only while it is choked or while there is no item and no end to report.
NoLostWakeup ==
  /\ \A t \in Senders : pc[t] = "wait" =>
       ~CanWrite /\ "RECV" \notin finished[StreamOf[t]]
  /\ pc[Receiver] = "wait" =>
       choked \/ (NoneLive /\ ~AllFinished /\ \A s \in Streams : ~EofPending(s))

\* A blocked tq_send() returns: the reader makes room or refuses the stream.
SendReturns == \A t \in Senders : pc[t] = "wait" ~> pc[t] = "idle"

\* The receiver is told about the end of every stream or has itself refused it,
\* although senders block, the queue is choked at any time and the streams end
\* in any order.
ReceiverSeesEnd == \A s \in Streams : <>("RECV" \in finished[s])

\* Everybody comes to an end: the blocked senders and the reader.
EndsReached == SendReturns /\ ReceiverSeesEnd

-----------------------------------------------------------------------------
(* Refinement: the queue implements one FIFO channel per stream. *)

phase == [s \in Streams |->
            IF eofs[s] > 0 THEN "eof"
            ELSE IF "RECV" \in finished[s] THEN "refused"
            ELSE IF "SEND" \in finished[s] THEN "ended" ELSE "open"]

Channel == INSTANCE StreamChannel

\* Senders and receiver see the channels of StreamChannel: an item is taken only
\* before the end, items come out in order, and the end comes after all of them.
Channels == Channel!Spec
=============================================================================

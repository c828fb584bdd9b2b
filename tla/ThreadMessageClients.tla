----------------------- MODULE ThreadMessageClients ------------------------
(***************************************************************************)
(* tests/api/api-threadmessage-test.c: senders and receivers with a fixed  *)
(* amount of work each share one queue.  Whoever is done, or fails, sets   *)
(* the error code of the other side: the only thing that ends the threads  *)
(* that have more to send than is received, or that wait for more than is  *)
(* sent.                                                                   *)
(***************************************************************************)
EXTENDS ThreadMessage

CONSTANT Workload   \* Workload[t]: the iterations of t's loop, get_workload()

ASSUME WorkloadAssumption == Workload \in [Threads -> Nat]

VARIABLES
  left,   \* left[t]: iterations left
  done    \* done[t]: t has returned

allVars == <<vars, left, done>>

ClientsInit == /\ Init
               /\ left = Workload
               /\ done = [t \in Threads |-> FALSE]

OneLess(t) == left' = [left EXCEPT ![t] = @ - 1]
Break(t)   == left' = [left EXCEPT ![t] = 0]

\* An iteration of sender_thread(): it flushes the queue, fails to allocate a
\* frame, or sends one.
SenderWork(t) ==
  /\ left[t] > 0
  /\ \/ pc[t] = "idle" /\ UNCHANGED vars /\ Break(t)
     \/ Flush(t) /\ OneLess(t)
     \/ /\ pc[t] \in {"idle", "woken"}
        /\ \/ SendErr(t) /\ Break(t)
           \/ SendBlock(t) /\ UNCHANGED left
           \/ SendWrite(t) /\ OneLess(t)
  /\ UNCHANGED done

\* Mutant: the receivers are not told.
SenderDoneSilently(t) ==
  /\ left[t] = 0 /\ ~done[t]
  /\ pc[t] = "idle"
  /\ done' = [done EXCEPT ![t] = TRUE]
  /\ UNCHANGED <<vars, left>>

\* The end of sender_thread().
SenderDone(t) ==
  /\ left[t] = 0 /\ ~done[t]
  /\ SetErrRecv(t, TRUE)
  /\ done' = [done EXCEPT ![t] = TRUE]
  /\ UNCHANGED left

\* An iteration of receiver_thread().
ReceiverWork(t) ==
  /\ left[t] > 0
  /\ \/ Flush(t) /\ OneLess(t)
     \/ /\ pc[t] \in {"idle", "woken"}
        /\ \/ RecvErr(t) /\ Break(t)
           \/ RecvBlock(t) /\ UNCHANGED left
           \/ RecvRead(t) /\ OneLess(t)
  /\ UNCHANGED done

\* The end of receiver_thread().
ReceiverDone(t) ==
  /\ left[t] = 0 /\ ~done[t]
  /\ SetErrSend(t, TRUE)
  /\ done' = [done EXCEPT ![t] = TRUE]
  /\ UNCHANGED left

Client(t) == \/ t \in Senders /\ (SenderWork(t) \/ SenderDone(t))
             \/ t \in Receivers /\ (ReceiverWork(t) \/ ReceiverDone(t))

ClientsNext == \/ \E t \in Threads : Client(t)
               \/ \E t \in Threads : SpuriousWake(t) /\ UNCHANGED <<left, done>>

\* Every thread that can run eventually does.
ClientsSpec == /\ ClientsInit
               /\ [][ClientsNext]_allVars
               /\ \A t \in Threads : WF_allVars(Client(t))

-----------------------------------------------------------------------------
\* pthread_join() returns for every thread, whatever the shares of work are: a
\* thread that has nothing left to send or to receive always releases the others.
AllJoin == <>(\A t \in Threads : done[t])
=============================================================================

--------------------------- MODULE StreamChannel ---------------------------
(***************************************************************************)
(* What fftools/thread_queue.h promises to the tasks of the transcoding    *)
(* pipeline, without locks, condition variables or a bounded buffer: a set *)
(* of streams, each a FIFO channel that is ended once by its sending side  *)
(* or refused by its receiving side.  Items of a stream are numbered       *)
(* 1, 2, 3, ... in the order in which they were accepted.                  *)
(***************************************************************************)
EXTENDS Naturals

CONSTANT Streams       \* the streams for which a distinct EOF is maintained

VARIABLES
  phase,      \* phase[s]: "open", "ended", "eof" or "refused"
  accepted,   \* accepted[s]: number of items of s accepted from the senders
  delivered   \* delivered[s]: number of the last item of s given to the receiver

vars == <<phase, accepted, delivered>>

Init == /\ phase     = [s \in Streams |-> "open"]
        /\ accepted  = [s \in Streams |-> 0]
        /\ delivered = [s \in Streams |-> 0]

\* An item is accepted as long as the receiver has not seen the end of s and
\* has not refused it.  A send that was already under way when another sender
\* ended the stream may still be accepted.
Put(s) == /\ phase[s] \in {"open", "ended"}
          /\ accepted' = [accepted EXCEPT ![s] = @ + 1]
          /\ UNCHANGED <<phase, delivered>>

\* The receiver gets the items of s one by one, in order and without a gap.
Get(s) == /\ phase[s] \in {"open", "ended"}
          /\ delivered[s] < accepted[s]
          /\ delivered' = [delivered EXCEPT ![s] = @ + 1]
          /\ UNCHANGED <<phase, accepted>>

\* The sending side ends the stream.
End(s) == /\ phase[s] = "open"
          /\ phase' = [phase EXCEPT ![s] = "ended"]
          /\ UNCHANGED <<accepted, delivered>>

\* The receiver is told about the end, after every accepted item.
Eof(s) == /\ phase[s] = "ended"
          /\ delivered[s] = accepted[s]
          /\ phase' = [phase EXCEPT ![s] = "eof"]
          /\ UNCHANGED <<accepted, delivered>>

\* The receiving side no longer wants the stream.
Refuse(s) == /\ phase[s] \in {"open", "ended"}
             /\ phase' = [phase EXCEPT ![s] = "refused"]
             /\ UNCHANGED <<accepted, delivered>>

Next == \E s \in Streams : Put(s) \/ Get(s) \/ End(s) \/ Eof(s) \/ Refuse(s)

Spec == Init /\ [][Next]_vars
=============================================================================

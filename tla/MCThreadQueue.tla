--------------------------- MODULE MCThreadQueue ---------------------------
(***************************************************************************)
(* ThreadQueue for TLC: two streams, one of them fed by two senders, as a  *)
(* decoder's queue is fed by a demuxer and a subtitle heartbeat, and one   *)
(* by a single sender.                                                     *)
(***************************************************************************)
EXTENDS ThreadQueue, TLC

CONSTANTS a1, a2, b, r

MCSenders == {a1, a2, b}
MCStreamOf == (a1 :> 0) @@ (a2 :> 0) @@ (b :> 1)
=============================================================================

---------------------------- MODULE MCFifoMuxer ----------------------------
(* The kinds of options that change what the muxer does. *)
EXTENDS FifoMuxer

Plain == [drop |-> FALSE, keyframe |-> FALSE, recover |-> FALSE, attempts |-> 0,
          streamtime |-> FALSE, timeshift |-> 0]

MCOptions ==
  {[Plain EXCEPT !.recover = TRUE, !.attempts = 2],
   [Plain EXCEPT !.recover = TRUE, !.timeshift = 2],
   [Plain EXCEPT !.drop = TRUE, !.keyframe = TRUE, !.recover = TRUE],
   [Plain EXCEPT !.drop = TRUE, !.keyframe = TRUE, !.recover = TRUE, !.streamtime = TRUE,
                 !.attempts = 2],
   [Plain EXCEPT !.drop = TRUE, !.timeshift = 2]}
=============================================================================

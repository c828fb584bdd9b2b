---------------------------- MODULE MCSyncQueue ----------------------------
(***************************************************************************)
(* SyncQueue for TLC: the setups it is checked with.                       *)
(***************************************************************************)
EXTENDS SyncQueue

Smallest == -64

\* -shortest with two limiting streams of different time bases, one of them with
\* a frame limit, and a third stream that is only kept in step; with gaps.
Shortest == [nb_streams |-> 3, limiting |-> (0 :> TRUE) @@ (1 :> TRUE) @@ (2 :> FALSE),
             frames_max |-> (0 :> NoLimit) @@ (1 :> 2) @@ (2 :> NoLimit),
             frame_samples |-> [i \in 0 .. 2 |-> 0],
             tick |-> (0 :> 2) @@ (1 :> 3) @@ (2 :> 1),
             gaps |-> {0, 1}, durs |-> {1}, frames |-> 3]

\* Two streams of packets whose timestamps are not in order.
Packets == [nb_streams |-> 2, limiting |-> [i \in 0 .. 1 |-> TRUE],
            frames_max |-> [i \in 0 .. 1 |-> NoLimit],
            frame_samples |-> [i \in 0 .. 1 |-> 0],
            tick |-> [i \in 0 .. 1 |-> 1],
            gaps |-> {-2, 0, 1}, durs |-> {1}, frames |-> 4]

\* Video, and audio whose encoder takes frames of two samples.
Audio == [Packets EXCEPT !.frame_samples = (0 :> 0) @@ (1 :> 2),
                         !.tick = (0 :> 3) @@ (1 :> 1),
                         !.gaps = {0}, !.durs = {1, 3}, !.frames = 5]

\* The same with one frame of audio.
LimitedAudio == [Audio EXCEPT !.frames_max = (0 :> NoLimit) @@ (1 :> 1)]

MCSetups == {Shortest, Packets, Audio, LimitedAudio}
=============================================================================

--------------------------- MODULE MCFrameThreads ---------------------------
(* Instance of FrameThreads for TLC.                                        *)
EXTENDS FrameThreads

\* An intra-only codec, one that shares contexts and has no delay, with a hwaccel
\* that is safe, and one with delay and a hwaccel that is not.
MCCodecs ==
  {[update |-> FALSE, delay |-> FALSE, offered |-> {}],
   [update |-> TRUE,  delay |-> FALSE, offered |-> {"vulkan"}],
   [update |-> TRUE,  delay |-> TRUE,  offered |-> {"dxva"}]}

MCPacketResults == {<<>>, <<"frame", "error">>}
MCDrainResults  == {<<"frame", "eof">>}
=============================================================================

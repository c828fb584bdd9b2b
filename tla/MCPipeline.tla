----------------------------- MODULE MCPipeline -----------------------------
(* Small transcoding graphs for TLC, and a reduction of their interleavings. *)
EXTENDS Pipeline

NoLimit == 99

\* Encoders without a sync queue, and one by its encoders, which of its streams
\* limit the others, and by how many frames they are limited themselves.
NoSync == [enc |-> <<>>, nb_streams |-> 0]
Sync(enc, limiting, frames_max) ==
  LET S == 0 .. Len(enc) - 1
  IN  [enc |-> enc, nb_streams |-> Len(enc), limiting |-> limiting, frames_max |-> frames_max,
       frame_samples |-> [i \in S |-> 0], tick |-> [i \in S |-> 1]]

\* What most graphs do without.
Plain == [sync |-> NoSync, unwritable |-> {}, beat |-> [ms \in {"m0"} \X {0, 1} |-> <<>>]]

\* [0:0][0:1]concat: two streams of one file, one after the other.
ConcatOne ==
  Plain @@
  [demux |-> <<"d0">>, dec |-> <<"c0", "c1">>, filters |-> <<"f0">>, enc |-> <<"e0">>, mux |-> <<"m0">>,
   muxStreams |-> << <<"m0", 0>> >>, filterIns |-> << <<"f0", 0>>, <<"f0", 1>> >>,
   streams |-> "d0" :> << << <<"c0", 0>> >>, << <<"c1", 0>> >> >>,
   out |-> "c0" :> << <<"f0", 0>> >> @@ "c1" :> << <<"f0", 1>> >>
            @@ "f0" :> << <<"e0", 0>> >> @@ "e0" :> << <<"m0", 0>> >>,
   file |-> "d0" :> <<1, 2>>, loop |-> "d0" :> 0, endts |-> {},
   kind |-> "f0" :> "concat", mult |-> "f0" :> 1, frames |-> "f0" :> 0,
   trim |-> <<"f0", 0>> :> NoLimit @@ <<"f0", 1>> :> NoLimit,
   limit |-> <<"m0", 0>> :> NoLimit,
   want |-> <<"m0", 0>> :> 2]

\* [0:0][0:1]hstack: two streams of one file in step, badly interleaved.
StackOne == [ConcatOne EXCEPT !.kind = "f0" :> "sync", !.file = "d0" :> <<1, 1, 1, 2>>,
                              !.want = <<"m0", 0>> :> 1]

\* color[b],[0:0]trim[a],[a][b]concat: a file cut off after one frame (by its
\* second; the third is refused), and a source filtergraph.
TrimThenSource ==
  Plain @@
  [demux |-> <<"d0">>, dec |-> <<"c0">>, filters |-> <<"f0", "f1">>, enc |-> <<"e0">>, mux |-> <<"m0">>,
   muxStreams |-> << <<"m0", 0>> >>, filterIns |-> << <<"f1", 0>>, <<"f1", 1>> >>,
   streams |-> "d0" :> << << <<"c0", 0>> >> >>,
   out |-> "c0" :> << <<"f1", 0>> >> @@ "f0" :> << <<"f1", 1>> >>
            @@ "f1" :> << <<"e0", 0>> >> @@ "e0" :> << <<"m0", 0>> >>,
   file |-> "d0" :> <<1, 1, 1>>, loop |-> "d0" :> 0, endts |-> {},
   kind |-> "f0" :> "source" @@ "f1" :> "concat", mult |-> "f0" :> 1 @@ "f1" :> 1,
   frames |-> "f0" :> 1 @@ "f1" :> 0,
   trim |-> <<"f1", 0>> :> 1 @@ <<"f1", 1>> :> NoLimit,
   limit |-> <<"m0", 0>> :> NoLimit,
   want |-> <<"m0", 0>> :> 2]

\* One file, its video through a filter that doubles the frame rate, its audio
\* copied and cut off by the muxer.
DoubleRate ==
  Plain @@
  [demux |-> <<"d0">>, dec |-> <<"c0">>, filters |-> <<"f0">>, enc |-> <<"e0">>, mux |-> <<"m0">>,
   muxStreams |-> << <<"m0", 0>>, <<"m0", 1>> >>, filterIns |-> << <<"f0", 0>> >>,
   streams |-> "d0" :> << << <<"c0", 0>> >>, << <<"m0", 1>> >> >>,
   out |-> "c0" :> << <<"f0", 0>> >> @@ "f0" :> << <<"e0", 0>> >> @@ "e0" :> << <<"m0", 0>> >>,
   file |-> "d0" :> <<1, 2, 2, 2>>, loop |-> "d0" :> 0, endts |-> {},
   kind |-> "f0" :> "concat", mult |-> "f0" :> 2, frames |-> "f0" :> 0,
   trim |-> <<"f0", 0>> :> NoLimit,
   limit |-> <<"m0", 0>> :> NoLimit @@ <<"m0", 1>> :> 1,
   want |-> <<"m0", 0>> :> 2 @@ <<"m0", 1>> :> 1]

\* The only stream of a file filtered and encoded, and the file looped; the header
\* of the output may be impossible to write.
FilterOnly ==
  [DoubleRate EXCEPT !.unwritable = {"m0"}, !.mult = "f0" :> 1, !.file = "d0" :> <<1>>,
                     !.loop = "d0" :> 1, !.endts = {"c0"}, !.want = <<"m0", 0>> :> 2,
                     !.muxStreams = << <<"m0", 0>> >>,
                     !.streams = "d0" :> << << <<"c0", 0>> >> >>]

\* -stream_loop 1: a looped file, one stream filtered and encoded, one copied.
Looped ==
  [DoubleRate EXCEPT !.mult = "f0" :> 1, !.file = "d0" :> <<1, 2>>,
                     !.loop = "d0" :> 1, !.endts = {"c0"},
                     !.limit = <<"m0", 0>> :> NoLimit @@ <<"m0", 1>> :> NoLimit,
                     !.want = <<"m0", 0>> :> 2 @@ <<"m0", 1>> :> 2]

\* Badly interleaved: the only frame that is encoded comes before packets that are
\* copied.
BadlyInterleaved ==
  [DoubleRate EXCEPT !.mult = "f0" :> 1, !.file = "d0" :> <<1, 2, 2>>,
                     !.limit = <<"m0", 0>> :> NoLimit @@ <<"m0", 1>> :> NoLimit,
                     !.want = <<"m0", 0>> :> 1 @@ <<"m0", 1>> :> 2]

\* -fix_sub_duration: subtitles, which are decoded and encoded without a filter,
\* and heartbeats for them from the stream that is copied.
Subtitles(file, subtitles, copied) ==
  [Looped EXCEPT !.filters = <<>>, !.filterIns = <<>>,
                 !.file = "d0" :> file, !.loop = "d0" :> 0, !.endts = {},
                 !.out = "c0" :> << <<"e0", 0>> >> @@ "e0" :> << <<"m0", 0>> >>,
                 !.beat[<<"m0", 1>>] = <<"c0">>,
                 !.want = <<"m0", 0>> :> subtitles @@ <<"m0", 1>> :> copied]

\* -i 0 -i 1 -c copy: two files, each a stream of one output.
CopyTwo(n) ==
  Plain @@
  [demux |-> <<"d0", "d1">>, dec |-> <<>>, filters |-> <<>>, enc |-> <<>>, mux |-> <<"m0">>,
   muxStreams |-> << <<"m0", 0>>, <<"m0", 1>> >>, filterIns |-> <<>>,
   streams |-> "d0" :> << << <<"m0", 0>> >> >> @@ "d1" :> << << <<"m0", 1>> >> >>,
   out |-> <<>>,
   file |-> "d0" :> [i \in 1 .. n |-> 1] @@ "d1" :> [i \in 1 .. n |-> 1],
   loop |-> "d0" :> 0 @@ "d1" :> 0, endts |-> {},
   kind |-> <<>>, mult |-> <<>>, frames |-> <<>>, trim |-> <<>>,
   limit |-> <<"m0", 0>> :> NoLimit @@ <<"m0", 1>> :> NoLimit,
   want |-> <<"m0", 0>> :> n @@ <<"m0", 1>> :> n]

\* -f lavfi -i color -f lavfi -i sine -frames:v 4: two sources, the second of which
\* ends first, and encoders e and f that are kept in step.
Sources(e, f, made, limiting, frames_max, want) ==
  [Plain EXCEPT !.sync = Sync(<<e, f>>, 0 :> limiting[1] @@ 1 :> limiting[2],
                              0 :> frames_max @@ 1 :> -1)] @@
  [demux |-> <<>>, dec |-> <<>>, filters |-> <<"f0", "f1">>, enc |-> <<e, f>>, mux |-> <<"m0">>,
   muxStreams |-> << <<"m0", 0>>, <<"m0", 1>> >>, filterIns |-> <<>>, streams |-> <<>>,
   out |-> "f0" :> << <<e, 0>> >> @@ "f1" :> << <<f, 0>> >>
            @@ e :> << <<"m0", 0>> >> @@ f :> << <<"m0", 1>> >>,
   file |-> <<>>, loop |-> <<>>, endts |-> {},
   kind |-> [g \in {"f0", "f1"} |-> "source"], mult |-> [g \in {"f0", "f1"} |-> 1],
   frames |-> "f0" :> made[1] @@ "f1" :> made[2], trim |-> <<>>,
   limit |-> <<"m0", 0>> :> NoLimit @@ <<"m0", 1>> :> NoLimit,
   want |-> <<"m0", 0>> :> want[1] @@ <<"m0", 1>> :> want[2]]

FramesOnly == Sources("e0", "e1", <<5, 1>>, <<TRUE, FALSE>>, 4, <<4, 1>>)

\* -shortest; the same where one source makes nothing and the encoder of the other,
\* whose frames the sync queue keeps, may fail.
ShortestOf == Sources("e0", "e1", <<2, 1>>, <<TRUE, TRUE>>, -1, <<1, 1>>)
EmptyOne   == Sources("e2", "e3", <<2, 0>>, <<TRUE, TRUE>>, -1, <<0, 0>>)

GraphsToFinish ==
  {Connected(B) : B \in {CopyTwo(4), StackOne, TrimThenSource, DoubleRate, Looped,
                       FramesOnly, Subtitles(<<1, 2, 2, 1, 2>>, 2, 3)}}
GraphsToStop ==
  {Connected(B) : B \in {CopyTwo(2), FilterOnly, Subtitles(<<1, 2, 2>>, 1, 2), ShortestOf, EmptyOne}}
GraphsToBuffer == {Connected(BadlyInterleaved)}

-----------------------------------------------------------------------------
\* The item t takes from its queue next.
NextItem(t) == q[t][FirstWanted(t)]

(* The next step of thread t, whichever it is, commutes with all steps of   *)
(* the others: it reads only what t alone writes and writes only what t     *)
(* alone reads, but for its having exited, or it takes an item from the     *)
(* queue of t, behind which others may be put before or after that.         *)
LocalStep(t) ==
  \/ todo[t] # <<>> /\ Skipped(t, Head(todo[t]))
  \/ /\ todo[t] = <<>>
     /\ \/ t \in G.demuxers /\ pc[t] = "run" /\ ConsumersDone(t)
        \/ t \in G.demuxers /\ pc[t] = "run" /\ AtEnd(t) /\ pos[t].loops = 0
        \/ t \in G.demuxers /\ pc[t] = "finish"
        \/ t \in G.decoders /\ pc[t] = "run" /\ ConsumersDone(t)
        \/ t \in G.graphs /\ pc[t] = "run" /\ fg[t].next = sched.best[t]
        \/ t \in G.graphs /\ pc[t] \in {"request", "finish"}
        \/ t \in G.decoders \cup G.encoders /\ pc[t] = "done"
        \/ /\ pc[t] = "run" /\ t \in G.encoders \cup G.muxers
           /\ ~qchoked[t] /\ HasItem(t)
           /\ IF t \in G.encoders THEN Opened(t) /\ NextItem(t).n # Special
              ELSE ~Full(<<t, NextItem(t).in>>)

Moves(t) == \/ <<pc'[t], todo'[t]>> # <<pc[t], todo[t]>>
            \/ \E ms \in G.muxed : ms[1] = t /\ written'[ms] # written[ms]

\* Such a step makes no property false, and no behaviour postpones it for ever.
\* Of the states it hides the properties see only that the queue of an encoder
\* or a muxer was longer (the lead of LeadBounded is counted when a packet is
\* sent).  It is enough, therefore, to look at the behaviours that take it at once.
LocalFirst ==
  LET local == {t \in G.tasks : LocalStep(t)}
  IN  local = {} \/ Moves(CHOOSE t \in local : TRUE)
=============================================================================

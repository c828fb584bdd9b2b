----------------------------- MODULE SyncQueue -----------------------------
(***************************************************************************)
(* fftools/sync_queue.c: the queue that keeps the streams of an output in  *)
(* step, so that none gets ahead of those that limit it (-shortest,        *)
(* -frames), and that cuts audio into frames of the encoder's size.  It is *)
(* run the way send_to_enc_sq() of fftools/ffmpeg_sched.c does: under one  *)
(* lock a frame is sent, and then frames are received and passed on until  *)
(* the queue has no more of them; sync_queue_process() of                  *)
(* fftools/ffmpeg_mux.c does the same with packets.                        *)
(*                                                                         *)
(* The functions of sync_queue.c are operators from one queue to the next. *)
(* Timestamps of a stream count its own time base, Tick; a sample of audio *)
(* is one tick long, as it is for frames that come out of an audio filter. *)
(***************************************************************************)
EXTENDS Integers, SequencesExt

CONSTANTS
  Setups,         \* the queues that are looked at, see SyncAssumption
  DefaultTick,    \* microseconds in a unit of the time base of a new stream
  BufSize,        \* buf_size_us
  IntMin,         \* the smallest timestamp
  MaxTs           \* bound on the timestamps

None    == -1
NoLimit == -1
NOPTS   == IntMin

\* A setup says of each stream whether no other one may be longer, how many
\* frames it is limited to, the frame size of its encoder (0 if it has none) and
\* the microseconds in a unit of its time base; and which frames are sent: the
\* gaps after the end of the last one, the lengths, and how many of a stream.
ASSUME SyncAssumption ==
  /\ DefaultTick \in Nat \ {0} /\ BufSize \in Nat /\ MaxTs \in Nat
  /\ IntMin \in Int /\ IntMin < -MaxTs
  /\ \A c \in Setups :
       LET S == 0 .. c.nb_streams - 1
       IN  /\ c.nb_streams \in Nat \ {0}
           /\ c.limiting \in [S -> BOOLEAN]
           /\ c.frames_max \in [S -> Nat \cup {NoLimit}]
           /\ c.frame_samples \in [S -> Nat]
           /\ c.tick \in [S -> Nat \ {0}]
           /\ c.gaps \subseteq Int /\ c.durs \subseteq Nat /\ c.frames \in Nat
           /\ (\E i \in S : c.frame_samples[i] # 0) => 0 \notin c.durs

VARIABLES
  setup,     \* one of Setups
  sq,        \* the sync queue
  pc,        \* "setup", "unlocked" or, while the lock is held, "drain"
  ended,     \* ended[i]: has the encoder of i ended?
  told,      \* told[i]: has the encoder of i been told the end of its input?
  last,      \* history: the end of the last frame sent on i
  real,      \* history: the largest end of a frame sent on i, or NOPTS
  beaten,    \* history: was the head of i moved by a fake heartbeat?
  out        \* history: for each stream, what was received of it

Streams      == 0 .. setup.nb_streams - 1
Limiting     == setup.limiting
FramesMax    == setup.frames_max
FrameSamples == setup.frame_samples
Tick         == setup.tick

vars == <<setup, sq, pc, ended, told, last, real, beaten, out>>

-----------------------------------------------------------------------------
(* Timestamps *)

Time(q, i, ts) == ts * q.st[i].tick
Timed(q, i)    == q.st[i].head_ts # NOPTS
HeadTime(q, i) == Time(q, i, q.st[i].head_ts)

\* av_rescale_q(): to the nearest unit, halves away from zero.
Rescale(ts, from, to) ==
  IF ts >= 0 THEN (2 * ts * from + to) \div (2 * to)
             ELSE -((-2 * ts * from + to) \div (2 * to))

\* A difference of timestamps that does not fit wraps around.
Wrap(d) == ((d - IntMin) % (-2 * IntMin)) + IntMin

FrameEnd(f, nb_samples) == f.pts + IF nb_samples # 0 THEN nb_samples ELSE f.dur

-----------------------------------------------------------------------------
(* The ends of streams *)

\* Mutant: one finished stream finishes the queue.
FinishStreamAll(q, i) ==
  [q EXCEPT !.st[i].finished = TRUE, !.finished = TRUE]

\* Stream i gets no more frames, and with it those that are ahead of some
\* finished limiting stream.
FinishStream(q, i) ==
  LET ends  == Limiting[i] /\ Timed(q, i)
      hf    == IF /\ ends
                  /\ \/ q.head_finished_stream = None
                     \/ HeadTime(q, i) < HeadTime(q, q.head_finished_stream)
               THEN i ELSE q.head_finished_stream
      ahead == IF ends THEN {j \in DOMAIN q.st \ {hf} :
                               Timed(q, j) /\ HeadTime(q, hf) <= HeadTime(q, j)}
                       ELSE {}
      st    == [j \in DOMAIN q.st |->
                 [q.st[j] EXCEPT !.finished = @ \/ j = i \/ j \in ahead]]
  IN  [q EXCEPT !.st = st, !.head_finished_stream = hf,
                !.finished = @ \/ \A j \in DOMAIN st : st[j].finished]

\* The limiting stream with the smallest head, once each of them has one.
QueueHeadUpdate(q) ==
  LET lim    == {j \in DOMAIN q.st : Limiting[j]}
      lowest == {j \in lim : /\ Timed(q, j)
                             /\ \A k \in lim : Timed(q, k) => HeadTime(q, j) <= HeadTime(q, k)}
  IN  IF \/ q.head_stream \in lowest
         \/ q.head_stream = None /\ \E j \in lim : ~Timed(q, j)
      THEN q
      ELSE [q EXCEPT !.head_stream = Min(lowest)]

\* Mutant: a stream that gets ahead of a finished one goes on.
StreamUpdateTsAhead(q, i, ts) ==
  IF ts = NOPTS \/ (Timed(q, i) /\ q.st[i].head_ts >= ts) THEN q
  ELSE LET q1 == [q EXCEPT !.st[i].head_ts = ts]
       IN  IF Limiting[i] /\ q1.head_stream \in {None, i} THEN QueueHeadUpdate(q1) ELSE q1

\* Mutant: the head of the queue is determined once.
StreamUpdateTsOnce(q, i, ts) ==
  IF ts = NOPTS \/ (Timed(q, i) /\ q.st[i].head_ts >= ts) THEN q
  ELSE LET q1 == [q EXCEPT !.st[i].head_ts = ts]
           q2 == IF /\ q.head_finished_stream # None
                    /\ HeadTime(q1, q.head_finished_stream) <= HeadTime(q1, i)
                 THEN FinishStream(q1, i) ELSE q1
       IN  IF Limiting[i] /\ q2.head_stream = None THEN QueueHeadUpdate(q2) ELSE q2

\* The head of stream i advances to ts.
StreamUpdateTs(q, i, ts) ==
  IF ts = NOPTS \/ (Timed(q, i) /\ q.st[i].head_ts >= ts) THEN q
  ELSE LET q1 == [q EXCEPT !.st[i].head_ts = ts]
           q2 == IF /\ q.head_finished_stream # None
                    /\ HeadTime(q1, q.head_finished_stream) <= HeadTime(q1, i)
                 THEN FinishStream(q1, i) ELSE q1
       IN  IF Limiting[i] /\ q2.head_stream \in {None, i} THEN QueueHeadUpdate(q2) ELSE q2

-----------------------------------------------------------------------------
(* Overflow: streams that lag behind are moved on *)

\* The stream that is most ahead.
MostAhead(q) ==
  LET timed == {i \in DOMAIN q.st : Timed(q, i)}
  IN  Min({i \in timed : \A j \in timed : HeadTime(q, j) <= HeadTime(q, i)})

\* The end of the first frame of stream i that has one.
TailTs(q, i) ==
  LET fifo    == q.st[i].fifo
      stamped == {k \in DOMAIN fifo : FrameEnd(fifo[k], 0) # NOPTS}
  IN  IF stamped = {} THEN NOPTS ELSE FrameEnd(fifo[Min(stamped)], 0)

Overflows(q, i) ==
  LET tail == TailTs(q, i)
  IN  /\ tail # NOPTS /\ tail < q.st[i].head_ts
      /\ Wrap(q.st[i].head_ts - tail) * q.st[i].tick >= BufSize

\* Mutant: streams that were never heard of are left alone.
BeatTimed(q, i, ts, j) ==
  LET r == Rescale(ts, q.st[i].tick, q.st[j].tick)
  IN  IF j = i \/ q.st[j].finished \/ ~Timed(q, j) \/ Time(q, i, ts) <= HeadTime(q, j)
      THEN q
      ELSE StreamUpdateTs(q, j, Max({q.st[j].head_ts + 1, r}))

\* A fake timestamp for stream j, if it prevents time ts of i from being output.
Beat(q, i, ts, j) ==
  LET r == Rescale(ts, q.st[i].tick, q.st[j].tick)
  IN  IF \/ j = i \/ q.st[j].finished
         \/ Timed(q, j) /\ Time(q, i, ts) <= HeadTime(q, j)
      THEN q
      ELSE StreamUpdateTs(q, j, IF Timed(q, j) THEN Max({q.st[j].head_ts + 1, r}) ELSE r)

\* All streams, one after the other.
Beats(q, i, ts) ==
  LET beat[n \in 0 .. setup.nb_streams] == IF n = 0 THEN q ELSE Beat(beat[n - 1], i, ts, n - 1)
  IN  beat

OverflowHeartbeat(q) ==
  IF ~\E i \in DOMAIN q.st : Timed(q, i) THEN q
  ELSE LET i == MostAhead(q)
       IN  IF Overflows(q, i) THEN Beats(q, i, TailTs(q, i) + 1)[setup.nb_streams] ELSE q

-----------------------------------------------------------------------------
(* sq_send() *)

Accepts(q, i) == ~q.st[i].finished

\* The first frame of a stream decides about its time base.
TbUpdate(q, i) ==
  IF q.st[i].tick = Tick[i] THEN q
  ELSE [q EXCEPT !.st[i].tick = Tick[i],
                 !.st[i].head_ts = IF @ = NOPTS THEN @ ELSE Rescale(@, q.st[i].tick, Tick[i])]

\* frames_sent counts what has gone in, in frames of the encoder's size.
FramesSent(s) == IF s.frame_samples # 0 THEN s.samples_sent \div s.frame_samples ELSE s.frames_sent

LimitReached(s) == s.frames_max # NoLimit /\ FramesSent(s) >= s.frames_max

\* A frame for a stream that accepts it.
SendFrame(q, i, f) ==
  LET q1 == TbUpdate(q, i)
      q2 == [q1 EXCEPT !.st[i].fifo = Append(@, f)]
      q3 == StreamUpdateTs(q2, i, FrameEnd(f, 0))
      q4 == [q3 EXCEPT !.st[i].samples_queued = @ + f.nb_samples,
                       !.st[i].samples_sent = @ + f.nb_samples,
                       !.st[i].frames_sent = @ + 1]
  IN  IF LimitReached(q4.st[i]) THEN FinishStream(q4, i) ELSE q4

-----------------------------------------------------------------------------
(* sq_receive() for any stream *)

\* The samples the next frame of i will have, 0 for a stream that is not cut.
NbSamples(s) == IF s.finished THEN Min({s.frame_samples, s.samples_queued})
                              ELSE s.frame_samples

\* Mutant: a frame is released if it begins before the head.
ReleasableByStart(q, i) ==
  LET s == q.st[i]
  IN  /\ s.fifo # <<>>
      /\ s.frame_samples <= s.samples_queued \/ s.finished
      /\ q.head_stream # None /\ Time(q, i, s.fifo[1].pts) <= HeadTime(q, q.head_stream)

\* Stream i has a frame that may be released now.
Releasable(q, i) ==
  LET s  == q.st[i]
      ts == FrameEnd(s.fifo[1], NbSamples(s))
  IN  /\ s.fifo # <<>>
      /\ s.frame_samples <= s.samples_queued \/ s.finished
      /\ \/ ts = NOPTS
         \/ ~\E j \in DOMAIN q.st : Limiting[j]
         \/ q.head_stream # None /\ Time(q, i, ts) <= HeadTime(q, q.head_stream)

Eof(q, i) == q.finished \/ (q.st[i].finished /\ q.st[i].fifo = <<>>)

\* n samples are to be dropped: all of frame f, or the first n of it.
DropFrom(r, f) ==
  IF f.nb_samples <= r.n
  THEN [n |-> r.n - f.nb_samples, fifo |-> r.fifo]
  ELSE [n |-> 0, fifo |-> Append(r.fifo, [pts |-> f.pts + r.n, dur |-> f.dur - r.n,
                                          nb_samples |-> f.nb_samples - r.n])]

\* What is left to drop after so many frames of a fifo, and what is left of these.
Drops(fifo, n) ==
  LET drop[k \in 0 .. Len(fifo)] == IF k = 0 THEN [n |-> n, fifo |-> <<>>]
                                    ELSE DropFrom(drop[k - 1], fifo[k])
  IN  drop

\* A fifo without its first n samples.
Drop(fifo, n) == Drops(fifo, n)[Len(fifo)].fifo

\* The next frame of stream i, and the queue without it.
Frame(q, i) ==
  LET f == q.st[i].fifo[1]
      n == NbSamples(q.st[i])
  IN  IF n = 0 THEN f ELSE [pts |-> f.pts, dur |-> n, nb_samples |-> n]

\* Mutant: the frame that is handed out is not the one that is removed.
WithoutNext(q, i) ==
  LET s == q.st[i]
      n == IF Len(s.fifo) < 2 THEN s.fifo[1].nb_samples ELSE s.fifo[2].nb_samples
  IN  [q EXCEPT !.st[i].fifo = <<s.fifo[1]>> \o SubSeq(s.fifo, 3, Len(s.fifo)),
                !.st[i].samples_queued = @ - n]

Without(q, i) ==
  LET n == NbSamples(q.st[i])
  IN  IF n = 0 THEN [q EXCEPT !.st[i].fifo = Tail(@),
                              !.st[i].samples_queued = @ - q.st[i].fifo[1].nb_samples]
               ELSE [q EXCEPT !.st[i].fifo = Drop(@, n), !.st[i].samples_queued = @ - n]

\* Streams that can be received from; if there is none and the queue has not
\* ended, the overflow is looked after first.
ReleasableStreams(q) == {i \in Streams : Releasable(q, i)}

AllEof(q) == \A i \in Streams : Eof(q, i)

BeforeReceive(q) ==
  IF ReleasableStreams(q) # {} \/ AllEof(q) THEN q ELSE OverflowHeartbeat(q)

-----------------------------------------------------------------------------
(* The users of the queue *)

NewStream(i) == [fifo |-> <<>>, tick |-> DefaultTick, samples_queued |-> 0, head_ts |-> NOPTS,
                 finished |-> FALSE, frames_sent |-> 0, samples_sent |-> 0,
                 frames_max |-> FramesMax[i], frame_samples |-> FrameSamples[i]]

Init ==
  /\ setup \in Setups
  /\ sq = [finished |-> FALSE, head_stream |-> None, head_finished_stream |-> None,
           st |-> [i \in {} |-> NewStream(i)]]
  /\ pc = "setup"
  /\ ended  = [i \in Streams |-> FALSE]
  /\ told   = [i \in Streams |-> FALSE]
  /\ last   = [i \in Streams |-> 0]
  /\ real   = [i \in Streams |-> NOPTS]
  /\ beaten = [i \in Streams |-> FALSE]
  /\ out    = [i \in Streams |-> [end |-> NOPTS, frames |-> 0, samples |-> 0, short |-> FALSE]]

\* sch_sq_add_enc() adds the streams one by one, each with its limit.
AddStream ==
  LET i == Cardinality(DOMAIN sq.st)
      q == [sq EXCEPT !.st = [j \in 0 .. i |-> IF j = i THEN NewStream(i) ELSE sq.st[j]]]
  IN  /\ pc = "setup"
      /\ sq' = IF LimitReached(q.st[i]) THEN FinishStream(q, i) ELSE q
      /\ pc' = IF i + 1 = setup.nb_streams THEN "unlocked" ELSE pc
      /\ UNCHANGED <<setup, ended, told, last, real, beaten, out>>

\* A frame of stream i is sent.  (If it is refused nothing changes, and the
\* sender stops sending on i.)
Send(i, gap, dur) ==
  LET n == IF FrameSamples[i] = 0 THEN 0 ELSE dur
      f == [pts |-> last[i] + gap, dur |-> dur, nb_samples |-> n]
      e == FrameEnd(f, n)
  IN  /\ pc = "unlocked"
      /\ Accepts(sq, i)
      /\ f.pts >= 0 /\ e <= MaxTs /\ sq.st[i].frames_sent < setup.frames
      /\ sq' = SendFrame(sq, i, f)
      /\ last' = [last EXCEPT ![i] = e]
      /\ real' = [real EXCEPT ![i] = Max({@, e})]
      /\ pc' = "drain"
      /\ UNCHANGED <<setup, ended, told, beaten, out>>

\* The end of stream i.
SendEnd(i) ==
  /\ pc = "unlocked"
  /\ sq' = FinishStream(sq, i)
  /\ pc' = "drain"
  /\ UNCHANGED <<setup, ended, told, last, real, beaten, out>>

\* Which heads a fake heartbeat has moved.
Beaten(q) == [i \in Streams |-> beaten[i] \/ q.st[i].head_ts # sq.st[i].head_ts]

\* A frame is received and passed on to its encoder; if that has ended, the
\* stream is ended.
Receive ==
  LET q == BeforeReceive(sq)
      i == Min(ReleasableStreams(q))
      f == Frame(q, i)
  IN  /\ pc = "drain"
      /\ ReleasableStreams(q) # {}
      /\ beaten' = Beaten(q)
      /\ IF ended[i]
         THEN sq' = FinishStream(Without(q, i), i) /\ UNCHANGED out
         ELSE /\ sq' = Without(q, i)
              /\ out' = [out EXCEPT ![i] = [end |-> Max({@.end, FrameEnd(f, 0)}),
                                            frames |-> @.frames + 1,
                                            samples |-> @.samples + f.nb_samples,
                                            short |-> f.nb_samples # FrameSamples[i]]]
      /\ UNCHANGED <<setup, pc, ended, told, last, real>>

\* The queue has ended: all encoders are closed.
ReceiveEof ==
  LET q == BeforeReceive(sq)
  IN  /\ pc = "drain"
      /\ ReleasableStreams(q) = {} /\ AllEof(q)
      /\ sq' = q
      /\ beaten' = Beaten(q)
      /\ told' = [i \in Streams |-> TRUE]
      /\ pc' = "unlocked"
      /\ UNCHANGED <<setup, ended, last, real, out>>

\* The queue wants more frames.
ReceiveAgain ==
  LET q == BeforeReceive(sq)
  IN  /\ pc = "drain"
      /\ ReleasableStreams(q) = {} /\ ~AllEof(q)
      /\ sq' = q
      /\ beaten' = Beaten(q)
      /\ pc' = "unlocked"
      /\ UNCHANGED <<setup, ended, told, last, real, out>>

\* An encoder ends, at any time.
EncoderEnds(i) ==
  /\ ~ended[i]
  /\ ended' = [ended EXCEPT ![i] = TRUE]
  /\ UNCHANGED <<setup, sq, pc, told, last, real, beaten, out>>

Next == \/ AddStream
        \/ \E i \in Streams : \/ \E gap \in setup.gaps, dur \in setup.durs : Send(i, gap, dur)
                              \/ SendEnd(i)
                              \/ EncoderEnds(i)
        \/ Receive \/ ReceiveEof \/ ReceiveAgain

Spec == Init /\ [][Next]_vars

-----------------------------------------------------------------------------
(* Properties *)

\* How many samples the first frames of a fifo have.
Sums(fifo) ==
  LET sum[k \in 0 .. Len(fifo)] == IF k = 0 THEN 0 ELSE sum[k - 1] + fifo[k].nb_samples
  IN  sum

Samples(fifo) == Sums(fifo)[Len(fifo)]

TypeOK ==
  /\ sq.finished \in BOOLEAN
  /\ sq.head_stream \in {None} \cup DOMAIN sq.st
  /\ sq.head_finished_stream \in {None} \cup DOMAIN sq.st
  /\ \A i \in DOMAIN sq.st :
       /\ sq.st[i].head_ts \in Int
       /\ sq.st[i].finished \in BOOLEAN
       /\ sq.st[i].samples_queued = Samples(sq.st[i].fifo)
  /\ pc \in {"setup", "unlocked", "drain"}

\* Although it is only looked at when the head stream itself advances, the head
\* stream is always a limiting one that is least ahead, from the moment on
\* when all of them have a timestamp.
HeadIsLowest ==
  LET lim == {j \in DOMAIN sq.st : Limiting[j]}
  IN  IF sq.head_stream = None
      THEN pc = "setup" \/ lim = {} \/ \E j \in lim : ~Timed(sq, j)
      ELSE /\ sq.head_stream \in lim
           /\ \A j \in lim : Timed(sq, j) /\ HeadTime(sq, sq.head_stream) <= HeadTime(sq, j)

\* The queue's record agrees with itself: the samples counted are those queued, and
\* the stream kept as the head is the one a search would find.
Consistent == TypeOK /\ HeadIsLowest

\* No stream gets ahead of a limiting one: what was received of any stream ends
\* at or before the largest end of the frames that were really sent on every
\* limiting stream, unless that stream was lagging behind so far that a fake
\* heartbeat moved it on.
NotAhead ==
  \A i, j \in Streams :
    Limiting[j] /\ ~beaten[j] /\ out[i].end # NOPTS =>
      real[j] # NOPTS /\ out[i].end * Tick[i] <= real[j] * Tick[j]

\* As soon as a limiting stream is finished all streams that are ahead of it
\* take no more frames.
FinishedTogether ==
  \A i, j \in DOMAIN sq.st :
    Limiting[i] /\ sq.st[i].finished /\ Timed(sq, i) /\ Timed(sq, j)
      /\ HeadTime(sq, i) <= HeadTime(sq, j) => sq.st[j].finished

\* Nothing is lost or invented on the way: as long as its encoder takes frames,
\* all of a stream was received or is still queued.
NothingLost ==
  \A i \in DOMAIN sq.st : ~ended[i] =>
    /\ out[i].samples + sq.st[i].samples_queued = sq.st[i].samples_sent
    /\ FrameSamples[i] = 0 => out[i].frames + Len(sq.st[i].fifo) = sq.st[i].frames_sent

\* "All output frames will have exactly frame_samples audio samples, except
\* possibly for the last one": none is received after a short one.
ShortIsLast ==
  [][\A i \in Streams : FrameSamples[i] # 0 /\ out[i].short => out'[i] = out[i]]_vars

\* An encoder gets no frame after it was told the end of its input.
EndIsLast == [][\A i \in Streams : told[i] => out'[i].frames = out[i].frames]_vars

\* What an encoder is given: whole frames but for the last, and then nothing more.
EncoderInput == ShortIsLast /\ EndIsLast

\* A stream that lags behind, however long, cannot make the queue buffer more
\* than buf_size_us of the stream that is most ahead.  What then is left to release
\* waits only for streams that have ended, or that rounding has kept less than one
\* unit of their time base behind it, which the next heartbeat moves past it.
BufferBounded ==
  pc = "unlocked" /\ ~sq.finished /\ (\E i \in Streams : Timed(sq, i)) =>
    LET i == MostAhead(sq)
    IN  \/ ~Overflows(sq, i)
        \/ \A j \in Streams \ {i} :
             \/ sq.st[j].finished
             \/ Timed(sq, j) /\ HeadTime(sq, j) + sq.st[j].tick > Time(sq, i, TailTs(sq, i))

=============================================================================

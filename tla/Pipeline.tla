------------------------------ MODULE Pipeline ------------------------------
(***************************************************************************)
(* fftools/ffmpeg_sched.c at work: the threads of a transcoding graph, the *)
(* queues between them, the waiters through which the scheduler holds its  *)
(* sources back, and sch_stop().                                           *)
(*                                                                         *)
(* Every thread is a sequence of calls of the scheduler; what it computes  *)
(* between them (reading a file, coding, filtering) is reduced to how many *)
(* packets or frames come in and go out.  A step of a thread is one        *)
(* critical section: one call of a queue, or one section under             *)
(* schedule_lock together with the queue calls made in it.  The queues     *)
(* block as ThreadQueue.tla does, without its condition variable; a sync    *)
(* queue before the encoders is that of SyncQueue.tla.                     *)
(***************************************************************************)
EXTENDS SchedulerGraph

CONSTANTS
  Graphs,       \* the connected transcoding graphs to choose from
  QueueSize,    \* capacity of every queue
  PreMuxSize,   \* packets a pre-muxing queue takes (max_packets, but at least 8 in the
                \* code); data_threshold is 0
  MayFail,      \* the tasks whose function may return an error at any time
  MayQuit       \* may the user stop the transcoding at any time?

ASSUME PipelineAssumption ==
  /\ Tolerance \in Nat \ {0}
  /\ QueueSize \in Nat \ {0}
  /\ PreMuxSize \in Nat \ {0}
  /\ MayQuit \in BOOLEAN

\* What is in the files: packets of their streams; how often they are looped; where
\* filters cut off; and where the encoders of the sync queue are, and what they get.
Furnished(g) ==
  /\ \A d \in g.demuxers : g.file[d] \in Seq(DOMAIN g.streams[d]) /\ g.loop[d] \in Nat
  /\ \A x \in FilterInputs(g) : g.trim[x] \in Nat
  /\ \A ms \in g.muxed : g.beat[ms] \in Seq(g.decoders)
  /\ g.sync.enc \in Seq(g.encoders) /\ g.sync.nb_streams = Len(g.sync.enc)
  /\ g.sync.nb_streams # 0 => \A i \in 0 .. g.sync.nb_streams - 1 : g.sync.frame_samples[i] = 0

ASSUME GraphsAssumption == \A g \in Graphs : WellConnected(g) /\ Furnished(g)

VARIABLES
  G,          \* the transcoding graph
  sched,      \* the record schedule_update_locked() reads, see SchedulerGraph
  choked,     \* choked[w]: the waiter of w says wait
  q,          \* q[n]: the queue of n, items with their input
  fin,        \* fin[n][i]: the finished flags of input i of that queue
  qchoked,    \* qchoked[n]: that queue is choked
  pc,         \* pc[t]: where the thread of t is
  todo,       \* todo[t]: the sends t has still to make before it goes on
  dstFin,     \* <<t, dst>>: dst_finished (eof_out of a filtergraph)
  pos,        \* demuxers: position in the file and loops left
  dec,        \* decoders: overflow, expect_end_ts and queue_end_ts
  fg,         \* filtergraphs: the state of their filters
  sq,         \* the sync queue, and whether its lock is held
  start,      \* encoders and muxers: how far they are started
  written,    \* packets written per muxed stream
  main,       \* the main thread: "start", "wait", "stop" or "stopped"
  terminate,  \* sch->terminate
  failed      \* sch->task_failed

queues == <<q, fin, qchoked>>
vars == <<G, sched, choked, q, fin, qchoked, pc, todo, dstFin, pos, dec, fg,
          sq, start, written, main, terminate, failed>>

\* Units and limits for a sync queue of frames of one unit of time each.
SQ == INSTANCE SyncQueue
      WITH Setups <- {}, DefaultTick <- 1, BufSize <- 100, IntMin <- -1000, MaxTs <- 100,
           setup <- G.sync, sq <- sq.queue, pc <- sq, ended <- sq, told <- sq, last <- sq,
           real <- sq, beaten <- sq, out <- sq
-----------------------------------------------------------------------------
Minimum(S) == CHOOSE n \in S : \A m \in S : n <= m

FgInputs(g, f) == 0 .. g.nb[f] - 1

NewFg(g, f) == [have |-> [i \in FgInputs(g, f) |-> 0],
                took |-> [i \in FgInputs(g, f) |-> 0],
                eof |-> {}, closed |-> {}, next |-> 0,
                ready |-> 0, extra |-> IF g.nb[f] = 0 THEN g.frames[f] ELSE 0, made |-> 0,
                configured |-> g.nb[f] = 0]

StreamsOf(g, m) == {ms \in g.muxed : ms[1] = m}

\* The streams that are ready from the outset are those that are copied.
Copied(g)  == {ms \in g.muxed : g.src[ms] \in g.demuxers}
Startable(g) == {m \in g.muxers : StreamsOf(g, m) \subseteq Copied(g)}

\* opened: the encoders that are; ready: the streams of nb_streams_ready; started:
\* the muxers with mux_started; pre: the pre_mux_queue of each stream; locked:
\* mux_ready_lock is held while a muxer is started.
NewStart(g) == [opened |-> {}, ready |-> Copied(g), started |-> Startable(g),
                pre |-> [ms \in g.muxed |-> <<>>], locked |-> FALSE]

\* sch_add_sq_enc() and sch_sq_add_enc()
NewSync == [locked |-> FALSE,
            queue |-> [finished |-> FALSE, head_stream |-> SQ!None,
                       head_finished_stream |-> SQ!None,
                       st |-> [i \in SQ!Streams |-> SQ!NewStream(i)]]]

\* sch_start() after sch_add_*() and sch_connect(), with the threads of all tasks
\* but the muxers that wait for encoders: nothing is choked.
Init ==
  /\ G \in Graphs
  /\ sched = [last |-> [ms \in G.muxed |-> NoPts], done |-> {},
              best |-> [f \in G.graphs |-> 0], rfin |-> {}, sfin |-> {},
              exited |-> {}]
  /\ choked = [w \in G.waiters |-> FALSE]
  /\ q = [n \in G.owners |-> <<>>]
  /\ fin = [n \in G.owners |-> [i \in G.inputs[n] |-> {}]]
  /\ qchoked = [n \in G.owners |-> FALSE]
  /\ pc = [t \in G.tasks |-> IF t \in G.muxers \ Startable(G) THEN "new" ELSE "run"]
  /\ todo = [t \in G.tasks |-> <<>>]
  /\ dstFin = {}
  /\ pos = [d \in G.demuxers |-> [next |-> 1, loops |-> G.loop[d]]]
  /\ dec = [d \in G.decoders |-> [overflow |-> <<>>, expect |-> FALSE, endts |-> "none"]]
  /\ fg = [f \in G.graphs |-> NewFg(G, f)]
  /\ sq = NewSync
  /\ start = NewStart(G)
  /\ written = [ms \in G.muxed |-> <<>>]
  /\ main = "start"
  /\ terminate = FALSE
  /\ failed = FALSE

-----------------------------------------------------------------------------
(* schedule_update_locked() *)

\* choke_demux() for all demuxers whose waiter changes from w to v.
ChokeQueues(w, v, qc) ==
  [n \in G.owners |->
     LET changed == {d \in G.demuxers : n \in G.with[d] /\ w[d] # v[d]}
     IN  IF changed = {} THEN qc[n] ELSE \E d \in changed : v[d]]

\* Mutant: the termination request is not looked at.
UpdateAnyway(s, qc) ==
  LET next == [w \in G.waiters |-> w \notin Unchoked(G, s)]
  IN  /\ sched' = s
      /\ choked' = next
      /\ qchoked' = ChokeQueues(choked, next, qc)

\* Record s and decide anew which waiters are choked, in one section under
\* schedule_lock; qc is what the queue calls in that section left.
Update(s, qc) ==
  LET next == IF terminate THEN choked
              ELSE [w \in G.waiters |-> w \notin Unchoked(G, s)]
  IN  /\ sched' = s
      /\ choked' = next
      /\ qchoked' = ChokeQueues(choked, next, qc)

-----------------------------------------------------------------------------
(* The thread queues *)

Item(i, n) == [in |-> i, n |-> n]       \* n = 0: EOF frame or flush packet
Special == 0
Beat == -1                              \* a heartbeat, without data as well

Refused(dst) == "RECV" \in fin[dst[1]][dst[2]]
HasRoom(dst) == Len(q[dst[1]]) < QueueSize

\* fin with the flag f set on the inputs I of the queue of n.
Mark(n, I, f) == [fin EXCEPT ![n] = [i \in DOMAIN @ |->
                                       IF i \in I THEN @[i] \cup {f} ELSE @[i]]]

\* The first item of a wanted input, or Len + 1 (items before it are dropped).
FirstWanted(n) ==
  LET wanted == {k \in DOMAIN q[n] : ~Refused(<<n, q[n][k].in>>)}
  IN  IF wanted = {} THEN Len(q[n]) + 1 ELSE CHOOSE k \in wanted : \A j \in wanted : k <= j

HasItem(n) == FirstWanted(n) <= Len(q[n])

\* receive_locked(): an item, ...
Take(n, item) ==
  /\ ~qchoked[n]
  /\ HasItem(n)
  /\ item = q[n][FirstWanted(n)]
  /\ q' = [q EXCEPT ![n] = SubSeq(@, FirstWanted(n) + 1, Len(@))]
  /\ UNCHANGED <<fin, qchoked>>

Ended(n) == {i \in DOMAIN fin[n] : fin[n][i] = {"SEND"}}

\* ... or the end of input i, ...
TakeEof(n, i) ==
  /\ ~qchoked[n]
  /\ ~HasItem(n)
  /\ i \in Ended(n)
  /\ \A j \in Ended(n) : i <= j
  /\ q' = [q EXCEPT ![n] = <<>>]
  /\ fin' = Mark(n, {i}, "RECV")
  /\ UNCHANGED qchoked

\* ... or the end of all, ...
TakeEnd(n) ==
  /\ ~qchoked[n]
  /\ ~HasItem(n)
  /\ \A i \in DOMAIN fin[n] : "RECV" \in fin[n][i]
  /\ q' = [q EXCEPT ![n] = <<>>]
  /\ UNCHANGED <<fin, qchoked>>

\* ... or nothing, after unwanted items were dropped.
TakeNothing(n) ==
  /\ ~qchoked[n]
  /\ ~HasItem(n)
  /\ Ended(n) = {}
  /\ \E i \in DOMAIN fin[n] : "RECV" \notin fin[n][i]
  /\ q[n] # <<>>
  /\ q' = [q EXCEPT ![n] = <<>>]
  /\ UNCHANGED <<fin, qchoked>>

-----------------------------------------------------------------------------
(* Sending, for all tasks: the entries of todo[t] are worked off in order. *)

Send(kind, dst, n) == [kind |-> kind, to |-> dst, n |-> n]

\* One packet or frame, or the end, to each of a sequence of destinations.
SendAll(dsts, n) == [k \in DOMAIN dsts |-> Send("data", dsts[k], n)]
SendEnds(dsts)   == [k \in DOMAIN dsts |-> Send("eof", dsts[k], 0)]

Go(t, where, sends) == /\ pc' = [pc EXCEPT ![t] = where]
                       /\ todo' = [todo EXCEPT ![t] = sends]
Stay(t, sends) == Go(t, pc[t], sends)

\* A muxer that has not started has no queue yet, as it were, and an encoder that
\* is not opened by its first frame.
Begun(t, dst) == /\ dst[1] \in G.muxers => dst[1] \in start.started
                 /\ dst[1] \in G.encoders /\ t \in G.graphs => dst[1] \in start.opened

\* Encoders behind the sync queue; SyncStream is the stream of one there.
Synced(dst) == dst[1] \in Range(G.sync.enc)
SyncStream(dst) == CHOOSE i \in SQ!Streams : G.sync.enc[i + 1] = dst[1]

\* A destination that is finished is skipped, and by demux_flush() one that is no
\* decoder.
Skipped(t, s) == \/ s.kind \in {"data", "eof", "flush"} /\ <<t, s.to>> \in dstFin
                 \/ s.kind = "flush" /\ s.to[1] \notin G.decoders

Skip(t, s, rest) ==
  /\ Skipped(t, s)
  /\ Stay(t, rest)
  /\ UNCHANGED <<sched, choked, queues, dstFin, dec, start, sq>>

\* tq_send() returns EOF: the caller ends the destination, goto finish.
SendRefused(t, s, rest) ==
  /\ s.kind = "data"
  /\ <<t, s.to>> \notin dstFin
  /\ Begun(t, s.to) /\ ~Synced(s.to)
  /\ Refused(s.to)
  /\ fin' = Mark(s.to[1], {s.to[2]}, "SEND")
  /\ Stay(t, <<Send("eof", s.to, 0)>> \o rest)
  /\ UNCHANGED <<sched, choked, q, qchoked, dstFin, dec, start, sq>>

\* tq_send(); send_to_mux() goes on with the timestamp, demux_flush() with the
\* answer of the decoder.
SendItem(t, s, rest) ==
  /\ s.kind \in {"data", "flush"}
  /\ ~Skipped(t, s)
  /\ Begun(t, s.to) /\ ~Synced(s.to)
  /\ ~Refused(s.to)
  /\ HasRoom(s.to)
  /\ q' = [q EXCEPT ![s.to[1]] = Append(@, Item(s.to[2], s.n))]
  /\ Stay(t, (IF s.to[1] \in G.muxers THEN <<Send("dts", s.to, s.n)>>
              ELSE IF s.kind = "flush" /\ s.to[1] \in G.endts
                   THEN <<Send("await", s.to, 0)>>
              ELSE <<>>) \o rest)
  /\ UNCHANGED <<sched, choked, fin, qchoked, dstFin, dec, start, sq>>

\* The end of send_to_mux() for a packet.
SendDts(t, s, rest) ==
  /\ s.kind = "dts"
  /\ Update([sched EXCEPT !.last[s.to] = s.n], qchoked)
  /\ Stay(t, rest)
  /\ UNCHANGED <<q, fin, dstFin, dec, start, sq>>

\* The end of a decoder's, an encoder's or a muxer's input: tq_send_finish().
SendEof(t, s, rest) ==
  /\ s.kind = "eof"
  /\ <<t, s.to>> \notin dstFin
  /\ s.to[1] \notin G.graphs
  /\ s.to[1] \in G.muxers => Begun(t, s.to)
  /\ ~Synced(s.to)
  /\ fin' = Mark(s.to[1], {s.to[2]}, "SEND")
  /\ qchoked' = [qchoked EXCEPT ![s.to[1]] = FALSE]
  /\ dstFin' = dstFin \cup {<<t, s.to>>}
  /\ Stay(t, (IF s.to[1] \in G.muxers THEN <<Send("end", s.to, 0)>> ELSE <<>>) \o rest)
  /\ UNCHANGED <<sched, choked, q, dec, start, sq>>

\* The end of send_to_mux() for the end of a stream.
SendSourceFinished(t, s, rest) ==
  /\ s.kind = "end"
  /\ Update([sched EXCEPT !.done = @ \cup {s.to}], qchoked)
  /\ Stay(t, rest)
  /\ UNCHANGED <<q, fin, dstFin, dec, start, sq>>

\* The inputs of filtergraph f, or its control stream as well if they are all in S.
WithControl(f, i, S) ==
  IF \A j \in FgInputs(G, f) : <<f, j>> \in S THEN {i, G.nb[f]} ELSE {i}

\* send_to_filter() with NULL.
SendFilterEof(t, s, rest) ==
  LET f == s.to[1]
      s2 == [sched EXCEPT !.sfin = @ \cup {s.to}]
  IN  /\ s.kind = "eof"
      /\ <<t, s.to>> \notin dstFin
      /\ f \in G.graphs
      /\ fin' = Mark(f, WithControl(f, s.to[2], s2.sfin), "SEND")
      /\ Update(s2, [qchoked EXCEPT ![f] = FALSE])
      /\ dstFin' = dstFin \cup {<<t, s.to>>}
      /\ Stay(t, rest)
      /\ UNCHANGED <<q, dec, start, sq>>

\* demux_flush() receives the end timestamp from the decoder.
SendAwait(t, s, rest) ==
  /\ s.kind = "await"
  /\ dec[s.to[1]].endts = "sent"
  /\ dec' = [dec EXCEPT ![s.to[1]].endts = "none"]
  /\ Stay(t, rest)
  /\ UNCHANGED <<sched, choked, queues, dstFin, start, sq>>

\* A queue or an end timestamp refused during demux_flush() ends the demuxer.
SendFlushFails(t, s) ==
  /\ \/ /\ s.kind = "flush"
        /\ ~Skipped(t, s)
        /\ Refused(s.to)
        /\ fin' = Mark(s.to[1], {s.to[2]}, "SEND")
     \/ /\ s.kind = "await"
        /\ dec[s.to[1]].endts = "closed"
        /\ UNCHANGED fin
  /\ Go(t, "finish", <<>>)
  /\ UNCHANGED <<sched, choked, q, qchoked, dstFin, dec, start, sq>>

(* The start of encoders and muxers *)

\* of_stream_init() for the stream that encoder e is muxed to follows.
OpenEncoder(t, e, sends) ==
  LET ms == CHOOSE dst \in Range(G.out[e]) : dst[1] \in G.muxers
  IN  /\ start' = [start EXCEPT !.opened = @ \cup {e}]
      /\ Stay(t, <<Send("ready", ms, 0)>> \o sends)

\* send_to_enc(): the first frame of a filtergraph opens the encoder; one without
\* data is not sent on.
SendOpen(t, s, rest) ==
  /\ s.kind = "data"
  /\ <<t, s.to>> \notin dstFin
  /\ s.to[1] \in G.encoders /\ ~Begun(t, s.to)
  /\ OpenEncoder(t, s.to[1], (IF s.n = Special THEN <<>> ELSE <<s>>) \o rest)
  /\ UNCHANGED <<sched, choked, queues, dstFin, dec, sq>>

\* sch_mux_stream_ready(): the last stream writes the header, which may fail, and
\* starts the thread of the muxer; the lock is kept.
SendReady(t, s, rest) ==
  LET m == s.to[1]
      ready == start.ready \cup {s.to}
  IN  /\ s.kind = "ready"
      /\ ~start.locked
      /\ \/ /\ ~(StreamsOf(G, m) \subseteq ready)
            /\ start' = [start EXCEPT !.ready = ready]
            /\ Stay(t, rest)
         \/ /\ StreamsOf(G, m) \subseteq ready
            /\ start' = [start EXCEPT !.ready = ready, !.locked = TRUE]
            /\ pc' = [pc EXCEPT ![m] = "run"]
            /\ todo' = [todo EXCEPT ![t] = <<Send("move", s.to, 0)>> \o rest]
         \/ /\ StreamsOf(G, m) \subseteq ready /\ m \in G.unwritable
            /\ start' = [start EXCEPT !.ready = ready]
            /\ Go(t, "fail", <<>>)
      /\ UNCHANGED <<sched, choked, queues, dstFin, dec, sq>>

\* The pre-muxing queues of m with something in them, ...
PreMuxed(m) == {ms \in StreamsOf(G, m) : start.pre[ms] # <<>>}

\* ... and the one whose turn it is: an end, or else the earliest packet.
NextPreMuxed(m) ==
  LET earliest == Minimum({Head(start.pre[ms]) : ms \in PreMuxed(m)})
      of == {ms \in PreMuxed(m) : Head(start.pre[ms]) = earliest}
  IN  CHOOSE ms \in of : \A other \in of : ms[2] <= other[2]

\* mux_task_start(): the pre-muxing queues are moved to the queue of the muxer, one
\* entry after the other, and what the muxer refuses is dropped; then it has started.
SendMove(t, s, rest) ==
  LET m == s.to[1]
      ms == NextPreMuxed(m)
      n == Head(start.pre[ms])
      moved == [start EXCEPT !.pre[ms] = Tail(@)]
  IN  /\ s.kind = "move"
      /\ \/ /\ PreMuxed(m) = {}
            /\ start' = [start EXCEPT !.started = @ \cup {m}, !.locked = FALSE]
            /\ Stay(t, rest)
            /\ UNCHANGED queues
         \/ /\ PreMuxed(m) # {} /\ start' = moved /\ UNCHANGED <<pc, todo>>
            /\ \/ /\ n = Special
                  /\ fin' = Mark(m, {ms[2]}, "SEND")
                  /\ qchoked' = [qchoked EXCEPT ![m] = FALSE]
                  /\ UNCHANGED q
               \/ /\ n # Special /\ Refused(ms)
                  /\ fin' = Mark(m, {ms[2]}, "SEND")
                  /\ UNCHANGED <<q, qchoked>>
               \/ /\ n # Special /\ ~Refused(ms) /\ HasRoom(ms)
                  /\ q' = [q EXCEPT ![m] = Append(@, Item(ms[2], n))]
                  /\ UNCHANGED <<fin, qchoked>>
      /\ UNCHANGED <<sched, choked, dstFin, dec, sq>>

\* send_to_mux() finds that the muxer has not started; the lock comes later.
SendEarly(t, s, rest) ==
  /\ s.kind \in {"data", "eof"}
  /\ <<t, s.to>> \notin dstFin
  /\ s.to[1] \in G.muxers /\ ~Begun(t, s.to)
  /\ Stay(t, <<Send("queue", s.to, s.n)>> \o rest)
  /\ UNCHANGED <<sched, choked, queues, dstFin, dec, start, sq>>

\* Mutant: it is not looked again with the lock.
SendQueueAnyway(t, s, rest) ==
  /\ s.kind = "queue" /\ ~start.locked
  /\ start' = [start EXCEPT !.pre[s.to] = Append(@, s.n)]
  /\ dstFin' = IF s.n = Special THEN dstFin \cup {<<t, s.to>>} ELSE dstFin
  /\ Stay(t, <<Send(IF s.n = Special THEN "end" ELSE "dts", s.to, s.n)>> \o rest)
  /\ UNCHANGED <<sched, choked, queues, dec, sq>>

\* mux_queue_packet(); a packet that is too many is an error, an end that is goes
\* unnoticed.
SendQueue(t, s, rest) ==
  LET end == s.n = Special
      room == Len(start.pre[s.to]) < PreMuxSize
  IN  /\ s.kind = "queue" /\ s.to[1] \notin start.started
      /\ ~start.locked
      /\ start' = IF room THEN [start EXCEPT !.pre[s.to] = Append(@, s.n)] ELSE start
      /\ dstFin' = IF end THEN dstFin \cup {<<t, s.to>>} ELSE dstFin
      /\ IF room THEN Stay(t, <<Send(IF end THEN "end" ELSE "dts", s.to, s.n)>> \o rest)
         ELSE IF end THEN Stay(t, rest) ELSE Go(t, "fail", <<>>)
      /\ UNCHANGED <<sched, choked, queues, dec, sq>>

\* The muxer has started before the lock was taken: the normal way.
SendLate(t, s, rest) ==
  /\ s.kind = "queue" /\ s.to[1] \in start.started
  /\ Stay(t, <<Send(IF s.n = Special THEN "eof" ELSE "data", s.to, s.n)>> \o rest)
  /\ UNCHANGED <<sched, choked, queues, dstFin, dec, start, sq>>

(* send_to_enc_sq() *)

SetSync(queue, locked) == sq' = [queue |-> queue, locked |-> locked]

\* At the end of a stream the scheduler is told at once that no more will come to
\* the muxer, since the sync queue may keep the end to itself for long.
SyncEnd(t, s, rest) ==
  /\ s.kind = "eof" /\ Synced(s.to)
  /\ <<t, s.to>> \notin dstFin
  /\ Update([sched EXCEPT !.done = @ \cup Range(G.out[s.to[1]])], qchoked)
  /\ Stay(t, <<Send("syncend", s.to, Special)>> \o rest)
  /\ dstFin' = dstFin \cup {<<t, s.to>>}
  /\ UNCHANGED <<q, fin, dec, start, sq>>

\* sq_send() with the lock, which is kept if the stream takes the frame.
SyncSend(t, s, rest) ==
  LET i == SyncStream(s.to)
      frame == [pts |-> s.n - 1, dur |-> 1, nb_samples |-> 0]
      Drain == Stay(t, <<Send("drain", s.to, s.n)>> \o rest)
  IN  /\ ~sq.locked
      /\ \/ s.kind = "syncend" /\ SetSync(SQ!FinishStream(sq.queue, i), TRUE) /\ Drain
         \/ /\ s.kind = "data" /\ Synced(s.to) /\ Begun(t, s.to) /\ <<t, s.to>> \notin dstFin
            /\ IF SQ!Accepts(sq.queue, i)
               THEN SetSync(SQ!SendFrame(sq.queue, i, frame), TRUE) /\ Drain
               ELSE Stay(t, <<Send("eof", s.to, 0)>> \o rest) /\ UNCHANGED sq
      /\ UNCHANGED <<sched, choked, queues, dstFin, dec, start>>

\* sq_receive() until there is nothing more, with the lock: a frame for an encoder,
\* which may have to wait for room there or be refused, ...
SyncPass(queue) ==
  LET i == Minimum(SQ!ReleasableStreams(queue))
      dst == <<G.sync.enc[i + 1], 0>>
      without == SQ!Without(queue, i)
  IN  /\ SQ!ReleasableStreams(queue) # {}
      /\ IF Refused(dst)
         THEN /\ SetSync(SQ!FinishStream(without, i), TRUE)
              /\ fin' = Mark(dst[1], {0}, "SEND")
              /\ UNCHANGED q
         ELSE /\ HasRoom(dst)
              /\ q' = [q EXCEPT ![dst[1]] = Append(@, Item(0, SQ!Frame(queue, i).pts + 1))]
              /\ SetSync(without, TRUE)
              /\ UNCHANGED fin
      /\ UNCHANGED <<qchoked, pc, todo>>

\* ... the end of all, which ends every encoder and the sender, or nothing for now.
SyncDrain(t, s, rest) ==
  LET queue == SQ!BeforeReceive(sq.queue)
      encoders == Range(G.sync.enc)
  IN  /\ s.kind = "drain"
      /\ \/ SyncPass(queue)
         \/ /\ SQ!ReleasableStreams(queue) = {} /\ SQ!AllEof(queue)
            /\ fin' = [n \in G.owners |-> IF n \in encoders THEN [fin[n] EXCEPT ![0] = @ \cup {"SEND"}]
                                          ELSE fin[n]]
            /\ qchoked' = [n \in G.owners |-> qchoked[n] /\ n \notin encoders]
            /\ SetSync(queue, FALSE)
            /\ Stay(t, (IF s.n = Special THEN <<>> ELSE <<Send("eof", s.to, 0)>>) \o rest)
            /\ UNCHANGED q
         \/ /\ SQ!ReleasableStreams(queue) = {} /\ ~SQ!AllEof(queue)
            /\ SetSync(queue, FALSE)
            /\ Stay(t, rest)
            /\ UNCHANGED queues
      /\ UNCHANGED <<sched, choked, dstFin, dec, start>>

\* sch_mux_sub_heartbeat(): the muxer's thread sends to the queue of a decoder of
\* subtitles, of which it is not the source, and ignores what becomes of it.
SendBeat(t, s, rest) ==
  /\ s.kind = "beat"
  /\ Stay(t, rest)
  /\ \/ "SEND" \in fin[s.to[1]][0] /\ UNCHANGED queues
     \/ /\ fin[s.to[1]][0] = {"RECV"}
        /\ fin' = Mark(s.to[1], {0}, "SEND")
        /\ UNCHANGED <<q, qchoked>>
     \/ /\ fin[s.to[1]][0] = {} /\ HasRoom(s.to)
        /\ q' = [q EXCEPT ![s.to[1]] = Append(@, Item(0, Beat))]
        /\ UNCHANGED <<fin, qchoked>>
  /\ UNCHANGED <<sched, choked, dstFin, dec, start, sq>>

SendStep(t) ==
  /\ todo[t] # <<>>
  /\ LET s == Head(todo[t])
         rest == Tail(todo[t])
     IN  \/ Skip(t, s, rest)
         \/ SendRefused(t, s, rest)
         \/ SendItem(t, s, rest)
         \/ SendDts(t, s, rest)
         \/ SendEof(t, s, rest)
         \/ SendSourceFinished(t, s, rest)
         \/ SendFilterEof(t, s, rest)
         \/ SendAwait(t, s, rest)
         \/ SendFlushFails(t, s)
         \/ SendOpen(t, s, rest)
         \/ SendReady(t, s, rest)
         \/ SendMove(t, s, rest)
         \/ SendEarly(t, s, rest)
         \/ SendQueue(t, s, rest)
         \/ SendLate(t, s, rest)
         \/ SyncEnd(t, s, rest)
         \/ SyncSend(t, s, rest)
         \/ SyncDrain(t, s, rest)
         \/ SendBeat(t, s, rest)
  /\ UNCHANGED <<G, pos, fg, written, main, terminate, failed>>

-----------------------------------------------------------------------------
(* Demuxers: input_thread() *)

Idle(t, where) == pc[t] = where /\ todo[t] = <<>>

\* What sch_demux_send() and the others wait for in waiter_wait(): to be
\* unchoked, or to be told to terminate.
MayProceed(w) == ~choked[w]

StreamDone(d, i) == \A dst \in Range(G.streams[d][i]) : <<d, dst>> \in dstFin
ConsumersDone(t) == \A dst \in Range(G.dsts[t]) : <<t, dst>> \in dstFin

AtEnd(d) == pos[d].next > Len(G.file[d])

\* The number of a packet in its stream, over all loops.
Count(d, i, upto) == Cardinality({k \in 1 .. upto : G.file[d][k] = i})
Number(d) == LET i == G.file[d][pos[d].next]
             IN  (G.loop[d] - pos[d].loops) * Count(d, i, Len(G.file[d]))
                 + Count(d, i, pos[d].next)

\* The next packet goes to all destinations of its stream.
DemuxPacket(d) ==
  /\ Idle(d, "run")
  /\ ~ConsumersDone(d)
  /\ ~AtEnd(d)
  /\ LET i == G.file[d][pos[d].next]
     IN  IF StreamDone(d, i) THEN UNCHANGED <<pc, todo>>
         ELSE MayProceed(d) /\ Stay(d, SendAll(G.streams[d][i], Number(d)))
  /\ pos' = [pos EXCEPT ![d].next = @ + 1]
  /\ UNCHANGED <<dstFin, dec>>

\* At the end of a looped file: demux_flush(), then from the start again.
DemuxLoop(d) ==
  /\ Idle(d, "run")
  /\ ~ConsumersDone(d)
  /\ AtEnd(d)
  /\ pos[d].loops > 0
  /\ MayProceed(d)
  /\ Stay(d, [k \in DOMAIN G.dsts[d] |-> Send("flush", G.dsts[d][k], Special)])
  /\ pos' = [pos EXCEPT ![d] = [next |-> 1, loops |-> @.loops - 1]]
  /\ UNCHANGED <<dstFin, dec>>

\* The end of the file, of all consumers, or termination.
DemuxEnd(d) ==
  /\ Idle(d, "run")
  /\ \/ AtEnd(d) /\ pos[d].loops = 0
     \/ ConsumersDone(d)
     \/ terminate
  /\ Go(d, "finish", <<>>)
  /\ UNCHANGED <<pos, dstFin, dec>>

DemuxStep(d) ==
  /\ DemuxPacket(d) \/ DemuxLoop(d) \/ DemuxEnd(d)
  /\ UNCHANGED <<G, sched, choked, queues, fg, sq, start, written, main, terminate, failed>>

-----------------------------------------------------------------------------
(* Decoders: decoder_thread() around sch_dec_receive() and sch_dec_send() *)

\* A packet is decoded to one frame; a flush packet to none, and a heartbeat neither
\* (it would repeat a subtitle that is still shown).
Decode(d, n) == Go(d, "run", IF n <= Special THEN <<>> ELSE SendAll(G.out[d], n))

\* sch_dec_receive(): an overflow packet, while unchoked or on the way to the
\* end timestamp, ...
DecOverflow(d) ==
  /\ Idle(d, "run")
  /\ ~ConsumersDone(d)
  /\ dec[d].overflow # <<>>
  /\ ~choked[d] \/ dec[d].expect
  /\ Decode(d, Head(dec[d].overflow))
  /\ dec' = [dec EXCEPT ![d].overflow = Tail(@)]
  /\ UNCHANGED <<queues, failed>>

\* ... or one from the queue, after the end timestamp was given if expected.
DecAsk(d) ==
  /\ Idle(d, "run")
  /\ ~ConsumersDone(d)
  /\ dec[d].overflow = <<>> \/ (choked[d] /\ ~dec[d].expect)
  /\ Go(d, "recv", <<>>)
  /\ IF dec[d].expect
     THEN /\ dec[d].endts = "none"
          /\ dec' = [dec EXCEPT ![d].expect = FALSE, ![d].endts = "sent"]
     ELSE UNCHANGED dec
  /\ UNCHANGED <<queues, failed>>

\* Mutant: older packets in the overflow fifo are not looked at.
DecReceiveFirst(d) ==
  \E item \in Range(q[d]) :
    /\ Idle(d, "recv")
    /\ Take(d, item)
    /\ LET flushed == item.n <= Special /\ d \in G.endts
           put == choked[d]
       IN  /\ dec' = [dec EXCEPT ![d].expect = @ \/ flushed,
                                 ![d].overflow = IF put THEN Append(@, item.n) ELSE @]
           /\ IF put THEN Go(d, "run", <<>>) ELSE Decode(d, item.n)
    /\ UNCHANGED failed

\* tq_receive() returns a packet; it goes to the overflow fifo when the decoder
\* is choked or has others there.
DecReceive(d) ==
  \E item \in Range(q[d]) :
    /\ Idle(d, "recv")
    /\ Take(d, item)
    /\ LET flushed == item.n <= Special /\ d \in G.endts
           put == choked[d] \/ dec[d].overflow # <<>>
       IN  /\ dec' = [dec EXCEPT ![d].expect = @ \/ flushed,
                                 ![d].overflow = IF put THEN Append(@, item.n) ELSE @]
           /\ IF put THEN Go(d, "run", <<>>) ELSE Decode(d, item.n)
    /\ UNCHANGED failed

\* The decoder is drained and tells its consumers with an EOF frame.
DecFinish(d) == Go(d, "finish", SendAll(G.out[d], Special))

\* Mutant: the packets in the overflow fifo are forgotten.
DecEofAtOnce(d) ==
  /\ Idle(d, "recv")
  /\ TakeEof(d, 0) \/ TakeEnd(d)
  /\ DecFinish(d)
  /\ UNCHANGED <<dec, failed>>

\* tq_receive() returns EOF: the overflow fifo is drained first.
DecEof(d) ==
  /\ Idle(d, "recv")
  /\ TakeEof(d, 0) \/ TakeEnd(d)
  /\ IF dec[d].overflow = <<>> THEN DecFinish(d) ELSE Go(d, "drain", <<>>)
  /\ UNCHANGED <<dec, failed>>

\* waiter_wait() before an overflow packet is taken at the end.
DecDrain(d) ==
  /\ Idle(d, "drain")
  /\ \/ /\ MayProceed(d)
        /\ Decode(d, Head(dec[d].overflow))
        /\ dec' = [dec EXCEPT ![d].overflow = Tail(@)]
     \/ /\ terminate
        /\ DecFinish(d)
        /\ UNCHANGED dec
  /\ UNCHANGED <<queues, failed>>

DecNothing(d) ==
  /\ Idle(d, "recv")
  /\ TakeNothing(d)
  /\ UNCHANGED <<pc, todo, dec, failed>>

\* sch_dec_send() returned EOF for all consumers.
DecConsumersDone(d) ==
  /\ Idle(d, "run")
  /\ ConsumersDone(d)
  /\ Go(d, "finish", <<>>)
  /\ UNCHANGED <<queues, dec, failed>>

DecStep(d) ==
  /\ \/ DecOverflow(d) \/ DecAsk(d) \/ DecReceive(d) \/ DecEof(d)
     \/ DecDrain(d) \/ DecNothing(d) \/ DecConsumersDone(d)
  /\ UNCHANGED <<G, sched, choked, dstFin, pos, fg, sq, start, written, main, terminate>>

-----------------------------------------------------------------------------
(* Encoders: encoder_thread() *)

\* An encoder of subtitles, which are not filtered, opens itself.
EncOpen(e) ==
  /\ Idle(e, "run")
  /\ G.src[<<e, 0>>] \in G.decoders /\ e \notin start.opened
  /\ OpenEncoder(e, e, <<>>)
  /\ UNCHANGED queues

Opened(e) == e \in start.opened \/ G.src[<<e, 0>>] \notin G.decoders

\* A frame is encoded to one packet; one that only carries properties to none.
EncReceive(e) ==
  \E item \in Range(q[e]) :
    /\ Idle(e, "run") /\ Opened(e)
    /\ Take(e, item)
    /\ Stay(e, IF item.n = Special THEN <<>> ELSE SendAll(G.out[e], item.n))
    /\ UNCHANGED start

\* An encoder that was not opened for want of a frame fails.
EncEof(e) ==
  /\ Idle(e, "run") /\ Opened(e)
  /\ TakeEof(e, 0) \/ TakeEnd(e)
  /\ Go(e, IF e \in start.opened THEN "finish" ELSE "fail", <<>>)
  /\ UNCHANGED start

EncStep(e) ==
  /\ EncOpen(e) \/ EncReceive(e) \/ EncEof(e)
  /\ UNCHANGED <<G, sched, choked, dstFin, pos, dec, fg, sq, written, main,
                 terminate, failed>>

-----------------------------------------------------------------------------
(* Muxers: muxer_thread() *)

Full(ms) == Len(written[ms]) = G.limit[ms]

\* A packet is written, unless its stream has reached its limit: then
\* sch_mux_receive_finish() closes the stream.
Write(m, ms, n) ==
  IF Full(ms)
  THEN /\ fin' = Mark(m, {ms[2]}, "RECV")
       /\ Stay(m, <<Send("end", ms, 0)>>)
       /\ UNCHANGED written
  ELSE /\ written' = [written EXCEPT ![ms] = Append(@, n)]
       /\ Stay(m, <<>>)
       /\ UNCHANGED fin

\* A packet is received; before it is written heartbeats go to the decoders of
\* the subtitles that it may cut short.
MuxReceive(m) ==
  \E item \in Range(q[m]) :
    LET ms == <<m, item.in>>
        beats == [k \in DOMAIN G.beat[ms] |-> Send("beat", <<G.beat[ms][k], 0>>, Beat)]
    IN  /\ Idle(m, "run")
        /\ ~qchoked[m]
        /\ HasItem(m)
        /\ item = q[m][FirstWanted(m)]
        /\ q' = [q EXCEPT ![m] = SubSeq(@, FirstWanted(m) + 1, Len(@))]
        /\ UNCHANGED qchoked
        /\ IF beats = <<>> THEN Write(m, ms, item.n)
           ELSE Stay(m, beats \o <<Send("write", ms, item.n)>>) /\ UNCHANGED <<fin, written>>

MuxWrite(m) ==
  /\ todo[m] # <<>> /\ Head(todo[m]).kind = "write"
  /\ Write(m, Head(todo[m]).to, Head(todo[m]).n)
  /\ UNCHANGED <<q, qchoked>>

\* The end of one stream, unwanted packets, and the end of all streams.
MuxEof(m) ==
  /\ Idle(m, "run")
  /\ \/ (\E i \in DOMAIN fin[m] : TakeEof(m, i)) /\ UNCHANGED <<pc, todo>>
     \/ TakeNothing(m) /\ UNCHANGED <<pc, todo>>
     \/ TakeEnd(m) /\ Go(m, "finish", <<>>)
  /\ UNCHANGED written

MuxStep(m) ==
  /\ MuxReceive(m) \/ MuxWrite(m) \/ MuxEof(m)
  /\ UNCHANGED <<G, sched, choked, dstFin, pos, dec, fg, sq, start, main, terminate, failed>>

-----------------------------------------------------------------------------
(* Filtergraphs: filter_thread(), with the filters themselves reduced to   *)
(* three kinds.  A "source" makes frames without input; "concat" passes    *)
(* its inputs one after the other, each perhaps cut off by a trim filter;  *)
(* "sync" combines one frame of every input and ends with the first input  *)
(* that ends.  A filter may make more frames than it gets: the others only *)
(* when asked for a frame.  A trim learns of its end from the first frame  *)
(* behind it, which it drops.                                              *)

InputOver(f, x, i) == \/ x.took[i] > G.trim[<<f, i>>]
                      \/ i \in x.eof /\ x.have[i] = 0

\* The frames of each input that the graph can use now.
Usable(f, x) ==
  LET limited(i) == Minimum({x.have[i], G.trim[<<f, i>>] + 1 - x.took[i]})
      ends(i) == x.took[i] + limited(i) > G.trim[<<f, i>>] \/ i \in x.eof
      all == {x.have[i] : i \in FgInputs(G, f)}
  IN  [i \in FgInputs(G, f) |->
         IF G.kind[f] = "sync" THEN Minimum(all)
         ELSE IF \A j \in 0 .. i - 1 : ends(j) THEN limited(i) ELSE 0]

\* The graph after it has pushed what it can towards its outputs.
Pushed(f, x) ==
  LET use == Usable(f, x)
      passed(i) == Minimum({x.took[i] + use[i], G.trim[<<f, i>>]})
                     - Minimum({x.took[i], G.trim[<<f, i>>]})
      made == IF G.kind[f] = "sync" THEN use[0]
              ELSE FoldFunction(LAMBDA a, b : a + b, 0, [i \in FgInputs(G, f) |-> passed(i)])
  IN  [x EXCEPT !.have = [i \in FgInputs(G, f) |-> x.have[i] - use[i]],
                !.took = [i \in FgInputs(G, f) |-> x.took[i] + use[i]],
                !.ready = @ + made,
                !.extra = @ + made * (G.mult[f] - 1)]

GraphOver(f, x) ==
  IF G.kind[f] = "sync" THEN \E i \in FgInputs(G, f) : InputOver(f, x, i)
  ELSE \A i \in FgInputs(G, f) : InputOver(f, x, i)

\* choose_input(): an input whose frames were asked for in vain.
Preferred(f, x) ==
  LET over(i) == InputOver(f, x, i)
      open == {i \in FgInputs(G, f) : ~over(i)}
  IN  IF G.kind[f] = "sync" THEN {i \in open : x.have[i] = 0} ELSE {Minimum(open)}

\* The inputs whose format is still unknown; the graph needs all of them.
Unknown(f, x) == {i \in FgInputs(G, f) : x.have[i] = 0 /\ i \notin x.eof}

\* Inputs that no longer accept frames and are not closed yet.
ToClose(f, x) == {i \in FgInputs(G, f) : x.took[i] > G.trim[<<f, i>>]} \ x.closed

SetFg(f, x) == fg' = [fg EXCEPT ![f] = x]

\* Mutant: the scheduler is not told.
FilterAskStale(f) ==
  /\ Idle(f, "run")
  /\ Go(f, IF fg[f].next = G.nb[f] THEN "poll" ELSE "recv", <<>>)
  /\ UNCHANGED <<sched, choked, queues, fg>>

\* sch_filter_receive(), first part: tell the scheduler which input is wanted.
FilterAsk(f) ==
  LET next == fg[f].next
      s2 == [sched EXCEPT !.best[f] = next]
  IN  /\ Idle(f, "run")
      /\ IF next # sched.best[f] THEN Update(s2, qchoked)
         ELSE UNCHANGED <<sched, choked, qchoked>>
      /\ Go(f, IF next = G.nb[f] THEN "poll" ELSE "recv", <<>>)
      /\ UNCHANGED <<q, fin, fg>>

\* A frame or an EOF frame arrives; the first frame of the last unknown input
\* configures the graph, and so does its EOF (with fallback parameters).
FilterFrame(f) ==
  \E item \in Range(q[f]) :
    LET x == IF item.n = Special THEN [fg[f] EXCEPT !.eof = @ \cup {item.in}]
             ELSE [fg[f] EXCEPT !.have[item.in] = @ + 1]
        ready == x.configured \/ (item.n = Special /\ Unknown(f, x) = {})
    IN  /\ pc[f] \in {"recv", "poll"} /\ Idle(f, pc[f])
        /\ Take(f, item)
        /\ SetFg(f, IF ready THEN Pushed(f, [x EXCEPT !.configured = TRUE]) ELSE x)
        /\ Go(f, IF ready \/ Unknown(f, x) # {} THEN "request" ELSE "configure", <<>>)
        /\ UNCHANGED <<sched, choked>>

\* sch_filter_choke_inputs() before the graph is configured for the first time.
FilterConfigure(f) ==
  /\ Idle(f, "configure")
  /\ Update([sched EXCEPT !.best[f] = G.nb[f]], qchoked)
  /\ SetFg(f, Pushed(f, [fg[f] EXCEPT !.configured = TRUE]))
  /\ Go(f, "request", <<>>)
  /\ UNCHANGED <<q, fin>>

\* The end of one input is disregarded (an EOF frame came before it), the end
\* of all ends the thread; without a wanted input, both are left for later.
FilterEof(f) ==
  /\ pc[f] \in {"recv", "poll"} /\ Idle(f, pc[f])
  /\ \/ (\E i \in DOMAIN fin[f] : TakeEof(f, i)) /\ Go(f, IF pc[f] = "recv" THEN "recv" ELSE "wait", <<>>)
     \/ TakeEnd(f) /\ Go(f, IF pc[f] = "recv" THEN "finish" ELSE "wait", <<>>)
     \/ TakeNothing(f) /\ Go(f, IF pc[f] = "recv" THEN "recv" ELSE "wait", <<>>)
  /\ UNCHANGED <<sched, choked, fg>>

\* THREAD_QUEUE_FLAG_NO_BLOCK: the queue has nothing to give.
FilterIdle(f) ==
  /\ Idle(f, "poll")
  /\ \/ qchoked[f]
     \/ /\ q[f] = <<>> /\ Ended(f) = {}
        /\ \E i \in DOMAIN fin[f] : "RECV" \notin fin[f][i]
  /\ Go(f, "wait", <<>>)
  /\ UNCHANGED <<sched, choked, queues, fg>>

\* waiter_wait() of sch_filter_receive().
FilterWake(f) ==
  /\ Idle(f, "wait")
  /\ \/ MayProceed(f) /\ Go(f, "request", <<>>)
     \/ terminate /\ Go(f, "finish", <<>>)
  /\ UNCHANGED <<sched, choked, queues, fg>>

\* read_frames(): send what is ready, else ask the graph for a frame, else find
\* out which input it lacks.
FilterRequest(f) ==
  LET x == fg[f]
      To(next) == /\ SetFg(f, [x EXCEPT !.next = next])
                  /\ Go(f, IF ToClose(f, x) = {} THEN "run" ELSE "close", <<>>)
  IN  /\ Idle(f, "request")
      /\ \/ /\ ~x.configured
            /\ To(Minimum(Unknown(f, x)))
         \/ /\ x.configured
            /\ ConsumersDone(f)
            /\ Go(f, "finish", <<>>)
            /\ UNCHANGED fg
         \/ /\ x.configured /\ ~ConsumersDone(f)
            /\ x.ready > 0
            /\ SetFg(f, [x EXCEPT !.ready = @ - 1, !.made = @ + 1])
            /\ Stay(f, SendAll(G.out[f], x.made + 1))
         \/ /\ x.configured /\ ~ConsumersDone(f)
            /\ x.ready = 0
            /\ x.extra > 0
            /\ SetFg(f, [x EXCEPT !.extra = @ - 1, !.ready = 1, !.next = G.nb[f]])
            /\ Go(f, IF ToClose(f, x) = {} THEN "run" ELSE "close", <<>>)
         \/ /\ x.configured /\ ~ConsumersDone(f)
            /\ x.ready = 0 /\ x.extra = 0
            /\ IF GraphOver(f, x) THEN Go(f, "finish", <<>>) /\ UNCHANGED fg
               ELSE \E i \in Preferred(f, x) : To(i)
      /\ UNCHANGED <<sched, choked, queues>>

\* close_input() for every input that no longer accepts frames.
FilterClose(f) ==
  LET x == fg[f]
      i == Minimum(ToClose(f, x))
      s2 == [sched EXCEPT !.rfin = @ \cup {<<f, i>>}]
      x2 == [x EXCEPT !.closed = @ \cup {i}]
  IN  /\ Idle(f, "close")
      /\ fin' = Mark(f, WithControl(f, i, s2.rfin), "RECV")
      /\ Update(s2, qchoked)
      /\ SetFg(f, x2)
      /\ Go(f, IF ToClose(f, x2) = {} THEN "run" ELSE "close", <<>>)
      /\ UNCHANGED q

\* The end of filter_thread(): every output that is open is closed, after a
\* frame that initialises its encoder if there was none.
FilterFinish(f) ==
  /\ Idle(f, "finish")
  /\ Go(f, "finished", IF ~fg[f].configured THEN <<>>
                       ELSE (IF fg[f].made = 0 THEN SendAll(G.out[f], Special) ELSE <<>>)
                            \o SendEnds(G.out[f]))
  /\ UNCHANGED <<sched, choked, queues, fg>>

FilterStep(f) ==
  /\ \/ FilterAsk(f) \/ FilterFrame(f) \/ FilterConfigure(f) \/ FilterEof(f)
     \/ FilterIdle(f) \/ FilterWake(f) \/ FilterRequest(f) \/ FilterClose(f)
     \/ FilterFinish(f)
  /\ UNCHANGED <<G, dstFin, pos, dec, sq, start, written, main, terminate, failed>>

-----------------------------------------------------------------------------
(* task_wrapper() and task_cleanup() *)

\* The task's function returns an error, somewhere between two calls.
TaskFails(t) ==
  /\ t \in MayFail
  /\ Idle(t, "run")
  /\ Go(t, "fail", <<>>)
  /\ UNCHANGED <<G, sched, choked, queues, dstFin, pos, dec, fg, sq, start, written, main,
                 terminate, failed>>

\* Where the thread is, after a success or an error, from the clean-up on.
Cleaned(t) == IF pc[t] = "fail" THEN "broken" ELSE "done"

\* demux_done(), dec_done(), enc_done() and filter_done(): refuse further input
\* and end every destination.
CleanupTask(t) ==
  /\ t \notin G.muxers
  /\ IF t \in G.demuxers THEN UNCHANGED fin
     ELSE fin' = Mark(t, G.inputs[t], "RECV")
  /\ IF t \in G.decoders THEN dec' = [dec EXCEPT ![t].endts = "closed"]
     ELSE UNCHANGED dec
  /\ Go(t, Cleaned(t), SendEnds(G.dsts[t]))
  /\ UNCHANGED <<sched, choked, q, qchoked>>

\* mux_done()
CleanupMux(m) ==
  /\ m \in G.muxers
  /\ fin' = Mark(m, G.inputs[m], "RECV")
  /\ Update([sched EXCEPT !.done = @ \cup {ms \in G.muxed : ms[1] = m}], qchoked)
  /\ Go(m, Cleaned(m), <<>>)
  /\ UNCHANGED <<q, dec>>

Cleanup(t) ==
  /\ pc[t] \in {"fail", IF t \in G.graphs THEN "finished" ELSE "finish"}
  /\ Idle(t, pc[t])
  /\ CleanupTask(t) \/ CleanupMux(t)
  /\ UNCHANGED <<G, dstFin, pos, fg, sq, start, written, main, terminate, failed>>

\* The thread exits; a source tells the scheduler, an error the main thread.
Exit(t) ==
  /\ pc[t] \in {"done", "broken"} /\ Idle(t, pc[t])
  /\ Go(t, "exited", <<>>)
  /\ failed' = (failed \/ pc[t] = "broken")
  /\ IF t \in G.demuxers \cup G.graphs
     THEN Update([sched EXCEPT !.exited = @ \cup {t}], qchoked)
     ELSE UNCHANGED <<sched, choked, qchoked>>
  /\ UNCHANGED <<G, q, fin, dstFin, pos, dec, fg, sq, start, written, main, terminate>>

TaskStep(t) ==
  \/ SendStep(t)
  \/ t \in G.demuxers /\ DemuxStep(t)
  \/ t \in G.decoders /\ DecStep(t)
  \/ t \in G.graphs /\ FilterStep(t)
  \/ t \in G.encoders /\ EncStep(t)
  \/ t \in G.muxers /\ MuxStep(t)
  \/ Cleanup(t)
  \/ Exit(t)

-----------------------------------------------------------------------------
(* The main thread: sch_start(), sch_wait(), sch_stop() *)

rest == <<G, q, fin, pc, todo, dstFin, pos, dec, fg, sq, start, written>>

\* The last step of sch_start(); the threads run already.
Start ==
  /\ main = "start"
  /\ Update(sched, qchoked)
  /\ main' = "wait"
  /\ UNCHANGED <<rest, terminate, failed>>

\* nb_mux_done == nb_mux
AllMuxed == \A m \in G.muxers : pc[m] = "exited"

\* sch_wait() returns 1; sch_stop() asks for termination, ...
Finish ==
  /\ main = "wait"
  /\ AllMuxed \/ failed
  /\ main' = "stop"
  /\ terminate' = TRUE
  /\ UNCHANGED <<rest, sched, choked, qchoked, failed>>

\* ... as it does when the user does.
Quit ==
  /\ MayQuit
  /\ main = "wait"
  /\ main' = "stop"
  /\ terminate' = TRUE
  /\ UNCHANGED <<rest, sched, choked, qchoked, failed>>

\* Mutant: the queues of choked demuxers stay choked.
StopSourcesOnly ==
  /\ main = "stop"
  /\ choked' = [w \in G.waiters |-> w \notin G.decoders]
  /\ main' = "join"
  /\ UNCHANGED <<rest, sched, qchoked, terminate, failed>>

\* sch_stop() chokes all sources, and lets decoders and their queues drain.
StopSources ==
  /\ main = "stop"
  /\ choked' = [w \in G.waiters |-> w \notin G.decoders]
  /\ qchoked' = [n \in G.owners |-> qchoked[n]
                                  /\ \A d \in G.demuxers : n \notin G.with[d]]
  /\ main' = "join"
  /\ UNCHANGED <<rest, sched, terminate, failed>>

\* All threads are joined; what mux_done() does for a muxer that was never started
\* nobody sees any more.
Join ==
  /\ main = "join"
  /\ \A t \in G.tasks : pc[t] \in {"exited", "new"}
  /\ main' = "stopped"
  /\ UNCHANGED <<rest, sched, choked, qchoked, terminate, failed>>

Stopped == main = "stopped" /\ UNCHANGED vars

MainStep == Start \/ Finish \/ StopSources \/ Join

Next == \/ \E t \in G.tasks : TaskStep(t) \/ TaskFails(t)
        \/ MainStep \/ Quit \/ Stopped

Spec == Init /\ [][Next]_vars

\* Some thread runs as long as one can; errors and the user's wish may happen
\* or not.  Which thread runs is left open.
FairSpec == Spec /\ WF_vars(MainStep \/ \E t \in G.tasks : TaskStep(t))

-----------------------------------------------------------------------------
(* Properties *)

TypeOK ==
  /\ sched.last \in [G.muxed -> Nat \cup {NoPts}]
  /\ sched.done \subseteq G.muxed
  /\ \A f \in G.graphs : sched.best[f] \in 0 .. G.nb[f]
  /\ choked \in [G.waiters -> BOOLEAN]
  /\ \A n \in G.owners : Len(q[n]) <= QueueSize
  /\ qchoked \in [G.owners -> BOOLEAN]
  /\ main \in {"start", "wait", "stop", "join", "stopped"}

\* The transcoding ends, by itself or because somebody stopped it, and sch_stop()
\* returns: no choice of the sources to run leaves all threads waiting for each
\* other, and neither an error nor a choked queue keeps one from being joined.
Returns == <>(main = "stopped")

\* The same without fairness, for graphs too large for the check of the former:
\* until then some thread can go on (and none can go on for ever).
NeverStuck == main # "stopped" => ENABLED (MainStep \/ \E t \in G.tasks : TaskStep(t))

\* A copied stream with a demuxer of its own never gets further ahead of the one
\* that is furthest behind than the tolerance, however the threads run.
LeadBounded ==
  \A ms \in Open(G, sched) :
    (G.src[ms] \in G.demuxers /\ G.dsts[G.src[ms]] = <<ms>> /\ TrailingDts(G, sched) # NoPts)
      => sched.last[ms] - TrailingDts(G, sched) <= Tolerance

\* From the time sch_stop() has choked the sources no update unchokes one.
SourcesStayChoked ==
  main \in {"join", "stopped"} =>
    \A w \in G.waiters : choked[w] = (w \notin G.decoders)

\* A filtergraph gets the frames of each of its inputs in order and without a gap,
\* whichever packets the decoder had to put aside: before each frame in its queue are
\* those that come between the last one it got and this one.
FramesInOrder ==
  \A f \in G.graphs : \A i \in FgInputs(G, f) :
    LET arrived == fg[f].took[i] + fg[f].have[i]
        frames == {k \in DOMAIN q[f] : q[f][k].in = i /\ q[f][k].n # Special}
    IN  "RECV" \notin fin[f][i] =>
          \A k \in frames :
            /\ q[f][k].n > arrived
            /\ {q[f][j].n : j \in {l \in frames : l < k}} = arrived + 1 .. q[f][k].n - 1

\* The queues keep their bounds and their order.
QueuesInOrder == TypeOK /\ FramesInOrder

\* When an output ends by itself, each of its streams has got all of its packets,
\* in order and each of them once.
NothingMissing ==
  \A ms \in G.muxed :
    (pc[ms[1]] = "exited" /\ ~terminate /\ ~failed) =>
      written[ms] = [k \in 1 .. G.want[ms] |-> k]
=============================================================================

--------------------------- MODULE SchedulerGraph ---------------------------
(***************************************************************************)
(* The transcoding graph of fftools/ffmpeg_sched.c and the decision which  *)
(* of its sources may run: the part of schedule_update_locked() that reads *)
(* the graph and the progress of the outputs and writes nothing else.      *)
(*                                                                         *)
(* A plan B names the nodes by type, the muxed streams and the filtergraph *)
(* inputs, each in the order of their indices, and the destinations of     *)
(* every demuxed stream and of every decoder, filtergraph and encoder.  A  *)
(* destination is a pair <<node, input>>.  Connected(B) adds to it what    *)
(* sch_connect() stores with the nodes.                                    *)
(***************************************************************************)
EXTENDS Integers, Sequences, FiniteSets, Functions, SequencesExt

CONSTANT Tolerance       \* SCHEDULE_TOLERANCE, in packets

NoPts == -1              \* AV_NOPTS_VALUE

\* The number of inputs of filtergraph f.
NbInputs(B, f) == Cardinality({i \in DOMAIN B.filterIns : B.filterIns[i][1] = f})

\* The destinations of node n, for a demuxer those of all its streams.
Dsts(B, n) == IF n \in DOMAIN B.streams THEN FlattenSeq(B.streams[n])
              ELSE IF n \in DOMAIN B.out THEN B.out[n] ELSE <<>>

\* The inputs of the queue of n; that of a filtergraph has a control stream.
QueueInputs(B, n) ==
  CASE n \in Range(B.mux)     -> {ms[2] : ms \in {x \in Range(B.muxStreams) : x[1] = n}}
    [] n \in Range(B.filters) -> 0 .. NbInputs(B, n)
    [] OTHER                  -> {0}

\* choke_demux(): the queues choked along with a demuxer, those that the first
\* destinations of its streams read from (streams[i].dst is that destination).
ChokedWith(B, d) ==
  LET first == {B.streams[d][i][1] : i \in DOMAIN B.streams[d]}
  IN  {x[1] : x \in {y \in first : /\ y[1] \notin Range(B.mux)
                                   /\ y[1] \in Range(B.filters) => NbInputs(B, y[1]) = 1}}

\* sch_add_*() and sch_connect(): the plan with the source of every input, and
\* the sets of nodes that have a thread, a waiter or a queue.
Connected(B) ==
  LET demuxers == Range(B.demux)
      waiters == demuxers \cup Range(B.filters) \cup Range(B.dec)
      tasks == waiters \cup Range(B.enc) \cup Range(B.mux)
      dsts == [n \in tasks |-> Dsts(B, n)]
      Derived ==
        [tasks    |-> tasks,
         waiters  |-> waiters,
         owners   |-> tasks \ demuxers,
         demuxers |-> demuxers,
         decoders |-> Range(B.dec),
         graphs   |-> Range(B.filters),
         encoders |-> Range(B.enc),
         muxers   |-> Range(B.mux),
         muxed    |-> Range(B.muxStreams),
         dsts     |-> dsts,
         nb       |-> [f \in Range(B.filters) |-> NbInputs(B, f)],
         inputs   |-> [n \in tasks \ demuxers |-> QueueInputs(B, n)],
         with     |-> [d \in demuxers |-> ChokedWith(B, d)],
         src      |-> [x \in UNION {Range(dsts[n]) : n \in tasks} |->
                         CHOOSE n \in tasks : x \in Range(dsts[n])]]
  IN  Derived @@ B

-----------------------------------------------------------------------------
(* What a graph is like when the threads start: the assertions of          *)
(* sch_connect() and the checks of start_prepare().                        *)

OnlyInputs(N) == {<<n, 0>> : n \in N}       \* of decoders or encoders
FilterInputs(G) == UNION {{<<f, i>> : i \in 0 .. G.nb[f] - 1} : f \in G.graphs}

\* What a node of each type may be connected to.
Sinks(G, t) ==
  CASE t \in G.demuxers -> OnlyInputs(G.decoders) \cup G.muxed
    [] t \in G.decoders \cup G.graphs -> OnlyInputs(G.encoders) \cup FilterInputs(G)
    [] t \in G.encoders -> G.muxed
    [] OTHER -> {}

\* Every node is of one type, has the inputs of that type, and sends to sinks of
\* the right kind; a sink has one source, where it is named once, and an encoder
\* has a sink.
WellConnected(G) ==
  LET kinds == <<G.demuxers, G.decoders, G.graphs, G.encoders, G.muxers>>
  IN  /\ \A j, k \in DOMAIN kinds : j # k => kinds[j] \cap kinds[k] = {}
      /\ G.tasks = G.owners \cup G.demuxers
      /\ G.owners = G.decoders \cup G.graphs \cup G.encoders \cup G.muxers
      /\ G.waiters = G.demuxers \cup G.graphs \cup G.decoders
      /\ G.nb \in [G.graphs -> Nat]
      /\ \A ms \in G.muxed : ms \in G.muxers \X Nat
      /\ G.inputs = [n \in G.owners |->
                       IF n \in G.muxers THEN {ms[2] : ms \in {x \in G.muxed : x[1] = n}}
                       ELSE IF n \in G.graphs THEN 0 .. G.nb[n] ELSE {0}]
      /\ \A t \in G.tasks : G.dsts[t] \in Seq(Sinks(G, t))
      /\ \A t, u \in G.tasks : Range(G.dsts[t]) \cap Range(G.dsts[u]) # {} => t = u
      /\ \A x \in FilterInputs(G) \cup OnlyInputs(G.decoders \cup G.encoders) \cup G.muxed :
           \E t \in G.tasks : x \in Range(G.dsts[t])
      /\ \A e \in G.encoders : G.dsts[e] # <<>>
      /\ \A t \in G.tasks \ (G.demuxers \cup G.muxers) :
           G.out[t] = G.dsts[t] /\ IsInjective(G.out[t])
      /\ \A d \in G.demuxers :
           /\ G.streams[d] \in Seq(Seq(Range(G.dsts[d])))
           /\ \A j, k \in DOMAIN G.streams[d] :
                \A a \in DOMAIN G.streams[d][j], b \in DOMAIN G.streams[d][k] :
                  G.streams[d][j][a] = G.streams[d][k][b] => j = k /\ a = b

-----------------------------------------------------------------------------
(* unchoke_for_stream() and unchoke_downstream() as one walk with an       *)
(* explicit stack.  An entry "up" stands for a call of the former from a   *)
(* node, an entry "down" for a call of the latter on a destination; U is   *)
(* the set of waiters with choked_next == 0.  The flags are "all" for      *)
(* UNCHOKE_ALL, "decode" for UNCHOKE_DECODE and "none" for no call at all. *)

Up(n, flags) == [dir |-> "up",   at |-> n, flags |-> flags]
Down(dst)    == [dir |-> "down", at |-> dst[1], flags |-> "none"]

\* Only the first destination of a demuxed stream or a decoder is followed.
DownStreams(G, d) == [i \in DOMAIN G.streams[d] |-> Down(G.streams[d][i][1])]
DownAll(G, e)     == [i \in DOMAIN G.out[e] |-> Down(G.out[e][i])]

\* What one stack entry adds to U and pushes on the stack.
Visit(G, best, e, U) ==
  LET n == e.at
      direct == best[n] = G.nb[n]
      preferred == G.src[<<n, best[n]>>]
      Result(add, more) == [set |-> U \cup add, more |-> more]
      Nothing == Result({}, <<>>)
  IN  CASE n \in G.muxers -> Nothing
        [] e.dir = "up" /\ n \in G.demuxers ->
             IF n \in U \/ e.flags # "all" THEN Nothing
             ELSE Result({n}, DownStreams(G, n))
        [] e.dir = "up" /\ n \in G.decoders ->
             IF e.flags = "none" THEN Nothing
             ELSE Result({n}, <<Up(G.src[<<n, 0>>], e.flags)>>)
        [] e.dir = "up" /\ n \in G.encoders ->
             Result({}, <<Up(G.src[<<n, 0>>], e.flags)>>)
        [] e.dir = "up" /\ n \in G.graphs ->
             IF ~direct THEN Result({}, <<Up(preferred, e.flags)>>)
             ELSE IF e.flags = "all" THEN Result({n}, <<>>) ELSE Nothing
        [] e.dir = "down" /\ n \in G.decoders ->
             IF n \in U THEN Result({}, <<Down(G.out[n][1])>>) ELSE Nothing
        [] e.dir = "down" /\ n \in G.encoders -> Result({}, DownAll(G, n))
        [] e.dir = "down" /\ n \in G.graphs ->
             IF direct THEN Result({n}, <<>>) ELSE Result({}, <<Up(preferred, "all")>>)

\* The waiters unchoked after the calls on the stack have returned, in order.
Unchoke(G, best, calls) ==
  LET Entry == [dir : {"up", "down"}, at : STRING, flags : {"all", "decode", "none"}]
      walk[x \in Seq(Entry) \X SUBSET STRING] ==
        IF x[1] = <<>> THEN x[2]
        ELSE LET v == Visit(G, best, Head(x[1]), x[2])
             IN  walk[<<v.more \o Tail(x[1]), v.set>>]
  IN  walk[<<calls, {}>>]

-----------------------------------------------------------------------------
(* schedule_update_locked(), from a record s of what it reads: last and    *)
(* done (last_dts and source_finished per muxed stream), best (best_input  *)
(* per filtergraph), rfin and sfin (the filter inputs whose receiving or   *)
(* sending side is finished), exited (task_exited).                        *)

Open(G, s) == G.muxed \ s.done

\* trailing_dts()
TrailingDts(G, s) ==
  LET dts == {s.last[ms] : ms \in Open(G, s)}
  IN  IF dts = {} \/ NoPts \in dts THEN NoPts
      ELSE CHOOSE t \in dts : \A u \in dts : t <= u

\* Mutant: every stream that is not finished.
LaggingAll(G, s) == Open(G, s)

\* Output streams that are not finished and not too far ahead of the last one.
Lagging(G, s) ==
  LET dts == TrailingDts(G, s)
  IN  {ms \in Open(G, s) : IF dts = NoPts THEN s.last[ms] = NoPts
                           ELSE s.last[ms] - dts < Tolerance}

\* Whose waiters are unchoked for an output stream: all on the way of one that
\* lags, only the decoders, to drain them, of one that is finished.
StreamFlags(G, s, ms) == IF ms \in s.done THEN "decode"
                         ELSE IF ms \in Lagging(G, s) THEN "all" ELSE "none"

\* Sources of closed filtergraph inputs, which must observe the EOF.
ClosedIns(G, s) == SelectSeq(G.filterIns, LAMBDA fi : fi \in s.rfin \ s.sfin)

\* The calls of unchoke_for_stream(): per muxed stream, then per closed input.
Calls(G, s) ==
  LET closed == ClosedIns(G, s)
  IN  [i \in DOMAIN G.muxStreams |->
          Up(G.src[G.muxStreams[i]], StreamFlags(G, s, G.muxStreams[i]))]
      \o [i \in DOMAIN closed |-> Up(G.src[closed[i]], "all")]

\* UNCHOKE_ONCE: if no stream was lagging, the first source that still runs.
Fallback(G, s) ==
  LET alive == SelectSeq(G.demux \o G.filters, LAMBDA n : n \notin s.exited)
  IN  IF Lagging(G, s) = {} /\ alive # <<>> THEN {Head(alive)} ELSE {}

\* The waiters that may proceed after the update.
Unchoked(G, s) == Unchoke(G, s.best, Calls(G, s)) \cup Fallback(G, s)
=============================================================================

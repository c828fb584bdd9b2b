--------------------------- MODULE PipelineProofs ---------------------------
(***************************************************************************)
(* Proofs about Pipeline.tla for every transcoding graph, tolerance and    *)
(* queue size, whichever tasks fail and whenever the user stops.           *)
(***************************************************************************)
EXTENDS Pipeline, SequenceTheorems, FiniteSetTheorems, WellFoundedInduction, TLAPS

\* While threads are being joined, termination was asked for before: that is
\* why no update undoes what sch_stop() did to the waiters.
StopInv ==
  /\ main \in {"stop", "join", "stopped"} => terminate
  /\ SourcesStayChoked

\* An update of the schedule leaves the waiters alone after termination.
LEMMA UpdateKeeps ==
  ASSUME NEW s, NEW qc, Update(s, qc), terminate
  PROVE  choked' = choked
BY DEF Update

\* So does every step of a task, and none touches what only the main thread
\* writes.
LEMMA TaskStepKeeps ==
  ASSUME NEW t \in G.tasks, TaskStep(t) \/ TaskFails(t)
  PROVE  /\ UNCHANGED <<G, main, terminate>>
         /\ terminate => choked' = choked
<1>1. CASE SendStep(t)
  <2>1. UNCHANGED <<G, main, terminate>>
    BY <1>1 DEF SendStep
  <2>2. ASSUME terminate PROVE choked' = choked
    BY <1>1, <2>2, UpdateKeeps
       DEF SendStep, Skip, SendRefused, SendItem, SendDts, SendEof,
           SendSourceFinished, SendFilterEof, SendAwait, SendFlushFails, SendOpen,
           SendReady, SendMove, SendEarly, SendQueue, SendLate,
           SyncEnd, SyncSend, SyncDrain, SendBeat
  <2> QED BY <2>1, <2>2
<1>2. CASE DemuxStep(t)
  BY <1>2 DEF DemuxStep
<1>3. CASE DecStep(t)
  BY <1>3 DEF DecStep
<1>4. CASE FilterStep(t)
  <2>1. UNCHANGED <<G, main, terminate>>
    BY <1>4 DEF FilterStep
  <2>2. ASSUME terminate PROVE choked' = choked
    BY <1>4, <2>2, UpdateKeeps
       DEF FilterStep, FilterAsk, FilterFrame, FilterConfigure, FilterEof,
           FilterIdle, FilterWake, FilterRequest, FilterClose, FilterFinish
  <2> QED BY <2>1, <2>2
<1>5. CASE EncStep(t)
  BY <1>5 DEF EncStep
<1>6. CASE MuxStep(t)
  BY <1>6 DEF MuxStep
<1>7. CASE Cleanup(t)
  <2>1. UNCHANGED <<G, main, terminate>>
    BY <1>7 DEF Cleanup
  <2>2. ASSUME terminate PROVE choked' = choked
    BY <1>7, <2>2, UpdateKeeps DEF Cleanup, CleanupTask, CleanupMux
  <2> QED BY <2>1, <2>2
<1>8. CASE Exit(t)
  <2>1. UNCHANGED <<G, main, terminate>>
    BY <1>8 DEF Exit
  <2>2. ASSUME terminate PROVE choked' = choked
    BY <1>8, <2>2, UpdateKeeps DEF Exit
  <2> QED BY <2>1, <2>2
<1>9. CASE TaskFails(t)
  BY <1>9 DEF TaskFails
<1> QED BY <1>1, <1>2, <1>3, <1>4, <1>5, <1>6, <1>7, <1>8, <1>9 DEF TaskStep

LEMMA StopInvInit == Init => StopInv
BY DEF Init, StopInv, SourcesStayChoked

LEMMA StopInvNext == StopInv /\ [Next]_vars => StopInv'
<1> SUFFICES ASSUME StopInv, [Next]_vars PROVE StopInv'
  OBVIOUS
<1>1. ASSUME NEW t \in G.tasks, TaskStep(t) \/ TaskFails(t) PROVE StopInv'
  BY <1>1, TaskStepKeeps DEF StopInv, SourcesStayChoked
<1>2. CASE Start
  BY <1>2 DEF Start, rest, StopInv, SourcesStayChoked
<1>3. CASE Finish \/ Quit
  BY <1>3 DEF Finish, Quit, rest, StopInv, SourcesStayChoked
<1>4. CASE StopSources
  BY <1>4 DEF StopSources, rest, StopInv, SourcesStayChoked
<1>5. CASE Join
  BY <1>5 DEF Join, rest, StopInv, SourcesStayChoked
<1>6. CASE UNCHANGED vars
  BY <1>6 DEF vars, StopInv, SourcesStayChoked
<1> QED BY <1>1, <1>2, <1>3, <1>4, <1>5, <1>6 DEF Next, MainStep, Stopped

\* From the time sch_stop() has choked the sources, no task that is still running
\* has the scheduler unchoke one, nor choke a decoder that must drain.
THEOREM SourcesAreStopped == Spec => []SourcesStayChoked
<1>1. StopInv => SourcesStayChoked
  BY DEF StopInv
<1> QED BY <1>1, StopInvInit, StopInvNext, PTL DEF Spec
-----------------------------------------------------------------------------
(* Types                                                                   *)

\* What may be sent by task t, and what is in the queue of n.
Kinds == {"data", "eof", "flush", "await", "dts", "end", "queue", "ready", "move", "write",
          "syncend", "drain", "beat"}
Message == [kind : Kinds, to : G.owners \X Nat, n : Int]
Fits(t, kind, x, n) ==
  /\ kind \in {"data", "eof", "flush", "queue", "syncend", "drain"} => x \in Range(G.dsts[t])
  /\ kind \in {"data", "eof", "dts", "queue"} => n \in Nat
  /\ kind = "flush" => n = 0
  /\ kind = "await" => x[1] \in G.decoders
  /\ kind \in {"dts", "end", "queue", "ready", "move", "write"} => x \in G.muxed
  /\ kind \in {"syncend", "drain"} => Synced(x)
  /\ kind = "beat" => x \in OnlyInputs(G.decoders)
Sends(t) == {s \in Message : Fits(t, s.kind, s.to, s.n)}

Ports(n) == IF n \in G.graphs THEN FgInputs(G, n) ELSE G.inputs[n]
Items(n) == [in : Ports(n), n : IF n \in G.decoders THEN Int ELSE Nat]

TasksTyped ==
  /\ G \in Graphs
  /\ pc = [t \in G.tasks |-> pc[t]]
  /\ todo = [t \in G.tasks |-> todo[t]]
  /\ \A t \in G.tasks : todo[t] \in Seq(Sends(t))

QueuesTyped ==
  /\ q = [n \in G.owners |-> q[n]]
  /\ \A n \in G.owners : q[n] \in Seq(Items(n)) /\ Len(q[n]) <= QueueSize
  /\ fin = [n \in G.owners |-> fin[n]]
  /\ \A n \in G.owners : fin[n] = [i \in G.inputs[n] |-> fin[n][i]]

SchedFields == {"last", "done", "best", "rfin", "sfin", "exited"}
SchedTyped(s) ==
  /\ s = [y \in SchedFields |-> s[y]]
  /\ s.last \in [G.muxed -> Nat \cup {NoPts}] /\ s.done \subseteq G.muxed
  /\ s.best = [f \in G.graphs |-> s.best[f]] /\ \A f \in G.graphs : s.best[f] \in 0 .. G.nb[f]
WaitersTyped ==
  /\ choked \in [G.waiters -> BOOLEAN] /\ qchoked \in [G.owners -> BOOLEAN]
  /\ SchedTyped(sched)

StartTyped ==
  start \in [opened : SUBSET G.encoders, ready : SUBSET G.muxed, started : SUBSET G.muxers,
             pre : [G.muxed -> Seq(Nat)], locked : BOOLEAN]

SourcesTyped ==
  /\ dec \in [G.decoders -> [overflow : Seq(Int), expect : BOOLEAN, endts : {"none", "sent", "closed"}]]
  /\ \A d \in G.decoders : pc[d] = "drain" => ~(dec[d].overflow = <<>>)
  /\ pos \in [G.demuxers -> [next : Nat \ {0}, loops : Nat]]
  /\ \A d \in G.demuxers : pos[d].next <= Len(G.file[d]) + 1 /\ pos[d].loops <= G.loop[d]

\* The packets of stream j that demuxer d has read, over all loops.
Counted(d, j) == (G.loop[d] - pos[d].loops) * Count(d, j, Len(G.file[d]))
                 + Count(d, j, pos[d].next - 1)

\* A filtergraph that is at work and not configured lacks the format of an input,
\* unless it is about to be configured.
FgFields == {"have", "took", "eof", "closed", "next", "ready", "extra", "made", "configured"}
FgTyped(f, x) ==
  /\ x = [y \in FgFields |-> x[y]]
  /\ x.have \in [FgInputs(G, f) -> Nat] /\ x.took \in [FgInputs(G, f) -> Int]
  /\ x.next \in 0 .. G.nb[f] /\ x.made \in Nat
Told(f, where, x) ==
  where \in {"run", "recv", "poll", "wait", "request", "close"} =>
    x.configured \/ ~(Unknown(f, x) = {})
GraphsTyped ==
  /\ fg = [f \in G.graphs |-> fg[f]]
  /\ \A f \in G.graphs : FgTyped(f, fg[f]) /\ Told(f, pc[f], fg[f])

\* The sync queue has frames of one unit, of streams that are not cut.
SyncFrames == [pts : {n \in Int : n >= -1}, dur : Int, nb_samples : {0}]
StreamFields == {"fifo", "tick", "samples_queued", "head_ts", "finished", "frames_sent",
                 "samples_sent", "frames_max", "frame_samples"}
QueueFields == {"finished", "head_stream", "head_finished_stream", "st"}
StreamTyped(s) == /\ s = [y \in StreamFields |-> s[y]]
                  /\ s.fifo \in Seq(SyncFrames) /\ s.samples_queued = 0 /\ s.frame_samples = 0
StreamsTyped(st) == st = [i \in SQ!Streams |-> st[i]] /\ \A i \in SQ!Streams : StreamTyped(st[i])
SyncQueueTyped(queue) == queue = [y \in QueueFields |-> queue[y]] /\ StreamsTyped(queue.st)
SyncTyped == sq = [locked |-> sq.locked, queue |-> sq.queue] /\ SyncQueueTyped(sq.queue)

MainTyped == main \in {"start", "wait", "stop", "join", "stopped"}

Typed == /\ TasksTyped /\ QueuesTyped /\ WaitersTyped /\ StartTyped
         /\ SourcesTyped /\ GraphsTyped /\ SyncTyped /\ MainTyped

-----------------------------------------------------------------------------
(* The graph                                                               *)

\* What the proofs use of the connections of the graph.
LEMMA GraphFacts ==
  ASSUME G \in Graphs
  PROVE  /\ G.tasks = G.owners \cup G.demuxers
         /\ G.owners = G.decoders \cup G.graphs \cup G.encoders \cup G.muxers
         /\ G.waiters = G.demuxers \cup G.graphs \cup G.decoders
         /\ G.nb \in [G.graphs -> Nat]
         /\ \A ms \in G.muxed : ms \in G.muxers \X Nat
<1>1. WellConnected(G)
  BY GraphsAssumption
<1> QED BY <1>1 DEF WellConnected

\* A task is of one kind.
LEMMA OneKind ==
  ASSUME G \in Graphs, NEW t
  PROVE  /\ t \in G.demuxers => t \notin G.owners
         /\ t \in G.decoders => t \notin G.graphs \cup G.encoders \cup G.muxers
         /\ t \in G.graphs => t \notin G.encoders \cup G.muxers
         /\ t \in G.encoders => t \notin G.muxers
<1> DEFINE kinds == <<G.demuxers, G.decoders, G.graphs, G.encoders, G.muxers>>
<1>1. \A j, k \in DOMAIN kinds : j # k => kinds[j] \cap kinds[k] = {}
  BY GraphsAssumption DEF WellConnected
<1>2. \A j, k \in 1 .. 5 : j # k => kinds[j] \cap kinds[k] = {}
  BY <1>1
<1>3. /\ G.demuxers \cap G.decoders = {} /\ G.demuxers \cap G.graphs = {}
      /\ G.demuxers \cap G.encoders = {} /\ G.demuxers \cap G.muxers = {}
  BY <1>2
<1>4. /\ G.decoders \cap G.graphs = {} /\ G.decoders \cap G.encoders = {}
      /\ G.decoders \cap G.muxers = {} /\ G.graphs \cap G.encoders = {}
      /\ G.graphs \cap G.muxers = {} /\ G.encoders \cap G.muxers = {}
  BY <1>2
<1> HIDE DEF kinds
<1> QED BY <1>3, <1>4, GraphFacts

\* A destination is an input of the right kind, of one sender.
LEMMA SinkFacts ==
  ASSUME G \in Graphs, NEW t \in G.tasks
  PROVE  /\ G.dsts[t] \in Seq(G.owners \X Nat)
         /\ \A x \in Range(G.dsts[t]) :
              /\ x \in G.owners \X Nat /\ x[2] \in Ports(x[1]) /\ x[2] \in G.inputs[x[1]]
              /\ x[1] \in G.muxers => x \in G.muxed
              /\ x[1] \in G.decoders \cup G.encoders => x[2] = 0
              /\ t \in G.demuxers => x[1] \in G.decoders \cup G.muxers
              /\ t \in G.decoders \cup G.graphs => x[1] \in G.graphs \cup G.encoders
              /\ t \in G.encoders => x \in G.muxed
              /\ t \notin G.muxers
              /\ \A u \in G.tasks : x \in Range(G.dsts[u]) => u = t
<1>1. WellConnected(G)
  BY GraphsAssumption
<1>2. G.dsts[t] \in Seq(Sinks(G, t))
  BY <1>1 DEF WellConnected
<1>3. G.inputs = [n \in G.owners |->
                   IF n \in G.muxers THEN {ms[2] : ms \in {x \in G.muxed : x[1] = n}}
                   ELSE IF n \in G.graphs THEN 0 .. G.nb[n] ELSE {0}]
  BY <1>1 DEF WellConnected
<1>4. \A m \in G.muxed : m \in G.owners \X Nat /\ m[1] \in G.muxers /\ m[2] \in G.inputs[m[1]] /\ m[2] \in Ports(m[1])
  <2> TAKE m \in G.muxed
  <2>1. m \in G.muxers \X Nat
    BY GraphFacts
  <2>2. m[1] \in G.muxers /\ m \in G.owners \X Nat /\ m[1] \in G.owners
    BY <2>1, GraphFacts
  <2>3. m[2] \in G.inputs[m[1]]
    BY <1>3, <2>2
  <2>4. m[1] \notin G.graphs
    BY <2>2, OneKind
  <2> QED BY <2>2, <2>3, <2>4 DEF Ports
<1>5. \A x \in FilterInputs(G) : /\ x \in G.owners \X Nat /\ x[1] \in G.graphs
                                 /\ x[2] \in G.inputs[x[1]] /\ x[2] \in Ports(x[1])
  <2> TAKE x \in FilterInputs(G)
  <2>0. PICK f \in G.graphs : x \in {<<f, i>> : i \in 0 .. G.nb[f] - 1}
    BY DEF FilterInputs
  <2>1. PICK i \in 0 .. G.nb[f] - 1 : x = <<f, i>>
    BY <2>0
  <2>2. G.nb[f] \in Nat
    BY GraphFacts
  <2>3. f \in G.owners /\ f \notin G.muxers /\ i \in Nat /\ i \in 0 .. G.nb[f]
    BY <2>1, <2>2, OneKind, GraphFacts
  <2> QED BY <1>3, <2>1, <2>3 DEF Ports, FgInputs
<1>6. \A N \in {G.decoders, G.encoders} : \A x \in OnlyInputs(N) :
        /\ x \in G.owners \X Nat /\ x[1] \in N /\ x[2] = 0
        /\ x[2] \in G.inputs[x[1]] /\ x[2] \in Ports(x[1])
  <2> TAKE N \in {G.decoders, G.encoders}
  <2> TAKE x \in OnlyInputs(N)
  <2>1. PICK n \in N : x = <<n, 0>>
    BY DEF OnlyInputs
  <2>2. n \in G.owners /\ n \notin G.muxers /\ n \notin G.graphs
    BY <2>1, OneKind, GraphFacts
  <2> QED BY <1>3, <2>1, <2>2 DEF Ports
<1>7. Range(G.dsts[t]) \subseteq Sinks(G, t)
  BY <1>2 DEF Range
<1>8. Sinks(G, t) \subseteq G.owners \X Nat
  BY <1>4, <1>5, <1>6, GraphFacts DEF Sinks
<1>9. G.dsts[t] \in Seq(G.owners \X Nat)
  BY <1>2, <1>8
<1>10. ASSUME NEW x \in Range(G.dsts[t])
       PROVE  /\ x \in G.owners \X Nat /\ x[2] \in Ports(x[1]) /\ x[2] \in G.inputs[x[1]]
              /\ x[1] \in G.muxers => x \in G.muxed
              /\ x[1] \in G.decoders \cup G.encoders => x[2] = 0
              /\ t \in G.demuxers => x[1] \in G.decoders \cup G.muxers
              /\ t \in G.decoders \cup G.graphs => x[1] \in G.graphs \cup G.encoders
              /\ t \in G.encoders => x \in G.muxed
              /\ t \notin G.muxers
  <2>1. x \in Sinks(G, t)
    BY <1>7
  <2>2. CASE t \in G.demuxers
    <3>2. t \notin G.decoders \cup G.graphs /\ t \notin G.encoders /\ t \notin G.muxers
      BY <2>2, OneKind, GraphFacts
    <3>1. x \in OnlyInputs(G.decoders) \/ x \in G.muxed
      BY <2>1, <2>2, <3>2 DEF Sinks
    <3>3. CASE x \in OnlyInputs(G.decoders)
      <4>1. x[1] \in G.decoders /\ x[1] \notin G.muxers
        BY <1>6, <3>3, OneKind
      <4> QED BY <1>6, <3>2, <3>3, <4>1
    <3>4. CASE x \in G.muxed
      <4>1. x[1] \in G.muxers /\ x[1] \notin G.decoders \cup G.encoders
        BY <1>4, <3>4, OneKind
      <4> QED BY <1>4, <3>2, <3>4, <4>1
    <3> QED BY <3>1, <3>3, <3>4
  <2>3. CASE t \in G.decoders \cup G.graphs
    <3>1. x \in OnlyInputs(G.encoders) \/ x \in FilterInputs(G)
      BY <2>1, <2>3, OneKind, GraphFacts DEF Sinks
    <3>2. t \notin G.demuxers /\ t \notin G.encoders /\ t \notin G.muxers
      BY <2>3, OneKind, GraphFacts
    <3>3. CASE x \in OnlyInputs(G.encoders)
      <4>1. x[1] \in G.encoders /\ x[1] \notin G.muxers
        BY <1>6, <3>3, OneKind
      <4> QED BY <1>6, <3>2, <3>3, <4>1
    <3>4. CASE x \in FilterInputs(G)
      <4>1. x[1] \in G.graphs /\ x[1] \notin G.decoders \cup G.encoders /\ x[1] \notin G.muxers
        BY <1>5, <3>4, OneKind
      <4> QED BY <1>5, <3>2, <3>4, <4>1
    <3> QED BY <3>1, <3>3, <3>4
  <2>4. CASE t \in G.encoders
    <3>1. t \notin G.demuxers /\ t \notin G.decoders \cup G.graphs /\ t \notin G.muxers
      BY <2>4, OneKind, GraphFacts
    <3>2. x \in G.muxed
      BY <2>1, <2>4, <3>1 DEF Sinks
    <3>3. x[1] \in G.muxers /\ x[1] \notin G.decoders \cup G.encoders
      BY <1>4, <3>2, OneKind
    <3> QED BY <1>4, <3>1, <3>2, <3>3
  <2>5. CASE t \notin G.demuxers /\ t \notin G.decoders \cup G.graphs /\ t \notin G.encoders
    BY <2>1, <2>5 DEF Sinks
  <2> QED BY <2>2, <2>3, <2>4, <2>5
<1>11. \A x \in Range(G.dsts[t]) : \A u \in G.tasks : x \in Range(G.dsts[u]) => u = t
  BY <1>1 DEF WellConnected
<1> QED BY <1>9, <1>10, <1>11
-----------------------------------------------------------------------------
(* What tasks send                                                         *)

\* The graph says what may be sent and queued.
LEMMA SameGraph ==
  ASSUME G' = G
  PROVE  /\ \A t : Sends(t)' = Sends(t)
         /\ \A n : Ports(n)' = Ports(n) /\ Items(n)' = Items(n)
BY DEF Sends, Fits, Message, Ports, Items, FgInputs, Synced

\* A sequence is one of whatever its items are in.
LEMMA Narrowed ==
  ASSUME NEW S, NEW s \in Seq(S), NEW T, \A k \in 1 .. Len(s) : s[k] \in T
  PROVE  s \in Seq(T)
<1>1. Len(s) \in Nat /\ s \in [1 .. Len(s) -> S]
  BY LenProperties
<1>2. s \in [1 .. Len(s) -> T]
  BY <1>1
<1> QED BY <1>1, <1>2, IsASeq

\* What a step makes of the sends of a task: the rest, with another in front.
LEMMA Prefixed ==
  ASSUME NEW S, NEW s \in Seq(S), s # <<>>
  PROVE  /\ Head(s) \in S /\ Tail(s) \in Seq(S)
         /\ \A m \in S : <<m>> \o Tail(s) \in Seq(S) /\ <<m>> \in Seq(S)
         /\ <<>> \o Tail(s) = Tail(s)
BY HeadTailProperties, ConcatProperties, EmptySeq

\* Two sequences of one set make one of that set.
LEMMA Concatenated ==
  ASSUME NEW S, NEW s \in Seq(S), NEW r \in Seq(S)
  PROVE  s \o r \in Seq(S)
BY ConcatProperties

\* A send that fits is a message of the task.
LEMMA SendFits ==
  ASSUME NEW t, NEW kind \in Kinds, NEW x \in G.owners \X Nat, NEW n \in Int, Fits(t, kind, x, n)
  PROVE  Send(kind, x, n) \in Sends(t)
<1> DEFINE m == Send(kind, x, n)
<1>1. m \in Message /\ m.kind = kind /\ m.to = x /\ m.n = n
  BY DEF Send, Message
<1> HIDE DEF m
<1>2. Fits(t, m.kind, m.to, m.n)
  BY <1>1
<1>3. m \in Sends(t)
  BY <1>1, <1>2 DEF Sends
<1> QED BY <1>3 DEF m

\* What comes of the message that a task sends.
LEMMA Messages ==
  ASSUME G \in Graphs, NEW t \in G.tasks, NEW s \in Sends(t)
  PROVE  /\ s.kind \in {"data", "eof", "flush", "queue", "syncend", "drain"}
              => Send("eof", s.to, 0) \in Sends(t)
         /\ (s.kind \in {"data", "flush"} /\ s.to[1] \in G.muxers) => Send("dts", s.to, s.n) \in Sends(t)
         /\ (s.kind = "flush" /\ s.to[1] \in G.decoders) => Send("await", s.to, 0) \in Sends(t)
         /\ (s.kind = "eof" /\ s.to[1] \in G.muxers) => Send("end", s.to, 0) \in Sends(t)
         /\ s.kind = "ready" => Send("move", s.to, 0) \in Sends(t)
         /\ (s.kind \in {"data", "eof"} /\ s.to[1] \in G.muxers /\ s.n \in Nat)
              => Send("queue", s.to, s.n) \in Sends(t)
         /\ s.kind = "queue" => /\ Send("dts", s.to, s.n) \in Sends(t)
                                /\ Send("end", s.to, s.n) \in Sends(t)
                                /\ Send("data", s.to, s.n) \in Sends(t)
                                /\ Send("eof", s.to, s.n) \in Sends(t)
         /\ (s.kind = "eof" /\ Synced(s.to)) => Send("syncend", s.to, Special) \in Sends(t)
         /\ (s.kind \in {"syncend", "data"} /\ Synced(s.to)) => Send("drain", s.to, s.n) \in Sends(t)
<1>1. s.kind \in Kinds /\ s.to \in G.owners \X Nat /\ s.n \in Int /\ Fits(t, s.kind, s.to, s.n)
  BY DEF Sends, Message
<1>2. \A kind \in Kinds, n \in Int :
        Fits(t, kind, s.to, n) => Send(kind, s.to, n) \in Sends(t)
  BY <1>1, SendFits
<1>3. s.to \in Range(G.dsts[t]) /\ s.to[1] \in G.muxers => s.to \in G.muxed
  BY SinkFacts
<1>4. s.to[1] \in G.decoders => s.to[1] \notin G.muxers
  BY OneKind
<1>5. Special = 0
  BY DEF Special
<1>6. /\ "data" \in Kinds /\ "eof" \in Kinds /\ "dts" \in Kinds /\ "await" \in Kinds
      /\ "end" \in Kinds /\ "move" \in Kinds /\ "queue" \in Kinds /\ "syncend" \in Kinds
      /\ "drain" \in Kinds
  BY DEF Kinds
<1> DEFINE K == {"data", "eof", "flush", "queue", "syncend", "drain"}
<1>9. s.kind \in K => Fits(t, "eof", s.to, 0)
  BY <1>1 DEF Fits
<1>10. (s.kind \in {"data", "flush"} /\ s.to[1] \in G.muxers) => Fits(t, "dts", s.to, s.n)
  BY <1>1, <1>3, <1>4 DEF Fits
<1>11. (s.kind = "flush" /\ s.to[1] \in G.decoders) => Fits(t, "await", s.to, 0)
  BY <1>1 DEF Fits
<1>12. (s.kind = "eof" /\ s.to[1] \in G.muxers) => Fits(t, "end", s.to, 0)
  BY <1>1, <1>3 DEF Fits
<1>13. s.kind = "ready" => Fits(t, "move", s.to, 0)
  BY <1>1 DEF Fits
<1>14. (s.kind \in {"data", "eof"} /\ s.to[1] \in G.muxers /\ s.n \in Nat) => Fits(t, "queue", s.to, s.n)
  BY <1>1, <1>3 DEF Fits
<1>15. s.kind = "queue" => /\ Fits(t, "dts", s.to, s.n) /\ Fits(t, "end", s.to, s.n)
                           /\ Fits(t, "data", s.to, s.n) /\ Fits(t, "eof", s.to, s.n)
  BY <1>1 DEF Fits
<1>16. (s.kind = "eof" /\ Synced(s.to)) => Fits(t, "syncend", s.to, 0)
  BY <1>1 DEF Fits
<1>17. (s.kind \in {"syncend", "data"} /\ Synced(s.to)) => Fits(t, "drain", s.to, s.n)
  BY <1>1 DEF Fits
<1> HIDE DEF K
<1> QED BY <1>1, <1>2, <1>5, <1>6, <1>9, <1>10, <1>11, <1>12, <1>13, <1>14, <1>15, <1>16, <1>17 DEF K

\* One packet or frame, or the end, to each of some destinations.
LEMMA ToAll ==
  ASSUME G \in Graphs, NEW t \in G.tasks, NEW dsts \in Seq(Range(G.dsts[t]))
  PROVE  /\ \A n \in Nat : SendAll(dsts, n) \in Seq(Sends(t)) /\ Len(SendAll(dsts, n)) = Len(dsts)
         /\ SendEnds(dsts) \in Seq(Sends(t)) /\ Len(SendEnds(dsts)) = Len(dsts)
<1>1. DOMAIN dsts = 1 .. Len(dsts) /\ Len(dsts) \in Nat
  OBVIOUS
<1>2. \A k \in DOMAIN dsts : dsts[k] \in Range(G.dsts[t]) /\ dsts[k] \in G.owners \X Nat
  BY SinkFacts
<1>3. ASSUME NEW n \in Nat, NEW k \in DOMAIN dsts PROVE Send("data", dsts[k], n) \in Sends(t)
  <2>1. "data" \in Kinds /\ n \in Int /\ Fits(t, "data", dsts[k], n)
    BY <1>2 DEF Fits, Kinds
  <2> QED BY <1>2, <2>1, SendFits
<1>4. ASSUME NEW k \in DOMAIN dsts PROVE Send("eof", dsts[k], 0) \in Sends(t)
  <2>1. "eof" \in Kinds /\ 0 \in Int /\ Fits(t, "eof", dsts[k], 0)
    BY <1>2 DEF Fits, Kinds
  <2> QED BY <1>2, <2>1, SendFits
<1> QED BY <1>1, <1>3, <1>4 DEF SendAll, SendEnds

\* Decoders, filtergraphs and encoders send to all of their destinations.
LEMMA Outputs ==
  ASSUME G \in Graphs, NEW t \in G.decoders \cup G.graphs \cup G.encoders
  PROVE  t \in G.tasks /\ G.out[t] = G.dsts[t] /\ G.out[t] \in Seq(Range(G.dsts[t])) /\ IsInjective(G.out[t])
<1>1. t \in G.tasks \ (G.demuxers \cup G.muxers)
  BY GraphFacts, OneKind
<1>2. G.out[t] = G.dsts[t] /\ IsInjective(G.out[t])
  BY <1>1, GraphsAssumption DEF WellConnected
<1>3. G.dsts[t] \in Seq(G.owners \X Nat)
  BY <1>1, SinkFacts
<1>4. \A k \in 1 .. Len(G.dsts[t]) : G.dsts[t][k] \in Range(G.dsts[t])
  BY <1>3 DEF Range
<1>5. G.dsts[t] \in Seq(Range(G.dsts[t]))
  BY <1>3, <1>4, Narrowed
<1> QED BY <1>1, <1>2, <1>5

\* A task that goes on with well-formed sends keeps the types.
LEMMA GoTyped ==
  ASSUME TasksTyped, G' = G, NEW t \in G.tasks, NEW where, NEW sends \in Seq(Sends(t)),
         Go(t, where, sends)
  PROVE  TasksTyped'
<1>1. G' \in Graphs /\ pc' = [u \in G'.tasks |-> pc'[u]]
  BY DEF TasksTyped, Go
<1>2. todo' = [u \in G'.tasks |-> todo'[u]] /\ \A u \in G.tasks : todo'[u] = IF u = t THEN sends ELSE todo[u]
  BY DEF TasksTyped, Go
<1>3. \A u \in G'.tasks : todo'[u] \in Seq(Sends(u)')
  BY <1>2, SameGraph DEF TasksTyped
<1> QED BY <1>1, <1>2, <1>3 DEF TasksTyped

\* So does one that opens an encoder.
LEMMA OpenTyped ==
  ASSUME TasksTyped, StartTyped, G' = G, NEW t \in G.graphs \cup G.encoders, NEW e \in G.encoders,
         NEW sends \in Seq(Sends(t)), OpenEncoder(t, e, sends)
  PROVE  TasksTyped' /\ StartTyped'
<1> DEFINE ms == CHOOSE dst \in Range(G.out[e]) : dst[1] \in G.muxers
<1>1. G \in Graphs /\ t \in G.tasks
  BY GraphFacts DEF TasksTyped
<1>2. e \in G.tasks /\ G.out[e] = G.dsts[e] /\ G.dsts[e] # <<>> /\ G.dsts[e] \in Seq(G.owners \X Nat)
  BY <1>1, Outputs, SinkFacts, GraphsAssumption DEF WellConnected
<1>3. G.dsts[e][1] \in Range(G.dsts[e])
  <2>1. PICK s \in Seq(G.owners \X Nat) : s = G.dsts[e] /\ ~(s = <<>>)
    BY <1>2
  <2>2. 1 \in DOMAIN s
    BY <2>1
  <2> QED BY <2>1, <2>2 DEF Range
<1>4. \A x \in Range(G.dsts[e]) : x \in G.muxed /\ x \in G.owners \X Nat /\ x[1] \in G.muxers
  BY <1>1, <1>2, SinkFacts, GraphFacts
<1>5. ms \in G.muxed /\ ms \in G.owners \X Nat
  BY <1>2, <1>3, <1>4
<1> HIDE DEF ms
<1>6. "ready" \in Kinds /\ 0 \in Int /\ Fits(t, "ready", ms, 0)
  BY <1>5 DEF Fits, Kinds
<1>7. Send("ready", ms, 0) \in Sends(t)
  BY <1>5, <1>6, SendFits
<1>8. <<Send("ready", ms, 0)>> \o sends \in Seq(Sends(t))
  BY <1>7, Concatenated
<1>9. Go(t, pc[t], <<Send("ready", ms, 0)>> \o sends)
  BY DEF OpenEncoder, Stay, ms
<1>10. TasksTyped'
  BY <1>1, <1>8, <1>9, GoTyped
<1>11. start' = [start EXCEPT !.opened = @ \cup {e}]
  BY DEF OpenEncoder
<1>12. StartTyped'
  BY <1>11 DEF StartTyped
<1> QED BY <1>10, <1>12

\* A task that sends goes on with messages that fit.
LEMMA SendTasks ==
  ASSUME Typed, NEW t \in G.tasks, SendStep(t)
  PROVE  TasksTyped'
<1> DEFINE s == Head(todo[t])
           r == Tail(todo[t])
<1>1. TasksTyped /\ StartTyped /\ G \in Graphs /\ G' = G
  BY DEF Typed, TasksTyped, SendStep
<1>2. todo[t] \in Seq(Sends(t)) /\ todo[t] # <<>>
  BY <1>1 DEF TasksTyped, SendStep
<1>3. s \in Sends(t) /\ r \in Seq(Sends(t)) /\ <<>> \o r = r
      /\ \A m \in Sends(t) : <<m>> \o r \in Seq(Sends(t)) /\ <<m>> \in Seq(Sends(t))
  BY <1>2, Prefixed
<1>4. s.kind \in Kinds /\ s.to \in G.owners \X Nat /\ s.n \in Int /\ Fits(t, s.kind, s.to, s.n)
  BY <1>3 DEF Sends, Message
<1>5. \/ Skip(t, s, r) \/ SendRefused(t, s, r) \/ SendItem(t, s, r) \/ SendDts(t, s, r)
      \/ SendEof(t, s, r) \/ SendSourceFinished(t, s, r) \/ SendFilterEof(t, s, r)
      \/ SendAwait(t, s, r) \/ SendFlushFails(t, s) \/ SendOpen(t, s, r) \/ SendReady(t, s, r)
      \/ SendMove(t, s, r) \/ SendEarly(t, s, r) \/ SendQueue(t, s, r) \/ SendLate(t, s, r)
      \/ SyncEnd(t, s, r) \/ SyncSend(t, s, r) \/ SyncDrain(t, s, r) \/ SendBeat(t, s, r)
  BY DEF SendStep
<1> HIDE DEF s, r
<1>6. ASSUME NEW w, NEW sends \in Seq(Sends(t)), Go(t, w, sends) PROVE TasksTyped'
  BY <1>1, <1>6, GoTyped
<1>7. ASSUME NEW sends \in Seq(Sends(t)), Stay(t, sends) PROVE TasksTyped'
  BY <1>6, <1>7 DEF Stay
<1>8. ASSUME UNCHANGED <<pc, todo>> PROVE TasksTyped'
  BY <1>1, <1>8, SameGraph DEF TasksTyped
<1>9. ASSUME Stay(t, r) PROVE TasksTyped'
  BY <1>3, <1>7, <1>9
<1>10. ASSUME NEW m \in Sends(t), Stay(t, <<m>> \o r) PROVE TasksTyped'
  BY <1>3, <1>7, <1>10
<1>11. <<>> \in Seq(Sends(t))
  BY EmptySeq
<1>20. CASE Skip(t, s, r)
  BY <1>9, <1>20 DEF Skip
<1>21. CASE SendRefused(t, s, r)
  BY <1>1, <1>3, <1>10, <1>21, Messages DEF SendRefused
<1>22. CASE SendItem(t, s, r)
  <2>1. s.kind \in {"data", "flush"}
    BY <1>22 DEF SendItem
  <2>2. CASE s.to[1] \in G.muxers
    BY <1>1, <1>3, <1>10, <1>22, <2>1, <2>2, Messages DEF SendItem
  <2>3. CASE s.to[1] \notin G.muxers /\ s.kind = "flush" /\ s.to[1] \in G.endts
    BY <1>1, <1>3, <1>10, <1>22, <2>3, Messages DEF SendItem, Skipped
  <2>4. CASE s.to[1] \notin G.muxers /\ ~(s.kind = "flush" /\ s.to[1] \in G.endts)
    BY <1>3, <1>9, <1>22, <2>4 DEF SendItem
  <2> QED BY <2>2, <2>3, <2>4
<1>23. CASE SendDts(t, s, r)
  BY <1>9, <1>23 DEF SendDts
<1>24. CASE SendEof(t, s, r)
  <2>1. s.kind = "eof"
    BY <1>24 DEF SendEof
  <2>2. CASE s.to[1] \in G.muxers
    BY <1>1, <1>3, <1>10, <1>24, <2>1, <2>2, Messages DEF SendEof
  <2>3. CASE s.to[1] \notin G.muxers
    BY <1>3, <1>9, <1>24, <2>3 DEF SendEof
  <2> QED BY <2>2, <2>3
<1>25. CASE SendSourceFinished(t, s, r)
  BY <1>9, <1>25 DEF SendSourceFinished
<1>26. CASE SendFilterEof(t, s, r)
  BY <1>9, <1>26 DEF SendFilterEof
<1>27. CASE SendAwait(t, s, r)
  BY <1>9, <1>27 DEF SendAwait
<1>28. CASE SendFlushFails(t, s)
  BY <1>6, <1>11, <1>28 DEF SendFlushFails
<1>29. CASE SendOpen(t, s, r)
  <2> DEFINE sends == (IF s.n = Special THEN <<>> ELSE <<s>>) \o r
  <2>1. sends \in Seq(Sends(t))
    BY <1>3
  <2> HIDE DEF sends
  <2>2. s.to[1] \in G.encoders /\ ~Begun(t, s.to) /\ OpenEncoder(t, s.to[1], sends)
    BY <1>29 DEF SendOpen, sends
  <2>3. s.to[1] \notin G.muxers /\ t \in G.graphs
    BY <1>1, <2>2, OneKind DEF Begun
  <2> QED BY <1>1, <2>1, <2>2, <2>3, OpenTyped
<1>30. CASE SendReady(t, s, r)
  <2> DEFINE m == s.to[1]
  <2>1. s.kind = "ready"
    BY <1>30 DEF SendReady
  <2>2. CASE Stay(t, r) \/ Go(t, "fail", <<>>)
    BY <1>6, <1>9, <1>11, <2>2
  <2>3. CASE pc' = [pc EXCEPT ![m] = "run"] /\ todo' = [todo EXCEPT ![t] = <<Send("move", s.to, 0)>> \o r]
    <3> DEFINE sends == <<Send("move", s.to, 0)>> \o r
    <3>1. sends \in Seq(Sends(t))
      BY <1>1, <1>3, <2>1, Messages
    <3> HIDE DEF sends
    <3>2. todo' = [u \in G'.tasks |-> todo'[u]] /\ \A u \in G.tasks : todo'[u] = IF u = t THEN sends ELSE todo[u]
      BY <1>1, <2>3 DEF TasksTyped, sends
    <3>3. \A u \in G'.tasks : todo'[u] \in Seq(Sends(u)')
      BY <1>1, <3>1, <3>2, SameGraph DEF TasksTyped
    <3>4. pc' = [u \in G'.tasks |-> pc'[u]]
      BY <1>1, <2>3 DEF TasksTyped
    <3> QED BY <1>1, <3>2, <3>3, <3>4 DEF TasksTyped
  <2> QED BY <1>30, <2>2, <2>3 DEF SendReady
<1>31. CASE SendMove(t, s, r)
  BY <1>8, <1>9, <1>31 DEF SendMove
<1>32. CASE SendEarly(t, s, r)
  <2>1. s.kind \in {"data", "eof"} /\ s.to[1] \in G.muxers /\ Stay(t, <<Send("queue", s.to, s.n)>> \o r)
    BY <1>32 DEF SendEarly
  <2>2. s.n \in Nat
    BY <1>4, <2>1 DEF Fits
  <2> QED BY <1>1, <1>3, <1>10, <2>1, <2>2, Messages
<1>33. CASE SendQueue(t, s, r)
  <2>1. s.kind = "queue"
    BY <1>33 DEF SendQueue
  <2>2. Send("dts", s.to, s.n) \in Sends(t) /\ Send("end", s.to, s.n) \in Sends(t)
    BY <1>1, <1>3, <2>1, Messages
  <2>3. \/ Stay(t, <<Send("end", s.to, s.n)>> \o r) \/ Stay(t, <<Send("dts", s.to, s.n)>> \o r)
        \/ Stay(t, r) \/ Go(t, "fail", <<>>)
    BY <1>33 DEF SendQueue
  <2> QED BY <1>6, <1>9, <1>10, <1>11, <2>2, <2>3
<1>34. CASE SendLate(t, s, r)
  <2>1. s.kind = "queue"
    BY <1>34 DEF SendLate
  <2>2. Send("data", s.to, s.n) \in Sends(t) /\ Send("eof", s.to, s.n) \in Sends(t)
    BY <1>1, <1>3, <2>1, Messages
  <2>3. \/ Stay(t, <<Send("eof", s.to, s.n)>> \o r) \/ Stay(t, <<Send("data", s.to, s.n)>> \o r)
    BY <1>34 DEF SendLate
  <2> QED BY <1>10, <2>2, <2>3
<1>35. CASE SyncEnd(t, s, r)
  BY <1>1, <1>3, <1>10, <1>35, Messages DEF SyncEnd
<1>36. CASE SyncSend(t, s, r)
  <2>1. s.kind \in {"syncend", "data"} /\ Synced(s.to)
    BY <1>4, <1>36 DEF SyncSend, Fits
  <2>2. Send("drain", s.to, s.n) \in Sends(t) /\ Send("eof", s.to, 0) \in Sends(t)
    BY <1>1, <1>3, <2>1, Messages
  <2>3. \/ Stay(t, <<Send("drain", s.to, s.n)>> \o r) \/ Stay(t, <<Send("eof", s.to, 0)>> \o r)
    BY <1>36 DEF SyncSend
  <2> QED BY <1>10, <2>2, <2>3
<1>37. CASE SyncDrain(t, s, r)
  <2>1. s.kind = "drain"
    BY <1>37 DEF SyncDrain
  <2>2. Send("eof", s.to, 0) \in Sends(t)
    BY <1>1, <1>3, <2>1, Messages
  <2>3. \/ UNCHANGED <<pc, todo>> \/ Stay(t, <<Send("eof", s.to, 0)>> \o r) \/ Stay(t, r)
    BY <1>3, <1>37 DEF SyncDrain, SyncPass
  <2> QED BY <1>8, <1>9, <1>10, <2>2, <2>3
<1>38. CASE SendBeat(t, s, r)
  BY <1>9, <1>38 DEF SendBeat
<1> QED BY <1>5, <1>20, <1>21, <1>22, <1>23, <1>24, <1>25, <1>26, <1>27, <1>28, <1>29, <1>30,
           <1>31, <1>32, <1>33, <1>34, <1>35, <1>36, <1>37, <1>38

\* The inputs of a muxer are the muxed streams.
LEMMA MuxPort ==
  ASSUME G \in Graphs, NEW m \in G.muxers, NEW i \in Ports(m)
  PROVE  <<m, i>> \in G.muxed
<1>1. G.inputs = [n \in G.owners |->
                   IF n \in G.muxers THEN {ms[2] : ms \in {x \in G.muxed : x[1] = n}}
                   ELSE IF n \in G.graphs THEN 0 .. G.nb[n] ELSE {0}]
  BY GraphsAssumption DEF WellConnected
<1>2. m \in G.owners /\ m \notin G.graphs
  BY GraphFacts, OneKind
<1>3. PICK ms \in G.muxed : ms[1] = m /\ ms[2] = i
  BY <1>1, <1>2 DEF Ports
<1>4. ms \in G.muxers \X Nat
  BY GraphFacts
<1> QED BY <1>3, <1>4

\* There is a least number in every set of some.
LEMMA Least ==
  ASSUME NEW N, N \subseteq Nat, ~(N = {})
  PROVE  \E k \in N : \A j \in N : k <= j
<1> DEFINE R == OpToRel(<, Nat)
<1>1. IsWellFoundedOn(R, Nat)
  BY NatLessThanWellFounded, Zenon
<1>2. \A m, k \in Nat : m < k => <<m, k>> \in R
  BY DEF OpToRel
<1> HIDE DEF R
<1>3. PICK k \in N : \A m \in N : ~(<<m, k>> \in R)
  BY <1>1, WFMin, Zenon
<1>4. \A m \in N : ~(m < k)
  BY <1>2, <1>3
<1>5. \A m \in N : k <= m
  BY <1>4
<1> QED BY <1>5

\* Count counts: the recursive function, unrolled once.
LEMMA CountFacts ==
  ASSUME NEW d, NEW i, NEW n \in Nat
  PROVE  /\ Count(d, i, n) \in Nat /\ Count(d, i, 0) = 0
         /\ Count(d, i, n + 1) = Count(d, i, n) + IF G.file[d][n + 1] = i THEN 1 ELSE 0
<1> DEFINE S(u) == {k \in 1 .. u : G.file[d][k] = i}
<1>1. ASSUME NEW u \in Nat PROVE IsFiniteSet(S(u)) /\ Cardinality(S(u)) \in Nat
  <2>1. IsFiniteSet(1 .. u)
    BY FS_Interval
  <2>2. S(u) \subseteq 1 .. u
    OBVIOUS
  <2> HIDE DEF S
  <2>3. IsFiniteSet(S(u))
    BY <2>1, <2>2, FS_Subset
  <2> QED BY <2>3, FS_CardinalityType
<1>2. S(0) = {} /\ 0 \in Nat /\ n + 1 \in Nat
  OBVIOUS
<1>5. \A u : Count(d, i, u) = Cardinality(S(u))
  BY DEF Count
<1>3. CASE G.file[d][n + 1] = i
  <2>1. S(n + 1) = S(n) \cup {n + 1} /\ n + 1 \notin S(n)
    BY <1>3
  <2> HIDE DEF S
  <2>2. Cardinality(S(n + 1)) = Cardinality(S(n)) + 1
    BY <1>1, <2>1, FS_AddElement
  <2> QED BY <1>1, <1>2, <1>3, <1>5, <2>2, FS_EmptySet
<1>4. CASE G.file[d][n + 1] # i
  <2>1. S(n + 1) = S(n)
    BY <1>4
  <2> HIDE DEF S
  <2>2. Cardinality(S(n + 1)) = Cardinality(S(n))
    BY <2>1
  <2> QED BY <1>1, <1>2, <1>4, <1>5, <2>2, FS_EmptySet
<1> QED BY <1>3, <1>4

\* The next packet of a file.
LEMMA PacketFacts ==
  ASSUME TasksTyped, SourcesTyped, NEW d \in G.demuxers, ~AtEnd(d),
         NEW i, i = G.file[d][pos[d].next]
  PROVE  /\ i \in DOMAIN G.streams[d] /\ G.streams[d][i] \in Seq(Range(G.dsts[d]))
         /\ Number(d) = Counted(d, i) + 1 /\ Counted(d, i) \in Nat
         /\ pos[d].next <= Len(G.file[d])
<1>1. G \in Graphs
  BY DEF TasksTyped
<1>2. G.streams[d] \in Seq(Seq(Range(G.dsts[d]))) /\ G.file[d] \in Seq(DOMAIN G.streams[d])
      /\ G.loop[d] \in Nat
  BY <1>1, GraphsAssumption DEF WellConnected, Furnished
<1>3. pos[d].next \in Nat /\ pos[d].next # 0 /\ pos[d].loops \in Nat /\ Len(G.file[d]) \in Nat
  BY <1>2 DEF SourcesTyped
<1>4. pos[d].next \in 1 .. Len(G.file[d])
  BY <1>3 DEF AtEnd
<1>5. i \in DOMAIN G.streams[d]
  <2>1. PICK D : D = DOMAIN G.streams[d]
    OBVIOUS
  <2>2. PICK s \in Seq(D) : s = G.file[d]
    BY <1>2, <2>1
  <2>3. s[pos[d].next] \in D
    BY <1>4, <2>2
  <2> QED BY <2>1, <2>2, <2>3
<1>6. PICK n \in Nat : n = pos[d].next - 1
  BY <1>3
<1>7. pos[d].next = n + 1
  BY <1>3, <1>6
<1>8. G.file[d][n + 1] = i
  BY <1>7
<1>9. Count(d, i, n + 1) = Count(d, i, n) + 1 /\ Count(d, i, n) \in Nat
  BY <1>8, CountFacts
<1>10. Count(d, i, Len(G.file[d])) \in Nat
  BY <1>3, CountFacts
<1>11. PICK c \in Nat : c = Count(d, i, Len(G.file[d]))
  BY <1>10
<1>12. PICK l \in Nat : l = G.loop[d] - pos[d].loops
  BY <1>2, <1>3 DEF SourcesTyped
<1>13. PICK m \in Nat : m = l * c
  OBVIOUS
<1>14. Number(d) = m + Count(d, i, n + 1)
  BY <1>7, <1>11, <1>12, <1>13 DEF Number
<1>15. Counted(d, i) = m + Count(d, i, n)
  BY <1>6, <1>11, <1>12, <1>13 DEF Counted
<1>16. G.streams[d][i] \in Seq(Range(G.dsts[d]))
  <2>1. PICK T : T = Range(G.dsts[d])
    OBVIOUS
  <2>2. PICK s \in Seq(Seq(T)) : s = G.streams[d]
    BY <1>2, <2>1
  <2>3. s[i] \in Seq(T)
    BY <1>5, <2>2
  <2> QED BY <2>1, <2>2, <2>3
<1>17. PICK k \in Nat : k = Count(d, i, n)
  BY <1>9
<1>18. Number(d) = Counted(d, i) + 1 /\ Counted(d, i) \in Nat
  BY <1>9, <1>14, <1>15, <1>17
<1> QED BY <1>4, <1>5, <1>16, <1>18

\* The item that tq_receive() gives is the first one in the queue that is not
\* for an input the receiver has finished with.
LEMMA Takes ==
  ASSUME QueuesTyped, NEW n \in G.owners, HasItem(n)
  PROVE  /\ FirstWanted(n) \in 1 .. Len(q[n])
         /\ q[n][FirstWanted(n)] \in Items(n)
         /\ ~Refused(<<n, q[n][FirstWanted(n)].in>>)
         /\ \A k \in 1 .. FirstWanted(n) - 1 : Refused(<<n, q[n][k].in>>)
<1> DEFINE wanted == {k \in DOMAIN q[n] : ~Refused(<<n, q[n][k].in>>)}
           first == CHOOSE k \in wanted : \A j \in wanted : k <= j
<1>1. q[n] \in Seq(Items(n)) /\ Len(q[n]) \in Nat /\ DOMAIN q[n] = 1 .. Len(q[n])
  BY LenProperties DEF QueuesTyped
<1>2. FirstWanted(n) = IF wanted = {} THEN Len(q[n]) + 1 ELSE first
  BY DEF FirstWanted
<1>3. ~(wanted = {})
  BY <1>1, <1>2 DEF HasItem
<1>4. wanted \subseteq Nat /\ wanted \subseteq 1 .. Len(q[n])
  BY <1>1
<1>5. \A k : k \in 1 .. Len(q[n]) /\ k \notin wanted => Refused(<<n, q[n][k].in>>)
  BY <1>1
<1>6. \A k \in wanted : ~Refused(<<n, q[n][k].in>>)
  OBVIOUS
<1> HIDE DEF wanted
<1>7. \E k \in wanted : \A j \in wanted : k <= j
  BY <1>3, <1>4, Least
<1>8. first \in wanted /\ \A j \in wanted : first <= j
  BY <1>7
<1>9. FirstWanted(n) = first
  BY <1>2, <1>3
<1> HIDE DEF first
<1>10. first \in 1 .. Len(q[n]) /\ first \in Nat
  BY <1>4, <1>8
<1>11. \A k \in 1 .. first - 1 : k \in 1 .. Len(q[n]) /\ k \notin wanted
  <2> TAKE k \in 1 .. first - 1
  <2>1. k \in 1 .. Len(q[n]) /\ k < first
    BY <1>1, <1>10
  <2> QED BY <1>4, <1>8, <1>10, <2>1
<1>12. q[n][first] \in Items(n)
  BY <1>1, <1>10
<1> QED BY <1>5, <1>6, <1>8, <1>9, <1>10, <1>11, <1>12

\* The sends of a demuxer.
LEMMA DemuxTasks ==
  ASSUME Typed, NEW d \in G.demuxers, DemuxStep(d)
  PROVE  TasksTyped'
<1>1. TasksTyped /\ G \in Graphs /\ G' = G /\ d \in G.tasks
  BY GraphFacts DEF Typed, TasksTyped, DemuxStep
<1>2. ASSUME NEW w, NEW sends \in Seq(Sends(d)), Go(d, w, sends) PROVE TasksTyped'
  BY <1>1, <1>2, GoTyped
<1>3. ASSUME UNCHANGED <<pc, todo>> PROVE TasksTyped'
  BY <1>1, <1>3, SameGraph DEF TasksTyped
<1>4. CASE DemuxPacket(d)
  <2> DEFINE i == G.file[d][pos[d].next]
  <2>1. UNCHANGED <<pc, todo>> \/ Stay(d, SendAll(G.streams[d][i], Number(d)))
    BY <1>4 DEF DemuxPacket
  <2>0. ~AtEnd(d) /\ SourcesTyped
    BY <1>4 DEF DemuxPacket, Typed
  <2>2. G.streams[d][i] \in Seq(Range(G.dsts[d])) /\ Number(d) \in Nat
    BY <1>1, <2>0, PacketFacts
  <2>3. SendAll(G.streams[d][i], Number(d)) \in Seq(Sends(d))
    BY <1>1, <2>2, ToAll
  <2> QED BY <1>2, <1>3, <2>1, <2>3 DEF Stay
<1>5. CASE DemuxLoop(d)
  <2> DEFINE dsts == G.dsts[d]
             sends == [k \in DOMAIN dsts |-> Send("flush", dsts[k], Special)]
  <2>1. dsts \in Seq(G.owners \X Nat)
    BY <1>1, SinkFacts
  <2>2. DOMAIN dsts = 1 .. Len(dsts) /\ Len(dsts) \in Nat
    BY <2>1
  <2>3. \A k \in DOMAIN dsts : dsts[k] \in Range(G.dsts[d]) /\ dsts[k] \in G.owners \X Nat
    BY <2>1 DEF Range
  <2>4. ASSUME NEW k \in DOMAIN dsts PROVE Send("flush", dsts[k], Special) \in Sends(d)
    <3>1. "flush" \in Kinds /\ Special \in Int /\ Fits(d, "flush", dsts[k], Special)
      BY <2>3 DEF Fits, Kinds, Special
    <3> QED BY <2>3, <3>1, SendFits
  <2> HIDE DEF dsts
  <2>5. sends \in Seq(Sends(d))
    BY <2>2, <2>4
  <2>6. Stay(d, sends)
    BY <1>5 DEF DemuxLoop, dsts
  <2> QED BY <1>2, <2>5, <2>6 DEF Stay
<1>6. CASE DemuxEnd(d)
  BY <1>2, <1>6, EmptySeq DEF DemuxEnd
<1> QED BY <1>4, <1>5, <1>6 DEF DemuxStep

\* The sends of a decoder.
LEMMA DecTasks ==
  ASSUME Typed, NEW d \in G.decoders, DecStep(d)
  PROVE  TasksTyped'
<1>1. TasksTyped /\ QueuesTyped /\ SourcesTyped /\ G \in Graphs /\ G' = G
  BY DEF Typed, TasksTyped, DecStep
<1>2. d \in G.tasks /\ G.out[d] \in Seq(Range(G.dsts[d])) /\ d \in G.owners
  BY <1>1, Outputs, GraphFacts
<1>3. ASSUME NEW w, NEW sends \in Seq(Sends(d)), Go(d, w, sends) PROVE TasksTyped'
  BY <1>1, <1>2, <1>3, GoTyped
<1>4. ASSUME NEW w, Go(d, w, <<>>) PROVE TasksTyped'
  BY <1>3, <1>4, EmptySeq
<1>5. ASSUME NEW w, NEW n \in Nat, Go(d, w, SendAll(G.out[d], n)) PROVE TasksTyped'
  BY <1>1, <1>2, <1>3, <1>5, ToAll
<1>6. ASSUME NEW n \in Int, Decode(d, n) PROVE TasksTyped'
  <2>1. CASE n <= Special
    BY <1>4, <1>6, <2>1 DEF Decode
  <2>2. CASE ~(n <= Special)
    <3>1. n \in Nat
      BY <2>2 DEF Special
    <3>2. Go(d, "run", SendAll(G.out[d], n))
      BY <1>6, <2>2 DEF Decode
    <3> QED BY <1>5, <3>1, <3>2
  <2> QED BY <2>1, <2>2
<1>7. ASSUME UNCHANGED <<pc, todo>> PROVE TasksTyped'
  BY <1>1, <1>7, SameGraph DEF TasksTyped
<1>8. dec[d].overflow \in Seq(Int)
  BY <1>1 DEF SourcesTyped
<1>9. ASSUME DecFinish(d) PROVE TasksTyped'
  BY <1>5, <1>9 DEF DecFinish, Special
<1>11. CASE DecOverflow(d)
  <2>1. Head(dec[d].overflow) \in Int
    BY <1>8, <1>11 DEF DecOverflow
  <2> QED BY <1>6, <1>11, <2>1 DEF DecOverflow
<1>12. CASE DecAsk(d)
  BY <1>4, <1>12 DEF DecAsk
<1>13. CASE DecReceive(d)
  <2>1. PICK item \in Range(q[d]) : Take(d, item) /\ (Go(d, "run", <<>>) \/ Decode(d, item.n))
    BY <1>13 DEF DecReceive
  <2>2. HasItem(d) /\ item = q[d][FirstWanted(d)]
    BY <2>1 DEF Take
  <2>3. item \in Items(d)
    BY <1>1, <1>2, <2>2, Takes
  <2>4. item.n \in Int
    BY <2>3 DEF Items
  <2> QED BY <1>4, <1>6, <2>1, <2>4
<1>14. CASE DecEof(d)
  BY <1>4, <1>9, <1>14 DEF DecEof
<1>15. CASE DecDrain(d)
  <2>1. CASE DecFinish(d)
    BY <1>9, <2>1
  <2>2. CASE Decode(d, Head(dec[d].overflow)) /\ ~(dec[d].overflow = <<>>)
    <3>1. Head(dec[d].overflow) \in Int
      BY <1>8, <2>2
    <3> QED BY <1>6, <2>2, <3>1
  <2>3. ~(dec[d].overflow = <<>>)
    BY <1>1, <1>15 DEF SourcesTyped, DecDrain, Idle
  <2> QED BY <1>15, <2>1, <2>2, <2>3 DEF DecDrain
<1>16. CASE DecNothing(d)
  BY <1>7, <1>16 DEF DecNothing
<1>17. CASE DecConsumersDone(d)
  BY <1>4, <1>17 DEF DecConsumersDone
<1> QED BY <1>11, <1>12, <1>13, <1>14, <1>15, <1>16, <1>17 DEF DecStep

\* The sends of a filtergraph.
LEMMA FilterTasks ==
  ASSUME Typed, NEW f \in G.graphs, FilterStep(f)
  PROVE  TasksTyped'
<1>1. TasksTyped /\ GraphsTyped /\ G \in Graphs /\ G' = G
  BY DEF Typed, TasksTyped, FilterStep
<1>2. f \in G.tasks /\ G.out[f] \in Seq(Range(G.dsts[f]))
  BY <1>1, Outputs, GraphFacts
<1>3. ASSUME NEW w, NEW sends \in Seq(Sends(f)), Go(f, w, sends) PROVE TasksTyped'
  BY <1>1, <1>2, <1>3, GoTyped
<1>4. ASSUME NEW w, Go(f, w, <<>>) PROVE TasksTyped'
  BY <1>3, <1>4, EmptySeq
<1>5. fg[f].made \in Nat
  BY <1>1 DEF GraphsTyped, FgTyped
<1>11. CASE FilterAsk(f)
  BY <1>4, <1>11 DEF FilterAsk
<1>12. CASE FilterFrame(f)
  BY <1>4, <1>12 DEF FilterFrame
<1>13. CASE FilterConfigure(f)
  BY <1>4, <1>13 DEF FilterConfigure
<1>14. CASE FilterEof(f)
  BY <1>4, <1>14 DEF FilterEof
<1>15. CASE FilterIdle(f)
  BY <1>4, <1>15 DEF FilterIdle
<1>16. CASE FilterWake(f)
  BY <1>4, <1>16 DEF FilterWake
<1>17. CASE FilterRequest(f)
  <2>1. CASE Stay(f, SendAll(G.out[f], fg[f].made + 1))
    <3>1. SendAll(G.out[f], fg[f].made + 1) \in Seq(Sends(f))
      BY <1>1, <1>2, <1>5, ToAll
    <3> QED BY <1>3, <2>1, <3>1 DEF Stay
  <2>2. CASE \E w : Go(f, w, <<>>)
    BY <1>4, <2>2
  <2> QED BY <1>17, <2>1, <2>2 DEF FilterRequest
<1>18. CASE FilterClose(f)
  BY <1>4, <1>18 DEF FilterClose
<1>19. CASE FilterFinish(f)
  <2>1. /\ SendAll(G.out[f], Special) \in Seq(Sends(f)) /\ SendEnds(G.out[f]) \in Seq(Sends(f))
        /\ <<>> \in Seq(Sends(f))
    BY <1>1, <1>2, ToAll, EmptySeq DEF Special
  <2>2. PICK a : a = IF fg[f].made = 0 THEN SendAll(G.out[f], Special) ELSE <<>>
    OBVIOUS
  <2>3. a \in Seq(Sends(f)) /\ a \o SendEnds(G.out[f]) \in Seq(Sends(f))
    BY <2>1, <2>2, Concatenated
  <2>4. Go(f, "finished", <<>>) \/ Go(f, "finished", a \o SendEnds(G.out[f]))
    BY <1>19, <2>2 DEF FilterFinish
  <2> QED BY <1>3, <2>1, <2>3, <2>4
<1> QED BY <1>11, <1>12, <1>13, <1>14, <1>15, <1>16, <1>17, <1>18, <1>19 DEF FilterStep

\* The sends of an encoder.
LEMMA EncTasks ==
  ASSUME Typed, NEW e \in G.encoders, EncStep(e)
  PROVE  TasksTyped'
<1>1. TasksTyped /\ QueuesTyped /\ StartTyped /\ G \in Graphs /\ G' = G
  BY DEF Typed, TasksTyped, EncStep
<1>2. e \in G.tasks /\ G.out[e] \in Seq(Range(G.dsts[e])) /\ e \in G.owners /\ e \notin G.decoders
  BY <1>1, Outputs, GraphFacts, OneKind
<1>3. ASSUME NEW w, NEW sends \in Seq(Sends(e)), Go(e, w, sends) PROVE TasksTyped'
  BY <1>1, <1>2, <1>3, GoTyped
<1>4. <<>> \in Seq(Sends(e))
  BY EmptySeq
<1>11. CASE EncOpen(e)
  BY <1>1, <1>4, <1>11, OpenTyped DEF EncOpen
<1>12. CASE EncReceive(e)
  <2>1. PICK item \in Range(q[e]) :
          Take(e, item) /\ (Stay(e, <<>>) \/ Stay(e, SendAll(G.out[e], item.n)))
    BY <1>12 DEF EncReceive
  <2>2. HasItem(e) /\ item = q[e][FirstWanted(e)]
    BY <2>1 DEF Take
  <2>3. item \in Items(e)
    BY <1>1, <1>2, <2>2, Takes
  <2>4. item.n \in Nat
    BY <1>2, <2>3 DEF Items
  <2>5. SendAll(G.out[e], item.n) \in Seq(Sends(e))
    BY <1>1, <1>2, <2>4, ToAll
  <2> QED BY <1>3, <1>4, <2>1, <2>5 DEF Stay
<1>13. CASE EncEof(e)
  BY <1>3, <1>4, <1>13 DEF EncEof
<1> QED BY <1>11, <1>12, <1>13 DEF EncStep

\* The sends of a muxer, which are about its streams.
LEMMA MuxTasks ==
  ASSUME Typed, NEW m \in G.muxers, MuxStep(m)
  PROVE  TasksTyped'
<1>1. TasksTyped /\ QueuesTyped /\ G \in Graphs /\ G' = G
  BY DEF Typed, TasksTyped, MuxStep
<1>2. m \in G.tasks /\ m \in G.owners /\ m \notin G.decoders
  BY <1>1, GraphFacts, OneKind
<1>3. ASSUME NEW w, NEW sends \in Seq(Sends(m)), Go(m, w, sends) PROVE TasksTyped'
  BY <1>1, <1>2, <1>3, GoTyped
<1>4. <<>> \in Seq(Sends(m))
  BY EmptySeq
<1>5. ASSUME UNCHANGED <<pc, todo>> PROVE TasksTyped'
  BY <1>1, <1>5, SameGraph DEF TasksTyped
<1>6. \A ms \in G.muxed : ms \in G.owners \X Nat
  BY <1>1, GraphFacts
<1>7. ASSUME NEW ms \in G.muxed, NEW n \in Int, Write(m, ms, n) PROVE TasksTyped'
  <2>1. "end" \in Kinds /\ 0 \in Int /\ Fits(m, "end", ms, 0)
    BY <1>7 DEF Fits, Kinds
  <2>2. Send("end", ms, 0) \in Sends(m)
    BY <1>6, <2>1, SendFits
  <2>3. <<Send("end", ms, 0)>> \in Seq(Sends(m))
    BY <2>2
  <2>4. Stay(m, <<>>) \/ Stay(m, <<Send("end", ms, 0)>>)
    BY <1>7 DEF Write
  <2> QED BY <1>3, <1>4, <2>3, <2>4 DEF Stay
<1>11. CASE MuxReceive(m)
  <2>1. PICK item \in Range(q[m]) :
          /\ HasItem(m) /\ item = q[m][FirstWanted(m)]
          /\ \/ Write(m, <<m, item.in>>, item.n)
             \/ LET ms == <<m, item.in>>
                    beats == [k \in DOMAIN G.beat[ms] |-> Send("beat", <<G.beat[ms][k], 0>>, Beat)]
                IN  Stay(m, beats \o <<Send("write", ms, item.n)>>)
    BY <1>11 DEF MuxReceive
  <2> DEFINE ms == <<m, item.in>>
             beats == [k \in DOMAIN G.beat[ms] |-> Send("beat", <<G.beat[ms][k], 0>>, Beat)]
  <2>2. item \in Items(m)
    BY <1>1, <1>2, <2>1, Takes
  <2>3. item.n \in Nat /\ item.in \in Ports(m)
    BY <1>2, <2>2 DEF Items
  <2>4. ms \in G.muxed
    BY <1>1, <2>3, MuxPort
  <2>5. G.beat[ms] \in Seq(G.decoders)
    BY <1>1, <2>4, GraphsAssumption DEF Furnished
  <2>6. PICK s \in Seq(G.decoders) : s = G.beat[ms]
    BY <2>5
  <2>7. ASSUME NEW k \in DOMAIN s PROVE Send("beat", <<s[k], 0>>, Beat) \in Sends(m)
    <3>1. s[k] \in G.decoders /\ <<s[k], 0>> \in OnlyInputs(G.decoders) /\ <<s[k], 0>> \in G.owners \X Nat
      BY <1>1, GraphFacts DEF OnlyInputs
    <3>2. "beat" \in Kinds /\ Beat \in Int /\ Fits(m, "beat", <<s[k], 0>>, Beat)
      BY <3>1 DEF Fits, Kinds, Beat
    <3> QED BY <3>1, <3>2, SendFits
  <2>8. DOMAIN s = 1 .. Len(s) /\ Len(s) \in Nat
    OBVIOUS
  <2>9. [k \in DOMAIN s |-> Send("beat", <<s[k], 0>>, Beat)] \in Seq(Sends(m))
    BY <2>7, <2>8
  <2>10. beats \in Seq(Sends(m))
    BY <2>6, <2>9
  <2>11. "write" \in Kinds /\ item.n \in Int /\ Fits(m, "write", ms, item.n)
    BY <2>3, <2>4 DEF Fits, Kinds
  <2>12. <<Send("write", ms, item.n)>> \in Seq(Sends(m))
    BY <1>6, <2>4, <2>11, SendFits
  <2> HIDE DEF beats
  <2>13. beats \o <<Send("write", ms, item.n)>> \in Seq(Sends(m))
    BY <2>10, <2>12, Concatenated
  <2>14. Write(m, ms, item.n) \/ Stay(m, beats \o <<Send("write", ms, item.n)>>)
    BY <2>1 DEF beats
  <2> HIDE DEF ms
  <2>15. CASE Write(m, ms, item.n)
    BY <1>7, <2>4, <2>11, <2>15
  <2>16. CASE Stay(m, beats \o <<Send("write", ms, item.n)>>)
    BY <1>3, <2>13, <2>16 DEF Stay
  <2> QED BY <2>14, <2>15, <2>16
<1>12. CASE MuxWrite(m)
  <2>1. todo[m] \in Seq(Sends(m)) /\ ~(todo[m] = <<>>)
    BY <1>1, <1>2, <1>12 DEF TasksTyped, MuxWrite
  <2>2. Head(todo[m]) \in Sends(m)
    BY <2>1, Prefixed
  <2>3. Head(todo[m]).to \in G.muxed /\ Head(todo[m]).n \in Int
    BY <1>12, <2>2 DEF MuxWrite, Sends, Message, Fits
  <2> QED BY <1>7, <1>12, <2>3 DEF MuxWrite
<1>13. CASE MuxEof(m)
  BY <1>3, <1>4, <1>5, <1>13 DEF MuxEof
<1> QED BY <1>11, <1>12, <1>13 DEF MuxStep

\* The sends of a task that ends, or fails.
LEMMA EndTasks ==
  ASSUME Typed, NEW t \in G.tasks, Cleanup(t) \/ Exit(t) \/ TaskFails(t)
  PROVE  TasksTyped'
<1>1. TasksTyped /\ G \in Graphs /\ G' = G
  BY DEF Typed, TasksTyped, Cleanup, Exit, TaskFails
<1>2. ASSUME NEW w, NEW sends \in Seq(Sends(t)), Go(t, w, sends) PROVE TasksTyped'
  BY <1>1, <1>2, GoTyped
<1>3. <<>> \in Seq(Sends(t))
  BY EmptySeq
<1>4. CASE Cleanup(t)
  <2>1. G.dsts[t] \in Seq(G.owners \X Nat) /\ \A k \in 1 .. Len(G.dsts[t]) : G.dsts[t][k] \in Range(G.dsts[t])
    BY <1>1, SinkFacts DEF Range
  <2>2. G.dsts[t] \in Seq(Range(G.dsts[t]))
    BY <2>1, Narrowed
  <2>3. SendEnds(G.dsts[t]) \in Seq(Sends(t))
    BY <1>1, <2>2, ToAll
  <2> QED BY <1>2, <1>3, <1>4, <2>3 DEF Cleanup, CleanupTask, CleanupMux
<1>5. CASE Exit(t)
  BY <1>2, <1>3, <1>5 DEF Exit
<1>6. CASE TaskFails(t)
  BY <1>2, <1>3, <1>6 DEF TaskFails
<1> QED BY <1>4, <1>5, <1>6

\* Every task goes on with what it may send.
LEMMA TasksStep ==
  ASSUME Typed, [Next]_vars
  PROVE  TasksTyped'
<1>1. TasksTyped /\ G \in Graphs
  BY DEF Typed, TasksTyped
<1>2. ASSUME UNCHANGED <<G, pc, todo>> PROVE TasksTyped'
  BY <1>1, <1>2, SameGraph DEF TasksTyped
<1>3. ASSUME NEW t \in G.tasks, TaskStep(t) \/ TaskFails(t) PROVE TasksTyped'
  BY <1>3, SendTasks, DemuxTasks, DecTasks, FilterTasks, EncTasks, MuxTasks, EndTasks DEF TaskStep
<1>4. CASE MainStep \/ Quit \/ Stopped \/ UNCHANGED vars
  BY <1>2, <1>4 DEF MainStep, Start, Finish, StopSources, Join, Quit, Stopped, rest, vars
<1> QED BY <1>3, <1>4 DEF Next
-----------------------------------------------------------------------------
(* The queues                                                              *)

\* What a step may do with the items of the queues, and with their flags.
ItemsStep ==
  \/ q' = q
  \/ \E n \in G.owners : q' = [q EXCEPT ![n] = <<>>]
  \/ \E n \in G.owners : HasItem(n) /\ q' = [q EXCEPT ![n] = SubSeq(@, FirstWanted(n) + 1, Len(@))]
  \/ \E n \in G.owners : \E item \in Items(n) :
       Len(q[n]) < QueueSize /\ q' = [q EXCEPT ![n] = Append(@, item)]
FlagsStep ==
  \/ fin' = fin
  \/ \E n \in G.owners : \E I, f : fin' = Mark(n, I, f)
  \/ \E E : fin' = [n \in G.owners |-> IF n \in E THEN [fin[n] EXCEPT ![0] = @ \cup {"SEND"}]
                                       ELSE fin[n]]

\* What a receive leaves in the queue is what was behind the item it gave.
LEMMA FewerItems ==
  ASSUME QueuesTyped, NEW n \in G.owners, HasItem(n)
  PROVE  LET r == SubSeq(q[n], FirstWanted(n) + 1, Len(q[n]))
         IN  /\ r \in Seq(Items(n)) /\ Len(r) = Len(q[n]) - FirstWanted(n)
             /\ \A k \in 1 .. Len(r) : r[k] = q[n][k + FirstWanted(n)]
<1>1. PICK s \in Seq(Items(n)) : s = q[n]
  BY DEF QueuesTyped
<1>2. PICK k \in 1 .. Len(s) : k = FirstWanted(n)
  BY <1>1, Takes
<1>3. Len(s) \in Nat /\ k \in Nat
  BY <1>2
<1>4. /\ SubSeq(s, k + 1, Len(s)) \in Seq(Items(n)) /\ Len(SubSeq(s, k + 1, Len(s))) = Len(s) - k
      /\ \A j \in 1 .. Len(s) - k : SubSeq(s, k + 1, Len(s))[j] = s[j + k]
  BY <1>2, <1>3
<1> QED BY <1>1, <1>2, <1>4

\* Steps of items and flags keep the types of the queues.
LEMMA QueuesStep ==
  ASSUME QueuesTyped, G' = G, ItemsStep, FlagsStep
  PROVE  QueuesTyped'
<1> DEFINE Kept == /\ q' = [m \in G.owners |-> q'[m]]
                   /\ \A m \in G.owners : q'[m] \in Seq(Items(m)) /\ Len(q'[m]) <= QueueSize
<1>1. \A n : Items(n)' = Items(n)
  BY SameGraph
<1>2. ASSUME NEW n \in G.owners, NEW s \in Seq(Items(n)), Len(s) <= QueueSize,
             q' = [q EXCEPT ![n] = s]
      PROVE  Kept
  <2>1. q' = [m \in G.owners |-> IF m = n THEN s ELSE q[m]]
    BY <1>2 DEF QueuesTyped
  <2> QED BY <1>2, <2>1 DEF QueuesTyped
<1>3. Kept
  <2>1. CASE q' = q
    BY <2>1 DEF QueuesTyped
  <2>2. ASSUME NEW n \in G.owners, q' = [q EXCEPT ![n] = <<>>] PROVE Kept
    <3>1. <<>> \in Seq(Items(n)) /\ Len(<<>>) <= QueueSize
      BY PipelineAssumption
    <3> QED BY <1>2, <2>2, <3>1
  <2>3. ASSUME NEW n \in G.owners, HasItem(n), q' = [q EXCEPT ![n] = SubSeq(@, FirstWanted(n) + 1, Len(@))]
        PROVE  Kept
    <3>1. PICK r : r = SubSeq(q[n], FirstWanted(n) + 1, Len(q[n]))
      OBVIOUS
    <3>2. r \in Seq(Items(n)) /\ Len(r) = Len(q[n]) - FirstWanted(n)
      BY <2>3, <3>1, FewerItems
    <3>5. FirstWanted(n) \in 1 .. Len(q[n])
      BY <2>3, Takes
    <3>6. q[n] \in Seq(Items(n)) /\ Len(q[n]) <= QueueSize
      BY DEF QueuesTyped
    <3>7. Len(q[n]) \in Nat
      BY <3>6, LenProperties
    <3>3. FirstWanted(n) \in Nat /\ Len(q[n]) \in Nat /\ Len(q[n]) <= QueueSize /\ FirstWanted(n) <= Len(q[n])
      BY <3>5, <3>6, <3>7
    <3>4. Len(r) <= QueueSize
      BY <3>2, <3>3, PipelineAssumption
    <3> QED BY <1>2, <2>3, <3>1, <3>2, <3>4
  <2>4. ASSUME NEW n \in G.owners, NEW item \in Items(n), Len(q[n]) < QueueSize, q' = [q EXCEPT ![n] = Append(@, item)]
        PROVE  Kept
    <3>1. PICK s \in Seq(Items(n)) : s = q[n]
      BY DEF QueuesTyped
    <3>2. Append(s, item) \in Seq(Items(n)) /\ Len(Append(s, item)) = Len(s) + 1
      OBVIOUS
    <3>3. Len(Append(s, item)) <= QueueSize
      BY <2>4, <3>1, <3>2, PipelineAssumption
    <3> QED BY <1>2, <2>4, <3>1, <3>2, <3>3
  <2> QED BY <2>1, <2>2, <2>3, <2>4 DEF ItemsStep
<1>4. fin' = [n \in G.owners |-> fin'[n]] /\ \A n \in G.owners : fin'[n] = [i \in G.inputs[n] |-> fin'[n][i]]
  <2>1. CASE fin' = fin
    BY <2>1 DEF QueuesTyped
  <2>2. CASE \E n \in G.owners : \E I, f : fin' = Mark(n, I, f)
    <3>0. PICK n \in G.owners : \E I, f : fin' = Mark(n, I, f)
      BY <2>2
    <3>1. PICK I, f : fin' = Mark(n, I, f)
      BY <3>0
    <3>2. fin' = [fin EXCEPT ![n] = [i \in DOMAIN fin[n] |-> IF i \in I THEN fin[n][i] \cup {f} ELSE fin[n][i]]]
      BY <3>1 DEF Mark
    <3>3. DOMAIN fin[n] = G.inputs[n]
      BY DEF QueuesTyped
    <3>4. fin' = [m \in G.owners |-> IF m = n THEN [i \in G.inputs[n] |-> IF i \in I THEN fin[n][i] \cup {f}
                                                                        ELSE fin[n][i]]
                                    ELSE fin[m]]
      BY <3>2, <3>3 DEF QueuesTyped
    <3> QED BY <3>4 DEF QueuesTyped
  <2>3. CASE \E E : fin' = [n \in G.owners |-> IF n \in E THEN [fin[n] EXCEPT ![0] = @ \cup {"SEND"}]
                                                ELSE fin[n]]
    BY <2>3 DEF QueuesTyped
  <2> QED BY <2>1, <2>2, <2>3 DEF FlagsStep
<1> QED BY <1>1, <1>3, <1>4 DEF QueuesTyped

\* Marking inputs as finished is a step of the flags.
LEMMA MarkIsStep ==
  ASSUME NEW n \in G.owners, NEW I, NEW f, fin' = Mark(n, I, f)
  PROVE  FlagsStep
BY DEF FlagsStep
-----------------------------------------------------------------------------
(* The sync queue                                                          *)

\* Induction up to a bound.
LEMMA UpTo ==
  ASSUME NEW L \in Nat, NEW T, T \subseteq 0 .. L, 0 \in T,
         \A k \in 1 .. L : k - 1 \in T => k \in T
  PROVE  T = 0 .. L
<1> DEFINE Rest == {k \in Nat : k <= L /\ k \notin T}
<1>1. ASSUME ~(Rest = {}) PROVE FALSE
  <2>1. Rest \subseteq Nat /\ \A m : m \in Rest <=> m \in Nat /\ m <= L /\ m \notin T
    OBVIOUS
  <2> HIDE DEF Rest
  <2>2. PICK k \in Rest : \A m \in Rest : k <= m
    BY <1>1, <2>1, Least
  <2>3. k \in Nat /\ k <= L /\ k \notin T /\ k # 0
    BY <2>1
  <2>4. k - 1 \in Nat /\ k - 1 <= L /\ k \in 1 .. L /\ ~(k <= k - 1)
    BY <2>3
  <2>5. k - 1 \in T
    BY <2>1, <2>2, <2>4
  <2> QED BY <2>3, <2>4, <2>5
<1>2. \A m \in 0 .. L : m \in T
  <2> TAKE m \in 0 .. L
  <2>1. m \notin Rest
    BY <1>1
  <2> QED BY <2>1
<1> QED BY <1>2

\* A sync queue with one of its streams replaced.
LEMMA StreamReplaced ==
  ASSUME NEW p, SyncQueueTyped(p), NEW i, NEW s, StreamTyped(s), NEW r,
         r = [p EXCEPT !.st = [p.st EXCEPT ![i] = s]]
  PROVE  SyncQueueTyped(r) /\ (i \in SQ!Streams => r.st[i] = s)
<1>1. PICK st : st = [p.st EXCEPT ![i] = s]
  OBVIOUS
<1>2. StreamsTyped(st) /\ (i \in SQ!Streams => st[i] = s)
  BY <1>1 DEF SyncQueueTyped, StreamsTyped
<1>3. r = [p EXCEPT !.st = st]
  BY <1>1
<1>4. r = [y \in QueueFields |-> r[y]] /\ r.st = st
  BY <1>3 DEF SyncQueueTyped, QueueFields
<1> QED BY <1>2, <1>4 DEF SyncQueueTyped

\* finish_stream() keeps the types of the sync queue;
LEMMA SyncFinished ==
  ASSUME NEW p, SyncQueueTyped(p), NEW i
  PROVE  SyncQueueTyped(SQ!FinishStream(p, i))
<1>1. PICK r : r = SQ!FinishStream(p, i)
  OBVIOUS
<1> DEFINE ends == G.sync.limiting[i] /\ SQ!Timed(p, i)
           head == IF ends /\ (\/ p.head_finished_stream = SQ!None
                               \/ SQ!HeadTime(p, i) < SQ!HeadTime(p, p.head_finished_stream))
                   THEN i ELSE p.head_finished_stream
           far == IF ends THEN {j \in DOMAIN p.st \ {head} :
                                  SQ!Timed(p, j) /\ SQ!HeadTime(p, head) <= SQ!HeadTime(p, j)}
                  ELSE {}
           st == [j \in DOMAIN p.st |-> [p.st[j] EXCEPT !.finished = @ \/ j = i \/ j \in far]]
           all == p.finished \/ \A j \in DOMAIN st : st[j].finished
<1>2. r = [p EXCEPT !.st = st, !.head_finished_stream = head, !.finished = all]
  BY <1>1 DEF SQ!FinishStream, SQ!Limiting
<1> HIDE DEF head, far, all
<1>3. \A j \in SQ!Streams : StreamTyped(st[j])
  <2> TAKE j \in SQ!Streams
  <2>1. st[j] = [p.st[j] EXCEPT !.finished = @ \/ j = i \/ j \in far]
    BY DEF SyncQueueTyped, StreamsTyped
  <2>2. StreamTyped(p.st[j])
    BY DEF SyncQueueTyped, StreamsTyped
  <2> QED BY <2>1, <2>2 DEF StreamTyped, StreamFields
<1>4. StreamsTyped(st)
  BY <1>3 DEF SyncQueueTyped, StreamsTyped
<1> HIDE DEF st
<1>5. r = [y \in QueueFields |-> r[y]] /\ r.st = st
  BY <1>2 DEF SyncQueueTyped, QueueFields
<1> QED BY <1>1, <1>4, <1>5 DEF SyncQueueTyped

\* so does queue_head_update(),
LEMMA SyncHead ==
  ASSUME NEW p, SyncQueueTyped(p)
  PROVE  SyncQueueTyped(SQ!QueueHeadUpdate(p))
<1>1. PICK r : r = SQ!QueueHeadUpdate(p)
  OBVIOUS
<1>2. r = p \/ \E h : r = [p EXCEPT !.head_stream = h]
  BY <1>1 DEF SQ!QueueHeadUpdate
<1> QED BY <1>1, <1>2 DEF SyncQueueTyped, QueueFields

\* stream_update_ts(),
LEMMA SyncUpdated ==
  ASSUME NEW p, SyncQueueTyped(p), NEW i, NEW ts
  PROVE  SyncQueueTyped(SQ!StreamUpdateTs(p, i, ts))
<1>1. PICK p1 : p1 = [p EXCEPT !.st[i].head_ts = ts]
  OBVIOUS
<1>2. SyncQueueTyped(p1)
  <2>1. PICK s : s = [p.st[i] EXCEPT !.head_ts = ts]
    OBVIOUS
  <2>2. p1 = [p EXCEPT !.st = [p.st EXCEPT ![i] = s]]
    BY <1>1, <2>1
  <2>3. CASE i \in SQ!Streams
    <3>1. StreamTyped(p.st[i])
      BY <2>3 DEF SyncQueueTyped, StreamsTyped
    <3>2. StreamTyped(s)
      BY <2>1, <3>1 DEF StreamTyped, StreamFields
    <3> QED BY <2>2, <3>2, StreamReplaced
  <2>4. CASE i \notin SQ!Streams
    <3>1. [p.st EXCEPT ![i] = s] = p.st
      BY <2>4 DEF SyncQueueTyped, StreamsTyped
    <3>2. p1 = p
      BY <2>2, <3>1 DEF SyncQueueTyped, QueueFields
    <3> QED BY <3>2
  <2> QED BY <2>3, <2>4
<1>3. PICK p2 : /\ p2 = p1 \/ p2 = SQ!FinishStream(p1, i)
                /\ SQ!StreamUpdateTs(p, i, ts) \in {p, p2, SQ!QueueHeadUpdate(p2)}
  BY <1>1 DEF SQ!StreamUpdateTs
<1>4. SyncQueueTyped(p2)
  BY <1>2, <1>3, SyncFinished
<1> QED BY <1>3, <1>4, SyncHead

\* one heartbeat,
LEMMA SyncBeaten ==
  ASSUME NEW p, SyncQueueTyped(p), NEW i, NEW ts, NEW j
  PROVE  SyncQueueTyped(SQ!Beat(p, i, ts, j))
<1>1. SQ!Beat(p, i, ts, j) = p \/ \E n : SQ!Beat(p, i, ts, j) = SQ!StreamUpdateTs(p, j, n)
  BY DEF SQ!Beat
<1> QED BY <1>1, SyncUpdated

\* The recursion over all streams.
LEMMA SyncAllBeaten ==
  ASSUME NEW p, SyncQueueTyped(p), NEW i, NEW ts, G.sync.nb_streams \in Nat
  PROVE  SyncQueueTyped(SQ!Beats(p, i, ts)[G.sync.nb_streams])
<1>1. PICK L \in Nat : L = G.sync.nb_streams
  OBVIOUS
<1> DEFINE Is(b, m) == b = [n \in 0 .. m |-> IF n = 0 THEN p ELSE SQ!Beat(b[n - 1], i, ts, n - 1)]
           Typd(b, m) == \A n \in 0 .. m : SyncQueueTyped(b[n])
           T == {m \in 0 .. L : \E b : Is(b, m)}
<1>2. 0 \in T
  <2>1. PICK b : b = [n \in 0 .. 0 |-> p]
    OBVIOUS
  <2>2. Is(b, 0)
    BY <2>1
  <2> QED BY <1>1, <2>2
<1>3. ASSUME NEW k \in 1 .. L, k - 1 \in T PROVE k \in T
  <2>1. PICK b : Is(b, k - 1)
    BY <1>3
  <2>2. PICK c : c = [n \in 0 .. k |-> IF n = k THEN SQ!Beat(b[k - 1], i, ts, k - 1) ELSE b[n]]
    OBVIOUS
  <2>3. k \in Nat /\ k # 0 /\ k \in 0 .. L /\ k - 1 \in 0 .. k - 1
    OBVIOUS
  <2>4. \A n \in 0 .. k : n # k => n \in 0 .. k - 1
    BY <2>3
  <2>5. \A n \in 0 .. k - 1 : n # k /\ n \in 0 .. k /\ c[n] = b[n]
    BY <2>2, <2>3
  <2>6. \A n \in 0 .. k - 1 : b[n] = IF n = 0 THEN p ELSE SQ!Beat(b[n - 1], i, ts, n - 1)
    BY <2>1
  <2>7. \A n \in 0 .. k - 1 : n # 0 => n - 1 \in 0 .. k - 1
    BY <2>3
  <2>8. ASSUME NEW n \in 0 .. k
        PROVE  c[n] = IF n = 0 THEN p ELSE SQ!Beat(c[n - 1], i, ts, n - 1)
    <3>1. CASE n = k
      <4>1. c[k] = SQ!Beat(b[k - 1], i, ts, k - 1) /\ c[k - 1] = b[k - 1]
        BY <2>2, <2>3, <2>5
      <4> QED BY <2>3, <3>1, <4>1
    <3>2. CASE n # k
      <4>1. n \in 0 .. k - 1 /\ (n # 0 => n - 1 \in 0 .. k - 1)
        BY <2>4, <2>7, <3>2
      <4>2. n # 0 => c[n - 1] = b[n - 1]
        BY <2>5, <4>1
      <4> QED BY <2>5, <2>6, <4>1, <4>2
    <3> QED BY <3>1, <3>2
  <2>9. c = [n \in 0 .. k |-> c[n]]
    BY <2>2
  <2>10. Is(c, k)
    BY <2>8, <2>9
  <2> QED BY <2>3, <2>10
<1>4. \E b : Is(b, L)
  <2>1. T \subseteq 0 .. L
    OBVIOUS
  <2>2. L \in 0 .. L
    BY <1>1
  <2>3. \A k \in 1 .. L : k - 1 \in T => k \in T
    BY <1>3
  <2> HIDE DEF T
  <2>4. T = 0 .. L
    BY <1>1, <1>2, <2>1, <2>3, UpTo
  <2>5. L \in T
    BY <2>2, <2>4
  <2> QED BY <2>5 DEF T
<1>5. SQ!Beats(p, i, ts) = CHOOSE b : Is(b, L)
  BY <1>1 DEF SQ!Beats
<1>6. PICK b : b = SQ!Beats(p, i, ts) /\ Is(b, L)
  BY <1>4, <1>5
<1> DEFINE U == {n \in 0 .. L : SyncQueueTyped(b[n])}
<1>7. \A n \in 0 .. L : b[n] = IF n = 0 THEN p ELSE SQ!Beat(b[n - 1], i, ts, n - 1)
  BY <1>6
<1>8. 0 \in U
  <2>1. 0 \in 0 .. L
    BY <1>1
  <2> QED BY <1>7, <2>1
<1>9. ASSUME NEW k \in 1 .. L, k - 1 \in U PROVE k \in U
  <2>1. k \in 0 .. L /\ k # 0 /\ SyncQueueTyped(b[k - 1])
    BY <1>9
  <2>2. b[k] = SQ!Beat(b[k - 1], i, ts, k - 1)
    BY <1>7, <2>1
  <2> QED BY <2>1, <2>2, SyncBeaten
<1>10. U \subseteq 0 .. L /\ L \in 0 .. L /\ \A k \in 1 .. L : k - 1 \in U => k \in U
  BY <1>1, <1>9
<1>11. SyncQueueTyped(b[L])
  <2> HIDE DEF U
  <2>1. U = 0 .. L
    BY <1>1, <1>8, <1>10, UpTo
  <2>2. L \in U
    BY <1>10, <2>1
  <2> QED BY <2>2 DEF U
<1> QED BY <1>1, <1>6, <1>11

\* what sq_receive() does first,
LEMMA SyncBefore ==
  ASSUME NEW p, SyncQueueTyped(p), G.sync.nb_streams \in Nat
  PROVE  SyncQueueTyped(SQ!BeforeReceive(p))
<1>1. \/ SQ!BeforeReceive(p) = p
      \/ \E i, ts : SQ!BeforeReceive(p) = SQ!Beats(p, i, ts)[G.sync.nb_streams]
  BY DEF SQ!BeforeReceive, SQ!OverflowHeartbeat
<1> QED BY <1>1, SyncAllBeaten

\* and sq_send().
LEMMA SyncSent ==
  ASSUME NEW p, SyncQueueTyped(p), NEW i \in SQ!Streams, NEW f \in SyncFrames
  PROVE  SyncQueueTyped(SQ!SendFrame(p, i, f))
<1> DEFINE p1 == SQ!TbUpdate(p, i)
           p2 == [p1 EXCEPT !.st[i].fifo = Append(@, f)]
           p3 == SQ!StreamUpdateTs(p2, i, SQ!FrameEnd(f, 0))
           p4 == [p3 EXCEPT !.st[i].samples_queued = @ + f.nb_samples,
                            !.st[i].samples_sent = @ + f.nb_samples, !.st[i].frames_sent = @ + 1]
<1>9. SQ!SendFrame(p, i, f) = IF SQ!LimitReached(p4.st[i]) THEN SQ!FinishStream(p4, i) ELSE p4
  BY DEF SQ!SendFrame
<1>1. p1 = SQ!TbUpdate(p, i)
  OBVIOUS
<1>3. p2 = [p1 EXCEPT !.st[i].fifo = Append(@, f)]
  OBVIOUS
<1>5. p3 = SQ!StreamUpdateTs(p2, i, SQ!FrameEnd(f, 0))
  OBVIOUS
<1>7. p4 = [p3 EXCEPT !.st[i].samples_queued = @ + f.nb_samples,
                      !.st[i].samples_sent = @ + f.nb_samples, !.st[i].frames_sent = @ + 1]
  OBVIOUS
<1> HIDE DEF p1, p2, p3, p4
<1>2. SyncQueueTyped(p1)
  <2>1. CASE p1 = p
    BY <2>1
  <2>2. CASE p1 # p
    <3>1. PICK a, b : a = SQ!Tick[i] /\ b = IF p.st[i].head_ts = SQ!NOPTS THEN p.st[i].head_ts
                                          ELSE SQ!Rescale(p.st[i].head_ts, p.st[i].tick, SQ!Tick[i])
      OBVIOUS
    <3>6. i \in DOMAIN p.st /\ "st" \in DOMAIN p
      BY DEF SyncQueueTyped, StreamsTyped, QueueFields
    <3>7. p1 = [p EXCEPT !.st[i].tick = a, !.st[i].head_ts = b]
      BY <1>1, <2>2, <3>1, <3>6 DEF SQ!TbUpdate
    <3>2. PICK s : s = [p.st[i] EXCEPT !.tick = a, !.head_ts = b]
      OBVIOUS
    <3>3. p1 = [p EXCEPT !.st = [p.st EXCEPT ![i] = s]]
      BY <3>2, <3>7 DEF SyncQueueTyped, StreamsTyped, QueueFields
    <3>4. StreamTyped(p.st[i])
      BY DEF SyncQueueTyped, StreamsTyped
    <3>5. StreamTyped(s)
      BY <3>2, <3>4 DEF StreamTyped, StreamFields
    <3> QED BY <3>3, <3>5, StreamReplaced
  <2> QED BY <2>1, <2>2
<1>4. SyncQueueTyped(p2)
  <2>1. PICK s : s = [p1.st[i] EXCEPT !.fifo = Append(p1.st[i].fifo, f)]
    OBVIOUS
  <2>2. p2 = [p1 EXCEPT !.st = [p1.st EXCEPT ![i] = s]]
    BY <1>2, <1>3, <2>1
  <2>3. StreamTyped(p1.st[i])
    BY <1>2 DEF SyncQueueTyped, StreamsTyped
  <2>4. Append(p1.st[i].fifo, f) \in Seq(SyncFrames)
    BY <2>3 DEF StreamTyped
  <2>5. StreamTyped(s)
    BY <2>1, <2>3, <2>4 DEF StreamTyped, StreamFields
  <2> QED BY <1>2, <2>2, <2>5, StreamReplaced
<1>6. SyncQueueTyped(p3)
  BY <1>4, <1>5, SyncUpdated
<1>8. SyncQueueTyped(p4)
  <2>1. StreamTyped(p3.st[i])
    BY <1>6 DEF SyncQueueTyped, StreamsTyped
  <2>2. p3.st[i].samples_queued + f.nb_samples = 0
    BY <2>1 DEF StreamTyped, SyncFrames
  <2>3. PICK a, b : a = p3.st[i].samples_sent + f.nb_samples /\ b = p3.st[i].frames_sent + 1
    OBVIOUS
  <2>4. i \in DOMAIN p3.st /\ "st" \in DOMAIN p3 /\ p3.st[i] = [y \in StreamFields |-> p3.st[i][y]]
    BY <1>6, <2>1 DEF SyncQueueTyped, StreamsTyped, QueueFields, StreamTyped
  <2>5. PICK s : s = [p3.st[i] EXCEPT !.samples_queued = 0, !.samples_sent = a, !.frames_sent = b]
    OBVIOUS
  <2>6. p4 = [p3 EXCEPT !.st = [p3.st EXCEPT ![i] = s]]
    BY <1>7, <2>2, <2>3, <2>4, <2>5 DEF StreamFields
  <2>7. StreamTyped(s)
    BY <2>1, <2>5 DEF StreamTyped, StreamFields
  <2> QED BY <1>6, <2>6, <2>7, StreamReplaced
<1> QED BY <1>8, <1>9, SyncFinished

\* What the queue hands out: a frame that may come from nowhere, but not from before.
LEMMA SyncHandsOut ==
  ASSUME NEW p, SyncQueueTyped(p), NEW i \in SQ!Streams, SQ!Releasable(p, i)
  PROVE  /\ SyncQueueTyped(SQ!Without(p, i))
         /\ SQ!Frame(p, i).pts + 1 \in Nat
<1>1. PICK s : s = p.st[i] /\ StreamTyped(s)
  BY DEF SyncQueueTyped, StreamsTyped
<1>2. SQ!NbSamples(s) = 0
  <2>1. s.samples_queued = 0 /\ s.frame_samples = 0
    BY <1>1 DEF StreamTyped
  <2>2. SQ!Min({0, 0}) = 0
    BY DEF SQ!Min
  <2> QED BY <2>1, <2>2 DEF SQ!NbSamples
<1>3. s.fifo \in Seq(SyncFrames) /\ ~(s.fifo = <<>>)
  BY <1>1 DEF SQ!Releasable, StreamTyped
<1>4. s.fifo[1] \in SyncFrames /\ Tail(s.fifo) \in Seq(SyncFrames)
  BY <1>3
<1>5. SQ!Frame(p, i) = s.fifo[1]
  BY <1>1, <1>2 DEF SQ!Frame
<1>6. SQ!Frame(p, i).pts + 1 \in Nat
  BY <1>4, <1>5 DEF SyncFrames
<1>7. PICK r : r = SQ!Without(p, i)
  OBVIOUS
<1>8. r = [p EXCEPT !.st[i].fifo = Tail(@), !.st[i].samples_queued = @ - p.st[i].fifo[1].nb_samples]
  BY <1>1, <1>2, <1>7 DEF SQ!Without
<1>9. s.samples_queued - p.st[i].fifo[1].nb_samples = 0
  BY <1>1, <1>4 DEF StreamTyped, SyncFrames
<1>10. i \in DOMAIN p.st /\ "st" \in DOMAIN p /\ s = [y \in StreamFields |-> s[y]]
  BY <1>1 DEF SyncQueueTyped, StreamsTyped, QueueFields, StreamTyped
<1>11. PICK s2 : s2 = [s EXCEPT !.fifo = Tail(s.fifo), !.samples_queued = 0]
  OBVIOUS
<1>12. r = [p EXCEPT !.st = [p.st EXCEPT ![i] = s2]]
  BY <1>1, <1>8, <1>9, <1>10, <1>11 DEF StreamFields
<1>13. StreamTyped(s2)
  BY <1>1, <1>4, <1>11 DEF StreamTyped, StreamFields
<1> QED BY <1>6, <1>7, <1>12, <1>13, StreamReplaced

\* The encoders of a sync queue are its streams.
LEMMA SyncFacts ==
  ASSUME G \in Graphs
  PROVE  /\ G.sync.nb_streams \in Nat
         /\ \A i \in SQ!Streams : i \in Nat /\ G.sync.enc[i + 1] \in G.encoders
         /\ \A x : Synced(x) => SyncStream(x) \in SQ!Streams
<1>1. G.sync.enc \in Seq(G.encoders) /\ G.sync.nb_streams = Len(G.sync.enc)
  BY GraphsAssumption DEF Furnished
<1>9. PICK E : E = G.encoders
  OBVIOUS
<1>2. PICK s \in Seq(E) : s = G.sync.enc
  BY <1>1, <1>9
<1>3. PICK n \in Nat : n = Len(s) /\ n = G.sync.nb_streams
  BY <1>1, <1>2
<1>4. SQ!Streams = 0 .. n - 1
  BY <1>3 DEF SQ!Streams
<1>10. DOMAIN s = 1 .. Len(s) /\ \A k \in 1 .. Len(s) : s[k] \in E
  OBVIOUS
<1>7. DOMAIN s = 1 .. n /\ \A k \in 1 .. n : s[k] \in G.encoders
  BY <1>3, <1>9, <1>10
<1>8. \A i \in 0 .. n - 1 : i \in Nat /\ i + 1 \in 1 .. n
  BY <1>3
<1>5. \A i \in 0 .. n - 1 : i \in Nat /\ i + 1 \in 1 .. n /\ s[i + 1] \in G.encoders
  BY <1>7, <1>8
<1>6. ASSUME NEW x, Synced(x) PROVE SyncStream(x) \in SQ!Streams
  <2>1. PICK k \in 1 .. n : s[k] = x[1]
    BY <1>2, <1>6, <1>7 DEF Synced, Range
  <2>2. k - 1 \in 0 .. n - 1 /\ (k - 1) + 1 = k
    BY <1>3
  <2>3. \E i \in SQ!Streams : G.sync.enc[i + 1] = x[1]
    BY <1>2, <1>4, <2>1, <2>2
  <2> QED BY <2>3 DEF SyncStream
<1> QED BY <1>2, <1>3, <1>4, <1>5, <1>6

\* Who does not touch the sync queue keeps its types.
LEMMA SameSync ==
  ASSUME SyncTyped, G' = G, sq' = sq
  PROVE  SyncTyped'
BY DEF SyncTyped, SyncQueueTyped, StreamsTyped, SQ!Streams

\* Who sets it to a well-formed one does too.
LEMMA SyncSet ==
  ASSUME NEW p, SyncQueueTyped(p), G' = G, NEW l, SetSync(p, l)
  PROVE  SyncTyped'
<1>1. sq' = [queue |-> p, locked |-> l]
  BY DEF SetSync
<1>2. sq' = [locked |-> sq'.locked, queue |-> sq'.queue] /\ sq'.queue = p
  BY <1>1
<1>3. SQ!Streams' = SQ!Streams
  BY DEF SQ!Streams
<1> QED BY <1>2, <1>3 DEF SyncTyped, SyncQueueTyped, StreamsTyped

\* A frame that the sync queue passes on.
LEMMA Passes ==
  ASSUME G \in Graphs, NEW p, SyncQueueTyped(p), ~(SQ!ReleasableStreams(p) = {}),
         NEW i, i = Minimum(SQ!ReleasableStreams(p))
  PROVE  /\ i \in SQ!Streams /\ SQ!Releasable(p, i) /\ G.sync.enc[i + 1] \in G.encoders
         /\ SyncQueueTyped(SQ!Without(p, i)) /\ SQ!Frame(p, i).pts + 1 \in Nat
<1>1. PICK S : S = SQ!ReleasableStreams(p)
  OBVIOUS
<1>2. S \subseteq SQ!Streams /\ \A j \in S : SQ!Releasable(p, j)
  BY <1>1 DEF SQ!ReleasableStreams
<1>3. S \subseteq Nat /\ ~(S = {})
  BY <1>1, <1>2, SyncFacts
<1>4. \E k \in S : \A j \in S : k <= j
  BY <1>3, Least
<1>5. i = CHOOSE k \in S : \A j \in S : k <= j
  BY <1>1 DEF Minimum
<1>6. i \in S
  BY <1>4, <1>5
<1>7. i \in SQ!Streams /\ SQ!Releasable(p, i)
  BY <1>2, <1>6
<1> QED BY <1>7, SyncFacts, SyncHandsOut

\* No step harms the sync queue.
LEMMA SyncStep ==
  ASSUME Typed, [Next]_vars
  PROVE  SyncTyped'
<1>1. SyncTyped /\ TasksTyped /\ G \in Graphs /\ SyncQueueTyped(sq.queue)
  BY DEF Typed, TasksTyped, SyncTyped
<1>2. ASSUME G' = G, sq' = sq PROVE SyncTyped'
  BY <1>1, <1>2, SameSync
<1>3. ASSUME NEW t \in G.tasks, SendStep(t) PROVE SyncTyped'
  <2> DEFINE s == Head(todo[t])
             r == Tail(todo[t])
  <2>1. G' = G
    BY <1>3 DEF SendStep
  <2>6. todo[t] \in Seq(Sends(t)) /\ ~(todo[t] = <<>>)
    BY <1>1, <1>3 DEF TasksTyped, SendStep
  <2>2. s \in Sends(t)
    BY <2>6, Prefixed
  <2>7. \/ Skip(t, s, r) \/ SendRefused(t, s, r) \/ SendItem(t, s, r) \/ SendDts(t, s, r)
        \/ SendEof(t, s, r) \/ SendSourceFinished(t, s, r) \/ SendFilterEof(t, s, r)
        \/ SendAwait(t, s, r) \/ SendFlushFails(t, s) \/ SendOpen(t, s, r) \/ SendReady(t, s, r)
        \/ SendMove(t, s, r) \/ SendEarly(t, s, r) \/ SendQueue(t, s, r) \/ SendLate(t, s, r)
        \/ SyncEnd(t, s, r) \/ SyncSend(t, s, r) \/ SyncDrain(t, s, r) \/ SendBeat(t, s, r)
    BY <1>3 DEF SendStep
  <2> HIDE DEF s, r
  <2>3. \/ sq' = sq \/ SyncSend(t, s, r) \/ SyncDrain(t, s, r)
    <3>1. (Skip(t, s, r) \/ SendRefused(t, s, r) \/ SendItem(t, s, r) \/ SendDts(t, s, r)) => sq' = sq
      BY DEF Skip, SendRefused, SendItem, SendDts
    <3>2. (SendEof(t, s, r) \/ SendSourceFinished(t, s, r) \/ SendFilterEof(t, s, r)) => sq' = sq
      BY DEF SendEof, SendSourceFinished, SendFilterEof
    <3>3. (SendAwait(t, s, r) \/ SendFlushFails(t, s) \/ SendOpen(t, s, r) \/ SendReady(t, s, r)) => sq' = sq
      BY DEF SendAwait, SendFlushFails, SendOpen, SendReady
    <3>4. (SendMove(t, s, r) \/ SendEarly(t, s, r) \/ SendQueue(t, s, r)) => sq' = sq
      BY DEF SendMove, SendEarly, SendQueue
    <3>5. (SendLate(t, s, r) \/ SyncEnd(t, s, r) \/ SendBeat(t, s, r)) => sq' = sq
      BY DEF SendLate, SyncEnd, SendBeat
    <3> QED BY <2>7, <3>1, <3>2, <3>3, <3>4, <3>5
  <2>4. CASE SyncSend(t, s, r)
    <3>1. PICK i : i = SyncStream(s.to)
      OBVIOUS
    <3>2. PICK f : f = [pts |-> s.n - 1, dur |-> 1, nb_samples |-> 0]
      OBVIOUS
    <3>3. \/ sq' = sq \/ SetSync(SQ!FinishStream(sq.queue, i), TRUE)
          \/ s.kind = "data" /\ Synced(s.to) /\ SetSync(SQ!SendFrame(sq.queue, i, f), TRUE)
      BY <2>4, <3>1, <3>2 DEF SyncSend
    <3>4. CASE s.kind = "data" /\ Synced(s.to) /\ SetSync(SQ!SendFrame(sq.queue, i, f), TRUE)
      <4>1. s.n \in Nat
        BY <2>2, <3>4 DEF Sends, Fits
      <4>2. f \in SyncFrames
        BY <3>2, <4>1 DEF SyncFrames
      <4>3. i \in SQ!Streams
        BY <1>1, <3>1, <3>4, SyncFacts
      <4>4. SyncQueueTyped(SQ!SendFrame(sq.queue, i, f))
        BY <1>1, <4>2, <4>3, SyncSent
      <4> QED BY <2>1, <3>4, <4>4, SyncSet
    <3>5. CASE SetSync(SQ!FinishStream(sq.queue, i), TRUE)
      BY <1>1, <2>1, <3>5, SyncFinished, SyncSet
    <3> QED BY <1>2, <2>1, <3>3, <3>4, <3>5
  <2>5. CASE SyncDrain(t, s, r)
    <3>1. PICK p : p = SQ!BeforeReceive(sq.queue)
      OBVIOUS
    <3>2. SyncQueueTyped(p)
      BY <1>1, <3>1, SyncBefore, SyncFacts
    <3>3. SyncPass(p) \/ SetSync(p, FALSE)
      BY <2>5, <3>1 DEF SyncDrain
    <3>4. CASE SyncPass(p)
      <4>1. PICK i : i = Minimum(SQ!ReleasableStreams(p))
        OBVIOUS
      <4>2. ~(SQ!ReleasableStreams(p) = {})
        BY <3>4 DEF SyncPass
      <4>3. SyncQueueTyped(SQ!Without(p, i))
        BY <1>1, <3>2, <4>1, <4>2, Passes
      <4>4. SetSync(SQ!FinishStream(SQ!Without(p, i), i), TRUE) \/ SetSync(SQ!Without(p, i), TRUE)
        BY <3>4, <4>1 DEF SyncPass
      <4> QED BY <2>1, <4>3, <4>4, SyncFinished, SyncSet
    <3> QED BY <2>1, <3>2, <3>3, <3>4, SyncSet
  <2> QED BY <1>2, <2>1, <2>3, <2>4, <2>5
<1>4. ASSUME NEW t \in G.tasks, TaskStep(t) \/ TaskFails(t), ~SendStep(t) PROVE SyncTyped'
  BY <1>2, <1>4 DEF TaskStep, TaskFails, DemuxStep, DecStep, FilterStep, EncStep, MuxStep, Cleanup, Exit
<1>5. CASE MainStep \/ Quit \/ Stopped \/ UNCHANGED vars
  BY <1>2, <1>5 DEF MainStep, Start, Finish, StopSources, Join, Quit, Stopped, rest, vars
<1> QED BY <1>3, <1>4, <1>5 DEF Next
-----------------------------------------------------------------------------
(* Steps of the queues                                                     *)

SendCase(t, s, r) ==
  \/ Skip(t, s, r) \/ SendRefused(t, s, r) \/ SendItem(t, s, r) \/ SendDts(t, s, r)
  \/ SendEof(t, s, r) \/ SendSourceFinished(t, s, r) \/ SendFilterEof(t, s, r)
  \/ SendAwait(t, s, r) \/ SendFlushFails(t, s) \/ SendOpen(t, s, r) \/ SendReady(t, s, r)
  \/ SendMove(t, s, r) \/ SendEarly(t, s, r) \/ SendQueue(t, s, r) \/ SendLate(t, s, r)
  \/ SyncEnd(t, s, r) \/ SyncSend(t, s, r) \/ SyncDrain(t, s, r) \/ SendBeat(t, s, r)

\* The message that a task sends, and what becomes of it.
LEMMA SendIs ==
  ASSUME TasksTyped, NEW t \in G.tasks, SendStep(t)
  PROVE  \E s \in Sends(t), r \in Seq(Sends(t)) :
           /\ s = Head(todo[t]) /\ r = Tail(todo[t]) /\ SendCase(t, s, r)
           /\ s.to \in G.owners \X Nat /\ s.n \in Int
<1>1. todo[t] \in Seq(Sends(t)) /\ ~(todo[t] = <<>>)
  BY DEF TasksTyped, SendStep
<1>2. Head(todo[t]) \in Sends(t) /\ Tail(todo[t]) \in Seq(Sends(t))
  BY <1>1, Prefixed
<1>3. SendCase(t, Head(todo[t]), Tail(todo[t]))
  BY DEF SendStep, SendCase
<1>4. \A s \in Sends(t) : s.to \in G.owners \X Nat /\ s.n \in Int
  BY DEF Sends, Message
<1> QED BY <1>2, <1>3, <1>4

\* The pre-muxing queue that mux_task_start() looks at next is one of the muxer's
\* and has something in it.
LEMMA NextIs ==
  ASSUME StartTyped, G \in Graphs, NEW m \in G.muxers, ~(PreMuxed(m) = {})
  PROVE  /\ NextPreMuxed(m) \in G.muxed /\ NextPreMuxed(m)[1] = m
         /\ start.pre[NextPreMuxed(m)] \in Seq(Nat) /\ ~(start.pre[NextPreMuxed(m)] = <<>>)
<1>1. \A ms \in PreMuxed(m) : /\ ms \in G.muxed /\ ms[1] = m /\ ms[2] \in Nat
                              /\ start.pre[ms] \in Seq(Nat) /\ ~(start.pre[ms] = <<>>)
  BY GraphFacts DEF PreMuxed, StreamsOf, StartTyped
<1> DEFINE N == {Head(start.pre[ms]) : ms \in PreMuxed(m)}
           e == Minimum(N)
           of == {ms \in PreMuxed(m) : Head(start.pre[ms]) = e}
           I == {ms[2] : ms \in of}
<1>10. \A p \in Seq(Nat) : ~(p = <<>>) => Head(p) \in Nat
  OBVIOUS
<1>2. N \subseteq Nat /\ ~(N = {})
  BY <1>1, <1>10
<1>3. e \in N
  <2> HIDE DEF N
  <2>1. \E k \in N : \A j \in N : k <= j
    BY <1>2, Least
  <2> QED BY <2>1 DEF Minimum
<1>4. ~(of = {})
  BY <1>3
<1>5. NextPreMuxed(m) = CHOOSE ms \in of : \A other \in of : ms[2] <= other[2]
  BY DEF NextPreMuxed
<1> HIDE DEF e
<1>6. I \subseteq Nat /\ ~(I = {})
  BY <1>1, <1>4
<1>7. \E k \in I : \A j \in I : k <= j
  <2> HIDE DEF I
  <2> QED BY <1>6, Least
<1>8. \E ms \in of : \A other \in of : ms[2] <= other[2]
  BY <1>7
<1>9. NextPreMuxed(m) \in of
  BY <1>5, <1>8
<1> QED BY <1>1, <1>9

\* A receive changes items and flags, and chokes nothing.
LEMMA TakeSteps ==
  ASSUME NEW n \in G.owners,
         \/ \E item : Take(n, item)
         \/ \E i : TakeEof(n, i)
         \/ TakeEnd(n) \/ TakeNothing(n)
  PROVE  ItemsStep /\ FlagsStep /\ qchoked' = qchoked
<1>1. ASSUME NEW item, Take(n, item) PROVE ItemsStep /\ FlagsStep /\ qchoked' = qchoked
  BY <1>1 DEF Take, ItemsStep, FlagsStep
<1>2. ASSUME NEW i, TakeEof(n, i) PROVE ItemsStep /\ FlagsStep /\ qchoked' = qchoked
  BY <1>2 DEF TakeEof, ItemsStep, FlagsStep
<1>3. CASE TakeEnd(n) \/ TakeNothing(n)
  BY <1>3 DEF TakeEnd, TakeNothing, ItemsStep, FlagsStep
<1> QED BY <1>1, <1>2, <1>3

\* What may be queued.
LEMMA ItemIs ==
  ASSUME NEW n, NEW i \in Ports(n), NEW v \in Int, n \in G.decoders \/ v \in Nat
  PROVE  Item(i, v) \in Items(n)
BY DEF Item, Items

\* An item that is sent is appended where there is room.
LEMMA AppendStep ==
  ASSUME NEW n \in G.owners, NEW item \in Items(n),
         Len(q[n]) < QueueSize, q' = [q EXCEPT ![n] = Append(@, item)]
  PROVE  ItemsStep
BY DEF ItemsStep

\* A send changes queues in these ways only.
LEMMA SendQueues ==
  ASSUME Typed, NEW t \in G.tasks, SendStep(t)
  PROVE  ItemsStep /\ FlagsStep
<1>1. TasksTyped /\ QueuesTyped /\ StartTyped /\ SyncQueueTyped(sq.queue) /\ G \in Graphs
  BY DEF Typed, TasksTyped, SyncTyped
<1>2. PICK s \in Sends(t), r \in Seq(Sends(t)) :
        SendCase(t, s, r) /\ s.to \in G.owners \X Nat /\ s.n \in Int
  BY <1>1, SendIs
<1>3. s.to[1] \in G.owners /\ Fits(t, s.kind, s.to, s.n)
  BY <1>2 DEF Sends
<1>4. ASSUME q' = q, fin' = fin PROVE ItemsStep /\ FlagsStep
  BY <1>4 DEF ItemsStep, FlagsStep
<1>5. ASSUME q' = q, NEW n \in G.owners, NEW I, NEW f, fin' = Mark(n, I, f) PROVE ItemsStep /\ FlagsStep
  BY <1>5 DEF ItemsStep, FlagsStep
<1>6. ASSUME ItemsStep, fin' = fin PROVE ItemsStep /\ FlagsStep
  BY <1>6 DEF FlagsStep
<1>11. CASE Skip(t, s, r) \/ SendDts(t, s, r) \/ SendSourceFinished(t, s, r) \/ SendAwait(t, s, r)
            \/ SendOpen(t, s, r) \/ SendReady(t, s, r)
  BY <1>4, <1>11 DEF Skip, SendDts, SendSourceFinished, SendAwait, SendOpen, SendReady, queues
<1>12. CASE SendEarly(t, s, r) \/ SendQueue(t, s, r) \/ SendLate(t, s, r) \/ SyncEnd(t, s, r) \/ SyncSend(t, s, r)
  BY <1>4, <1>12 DEF SendEarly, SendQueue, SendLate, SyncEnd, SyncSend, queues
<1>13. CASE SendRefused(t, s, r) \/ SendEof(t, s, r) \/ SendFilterEof(t, s, r) \/ SendFlushFails(t, s)
  BY <1>3, <1>4, <1>5, <1>13 DEF SendRefused, SendEof, SendFilterEof, SendFlushFails
<1>14. CASE SendItem(t, s, r)
  <2>1. s.kind \in {"data", "flush"} /\ HasRoom(s.to) /\ fin' = fin
        /\ q' = [q EXCEPT ![s.to[1]] = Append(@, Item(s.to[2], s.n))]
    BY <1>14 DEF SendItem
  <2>2. s.to[2] \in Ports(s.to[1]) /\ s.n \in Nat
    BY <1>1, <1>3, <2>1, SinkFacts DEF Fits
  <2>3. Len(q[s.to[1]]) < QueueSize
    BY <2>1 DEF HasRoom
  <2>5. PICK item \in Items(s.to[1]) : item = Item(s.to[2], s.n)
    BY <2>2, ItemIs
  <2>4. ItemsStep
    BY <1>3, <2>1, <2>3, <2>5, AppendStep
  <2> QED BY <1>6, <2>1, <2>4
<1>15. CASE SendMove(t, s, r)
  <2>1. PICK m, ms, n : m = s.to[1] /\ ms = NextPreMuxed(m) /\ n = Head(start.pre[ms])
    OBVIOUS
  <2>2. \/ UNCHANGED queues
        \/ /\ ~(PreMuxed(m) = {})
           /\ \/ q' = q /\ fin' = Mark(m, {ms[2]}, "SEND")
              \/ /\ HasRoom(ms) /\ q' = [q EXCEPT ![m] = Append(@, Item(ms[2], n))]
                 /\ fin' = fin
    BY <1>15, <2>1 DEF SendMove
  <2>3. m \in G.muxers /\ m \in G.owners
    BY <1>1, <1>3, <1>15, <2>1, GraphFacts DEF SendMove, Fits
  <2>4. CASE ~(PreMuxed(m) = {}) /\ HasRoom(ms) /\ q' = [q EXCEPT ![m] = Append(@, Item(ms[2], n))] /\ fin' = fin
    <3>1. ms \in G.muxed /\ ms[1] = m /\ start.pre[ms] \in Seq(Nat) /\ ~(start.pre[ms] = <<>>)
      BY <1>1, <2>1, <2>3, <2>4, NextIs
    <3>2. n \in Nat
      BY <2>1, <3>1
    <3>3. ms[2] \in Ports(m)
      <4>1. G.inputs = [o \in G.owners |->
                   IF o \in G.muxers THEN {x[2] : x \in {y \in G.muxed : y[1] = o}}
                   ELSE IF o \in G.graphs THEN 0 .. G.nb[o] ELSE {0}]
        BY <1>1, GraphsAssumption DEF WellConnected
      <4>2. ms[2] \in G.inputs[m] /\ m \notin G.graphs
        BY <1>1, <2>3, <3>1, <4>1, OneKind
      <4> QED BY <4>2 DEF Ports
    <3>4. Len(q[m]) < QueueSize
      BY <2>4, <3>1 DEF HasRoom
    <3>6. PICK item \in Items(m) : item = Item(ms[2], n)
      BY <3>2, <3>3, ItemIs
    <3>5. ItemsStep
      BY <2>3, <2>4, <3>4, <3>6, AppendStep
    <3> QED BY <1>6, <2>4, <3>5
  <2> QED BY <1>4, <1>5, <2>2, <2>3, <2>4 DEF queues
<1>16. CASE SyncDrain(t, s, r)
  <2>1. PICK p : p = SQ!BeforeReceive(sq.queue)
    OBVIOUS
  <2>2. SyncQueueTyped(p)
    BY <1>1, <2>1, SyncBefore, SyncFacts
  <2>3. \/ SyncPass(p) \/ UNCHANGED queues
        \/ q' = q /\ \E E : fin' = [n \in G.owners |-> IF n \in E THEN [fin[n] EXCEPT ![0] = @ \cup {"SEND"}]
                                         ELSE fin[n]]
    BY <1>16, <2>1 DEF SyncDrain
  <2>4. CASE SyncPass(p)
    <3>1. PICK i, dst, n : /\ i = Minimum(SQ!ReleasableStreams(p)) /\ dst = <<G.sync.enc[i + 1], 0>>
                           /\ n = SQ!Frame(p, i).pts + 1
      OBVIOUS
    <3>2. /\ ~(SQ!ReleasableStreams(p) = {})
          /\ \/ q' = q /\ fin' = Mark(dst[1], {0}, "SEND")
             \/ HasRoom(dst) /\ q' = [q EXCEPT ![dst[1]] = Append(@, Item(0, n))] /\ fin' = fin
      BY <2>4, <3>1 DEF SyncPass
    <3>3. dst[1] \in G.encoders /\ n \in Nat
      BY <1>1, <2>2, <3>1, <3>2, Passes
    <3>4. dst[1] \in G.owners /\ 0 \in Ports(dst[1])
      <4>1. G.inputs = [o \in G.owners |->
                   IF o \in G.muxers THEN {x[2] : x \in {y \in G.muxed : y[1] = o}}
                   ELSE IF o \in G.graphs THEN 0 .. G.nb[o] ELSE {0}]
        BY <1>1, GraphsAssumption DEF WellConnected
      <4> QED BY <1>1, <3>3, <4>1, OneKind, GraphFacts DEF Ports
    <3>5. CASE HasRoom(dst) /\ q' = [q EXCEPT ![dst[1]] = Append(@, Item(0, n))] /\ fin' = fin
      <4>1. Len(q[dst[1]]) < QueueSize
        BY <3>5 DEF HasRoom
      <4>3. PICK item \in Items(dst[1]) : item = Item(0, n)
        BY <3>3, <3>4, ItemIs
      <4>2. ItemsStep
        BY <3>4, <3>5, <4>1, <4>3, AppendStep
      <4> QED BY <1>6, <3>5, <4>2
    <3> QED BY <1>5, <3>2, <3>4, <3>5
  <2> QED BY <1>4, <2>3, <2>4 DEF ItemsStep, FlagsStep, queues
<1>17. CASE SendBeat(t, s, r)
  <2>1. PICK d : d = s.to[1]
    OBVIOUS
  <2>2. \/ UNCHANGED queues
        \/ q' = q /\ fin' = Mark(d, {0}, "SEND")
        \/ HasRoom(s.to) /\ q' = [q EXCEPT ![d] = Append(@, Item(0, Beat))] /\ fin' = fin
    BY <1>17, <2>1 DEF SendBeat
  <2>3. s.to \in OnlyInputs(G.decoders)
    BY <1>3, <1>17 DEF SendBeat, Fits
  <2>4. d \in G.decoders /\ d \in G.owners
    BY <1>1, <2>1, <2>3, GraphFacts DEF OnlyInputs
  <2>5. 0 \in Ports(d)
    <3>1. G.inputs = [o \in G.owners |->
                 IF o \in G.muxers THEN {x[2] : x \in {y \in G.muxed : y[1] = o}}
                 ELSE IF o \in G.graphs THEN 0 .. G.nb[o] ELSE {0}]
      BY <1>1, GraphsAssumption DEF WellConnected
    <3> QED BY <1>1, <2>4, <3>1, OneKind DEF Ports
  <2>6. CASE HasRoom(s.to) /\ q' = [q EXCEPT ![d] = Append(@, Item(0, Beat))] /\ fin' = fin
    <3>1. Len(q[d]) < QueueSize /\ Beat \in Int
      BY <2>1, <2>6 DEF HasRoom, Beat
    <3>3. PICK item \in Items(d) : item = Item(0, Beat)
      BY <2>4, <2>5, <3>1, ItemIs
    <3>2. ItemsStep
      BY <2>4, <2>6, <3>1, <3>3, AppendStep
    <3> QED BY <1>6, <2>6, <3>2
  <2> QED BY <1>4, <1>5, <2>2, <2>4, <2>6 DEF queues
<1> QED BY <1>2, <1>11, <1>12, <1>13, <1>14, <1>15, <1>16, <1>17 DEF SendCase

\* So does whatever else a task does.
LEMMA OtherQueues ==
  ASSUME Typed, NEW t \in G.tasks, TaskStep(t) \/ TaskFails(t), ~SendStep(t)
  PROVE  ItemsStep /\ FlagsStep
<1>1. TasksTyped /\ G \in Graphs
  BY DEF Typed, TasksTyped
<1>2. ASSUME UNCHANGED queues PROVE ItemsStep /\ FlagsStep
  BY <1>2 DEF queues, ItemsStep, FlagsStep
<1>3. ASSUME NEW n \in G.owners, \E item : Take(n, item) PROVE ItemsStep /\ FlagsStep
  BY <1>3, TakeSteps
<1>4. ASSUME NEW n \in G.owners, \E i : TakeEof(n, i) PROVE ItemsStep /\ FlagsStep
  BY <1>4, TakeSteps
<1>5. ASSUME NEW n \in G.owners, TakeEnd(n) \/ TakeNothing(n) PROVE ItemsStep /\ FlagsStep
  BY <1>5, TakeSteps
<1>6. ASSUME q' = q, NEW n \in G.owners, NEW I, NEW f, fin' = Mark(n, I, f) PROVE ItemsStep /\ FlagsStep
  BY <1>6 DEF ItemsStep, FlagsStep
<1>7. G.decoders \subseteq G.owners /\ G.graphs \subseteq G.owners /\ G.encoders \subseteq G.owners
      /\ G.muxers \subseteq G.owners
  BY <1>1, GraphFacts
<1>11. CASE t \in G.demuxers /\ DemuxStep(t)
  BY <1>2, <1>11 DEF DemuxStep
<1>12. CASE t \in G.decoders /\ DecStep(t)
  <2>1. UNCHANGED queues \/ (\E item : Take(t, item)) \/ (\E i : TakeEof(t, i)) \/ TakeEnd(t) \/ TakeNothing(t)
    BY <1>12 DEF DecStep, DecOverflow, DecAsk, DecReceive, DecEof, DecDrain, DecNothing, DecConsumersDone
  <2> QED BY <1>2, <1>3, <1>4, <1>5, <1>7, <1>12, <2>1
<1>13. CASE t \in G.graphs /\ FilterStep(t)
  <2>1. CASE FilterClose(t)
    <3>1. q' = q /\ \E I : fin' = Mark(t, I, "RECV")
      BY <2>1 DEF FilterClose
    <3> QED BY <1>6, <1>7, <1>13, <3>1
  <2>2. CASE ~FilterClose(t)
    <3>1. UNCHANGED queues \/ (\E item : Take(t, item)) \/ (\E i : TakeEof(t, i)) \/ TakeEnd(t)
          \/ TakeNothing(t) \/ (q' = q /\ fin' = fin)
      BY <1>13, <2>2 DEF FilterStep, FilterAsk, FilterFrame, FilterConfigure, FilterEof, FilterIdle,
         FilterWake, FilterRequest, FilterFinish
    <3>2. CASE q' = q /\ fin' = fin
      BY <3>2 DEF ItemsStep, FlagsStep
    <3> QED BY <1>2, <1>3, <1>4, <1>5, <1>7, <1>13, <3>1, <3>2
  <2> QED BY <2>1, <2>2
<1>14. CASE t \in G.encoders /\ EncStep(t)
  <2>1. UNCHANGED queues \/ (\E item : Take(t, item)) \/ (\E i : TakeEof(t, i)) \/ TakeEnd(t)
    BY <1>14 DEF EncStep, EncOpen, EncReceive, EncEof
  <2> QED BY <1>2, <1>3, <1>4, <1>5, <1>7, <1>14, <2>1
<1>15. CASE t \in G.muxers /\ MuxStep(t)
  <2>1. CASE MuxReceive(t)
    <3>1. HasItem(t) /\ q' = [q EXCEPT ![t] = SubSeq(@, FirstWanted(t) + 1, Len(@))]
          /\ (fin' = fin \/ \E I : fin' = Mark(t, I, "RECV"))
      BY <2>1 DEF MuxReceive, Write
    <3> QED BY <1>7, <1>15, <3>1 DEF ItemsStep, FlagsStep
  <2>2. CASE MuxWrite(t)
    <3>1. q' = q /\ (fin' = fin \/ \E I : fin' = Mark(t, I, "RECV"))
      BY <2>2 DEF MuxWrite, Write
    <3> QED BY <1>7, <1>15, <3>1 DEF ItemsStep, FlagsStep
  <2>3. CASE MuxEof(t)
    <3>1. (\E i : TakeEof(t, i)) \/ TakeEnd(t) \/ TakeNothing(t)
      BY <2>3 DEF MuxEof
    <3> QED BY <1>4, <1>5, <1>7, <1>15, <3>1
  <2> QED BY <1>15, <2>1, <2>2, <2>3 DEF MuxStep
<1>16. CASE Cleanup(t)
  <2>1. q' = q /\ (fin' = fin \/ fin' = Mark(t, G.inputs[t], "RECV"))
    BY <1>16 DEF Cleanup, CleanupTask, CleanupMux
  <2>2. t \in G.owners \/ fin' = fin
    BY <1>1, <1>7, <1>16, GraphFacts DEF Cleanup, CleanupTask, CleanupMux
  <2> QED BY <2>1, <2>2 DEF ItemsStep, FlagsStep
<1>17. CASE Exit(t) \/ TaskFails(t)
  BY <1>17 DEF Exit, TaskFails, ItemsStep, FlagsStep, queues
<1> QED BY <1>11, <1>12, <1>13, <1>14, <1>15, <1>16, <1>17 DEF TaskStep

\* Nothing changes the graph.
LEMMA GraphStays ==
  ASSUME [Next]_vars
  PROVE  G' = G
BY DEF Next, TaskStep, SendStep, DemuxStep, DecStep, FilterStep, EncStep, MuxStep, Cleanup, Exit,
   TaskFails, MainStep, Start, Finish, StopSources, Join, Quit, Stopped, rest, vars

\* No step harms the queues, and none gets longer than it may.
LEMMA QueuesNext ==
  ASSUME Typed, [Next]_vars
  PROVE  QueuesTyped'
<1>1. QueuesTyped
  BY DEF Typed
<1>2. ASSUME NEW t \in G.tasks, TaskStep(t) \/ TaskFails(t) PROVE ItemsStep /\ FlagsStep
  BY <1>2, SendQueues, OtherQueues
<1>3. ASSUME MainStep \/ Quit \/ Stopped \/ UNCHANGED vars PROVE ItemsStep /\ FlagsStep
  <2>1. q' = q /\ fin' = fin
    BY <1>3 DEF MainStep, Start, Finish, StopSources, Join, Quit, Stopped, rest, vars, queues
  <2> QED BY <2>1 DEF ItemsStep, FlagsStep
<1>4. G' = G
  BY GraphStays
<1> QED BY <1>1, <1>2, <1>3, <1>4, QueuesStep DEF Next
-----------------------------------------------------------------------------
(* The waiters                                                             *)

\* What a step may do with the record of the scheduler and with the waiters.
WaitersStep ==
  \/ sched' = sched /\ choked' \in [G.waiters -> BOOLEAN] /\ qchoked' \in [G.owners -> BOOLEAN]
  \/ \E s, qc : SchedTyped(s) /\ qc \in [G.owners -> BOOLEAN] /\ Update(s, qc)

\* A step of the waiters keeps their types.
LEMMA WaitersKept ==
  ASSUME WaitersTyped, G' = G, WaitersStep
  PROVE  WaitersTyped'
<1>1. \A s : SchedTyped(s)' <=> SchedTyped(s')
  BY DEF SchedTyped
<1>2. ASSUME NEW s, NEW qc, SchedTyped(s), qc \in [G.owners -> BOOLEAN], Update(s, qc)
      PROVE  WaitersTyped'
  <2>1. PICK next : /\ next = IF terminate THEN choked ELSE [w \in G.waiters |-> w \notin Unchoked(G, s)]
                    /\ sched' = s /\ choked' = next /\ qchoked' = ChokeQueues(choked, next, qc)
    BY <1>2 DEF Update
  <2>2. next \in [G.waiters -> BOOLEAN]
    BY <2>1 DEF WaitersTyped
  <2>4. ChokeQueues(choked, next, qc) \in [G.owners -> BOOLEAN]
    <3>1. \A n \in G.owners : ChokeQueues(choked, next, qc)[n] \in BOOLEAN
      BY <1>2 DEF ChokeQueues
    <3> QED BY <3>1 DEF ChokeQueues
  <2> QED BY <1>2, <2>1, <2>2, <2>4 DEF WaitersTyped, SchedTyped
<1>3. CASE sched' = sched /\ choked' \in [G.waiters -> BOOLEAN] /\ qchoked' \in [G.owners -> BOOLEAN]
  BY <1>3 DEF WaitersTyped, SchedTyped
<1> QED BY <1>2, <1>3 DEF WaitersStep

\* Leaving them alone, or unchoking a queue, is such a step;
LEMMA WaitersSame ==
  ASSUME WaitersTyped, sched' = sched, choked' = choked,
         qchoked' = qchoked \/ \E n : qchoked' = [qchoked EXCEPT ![n] = FALSE]
  PROVE  WaitersStep
BY DEF WaitersStep, WaitersTyped

\* so is schedule_update_locked(), whatever it decides.
LEMMA WaitersUpdated ==
  ASSUME WaitersTyped, NEW s, SchedTyped(s),
         Update(s, qchoked) \/ \E n : Update(s, [qchoked EXCEPT ![n] = FALSE])
  PROVE  WaitersStep
<1>1. CASE Update(s, qchoked)
  BY <1>1 DEF WaitersStep, WaitersTyped
<1>2. ASSUME NEW n, Update(s, [qchoked EXCEPT ![n] = FALSE]) PROVE WaitersStep
  <2>1. [qchoked EXCEPT ![n] = FALSE] \in [G.owners -> BOOLEAN]
    BY DEF WaitersTyped
  <2> QED BY <1>2, <2>1 DEF WaitersStep
<1> QED BY <1>1, <1>2

\* What is recorded for the scheduler.
LEMMA Recorded ==
  ASSUME WaitersTyped
  PROVE  /\ \A ms \in G.muxed, n \in Nat : SchedTyped([sched EXCEPT !.last[ms] = n])
         /\ \A S \in SUBSET G.muxed : SchedTyped([sched EXCEPT !.done = @ \cup S])
         /\ \A f \in G.graphs : \A n \in 0 .. G.nb[f] : SchedTyped([sched EXCEPT !.best[f] = n])
         /\ \A x : SchedTyped([sched EXCEPT !.rfin = @ \cup {x}])
         /\ \A x : SchedTyped([sched EXCEPT !.sfin = @ \cup {x}])
         /\ \A x : SchedTyped([sched EXCEPT !.exited = @ \cup {x}])
         /\ SchedTyped(sched)
<1>1. SchedTyped(sched)
  BY DEF WaitersTyped
<1>2. ASSUME NEW f \in G.graphs, NEW n \in 0 .. G.nb[f] PROVE SchedTyped([sched EXCEPT !.best[f] = n])
  BY <1>1 DEF SchedTyped, SchedFields
<1>3. \A ms \in G.muxed, n \in Nat : SchedTyped([sched EXCEPT !.last[ms] = n])
  BY <1>1 DEF SchedTyped, SchedFields
<1>4. \A S \in SUBSET G.muxed : SchedTyped([sched EXCEPT !.done = @ \cup S])
  BY <1>1 DEF SchedTyped, SchedFields
<1>5. \A x : SchedTyped([sched EXCEPT !.rfin = @ \cup {x}])
  BY <1>1 DEF SchedTyped, SchedFields
<1>6. \A x : SchedTyped([sched EXCEPT !.sfin = @ \cup {x}])
  BY <1>1 DEF SchedTyped, SchedFields
<1>7. \A x : SchedTyped([sched EXCEPT !.exited = @ \cup {x}])
  BY <1>1 DEF SchedTyped, SchedFields
<1> QED BY <1>1, <1>2, <1>3, <1>4, <1>5, <1>6, <1>7

\* A send changes waiters and the schedule in these ways only.
LEMMA SendWaiters ==
  ASSUME Typed, NEW t \in G.tasks, SendStep(t)
  PROVE  WaitersStep
<1>1. TasksTyped /\ WaitersTyped /\ G \in Graphs
  BY DEF Typed, TasksTyped
<1>2. PICK s \in Sends(t), r \in Seq(Sends(t)) :
        SendCase(t, s, r) /\ s.to \in G.owners \X Nat /\ s.n \in Int
  BY <1>1, SendIs
<1>3. Fits(t, s.kind, s.to, s.n)
  BY DEF Sends
<1>4. ASSUME sched' = sched, choked' = choked, qchoked' = qchoked \/ \E n : qchoked' = [qchoked EXCEPT ![n] = FALSE]
      PROVE  WaitersStep
  BY <1>1, <1>4, WaitersSame
<1>5. ASSUME UNCHANGED <<sched, choked, qchoked>> PROVE WaitersStep
  BY <1>4, <1>5
<1>11. CASE Skip(t, s, r) \/ SendItem(t, s, r) \/ SendRefused(t, s, r)
  BY <1>5, <1>11 DEF Skip, SendItem, SendRefused, queues
<1>12. CASE SendAwait(t, s, r) \/ SendOpen(t, s, r) \/ SendReady(t, s, r) \/ SendFlushFails(t, s)
  BY <1>5, <1>12 DEF SendAwait, SendOpen, SendReady, SendFlushFails, queues
<1>13. CASE SendEarly(t, s, r) \/ SendQueue(t, s, r) \/ SendLate(t, s, r) \/ SyncSend(t, s, r)
  BY <1>5, <1>13 DEF SendEarly, SendQueue, SendLate, SyncSend, queues
<1>14. CASE SendMove(t, s, r) \/ SendEof(t, s, r)
  BY <1>4, <1>14 DEF SendMove, SendEof, queues
<1>15. CASE SendBeat(t, s, r)
  BY <1>5, <1>15 DEF SendBeat, queues
<1>16. CASE SyncDrain(t, s, r)
  <2>1. sched' = sched /\ choked' = choked
        /\ (qchoked' = qchoked \/ \E E : qchoked' = [n \in G.owners |-> qchoked[n] /\ n \notin E])
    BY <1>16 DEF SyncDrain, SyncPass, queues
  <2>2. qchoked' \in [G.owners -> BOOLEAN]
    BY <1>1, <2>1 DEF WaitersTyped
  <2> QED BY <1>1, <2>1, <2>2 DEF WaitersStep, WaitersTyped
<1>17. CASE SendDts(t, s, r)
  <2>1. s.to \in G.muxed /\ s.n \in Nat
    BY <1>3, <1>17 DEF SendDts, Fits
  <2>2. SchedTyped([sched EXCEPT !.last[s.to] = s.n])
    BY <1>1, <2>1, Recorded
  <2> QED BY <1>1, <1>17, <2>2, WaitersUpdated DEF SendDts
<1>18. CASE SendSourceFinished(t, s, r)
  <2>1. {s.to} \in SUBSET G.muxed
    BY <1>3, <1>18 DEF SendSourceFinished, Fits
  <2>2. SchedTyped([sched EXCEPT !.done = @ \cup {s.to}])
    BY <1>1, <2>1, Recorded
  <2> QED BY <1>1, <1>18, <2>2, WaitersUpdated DEF SendSourceFinished
<1>19. CASE SendFilterEof(t, s, r)
  <2>1. SchedTyped([sched EXCEPT !.sfin = @ \cup {s.to}])
    BY <1>1, <1>2, Recorded
  <2>2. PICK s2 : s2 = [sched EXCEPT !.sfin = @ \cup {s.to}]
    OBVIOUS
  <2>3. Update(s2, [qchoked EXCEPT ![s.to[1]] = FALSE])
    BY <1>19, <2>2 DEF SendFilterEof
  <2> QED BY <1>1, <2>1, <2>2, <2>3, WaitersUpdated
<1>20. CASE SyncEnd(t, s, r)
  <2>1. Synced(s.to) /\ Update([sched EXCEPT !.done = @ \cup Range(G.out[s.to[1]])], qchoked)
    BY <1>20 DEF SyncEnd
  <2>2. s.to[1] \in G.encoders
    BY <1>1, <2>1, GraphsAssumption DEF Synced, Furnished, Range
  <2>3. Range(G.out[s.to[1]]) \in SUBSET G.muxed
    BY <1>1, <2>2, Outputs, SinkFacts
  <2>4. SchedTyped([sched EXCEPT !.done = @ \cup Range(G.out[s.to[1]])])
    BY <1>1, <2>3, Recorded
  <2> QED BY <1>1, <2>1, <2>4, WaitersUpdated
<1> QED BY <1>2, <1>11, <1>12, <1>13, <1>14, <1>15, <1>16, <1>17, <1>18, <1>19, <1>20 DEF SendCase

\* So does whatever else a task does.
LEMMA OtherWaiters ==
  ASSUME Typed, NEW t \in G.tasks, TaskStep(t) \/ TaskFails(t), ~SendStep(t)
  PROVE  WaitersStep
<1>1. TasksTyped /\ WaitersTyped /\ GraphsTyped /\ G \in Graphs
  BY DEF Typed, TasksTyped
<1>2. ASSUME UNCHANGED <<sched, choked, qchoked>> PROVE WaitersStep
  BY <1>1, <1>2, WaitersSame
<1>3. ASSUME NEW s, SchedTyped(s), Update(s, qchoked) PROVE WaitersStep
  BY <1>1, <1>3, WaitersUpdated
<1>7. G.decoders \subseteq G.owners /\ G.graphs \subseteq G.owners /\ G.encoders \subseteq G.owners
      /\ G.muxers \subseteq G.owners
  BY <1>1, GraphFacts
<1>11. CASE t \in G.demuxers /\ DemuxStep(t)
  BY <1>2, <1>11 DEF DemuxStep, queues
<1>12. CASE t \in G.decoders /\ DecStep(t)
  <2>1. UNCHANGED queues \/ (\E item : Take(t, item)) \/ (\E i : TakeEof(t, i)) \/ TakeEnd(t) \/ TakeNothing(t)
    BY <1>12 DEF DecStep, DecOverflow, DecAsk, DecReceive, DecEof, DecDrain, DecNothing, DecConsumersDone
  <2>2. qchoked' = qchoked
    BY <1>7, <1>12, <2>1, TakeSteps DEF queues
  <2>3. UNCHANGED <<sched, choked>>
    BY <1>12 DEF DecStep
  <2> QED BY <1>2, <2>2, <2>3
<1>13. CASE t \in G.graphs /\ FilterStep(t)
  <2>1. CASE FilterClose(t)
    <3>1. \E x : Update([sched EXCEPT !.rfin = @ \cup {x}], qchoked)
      BY <2>1 DEF FilterClose
    <3> QED BY <1>1, <1>3, <3>1, Recorded
  <2>2. CASE FilterAsk(t)
    <3>1. fg[t].next \in 0 .. G.nb[t]
      BY <1>1, <1>13 DEF GraphsTyped, FgTyped
    <3>2. SchedTyped([sched EXCEPT !.best[t] = fg[t].next])
      BY <1>1, <1>13, <3>1, Recorded
    <3>3. Update([sched EXCEPT !.best[t] = fg[t].next], qchoked) \/ UNCHANGED <<sched, choked, qchoked>>
      BY <2>2 DEF FilterAsk
    <3> QED BY <1>2, <1>3, <3>2, <3>3
  <2>3. CASE FilterConfigure(t)
    <3>1. G.nb[t] \in 0 .. G.nb[t]
      BY <1>1, <1>13, GraphFacts
    <3>2. SchedTyped([sched EXCEPT !.best[t] = G.nb[t]])
      BY <1>1, <1>13, <3>1, Recorded
    <3> QED BY <1>3, <2>3, <3>2 DEF FilterConfigure
  <2>4. CASE FilterFrame(t) \/ FilterEof(t)
    <3>1. (\E item : Take(t, item)) \/ (\E i : TakeEof(t, i)) \/ TakeEnd(t) \/ TakeNothing(t)
      BY <2>4 DEF FilterFrame, FilterEof
    <3>2. qchoked' = qchoked
      BY <1>7, <1>13, <3>1, TakeSteps
    <3>3. UNCHANGED <<sched, choked>>
      BY <2>4 DEF FilterFrame, FilterEof
    <3> QED BY <1>2, <3>2, <3>3
  <2>5. CASE FilterIdle(t) \/ FilterWake(t) \/ FilterRequest(t) \/ FilterFinish(t)
    BY <1>2, <2>5 DEF FilterIdle, FilterWake, FilterRequest, FilterFinish, queues
  <2> QED BY <1>13, <2>1, <2>2, <2>3, <2>4, <2>5 DEF FilterStep
<1>14. CASE t \in G.encoders /\ EncStep(t)
  <2>1. UNCHANGED queues \/ (\E item : Take(t, item)) \/ (\E i : TakeEof(t, i)) \/ TakeEnd(t)
    BY <1>14 DEF EncStep, EncOpen, EncReceive, EncEof
  <2>2. qchoked' = qchoked
    BY <1>7, <1>14, <2>1, TakeSteps DEF queues
  <2> QED BY <1>2, <1>14, <2>2 DEF EncStep
<1>15. CASE t \in G.muxers /\ MuxStep(t)
  <2>1. qchoked' = qchoked \/ (\E i : TakeEof(t, i)) \/ TakeEnd(t) \/ TakeNothing(t)
    BY <1>15 DEF MuxStep, MuxReceive, MuxWrite, MuxEof
  <2>2. qchoked' = qchoked
    BY <1>7, <1>15, <2>1, TakeSteps
  <2> QED BY <1>2, <1>15, <2>2 DEF MuxStep
<1>16. CASE Cleanup(t)
  <2>1. UNCHANGED <<sched, choked, qchoked>>
        \/ Update([sched EXCEPT !.done = @ \cup {ms \in G.muxed : ms[1] = t}], qchoked)
    BY <1>16 DEF Cleanup, CleanupTask, CleanupMux
  <2>2. {ms \in G.muxed : ms[1] = t} \in SUBSET G.muxed
    OBVIOUS
  <2>3. SchedTyped([sched EXCEPT !.done = @ \cup {ms \in G.muxed : ms[1] = t}])
    BY <1>1, <2>2, Recorded
  <2> QED BY <1>2, <1>3, <2>1, <2>3
<1>17. CASE Exit(t)
  <2>1. UNCHANGED <<sched, choked, qchoked>> \/ Update([sched EXCEPT !.exited = @ \cup {t}], qchoked)
    BY <1>17 DEF Exit
  <2> QED BY <1>1, <1>2, <1>3, <2>1, Recorded
<1>18. CASE TaskFails(t)
  BY <1>2, <1>18 DEF TaskFails, queues
<1> QED BY <1>11, <1>12, <1>13, <1>14, <1>15, <1>16, <1>17, <1>18 DEF TaskStep

\* No step harms the waiters, the main thread's included.
LEMMA WaitersNext ==
  ASSUME Typed, [Next]_vars
  PROVE  WaitersTyped' /\ MainTyped'
<1>1. WaitersTyped /\ MainTyped
  BY DEF Typed
<1>2. ASSUME NEW t \in G.tasks, TaskStep(t) \/ TaskFails(t) PROVE WaitersStep
  BY <1>2, SendWaiters, OtherWaiters
<1>3. ASSUME MainStep \/ Quit \/ Stopped \/ UNCHANGED vars PROVE WaitersStep
  <2>1. CASE Start
    <3>1. Update(sched, qchoked)
      BY <2>1 DEF Start
    <3> QED BY <1>1, <3>1, WaitersUpdated DEF WaitersTyped
  <2>2. CASE StopSources
    BY <1>1, <2>2 DEF StopSources, WaitersStep, WaitersTyped
  <2>3. CASE Finish \/ Join \/ Quit \/ Stopped \/ UNCHANGED vars
    <3>1. UNCHANGED <<sched, choked, qchoked>>
      BY <2>3 DEF Finish, Join, Quit, Stopped, vars, queues
    <3> QED BY <1>1, <3>1, WaitersSame
  <2> QED BY <1>3, <2>1, <2>2, <2>3 DEF MainStep
<1>4. WaitersStep
  BY <1>2, <1>3 DEF Next
<1>5. main' \in {"start", "wait", "stop", "join", "stopped"}
  <2>1. CASE MainStep \/ Quit \/ Stopped \/ UNCHANGED vars
    BY <1>1, <2>1 DEF MainTyped, MainStep, Start, Finish, StopSources, Join, Quit, Stopped, vars
  <2>2. ASSUME NEW t \in G.tasks, TaskStep(t) \/ TaskFails(t) PROVE main' = main
    BY <2>2 DEF TaskStep, SendStep, DemuxStep, DecStep, FilterStep, EncStep, MuxStep, Cleanup, Exit, TaskFails
  <2> QED BY <1>1, <2>1, <2>2 DEF Next, MainTyped
<1> QED BY <1>1, <1>4, <1>5, GraphStays, WaitersKept DEF MainTyped

\* No step harms what is known of the start of the muxers.
LEMMA StartNext ==
  ASSUME Typed, [Next]_vars
  PROVE  StartTyped'
<1>1. TasksTyped /\ StartTyped /\ G \in Graphs /\ G' = G
  BY GraphStays DEF Typed, TasksTyped
<1>2. ASSUME start' = start PROVE StartTyped'
  BY <1>1, <1>2 DEF StartTyped
<1>3. ASSUME NEW t \in G.tasks, SendStep(t) PROVE StartTyped'
  <2>1. PICK s \in Sends(t), r \in Seq(Sends(t)) :
          SendCase(t, s, r) /\ s.to \in G.owners \X Nat /\ s.n \in Int
    BY <1>1, <1>3, SendIs
  <2>2. Fits(t, s.kind, s.to, s.n)
    BY DEF Sends
  <2>11. CASE Skip(t, s, r) \/ SendItem(t, s, r) \/ SendRefused(t, s, r) \/ SendDts(t, s, r)
    BY <1>2, <2>11 DEF Skip, SendItem, SendRefused, SendDts
  <2>12. CASE SendEof(t, s, r) \/ SendSourceFinished(t, s, r) \/ SendFilterEof(t, s, r)
    BY <1>2, <2>12 DEF SendEof, SendSourceFinished, SendFilterEof
  <2>13. CASE SendAwait(t, s, r) \/ SendFlushFails(t, s) \/ SendEarly(t, s, r) \/ SendLate(t, s, r)
    BY <1>2, <2>13 DEF SendAwait, SendFlushFails, SendEarly, SendLate
  <2>14. CASE SyncEnd(t, s, r) \/ SyncSend(t, s, r) \/ SyncDrain(t, s, r) \/ SendBeat(t, s, r)
    BY <1>2, <2>14 DEF SyncEnd, SyncSend, SyncDrain, SendBeat
  <2>15. CASE SendOpen(t, s, r)
    <3>1. s.to[1] \in G.encoders /\ start' = [start EXCEPT !.opened = @ \cup {s.to[1]}]
      BY <2>15 DEF SendOpen, OpenEncoder
    <3> QED BY <1>1, <3>1 DEF StartTyped
  <2>16. CASE SendReady(t, s, r)
    <3>1. s.to \in G.muxed
      BY <2>2, <2>16 DEF SendReady, Fits
    <3>2. PICK ready : ready = start.ready \cup {s.to}
      OBVIOUS
    <3>3. start' = [start EXCEPT !.ready = ready] \/ start' = [start EXCEPT !.ready = ready, !.locked = TRUE]
      BY <2>16, <3>2 DEF SendReady
    <3>4. ready \in SUBSET G.muxed
      BY <1>1, <3>1, <3>2 DEF StartTyped
    <3> QED BY <1>1, <3>3, <3>4 DEF StartTyped
  <2>17. CASE SendMove(t, s, r)
    <3>1. PICK m, ms : m = s.to[1] /\ ms = NextPreMuxed(m)
      OBVIOUS
    <3>2. \/ start' = [start EXCEPT !.started = @ \cup {m}, !.locked = FALSE]
          \/ ~(PreMuxed(m) = {}) /\ start' = [start EXCEPT !.pre[ms] = Tail(@)]
      BY <2>17, <3>1 DEF SendMove
    <3>3. s.to \in G.muxed
      BY <2>2, <2>17 DEF SendMove, Fits
    <3>4. m \in G.muxers
      BY <1>1, <3>1, <3>3, GraphFacts
    <3>5. CASE start' = [start EXCEPT !.started = @ \cup {m}, !.locked = FALSE]
      <4>1. start.started \cup {m} \in SUBSET G.muxers
        BY <1>1, <3>4 DEF StartTyped
      <4> QED BY <1>1, <3>5, <4>1 DEF StartTyped
    <3>6. CASE ~(PreMuxed(m) = {}) /\ start' = [start EXCEPT !.pre[ms] = Tail(@)]
      <4>1. start.pre[ms] \in Seq(Nat) /\ ~(start.pre[ms] = <<>>) /\ ms \in G.muxed
        BY <1>1, <3>1, <3>4, <3>6, NextIs
      <4>2. Tail(start.pre[ms]) \in Seq(Nat)
        BY <4>1
      <4>3. [start.pre EXCEPT ![ms] = Tail(start.pre[ms])] \in [G.muxed -> Seq(Nat)]
        BY <1>1, <4>2 DEF StartTyped
      <4>4. start' = [start EXCEPT !.pre = [start.pre EXCEPT ![ms] = Tail(start.pre[ms])]]
        BY <1>1, <3>6 DEF StartTyped
      <4> QED BY <1>1, <4>3, <4>4 DEF StartTyped
    <3> QED BY <3>2, <3>5, <3>6
  <2>18. CASE SendQueue(t, s, r)
    <3>1. s.to \in G.muxed /\ s.n \in Nat
      BY <2>2, <2>18 DEF SendQueue, Fits
    <3>2. start' = start \/ start' = [start EXCEPT !.pre[s.to] = Append(@, s.n)]
      BY <2>18 DEF SendQueue
    <3>3. CASE start' = [start EXCEPT !.pre[s.to] = Append(@, s.n)]
      <4>1. Append(start.pre[s.to], s.n) \in Seq(Nat)
        BY <1>1, <3>1 DEF StartTyped
      <4>2. [start.pre EXCEPT ![s.to] = Append(start.pre[s.to], s.n)] \in [G.muxed -> Seq(Nat)]
        BY <1>1, <4>1 DEF StartTyped
      <4>3. start' = [start EXCEPT !.pre = [start.pre EXCEPT ![s.to] = Append(start.pre[s.to], s.n)]]
        BY <1>1, <3>3 DEF StartTyped
      <4> QED BY <1>1, <4>2, <4>3 DEF StartTyped
    <3> QED BY <1>2, <3>2, <3>3
  <2> QED BY <2>1, <2>11, <2>12, <2>13, <2>14, <2>15, <2>16, <2>17, <2>18 DEF SendCase
<1>4. ASSUME NEW t \in G.tasks, TaskStep(t) \/ TaskFails(t), ~SendStep(t) PROVE StartTyped'
  <2>1. start' = start \/ (t \in G.encoders /\ EncOpen(t))
    BY <1>4 DEF TaskStep, TaskFails, DemuxStep, DecStep, FilterStep, EncStep, EncReceive, EncEof, MuxStep,
       Cleanup, Exit
  <2>2. CASE t \in G.encoders /\ EncOpen(t)
    <3>1. start' = [start EXCEPT !.opened = @ \cup {t}]
      BY <2>2 DEF EncOpen, OpenEncoder
    <3> QED BY <1>1, <2>2, <3>1 DEF StartTyped
  <2> QED BY <1>2, <2>1, <2>2
<1>5. CASE MainStep \/ Quit \/ Stopped \/ UNCHANGED vars
  <2>1. start' = start
    BY <1>5 DEF MainStep, Start, Finish, StopSources, Join, Quit, Stopped, rest, vars
  <2> QED BY <1>2, <2>1
<1> QED BY <1>3, <1>4, <1>5 DEF Next
-----------------------------------------------------------------------------
(* The sources                                                             *)

\* Where the tasks are after a message of task t was sent.
Places(t) ==
  \A u \in G.tasks \ G.muxers : pc'[u] = pc[u] \/ (u = t /\ pc'[u] \in {"finish", "fail"})

\* A send moves no task but muxers, except its own to its end.
LEMMA SendPlaces ==
  ASSUME Typed, NEW t \in G.tasks, SendStep(t)
  PROVE  Places(t)
<1>1. TasksTyped /\ G \in Graphs
  BY DEF Typed, TasksTyped
<1>2. PICK s \in Sends(t), r \in Seq(Sends(t)) : SendCase(t, s, r)
  BY <1>1, SendIs
<1>3. ASSUME NEW sends, Stay(t, sends) PROVE Places(t)
  BY <1>1, <1>3 DEF Stay, Go, Places, TasksTyped
<1>4. ASSUME NEW w \in {"finish", "fail"}, Go(t, w, <<>>) PROVE Places(t)
  BY <1>1, <1>4 DEF Go, Places, TasksTyped
<1>5. ASSUME pc' = pc PROVE Places(t)
  BY <1>5 DEF Places
<1>11. CASE Skip(t, s, r) \/ SendRefused(t, s, r) \/ SendItem(t, s, r) \/ SendDts(t, s, r)
  BY <1>3, <1>11 DEF Skip, SendRefused, SendItem, SendDts
<1>12. CASE SendEof(t, s, r) \/ SendSourceFinished(t, s, r) \/ SendFilterEof(t, s, r) \/ SendAwait(t, s, r)
  BY <1>3, <1>12 DEF SendEof, SendSourceFinished, SendFilterEof, SendAwait
<1>13. CASE SendFlushFails(t, s) \/ SendOpen(t, s, r)
  BY <1>3, <1>4, <1>13 DEF SendFlushFails, SendOpen, OpenEncoder
<1>14. CASE SendReady(t, s, r)
  <2>1. s.to[1] \in G.muxers
    <3>1. s.to \in G.muxed
      BY <1>14 DEF SendReady, Sends, Fits
    <3> QED BY <1>1, <3>1, GraphFacts
  <2>2. CASE pc' = [pc EXCEPT ![s.to[1]] = "run"]
    BY <1>1, <2>1, <2>2 DEF Places, TasksTyped
  <2> QED BY <1>3, <1>4, <1>14, <2>2 DEF SendReady
<1>15. CASE SendMove(t, s, r)
  BY <1>3, <1>5, <1>15 DEF SendMove
<1>16. CASE SendQueue(t, s, r)
  BY <1>3, <1>4, <1>16 DEF SendQueue
<1>17. CASE SendEarly(t, s, r) \/ SendLate(t, s, r) \/ SyncEnd(t, s, r) \/ SyncSend(t, s, r) \/ SendBeat(t, s, r)
  BY <1>3, <1>17 DEF SendEarly, SendLate, SyncEnd, SyncSend, SendBeat
<1>18. CASE SyncDrain(t, s, r)
  <2>1. pc' = pc \/ \E sends : Stay(t, sends)
    BY <1>18 DEF SyncDrain, SyncPass
  <2> QED BY <1>3, <1>5, <2>1
<1> QED BY <1>2, <1>11, <1>12, <1>13, <1>14, <1>15, <1>16, <1>17, <1>18 DEF SendCase

\* Sending changes no more of a decoder than its end timestamp.
LEMMA SendDecoders ==
  ASSUME Typed, NEW t \in G.tasks, SendStep(t)
  PROVE  \/ dec' = dec
         \/ \E d \in G.decoders : dec' = [dec EXCEPT ![d].endts = "none"]
<1>1. TasksTyped /\ G \in Graphs
  BY DEF Typed, TasksTyped
<1>2. PICK s \in Sends(t), r \in Seq(Sends(t)) : SendCase(t, s, r)
  BY <1>1, SendIs
<1>11. CASE Skip(t, s, r) \/ SendRefused(t, s, r) \/ SendItem(t, s, r) \/ SendDts(t, s, r) \/ SendEof(t, s, r)
  BY <1>11 DEF Skip, SendRefused, SendItem, SendDts, SendEof
<1>12. CASE SendSourceFinished(t, s, r) \/ SendFilterEof(t, s, r) \/ SendFlushFails(t, s)
            \/ SendOpen(t, s, r) \/ SendReady(t, s, r)
  BY <1>12 DEF SendSourceFinished, SendFilterEof, SendFlushFails, SendOpen, SendReady
<1>13. CASE SendMove(t, s, r) \/ SendEarly(t, s, r) \/ SendQueue(t, s, r) \/ SendLate(t, s, r)
  BY <1>13 DEF SendMove, SendEarly, SendQueue, SendLate
<1>14. CASE SyncEnd(t, s, r) \/ SyncSend(t, s, r) \/ SyncDrain(t, s, r) \/ SendBeat(t, s, r)
  BY <1>14 DEF SyncEnd, SyncSend, SyncDrain, SendBeat
<1>15. CASE SendAwait(t, s, r)
  <2>1. s.to[1] \in G.decoders /\ dec' = [dec EXCEPT ![s.to[1]].endts = "none"]
    BY <1>15 DEF SendAwait, Sends, Fits
  <2> QED BY <2>1
<1> QED BY <1>2, <1>11, <1>12, <1>13, <1>14, <1>15 DEF SendCase
DecRecord == [overflow : Seq(Int), expect : BOOLEAN, endts : {"none", "sent", "closed"}]
Undrained(where, x) == where = "drain" => ~(x.overflow = <<>>)
DecodersTyped == /\ dec = [d \in G.decoders |-> dec[d]]
                 /\ \A d \in G.decoders : dec[d] \in DecRecord /\ Undrained(pc[d], dec[d])
PositionsTyped ==
  /\ pos \in [G.demuxers -> [next : Nat \ {0}, loops : Nat]]
  /\ \A d \in G.demuxers : pos[d].next <= Len(G.file[d]) + 1 /\ pos[d].loops <= G.loop[d]

\* The types of the sources: decoders and demuxers, taken apart.
LEMMA SourcesAre == SourcesTyped <=> DecodersTyped /\ PositionsTyped
BY DEF SourcesTyped, DecodersTyped, PositionsTyped, DecRecord, Undrained

\* A task does not move another one.
LEMMA OtherPlaces ==
  ASSUME Typed, NEW t \in G.tasks, TaskStep(t) \/ TaskFails(t), NEW u \in G.tasks \ G.muxers, u # t
  PROVE  pc'[u] = pc[u]
<1>1. TasksTyped /\ G \in Graphs
  BY DEF Typed, TasksTyped
<1>2. ASSUME NEW w, NEW sends, Go(t, w, sends) PROVE pc'[u] = pc[u]
  BY <1>1, <1>2 DEF Go, TasksTyped
<1>3. CASE SendStep(t)
  BY <1>3, SendPlaces DEF Places
<1>4. CASE DemuxStep(t)
  BY <1>2, <1>4 DEF DemuxStep, DemuxPacket, DemuxLoop, DemuxEnd, Stay
<1>5. CASE DecStep(t)
  <2>1. pc' = pc \/ \E w, sends : Go(t, w, sends)
    BY <1>5 DEF DecStep, DecOverflow, DecAsk, DecReceive, DecEof, DecDrain, DecNothing, DecConsumersDone,
       Decode, DecFinish
  <2> QED BY <1>2, <2>1
<1>6. CASE FilterStep(t)
  <2>1. \E w, sends : Go(t, w, sends)
    BY <1>6 DEF FilterStep, FilterAsk, FilterFrame, FilterConfigure, FilterEof, FilterIdle, FilterWake,
       FilterRequest, FilterClose, FilterFinish, Stay
  <2> QED BY <1>2, <2>1
<1>7. CASE EncStep(t)
  BY <1>2, <1>7 DEF EncStep, EncOpen, EncReceive, EncEof, OpenEncoder, Stay
<1>8. CASE MuxStep(t)
  <2>1. pc' = pc \/ \E w, sends : Go(t, w, sends)
    BY <1>8 DEF MuxStep, MuxReceive, MuxWrite, MuxEof, Write, Stay
  <2> QED BY <1>2, <2>1
<1>9. CASE Cleanup(t) \/ Exit(t) \/ TaskFails(t)
  BY <1>2, <1>9 DEF Cleanup, CleanupTask, CleanupMux, Exit, TaskFails
<1> QED BY <1>3, <1>4, <1>5, <1>6, <1>7, <1>8, <1>9 DEF TaskStep

\* A decoder writes only its own record, and drains only what it put aside.
LEMMA DecoderStep ==
  ASSUME Typed, NEW d \in G.decoders, DecStep(d)
  PROVE  /\ dec' = [u \in G.decoders |-> dec'[u]] /\ \A u \in G.decoders : u # d => dec'[u] = dec[u]
         /\ dec'[d] \in DecRecord /\ Undrained(pc'[d], dec'[d])
<1>1. TasksTyped /\ QueuesTyped /\ DecodersTyped /\ G \in Graphs
  BY SourcesAre DEF Typed, TasksTyped
<1>2. d \in G.tasks /\ d \in G.owners
  BY <1>1, GraphFacts
<1>3. dec[d] \in DecRecord /\ dec[d].overflow \in Seq(Int) /\ Undrained(pc[d], dec[d])
  BY <1>1 DEF DecodersTyped, DecRecord
<1>4. ASSUME NEW w, NEW sends, Go(d, w, sends) PROVE pc'[d] = w
  BY <1>1, <1>2, <1>4 DEF Go, TasksTyped
<1> DEFINE Same == dec' = [u \in G.decoders |-> dec'[u]] /\ \A u \in G.decoders : u # d => dec'[u] = dec[u]
<1>5. ASSUME dec' = dec PROVE Same /\ dec'[d] = dec[d]
  BY <1>1, <1>5 DEF DecodersTyped
<1>6. ASSUME NEW o \in Seq(Int), dec' = [dec EXCEPT ![d].overflow = o] PROVE Same /\ dec'[d] \in DecRecord
  BY <1>1, <1>3, <1>6 DEF DecodersTyped, DecRecord
<1>7. ASSUME NEW n, Decode(d, n) PROVE Undrained(pc'[d], dec'[d])
  BY <1>4, <1>7 DEF Decode, Undrained
<1>11. CASE DecOverflow(d)
  <2>1. Tail(dec[d].overflow) \in Seq(Int)
    BY <1>3, <1>11 DEF DecOverflow
  <2> QED BY <1>6, <1>7, <1>11, <2>1 DEF DecOverflow
<1>12. CASE DecAsk(d)
  <2>1. Undrained(pc'[d], dec'[d])
    BY <1>4, <1>12 DEF DecAsk, Undrained
  <2>2. dec' = dec \/ dec' = [dec EXCEPT ![d].expect = FALSE, ![d].endts = "sent"]
    BY <1>12 DEF DecAsk
  <2>3. ASSUME dec' = [dec EXCEPT ![d].expect = FALSE, ![d].endts = "sent"] PROVE Same /\ dec'[d] \in DecRecord
    BY <1>1, <1>3, <2>3 DEF DecodersTyped, DecRecord
  <2> QED BY <1>3, <1>5, <2>1, <2>2, <2>3
<1>13. CASE DecReceive(d)
  <2>1. PICK item, b, c :
          /\ item \in Range(q[d]) /\ Take(d, item) /\ (Go(d, "run", <<>>) \/ Decode(d, item.n))
          /\ b = (item.n <= Special /\ d \in G.endts) /\ c = (choked[d] \/ dec[d].overflow # <<>>)
          /\ dec' = [dec EXCEPT ![d].expect = @ \/ b, ![d].overflow = IF c THEN Append(@, item.n) ELSE @]
    BY <1>13 DEF DecReceive
  <2>2. HasItem(d) /\ item = q[d][FirstWanted(d)]
    BY <2>1 DEF Take
  <2>3. item \in Items(d)
    BY <1>1, <1>2, <2>2, Takes
  <2>4. item.n \in Int
    BY <2>3 DEF Items
  <2>5. PICK o : o = IF c THEN Append(dec[d].overflow, item.n) ELSE dec[d].overflow
    OBVIOUS
  <2>6. o \in Seq(Int)
    BY <1>3, <2>4, <2>5
  <2>7. PICK e : e = (dec[d].expect \/ b)
    OBVIOUS
  <2>8. e \in BOOLEAN
    BY <2>7
  <2>9. /\ dec' = [u \in G.decoders |-> dec'[u]] /\ \A u \in G.decoders : u # d => dec'[u] = dec[u]
        /\ dec'[d] = [dec[d] EXCEPT !.expect = e, !.overflow = o]
    BY <1>1, <2>1, <2>5, <2>7 DEF DecodersTyped
  <2>10. dec'[d] \in DecRecord
    BY <1>3, <2>6, <2>8, <2>9 DEF DecRecord
  <2>11. Undrained(pc'[d], dec'[d])
    BY <1>4, <1>7, <2>1 DEF Undrained
  <2> QED BY <2>9, <2>10, <2>11
<1>14. CASE DecEof(d)
  <2>1. CASE dec[d].overflow = <<>>
    BY <1>3, <1>4, <1>5, <1>14, <2>1 DEF DecEof, DecFinish, Undrained
  <2>2. CASE ~(dec[d].overflow = <<>>)
    BY <1>3, <1>5, <1>14, <2>2 DEF DecEof, Undrained
  <2> QED BY <2>1, <2>2
<1>15. CASE DecDrain(d)
  <2>1. pc[d] = "drain"
    BY <1>15 DEF DecDrain, Idle
  <2>2. Tail(dec[d].overflow) \in Seq(Int)
    BY <1>3, <2>1 DEF Undrained
  <2>3. CASE DecFinish(d) /\ dec' = dec
    BY <1>3, <1>4, <1>5, <2>3 DEF DecFinish, Undrained
  <2>4. CASE Decode(d, Head(dec[d].overflow)) /\ dec' = [dec EXCEPT ![d].overflow = Tail(@)]
    BY <1>6, <1>7, <2>2, <2>4
  <2> QED BY <1>15, <2>3, <2>4 DEF DecDrain
<1>16. CASE DecNothing(d)
  BY <1>3, <1>5, <1>16 DEF DecNothing, Undrained
<1>17. CASE DecConsumersDone(d)
  BY <1>3, <1>4, <1>5, <1>17 DEF DecConsumersDone, Undrained
<1> QED BY <1>11, <1>12, <1>13, <1>14, <1>15, <1>16, <1>17 DEF DecStep
\* No step harms a decoder's record.
LEMMA DecodersNext ==
  ASSUME Typed, [Next]_vars
  PROVE  DecodersTyped'
<1>1. TasksTyped /\ DecodersTyped /\ G \in Graphs /\ G' = G
  BY SourcesAre, GraphStays DEF Typed, TasksTyped
<1>2. \A d \in G.decoders : d \in G.tasks /\ d \notin G.muxers
  BY <1>1, GraphFacts, OneKind
<1>3. ASSUME dec' = dec, \A d \in G.decoders : pc'[d] = pc[d] \/ pc'[d] # "drain"
      PROVE  DecodersTyped'
  <2>1. \A d \in G.decoders : Undrained(pc'[d], dec'[d])
    BY <1>1, <1>3 DEF DecodersTyped, Undrained
  <2> QED BY <1>1, <1>3, <2>1 DEF DecodersTyped
<1>4. ASSUME NEW d \in G.decoders, NEW e \in {"none", "closed"}, dec' = [dec EXCEPT ![d].endts = e],
             \A u \in G.decoders : pc'[u] = pc[u] \/ pc'[u] # "drain"
      PROVE  DecodersTyped'
  <2>1. dec' = [u \in G.decoders |-> dec'[u]]
        /\ \A u \in G.decoders : dec'[u] \in DecRecord /\ dec'[u].overflow = dec[u].overflow
    BY <1>1, <1>4 DEF DecodersTyped, DecRecord
  <2>2. \A u \in G.decoders : Undrained(pc'[u], dec'[u])
    BY <1>1, <1>4, <2>1 DEF DecodersTyped, Undrained
  <2> QED BY <1>1, <2>1, <2>2 DEF DecodersTyped
<1>5. ASSUME NEW t \in G.tasks, TaskStep(t) \/ TaskFails(t) PROVE DecodersTyped'
  <2>1. \A u \in G.decoders : u # t => pc'[u] = pc[u]
    BY <1>2, <1>5, OtherPlaces
  <2>2. CASE SendStep(t)
    <3>1. \A u \in G.decoders : pc'[u] = pc[u] \/ pc'[u] # "drain"
      BY <1>2, <2>2, SendPlaces DEF Places
    <3> QED BY <1>3, <1>4, <2>2, <3>1, SendDecoders
  <2>3. CASE t \in G.decoders /\ DecStep(t)
    <3>1. /\ dec' = [u \in G.decoders |-> dec'[u]] /\ \A u \in G.decoders : u # t => dec'[u] = dec[u]
          /\ dec'[t] \in DecRecord /\ Undrained(pc'[t], dec'[t])
      BY <2>3, DecoderStep
    <3>2. \A u \in G.decoders : dec'[u] \in DecRecord /\ Undrained(pc'[u], dec'[u])
      BY <1>1, <2>1, <3>1 DEF DecodersTyped
    <3> QED BY <1>1, <3>1, <3>2 DEF DecodersTyped
  <2>4. CASE \/ t \in G.demuxers /\ DemuxStep(t)
             \/ t \in G.graphs /\ FilterStep(t)
             \/ t \in G.encoders /\ EncStep(t)
             \/ t \in G.muxers /\ MuxStep(t)
    <3>1. dec' = dec
      BY <2>4 DEF DemuxStep, DemuxPacket, DemuxLoop, DemuxEnd, FilterStep, EncStep, MuxStep
    <3>2. t \notin G.decoders
      BY <1>1, <2>4, GraphFacts, OneKind
    <3> QED BY <1>3, <2>1, <3>1, <3>2
  <2>5. CASE Cleanup(t)
    <3>1. pc' = [pc EXCEPT ![t] = Cleaned(t)]
      BY <2>5 DEF Cleanup, CleanupTask, CleanupMux, Go
    <3>2. Cleaned(t) # "drain"
      BY DEF Cleaned
    <3>3. \A u \in G.decoders : pc'[u] = pc[u] \/ pc'[u] # "drain"
      BY <1>1, <2>1, <3>1, <3>2 DEF TasksTyped
    <3>4. dec' = dec \/ (t \in G.decoders /\ dec' = [dec EXCEPT ![t].endts = "closed"])
      BY <2>5 DEF Cleanup, CleanupTask, CleanupMux
    <3> QED BY <1>3, <1>4, <3>3, <3>4
  <2>6. CASE Exit(t) \/ TaskFails(t)
    <3>1. dec' = dec /\ (pc' = [pc EXCEPT ![t] = "exited"] \/ pc' = [pc EXCEPT ![t] = "fail"])
      BY <2>6 DEF Exit, TaskFails, Go
    <3>2. \A u \in G.decoders : pc'[u] = pc[u] \/ pc'[u] # "drain"
      BY <1>1, <2>1, <3>1 DEF TasksTyped
    <3> QED BY <1>3, <3>1, <3>2
  <2> QED BY <1>5, <2>2, <2>3, <2>4, <2>5, <2>6 DEF TaskStep
<1>6. CASE MainStep \/ Quit \/ Stopped \/ UNCHANGED vars
  <2>1. dec' = dec /\ pc' = pc
    BY <1>6 DEF MainStep, Start, Finish, StopSources, Join, Quit, Stopped, rest, vars
  <2> QED BY <1>3, <2>1
<1> QED BY <1>5, <1>6 DEF Next

\* No step takes a demuxer past the end of its file, or of its loops.
LEMMA PositionsNext ==
  ASSUME Typed, [Next]_vars
  PROVE  PositionsTyped'
<1>1. TasksTyped /\ SourcesTyped /\ PositionsTyped /\ G \in Graphs /\ G' = G
  BY SourcesAre, GraphStays DEF Typed, TasksTyped
<1>2. ASSUME pos' = pos PROVE PositionsTyped'
  BY <1>1, <1>2 DEF PositionsTyped
<1>3. ASSUME NEW t \in G.tasks, TaskStep(t) \/ TaskFails(t), ~(t \in G.demuxers /\ DemuxStep(t)) PROVE pos' = pos
  BY <1>3 DEF TaskStep, TaskFails, SendStep, DecStep, FilterStep, EncStep, MuxStep, Cleanup, Exit
<1>4. ASSUME NEW d \in G.demuxers, DemuxStep(d) PROVE PositionsTyped'
  <2>1. PICK n \in Nat, l \in Nat : n = pos[d].next /\ l = pos[d].loops /\ n # 0
    BY <1>1 DEF PositionsTyped
  <2>2. G.file[d] \in Seq(DOMAIN G.streams[d]) /\ Len(G.file[d]) \in Nat /\ G.loop[d] \in Nat
    BY <1>1, GraphsAssumption DEF Furnished
  <2>3. PICK e \in Nat : e = Len(G.file[d])
    BY <2>2
  <2>4. CASE DemuxPacket(d)
    <3>1. n <= e /\ pos' = [pos EXCEPT ![d].next = n + 1]
      BY <2>1, <2>3, <2>4 DEF DemuxPacket, AtEnd
    <3> QED BY <1>1, <2>1, <2>3, <3>1 DEF PositionsTyped
  <2>5. CASE DemuxLoop(d)
    <3>1. l > 0 /\ pos' = [pos EXCEPT ![d] = [next |-> 1, loops |-> l - 1]]
      BY <2>1, <2>5 DEF DemuxLoop
    <3>2. l <= G.loop[d] /\ l - 1 \in Nat /\ l - 1 <= G.loop[d]
      BY <1>1, <2>1, <2>2, <3>1 DEF PositionsTyped
    <3> QED BY <1>1, <2>1, <2>3, <3>1, <3>2 DEF PositionsTyped
  <2>6. CASE DemuxEnd(d)
    BY <1>2, <2>6 DEF DemuxEnd
  <2> QED BY <1>4, <2>4, <2>5, <2>6 DEF DemuxStep
<1>5. CASE MainStep \/ Quit \/ Stopped \/ UNCHANGED vars
  <2>1. pos' = pos
    BY <1>5 DEF MainStep, Start, Finish, StopSources, Join, Quit, Stopped, rest, vars
  <2> QED BY <1>2, <2>1
<1> QED BY <1>2, <1>3, <1>4, <1>5 DEF Next

\* Both together.
LEMMA SourcesNext ==
  ASSUME Typed, [Next]_vars
  PROVE  SourcesTyped'
<1>1. DecodersTyped' /\ PositionsTyped'
  BY DecodersNext, PositionsNext
<1> QED BY <1>1 DEF SourcesTyped, DecodersTyped, PositionsTyped, DecRecord, Undrained
-----------------------------------------------------------------------------
(* The filtergraphs                                                        *)

\* The smaller of two numbers.
LEMMA Smaller ==
  ASSUME NEW a \in Int, NEW b \in Int
  PROVE  Minimum({a, b}) \in {a, b} /\ Minimum({a, b}) <= a /\ Minimum({a, b}) <= b
<1>1. \E n \in {a, b} : \A m \in {a, b} : n <= m
  <2>1. CASE a <= b
    BY <2>1
  <2>2. CASE b <= a
    BY <2>2
  <2> QED BY <2>1, <2>2
<1>2. Minimum({a, b}) \in {a, b} /\ \A m \in {a, b} : Minimum({a, b}) <= m
  BY <1>1 DEF Minimum
<1> QED BY <1>2

\* The smallest of a set of numbers.
LEMMA SmallestOf ==
  ASSUME NEW N, N \subseteq Nat, ~(N = {})
  PROVE  Minimum(N) \in N /\ \A m \in N : Minimum(N) <= m
<1>1. \E n \in N : \A m \in N : n <= m
  BY Least
<1> QED BY <1>1 DEF Minimum

\* A graph never uses more frames than it has.
LEMMA UsableFacts ==
  ASSUME TasksTyped, NEW f \in G.graphs, NEW x, FgTyped(f, x), NEW i \in FgInputs(G, f)
  PROVE  Usable(f, x)[i] \in Int /\ Usable(f, x)[i] <= x.have[i]
<1>1. G \in Graphs
  BY DEF TasksTyped
<1>2. G.trim[<<f, i>>] \in Nat
  <2>1. <<f, i>> \in FilterInputs(G)
    BY DEF FilterInputs, FgInputs
  <2> QED BY <1>1, <2>1, GraphsAssumption DEF Furnished
<1>3. x.have[i] \in Nat /\ x.took[i] \in Int
  BY DEF FgTyped
<1> DEFINE all == {x.have[j] : j \in FgInputs(G, f)}
           limited == Minimum({x.have[i], G.trim[<<f, i>>] + 1 - x.took[i]})
<1>4. all \subseteq Nat /\ x.have[i] \in all /\ ~(all = {})
  BY DEF FgTyped
<1>5. PICK h \in Int, r \in Int : h = x.have[i] /\ r = G.trim[<<f, i>>] + 1 - x.took[i]
  BY <1>2, <1>3
<1>6. limited \in Int /\ limited <= h
  <2>1. limited = Minimum({h, r})
    BY <1>5
  <2>2. Minimum({h, r}) \in {h, r} /\ Minimum({h, r}) <= h
    BY Smaller, Zenon
  <2>3. PICK l : l = Minimum({h, r})
    OBVIOUS
  <2>4. l \in {h, r} /\ l <= h
    BY <2>2, <2>3
  <2>5. l \in Int /\ l <= h
    BY <2>4
  <2> QED BY <2>1, <2>3, <2>5, Zenon
<1>7. Minimum(all) \in Int /\ Minimum(all) <= h
  <2> HIDE DEF all
  <2>1. Minimum(all) \in all /\ \A m \in all : Minimum(all) <= m
    BY <1>4, SmallestOf, Zenon
  <2>2. Minimum(all) \in Nat
    BY <1>4, <2>1
  <2>3. h \in all
    BY <1>4, <1>5
  <2> QED BY <2>1, <2>2, <2>3
<1>8. Usable(f, x)[i] \in {Minimum(all), limited, 0}
  BY DEF Usable
<1> HIDE DEF all, limited
<1> QED BY <1>3, <1>5, <1>6, <1>7, <1>8

\* What a graph has got does not change when it pushes it on.
LEMMA PushedFacts ==
  ASSUME TasksTyped, NEW f \in G.graphs, NEW x, FgTyped(f, x)
  PROVE  /\ FgTyped(f, Pushed(f, x))
         /\ Pushed(f, x).configured = x.configured /\ Pushed(f, x).made = x.made
         /\ \A i \in FgInputs(G, f) :
              Pushed(f, x).took[i] + Pushed(f, x).have[i] = x.took[i] + x.have[i]
<1> DEFINE have == [i \in FgInputs(G, f) |-> x.have[i] - Usable(f, x)[i]]
           took == [i \in FgInputs(G, f) |-> x.took[i] + Usable(f, x)[i]]
           passed(i) == Minimum({x.took[i] + Usable(f, x)[i], G.trim[<<f, i>>]})
                          - Minimum({x.took[i], G.trim[<<f, i>>]})
           made == IF G.kind[f] = "sync" THEN Usable(f, x)[0]
                   ELSE FoldFunction(LAMBDA a, b : a + b, 0, [i \in FgInputs(G, f) |-> passed(i)])
           ready == x.ready + made
           extra == x.extra + made * (G.mult[f] - 1)
           p == Pushed(f, x)
<1>1. p = [x EXCEPT !.have = have, !.took = took, !.ready = ready, !.extra = extra]
  BY Zenon DEF Pushed
<1>2. \A i \in FgInputs(G, f) : /\ Usable(f, x)[i] \in Int /\ Usable(f, x)[i] <= x.have[i]
                                /\ x.have[i] \in Nat /\ x.took[i] \in Int
  BY UsableFacts DEF FgTyped
<1>3. have \in [FgInputs(G, f) -> Nat] /\ took \in [FgInputs(G, f) -> Int]
  BY <1>2
<1>4. \A i \in FgInputs(G, f) : took[i] + have[i] = x.took[i] + x.have[i]
  BY <1>2
<1> HIDE DEF have, took, p, made, ready, extra
<1>5. x = [y \in FgFields |-> x[y]]
  BY DEF FgTyped
<1>6. /\ p = [y \in FgFields |-> p[y]] /\ p.have = have /\ p.took = took
      /\ p.next = x.next /\ p.made = x.made /\ p.configured = x.configured
  BY <1>1, <1>5 DEF FgFields
<1>7. FgTyped(f, p)
  BY <1>3, <1>6 DEF FgTyped
<1> QED BY <1>4, <1>6, <1>7 DEF p
\* The next state of filtergraph f is x, and it goes on at w.
LEMMA FilterGraphs ==
  ASSUME Typed, NEW f \in G.graphs, FilterStep(f)
  PROVE  /\ fg' = [g \in G.graphs |-> fg'[g]] /\ \A g \in G.graphs : g # f => fg'[g] = fg[g]
         /\ FgTyped(f, fg'[f]) /\ Told(f, pc'[f], fg'[f])
<1> DEFINE Goal == /\ fg' = [g \in G.graphs |-> fg'[g]] /\ \A g \in G.graphs : g # f => fg'[g] = fg[g]
                   /\ FgTyped(f, fg'[f]) /\ Told(f, pc'[f], fg'[f])
<1>1. TasksTyped /\ QueuesTyped /\ GraphsTyped /\ G \in Graphs
  BY DEF Typed, TasksTyped
<1>2. f \in G.tasks /\ f \in G.owners /\ G.nb[f] \in Nat
  BY <1>1, GraphFacts
<1>3. FgTyped(f, fg[f]) /\ Told(f, pc[f], fg[f])
  BY <1>1 DEF GraphsTyped
<1>4. fg[f] = [y \in FgFields |-> fg[f][y]]
  BY <1>3 DEF FgTyped
<1>5. ASSUME NEW x, NEW w, NEW s, FgTyped(f, x), Told(f, w, x), SetFg(f, x), Go(f, w, s) PROVE Goal
  <2>1. fg' = [g \in G.graphs |-> IF g = f THEN x ELSE fg[g]]
    BY <1>1, <1>5 DEF SetFg, GraphsTyped
  <2>2. fg'[f] = x
    BY <2>1
  <2>3. pc'[f] = w
    BY <1>1, <1>2, <1>5 DEF Go, TasksTyped
  <2> QED BY <1>5, <2>1, <2>2, <2>3
<1>6. ASSUME fg' = fg, NEW w, NEW s, Go(f, w, s), Told(f, w, fg[f]) PROVE Goal
  <2>1. pc'[f] = w
    BY <1>1, <1>2, <1>6 DEF Go, TasksTyped
  <2>2. fg' = [g \in G.graphs |-> fg'[g]]
    BY <1>1, <1>6 DEF GraphsTyped
  <2> QED BY <1>3, <1>6, <2>1, <2>2
<1> SUFFICES Goal
  OBVIOUS
<1> HIDE DEF Goal
<1>11. CASE FilterAsk(f)
  <2>1. PICK w : w = IF fg[f].next = G.nb[f] THEN "poll" ELSE "recv"
    OBVIOUS
  <2>2. fg' = fg /\ pc[f] = "run" /\ Go(f, w, <<>>) /\ w \in {"poll", "recv"}
    BY <1>11, <2>1 DEF FilterAsk, Idle
  <2>3. Told(f, w, fg[f])
    BY <1>3, <2>2 DEF Told
  <2> QED BY <1>6, <2>2, <2>3
<1>12. CASE FilterFrame(f)
  <2>1. PICK item, x, ready, x2, w :
          /\ Take(f, item)
          /\ x = IF item.n = Special THEN [fg[f] EXCEPT !.eof = @ \cup {item.in}]
                 ELSE [fg[f] EXCEPT !.have[item.in] = @ + 1]
          /\ ready = (x.configured \/ (item.n = Special /\ Unknown(f, x) = {}))
          /\ x2 = (IF ready THEN Pushed(f, [x EXCEPT !.configured = TRUE]) ELSE x)
          /\ w = (IF ready \/ Unknown(f, x) # {} THEN "request" ELSE "configure")
          /\ SetFg(f, x2) /\ Go(f, w, <<>>)
    BY <1>12 DEF FilterFrame
  <2>2. HasItem(f) /\ item = q[f][FirstWanted(f)]
    BY <2>1 DEF Take
  <2>3. item \in Items(f)
    BY <1>1, <1>2, <2>2, Takes
  <2>4. item.in \in FgInputs(G, f)
    BY <2>3 DEF Items, Ports
  <2>5. FgTyped(f, x)
    <3>1. CASE item.n = Special
      <4>1. x = [fg[f] EXCEPT !.eof = fg[f].eof \cup {item.in}]
        BY <2>1, <3>1
      <4>2. x = [y \in FgFields |-> x[y]] /\ x.have = fg[f].have /\ x.took = fg[f].took
            /\ x.next = fg[f].next /\ x.made = fg[f].made
        BY <1>4, <4>1 DEF FgFields
      <4> QED BY <1>3, <4>2 DEF FgTyped
    <3>2. CASE item.n # Special
      <4>1. PICK h : h = [fg[f].have EXCEPT ![item.in] = @ + 1]
        OBVIOUS
      <4>2. x = [fg[f] EXCEPT !.have = h]
        BY <2>1, <3>2, <4>1
      <4>3. h \in [FgInputs(G, f) -> Nat]
        BY <1>3, <2>4, <4>1 DEF FgTyped
      <4>4. x = [y \in FgFields |-> x[y]] /\ x.have = h /\ x.took = fg[f].took
            /\ x.next = fg[f].next /\ x.made = fg[f].made
        BY <1>4, <4>2 DEF FgFields
      <4> QED BY <1>3, <4>3, <4>4 DEF FgTyped
    <3> QED BY <3>1, <3>2
  <2>6. x = [y \in FgFields |-> x[y]]
    BY <2>5 DEF FgTyped
  <2>7. CASE ready
    <3>1. PICK x3 : x3 = [x EXCEPT !.configured = TRUE]
      OBVIOUS
    <3>2. x3 = [y \in FgFields |-> x3[y]] /\ x3.configured = TRUE /\ x3.have = x.have /\ x3.took = x.took
          /\ x3.next = x.next /\ x3.made = x.made
      BY <2>6, <3>1 DEF FgFields
    <3>3. FgTyped(f, x3)
      BY <2>5, <3>2 DEF FgTyped
    <3>4. x2 = Pushed(f, x3)
      BY <2>1, <2>7, <3>1
    <3>5. FgTyped(f, x2) /\ x2.configured = TRUE
      BY <1>1, <3>2, <3>3, <3>4, PushedFacts
    <3>6. Told(f, w, x2)
      BY <3>5 DEF Told
    <3> QED BY <1>5, <2>1, <3>5, <3>6
  <2>8. CASE ~ready
    <3>1. x2 = x /\ Told(f, w, x)
      BY <2>1, <2>8 DEF Told
    <3> QED BY <1>5, <2>1, <2>5, <3>1
  <2> QED BY <2>7, <2>8
<1>13. CASE FilterConfigure(f)
  <2>1. PICK x3 : x3 = [fg[f] EXCEPT !.configured = TRUE]
    OBVIOUS
  <2>2. x3 = [y \in FgFields |-> x3[y]] /\ x3.configured = TRUE /\ x3.have = fg[f].have /\ x3.took = fg[f].took
        /\ x3.next = fg[f].next /\ x3.made = fg[f].made
    BY <1>4, <2>1 DEF FgFields
  <2>3. FgTyped(f, x3)
    BY <1>3, <2>2 DEF FgTyped
  <2>4. SetFg(f, Pushed(f, x3)) /\ Go(f, "request", <<>>)
    BY <1>13, <2>1 DEF FilterConfigure
  <2>5. FgTyped(f, Pushed(f, x3)) /\ Pushed(f, x3).configured = TRUE
    BY <1>1, <2>2, <2>3, PushedFacts
  <2>6. Told(f, "request", Pushed(f, x3))
    BY <2>5 DEF Told
  <2> QED BY <1>5, <2>4, <2>5, <2>6
<1>14. CASE FilterEof(f) \/ FilterIdle(f) \/ FilterWake(f) \/ FilterFinish(f)
  <2>1. PICK w, s : /\ fg' = fg /\ pc[f] \in {"recv", "poll", "wait", "finish"} /\ Go(f, w, s)
                    /\ w \in {"recv", "wait", "finish", "request", "finished"}
                    /\ pc[f] = "finish" => w = "finished"
    <3>1. CASE FilterEof(f)
      BY <3>1 DEF FilterEof
    <3>2. CASE FilterIdle(f) \/ FilterWake(f) \/ FilterFinish(f)
      BY <3>2 DEF FilterIdle, FilterWake, FilterFinish, Idle
    <3> QED BY <1>14, <3>1, <3>2
  <2>2. Told(f, w, fg[f])
    BY <1>3, <2>1 DEF Told
  <2> QED BY <1>6, <2>1, <2>2
<1>17. CASE FilterRequest(f)
  <2>1. PICK x : x = fg[f]
    OBVIOUS
  <2>2. /\ FgTyped(f, x) /\ x = [y \in FgFields |-> x[y]] /\ pc[f] = "request"
        /\ x.configured \/ ~(Unknown(f, x) = {})
    BY <1>3, <1>4, <1>17, <2>1 DEF FilterRequest, Idle, Told
  <2>3. PICK w : w = IF ToClose(f, x) = {} THEN "run" ELSE "close"
    OBVIOUS
  <2>4. ASSUME NEW n \in 0 .. G.nb[f], SetFg(f, [x EXCEPT !.next = n]), Go(f, w, <<>>) PROVE Goal
    <3>1. PICK y : y = [x EXCEPT !.next = n]
      OBVIOUS
    <3>2. /\ y = [k \in FgFields |-> y[k]] /\ y.have = x.have /\ y.took = x.took /\ y.next = n
          /\ y.made = x.made /\ y.configured = x.configured /\ y.eof = x.eof
      BY <2>2, <3>1 DEF FgFields
    <3>3. FgTyped(f, y) /\ Told(f, w, y)
      BY <2>2, <2>4, <3>2 DEF FgTyped, Told, Unknown
    <3> QED BY <1>5, <2>4, <3>1, <3>3
  <2>5. CASE ~x.configured /\ SetFg(f, [x EXCEPT !.next = Minimum(Unknown(f, x))]) /\ Go(f, w, <<>>)
    <3>1. Unknown(f, x) \subseteq FgInputs(G, f) /\ FgInputs(G, f) \subseteq Nat
      BY <1>2 DEF Unknown, FgInputs
    <3>2. Minimum(Unknown(f, x)) \in Unknown(f, x)
      BY <2>2, <2>5, <3>1, SmallestOf
    <3>3. Minimum(Unknown(f, x)) \in 0 .. G.nb[f]
      BY <1>2, <3>1, <3>2 DEF FgInputs
    <3> QED BY <2>4, <2>5, <3>3
  <2>6. CASE fg' = fg /\ Go(f, "finish", <<>>)
    <3>1. Told(f, "finish", fg[f])
      BY DEF Told
    <3> QED BY <1>6, <2>6, <3>1
  <2>7. CASE /\ x.configured /\ SetFg(f, [x EXCEPT !.ready = @ - 1, !.made = @ + 1])
             /\ Stay(f, SendAll(G.out[f], x.made + 1))
    <3>1. PICK y : y = [x EXCEPT !.ready = @ - 1, !.made = @ + 1]
      OBVIOUS
    <3>2. /\ y = [k \in FgFields |-> y[k]] /\ y.have = x.have /\ y.took = x.took /\ y.next = x.next
          /\ y.made = x.made + 1 /\ y.configured = x.configured
      BY <2>2, <3>1 DEF FgFields
    <3>3. FgTyped(f, y) /\ Told(f, pc[f], y)
      BY <2>2, <2>7, <3>2 DEF FgTyped, Told
    <3> QED BY <1>5, <2>7, <3>1, <3>3 DEF Stay
  <2>8. CASE x.configured /\ SetFg(f, [x EXCEPT !.extra = @ - 1, !.ready = 1, !.next = G.nb[f]]) /\ Go(f, w, <<>>)
    <3>1. PICK y : y = [x EXCEPT !.extra = @ - 1, !.ready = 1, !.next = G.nb[f]]
      OBVIOUS
    <3>2. /\ y = [k \in FgFields |-> y[k]] /\ y.have = x.have /\ y.took = x.took /\ y.next = G.nb[f]
          /\ y.made = x.made /\ y.configured = x.configured
      BY <2>2, <3>1 DEF FgFields
    <3>3. FgTyped(f, y) /\ Told(f, w, y)
      BY <1>2, <2>2, <2>8, <3>2 DEF FgTyped, Told
    <3> QED BY <1>5, <2>8, <3>1, <3>3
  <2>9. CASE /\ x.configured /\ ~GraphOver(f, x)
             /\ \E i \in Preferred(f, x) : SetFg(f, [x EXCEPT !.next = i]) /\ Go(f, w, <<>>)
    <3>1. PICK i \in Preferred(f, x) : SetFg(f, [x EXCEPT !.next = i]) /\ Go(f, w, <<>>)
      BY <2>9
    <3> DEFINE open == {j \in FgInputs(G, f) : ~InputOver(f, x, j)}
    <3>2. open \subseteq FgInputs(G, f) /\ FgInputs(G, f) \subseteq Nat
      BY <1>2 DEF FgInputs
    <3>3. CASE G.kind[f] = "sync"
      <4>1. i \in FgInputs(G, f)
        BY <3>1, <3>3 DEF Preferred
      <4>2. i \in 0 .. G.nb[f]
        BY <1>2, <4>1 DEF FgInputs
      <4> QED BY <2>4, <3>1, <4>2
    <3>4. CASE G.kind[f] # "sync"
      <4>1. i = Minimum(open)
        BY <3>1, <3>4 DEF Preferred
      <4>2. ~(open = {})
        BY <2>9, <3>4 DEF GraphOver
      <4> HIDE DEF open
      <4>3. i \in open
        BY <3>2, <4>1, <4>2, SmallestOf
      <4>4. i \in 0 .. G.nb[f]
        BY <1>2, <3>2, <4>3 DEF FgInputs
      <4> QED BY <2>4, <3>1, <4>4
    <3> QED BY <3>3, <3>4
  <2> QED BY <1>17, <2>1, <2>3, <2>5, <2>6, <2>7, <2>8, <2>9 DEF FilterRequest
<1>18. CASE FilterClose(f)
  <2>1. PICK x, x2, w :
          /\ x = fg[f]
          /\ x2 = [x EXCEPT !.closed = @ \cup {Minimum(ToClose(f, x))}]
          /\ w = IF ToClose(f, x2) = {} THEN "run" ELSE "close"
    OBVIOUS
  <2>2. pc[f] = "close" /\ SetFg(f, x2) /\ Go(f, w, <<>>)
    BY <1>18, <2>1 DEF FilterClose, Idle
  <2>3. /\ x2 = [k \in FgFields |-> x2[k]] /\ x2.have = x.have /\ x2.took = x.took /\ x2.next = x.next
        /\ x2.made = x.made /\ x2.configured = x.configured /\ x2.eof = x.eof
    BY <1>4, <2>1 DEF FgFields
  <2>4. FgTyped(f, x2) /\ Told(f, w, x2)
    BY <1>3, <2>1, <2>2, <2>3 DEF FgTyped, Told, Unknown
  <2> QED BY <1>5, <2>2, <2>4
<1> QED BY <1>11, <1>12, <1>13, <1>14, <1>17, <1>18 DEF FilterStep
\* No step harms the record of a filtergraph.
LEMMA GraphsNext ==
  ASSUME Typed, [Next]_vars
  PROVE  GraphsTyped'
<1>1. TasksTyped /\ GraphsTyped /\ G \in Graphs /\ G' = G
  BY GraphStays DEF Typed, TasksTyped
<1>2. \A f \in G.graphs : f \in G.tasks /\ f \notin G.muxers
  BY <1>1, GraphFacts, OneKind
<1>4. ASSUME fg' = [f \in G.graphs |-> fg'[f]],
             \A f \in G.graphs : FgTyped(f, fg'[f]) /\ Told(f, pc'[f], fg'[f])
      PROVE  GraphsTyped'
  BY <1>1, <1>4 DEF GraphsTyped, FgTyped, Told, FgInputs, Unknown
<1>5. ASSUME fg' = fg, \A f \in G.graphs : pc'[f] = pc[f] \/ pc'[f] \in {"finish", "fail", "done", "broken", "exited"}
      PROVE  GraphsTyped'
  <2>1. \A f \in G.graphs : Told(f, pc'[f], fg'[f])
    BY <1>1, <1>5 DEF GraphsTyped, Told
  <2> QED BY <1>1, <1>4, <1>5, <2>1 DEF GraphsTyped
<1>6. ASSUME NEW t \in G.tasks, TaskStep(t) \/ TaskFails(t) PROVE GraphsTyped'
  <2>1. \A f \in G.graphs : f # t => pc'[f] = pc[f]
    BY <1>2, <1>6, OtherPlaces
  <2>2. CASE SendStep(t)
    <3>1. \A f \in G.graphs : pc'[f] = pc[f] \/ pc'[f] \in {"finish", "fail"}
      BY <1>2, <2>2, SendPlaces DEF Places
    <3>2. fg' = fg
      BY <2>2 DEF SendStep
    <3> QED BY <1>5, <3>1, <3>2
  <2>3. CASE t \in G.graphs /\ FilterStep(t)
    <3>1. /\ fg' = [g \in G.graphs |-> fg'[g]] /\ \A g \in G.graphs : g # t => fg'[g] = fg[g]
          /\ FgTyped(t, fg'[t]) /\ Told(t, pc'[t], fg'[t])
      BY <2>3, FilterGraphs
    <3>2. \A g \in G.graphs : FgTyped(g, fg'[g]) /\ Told(g, pc'[g], fg'[g])
      BY <1>1, <2>1, <3>1 DEF GraphsTyped
    <3> QED BY <1>4, <3>1, <3>2
  <2>4. CASE \/ t \in G.demuxers /\ DemuxStep(t)
             \/ t \in G.decoders /\ DecStep(t)
             \/ t \in G.encoders /\ EncStep(t)
             \/ t \in G.muxers /\ MuxStep(t)
    <3>1. fg' = fg
      BY <2>4 DEF DemuxStep, DecStep, EncStep, MuxStep
    <3>2. t \notin G.graphs
      BY <1>1, <2>4, GraphFacts, OneKind
    <3> QED BY <1>5, <2>1, <3>1, <3>2
  <2>5. CASE Cleanup(t)
    <3>1. pc' = [pc EXCEPT ![t] = Cleaned(t)] /\ fg' = fg
      BY <2>5 DEF Cleanup, CleanupTask, CleanupMux, Go
    <3>2. Cleaned(t) \in {"broken", "done"}
      BY DEF Cleaned
    <3>3. \A f \in G.graphs : pc'[f] = pc[f] \/ pc'[f] \in {"done", "broken"}
      BY <1>1, <2>1, <3>1, <3>2 DEF TasksTyped
    <3> QED BY <1>5, <3>1, <3>3
  <2>6. CASE Exit(t) \/ TaskFails(t)
    <3>1. fg' = fg /\ (pc' = [pc EXCEPT ![t] = "exited"] \/ pc' = [pc EXCEPT ![t] = "fail"])
      BY <2>6 DEF Exit, TaskFails, Go
    <3>2. \A f \in G.graphs : pc'[f] = pc[f] \/ pc'[f] \in {"fail", "exited"}
      BY <1>1, <2>1, <3>1 DEF TasksTyped
    <3> QED BY <1>5, <3>1, <3>2
  <2> QED BY <1>6, <2>2, <2>3, <2>4, <2>5, <2>6 DEF TaskStep
<1>7. CASE MainStep \/ Quit \/ Stopped \/ UNCHANGED vars
  <2>1. fg' = fg /\ pc' = pc
    BY <1>7 DEF MainStep, Start, Finish, StopSources, Join, Quit, Stopped, rest, vars
  <2> QED BY <1>5, <2>1
<1> QED BY <1>6, <1>7 DEF Next

-----------------------------------------------------------------------------
(* All of them                                                             *)

\* The types hold when nothing has started.
LEMMA TypedInit == Init => Typed
<1> SUFFICES ASSUME Init PROVE Typed
  OBVIOUS
<1>1. G \in Graphs
  BY DEF Init
<1>2. G.nb \in [G.graphs -> Nat] /\ \A f \in G.graphs : f \in G.tasks /\ f \notin G.muxers
  BY <1>1, GraphFacts, OneKind
<1>3. TasksTyped
  BY DEF Init, TasksTyped
<1>4. QueuesTyped
  <2>1. q = [n \in G.owners |-> <<>>] /\ fin = [n \in G.owners |-> [i \in G.inputs[n] |-> {}]]
    BY DEF Init
  <2>2. \A n : <<>> \in Seq(Items(n))
    BY EmptySeq
  <2>3. Len(<<>>) <= QueueSize
    BY PipelineAssumption
  <2>4. \A n \in G.owners : q[n] = <<>>
    BY <2>1
  <2>5. \A n \in G.owners : q[n] \in Seq(Items(n)) /\ Len(q[n]) <= QueueSize
    BY <2>2, <2>3, <2>4
  <2> QED BY <2>1, <2>5 DEF QueuesTyped
<1>5. SchedTyped(sched)
  <2>1. PICK s : s = sched /\ s = [last |-> [ms \in G.muxed |-> NoPts], done |-> {},
                                  best |-> [f \in G.graphs |-> 0], rfin |-> {}, sfin |-> {},
                                  exited |-> {}]
    BY DEF Init
  <2>2. s = [y \in SchedFields |-> s[y]]
    BY <2>1 DEF SchedFields
  <2>3. /\ s.last = [ms \in G.muxed |-> NoPts] /\ s.done = {} /\ s.best = [f \in G.graphs |-> 0]
    BY <2>1
  <2>4. s.last \in [G.muxed -> Nat \cup {NoPts}]
    BY <2>3
  <2>5. \A f \in G.graphs : s.best[f] \in 0 .. G.nb[f]
    BY <1>2, <2>3
  <2>6. s.best = [f \in G.graphs |-> s.best[f]]
    BY <2>3
  <2> QED BY <2>1, <2>2, <2>3, <2>4, <2>5, <2>6 DEF SchedTyped
<1>6. WaitersTyped
  BY <1>5 DEF Init, WaitersTyped
<1>7. StartTyped
  BY DEF Init, StartTyped, NewStart, Copied, Startable
<1>8. SourcesTyped
  <2>1. \A d \in G.demuxers : Len(G.file[d]) \in Nat /\ G.loop[d] \in Nat
    BY <1>1, GraphsAssumption DEF Furnished
  <2>2. \A d \in G.decoders : d \in G.tasks
    BY <1>1, GraphFacts
  <2>3. \A d \in G.decoders : pc[d] # "drain"
    BY <2>2 DEF Init
  <2>4. dec \in [G.decoders -> [overflow : Seq(Int), expect : BOOLEAN, endts : {"none", "sent", "closed"}]]
    BY DEF Init
  <2>5. PositionsTyped
    BY <2>1 DEF Init, PositionsTyped
  <2> QED BY <2>3, <2>4, <2>5 DEF SourcesTyped, PositionsTyped
<1>9. GraphsTyped
  <2>1. ASSUME NEW f \in G.graphs PROVE FgTyped(f, fg[f]) /\ Told(f, pc[f], fg[f])
    <3>1. PICK x : x = fg[f] /\ x = NewFg(G, f)
      BY DEF Init
    <3>2. x = [y \in FgFields |-> x[y]]
      BY <3>1 DEF NewFg, FgFields
    <3>3. /\ x.have = [i \in FgInputs(G, f) |-> 0] /\ x.took = [i \in FgInputs(G, f) |-> 0]
          /\ x.next = 0 /\ x.made = 0 /\ x.eof = {} /\ x.configured = (G.nb[f] = 0)
      BY <3>1 DEF NewFg
    <3>4. FgTyped(f, x)
      BY <1>2, <3>2, <3>3 DEF FgTyped
    <3>5. CASE G.nb[f] = 0
      BY <3>1, <3>3, <3>4, <3>5 DEF Told
    <3>6. CASE G.nb[f] # 0
      <4>1. 0 \in FgInputs(G, f)
        BY <1>2, <3>6 DEF FgInputs
      <4>2. 0 \in Unknown(f, x)
        BY <3>3, <4>1 DEF Unknown
      <4> QED BY <3>1, <3>4, <4>2 DEF Told
    <3> QED BY <3>5, <3>6
  <2>2. fg = [f \in G.graphs |-> fg[f]]
    BY DEF Init
  <2> QED BY <2>1, <2>2 DEF GraphsTyped
<1>10. SyncTyped
  <2>1. \A i \in SQ!Streams : G.sync.frame_samples[i] = 0
    BY <1>1, SyncFacts, GraphsAssumption DEF Furnished, SQ!Streams
  <2>2. PICK st : st = [i \in SQ!Streams |-> SQ!NewStream(i)]
    OBVIOUS
  <2>3. ASSUME NEW i \in SQ!Streams PROVE StreamTyped(st[i])
    <3>1. st[i] = SQ!NewStream(i)
      BY <2>2
    <3>2. PICK s : s = SQ!NewStream(i)
      OBVIOUS
    <3>3. s = [y \in StreamFields |-> s[y]] /\ s.fifo = <<>> /\ s.samples_queued = 0 /\ s.frame_samples = 0
      BY <2>1, <3>2 DEF SQ!NewStream, SQ!FrameSamples, StreamFields
    <3> QED BY <3>1, <3>2, <3>3, EmptySeq DEF StreamTyped
  <2>4. StreamsTyped(st)
    BY <2>2, <2>3 DEF StreamsTyped
  <2>5. PICK p : p = sq.queue /\ sq = [locked |-> FALSE, queue |-> p]
                 /\ p = [finished |-> FALSE, head_stream |-> SQ!None, head_finished_stream |-> SQ!None, st |-> st]
    BY <2>2 DEF Init, NewSync
  <2>6. p = [y \in QueueFields |-> p[y]] /\ p.st = st
    BY <2>5 DEF QueueFields
  <2>7. SyncQueueTyped(p)
    BY <2>4, <2>6 DEF SyncQueueTyped
  <2> QED BY <2>5, <2>7 DEF SyncTyped
<1>11. MainTyped
  BY DEF Init, MainTyped
<1> QED BY <1>3, <1>4, <1>6, <1>7, <1>8, <1>9, <1>10, <1>11 DEF Typed

\* Every step keeps them.
LEMMA TypedNext == Typed /\ [Next]_vars => Typed'
<1> SUFFICES ASSUME Typed, [Next]_vars PROVE Typed'
  OBVIOUS
<1>1. TasksTyped' /\ QueuesTyped' /\ SyncTyped'
  BY TasksStep, QueuesNext, SyncStep
<1>2. WaitersTyped' /\ MainTyped' /\ StartTyped' /\ SourcesTyped' /\ GraphsTyped'
  BY WaitersNext, StartNext, SourcesNext, GraphsNext
<1> QED BY <1>1, <1>2 DEF Typed

\* They say more than the type invariant does.
LEMMA TypedIsTypeOK == Typed => TypeOK
<1> SUFFICES ASSUME Typed PROVE TypeOK
  OBVIOUS
<1>1. WaitersTyped /\ QueuesTyped /\ MainTyped
  BY DEF Typed
<1> QED BY <1>1 DEF TypeOK, WaitersTyped, SchedTyped, QueuesTyped, MainTyped

\* The type invariant of the pipeline: in every graph, whichever tasks fail and
\* whenever the user quits, all state stays of its type; what is sent fits its
\* destination, and no queue holds more than tq_alloc() was asked for.
THEOREM WellTyped == Spec => []TypeOK
<1>1. Spec => []Typed
  BY TypedInit, TypedNext, PTL DEF Spec
<1> QED BY <1>1, TypedIsTypeOK, PTL
=============================================================================

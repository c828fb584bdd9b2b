---------------------- MODULE FrameThreadEncoderProofs ----------------------
(***************************************************************************)
(* Proofs about FrameThreadEncoder for every number of threads and frames: *)
(* the ring of tasks never laps itself, and it implements OrderedJobs.     *)
(***************************************************************************)
EXTENDS FrameThreadEncoder, FiniteSetTheorems, SequenceTheorems, TLAPS

\* A task that is finished was put in, taken, and its result is not yet taken out.
FinishedTaken ==
  \A i \in Tasks : tasks[i].finished => Age(next_task_index) < Age(i) /\ Age(i) <= Outstanding

Creation ==
  pc = "init" => created < ThreadCount /\ task_index = finished_task_index

Ring == TasksOwned /\ FinishedTaken /\ Creation
-----------------------------------------------------------------------------
(* The indices of the ring.                                                 *)

LEMMA MaxTasksIs == MaxTasks \in Nat /\ MaxTasks = ThreadCount + 2 /\ MaxTasks > 3
                    /\ ThreadCount \in Nat /\ MaxFrames \in Nat
BY EncoderAssumption DEF MaxTasks

LEMMA Modulo ==
  ASSUME NEW a \in Int, -MaxTasks <= a, a < MaxTasks
  PROVE  a % MaxTasks = IF a >= 0 THEN a ELSE a + MaxTasks
BY MaxTasksIs

LEMMA AfterIs ==
  ASSUME NEW i \in Tasks
  PROVE  After(i) \in Tasks /\ After(i) = IF i = MaxTasks - 1 THEN 0 ELSE i + 1
<1>1. CASE i = MaxTasks - 1
  <2>1. (i + 1) % MaxTasks = 0
    BY <1>1, MaxTasksIs
  <2> QED BY <1>1, <2>1, MaxTasksIs DEF After, Tasks
<1>2. CASE i # MaxTasks - 1
  <2>1. (i + 1) % MaxTasks = i + 1
    BY <1>2, Modulo, MaxTasksIs DEF Tasks
  <2> QED BY <1>2, <2>1, MaxTasksIs DEF After, Tasks
<1> QED BY <1>1, <1>2

\* The distance from i to j around the ring.
Distance(i, j) == IF j >= i THEN j - i ELSE j - i + MaxTasks

LEMMA DistanceIs ==
  ASSUME NEW i \in Tasks, NEW j \in Tasks
  PROVE  /\ (j - i) % MaxTasks = Distance(i, j)
         /\ Distance(i, j) \in 0 .. MaxTasks - 1
         /\ Distance(i, j) = 0 <=> i = j
<1>1. i \in Int /\ j \in Int /\ -MaxTasks <= j - i /\ j - i < MaxTasks
      /\ 0 <= i /\ i < MaxTasks /\ 0 <= j /\ j < MaxTasks
  BY MaxTasksIs DEF Tasks
<1>2. (j - i) % MaxTasks = IF j - i >= 0 THEN j - i ELSE j - i + MaxTasks
  BY <1>1, Modulo
<1> QED BY <1>1, <1>2, MaxTasksIs DEF Distance

LEMMA DistanceMoves ==
  ASSUME NEW i \in Tasks, NEW j \in Tasks
  PROVE  /\ Distance(i, After(j)) = IF Distance(i, j) = MaxTasks - 1 THEN 0
                                    ELSE Distance(i, j) + 1
         /\ i # j => Distance(After(i), j) = Distance(i, j) - 1
BY AfterIs, MaxTasksIs DEF Tasks, Distance

LEMMA DistanceInjective ==
  ASSUME NEW i \in Tasks, NEW k \in Tasks, NEW j \in Tasks, Distance(i, j) = Distance(k, j)
  PROVE  i = k
BY MaxTasksIs DEF Tasks, Distance

LEMMA AgeIs ==
  ASSUME task_index \in Tasks, finished_task_index \in Tasks
  PROVE  /\ \A i \in Tasks : Age(i) = Distance(i, task_index)
         /\ Outstanding = Distance(finished_task_index, task_index)
BY DistanceIs DEF Age, Outstanding

LEMMA AgeIsNext ==
  ASSUME task_index' \in Tasks, finished_task_index' \in Tasks
  PROVE  /\ \A i \in Tasks : Age(i)' = Distance(i, task_index')
         /\ Outstanding' = Distance(finished_task_index', task_index')
BY DistanceIs DEF Age, Outstanding

-----------------------------------------------------------------------------
(* Types                                                                    *)

WorkerStates == {"none", "top", "waiting", "woken", "encode", "exited"}
WorkerType   == [pc : WorkerStates, task : Tasks]
TaskType     == [id : 0 .. MaxFrames, finished : BOOLEAN, got_packet : BOOLEAN,
                 items : {<<>>, <<"packet">>, <<"error">>}]

LEMMA TypeInit == Init => TypeOK
<1> SUFFICES ASSUME Init PROVE TypeOK
  OBVIOUS
<1>1. 0 \in Tasks /\ 0 \in 0 .. ThreadCount /\ 0 \in 0 .. MaxFrames
  BY MaxTasksIs DEF Tasks
<1>2. NoTask \in TaskType
  BY <1>1 DEF NoTask, TaskType
<1>3. tasks \in [Tasks -> TaskType]
  BY <1>2 DEF Init
<1>4. worker \in [Workers -> WorkerType]
  BY <1>1 DEF Init, WorkerType, WorkerStates
<1> QED BY <1>1, <1>3, <1>4 DEF Init, TypeOK, TaskType, WorkerType, WorkerStates

LEMMA SignalType ==
  ASSUME worker \in [Workers -> WorkerType], Signal
  PROVE  /\ worker' \in [Workers -> WorkerType]
         /\ \A w \in Workers : /\ worker'[w].pc = "encode" <=> worker[w].pc = "encode"
                               /\ worker'[w].task = worker[w].task
<1>1. CASE WorkersIn("waiting") = {}
  BY <1>1 DEF Signal
<1>2. CASE WorkersIn("waiting") # {}
  <2>1. PICK w \in WorkersIn("waiting") : worker' = [worker EXCEPT ![w].pc = "woken"]
    BY <1>2 DEF Signal
  <2> QED BY <2>1 DEF WorkersIn, WorkerType, WorkerStates
<1> QED BY <1>1, <1>2

LEMMA SetPcType ==
  ASSUME worker \in [Workers -> WorkerType], worker' = SetPc("woken")
  PROVE  /\ worker' \in [Workers -> WorkerType]
         /\ \A w \in Workers : /\ worker'[w].pc = "encode" <=> worker[w].pc = "encode"
                               /\ worker'[w].task = worker[w].task
BY DEF SetPc, WorkerType, WorkerStates

\* A worker goes on.
LEMMA WorkerMoves ==
  ASSUME worker \in [Workers -> WorkerType], NEW w \in Workers, NEW p \in WorkerStates,
         worker' = [worker EXCEPT ![w].pc = p]
  PROVE  /\ worker' \in [Workers -> WorkerType]
         /\ worker'[w].pc = p /\ worker'[w].task = worker[w].task
         /\ \A v \in Workers \ {w} : worker'[v] = worker[v]
BY DEF WorkerType

LEMMA TypeStep ==
  ASSUME Ring, [Next]_evars
  PROVE  TypeOK'
<1>0. /\ TypeOK /\ tasks \in [Tasks -> TaskType] /\ worker \in [Workers -> WorkerType]
      /\ ThreadCount \in Nat /\ MaxFrames \in Nat /\ NoTask \in TaskType
  BY MaxTasksIs DEF Ring, TasksOwned, TypeOK, TaskType, WorkerType, WorkerStates, NoTask
<1> USE DEF TypeOK, ends, indices, past, caller
<1>1. ASSUME UNCHANGED <<indices, tasks, past>>, worker' \in [Workers -> WorkerType],
             created' \in 0 .. ThreadCount, draining' \in BOOLEAN, draining_done' \in BOOLEAN,
             exit' \in BOOLEAN, pc' \in {"init", "user", "frame", "drain", "free", "join", "done"}
      PROVE  TypeOK'
  BY <1>0, <1>1 DEF WorkerType, WorkerStates
<1>2. CASE CreateWorker
  <2>1. created + 1 \in Workers
    BY <1>0, <1>2 DEF CreateWorker, Ring, Creation, Workers
  <2>2. "top" \in WorkerStates /\ worker' = [worker EXCEPT ![created + 1].pc = "top"]
    BY <1>2 DEF CreateWorker, WorkerStates
  <2>3. worker' \in [Workers -> WorkerType]
    BY <1>0, <2>1, <2>2, WorkerMoves
  <2>4. created' \in 0 .. ThreadCount
    BY <1>0, <1>2, <2>1 DEF CreateWorker, Workers
  <2> QED BY <1>0, <1>1, <1>2, <2>3, <2>4 DEF CreateWorker
<1>3. CASE CreateFails \/ Drain \/ NoResult \/ Close \/ Join
  BY <1>0, <1>1, <1>3 DEF CreateFails, Drain, NoResult, Close, Join
<1>4. CASE Free
  BY <1>0, <1>1, <1>4, SetPcType DEF Free
<1>5. CASE PutFrame
  <2>1. task_index' \in Tasks /\ last' \in 0 .. MaxFrames /\ last + 1 \in 0 .. MaxFrames
    BY <1>0, <1>5, AfterIs DEF PutFrame
  <2>2. tasks' \in [Tasks -> TaskType]
    BY <1>0, <1>5, <2>1 DEF PutFrame, TaskType
  <2>3. worker' \in [Workers -> WorkerType]
    BY <1>0, <1>5, SignalType DEF PutFrame
  <2> QED BY <1>0, <1>5, <2>1, <2>2, <2>3 DEF PutFrame, TaskType, WorkerType, WorkerStates
<1>6. CASE Result
  <2>1. finished_task_index' \in Tasks
    BY <1>0, <1>6, AfterIs DEF Result
  <2>2. Oldest \in TaskType
    BY <1>0 DEF Oldest
  <2>3. tasks' \in [Tasks -> TaskType]
    BY <1>0, <1>6 DEF Result, NoTask, TaskType
  <2>4. given' \in [id : 0 .. MaxFrames, item : {"none", "packet", "error"}]
    BY <1>0, <1>6, <2>2 DEF Result, TaskType
  <2>5. draining_done' \in BOOLEAN
    BY <1>6 DEF Result
  <2> QED BY <1>0, <1>6, <2>1, <2>3, <2>4, <2>5 DEF Result, TaskType
<1>7. ASSUME NEW w \in Workers, Exit(w) \/ Wait(w) \/ SpuriousWake(w)
      PROVE  TypeOK'
  <2>1. worker' \in [Workers -> WorkerType]
    <3>1. {"exited", "waiting", "woken"} \subseteq WorkerStates
      BY DEF WorkerStates
    <3> QED BY <1>0, <1>7, <3>1, WorkerMoves DEF Exit, Wait, SpuriousWake
  <2> QED BY <1>0, <1>1, <1>7, <2>1 DEF Exit, Wait, SpuriousWake
<1>8. ASSUME NEW w \in Workers, Take(w)
      PROVE  TypeOK'
  <2>1. next_task_index' \in Tasks
    BY <1>0, <1>8, AfterIs DEF Take
  <2>2. worker' \in [Workers -> WorkerType]
    BY <1>0, <1>8 DEF Take, WorkerType, WorkerStates
  <2> QED BY <1>0, <1>8, <2>1, <2>2 DEF Take, WorkerType, WorkerStates
<1>9. ASSUME NEW w \in Workers, Encode(w)
      PROVE  TypeOK'
  <2>1. 0 \in Tasks
    BY MaxTasksIs DEF Tasks
  <2>2. worker' \in [Workers -> WorkerType]
    BY <1>0, <1>9, <2>1 DEF Encode, WorkerType, WorkerStates
  <2>3. worker[w].task \in Tasks
    BY <1>0 DEF WorkerType
  <2>4. PICK got \in BOOLEAN, items \in {<<"packet">>, <<>>, <<"error">>} :
          tasks' = [tasks EXCEPT ![worker[w].task] =
            [id |-> @.id, finished |-> TRUE, got_packet |-> got, items |-> items]]
    BY <1>9 DEF Encode
  <2>5. tasks' \in [Tasks -> TaskType]
    BY <1>0, <2>3, <2>4 DEF TaskType
  <2> QED BY <1>0, <1>9, <2>2, <2>5 DEF Encode, TaskType, WorkerType, WorkerStates
<1>10. CASE UNCHANGED evars
  BY <1>0, <1>1, <1>10 DEF evars
<1> QED BY <1>2, <1>3, <1>4, <1>5, <1>6, <1>7, <1>8, <1>9, <1>10
        DEF Next, Calls, Inside, Worker

-----------------------------------------------------------------------------
(* The ring                                                                 *)

Encoding(w) == worker[w].pc = "encode"

\* What TasksOwned says of the tasks, with distances in place of remainders.
Owned ==
  LET d(i) == Distance(i, task_index) IN
  /\ d(finished_task_index) <= ThreadCount + (IF pc = "user" THEN 0 ELSE 1)
  /\ d(next_task_index) <= d(finished_task_index)
  /\ \A i \in Tasks : tasks[i].finished =>
       d(next_task_index) < d(i) /\ d(i) <= d(finished_task_index)
  /\ \A w \in Workers : Encoding(w) =>
       /\ d(next_task_index) < d(worker[w].task)
       /\ d(worker[w].task) <= d(finished_task_index)
       /\ ~tasks[worker[w].task].finished
       /\ \A v \in Workers : Encoding(v) /\ worker[v].task = worker[w].task => v = w

LEMMA OwnedIs == /\ TypeOK => (TasksOwned /\ FinishedTaken <=> Owned)
                 /\ TypeOK' => (TasksOwned' /\ FinishedTaken' <=> Owned')
<1>1. ASSUME TypeOK PROVE TasksOwned /\ FinishedTaken <=> Owned
  <2>1. /\ task_index \in Tasks /\ finished_task_index \in Tasks /\ next_task_index \in Tasks
        /\ \A w \in Workers : worker[w].task \in Tasks
        /\ \A i \in Tasks : Age(i) = Distance(i, task_index) /\ Distance(i, task_index) \in Nat
        /\ Outstanding = Distance(finished_task_index, task_index)
        /\ Distance(task_index, task_index) = 0
    BY <1>1, AgeIs, DistanceIs DEF TypeOK
  <2> QED BY <1>1, <2>1 DEF TasksOwned, FinishedTaken, Owned, WorkersIn, Encoding
<1>2. ASSUME TypeOK' PROVE TasksOwned' /\ FinishedTaken' <=> Owned'
  <2>1. /\ task_index' \in Tasks /\ finished_task_index' \in Tasks /\ next_task_index' \in Tasks
        /\ \A w \in Workers : worker'[w].task \in Tasks
        /\ \A i \in Tasks : Age(i)' = Distance(i, task_index') /\ Distance(i, task_index') \in Nat
        /\ Outstanding' = Distance(finished_task_index', task_index')
        /\ Distance(task_index', task_index') = 0
    BY <1>2, AgeIsNext, DistanceIs DEF TypeOK
  <2> QED BY <1>2, <2>1 DEF TasksOwned, FinishedTaken, Owned, WorkersIn, Encoding
<1> QED BY <1>1, <1>2

\* A step that moves no index and starts no encoding.
LEMMA QuietStep ==
  ASSUME TypeOK, Owned, UNCHANGED <<task_index, next_task_index, finished_task_index, tasks>>,
         pc' = "user" => Distance(finished_task_index, task_index) <= ThreadCount,
         \A w \in Workers : Encoding(w)' => Encoding(w) /\ worker'[w].task = worker[w].task
  PROVE  Owned'
<1>1. Distance(finished_task_index, task_index) \in Nat /\ ThreadCount \in Nat
  BY DistanceIs, MaxTasksIs DEF TypeOK
<1> QED BY <1>1 DEF Owned

LEMMA PutStep ==
  ASSUME TypeOK, TypeOK', Owned, PutFrame
  PROVE  Owned'
<1> DEFINE d(i) == Distance(i, task_index)
           e(i) == Distance(i, task_index')
           W(w) == worker[w].task
<1>0. /\ ThreadCount \in Nat /\ MaxTasks = ThreadCount + 2
      /\ \A w \in Workers : W(w) \in Tasks
      /\ task_index \in Tasks /\ finished_task_index \in Tasks /\ next_task_index \in Tasks
  BY MaxTasksIs DEF TypeOK
<1>1. \A i \in Tasks : d(i) \in 0 .. MaxTasks - 1
                       /\ e(i) = IF d(i) = MaxTasks - 1 THEN 0 ELSE d(i) + 1
  BY <1>0, DistanceIs, DistanceMoves DEF PutFrame
<1>2. /\ UNCHANGED <<next_task_index, finished_task_index>> /\ pc = "user" /\ pc' = "frame"
      /\ \A w \in Workers : (Encoding(w)' <=> Encoding(w)) /\ worker'[w].task = W(w)
  BY SignalType DEF PutFrame, Encoding, TypeOK, WorkerType, WorkerStates
<1>3. \A i \in Tasks : tasks'[i].finished <=> tasks[i].finished
  BY DEF PutFrame, TypeOK
<1>4. /\ d(finished_task_index) <= ThreadCount
      /\ d(next_task_index) <= d(finished_task_index)
  BY <1>0, <1>2 DEF Owned
<1> HIDE DEF d, e, W
<1>5. \A i \in Tasks : d(i) <= d(finished_task_index) => e(i) = d(i) + 1
  BY <1>0, <1>1, <1>4
<1>6. \A i \in Tasks : tasks[i].finished =>
        d(next_task_index) < d(i) /\ d(i) <= d(finished_task_index)
  BY DEF Owned, d
<1>7. \A w \in Workers : Encoding(w) =>
        /\ d(next_task_index) < d(W(w)) /\ d(W(w)) <= d(finished_task_index)
        /\ ~tasks[W(w)].finished
        /\ \A v \in Workers : Encoding(v) /\ W(v) = W(w) => v = w
  BY DEF Owned, d, W
<1>8. e(finished_task_index) <= ThreadCount + 1 /\ e(next_task_index) <= e(finished_task_index)
  BY <1>0, <1>1, <1>4, <1>5
<1>9. ASSUME NEW i \in Tasks, tasks'[i].finished
      PROVE  e(next_task_index) < e(i) /\ e(i) <= e(finished_task_index)
  BY <1>0, <1>1, <1>3, <1>4, <1>5, <1>6, <1>9
<1>10. ASSUME NEW w \in Workers, Encoding(w)'
       PROVE  /\ e(next_task_index) < e(W(w)) /\ e(W(w)) <= e(finished_task_index)
              /\ ~tasks'[W(w)].finished
              /\ \A v \in Workers : Encoding(v)' /\ W(v) = W(w) => v = w
  BY <1>0, <1>1, <1>2, <1>3, <1>4, <1>5, <1>7, <1>10
<1> QED BY <1>2, <1>8, <1>9, <1>10 DEF Owned, e, W

LEMMA ResultStep ==
  ASSUME TypeOK, TypeOK', Owned, Result
  PROVE  Owned'
<1> DEFINE d(i) == Distance(i, task_index)
<1>0. /\ ThreadCount \in Nat
      /\ \A w \in Workers : worker[w].task \in Tasks
      /\ task_index \in Tasks /\ finished_task_index \in Tasks /\ next_task_index \in Tasks
  BY MaxTasksIs DEF TypeOK
<1>1. \A i \in Tasks : d(i) \in Nat
  BY <1>0, DistanceIs
<1>2. /\ UNCHANGED <<task_index, next_task_index, worker>>
      /\ finished_task_index' = After(finished_task_index)
      /\ Oldest.finished /\ Outstanding # 0
  BY DEF Result
<1>3. d(finished_task_index') = d(finished_task_index) - 1
  BY <1>0, <1>2, AgeIs, DistanceIs, DistanceMoves
<1>4. \A i \in Tasks : tasks'[i].finished => tasks[i].finished /\ i # finished_task_index
  BY <1>0 DEF Result, NoTask, TypeOK
<1>5. \A i \in Tasks : i # finished_task_index => d(i) # d(finished_task_index)
  BY <1>0, DistanceInjective
<1> HIDE DEF d
<1>6. /\ d(next_task_index) < d(finished_task_index)
      /\ d(finished_task_index) <= ThreadCount + 1
  BY <1>0, <1>1, <1>2 DEF Owned, Oldest, d
<1>7. ASSUME NEW i \in Tasks, tasks'[i].finished
      PROVE  d(next_task_index) < d(i) /\ d(i) <= d(finished_task_index')
  <2>1. d(next_task_index) < d(i) /\ d(i) <= d(finished_task_index) /\ i # finished_task_index
    BY <1>4, <1>7 DEF Owned, d
  <2> QED BY <1>0, <1>1, <1>3, <1>5, <2>1
<1>8. ASSUME NEW w \in Workers, Encoding(w)
      PROVE  /\ d(next_task_index) < d(worker[w].task)
             /\ d(worker[w].task) <= d(finished_task_index')
             /\ ~tasks'[worker[w].task].finished
             /\ \A v \in Workers : Encoding(v) /\ worker[v].task = worker[w].task => v = w
  <2>1. /\ d(next_task_index) < d(worker[w].task) /\ d(worker[w].task) <= d(finished_task_index)
        /\ ~tasks[worker[w].task].finished
        /\ \A v \in Workers : Encoding(v) /\ worker[v].task = worker[w].task => v = w
    BY <1>8 DEF Owned, d
  <2>2. worker[w].task # finished_task_index
    BY <1>2, <2>1 DEF Oldest
  <2> QED BY <1>0, <1>1, <1>3, <1>4, <1>5, <2>1, <2>2
<1>9. d(finished_task_index') <= ThreadCount /\ d(next_task_index) <= d(finished_task_index')
  BY <1>0, <1>1, <1>3, <1>6
<1> QED BY <1>0, <1>1, <1>2, <1>3, <1>7, <1>8, <1>9 DEF Owned, Encoding, d

LEMMA TakeStep ==
  ASSUME TypeOK, TypeOK', Owned, NEW w \in Workers, Take(w)
  PROVE  Owned'
<1> DEFINE d(i) == Distance(i, task_index)
<1>0. /\ ThreadCount \in Nat
      /\ \A v \in Workers : worker[v].task \in Tasks
      /\ task_index \in Tasks /\ finished_task_index \in Tasks /\ next_task_index \in Tasks
  BY MaxTasksIs DEF TypeOK
<1>1. \A i \in Tasks : d(i) \in Nat
  BY <1>0, DistanceIs
<1>2. /\ UNCHANGED <<task_index, finished_task_index, tasks, pc>>
      /\ next_task_index' = After(next_task_index) /\ next_task_index # task_index
  BY DEF Take, caller
<1>3. d(next_task_index') = d(next_task_index) - 1
  BY <1>0, <1>2, DistanceMoves
<1>4. /\ ~Encoding(w) /\ worker'[w].task = next_task_index
      /\ \A v \in Workers \ {w} : worker'[v] = worker[v]
  BY DEF Take, Awake, Encoding, TypeOK
<1> HIDE DEF d
<1>5. ~tasks[next_task_index].finished
  BY <1>0, <1>1 DEF Owned, d
<1>6. ASSUME NEW v \in Workers, Encoding(v)
      PROVE  d(next_task_index) < d(worker[v].task) /\ worker[v].task # next_task_index
  BY <1>0, <1>1, <1>6 DEF Owned, d
<1>7. ASSUME NEW v \in Workers, Encoding(v)'
      PROVE  /\ d(next_task_index') < d(worker'[v].task)
             /\ d(worker'[v].task) <= d(finished_task_index)
             /\ ~tasks[worker'[v].task].finished
             /\ \A u \in Workers : Encoding(u)' /\ worker'[u].task = worker'[v].task => u = v
  <2>0. d(next_task_index) <= d(finished_task_index)
    BY DEF Owned, d
  <2>1. \A u \in Workers : Encoding(u)' => u = w \/ Encoding(u)
    BY <1>4 DEF Encoding
  <2>2. CASE v = w
    <3>1. \A u \in Workers : Encoding(u)' /\ worker'[u].task = worker'[v].task => u = v
      BY <1>4, <1>6, <2>1, <2>2
    <3> QED BY <1>0, <1>1, <1>3, <1>4, <1>5, <2>0, <2>2, <3>1
  <2>3. CASE v # w
    <3>1. Encoding(v) /\ worker'[v] = worker[v]
      BY <1>4, <1>7, <2>1, <2>3
    <3>2. /\ d(next_task_index) < d(worker[v].task)
          /\ d(worker[v].task) <= d(finished_task_index)
          /\ ~tasks[worker[v].task].finished
          /\ \A u \in Workers : Encoding(u) /\ worker[u].task = worker[v].task => u = v
      BY <3>1 DEF Owned, d
    <3>3. \A u \in Workers : Encoding(u)' /\ worker'[u].task = worker'[v].task => u = v
      BY <1>4, <1>6, <2>1, <3>1, <3>2
    <3> QED BY <1>0, <1>1, <1>3, <3>1, <3>2, <3>3
  <2> QED BY <2>2, <2>3
<1>8. ASSUME NEW i \in Tasks, tasks[i].finished
      PROVE  d(next_task_index') < d(i) /\ d(i) <= d(finished_task_index)
  <2>1. d(next_task_index) < d(i) /\ d(i) <= d(finished_task_index)
    BY <1>8 DEF Owned, d
  <2> QED BY <1>0, <1>1, <1>3, <2>1
<1>9. /\ d(next_task_index') <= d(finished_task_index)
      /\ d(finished_task_index) <= ThreadCount + (IF pc = "user" THEN 0 ELSE 1)
  <2>1. /\ d(next_task_index) <= d(finished_task_index)
        /\ d(finished_task_index) <= ThreadCount + (IF pc = "user" THEN 0 ELSE 1)
    BY DEF Owned, d
  <2> QED BY <1>0, <1>1, <1>3, <2>1
<1> QED BY <1>2, <1>7, <1>8, <1>9 DEF Owned, d

LEMMA EncodeStep ==
  ASSUME TypeOK, TypeOK', Owned, NEW w \in Workers, Encode(w)
  PROVE  Owned'
<1> DEFINE i == worker[w].task
<1>1. i \in Tasks /\ Encoding(w)
  BY DEF TypeOK, Encode, Encoding
<1>2. \A j \in Tasks \ {i} : tasks'[j] = tasks[j]
  BY <1>1 DEF Encode, TypeOK
<1>3. /\ UNCHANGED <<task_index, next_task_index, finished_task_index, pc>>
      /\ worker'[w].pc = "top"
      /\ \A v \in Workers \ {w} : worker'[v] = worker[v]
  BY DEF Encode, caller, TypeOK
<1>4. \A v \in Workers : Encoding(v)' => Encoding(v) /\ v # w /\ worker'[v] = worker[v]
  BY <1>3 DEF Encoding
<1>5. \A v \in Workers : Encoding(v) /\ v # w => worker[v].task # i /\ worker[v].task \in Tasks
  BY <1>1 DEF Owned, TypeOK
<1>6. /\ Distance(next_task_index, task_index) < Distance(i, task_index)
      /\ Distance(i, task_index) <= Distance(finished_task_index, task_index)
  BY <1>1 DEF Owned
<1> HIDE DEF i
<1>7. ASSUME NEW v \in Workers, Encoding(v)'
      PROVE  /\ Distance(next_task_index, task_index) < Distance(worker'[v].task, task_index)
             /\ Distance(worker'[v].task, task_index) <= Distance(finished_task_index, task_index)
             /\ ~tasks'[worker'[v].task].finished
             /\ \A u \in Workers : Encoding(u)' /\ worker'[u].task = worker'[v].task => u = v
  BY <1>2, <1>4, <1>5, <1>7 DEF Owned
<1>8. ASSUME NEW j \in Tasks, tasks'[j].finished
      PROVE  /\ Distance(next_task_index, task_index) < Distance(j, task_index)
             /\ Distance(j, task_index) <= Distance(finished_task_index, task_index)
  BY <1>2, <1>6, <1>8 DEF Owned
<1> QED BY <1>3, <1>7, <1>8 DEF Owned

LEMMA OwnedStep ==
  ASSUME Ring, TypeOK', [Next]_evars
  PROVE  Owned'
<1>0. /\ TypeOK /\ Owned /\ worker \in [Workers -> WorkerType]
      /\ Distance(finished_task_index, task_index) \in Nat
      /\ Outstanding = Distance(finished_task_index, task_index)
  <2>0. TasksOwned /\ FinishedTaken
    BY DEF Ring
  <2>1. TypeOK
    BY <2>0 DEF TasksOwned
  <2>2. Owned
    BY <2>0, <2>1, OwnedIs
  <2>3. finished_task_index \in Tasks /\ task_index \in Tasks
    BY <2>1 DEF TypeOK
  <2>4. worker \in [Workers -> WorkerType]
    BY <2>1 DEF TypeOK, WorkerType, WorkerStates
  <2>5. Distance(finished_task_index, task_index) \in Nat
    BY <2>3, DistanceIs
  <2>6. Outstanding = Distance(finished_task_index, task_index)
    BY <2>3, AgeIs
  <2> QED BY <2>1, <2>2, <2>4, <2>5, <2>6
<1>1. ThreadCount \in Nat
  BY MaxTasksIs
<1>2. {"top", "exited", "waiting", "woken"} \subseteq WorkerStates
  BY DEF WorkerStates
<1> USE DEF ends, indices, past, caller
<1>3. CASE CreateWorker
  <2>1. created + 1 \in Workers
    BY <1>0, <1>1, <1>3 DEF CreateWorker, Ring, Creation, TypeOK, Workers
  <2>2. worker' = [worker EXCEPT ![created + 1].pc = "top"]
    BY <1>3 DEF CreateWorker
  <2>3. \A w \in Workers : Encoding(w)' => Encoding(w) /\ worker'[w].task = worker[w].task
    BY <1>0, <1>2, <2>1, <2>2, WorkerMoves DEF Encoding
  <2>4. Distance(finished_task_index, task_index) <= ThreadCount
    <3>1. task_index = finished_task_index
      BY <1>3 DEF CreateWorker, Ring, Creation
    <3> QED BY <1>0, <1>1, <3>1, DistanceIs DEF TypeOK
  <2> QED BY <1>0, <1>3, <2>3, <2>4, QuietStep DEF CreateWorker
<1>4. CASE CreateFails \/ Drain \/ Close \/ Join
  <2>1. UNCHANGED <<task_index, next_task_index, finished_task_index, tasks, worker>> /\ pc' # "user"
    BY <1>4 DEF CreateFails, Drain, Close, Join
  <2> QED BY <1>0, <2>1, QuietStep DEF Encoding
<1>5. CASE NoResult
  <2>1. UNCHANGED <<task_index, next_task_index, finished_task_index, tasks, worker>>
        /\ Outstanding <= ThreadCount
    BY <1>0, <1>1, <1>5 DEF NoResult, LeftForLater
  <2> QED BY <1>0, <2>1, QuietStep DEF Encoding
<1>6. CASE Free
  <2>1. UNCHANGED <<task_index, next_task_index, finished_task_index, tasks>> /\ pc' # "user"
    BY <1>6 DEF Free
  <2>2. \A w \in Workers : Encoding(w)' => Encoding(w) /\ worker'[w].task = worker[w].task
    BY <1>0, <1>6, SetPcType DEF Free, Encoding
  <2> QED BY <1>0, <2>1, <2>2, QuietStep
<1>7. ASSUME NEW w \in Workers, Exit(w) \/ Wait(w) \/ SpuriousWake(w)
      PROVE  Owned'
  <2>1. UNCHANGED <<task_index, next_task_index, finished_task_index, tasks, pc>>
    BY <1>7 DEF Exit, Wait, SpuriousWake
  <2>2. \A v \in Workers : Encoding(v)' => Encoding(v) /\ worker'[v].task = worker[v].task
    BY <1>0, <1>2, <1>7, WorkerMoves DEF Exit, Wait, SpuriousWake, Encoding
  <2>3. pc' = "user" => Distance(finished_task_index, task_index) <= ThreadCount
    BY <1>0, <1>1, <2>1 DEF Owned
  <2> QED BY <1>0, <2>1, <2>2, <2>3, QuietStep
<1>8. CASE UNCHANGED evars
  <2>1. UNCHANGED <<task_index, next_task_index, finished_task_index, tasks, worker, pc>>
    BY <1>8 DEF evars
  <2>2. pc' = "user" => Distance(finished_task_index, task_index) <= ThreadCount
    BY <1>0, <1>1, <2>1 DEF Owned
  <2> QED BY <1>0, <2>1, <2>2, QuietStep DEF Encoding
<1> QED BY <1>0, <1>3, <1>4, <1>5, <1>6, <1>7, <1>8, PutStep, ResultStep, TakeStep, EncodeStep
        DEF Next, Calls, Inside, Worker

LEMMA RingInit == Init => Ring
<1> SUFFICES ASSUME Init PROVE Ring
  OBVIOUS
<1>1. TypeOK
  BY TypeInit
<1>2. 0 \in Tasks /\ Distance(0, 0) = 0
  BY MaxTasksIs DEF Tasks, Distance
<1>3. Owned
  BY <1>2, MaxTasksIs DEF Init, Owned, Encoding, NoTask
<1>4. Creation
  BY EncoderAssumption DEF Init, Creation
<1> QED BY <1>1, <1>3, <1>4, OwnedIs DEF Ring

LEMMA RingStep == Ring /\ [Next]_evars => Ring'
<1> SUFFICES ASSUME Ring, [Next]_evars PROVE Ring'
  OBVIOUS
<1>1. TypeOK'
  BY TypeStep
<1>2. Owned'
  BY <1>1, OwnedStep
<1>3. Creation'
  <2>1. ThreadCount \in Nat /\ TypeOK
    BY MaxTasksIs DEF Ring, TasksOwned
  <2>2. CASE CreateWorker
    BY <2>1, <2>2 DEF Ring, Creation, CreateWorker, indices, TypeOK
  <2>3. CASE pc' # "init"
    BY <2>3 DEF Creation
  <2>4. CASE UNCHANGED <<pc, created, task_index, finished_task_index>>
    BY <2>4 DEF Ring, Creation
  <2> QED BY <2>2, <2>3, <2>4
      DEF Next, Calls, Inside, Worker, PutFrame, Drain, Close, CreateFails, NoResult, Result,
          Free, Join, Exit, Wait, Take, Encode, SpuriousWake, caller, evars
<1> QED BY <1>1, <1>2, <1>3, OwnedIs DEF Ring

LEMMA RingInvariant == Spec => []Ring
BY RingInit, RingStep, PTL DEF Spec

\* However the workers are scheduled, the calling thread never fills a task that
\* a worker still has or whose result is not taken out, no two workers have the
\* same task, and an index never overtakes the one in front of it.
THEOREM NeverLapped == Spec => []TasksOwned
<1>1. Ring => TasksOwned
  BY DEF Ring
<1> QED BY <1>1, RingInvariant, PTL

-----------------------------------------------------------------------------
(* The ring implements OrderedJobs.                                         *)

\* The jobs of OrderedJobs: what FrameThreadEncoder substitutes for them.
Jobs == [i \in 1 .. Outstanding |->
           LET t == tasks[(finished_task_index + i - 1) % MaxTasks] IN
           [id |-> t.id, done |-> t.finished, items |-> t.items]]

Job(t)  == [id |-> t.id, done |-> t.finished, items |-> t.items]
JobType == [id : 0 .. MaxFrames, done : BOOLEAN, items : {<<>>, <<"packet">>, <<"error">>}]

\* The task at place p, counted from index f.
At(f, p) == IF f + p - 1 < MaxTasks THEN f + p - 1 ELSE f + p - 1 - MaxTasks

LEMMA AtIs ==
  ASSUME NEW f \in Tasks, NEW p \in 1 .. MaxTasks
  PROVE  (f + p - 1) % MaxTasks = At(f, p) /\ At(f, p) \in Tasks
<1>1. f \in Int /\ p \in Int /\ 0 <= f /\ f < MaxTasks /\ 1 <= p /\ p <= MaxTasks /\ MaxTasks \in Nat
  BY MaxTasksIs DEF Tasks
<1>2. CASE f + p - 1 < MaxTasks
  <2>1. (f + p - 1) % MaxTasks = f + p - 1
    BY <1>1, <1>2, Modulo
  <2> QED BY <1>1, <1>2, <2>1 DEF At, Tasks
<1>3. CASE f + p - 1 >= MaxTasks
  <2>1. (f + p - 1) % MaxTasks = f + p - 1 - MaxTasks
    BY <1>1, <1>3
  <2> QED BY <1>1, <1>3, <2>1 DEF At, Tasks
<1> QED BY <1>1, <1>2, <1>3

LEMMA Places ==
  ASSUME NEW f \in Tasks, NEW t \in Tasks
  PROVE  /\ At(f, 1) = f
         /\ At(f, Distance(f, t) + 1) = t
         /\ \A p \in 1 .. Distance(f, t) : p \in 1 .. MaxTasks /\ At(f, p) # t
         /\ \A p, q \in 1 .. MaxTasks : At(f, p) = At(f, q) => p = q
         /\ \A p \in 1 .. MaxTasks - 1 : At(After(f), p) = At(f, p + 1)
         /\ \A i \in Tasks : i # t /\ Distance(i, t) <= Distance(f, t) =>
              LET p == Distance(f, t) - Distance(i, t) + 1 IN
              p \in 1 .. Distance(f, t) /\ At(f, p) = i
<1>1. MaxTasks \in Nat /\ f \in 0 .. MaxTasks - 1 /\ t \in 0 .. MaxTasks - 1
      /\ Tasks = 0 .. MaxTasks - 1
  BY MaxTasksIs DEF Tasks
<1>2. /\ At(f, 1) = f
      /\ At(f, Distance(f, t) + 1) = t
      /\ \A p \in 1 .. Distance(f, t) : p \in 1 .. MaxTasks /\ At(f, p) # t
  BY <1>1 DEF At, Distance
<1>3. \A p, q \in 1 .. MaxTasks : At(f, p) = At(f, q) => p = q
  BY <1>1 DEF At
<1>4. \A p \in 1 .. MaxTasks - 1 : At(After(f), p) = At(f, p + 1)
  <2>1. After(f) = IF f = MaxTasks - 1 THEN 0 ELSE f + 1
    BY AfterIs
  <2> QED BY <1>1, <2>1 DEF At
<1>5. ASSUME NEW i \in Tasks, i # t, Distance(i, t) <= Distance(f, t)
      PROVE  LET p == Distance(f, t) - Distance(i, t) + 1 IN
             p \in 1 .. Distance(f, t) /\ At(f, p) = i
  BY <1>1, <1>5 DEF At, Distance
<1> QED BY <1>2, <1>3, <1>4, <1>5

\* A frame that is not encoded has given nothing.
Unfinished == \A i \in Tasks : ~tasks[i].finished => tasks[i].items = <<>>

LEMMA UnfinishedInit == Init => Unfinished
BY DEF Init, Unfinished, NoTask

LEMMA UnfinishedStep ==
  ASSUME TypeOK, Unfinished, [Next]_evars
  PROVE  Unfinished'
<1>1. CASE PutFrame
  BY <1>1 DEF PutFrame, Unfinished, TypeOK
<1>2. CASE Result
  BY <1>2 DEF Result, Unfinished, TypeOK, NoTask
<1>3. ASSUME NEW w \in Workers, Encode(w) PROVE Unfinished'
  <2>1. worker[w].task \in Tasks
    BY DEF TypeOK
  <2> QED BY <1>3, <2>1 DEF Encode, Unfinished, TypeOK
<1>4. CASE UNCHANGED tasks
  BY <1>4 DEF Unfinished
<1> QED BY <1>1, <1>2, <1>3, <1>4
    DEF Next, Calls, Inside, Worker, Drain, Close, CreateWorker, CreateFails, NoResult,
        Free, Join, Exit, Wait, Take, SpuriousWake, evars

\* The jobs are a sequence of the outstanding tasks.
LEMMA JobsAre ==
  ASSUME TypeOK
  PROVE  /\ Jobs \in Seq(JobType) /\ Len(Jobs) = Outstanding /\ Outstanding \in 0 .. MaxTasks - 1
         /\ Outstanding = Distance(finished_task_index, task_index)
         /\ \A p \in 1 .. Outstanding : Jobs[p] = Job(tasks[At(finished_task_index, p)])
<1>1. /\ Outstanding = Distance(finished_task_index, task_index)
      /\ Outstanding \in 0 .. MaxTasks - 1 /\ finished_task_index \in Tasks
  BY AgeIs, DistanceIs DEF TypeOK
<1>2. \A p \in 1 .. Outstanding :
        (finished_task_index + p - 1) % MaxTasks = At(finished_task_index, p)
        /\ At(finished_task_index, p) \in Tasks
  BY <1>1, AtIs, MaxTasksIs
<1>3. \A i \in Tasks : Job(tasks[i]) \in JobType
  BY DEF TypeOK, Job, JobType
<1>4. /\ DOMAIN Jobs = 1 .. Outstanding
      /\ \A p \in 1 .. Outstanding : Jobs[p] = Job(tasks[At(finished_task_index, p)])
  BY <1>2 DEF Jobs, Job
<1>5. Jobs \in [1 .. Outstanding -> JobType]
  <2>1. Jobs = [p \in 1 .. Outstanding |-> Jobs[p]]
    BY DEF Jobs
  <2> QED BY <1>2, <1>3, <1>4, <2>1
<1> QED BY <1>1, <1>4, <1>5

LEMMA JobsAreNext ==
  ASSUME TypeOK'
  PROVE  /\ Jobs' \in Seq(JobType) /\ Len(Jobs') = Outstanding' /\ Outstanding' \in 0 .. MaxTasks - 1
         /\ Outstanding' = Distance(finished_task_index', task_index')
         /\ \A p \in 1 .. Outstanding' : Jobs'[p] = Job(tasks'[At(finished_task_index', p)])
<1>1. /\ Outstanding' = Distance(finished_task_index', task_index')
      /\ Outstanding' \in 0 .. MaxTasks - 1 /\ finished_task_index' \in Tasks
  BY AgeIsNext, DistanceIs DEF TypeOK
<1>2. \A p \in 1 .. Outstanding' :
        (finished_task_index' + p - 1) % MaxTasks = At(finished_task_index', p)
        /\ At(finished_task_index', p) \in Tasks
  BY <1>1, AtIs, MaxTasksIs
<1>3. \A i \in Tasks : Job(tasks'[i]) \in JobType
  BY DEF TypeOK, Job, JobType
<1>4. /\ DOMAIN Jobs' = 1 .. Outstanding'
      /\ \A p \in 1 .. Outstanding' : Jobs'[p] = Job(tasks'[At(finished_task_index', p)])
  BY <1>2 DEF Jobs, Job
<1>5. Jobs' \in [1 .. Outstanding' -> JobType]
  <2>1. Jobs' = [p \in 1 .. Outstanding' |-> Jobs'[p]]
    BY DEF Jobs
  <2> QED BY <1>2, <1>3, <1>4, <2>1
<1> QED BY <1>1, <1>4, <1>5

LEMMA PutSubmits ==
  ASSUME TypeOK, TypeOK', Owned, Unfinished, PutFrame
  PROVE  Ordered!Submit
<1> DEFINE new == [id |-> last + 1, done |-> FALSE, items |-> <<>>]
<1>0. /\ task_index \in Tasks /\ finished_task_index \in Tasks
      /\ last + 1 \in 0 .. MaxFrames /\ new \in JobType
  BY MaxTasksIs DEF TypeOK, PutFrame, JobType
<1>1. /\ task_index' = After(task_index) /\ UNCHANGED <<finished_task_index, given>>
      /\ last' = last + 1
      /\ tasks' = [tasks EXCEPT ![task_index].id = last + 1]
  BY DEF PutFrame
<1>2. ~tasks[task_index].finished /\ tasks[task_index].items = <<>>
  <2>1. Distance(task_index, task_index) = 0 /\ Distance(next_task_index, task_index) \in Nat
    BY <1>0, DistanceIs DEF TypeOK
  <2>2. ~tasks[task_index].finished
    BY <1>0, <2>1 DEF Owned
  <2> QED BY <1>0, <2>2 DEF Unfinished
<1>3. Outstanding' = Outstanding + 1
  <2>1. Distance(finished_task_index, task_index) <= ThreadCount
    BY MaxTasksIs DEF Owned, PutFrame
  <2>2. Distance(finished_task_index, task_index') =
          Distance(finished_task_index, task_index) + 1
    BY <1>0, <1>1, <2>1, DistanceMoves, DistanceIs, MaxTasksIs
  <2> QED BY <1>1, <2>2, JobsAre, JobsAreNext
<1>4. ASSUME NEW p \in 1 .. Outstanding PROVE Jobs'[p] = Jobs[p]
  <2>1. At(finished_task_index, p) # task_index /\ At(finished_task_index, p) \in Tasks
    BY <1>0, Places, AtIs, JobsAre
  <2>2. tasks'[At(finished_task_index, p)] = tasks[At(finished_task_index, p)]
    BY <1>1, <2>1 DEF TypeOK
  <2>3. Jobs'[p] = Job(tasks'[At(finished_task_index, p)])
    BY <1>1, <1>3, JobsAre, JobsAreNext
  <2> QED BY <2>2, <2>3, JobsAre
<1>5. Jobs'[Outstanding + 1] = new
  <2>1. Jobs'[Outstanding + 1] = Job(tasks'[At(finished_task_index, Outstanding + 1)])
    BY <1>1, <1>3, JobsAre, JobsAreNext
  <2>2. At(finished_task_index, Outstanding + 1) = task_index
    BY <1>0, Places, JobsAre
  <2>3. Job(tasks'[task_index]) = new
    <3>1. tasks'[task_index] = [tasks[task_index] EXCEPT !.id = last + 1]
      BY <1>0, <1>1 DEF TypeOK
    <3>2. tasks[task_index] \in [id : 0 .. MaxFrames, finished : BOOLEAN, got_packet : BOOLEAN,
                                 items : {<<>>, <<"packet">>, <<"error">>}]
      BY <1>0 DEF TypeOK
    <3>3. /\ tasks'[task_index].id = last + 1 /\ tasks'[task_index].finished = FALSE
          /\ tasks'[task_index].items = <<>>
      BY <1>2, <3>1, <3>2
    <3> QED BY <3>3 DEF Job
  <2> QED BY <2>1, <2>2, <2>3
<1> HIDE DEF new
<1>6. Jobs' = Append(Jobs, new)
  <2>1. /\ Append(Jobs, new) \in Seq(JobType) /\ Len(Append(Jobs, new)) = Outstanding + 1
        /\ \A p \in 1 .. Outstanding : Append(Jobs, new)[p] = Jobs[p]
        /\ Append(Jobs, new)[Outstanding + 1] = new
    BY <1>0, JobsAre, AppendProperties
  <2>2. Jobs' \in Seq(JobType) /\ Len(Jobs') = Outstanding + 1 /\ Outstanding \in Nat
    BY <1>3, JobsAre, JobsAreNext
  <2>3. \A p \in 1 .. Outstanding + 1 : Jobs'[p] = Append(Jobs, new)[p]
    BY <1>4, <1>5, <2>1, <2>2
  <2> QED BY <2>1, <2>2, <2>3, SeqEqual
<1> QED BY <1>1, <1>6 DEF Ordered!Submit, Jobs, new

LEMMA ResultTakesOldest ==
  ASSUME TypeOK, TypeOK', Owned, Result
  PROVE  /\ Jobs # <<>> /\ Jobs' = Tail(Jobs)
         /\ Jobs[1] = Job(Oldest)
<1>0. /\ task_index \in Tasks /\ finished_task_index \in Tasks
  BY DEF TypeOK
<1>1. /\ finished_task_index' = After(finished_task_index) /\ UNCHANGED task_index
      /\ Outstanding # 0
      /\ \A i \in Tasks : i # finished_task_index => tasks'[i] = tasks[i]
  BY DEF Result, TypeOK
<1>2. Outstanding' = Outstanding - 1
  BY <1>0, <1>1, DistanceMoves, DistanceIs, JobsAre, JobsAreNext
<1>3. Outstanding \in 1 .. MaxTasks - 1 /\ MaxTasks \in Nat
  BY <1>1, JobsAre, MaxTasksIs
<1>4. ASSUME NEW p \in 1 .. Outstanding - 1 PROVE Jobs'[p] = Jobs[p + 1]
  <2>1. p \in 1 .. MaxTasks - 1 /\ p + 1 \in 1 .. Outstanding /\ p + 1 \in 1 .. MaxTasks
        /\ 1 \in 1 .. MaxTasks /\ p + 1 # 1
    BY <1>3
  <2>2. At(finished_task_index', p) = At(finished_task_index, p + 1)
    BY <1>0, <1>1, <2>1, Places
  <2>3. /\ At(finished_task_index, p + 1) # finished_task_index
        /\ At(finished_task_index, p + 1) \in Tasks
    BY <1>0, <2>1, Places, AtIs
  <2>4. Jobs'[p] = Job(tasks'[At(finished_task_index', p)])
    BY <1>2, JobsAreNext
  <2>5. Jobs[p + 1] = Job(tasks[At(finished_task_index, p + 1)])
    BY <2>1, JobsAre
  <2> QED BY <1>1, <2>2, <2>3, <2>4, <2>5
<1>5. Jobs # <<>> /\ Jobs[1] = Job(Oldest)
  BY <1>0, <1>3, JobsAre, Places DEF Oldest
<1>6. Jobs' = Tail(Jobs)
  <2>1. /\ Tail(Jobs) \in Seq(JobType) /\ Len(Tail(Jobs)) = Outstanding - 1
        /\ \A p \in 1 .. Outstanding - 1 : Tail(Jobs)[p] = Jobs[p + 1]
    BY <1>5, JobsAre, HeadTailProperties
  <2>2. Jobs' \in Seq(JobType) /\ Len(Jobs') = Outstanding - 1
    BY <1>2, JobsAreNext
  <2> QED BY <1>4, <2>1, <2>2, SeqEqual
<1> QED BY <1>5, <1>6

LEMMA ResultHandsOut ==
  ASSUME TypeOK, TypeOK', Owned, Result
  PROVE  Ordered!Deliver \/ Ordered!Drop
<1>1. Jobs # <<>> /\ Jobs' = Tail(Jobs) /\ Jobs[1] = Job(Oldest)
  BY ResultTakesOldest
<1>2. /\ Jobs[1].id = Oldest.id /\ Jobs[1].done /\ Jobs[1].items = Oldest.items
  BY <1>1 DEF Result, Job
<1>3. UNCHANGED last /\ given' = IF Oldest.items = <<>> THEN given
                                ELSE [id |-> Oldest.id, item |-> Head(Oldest.items)]
  BY DEF Result
<1>4. Oldest.items = <<>> \/ Len(Oldest.items) = 1
  BY DEF Oldest, TypeOK
<1>5. CASE Oldest.items = <<>>
  BY <1>1, <1>2, <1>3, <1>5 DEF Ordered!Drop, Ordered!Oldest, Jobs
<1>6. CASE Oldest.items # <<>>
  BY <1>1, <1>2, <1>3, <1>4, <1>6 DEF Ordered!Deliver, Ordered!Oldest, Jobs
<1> QED BY <1>5, <1>6

LEMMA EncodeFinishes ==
  ASSUME TypeOK, TypeOK', Owned, NEW w \in Workers, Encode(w)
  PROVE  \E p \in DOMAIN Jobs : Ordered!Finish(p)
<1> DEFINE i == worker[w].task
           f == finished_task_index
<1>0. i \in Tasks /\ f \in Tasks /\ task_index \in Tasks /\ next_task_index \in Tasks
  BY DEF TypeOK
<1>1. /\ UNCHANGED <<task_index, finished_task_index, last, given>>
      /\ \A j \in Tasks : j # i => tasks'[j] = tasks[j]
      /\ tasks'[i].id = tasks[i].id /\ tasks'[i].finished = TRUE
      /\ tasks'[i].items \in {<<>>, <<"packet">>, <<"error">>}
  BY <1>0 DEF Encode, caller, TypeOK
<1>2. /\ Distance(next_task_index, task_index) < Distance(i, task_index)
      /\ Distance(i, task_index) <= Distance(f, task_index)
      /\ tasks[i].finished = FALSE
  BY <1>0 DEF Owned, Encode, Encoding, TypeOK
<1>3. PICK p \in 1 .. Outstanding : At(f, p) = i
  <2>1. i # task_index
    BY <1>0, <1>2, DistanceIs
  <2> QED BY <1>0, <1>2, <2>1, Places, JobsAre
<1>4. /\ Outstanding' = Outstanding /\ DOMAIN Jobs' = DOMAIN Jobs /\ DOMAIN Jobs = 1 .. Outstanding
  BY <1>1, JobsAre, JobsAreNext DEF Jobs
<1> HIDE DEF i, f
<1>5. ASSUME NEW q \in 1 .. Outstanding, q # p PROVE Jobs'[q] = Jobs[q]
  <2>1. q \in 1 .. MaxTasks /\ p \in 1 .. MaxTasks
    BY <1>3, JobsAre, MaxTasksIs
  <2>2. At(f, q) # i /\ At(f, q) \in Tasks
    BY <1>0, <1>3, <1>5, <2>1, Places, AtIs
  <2>3. Jobs'[q] = Job(tasks'[At(f, q)]) /\ Jobs[q] = Job(tasks[At(f, q)])
    BY <1>1, <1>4, JobsAre, JobsAreNext DEF f
  <2> QED BY <1>1, <2>2, <2>3
<1>6. Jobs'[p] = Job(tasks'[i]) /\ Jobs[p] = Job(tasks[i])
  BY <1>1, <1>3, <1>4, JobsAre, JobsAreNext DEF f
<1> DEFINE jobs == Jobs
           next == Jobs'
           ended == [jobs EXCEPT ![p] = [id |-> @.id, done |-> TRUE, items |-> next[p].items]]
<1>7. ~Jobs[p].done /\ Jobs'[p].items \in Seq({"packet", "error"})
  <2>1. Jobs[p].done = FALSE /\ Jobs'[p].items = tasks'[i].items
    BY <1>2, <1>6 DEF Job
  <2>2. {<<>>, <<"packet">>, <<"error">>} \subseteq Seq({"packet", "error"})
    OBVIOUS
  <2>3. tasks'[i].items \in Seq({"packet", "error"})
    BY <1>1, <2>2
  <2> QED BY <2>1, <2>3
<1>8. Jobs'[p] = [id |-> Jobs[p].id, done |-> TRUE, items |-> Jobs'[p].items]
  <2>1. Jobs'[p] = [id |-> tasks[i].id, done |-> TRUE, items |-> tasks'[i].items]
    BY <1>1, <1>6 DEF Job
  <2>2. Jobs'[p].items = tasks'[i].items
    BY <2>1
  <2>3. Jobs[p].id = tasks[i].id
    BY <1>6 DEF Job
  <2> QED BY ONLY <2>1, <2>2, <2>3
<1>9. Jobs' = ended
  <2>1. DOMAIN ended = 1 .. Outstanding /\ ended = [q \in 1 .. Outstanding |-> ended[q]]
    BY <1>4
  <2>2. Jobs' = [q \in 1 .. Outstanding |-> Jobs'[q]]
    BY <1>4 DEF Jobs
  <2>3. ended[p] = [id |-> Jobs[p].id, done |-> TRUE, items |-> Jobs'[p].items]
    BY <1>3, <1>4
  <2>4. \A q \in 1 .. Outstanding : q # p => ended[q] = Jobs[q]
    BY <1>4
  <2> HIDE DEF ended
  <2>5. \A q \in 1 .. Outstanding : Jobs'[q] = ended[q]
    BY <1>5, <1>8, <2>3, <2>4
  <2> QED BY <2>1, <2>2, <2>5
<1>10. Ordered!Finish(p)
  BY <1>1, <1>4, <1>7, <1>9 DEF Ordered!Finish, Jobs
<1> QED BY <1>3, <1>4, <1>10

LEMMA RefinesInit == Init => Ordered!Init
<1> SUFFICES ASSUME Init PROVE Ordered!Init
  OBVIOUS
<1>1. Outstanding = 0
  BY TypeInit, JobsAre, MaxTasksIs DEF Init, TypeOK, Distance
<1>2. Jobs = <<>>
  BY <1>1 DEF Jobs
<1> QED BY <1>2 DEF Init, Ordered!Init, Ordered!Nothing, Jobs

LEMMA RefinesStep ==
  ASSUME Ring, Ring', Unfinished, [Next]_evars
  PROVE  [Ordered!Next]_(Ordered!vars)
<1>0. TypeOK /\ TypeOK' /\ Owned
  <2>1. TasksOwned /\ TasksOwned' /\ FinishedTaken
    BY DEF Ring
  <2>2. TypeOK /\ TypeOK'
    BY <2>1 DEF TasksOwned
  <2> QED BY <2>1, <2>2, OwnedIs
<1>1. CASE PutFrame
  BY <1>0, <1>1, PutSubmits DEF Ordered!Next
<1>2. CASE Result
  BY <1>0, <1>2, ResultHandsOut DEF Ordered!Next
<1>3. ASSUME NEW w \in Workers, Encode(w) PROVE Ordered!Next
  BY <1>0, <1>3, EncodeFinishes DEF Ordered!Next, Jobs
<1>4. CASE UNCHANGED <<task_index, finished_task_index, tasks, last, given>>
  <2>1. Outstanding' = Outstanding
    BY <1>4 DEF Outstanding
  <2>2. Jobs' = Jobs
    BY <1>4, <2>1 DEF Jobs
  <2> QED BY <1>4, <2>2 DEF Ordered!vars, Jobs
<1> QED BY <1>1, <1>2, <1>3, <1>4
    DEF Next, Calls, Inside, Worker, Drain, Close, CreateWorker, CreateFails, NoResult,
        Free, Join, Exit, Wait, Take, SpuriousWake, evars, indices, past, caller

\* Whatever the number of threads and the order in which they finish, what comes out
\* is in the order of the frames, no result twice: the ring implements OrderedJobs.
THEOREM ResultsInOrder == Spec => InOrder
<1>1. Ring => TypeOK
  BY DEF Ring, TasksOwned
<1>2. Unfinished /\ Ring /\ [Next]_evars => Unfinished'
  BY <1>1, UnfinishedStep
<1> QED BY <1>2, RingInvariant, UnfinishedInit, RefinesInit, RefinesStep, PTL
        DEF Spec, InOrder, Ordered!Spec

-----------------------------------------------------------------------------
(* A frame that nobody has taken has a worker on the way to it.             *)

AwakeWorkers == {w \in Workers : Awake(w)}

\* NoFrameForgotten needs to know that nobody waits once the workers shall end: the
\* workers that leave are no longer on the way to anything.
Watched == NoFrameForgotten /\ (exit => WorkersIn("waiting") = {})

LEMMA AwakeFinite ==
  /\ IsFiniteSet(AwakeWorkers) /\ Cardinality(AwakeWorkers) \in Nat
  /\ IsFiniteSet(AwakeWorkers') /\ Cardinality(AwakeWorkers') \in Nat
<1>1. IsFiniteSet(Workers)
  BY FS_Interval, MaxTasksIs DEF Workers
<1>2. AwakeWorkers \subseteq Workers /\ AwakeWorkers' \subseteq Workers
  BY DEF AwakeWorkers
<1> QED BY <1>1, <1>2, FS_Subset, FS_CardinalityType

LEMMA MoreAwake ==
  ASSUME \A w \in Workers : Awake(w) => Awake(w)'
  PROVE  Cardinality(AwakeWorkers) <= Cardinality(AwakeWorkers')
<1>1. AwakeWorkers \subseteq AwakeWorkers'
  BY DEF AwakeWorkers
<1> QED BY <1>1, AwakeFinite, FS_Subset

LEMMA OneAwakes ==
  ASSUME NEW w \in Workers, ~Awake(w), Awake(w)',
         \A v \in Workers \ {w} : worker'[v] = worker[v]
  PROVE  Cardinality(AwakeWorkers') = Cardinality(AwakeWorkers) + 1
<1>1. AwakeWorkers' = AwakeWorkers \cup {w} /\ w \notin AwakeWorkers
  BY DEF AwakeWorkers, Awake
<1> QED BY <1>1, AwakeFinite, FS_AddElement

LEMMA OneLeaves ==
  ASSUME NEW w \in Workers, Awake(w), ~Awake(w)',
         \A v \in Workers \ {w} : worker'[v] = worker[v]
  PROVE  Cardinality(AwakeWorkers') = Cardinality(AwakeWorkers) - 1
<1>1. AwakeWorkers' = AwakeWorkers \ {w} /\ w \in AwakeWorkers
  BY DEF AwakeWorkers, Awake
<1> QED BY <1>1, AwakeFinite, FS_RemoveElement

LEMMA WatchedInit == Init => Watched
BY DEF Init, Watched, NoFrameForgotten, WorkersIn

LEMMA WatchedStep ==
  ASSUME TypeOK, TypeOK', Watched, [Next]_evars
  PROVE  Watched'
<1> DEFINE d == Distance(next_task_index, task_index)
<1>0. /\ worker \in [Workers -> WorkerType] /\ d \in Nat
      /\ task_index \in Tasks /\ next_task_index \in Tasks
      /\ Age(next_task_index) = d
      /\ Age(next_task_index)' = Distance(next_task_index', task_index')
      /\ Distance(next_task_index', task_index') \in Nat
  <2>1. /\ task_index \in Tasks /\ next_task_index \in Tasks /\ finished_task_index \in Tasks
        /\ task_index' \in Tasks /\ next_task_index' \in Tasks /\ finished_task_index' \in Tasks
    BY DEF TypeOK
  <2>2. worker \in [Workers -> WorkerType]
    BY DEF TypeOK, WorkerType, WorkerStates
  <2> QED BY <2>1, <2>2, AgeIs, AgeIsNext, DistanceIs
<1> USE AwakeFinite
<1>1. ASSUME UNCHANGED <<task_index, next_task_index, exit>>,
             \A w \in Workers : /\ Awake(w) => Awake(w)'
                                /\ worker'[w].pc = "waiting" => worker[w].pc = "waiting"
      PROVE  Watched'
  <2>1. Cardinality(AwakeWorkers) <= Cardinality(AwakeWorkers')
    BY <1>1, MoreAwake
  <2>2. WorkersIn("waiting")' \subseteq WorkersIn("waiting")
    BY <1>1 DEF WorkersIn
  <2>3. WorkersIn("waiting") # {} => d <= Cardinality(AwakeWorkers)
    BY <1>0 DEF Watched, NoFrameForgotten, AwakeWorkers
  <2>4. Age(next_task_index)' = d
    BY <1>0, <1>1
  <2> HIDE DEF d
  <2>5. WorkersIn("waiting")' # {} => Age(next_task_index)' <= Cardinality(AwakeWorkers')
    BY <1>0, <2>1, <2>2, <2>3, <2>4
  <2>6. exit' => WorkersIn("waiting")' = {}
    BY <1>1, <2>2 DEF Watched
  <2> QED BY <2>5, <2>6 DEF Watched, NoFrameForgotten, AwakeWorkers
<1>2. CASE CreateWorker
  BY <1>0, <1>1, <1>2 DEF CreateWorker, indices, Awake, WorkerType
<1>3. CASE PutFrame
  <2>1. Distance(next_task_index', task_index') <= d + 1
    BY <1>0, <1>3, DistanceMoves, DistanceIs DEF PutFrame
  <2>2. CASE WorkersIn("waiting") = {}
    BY <1>3, <2>2 DEF PutFrame, Signal, Watched, NoFrameForgotten, WorkersIn
  <2>3. ASSUME NEW w \in WorkersIn("waiting"), worker' = [worker EXCEPT ![w].pc = "woken"]
        PROVE  Watched'
    <3>1. /\ w \in Workers /\ ~Awake(w) /\ Awake(w)'
          /\ \A v \in Workers \ {w} : worker'[v] = worker[v]
      BY <1>0, <2>3 DEF WorkersIn, Awake, WorkerType
    <3>2. Cardinality(AwakeWorkers') = Cardinality(AwakeWorkers) + 1
      BY <3>1, OneAwakes
    <3>3. d <= Cardinality(AwakeWorkers) /\ ~exit
      BY <1>0, <2>3 DEF Watched, NoFrameForgotten, AwakeWorkers
    <3> HIDE DEF d
    <3>4. Age(next_task_index)' <= Cardinality(AwakeWorkers')
      BY <1>0, <2>1, <3>2, <3>3
    <3> QED BY <1>3, <3>3, <3>4 DEF PutFrame, Watched, NoFrameForgotten, AwakeWorkers
  <2> QED BY <1>3, <2>2, <2>3 DEF PutFrame, Signal
<1>4. CASE Free
  <2>1. WorkersIn("waiting")' = {}
    BY <1>0, <1>4 DEF Free, SetPc, WorkersIn, WorkerType
  <2> QED BY <2>1 DEF Watched, NoFrameForgotten
<1>5. ASSUME NEW w \in Workers, Exit(w) PROVE Watched'
  <2>1. WorkersIn("waiting")' = {}
    BY <1>0, <1>5 DEF Exit, Watched, WorkersIn, WorkerType
  <2> QED BY <2>1 DEF Watched, NoFrameForgotten
<1>6. ASSUME NEW w \in Workers, Wait(w) PROVE Watched'
  <2>1. Distance(next_task_index', task_index') = 0
    BY <1>0, <1>6, DistanceIs DEF Wait, caller
  <2> QED BY <1>0, <1>6, <2>1 DEF Wait, caller, Watched, NoFrameForgotten, AwakeWorkers
<1>7. ASSUME NEW w \in Workers, Take(w) PROVE Watched'
  <2>1. /\ Awake(w) /\ ~Awake(w)' /\ \A v \in Workers \ {w} : worker'[v] = worker[v]
        /\ WorkersIn("waiting")' \subseteq WorkersIn("waiting") /\ ~exit'
    BY <1>0, <1>7 DEF Take, Awake, WorkersIn, WorkerType, caller
  <2>2. Distance(next_task_index', task_index') = d - 1
    BY <1>0, <1>7, DistanceMoves DEF Take, caller
  <2>3. Cardinality(AwakeWorkers') = Cardinality(AwakeWorkers) - 1
    BY <2>1, OneLeaves
  <2>4. WorkersIn("waiting") # {} => d <= Cardinality(AwakeWorkers)
    BY <1>0 DEF Watched, NoFrameForgotten, AwakeWorkers
  <2> HIDE DEF d
  <2>5. WorkersIn("waiting")' # {} => Age(next_task_index)' <= Cardinality(AwakeWorkers')
    BY <1>0, <2>1, <2>2, <2>3, <2>4
  <2> QED BY <2>1, <2>5 DEF Watched, NoFrameForgotten, AwakeWorkers
<1>8. ASSUME NEW w \in Workers, Encode(w) \/ SpuriousWake(w) PROVE Watched'
  BY <1>0, <1>1, <1>8 DEF Encode, SpuriousWake, Awake, caller, WorkerType
<1>9. CASE UNCHANGED <<task_index, next_task_index, exit, worker>>
  BY <1>1, <1>9 DEF Awake
<1> QED BY <1>2, <1>3, <1>4, <1>5, <1>6, <1>7, <1>8, <1>9
    DEF Next, Calls, Inside, Worker, Drain, Close, CreateFails, NoResult, Result, Join,
        evars, indices

\* One signal per frame is enough, however many workers there are and whenever they
\* sleep: no wake-up is lost.
THEOREM NoneForgotten == Spec => []NoFrameForgotten
<1>1. Ring => TypeOK
  BY DEF Ring, TasksOwned
<1>2. Watched => NoFrameForgotten
  BY DEF Watched
<1>3. Watched /\ Ring /\ Ring' /\ [Next]_evars => Watched'
  <2> SUFFICES ASSUME Watched, Ring, Ring', [Next]_evars PROVE Watched'
    OBVIOUS
  <2>1. TypeOK /\ TypeOK'
    BY DEF Ring, TasksOwned
  <2> QED BY <2>1, WatchedStep
<1> QED BY <1>2, <1>3, RingInvariant, WatchedInit, PTL DEF Spec
=============================================================================

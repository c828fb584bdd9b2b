------------------------- MODULE FrameThreadEncoder -------------------------
(***************************************************************************)
(* Frame-threaded encoding: libavcodec/frame_thread_encoder.c, called from *)
(* the simple encoding loop of libavcodec/encode.c.  The calling thread    *)
(* puts frames into a ring of tasks, the workers take the next one of the  *)
(* ring, and the calling thread takes the results out in the order of the  *)
(* ring.  Two mutexes: one guards task_index and next_task_index, the      *)
(* other the `finished' flags; a task itself has no lock.                  *)
(*                                                                         *)
(* Frames are numbered as they are put in.  Every action is one critical   *)
(* section, up to the next wait.                                           *)
(***************************************************************************)
EXTENDS Integers, Sequences, FiniteSets

CONSTANTS
  ThreadCount,      \* avctx->thread_count
  MaxFrames         \* bound: frames that the user sends

ASSUME EncoderAssumption == ThreadCount \in Nat /\ ThreadCount > 1 /\ MaxFrames \in Nat

VARIABLES
  pc,               \* where the calling thread is
  created,          \* threads created; at the end, the workers still to join
  draining,         \* avctx->internal->draining
  draining_done,    \* avctx->internal->draining_done: the user is given the EOF
  task_index,       \* the next task to put a frame into
  next_task_index,  \* the next task for a worker
  finished_task_index,  \* the next task to take a result from
  exit,             \* the workers shall end
  tasks,            \* the ring
  worker,           \* pc and task of every worker
  last,             \* history: number of the last frame put in
  given             \* history: the last result handed out, packet or error

evars == <<pc, created, draining, draining_done, task_index, next_task_index,
           finished_task_index, exit, tasks, worker, last, given>>

MaxTasks == ThreadCount + 2
Tasks    == 0 .. MaxTasks - 1
Workers  == 1 .. ThreadCount

After(i) == (i + 1) % MaxTasks

NoTask == [id |-> 0, finished |-> FALSE, got_packet |-> FALSE, items |-> <<>>]

Init == /\ pc = "init" /\ created = 0
        /\ draining = FALSE /\ draining_done = FALSE
        /\ task_index = 0 /\ next_task_index = 0 /\ finished_task_index = 0
        /\ exit = FALSE
        /\ tasks = [i \in Tasks |-> NoTask]
        /\ worker = [w \in Workers |-> [pc |-> "none", task |-> 0]]
        /\ last = 0 /\ given = [id |-> 0, item |-> "none"]

ends    == <<draining, draining_done>>
indices == <<task_index, next_task_index, finished_task_index>>
past    == <<last, given>>

WorkersIn(p) == {w \in Workers : worker[w].pc = p}
SetPc(p) == [w \in Workers |-> [worker[w] EXCEPT !.pc = IF @ \in {"waiting", "woken"} THEN p ELSE @]]

\* pthread_cond_signal() wakes one of the waiting workers, if there is one.
Signal == IF WorkersIn("waiting") = {} THEN UNCHANGED worker
          ELSE \E w \in WorkersIn("waiting") : worker' = [worker EXCEPT ![w].pc = "woken"]
-----------------------------------------------------------------------------
(* The calling thread                                                      *)

\* ff_frame_thread_encoder_init() creates one more worker.
CreateWorker == /\ pc = "init"
                /\ created' = created + 1
                /\ worker' = [worker EXCEPT ![created + 1].pc = "top"]
                /\ pc' = IF created' = ThreadCount THEN "user" ELSE "init"
                /\ UNCHANGED <<ends, indices, exit, tasks, past>>

\* It fails: thread_count is lowered to what there is, and that is freed.
CreateFails == /\ pc = "init"
               /\ pc' = "free"
               /\ UNCHANGED <<created, ends, indices, exit, tasks, worker, past>>

\* Mutant: no worker is told about the frame.
PutSilently == /\ pc = "user" /\ ~draining /\ last < MaxFrames
               /\ tasks' = [tasks EXCEPT ![task_index].id = last + 1]
               /\ task_index' = After(task_index)
               /\ last' = last + 1
               /\ pc' = "frame"
               /\ UNCHANGED <<created, ends, next_task_index, finished_task_index, exit,
                              worker, given>>

\* A call of the user: a frame, from which encode_simple_internal() goes on with
\* ff_thread_video_encode_frame().  The task is filled without a lock.
PutFrame == /\ pc = "user" /\ ~draining /\ last < MaxFrames
            /\ tasks' = [tasks EXCEPT ![task_index].id = last + 1]
            /\ task_index' = After(task_index)
            /\ last' = last + 1
            /\ Signal
            /\ pc' = "frame"
            /\ UNCHANGED <<created, ends, next_task_index, finished_task_index, exit, given>>

\* The user sends no frame any more: that call, and every later one, drains.
Drain == /\ pc = "user" /\ ~draining_done
         /\ draining' = TRUE
         /\ pc' = "drain"
         /\ UNCHANGED <<created, draining_done, indices, exit, tasks, worker, past>>

Outstanding == (task_index - finished_task_index) % MaxTasks
Oldest      == tasks[finished_task_index]

\* Mutant: an unfinished result may also be left behind in a full ring.
LeftForLaterTwice == pc = "frame" /\ ~Oldest.finished /\ Outstanding <= ThreadCount + 1

\* With a frame in hand, a result that is not ready can wait until the ring is full.
LeftForLater == pc = "frame" /\ ~Oldest.finished /\ Outstanding <= ThreadCount

\* The call ends without a result; if it drains, that is the end.
NoResult == /\ pc \in {"frame", "drain"}
            /\ Outstanding = 0 \/ LeftForLater
            /\ draining_done' = draining
            /\ pc' = "user"
            /\ UNCHANGED <<created, draining, indices, exit, tasks, worker, past>>

\* Mutant: a full ring is not waited for.
ResultAtOnce ==
  /\ pc \in {"frame", "drain"}
  /\ Outstanding # 0 /\ ~LeftForLater
  /\ tasks' = [tasks EXCEPT ![finished_task_index] = NoTask]
  /\ finished_task_index' = After(finished_task_index)
  /\ given' = IF Oldest.items = <<>> THEN given
              ELSE [id |-> Oldest.id, item |-> Head(Oldest.items)]
  /\ draining_done' = (draining /\ ~Oldest.got_packet)
  /\ pc' = "user"
  /\ UNCHANGED <<created, draining, task_index, next_task_index, exit, worker, last>>

\* A result is taken, at once or after waiting for it.  If it is no packet,
\* encode_simple_internal() is called again, which has no other frame or is done.
Result ==
  /\ pc \in {"frame", "drain"}
  /\ Outstanding # 0 /\ ~LeftForLater
  /\ Oldest.finished
  /\ tasks' = [tasks EXCEPT ![finished_task_index] = NoTask]
  /\ finished_task_index' = After(finished_task_index)
  /\ given' = IF Oldest.items = <<>> THEN given
              ELSE [id |-> Oldest.id, item |-> Head(Oldest.items)]
  /\ draining_done' = (draining /\ ~Oldest.got_packet)
  /\ pc' = "user"
  /\ UNCHANGED <<created, draining, task_index, next_task_index, exit, worker, last>>

\* ff_frame_thread_encoder_free() when the encoder is closed.
Close == /\ pc = "user"
         /\ pc' = "free"
         /\ UNCHANGED <<created, ends, indices, exit, tasks, worker, past>>

\* Mutant: a worker that waits is not woken.
FreeSilently == /\ pc = "free"
                /\ exit' = (created > 0)
                /\ pc' = "join"
                /\ UNCHANGED <<created, ends, indices, tasks, worker, past>>

Free == /\ pc = "free"
        /\ exit' = (created > 0)
        /\ worker' = SetPc("woken")
        /\ pc' = "join"
        /\ UNCHANGED <<created, ends, indices, tasks, past>>

\* The workers are joined in order; then everything is freed.
Join == /\ pc = "join"
        /\ \A w \in 1 .. created : worker[w].pc = "exited"
        /\ pc' = "done"
        /\ UNCHANGED <<created, ends, indices, exit, tasks, worker, past>>

Calls  == PutFrame \/ Drain \/ Close
Inside == CreateWorker \/ CreateFails \/ NoResult \/ Result \/ Free \/ Join
-----------------------------------------------------------------------------
(* worker()                                                                *)

caller == <<pc, created, draining, draining_done, task_index, finished_task_index, exit,
            last, given>>

Awake(w) == worker[w].pc \in {"top", "woken"}

Exit(w) == /\ Awake(w) /\ exit
           /\ worker' = [worker EXCEPT ![w].pc = "exited"]
           /\ UNCHANGED <<caller, next_task_index, tasks>>

Wait(w) == /\ Awake(w) /\ ~exit /\ next_task_index = task_index
           /\ worker' = [worker EXCEPT ![w].pc = "waiting"]
           /\ UNCHANGED <<caller, next_task_index, tasks>>

Take(w) == /\ Awake(w) /\ ~exit /\ next_task_index # task_index
           /\ worker' = [worker EXCEPT ![w] = [pc |-> "encode", task |-> next_task_index]]
           /\ next_task_index' = After(next_task_index)
           /\ UNCHANGED <<caller, tasks>>

\* The frame is encoded: a packet, no packet (a frame that the codec skips) or an
\* error.  With an error got_packet says nothing: it is as the last frame of this
\* task has left it, or the codec has set it and ff_encode_encode_cb() failed then.
Encode(w) ==
  /\ worker[w].pc = "encode"
  /\ \E got \in BOOLEAN, items \in {<<"packet">>, <<>>, <<"error">>} :
       /\ items # <<"error">> => got = (items # <<>>)
       /\ tasks' = [tasks EXCEPT ![worker[w].task] =
            [id |-> @.id, finished |-> TRUE, got_packet |-> got, items |-> items]]
  /\ worker' = [worker EXCEPT ![w] = [pc |-> "top", task |-> 0]]
  /\ UNCHANGED <<caller, next_task_index>>

SpuriousWake(w) == /\ worker[w].pc = "waiting"
                   /\ worker' = [worker EXCEPT ![w].pc = "woken"]
                   /\ UNCHANGED <<caller, next_task_index, tasks>>

Worker(w) == Exit(w) \/ Wait(w) \/ Take(w) \/ Encode(w)

Next == Calls \/ Inside \/ \E w \in Workers : Worker(w) \/ SpuriousWake(w)

\* A thread that can go on does; nothing makes the user call again, and nothing
\* wakes a worker that was not signalled.
Fairness == WF_evars(Inside) /\ \A w \in Workers : WF_evars(Worker(w))

Spec == Init /\ [][Next]_evars /\ Fairness
-----------------------------------------------------------------------------
(* Properties                                                              *)

\* The types of the variables.
TypeOK ==
  /\ pc \in {"init", "user", "frame", "drain", "free", "join", "done"}
  /\ created \in 0 .. ThreadCount
  /\ draining \in BOOLEAN /\ draining_done \in BOOLEAN /\ exit \in BOOLEAN
  /\ task_index \in Tasks /\ next_task_index \in Tasks /\ finished_task_index \in Tasks
  /\ tasks \in [Tasks -> [id : 0 .. MaxFrames, finished : BOOLEAN, got_packet : BOOLEAN,
                          items : {<<>>, <<"packet">>, <<"error">>}]]
  /\ worker \in [Workers -> [pc : {"none", "top", "waiting", "woken", "encode", "exited"},
                             task : Tasks]]
  /\ last \in 0 .. MaxFrames
  /\ given \in [id : 0 .. MaxFrames, item : {"none", "packet", "error"}]

\* How far behind task_index a task is; 0 is the task to be filled next.
Age(i) == (task_index - i) % MaxTasks

\* The task the calling thread fills next is nobody's, and a worker's task is
\* nobody else's: at most ThreadCount + 1 tasks are outstanding in a ring of
\* ThreadCount + 2, the workers hold different ones, between the oldest and the
\* next to be taken, and those are not finished.
TasksOwned ==
  LET encoding == WorkersIn("encode") IN
  /\ TypeOK
  /\ Outstanding <= ThreadCount + (IF pc = "user" THEN 0 ELSE 1)
  /\ Age(next_task_index) <= Outstanding
  /\ ~tasks[task_index].finished
  /\ \A w \in encoding : /\ Age(worker[w].task) > Age(next_task_index)
                         /\ Age(worker[w].task) <= Outstanding
                         /\ ~tasks[worker[w].task].finished
                         /\ \A v \in encoding : worker[v].task = worker[w].task => v = w

\* One signal per frame is enough: while a worker sleeps, each task that nobody has
\* taken has a worker of its own on the way to it.
NoFrameForgotten ==
  WorkersIn("waiting") # {} => Age(next_task_index) <= Cardinality({w \in Workers : Awake(w)})

Ordered == INSTANCE OrderedJobs WITH
  Items <- {"packet", "error"},
  jobs <- [i \in 1 .. Outstanding |->
             LET t == tasks[(finished_task_index + i - 1) % MaxTasks] IN
             [id |-> t.id, done |-> t.finished, items |-> t.items]]

\* Packets and errors come out in the order of the frames, none twice, whatever
\* the order in which the workers finish: the ring implements OrderedJobs.
InOrder == Ordered!Spec

\* Every call returns, with draining and freeing, however the workers sleep.
CallsReturn == pc \notin {"user", "done"} ~> pc \in {"user", "done"}
=============================================================================

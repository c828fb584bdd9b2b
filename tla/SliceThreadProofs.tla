------------------------- MODULE SliceThreadProofs -------------------------
(***************************************************************************)
(* Proofs about SliceThread for every number of workers, jobs and calls:   *)
(* the threads of a call keep apart, and each job of a call runs once,     *)
(* between the call and its return.                                        *)
(*                                                                         *)
(* The two counters are understood by counting threads.  A call has as     *)
(* many active threads as it has thread numbers; first_job is the number   *)
(* of those that have begun, and what current_job is ahead of the jobs is  *)
(* the number of those for which the call is over.  So the thread that     *)
(* finds current_job = nb_jobs + nb_active_threads - 1 is the last one.    *)
(***************************************************************************)
EXTENDS SliceThread, FiniteSetTheorems, TLAPS

\* The threads that execute the jobs of the call.
Active == (1 .. NbActiveWorkers) \cup (IF MainFunc THEN {} ELSE {Main})

\* A worker that has no call to answer.
Resting(w) == pc[w] \in {"ran", "signalled"} \/ (Parked(w) /\ wdone[w])

\* Thread t has found no job left; a worker at or after `next' was not yet woken.
Over(t) == \/ pc[t] = "last"
           \/ IF t = Main THEN pc[Main] \in {"ran", "join", "done_wait", "done_woken"}
              ELSE t < next /\ Resting(t)

Begun(t) == pc[t] \in {"run", "fetch"} \/ Over(t)

BegunThreads == {t \in Active : Begun(t)}
OverThreads  == {t \in Active : Over(t)}

Counting ==
  /\ first_job = Cardinality(BegunThreads)
  /\ nb_active_threads <= current_job
  /\ Cardinality(OverThreads) = IF current_job <= nb_jobs THEN 0 ELSE current_job - nb_jobs

Locals ==
  \A t \in BegunThreads :
    /\ local[t].jobs = nb_jobs /\ local[t].active = nb_active_threads
    /\ local[t].first < first_job
    /\ \A u \in BegunThreads : local[u].first = local[t].first => u = t

\* The jobs that were handed out.
Taken(j) == /\ j < nb_jobs
            /\ j < first_job \/ (nb_active_threads <= j /\ j < current_job)

JobsTaken ==
  /\ \A j \in Jobs : runs[j] = IF Taken(j) THEN 1 ELSE 0
  /\ \A t \in Threads : pc[t] = "run" =>
       /\ Taken(local[t].current)
       /\ \A u \in Threads : pc[u] = "run" /\ local[u].current = local[t].current => u = t

Ends ==
  /\ \A t \in Threads : pc[t] = "last" =>
       OverThreads = Active /\ ~done /\ \A u \in Threads : pc[u] = "last" => u = t
  /\ done => OverThreads = Active

\* Where the threads can be in a call.
Places ==
  /\ ~finished
  /\ nb_jobs \in 1 .. MaxJobs /\ nb_active_threads = Smaller(nb_jobs, NbThreads)
  /\ next \in 1 .. NbActiveWorkers + 1
  /\ pc[Main] # "wake" => next = NbActiveWorkers + 1
  /\ pc[Main] \in {"start", "run", "fetch", "last", "ran"} => ~MainFunc
  /\ pc[Main] = "main_func" => MainFunc
  /\ \A w \in Workers : \/ Resting(w)
                        \/ /\ w < next
                           /\ \/ pc[w] \in {"start", "run", "fetch", "last"}
                              \/ pc[w] = "woken" /\ ~wdone[w]

Call == Places /\ Counting /\ Locals /\ JobsTaken /\ Ends

Creating ==
  /\ ~finished /\ ~done /\ next \in 1 .. NbWorkers + 1
  /\ pc[Main] # "create" => next \in Workers
  /\ \A w \in Workers :
       /\ w < next => Parked(w) /\ wdone[w]
       /\ w > next => pc[w] = "none"
       /\ w = next => IF pc[Main] = "create" THEN pc[w] = "none"
                      ELSE (pc[w] = "new" /\ ~wdone[w]) \/ (Parked(w) /\ wdone[w])

Idle == ~finished /\ ~done /\ \A w \in Workers : Resting(w)

Freeing ==
  /\ finished /\ ~done
  /\ \A w \in Workers : pc[w] \in {"none", "ran", "signalled", "wait", "woken", "exit"}

MainStates == {"create", "create_wait", "create_woken", "idle", "wake", "start", "run",
               "fetch", "last", "ran", "main_func", "join", "done_wait", "done_woken",
               "free", "freed"}

Stages ==
  /\ pc[Main] \in MainStates
  /\ \/ pc[Main] \in {"create", "create_wait", "create_woken"} /\ Creating
     \/ pc[Main] = "idle" /\ Idle
     \/ InCall /\ Call
     \/ pc[Main] \in {"free", "freed"} /\ Freeing

IInv == TypeOK /\ Stages
-----------------------------------------------------------------------------
(* The threads of a call.                                                   *)

LEMMA NumbersAre ==
  /\ NbWorkers \in Nat \ {0} /\ MaxJobs \in Nat \ {0} /\ MaxCalls \in Nat
  /\ NbThreads \in Nat /\ NbWorkers <= NbThreads /\ NbThreads <= NbWorkers + 1
  /\ main_func => NbThreads = NbWorkers
  /\ Main \in Threads /\ Main \notin Workers /\ Workers \subseteq Threads /\ Main = 0
  /\ \A w \in Workers : w \in Nat /\ 1 <= w /\ w <= NbWorkers
BY SliceAssumption DEF NbThreads, Main, Workers, Threads

LEMMA ActiveIs ==
  ASSUME TypeOK, Places
  PROVE  /\ nb_active_threads \in Nat /\ 1 <= nb_active_threads
         /\ nb_active_threads <= nb_jobs /\ nb_active_threads <= NbThreads
         /\ nb_jobs \in Nat /\ NbActiveWorkers \in 0 .. NbWorkers
         /\ Active \subseteq Threads /\ IsFiniteSet(Active)
         /\ Cardinality(Active) = nb_active_threads
<1>1. /\ nb_active_threads \in Nat /\ 1 <= nb_active_threads
      /\ nb_active_threads <= nb_jobs /\ nb_active_threads <= NbThreads /\ nb_jobs \in Nat
  BY NumbersAre DEF Places, Smaller
<1>2. NbActiveWorkers \in 0 .. NbWorkers
  BY <1>1, NumbersAre DEF NbActiveWorkers, MainFunc
<1>3. IsFiniteSet(1 .. NbActiveWorkers) /\ Cardinality(1 .. NbActiveWorkers) = NbActiveWorkers
  BY <1>2, FS_Interval, NumbersAre
<1>4. CASE MainFunc
  <2>1. Active = 1 .. NbActiveWorkers /\ NbActiveWorkers = nb_active_threads
    BY <1>4 DEF Active, NbActiveWorkers
  <2> QED BY <1>1, <1>2, <1>3, <2>1, NumbersAre DEF Threads, Workers
<1>5. CASE ~MainFunc
  <2>1. Active = (1 .. NbActiveWorkers) \cup {Main} /\ NbActiveWorkers = nb_active_threads - 1
    BY <1>5 DEF Active, NbActiveWorkers
  <2>2. Main \notin 1 .. NbActiveWorkers
    BY NumbersAre
  <2>3. IsFiniteSet(Active) /\ Cardinality(Active) = NbActiveWorkers + 1
    BY <1>3, <2>1, <2>2, FS_AddElement
  <2>4. Active \subseteq Threads
    <3>1. ASSUME NEW w \in 1 .. NbActiveWorkers PROVE w \in Workers
      BY <1>2, NumbersAre DEF Workers
    <3> QED BY <2>1, <3>1 DEF Threads
  <2> QED BY <1>1, <1>2, <2>1, <2>3, <2>4
<1> QED BY <1>4, <1>5

LEMMA CountsAre ==
  ASSUME TypeOK, Places
  PROVE  /\ OverThreads \subseteq BegunThreads /\ BegunThreads \subseteq Active
         /\ IsFiniteSet(BegunThreads) /\ Cardinality(BegunThreads) \in Nat
         /\ Cardinality(BegunThreads) <= nb_active_threads
         /\ IsFiniteSet(OverThreads) /\ Cardinality(OverThreads) \in Nat
         /\ Cardinality(OverThreads) <= nb_active_threads
         /\ Cardinality(BegunThreads) = nb_active_threads => BegunThreads = Active
         /\ Cardinality(OverThreads) = nb_active_threads => OverThreads = Active
<1>1. OverThreads \subseteq BegunThreads /\ BegunThreads \subseteq Active /\ OverThreads \subseteq Active
  BY DEF OverThreads, BegunThreads, Begun
<1>2. IsFiniteSet(Active) /\ Cardinality(Active) = nb_active_threads
  BY ActiveIs
<1> QED BY <1>1, <1>2, FS_Subset, FS_CardinalityType

\* A thread with a job, or on the way to one, is in a call and active.
LEMMA WorksInCall ==
  ASSUME IInv, NEW t \in Threads, pc[t] \in {"start", "run", "fetch", "last"}
  PROVE  InCall /\ Call /\ t \in Active /\ (t # Main => t \in Workers /\ t < next)
<1>1. CASE t = Main
  <2>1. InCall
    BY <1>1 DEF InCall
  <2>2. Call
    BY <2>1 DEF IInv, Stages, InCall
  <2>3. ~MainFunc
    BY <1>1, <2>2 DEF Call, Places
  <2> QED BY <1>1, <2>1, <2>2, <2>3 DEF Active
<1>2. CASE t # Main
  <2>1. t \in Workers
    BY <1>2 DEF Threads
  <2>2. ~Resting(t) /\ ~Parked(t)
    BY DEF Resting, Parked
  <2>3. ~Creating
    <3>1. SUFFICES ASSUME Creating PROVE FALSE
      OBVIOUS
    <3>2. next \in Int /\ t \in Int
      BY <2>1, NumbersAre DEF IInv, TypeOK
    <3>3. t < next \/ t > next \/ t = next
      BY <3>2
    <3> QED BY <2>1, <2>2, <3>1, <3>3 DEF Creating
  <2>4. ~Idle /\ ~Freeing
    BY <2>1, <2>2 DEF Idle, Freeing
  <2>5. InCall /\ Call
    BY <2>3, <2>4 DEF IInv, Stages
  <2>6. t < next /\ next \in 1 .. NbActiveWorkers + 1
    BY <2>1, <2>2, <2>5 DEF Call, Places
  <2>7. NbActiveWorkers \in 0 .. NbWorkers
    BY <2>5, ActiveIs DEF IInv, Call
  <2>8. t \in 1 .. NbActiveWorkers
    BY <2>1, <2>6, <2>7, NumbersAre
  <2> QED BY <1>2, <2>1, <2>5, <2>6, <2>8 DEF Active
<1> QED BY <1>1, <1>2

\* There is a number and a job for a thread that begins.
LEMMA RoomToBegin ==
  ASSUME IInv, NEW t \in Threads, pc[t] = "start"
  PROVE  /\ t \in Active \ BegunThreads
         /\ first_job \in Nat /\ first_job < nb_active_threads
<1>1. Call /\ t \in Active /\ TypeOK
  BY WorksInCall DEF IInv
<1>2. t \notin BegunThreads
  BY NumbersAre DEF BegunThreads, Begun, Over, Resting, Parked
<1>3. first_job = Cardinality(BegunThreads) /\ Places
  BY <1>1 DEF Call, Counting
<1>4. BegunThreads # Active
  BY <1>1, <1>2
<1> QED BY <1>1, <1>2, <1>3, <1>4, CountsAre, ActiveIs

\* Before the last thread finds no job all others have.
LEMMA RoomToEnd ==
  ASSUME IInv, NEW t \in Threads, pc[t] = "fetch"
  PROVE  /\ t \in BegunThreads \ OverThreads
         /\ current_job < nb_jobs + nb_active_threads
         /\ current_job = nb_jobs + nb_active_threads - 1 => OverThreads = Active \ {t}
<1>1. Call /\ t \in Active /\ TypeOK
  BY WorksInCall DEF IInv
<1>2. t \in BegunThreads \ OverThreads
  BY <1>1, NumbersAre DEF BegunThreads, OverThreads, Begun, Over, Resting, Parked
<1>3. /\ Cardinality(OverThreads) = IF current_job <= nb_jobs THEN 0 ELSE current_job - nb_jobs
      /\ current_job \in Nat /\ Places
  BY <1>1, NumbersAre DEF Call, Counting, TypeOK
<1>4. /\ nb_active_threads \in Nat /\ 1 <= nb_active_threads /\ nb_jobs \in Nat
      /\ IsFiniteSet(Active) /\ Cardinality(Active) = nb_active_threads
  BY <1>1, <1>3, ActiveIs
<1>5. IsFiniteSet(Active \ {t}) /\ Cardinality(Active \ {t}) = nb_active_threads - 1
  BY <1>1, <1>4, FS_RemoveElement
<1>6. OverThreads \subseteq Active \ {t}
  BY <1>2 DEF OverThreads
<1>7. /\ Cardinality(OverThreads) <= nb_active_threads - 1
      /\ Cardinality(OverThreads) = nb_active_threads - 1 => OverThreads = Active \ {t}
  BY <1>5, <1>6, FS_Subset
<1>8. nb_active_threads = 1 => OverThreads = Active \ {t}
  <2>1. ASSUME nb_active_threads = 1 PROVE OverThreads = Active \ {t}
    <3>1. Cardinality(OverThreads) \in Nat
      BY <1>1, <1>3, CountsAre
    <3> QED BY <1>7, <2>1, <3>1
  <2> QED BY <2>1
<1>9. current_job < nb_jobs + nb_active_threads
  BY <1>3, <1>4, <1>7
<1>10. ASSUME current_job = nb_jobs + nb_active_threads - 1 PROVE OverThreads = Active \ {t}
  <2>1. CASE nb_active_threads = 1
    BY <1>8, <2>1
  <2>2. CASE nb_active_threads # 1
    <3>1. Cardinality(OverThreads) = nb_active_threads - 1
      BY <1>3, <1>4, <1>10, <2>2
    <3> QED BY <1>7, <3>1
  <2> QED BY <2>1, <2>2
<1> QED BY <1>2, <1>9, <1>10

-----------------------------------------------------------------------------
(* Types.                                                                   *)

Pcs == {"create", "create_wait", "create_woken", "idle", "wake", "start", "run", "fetch",
        "last", "ran", "main_func", "join", "done_wait", "done_woken", "free", "freed",
        "none", "new", "wait", "woken", "signalled", "exit"}

LEMMA TypeInit == Init => TypeOK
<1> SUFFICES ASSUME Init PROVE TypeOK
  OBVIOUS
<1>1. pc \in [Threads -> Pcs]
  BY DEF Init, Pcs
<1>2. /\ local \in [Threads -> [jobs : 0 .. MaxJobs, active : 0 .. NbThreads,
                                first : 0 .. NbThreads, current : 0 .. MaxJobs + NbThreads]]
      /\ runs \in [Jobs -> Nat] /\ wdone \in [Workers -> BOOLEAN]
  BY NumbersAre DEF Init
<1>3. /\ 0 \in 0 .. MaxJobs /\ 0 \in 0 .. NbThreads /\ 0 \in 0 .. MaxJobs + NbThreads
      /\ 1 \in 1 .. NbThreads + 1 /\ 0 \in 0 .. MaxCalls
  BY NumbersAre
<1> QED BY <1>1, <1>2, <1>3 DEF Init, TypeOK, Pcs

LEMMA RunsType ==
  ASSUME runs \in [Jobs -> Nat], NEW j, Started(j)
  PROVE  runs' \in [Jobs -> Nat]
<1>1. CASE j \in Jobs
  BY <1>1 DEF Started
<1>2. CASE j \notin Jobs
  BY <1>2 DEF Started
<1> QED BY <1>1, <1>2

LEMMA PcStep ==
  ASSUME TypeOK, [Next]_vars
  PROVE  pc' \in [Threads -> Pcs]
<1>1. pc \in [Threads -> Pcs] /\ Main \in Threads
  BY NumbersAre DEF TypeOK, Pcs
<1>2. CASE CreateWorker \/ CreateResume \/ CreateDone \/ CreateFail
  BY <1>1, <1>2 DEF CreateWorker, CreateResume, CreateDone, CreateFail, Go, Pcs
<1>3. ASSUME NEW t \in Threads, RunJobs(t) PROVE pc' \in [Threads -> Pcs]
  BY <1>1, <1>3 DEF RunJobs, FirstJob, EndJob, NextJob, Go, Pcs
<1>4. CASE WakeWorker \/ AllAwake \/ MainJoins \/ Join \/ MainLast
  BY <1>1, <1>4 DEF WakeWorker, AllAwake, MainJoins, Join, MainLast, SignalAndGo, Go, Pcs
<1>5. CASE FreeWorker \/ JoinWorkers \/ Free
  BY <1>1, <1>5 DEF FreeWorker, JoinWorkers, Free, SignalAndGo, Go, Pcs
<1>6. ASSUME NEW w \in Workers, Park(w) \/ WorkerResume(w) \/ TellMain(w)
      PROVE  pc' \in [Threads -> Pcs]
  BY <1>1, <1>6 DEF Park, WorkerResume, TellMain, Go, Pcs
<1>7. ASSUME NEW n \in 1 .. MaxJobs, NEW m \in BOOLEAN, Execute(n, m)
      PROVE  pc' \in [Threads -> Pcs]
  BY <1>1, <1>7 DEF Execute, Stores, Go, Pcs
<1>8. ASSUME NEW t \in Threads, SpuriousWake(t) PROVE pc' \in [Threads -> Pcs]
  BY <1>1, <1>8 DEF SpuriousWake, Go, Pcs
<1>9. CASE UNCHANGED vars
  BY <1>1, <1>9 DEF vars
<1> QED BY <1>1, <1>2, <1>3, <1>4, <1>5, <1>6, <1>7, <1>8, <1>9, NumbersAre
        DEF Next, MainStep, WorkerStep

LEMMA TypeStep ==
  ASSUME IInv, [Next]_vars
  PROVE  TypeOK'
<1>0. TypeOK /\ pc' \in [Threads -> Pcs]
  BY PcStep DEF IInv
<1> USE DEF shared
<1>1. CASE CreateWorker \/ CreateDone \/ CreateFail \/ AllAwake \/ MainJoins \/ Join
           \/ MainLast \/ JoinWorkers \/ Free
  <2>1. /\ UNCHANGED <<main_func, nb_jobs, nb_active_threads, first_job, current_job, local,
                       execute_main, runs, calls>>
        /\ done' \in BOOLEAN /\ finished' \in BOOLEAN
    BY <1>0, <1>1
    DEF TypeOK, CreateWorker, CreateDone, CreateFail, AllAwake, MainJoins, Join, MainLast,
        JoinWorkers, Free
  <2>2. wdone' \in [Workers -> BOOLEAN] /\ (next' = next \/ next' = 1)
    BY <1>0, <1>1
    DEF TypeOK, CreateWorker, CreateDone, CreateFail, AllAwake, MainJoins, Join, MainLast,
        JoinWorkers, Free
  <2>3. NbThreads' = NbThreads /\ 1 \in 1 .. NbThreads + 1
    BY <2>1, NumbersAre DEF NbThreads
  <2> QED BY <1>0, <2>1, <2>2, <2>3 DEF TypeOK, Pcs
<1>2. CASE CreateResume
  <2>1. next' \in 1 .. NbThreads + 1 /\ UNCHANGED NbThreads
    <3>1. next \in Workers
      BY <1>2 DEF IInv, Stages, CreateResume, Creating, InCall
    <3> QED BY <1>0, <1>2, <3>1, NumbersAre DEF CreateResume, NbThreads, TypeOK
  <2> QED BY <1>0, <1>2, <2>1 DEF TypeOK, Pcs, CreateResume
<1>3. ASSUME NEW t \in Threads, FirstJob(t) PROVE TypeOK'
  <2>1. first_job \in Nat /\ first_job < nb_active_threads
    BY <1>3, RoomToBegin DEF FirstJob
  <2>2. UNCHANGED NbThreads
    BY <1>3 DEF FirstJob, NbThreads
  <2>3. first_job \in 0 .. NbThreads /\ first_job + 1 \in 0 .. NbThreads
        /\ first_job \in 0 .. MaxJobs + NbThreads
    BY <1>0, <2>1, NumbersAre DEF TypeOK
  <2>4. local' \in [Threads -> [jobs : 0 .. MaxJobs, active : 0 .. NbThreads,
                                 first : 0 .. NbThreads, current : 0 .. MaxJobs + NbThreads]]
    BY <1>0, <1>3, <2>3 DEF TypeOK, FirstJob
  <2>5. runs' \in [Jobs -> Nat]
    BY <1>0, <1>3, RunsType DEF TypeOK, FirstJob
  <2> QED BY <1>0, <1>3, <2>2, <2>3, <2>4, <2>5 DEF TypeOK, Pcs, FirstJob
<1>4. ASSUME NEW t \in Threads, EndJob(t) PROVE TypeOK'
  BY <1>0, <1>4 DEF TypeOK, Pcs, EndJob, NbThreads
<1>5. ASSUME NEW t \in Threads, NextJob(t) PROVE TypeOK'
  <2>1. current_job < nb_jobs + nb_active_threads
    BY <1>5, RoomToEnd DEF NextJob
  <2>2. UNCHANGED NbThreads
    BY <1>5 DEF NextJob, NbThreads
  <2>3. current_job \in 0 .. MaxJobs + NbThreads /\ current_job + 1 \in 0 .. MaxJobs + NbThreads
    BY <1>0, <2>1, NumbersAre DEF TypeOK
  <2>4. local' \in [Threads -> [jobs : 0 .. MaxJobs, active : 0 .. NbThreads,
                                 first : 0 .. NbThreads, current : 0 .. MaxJobs + NbThreads]]
    BY <1>0, <1>5, <2>3 DEF TypeOK, NextJob
  <2>5. runs' \in [Jobs -> Nat]
    BY <1>0, <1>5, RunsType DEF TypeOK, NextJob
  <2> QED BY <1>0, <1>5, <2>2, <2>3, <2>4, <2>5 DEF TypeOK, Pcs, NextJob
<1>6. ASSUME NEW w \in Workers, Park(w) \/ WorkerResume(w) \/ TellMain(w) PROVE TypeOK'
  <2>1. /\ UNCHANGED <<main_func, nb_jobs, nb_active_threads, first_job, current_job, local,
                       execute_main, runs, calls, next, finished>>
        /\ done' \in BOOLEAN /\ wdone' \in [Workers -> BOOLEAN]
    BY <1>0, <1>6 DEF TypeOK, Park, WorkerResume, TellMain
  <2>2. NbThreads' = NbThreads
    BY <2>1 DEF NbThreads
  <2> QED BY <1>0, <2>1, <2>2 DEF TypeOK, Pcs
<1>7. ASSUME NEW n \in 1 .. MaxJobs, NEW m \in BOOLEAN, Execute(n, m) PROVE TypeOK'
  <2>1. Smaller(n, NbThreads) \in 0 .. NbThreads
    BY NumbersAre DEF Smaller
  <2>2. Smaller(n, NbThreads) \in 0 .. MaxJobs + NbThreads /\ 0 \in 0 .. NbThreads
        /\ n \in 0 .. MaxJobs /\ 1 \in 1 .. NbThreads + 1
    BY <2>1, NumbersAre
  <2>3. calls' \in 0 .. MaxCalls /\ runs' \in [Jobs -> Nat]
    BY <1>0, <1>7, NumbersAre DEF Execute, Stores, TypeOK
  <2>4. UNCHANGED NbThreads
    BY <1>7 DEF Execute, Stores, NbThreads
  <2> QED BY <1>0, <1>7, <2>1, <2>2, <2>3, <2>4 DEF TypeOK, Pcs, Execute, Stores
<1>8. CASE WakeWorker \/ FreeWorker
  <2>1. next \in Workers /\ next' = next + 1 /\ UNCHANGED NbThreads
    <3>1. CASE WakeWorker
      <4>1. InCall /\ Call
        BY <3>1 DEF IInv, Stages, WakeWorker, InCall
      <4>2. NbActiveWorkers \in 0 .. NbWorkers
        BY <1>0, <4>1, ActiveIs DEF Call
      <4> QED BY <1>0, <3>1, <4>2, NumbersAre DEF WakeWorker, Workers, NbThreads, TypeOK
    <3>2. CASE FreeWorker
      BY <3>2 DEF FreeWorker, Created, NbThreads
    <3> QED BY <1>8, <3>1, <3>2
  <2>2. next' \in 1 .. NbThreads + 1
    BY <2>1, NumbersAre
  <2> QED BY <1>0, <1>8, <2>1, <2>2 DEF TypeOK, Pcs, WakeWorker, FreeWorker
<1>9. ASSUME NEW t \in Threads, SpuriousWake(t) PROVE TypeOK'
  BY <1>0, <1>9 DEF TypeOK, Pcs, SpuriousWake, NbThreads
<1>10. CASE UNCHANGED vars
  BY <1>0, <1>10 DEF TypeOK, Pcs, vars, NbThreads
<1> QED BY <1>1, <1>2, <1>3, <1>4, <1>5, <1>6, <1>7, <1>8, <1>9, <1>10, NumbersAre
        DEF Next, MainStep, WorkerStep, RunJobs

-----------------------------------------------------------------------------
(* Steps inside a call that no counter notices.                             *)

\* What such a step may do.
Quiet ==
  /\ UNCHANGED <<shared, local, runs, execute_main>>
  /\ \A t \in Active : (Begun(t)' <=> Begun(t)) /\ (Over(t)' <=> Over(t))
  /\ \A t \in Threads : pc'[t] = "run" => pc[t] = "run"
  /\ \A t \in Threads : pc'[t] = "last" => pc[t] = "last" /\ ~done'
  /\ done' => OverThreads = Active

LEMMA QuietStep ==
  ASSUME Call, Quiet, Places'
  PROVE  Call'
<1>1. /\ Active' = Active
      /\ UNCHANGED <<nb_jobs, nb_active_threads, first_job, current_job, local, runs>>
  BY DEF Quiet, shared, Active, NbActiveWorkers, MainFunc
<1>2. BegunThreads' = BegunThreads /\ OverThreads' = OverThreads
  BY <1>1 DEF Quiet, BegunThreads, OverThreads
<1>3. Counting'
  BY <1>1, <1>2 DEF Call, Counting
<1>4. Locals'
  BY <1>1, <1>2 DEF Call, Locals
<1>5. JobsTaken'
  BY <1>1 DEF Call, JobsTaken, Quiet, Taken
<1>6. Ends'
  BY <1>1, <1>2 DEF Call, Ends, Quiet
<1> QED BY <1>3, <1>4, <1>5, <1>6 DEF Call

LEMMA Goes ==
  ASSUME TypeOK, NEW t \in Threads, NEW p, Go(t, p)
  PROVE  pc'[t] = p /\ \A u \in Threads : u # t => pc'[u] = pc[u]
BY DEF TypeOK, Go

LEMMA Signals ==
  ASSUME TypeOK, NEW w \in Workers, NEW p, SignalAndGo(w, p)
  PROVE  /\ pc'[w] = (IF pc[w] = "wait" THEN "woken" ELSE pc[w]) /\ pc'[Main] = p
         /\ \A u \in Workers : u # w => pc'[u] = pc[u]
BY NumbersAre DEF TypeOK, SignalAndGo

\* Where a step of thread t leaves the other workers.
LEMMA OthersStay ==
  ASSUME NEW u \in Workers, pc'[u] = pc[u], wdone'[u] = wdone[u], next' = next
  PROVE  /\ Resting(u)' <=> Resting(u)
         /\ Over(u)' <=> Over(u)
         /\ Begun(u)' <=> Begun(u)
BY NumbersAre DEF Resting, Over, Begun, Parked

LEMMA MainStays ==
  ASSUME pc'[Main] = pc[Main]
  PROVE  (Over(Main)' <=> Over(Main)) /\ (Begun(Main)' <=> Begun(Main))
BY DEF Over, Begun

LEMMA InActive ==
  ASSUME TypeOK, Places, NEW t \in Active
  PROVE  t \in Threads /\ (t \in Workers \/ (t = Main /\ ~MainFunc))
<1>1. t \in Threads
  BY ActiveIs
<1>2. NbActiveWorkers \in 0 .. NbWorkers
  BY ActiveIs
<1> QED BY <1>1, <1>2, NumbersAre DEF Threads, Active, Workers

\* The part of Places that does not say where a thread is.
LEMMA SamePlaces ==
  ASSUME Places, UNCHANGED <<shared, execute_main, finished>>
  PROVE  /\ ~finished'
         /\ nb_jobs' \in 1 .. MaxJobs /\ nb_active_threads' = Smaller(nb_jobs', NbThreads')
         /\ NbActiveWorkers' = NbActiveWorkers /\ (MainFunc' <=> MainFunc) /\ Active' = Active
BY DEF Places, shared, NbActiveWorkers, MainFunc, Active, NbThreads

LEMMA EndJobStep ==
  ASSUME IInv, NEW t \in Threads, EndJob(t)
  PROVE  InCall' /\ Call'
<1>1. InCall /\ Call /\ t \in Active /\ (t # Main => t \in Workers /\ t < next) /\ TypeOK
  BY WorksInCall DEF EndJob, IInv
<1>2. /\ pc[t] = "run" /\ pc'[t] = "fetch" /\ \A u \in Threads : u # t => pc'[u] = pc[u]
      /\ UNCHANGED <<shared, done, finished, wdone, local, next, execute_main, runs, calls>>
  BY <1>1, Goes DEF EndJob
<1>3. InCall'
  BY <1>1, <1>2, NumbersAre DEF InCall
<1>4. Places'
  <2>1. pc'[Main] # "wake" => next' = NbActiveWorkers + 1
    BY <1>1, <1>2, NumbersAre DEF Call, Places
  <2>2. \A w \in Workers : Resting(w)' \/
          /\ w < next'
          /\ pc'[w] \in {"start", "run", "fetch", "last"} \/ (pc'[w] = "woken" /\ ~wdone'[w])
    BY <1>1, <1>2, OthersStay, NumbersAre DEF Call, Places
  <2>3. /\ pc'[Main] \in {"start", "run", "fetch", "last", "ran"} => ~MainFunc
        /\ pc'[Main] = "main_func" => MainFunc
    BY <1>1, <1>2, NumbersAre DEF Call, Places
  <2>4. next' \in 1 .. NbActiveWorkers + 1 /\ Places
    BY <1>1, <1>2 DEF Call, Places
  <2> QED BY <1>2, <2>1, <2>2, <2>3, <2>4, SamePlaces DEF Places
<1>5. Quiet
  <2>1. \A u \in Active : (Begun(u)' <=> Begun(u)) /\ (Over(u)' <=> Over(u))
    <3>1. TAKE u \in Active
    <3>2. u \in Threads /\ (u \in Workers \/ u = Main) /\ (t \in Workers \/ t = Main)
      BY <1>1, InActive DEF Call
    <3>3. CASE u = t
      BY <1>2, <3>2, <3>3, NumbersAre DEF Begun, Over, Resting, Parked
    <3>4. CASE u # t
      BY <1>2, <3>2, <3>4, OthersStay, MainStays
    <3> QED BY <3>3, <3>4
  <2> QED BY <1>1, <1>2, <2>1 DEF Quiet, Call, Ends
<1> QED BY <1>1, <1>3, <1>4, <1>5, QuietStep

\* A step of worker w that the counters do not notice.
LEMMA WorkerMoves ==
  ASSUME TypeOK, InCall, Places, NEW w \in Workers,
         UNCHANGED <<shared, finished, local, next, execute_main, runs>>,
         \A u \in Workers : u # w => pc'[u] = pc[u] /\ wdone'[u] = wdone[u],
         pc'[Main] = pc[Main] \/ (pc[Main] = "done_wait" /\ pc'[Main] = "done_woken"),
         \/ Resting(w)'
         \/ /\ w < next
            /\ pc'[w] \in {"start", "run", "fetch", "last"} \/ (pc'[w] = "woken" /\ ~wdone'[w]),
         Over(w)' <=> Over(w), Begun(w)' <=> Begun(w)
  PROVE  /\ InCall' /\ Places'
         /\ \A u \in Active : (Begun(u)' <=> Begun(u)) /\ (Over(u)' <=> Over(u))
<1>1. InCall'
  BY DEF InCall
<1>2. \A u \in Workers : Resting(u)' \/
        /\ u < next'
        /\ pc'[u] \in {"start", "run", "fetch", "last"} \/ (pc'[u] = "woken" /\ ~wdone'[u])
  <2>1. TAKE u \in Workers
  <2>2. CASE u = w
    BY <2>2
  <2>3. CASE u # w
    <3>1. pc'[u] = pc[u] /\ (Resting(u)' <=> Resting(u)) /\ wdone'[u] = wdone[u]
      BY <2>3, OthersStay
    <3> QED BY <3>1 DEF Places
  <2> QED BY <2>2, <2>3
<1>3. /\ pc'[Main] # "wake" => next' = NbActiveWorkers + 1
      /\ pc'[Main] \in {"start", "run", "fetch", "last", "ran"} => ~MainFunc
      /\ pc'[Main] = "main_func" => MainFunc
      /\ next' \in 1 .. NbActiveWorkers + 1
  BY DEF Places
<1>4. Places'
  BY <1>2, <1>3, SamePlaces DEF Places
<1>5. \A u \in Active : (Begun(u)' <=> Begun(u)) /\ (Over(u)' <=> Over(u))
  <2>1. TAKE u \in Active
  <2>2. u \in Workers \/ u = Main
    BY InActive
  <2>3. CASE u = w
    BY <2>3
  <2>4. CASE u \in Workers /\ u # w
    BY <2>4, OthersStay
  <2>5. CASE u = Main
    BY <2>5 DEF Begun, Over
  <2> QED BY <2>2, <2>3, <2>4, <2>5
<1> QED BY <1>1, <1>4, <1>5

\* The same of a step of the main thread alone.
LEMMA MainMoves ==
  ASSUME TypeOK, Places,
         UNCHANGED <<shared, finished, wdone, local, next, execute_main, runs>>,
         \A u \in Workers : pc'[u] = pc[u],
         InCall', pc'[Main] # "wake" => next = NbActiveWorkers + 1,
         pc'[Main] \in {"start", "run", "fetch", "last", "ran"} => ~MainFunc,
         pc'[Main] = "main_func" => MainFunc,
         MainFunc \/ ((Over(Main)' <=> Over(Main)) /\ (Begun(Main)' <=> Begun(Main)))
  PROVE  /\ Places'
         /\ \A u \in Active : (Begun(u)' <=> Begun(u)) /\ (Over(u)' <=> Over(u))
<1>1. \A u \in Workers : Resting(u)' \/
        /\ u < next'
        /\ pc'[u] \in {"start", "run", "fetch", "last"} \/ (pc'[u] = "woken" /\ ~wdone'[u])
  BY OthersStay DEF Places
<1>2. next' \in 1 .. NbActiveWorkers + 1
  BY DEF Places
<1>3. Places'
  BY <1>1, <1>2, SamePlaces DEF Places
<1>4. \A u \in Active : (Begun(u)' <=> Begun(u)) /\ (Over(u)' <=> Over(u))
  <2>1. TAKE u \in Active
  <2>2. u \in Workers \/ (u = Main /\ ~MainFunc)
    BY InActive
  <2>3. CASE u \in Workers
    BY <2>3, OthersStay
  <2> QED BY <2>2, <2>3
<1> QED BY <1>3, <1>4

\* Threads that do not begin to run and do not become the last, done as it was.
LEMMA IsQuiet ==
  ASSUME Ends, UNCHANGED <<shared, local, runs, execute_main>>, done' => done,
         \A u \in Active : (Begun(u)' <=> Begun(u)) /\ (Over(u)' <=> Over(u)),
         \A t \in Threads : /\ pc'[t] = "run" => pc[t] = "run"
                            /\ pc'[t] = "last" => pc[t] = "last"
  PROVE  Quiet
BY DEF Ends, Quiet

LEMMA ParkStep ==
  ASSUME IInv, InCall, Call, NEW w \in Workers, Park(w)
  PROVE  InCall' /\ Call'
<1>0. TypeOK /\ w \in Threads /\ w # Main
  BY NumbersAre DEF IInv
<1>1. pc[w] \in {"ran", "signalled"}
  BY DEF Park, Call, Places, Resting, Parked
<1>2. /\ pc'[w] = "wait" /\ wdone'[w] = TRUE
      /\ \A u \in Threads : u # w => pc'[u] = pc[u]
      /\ \A u \in Workers : u # w => wdone'[u] = wdone[u]
      /\ UNCHANGED <<shared, done, finished, local, next, execute_main, runs, calls>>
  BY <1>0, <1>1, NumbersAre DEF TypeOK, Park
<1>3. Resting(w) /\ Resting(w)'
  BY <1>1, <1>2 DEF Resting, Parked
<1>4. (Over(w)' <=> Over(w)) /\ (Begun(w)' <=> Begun(w))
  BY <1>0, <1>1, <1>2, <1>3 DEF Over, Begun
<1>5. /\ InCall' /\ Places'
      /\ \A u \in Active : (Begun(u)' <=> Begun(u)) /\ (Over(u)' <=> Over(u))
  BY <1>0, <1>2, <1>3, <1>4, WorkerMoves, NumbersAre DEF Call
<1>6. \A t \in Threads : /\ pc'[t] = "run" => pc[t] = "run"
                         /\ pc'[t] = "last" => pc[t] = "last"
  BY <1>2
<1>7. Quiet
  BY <1>2, <1>5, <1>6, IsQuiet DEF Call
<1> QED BY <1>5, <1>7, QuietStep

LEMMA ResumeStep ==
  ASSUME IInv, InCall, Call, NEW w \in Workers, WorkerResume(w)
  PROVE  InCall' /\ Call'
<1>0. TypeOK /\ w \in Threads /\ w # Main
  BY NumbersAre DEF IInv
<1>1. pc[w] = "woken" /\ ~finished /\ (wdone[w] \/ w < next)
  BY DEF WorkerResume, Call, Places, Resting, Parked
<1>2. /\ pc'[w] = (IF wdone[w] THEN "wait" ELSE "start")
      /\ \A u \in Threads : u # w => pc'[u] = pc[u]
      /\ UNCHANGED <<shared, done, finished, wdone, local, next, execute_main, runs, calls>>
  BY <1>0, <1>1, Goes DEF WorkerResume
<1>3. /\ Resting(w) <=> wdone[w]
      /\ Resting(w)' <=> wdone[w]
  BY <1>1, <1>2 DEF Resting, Parked
<1>4. (Over(w)' <=> Over(w)) /\ (Begun(w)' <=> Begun(w))
  BY <1>0, <1>1, <1>2, <1>3 DEF Over, Begun
<1>5. /\ InCall' /\ Places'
      /\ \A u \in Active : (Begun(u)' <=> Begun(u)) /\ (Over(u)' <=> Over(u))
  BY <1>0, <1>1, <1>2, <1>3, <1>4, WorkerMoves, NumbersAre DEF Call
<1>6. \A t \in Threads : /\ pc'[t] = "run" => pc[t] = "run"
                         /\ pc'[t] = "last" => pc[t] = "last"
  BY <1>2
<1>7. Quiet
  BY <1>2, <1>5, <1>6, IsQuiet DEF Call
<1> QED BY <1>5, <1>7, QuietStep

LEMMA TellStep ==
  ASSUME IInv, InCall, Call, NEW w \in Workers, TellMain(w)
  PROVE  InCall' /\ Call'
<1>0. TypeOK /\ w \in Threads /\ w # Main
  BY NumbersAre DEF IInv
<1>1. pc[w] = "last" /\ w < next
  BY <1>0, WorksInCall DEF TellMain
<1>2. /\ pc'[w] = "signalled" /\ done' = TRUE
      /\ \A u \in Workers : u # w => pc'[u] = pc[u]
      /\ pc'[Main] = IF pc[Main] = "done_wait" THEN "done_woken" ELSE pc[Main]
      /\ UNCHANGED <<shared, finished, wdone, local, next, execute_main, runs, calls>>
  BY <1>0, <1>1, NumbersAre DEF TypeOK, TellMain
<1>3. Resting(w)'
  BY <1>2 DEF Resting
<1>4. (Over(w)' <=> Over(w)) /\ (Begun(w)' <=> Begun(w))
  BY <1>0, <1>1, <1>2, <1>3 DEF Over, Begun
<1>5. /\ InCall' /\ Places'
      /\ \A u \in Active : (Begun(u)' <=> Begun(u)) /\ (Over(u)' <=> Over(u))
  BY <1>0, <1>1, <1>2, <1>3, <1>4, WorkerMoves, NumbersAre DEF Call
<1>6. OverThreads = Active /\ \A u \in Threads : pc[u] = "last" => u = w
  BY <1>0, <1>1 DEF Call, Ends
<1>7. \A t \in Threads : pc'[t] # "last" /\ (pc'[t] = "run" => pc[t] = "run")
  BY <1>2, <1>6 DEF Threads
<1>8. Quiet
  BY <1>2, <1>5, <1>6, <1>7 DEF Quiet
<1> QED BY <1>5, <1>8, QuietStep

\* The steps of the main thread in a call that do not end it.
LEMMA MainQuietStep ==
  ASSUME IInv, InCall, Call,
         AllAwake \/ MainJoins \/ (Join /\ ~done) \/ SpuriousWake(Main)
  PROVE  InCall' /\ Call'
<1>0. TypeOK /\ Places /\ Ends /\ pc \in [Threads -> Pcs] /\ next \in Int /\ NbActiveWorkers \in Nat
  <2>1. TypeOK /\ Places /\ Ends
    BY DEF IInv, Call
  <2> QED BY <2>1, ActiveIs, NumbersAre DEF TypeOK, Pcs
<1>1. /\ UNCHANGED <<shared, finished, wdone, local, next, execute_main, runs>>
      /\ done' = done
  <2>1. CASE Join /\ ~done
    <3>1. done = FALSE
      BY <1>0, <2>1 DEF TypeOK
    <3> QED BY <2>1, <3>1 DEF Join
  <2> QED BY <2>1 DEF AllAwake, MainJoins, SpuriousWake
<1>2. \/ /\ pc[Main] = "wake" /\ next > NbActiveWorkers
         /\ pc'[Main] = IF MainFunc THEN "main_func" ELSE "start"
      \/ pc[Main] \in {"main_func", "ran"} /\ pc'[Main] = "join"
      \/ pc[Main] \in {"join", "done_woken"} /\ pc'[Main] = "done_wait"
      \/ pc[Main] = "done_wait" /\ pc'[Main] = "done_woken"
  BY <1>0, NumbersAre DEF AllAwake, MainJoins, Join, SpuriousWake, Go, InCall
<1>3. \A u \in Threads : u # Main => pc'[u] = pc[u]
  BY <1>0, NumbersAre DEF AllAwake, MainJoins, Join, SpuriousWake, Go
<1>4. InCall'
  BY <1>2 DEF InCall
<1>5. /\ next = NbActiveWorkers + 1
      /\ pc'[Main] \in {"start", "run", "fetch", "last", "ran"} => ~MainFunc
      /\ pc'[Main] = "main_func" => MainFunc
  BY <1>0, <1>2 DEF Places
<1>6. MainFunc \/ ((Over(Main)' <=> Over(Main)) /\ (Begun(Main)' <=> Begun(Main)))
  BY <1>0, <1>2 DEF Places, Over, Begun
<1>7. /\ Places'
      /\ \A u \in Active : (Begun(u)' <=> Begun(u)) /\ (Over(u)' <=> Over(u))
  BY <1>0, <1>1, <1>3, <1>4, <1>5, <1>6, MainMoves, NumbersAre
<1>8. \A t \in Threads : /\ pc'[t] = "run" => pc[t] = "run"
                         /\ pc'[t] = "last" => pc[t] = "last"
  BY <1>2, <1>3
<1>9. Quiet
  BY <1>0, <1>1, <1>7, <1>8, IsQuiet
<1> QED BY <1>4, <1>7, <1>9, QuietStep

LEMMA WakeStep ==
  ASSUME IInv, WakeWorker
  PROVE  InCall' /\ Call'
<1>0. /\ TypeOK /\ Call /\ Places /\ Ends /\ next \in Int /\ NbActiveWorkers \in 0 .. NbWorkers
      /\ next \in Workers
  <2>1. TypeOK /\ Call /\ Places /\ Ends
    BY DEF IInv, Stages, WakeWorker, InCall, Call
  <2>2. NbActiveWorkers \in 0 .. NbWorkers /\ next \in Nat /\ 1 <= next
    BY <2>1, ActiveIs, NumbersAre DEF TypeOK
  <2> QED BY <2>1, <2>2, NumbersAre DEF WakeWorker, Workers
<1>1. /\ UNCHANGED <<shared, done, finished, local, execute_main, runs>>
      /\ next' = next + 1 /\ next <= NbActiveWorkers /\ wdone'[next] = FALSE
      /\ \A u \in Workers : u # next => wdone'[u] = wdone[u]
      /\ Parked(next)
  BY <1>0 DEF WakeWorker, TypeOK
<1>2. /\ pc[Main] = "wake" /\ pc'[Main] = "wake" /\ pc'[next] = "woken"
      /\ \A u \in Workers : u # next => pc'[u] = pc[u]
  BY <1>0, <1>1, Signals DEF WakeWorker, Parked
<1>3. InCall'
  BY <1>2 DEF InCall
<1>4. \A u \in Workers : Resting(u)' \/
        /\ u < next'
        /\ pc'[u] \in {"start", "run", "fetch", "last"} \/ (pc'[u] = "woken" /\ ~wdone'[u])
  <2>1. TAKE u \in Workers
  <2>2. CASE u = next
    BY <1>0, <1>1, <1>2, <2>2
  <2>3. CASE u # next
    <3>1. pc'[u] = pc[u] /\ wdone'[u] = wdone[u] /\ (Resting(u)' <=> Resting(u))
      BY <1>1, <1>2, <2>3 DEF Resting, Parked
    <3>2. u < next => u < next'
      BY <1>0, <1>1, NumbersAre
    <3> QED BY <1>0, <3>1, <3>2 DEF Places
  <2> QED BY <2>2, <2>3
<1>5. next' \in 1 .. NbActiveWorkers + 1
  BY <1>0, <1>1, NumbersAre
<1>6. Places'
  BY <1>0, <1>1, <1>2, <1>4, <1>5, SamePlaces DEF Places
<1>7. \A u \in Active : (Begun(u)' <=> Begun(u)) /\ (Over(u)' <=> Over(u))
  <2>1. TAKE u \in Active
  <2>2. u \in Workers \/ u = Main
    BY <1>0, InActive
  <2>3. CASE u = next
    <3>1. ~Over(u) /\ pc[u] \notin {"run", "fetch"}
      BY <1>0, <1>1, <2>3, NumbersAre DEF Over, Parked
    <3>2. ~Over(u)' /\ pc'[u] \notin {"run", "fetch"}
      BY <1>0, <1>1, <1>2, <2>3, NumbersAre DEF Over, Resting, Parked
    <3> QED BY <3>1, <3>2 DEF Begun
  <2>4. CASE u \in Workers /\ u # next
    <3>1. pc'[u] = pc[u] /\ (Resting(u)' <=> Resting(u))
      BY <1>1, <1>2, <2>4 DEF Resting, Parked
    <3>2. u < next <=> u < next'
      BY <1>0, <1>1, <2>4, NumbersAre
    <3> QED BY <2>4, <3>1, <3>2, NumbersAre DEF Over, Begun
  <2>5. CASE u = Main
    BY <1>2, <2>5, MainStays
  <2> QED BY <2>2, <2>3, <2>4, <2>5
<1>8. \A t \in Threads : /\ pc'[t] = "run" => pc[t] = "run"
                         /\ pc'[t] = "last" => pc[t] = "last"
  BY <1>2 DEF Threads
<1>9. Quiet
  BY <1>0, <1>1, <1>7, <1>8, IsQuiet
<1> QED BY <1>0, <1>3, <1>6, <1>9, QuietStep

\* A worker may be woken for nothing.
LEMMA SpuriousStep ==
  ASSUME IInv, InCall, Call, NEW w \in Workers, SpuriousWake(w)
  PROVE  InCall' /\ Call'
<1>0. TypeOK /\ w \in Threads /\ w # Main
  BY NumbersAre DEF IInv
<1>1. pc[w] = "wait" /\ wdone[w]
  BY <1>0 DEF SpuriousWake, Call, Places, Resting, Parked
<1>2. /\ pc'[w] = "woken"
      /\ \A u \in Threads : u # w => pc'[u] = pc[u]
      /\ UNCHANGED <<shared, done, finished, wdone, local, next, execute_main, runs, calls>>
  <2>1. Go(w, "woken")
    <3>1. PICK p \in {<<"wait", "woken">>, <<"create_wait", "create_woken">>,
                       <<"done_wait", "done_woken">>} : pc[w] = p[1] /\ Go(w, p[2])
      BY DEF SpuriousWake
    <3>2. p[2] = "woken"
      BY <1>1, <3>1
    <3> QED BY <3>1, <3>2
  <2> QED BY <1>0, <2>1, Goes DEF SpuriousWake
<1>3. Resting(w) /\ Resting(w)'
  BY <1>1, <1>2 DEF Resting, Parked
<1>4. (Over(w)' <=> Over(w)) /\ (Begun(w)' <=> Begun(w))
  BY <1>0, <1>1, <1>2, <1>3 DEF Over, Begun
<1>5. /\ InCall' /\ Places'
      /\ \A u \in Active : (Begun(u)' <=> Begun(u)) /\ (Over(u)' <=> Over(u))
  BY <1>0, <1>2, <1>3, <1>4, WorkerMoves, NumbersAre DEF Call
<1>6. \A t \in Threads : /\ pc'[t] = "run" => pc[t] = "run"
                         /\ pc'[t] = "last" => pc[t] = "last"
  BY <1>2
<1>7. Quiet
  BY <1>2, <1>5, <1>6, IsQuiet DEF Call
<1> QED BY <1>5, <1>7, QuietStep
-----------------------------------------------------------------------------
(* Steps that a counter notices.                                            *)

\* A thread in run_jobs() that takes a number or a job, or finds none.
LEMMA WorkPlaces ==
  ASSUME IInv, NEW t \in Threads, pc[t] \in {"start", "fetch"},
         pc'[t] \in {"run", "last", "ran"}, \A u \in Threads : u # t => pc'[u] = pc[u],
         UNCHANGED <<main_func, nb_jobs, nb_active_threads, execute_main, finished, wdone, next>>
  PROVE  /\ InCall' /\ Places' /\ Active' = Active
         /\ \A u \in Active : u # t => (Begun(u)' <=> Begun(u)) /\ (Over(u)' <=> Over(u))
<1>1. InCall /\ Call /\ t \in Active /\ (t # Main => t \in Workers /\ t < next) /\ TypeOK
  BY WorksInCall DEF IInv
<1>2. InCall'
  BY <1>1, NumbersAre DEF InCall
<1>3. /\ ~finished'
      /\ nb_jobs' \in 1 .. MaxJobs /\ nb_active_threads' = Smaller(nb_jobs', NbThreads')
      /\ NbActiveWorkers' = NbActiveWorkers /\ (MainFunc' <=> MainFunc) /\ Active' = Active
      /\ next' \in 1 .. NbActiveWorkers + 1
  BY <1>1 DEF Call, Places, NbActiveWorkers, MainFunc, Active, NbThreads
<1>4. t = Main => ~MainFunc
  BY <1>1 DEF Call, Places
<1>5. pc'[Main] # "wake" => next' = NbActiveWorkers + 1
  BY <1>1, NumbersAre DEF Call, Places
<1>6. /\ pc'[Main] \in {"start", "run", "fetch", "last", "ran"} => ~MainFunc
      /\ pc'[Main] = "main_func" => MainFunc
  BY <1>1, <1>4, NumbersAre DEF Call, Places
<1>7. \A w \in Workers : Resting(w)' \/
        /\ w < next'
        /\ pc'[w] \in {"start", "run", "fetch", "last"} \/ (pc'[w] = "woken" /\ ~wdone'[w])
  <2>1. TAKE w \in Workers
  <2>2. CASE w = t
    BY <1>1, <2>2, NumbersAre DEF Resting
  <2>3. CASE w # t
    <3>1. pc'[w] = pc[w] /\ (Resting(w)' <=> Resting(w)) /\ wdone'[w] = wdone[w] /\ next' = next
      BY <2>3, OthersStay, NumbersAre
    <3> QED BY <1>1, <3>1 DEF Call, Places
  <2> QED BY <2>2, <2>3
<1>8. Places'
  BY <1>3, <1>5, <1>6, <1>7 DEF Places
<1>9. \A u \in Active : u # t => (Begun(u)' <=> Begun(u)) /\ (Over(u)' <=> Over(u))
  <2>1. TAKE u \in Active
  <2>2. u \in Threads /\ (u \in Workers \/ u = Main)
    BY <1>1, InActive DEF Call
  <2>3. CASE u # t
    BY <2>2, <2>3, OthersStay, MainStays
  <2> QED BY <2>3
<1> QED BY <1>2, <1>3, <1>8, <1>9

LEMMA RunsAfter ==
  ASSUME runs \in [Jobs -> Nat], NEW j \in Jobs, Started(j)
  PROVE  runs'[j] = runs[j] + 1 /\ \A i \in Jobs : i # j => runs'[i] = runs[i]
BY DEF Started

LEMMA FirstJobStep ==
  ASSUME IInv, NEW t \in Threads, FirstJob(t)
  PROVE  InCall' /\ Call'
<1>1. InCall /\ Call /\ Places /\ t \in Active /\ TypeOK
  BY WorksInCall DEF FirstJob, IInv, Call
<1>2. t \in Active \ BegunThreads /\ first_job \in Nat /\ first_job < nb_active_threads
  BY RoomToBegin DEF FirstJob
<1>3. /\ pc[t] = "start" /\ pc'[t] = "run" /\ \A u \in Threads : u # t => pc'[u] = pc[u]
      /\ UNCHANGED <<main_func, nb_jobs, nb_active_threads, current_job, done, finished, wdone,
                     next, execute_main>>
      /\ first_job' = first_job + 1 /\ Started(first_job)
  BY <1>1, Goes DEF FirstJob
<1>4. /\ InCall' /\ Places' /\ Active' = Active
      /\ \A u \in Active : u # t => (Begun(u)' <=> Begun(u)) /\ (Over(u)' <=> Over(u))
  BY <1>3, WorkPlaces
<1>5. Begun(t)' /\ ~Over(t)' /\ ~Over(t) /\ ~Begun(t)
  BY <1>1, <1>2, <1>3 DEF Begun, Over, Resting, Parked, BegunThreads
<1>6. BegunThreads' = BegunThreads \cup {t} /\ OverThreads' = OverThreads /\ t \notin OverThreads
  BY <1>1, <1>4, <1>5 DEF BegunThreads, OverThreads
<1>7. /\ local'[t].jobs = nb_jobs /\ local'[t].active = nb_active_threads
      /\ local'[t].first = first_job /\ local'[t].current = first_job
      /\ \A u \in Threads : u # t => local'[u] = local[u]
  BY <1>1 DEF FirstJob, TypeOK
<1>8. /\ nb_active_threads \in Nat /\ nb_jobs \in Nat /\ nb_active_threads <= nb_jobs
      /\ Active \subseteq Threads /\ nb_jobs <= MaxJobs
      /\ IsFiniteSet(BegunThreads) /\ current_job \in Nat
  BY <1>1, ActiveIs, CountsAre, NumbersAre DEF Places, TypeOK
<1>9. Counting'
  <2>1. Cardinality(BegunThreads') = Cardinality(BegunThreads) + 1
    BY <1>2, <1>6, <1>8, FS_AddElement
  <2> QED BY <1>1, <1>3, <1>6, <2>1 DEF Call, Counting
<1>10. Locals'
  <2>1. \A u \in BegunThreads : /\ u # t /\ local'[u] = local[u]
                                /\ local[u].first < first_job /\ local[u].first \in Nat
    <3>1. \A u \in BegunThreads : u \in Threads /\ u # t
      BY <1>2, <1>8 DEF BegunThreads
    <3>2. \A u \in Threads : local[u].first \in Nat
      BY <1>1, NumbersAre DEF TypeOK
    <3> QED BY <1>1, <1>7, <3>1, <3>2 DEF Call, Locals
  <2>2. ASSUME NEW u \in BegunThreads'
        PROVE  /\ local'[u].jobs = nb_jobs' /\ local'[u].active = nb_active_threads'
               /\ local'[u].first < first_job'
               /\ \A v \in BegunThreads' : local'[v].first = local'[u].first => v = u
    <3>1. CASE u = t
      BY <1>2, <1>3, <1>6, <1>7, <2>1, <3>1
    <3>2. CASE u # t
      <4>1. u \in BegunThreads
        BY <1>6, <2>2, <3>2
      <4>2. /\ local[u].jobs = nb_jobs /\ local[u].active = nb_active_threads
            /\ \A v \in BegunThreads : local[v].first = local[u].first => v = u
        BY <1>1, <4>1 DEF Call, Locals
      <4>3. local'[u].first < first_job'
        BY <1>2, <1>3, <2>1, <4>1
      <4>4. \A v \in BegunThreads' : local'[v].first = local'[u].first => v = u
        BY <1>2, <1>6, <1>7, <2>1, <4>1, <4>2
      <4> QED BY <1>3, <2>1, <4>1, <4>2, <4>3, <4>4
    <3> QED BY <3>1, <3>2
  <2> QED BY <2>2 DEF Locals
<1>11. JobsTaken'
  <2>1. \A j \in Nat : (Taken(j)' <=> Taken(j) \/ j = first_job)
    BY <1>2, <1>3, <1>8 DEF Taken
  <2>2. ~Taken(first_job) /\ first_job \in Jobs
    BY <1>2, <1>8, NumbersAre DEF Taken, Jobs
  <2>3. runs'[first_job] = runs[first_job] + 1 /\ \A j \in Jobs : j # first_job => runs'[j] = runs[j]
    BY <1>1, <1>3, <2>2, RunsAfter DEF TypeOK
  <2>4. \A j \in Jobs : runs[j] = IF Taken(j) THEN 1 ELSE 0
    BY <1>1 DEF Call, JobsTaken
  <2>5. \A j \in Jobs : runs'[j] = IF Taken(j)' THEN 1 ELSE 0
    <3>1. Jobs \subseteq Nat
      BY NumbersAre DEF Jobs
    <3> QED BY <2>1, <2>2, <2>3, <2>4, <3>1
  <2>6. \A u \in Threads : u # t /\ pc'[u] = "run" =>
          /\ Taken(local[u].current) /\ local'[u].current = local[u].current
          /\ local[u].current \in Nat /\ local[u].current # first_job /\ pc[u] = "run"
    BY <1>1, <1>3, <1>7, <2>2, NumbersAre DEF Call, JobsTaken, TypeOK
  <2>7. ASSUME NEW u \in Threads, pc'[u] = "run"
        PROVE  /\ Taken(local[u].current)'
               /\ \A v \in Threads : pc'[v] = "run" /\ local'[v].current = local'[u].current
                                     => v = u
    <3>1. CASE u = t
      <4>1. Taken(local[u].current)'
        BY <1>2, <1>3, <1>7, <1>8, <3>1 DEF Taken
      <4> QED BY <1>7, <2>6, <3>1, <4>1
    <3>2. CASE u # t
      <4>1. Taken(local[u].current)'
        BY <1>2, <1>3, <1>8, <2>6, <2>7, <3>2 DEF Taken
      <4>2. \A v \in Threads : pc'[v] = "run" /\ local'[v].current = local'[u].current => v = u
        BY <1>1, <1>7, <2>6, <2>7, <3>2 DEF Call, JobsTaken
      <4> QED BY <4>1, <4>2
    <3> QED BY <3>1, <3>2
  <2> QED BY <2>5, <2>7 DEF JobsTaken
<1>12. Ends'
  <2>1. ~done /\ \A u \in Threads : pc[u] # "last"
    BY <1>1, <1>6 DEF Call, Ends
  <2> QED BY <1>3, <2>1 DEF Ends
<1> QED BY <1>4, <1>9, <1>10, <1>11, <1>12 DEF Call
\* What both cases of NextJob share.
LEMMA NextJobCommon ==
  ASSUME IInv, NEW t \in Threads, NextJob(t)
  PROVE  /\ InCall' /\ Places' /\ Active' = Active
         /\ \A u \in Active : u # t => (Begun(u)' <=> Begun(u)) /\ (Over(u)' <=> Over(u))
         /\ Call /\ Places /\ t \in Active /\ TypeOK /\ (t # Main => t \in Workers /\ t < next)
         /\ pc[t] = "fetch" /\ \A u \in Threads : u # t => pc'[u] = pc[u]
         /\ UNCHANGED <<main_func, nb_jobs, nb_active_threads, first_job, done, wdone, next>>
         /\ current_job' = current_job + 1 /\ current_job \in Nat
         /\ IF current_job < nb_jobs
            THEN Started(current_job) /\ pc'[t] = "run"
            ELSE /\ UNCHANGED runs
                 /\ pc'[t] = IF current_job = nb_jobs + nb_active_threads - 1 THEN "last" ELSE "ran"
         /\ local'[t].current = current_job
         /\ \A u \in Threads : /\ u # t => local'[u] = local[u]
                               /\ local'[u].jobs = local[u].jobs
                               /\ local'[u].active = local[u].active
                               /\ local'[u].first = local[u].first
<1>1. Call /\ Places /\ t \in Active /\ TypeOK /\ (t # Main => t \in Workers /\ t < next)
  BY WorksInCall DEF NextJob, IInv, Call
<1>2. t \in BegunThreads
  BY RoomToEnd DEF NextJob
<1>3. local[t].jobs = nb_jobs /\ local[t].active = nb_active_threads
  BY <1>1, <1>2 DEF Call, Locals
<1>4. \E p \in {"run", "last", "ran"} : Go(t, p)
  BY DEF NextJob
<1>5. pc'[t] \in {"run", "last", "ran"} /\ \A u \in Threads : u # t => pc'[u] = pc[u]
  BY <1>1, <1>4, Goes
<1>6. IF current_job < nb_jobs
      THEN Started(current_job) /\ Go(t, "run")
      ELSE /\ UNCHANGED runs
           /\ Go(t, IF current_job = nb_jobs + nb_active_threads - 1 THEN "last" ELSE "ran")
  BY <1>3 DEF NextJob
<1>7. IF current_job < nb_jobs
      THEN Started(current_job) /\ pc'[t] = "run"
      ELSE /\ UNCHANGED runs
           /\ pc'[t] = IF current_job = nb_jobs + nb_active_threads - 1 THEN "last" ELSE "ran"
  <2>1. CASE current_job < nb_jobs
    BY <1>1, <1>6, <2>1, Goes
  <2>2. CASE ~(current_job < nb_jobs)
    BY <1>1, <1>6, <2>2, Goes
  <2> QED BY <2>1, <2>2
<1>8. /\ pc[t] = "fetch" /\ current_job' = current_job + 1
      /\ UNCHANGED <<main_func, nb_jobs, nb_active_threads, first_job, done, wdone, next,
                     execute_main, finished>>
  BY DEF NextJob
<1>9. /\ InCall' /\ Places' /\ Active' = Active
      /\ \A u \in Active : u # t => (Begun(u)' <=> Begun(u)) /\ (Over(u)' <=> Over(u))
  BY <1>5, <1>8, WorkPlaces
<1>10. /\ local'[t].current = current_job
       /\ \A u \in Threads : /\ u # t => local'[u] = local[u]
                             /\ local'[u].jobs = local[u].jobs
                             /\ local'[u].active = local[u].active
                             /\ local'[u].first = local[u].first
  BY <1>1 DEF NextJob, TypeOK
<1>11. current_job \in Nat
  BY <1>1, NumbersAre DEF TypeOK
<1> QED BY <1>1, <1>5, <1>7, <1>8, <1>9, <1>10, <1>11

LEMMA LocalsKept ==
  ASSUME TypeOK, Places, Locals, BegunThreads' = BegunThreads,
         UNCHANGED <<nb_jobs, nb_active_threads, first_job>>,
         \A u \in Threads : /\ local'[u].jobs = local[u].jobs
                            /\ local'[u].active = local[u].active
                            /\ local'[u].first = local[u].first
  PROVE  Locals'
<1>1. \A u \in BegunThreads : u \in Threads
  BY ActiveIs DEF BegunThreads
<1> QED BY <1>1 DEF Locals

LEMMA NextJobStep ==
  ASSUME IInv, NEW t \in Threads, NextJob(t)
  PROVE  InCall' /\ Call'
<1>1. /\ InCall' /\ Places' /\ Active' = Active
      /\ \A u \in Active : u # t => (Begun(u)' <=> Begun(u)) /\ (Over(u)' <=> Over(u))
  BY NextJobCommon
<1>2. Call /\ Places /\ t \in Active /\ TypeOK /\ (t # Main => t \in Workers /\ t < next)
  BY NextJobCommon
<1>3. /\ pc[t] = "fetch" /\ \A u \in Threads : u # t => pc'[u] = pc[u]
      /\ UNCHANGED <<main_func, nb_jobs, nb_active_threads, first_job, done, wdone, next>>
      /\ current_job' = current_job + 1 /\ current_job \in Nat
  BY NextJobCommon
<1>4. /\ local'[t].current = current_job
      /\ \A u \in Threads : u # t => local'[u] = local[u]
      /\ \A u \in Threads : /\ local'[u].jobs = local[u].jobs
                            /\ local'[u].active = local[u].active
                            /\ local'[u].first = local[u].first
  BY NextJobCommon
<1>5. /\ IF current_job < nb_jobs
         THEN Started(current_job) /\ pc'[t] = "run"
         ELSE /\ UNCHANGED runs
              /\ pc'[t] = IF current_job = nb_jobs + nb_active_threads - 1 THEN "last" ELSE "ran"
  BY NextJobCommon
<1>6. /\ t \in BegunThreads /\ t \notin OverThreads
      /\ current_job = nb_jobs + nb_active_threads - 1 => OverThreads = Active \ {t}
  BY RoomToEnd, <1>3
<1>7. /\ nb_active_threads \in Nat /\ nb_jobs \in Nat /\ nb_active_threads <= nb_jobs
      /\ nb_jobs <= MaxJobs /\ IsFiniteSet(OverThreads) /\ Cardinality(OverThreads) \in Nat
      /\ first_job \in Nat /\ first_job <= nb_active_threads
  <2>1. first_job = Cardinality(BegunThreads)
    BY <1>2 DEF Call, Counting
  <2> QED BY <1>2, <2>1, ActiveIs, CountsAre, NumbersAre DEF Places
<1>8. /\ nb_active_threads <= current_job /\ first_job = Cardinality(BegunThreads)
      /\ Cardinality(OverThreads) = IF current_job <= nb_jobs THEN 0 ELSE current_job - nb_jobs
  BY <1>2 DEF Call, Counting
<1>9. ~done /\ \A u \in Threads : pc[u] # "last"
  BY <1>2, <1>6 DEF Call, Ends
<1>10. Begun(t)'
  <2>1. CASE t = Main
    BY <1>5, <2>1 DEF Begun, Over
  <2>2. CASE t # Main
    <3>1. t \in Workers /\ t < next'
      BY <1>2, <1>3, <2>2
    <3>2. pc'[t] \in {"run", "last", "ran"}
      BY <1>5
    <3> QED BY <2>2, <3>1, <3>2 DEF Begun, Over, Resting
  <2> QED BY <2>1, <2>2
<1>11. BegunThreads' = BegunThreads
  BY <1>1, <1>6, <1>10 DEF BegunThreads
<1>12. Locals'
  BY <1>2, <1>3, <1>4, <1>11, LocalsKept DEF Call
<1>13. \A j \in Jobs : runs[j] = IF Taken(j) THEN 1 ELSE 0
  BY <1>2 DEF Call, JobsTaken
<1>14. Jobs \subseteq Nat
  BY NumbersAre DEF Jobs
<1>15. \A u \in Threads : u # t /\ pc'[u] = "run" =>
         /\ Taken(local[u].current) /\ local'[u].current = local[u].current
         /\ local[u].current \in Nat /\ pc[u] = "run"
  BY <1>2, <1>3, <1>4, NumbersAre DEF Call, JobsTaken, TypeOK
<1>16. \A u, v \in Threads : pc[u] = "run" /\ pc[v] = "run"
                             /\ local[u].current = local[v].current => u = v
  BY <1>2 DEF Call, JobsTaken
<1>17. CASE current_job < nb_jobs
  <2>1. pc'[t] = "run" /\ Started(current_job)
    BY <1>5, <1>17
  <2>2. ~Over(t)'
    BY <1>2, <2>1, NumbersAre DEF Over, Resting, Parked
  <2>3. OverThreads' = OverThreads
    BY <1>1, <1>6, <2>2 DEF OverThreads
  <2>4. Counting'
    BY <1>3, <1>7, <1>8, <1>11, <1>17, <2>3 DEF Counting
  <2>5. \A j \in Nat : (Taken(j)' <=> Taken(j) \/ j = current_job)
    BY <1>3, <1>7, <1>8, <1>17 DEF Taken
  <2>6. ~Taken(current_job) /\ current_job \in Jobs
    BY <1>3, <1>7, <1>8, <1>17, NumbersAre DEF Taken, Jobs
  <2>7. /\ runs'[current_job] = runs[current_job] + 1
        /\ \A j \in Jobs : j # current_job => runs'[j] = runs[j]
    BY <1>2, <2>1, <2>6, RunsAfter DEF TypeOK
  <2>8. \A j \in Jobs : runs'[j] = IF Taken(j)' THEN 1 ELSE 0
    BY <1>13, <1>14, <2>5, <2>6, <2>7
  <2>9. \A u \in Threads : u # t /\ pc'[u] = "run" => local[u].current # current_job
    BY <1>15, <2>6
  <2>10. ASSUME NEW u \in Threads, pc'[u] = "run"
         PROVE  /\ Taken(local[u].current)'
                /\ \A v \in Threads : pc'[v] = "run" /\ local'[v].current = local'[u].current
                                      => v = u
    <3>1. CASE u = t
      <4>1. Taken(local[u].current)'
        BY <1>3, <1>4, <1>7, <1>8, <1>17, <3>1 DEF Taken
      <4> QED BY <1>4, <1>15, <2>9, <3>1, <4>1
    <3>2. CASE u # t
      <4>1. Taken(local[u].current)'
        BY <1>3, <1>7, <1>15, <2>10, <3>2 DEF Taken
      <4>2. \A v \in Threads : pc'[v] = "run" /\ local'[v].current = local'[u].current => v = u
        BY <1>4, <1>15, <1>16, <2>9, <2>10, <3>2
      <4> QED BY <4>1, <4>2
    <3> QED BY <3>1, <3>2
  <2>11. JobsTaken'
    BY <2>8, <2>10 DEF JobsTaken
  <2>12. Ends'
    BY <1>3, <1>9, <2>1 DEF Ends
  <2> QED BY <1>1, <1>12, <2>4, <2>11, <2>12 DEF Call
<1>18. CASE ~(current_job < nb_jobs)
  <2>1. /\ UNCHANGED runs
        /\ pc'[t] = IF current_job = nb_jobs + nb_active_threads - 1 THEN "last" ELSE "ran"
    BY <1>5, <1>18
  <2>2. Over(t)'
    <3>1. pc'[t] \in {"last", "ran"}
      BY <2>1
    <3> QED BY <1>10, <3>1 DEF Begun
  <2>3. OverThreads' = OverThreads \cup {t}
    BY <1>1, <1>2, <2>2 DEF OverThreads
  <2>4. Cardinality(OverThreads') = Cardinality(OverThreads) + 1
    BY <1>6, <1>7, <2>3, FS_AddElement
  <2>5. Counting'
    BY <1>3, <1>7, <1>8, <1>11, <1>18, <2>4 DEF Counting
  <2>6. \A j \in Nat : (Taken(j)' <=> Taken(j))
    BY <1>3, <1>7, <1>18 DEF Taken
  <2>7. \A j \in Jobs : runs'[j] = IF Taken(j)' THEN 1 ELSE 0
    BY <1>13, <1>14, <2>1, <2>6
  <2>8. ASSUME NEW u \in Threads, pc'[u] = "run"
        PROVE  /\ Taken(local[u].current)'
               /\ \A v \in Threads : pc'[v] = "run" /\ local'[v].current = local'[u].current
                                     => v = u
    <3>1. u # t /\ pc'[t] # "run"
      BY <2>1, <2>8
    <3>2. Taken(local[u].current)'
      BY <1>3, <1>7, <1>15, <2>8, <3>1 DEF Taken
    <3>3. \A v \in Threads : pc'[v] = "run" /\ local'[v].current = local'[u].current => v = u
      BY <1>4, <1>15, <1>16, <2>8, <3>1
    <3> QED BY <3>2, <3>3
  <2>9. JobsTaken'
    BY <2>7, <2>8 DEF JobsTaken
  <2>10. ASSUME NEW u \in Threads, pc'[u] = "last"
         PROVE  u = t /\ OverThreads' = Active'
    <3>1. u = t
      BY <1>3, <1>9, <2>10
    <3>2. current_job = nb_jobs + nb_active_threads - 1
      BY <2>1, <2>10, <3>1
    <3> QED BY <1>1, <1>2, <1>6, <2>3, <3>1, <3>2
  <2>11. Ends'
    BY <1>3, <1>9, <2>10 DEF Ends
  <2> QED BY <1>1, <1>12, <2>5, <2>9, <2>11 DEF Call
<1> QED BY <1>17, <1>18
-----------------------------------------------------------------------------
(* Steps outside a call, and those that begin and end one.                  *)

CreateStates == {"create", "create_wait", "create_woken"}

\* A worker that is not in run_jobs() and not the last.
LEMMA WorkerAlone ==
  ASSUME TypeOK, NEW w \in Workers, Park(w) \/ WorkerResume(w) \/ SpuriousWake(w)
  PROVE  /\ \/ pc[w] \in {"new", "ran", "signalled"} /\ pc'[w] = "wait" /\ wdone'[w]
            \/ /\ pc[w] = "woken" /\ (wdone'[w] <=> wdone[w])
               /\ pc'[w] = IF wdone[w] THEN "wait" ELSE IF finished THEN "exit" ELSE "start"
            \/ pc[w] = "wait" /\ pc'[w] = "woken" /\ (wdone'[w] <=> wdone[w])
            \/ pc[w] \in {"create_wait", "done_wait"}
         /\ \A u \in Workers : u # w => pc'[u] = pc[u] /\ wdone'[u] = wdone[u]
         /\ pc'[Main] = pc[Main] \/ (pc[Main] = "create_wait" /\ pc'[Main] = "create_woken")
         /\ UNCHANGED <<done, finished, next>>
<1>0. w \in Threads /\ Main \in Threads /\ w # Main /\ Workers \subseteq Threads
      /\ pc \in [Threads -> Pcs] /\ wdone \in [Workers -> BOOLEAN]
  BY NumbersAre DEF TypeOK, Pcs
<1>1. CASE Park(w)
  <2>1. /\ pc[w] \in {"new", "ran", "signalled"} /\ pc'[w] = "wait" /\ wdone'[w] = TRUE
        /\ \A u \in Workers : u # w => wdone'[u] = wdone[u]
        /\ UNCHANGED <<done, finished, next>>
    BY <1>0, <1>1 DEF Park
  <2>2. \A u \in Workers : u # w => pc'[u] = pc[u]
    BY <1>0, <1>1, NumbersAre DEF Park
  <2>3. pc'[Main] = pc[Main] \/ (pc[Main] = "create_wait" /\ pc'[Main] = "create_woken")
    BY <1>0, <1>1 DEF Park
  <2> QED BY <2>1, <2>2, <2>3
<1>2. CASE WorkerResume(w)
  <2>1. /\ pc[w] = "woken" /\ UNCHANGED <<done, finished, next, wdone>>
        /\ Go(w, IF wdone[w] THEN "wait" ELSE IF finished THEN "exit" ELSE "start")
    BY <1>2 DEF WorkerResume
  <2> QED BY <1>0, <2>1, Goes
<1>3. CASE SpuriousWake(w)
  <2>1. PICK p \in {<<"wait", "woken">>, <<"create_wait", "create_woken">>,
                    <<"done_wait", "done_woken">>} : pc[w] = p[1] /\ Go(w, p[2])
    BY <1>3 DEF SpuriousWake
  <2>2. /\ pc'[w] = p[2] /\ \A u \in Threads : u # w => pc'[u] = pc[u]
    BY <1>0, <2>1, Goes
  <2>3. UNCHANGED <<done, finished, next, wdone>>
    BY <1>3 DEF SpuriousWake
  <2>4. p = <<"wait", "woken">> \/ pc[w] \in {"create_wait", "done_wait"}
    BY <2>1
  <2>5. p = <<"wait", "woken">> => pc[w] = "wait" /\ pc'[w] = "woken"
    BY <2>1, <2>2
  <2> QED BY <1>0, <2>2, <2>3, <2>4, <2>5
<1> QED BY <1>1, <1>2, <1>3

LEMMA CreatingWorker ==
  ASSUME IInv, pc[Main] \in CreateStates, Creating, NEW w \in Workers,
         Park(w) \/ WorkerResume(w) \/ SpuriousWake(w)
  PROVE  pc'[Main] \in CreateStates /\ Creating'
<1>0. TypeOK /\ next \in Int /\ w \in Int
  BY NumbersAre DEF IInv, TypeOK
<1>1. w < next \/ w > next \/ w = next
  BY <1>0
<1>2. pc[w] \in {"none", "new", "wait", "woken"}
  BY <1>1 DEF Creating, Parked
<1>3. pc[w] = "new" => w = next /\ pc[Main] # "create"
  BY <1>1 DEF Creating, Parked
<1>4. pc[w] \in {"wait", "woken"} => wdone[w] /\ w <= next /\ (w = next => pc[Main] # "create")
  BY <1>0, <1>1 DEF Creating, Parked
<1>5. /\ pc[w] # "none" /\ pc'[w] \in {"wait", "woken"} /\ wdone'[w]
      /\ \A u \in Workers : u # w => pc'[u] = pc[u] /\ wdone'[u] = wdone[u]
      /\ pc'[Main] = pc[Main] \/ (pc[Main] = "create_wait" /\ pc'[Main] = "create_woken")
      /\ UNCHANGED <<done, finished, next>>
  BY <1>0, <1>2, <1>3, <1>4, WorkerAlone
<1>6. ASSUME NEW u \in Workers
      PROVE  /\ u < next' => Parked(u)' /\ wdone'[u]
             /\ u > next' => pc'[u] = "none"
             /\ u = next' => IF pc'[Main] = "create" THEN pc'[u] = "none"
                             ELSE (pc'[u] = "new" /\ ~wdone'[u]) \/ (Parked(u)' /\ wdone'[u])
  <2>1. CASE u = w
    <3>1. Parked(u)' /\ wdone'[u]
      BY <1>5, <2>1 DEF Parked
    <3>2. ~(u > next) /\ (u = next => pc'[Main] # "create")
      <4>1. pc[w] \in {"new", "wait", "woken"}
        BY <1>2, <1>5
      <4> QED BY <1>0, <1>3, <1>4, <1>5, <2>1, <4>1
    <3> QED BY <1>5, <3>1, <3>2
  <2>2. CASE u # w
    <3>1. pc'[u] = pc[u] /\ wdone'[u] = wdone[u] /\ (Parked(u)' <=> Parked(u))
      BY <1>5, <2>2 DEF Parked
    <3>2. pc'[Main] = "create" <=> pc[Main] = "create"
      BY <1>5
    <3> QED BY <1>5, <3>1, <3>2 DEF Creating
  <2> QED BY <2>1, <2>2
<1>7. /\ ~finished' /\ ~done' /\ next' \in 1 .. NbWorkers + 1
      /\ pc'[Main] # "create" => next' \in Workers
  BY <1>5 DEF Creating
<1>8. pc'[Main] \in CreateStates
  BY <1>5 DEF CreateStates
<1> QED BY <1>6, <1>7, <1>8 DEF Creating

LEMMA IdleWorker ==
  ASSUME IInv, pc[Main] = "idle", Idle, NEW w \in Workers,
         Park(w) \/ WorkerResume(w) \/ SpuriousWake(w)
  PROVE  pc'[Main] = "idle" /\ Idle'
<1>0. TypeOK
  BY DEF IInv
<1>1. pc[w] \in {"ran", "signalled", "wait", "woken"} /\ (pc[w] \in {"wait", "woken"} => wdone[w])
  BY DEF Idle, Resting, Parked
<1>2. /\ pc'[w] \in {"wait", "woken"} /\ wdone'[w]
      /\ \A u \in Workers : u # w => pc'[u] = pc[u] /\ wdone'[u] = wdone[u]
      /\ pc'[Main] = pc[Main] /\ UNCHANGED <<done, finished, next>>
  BY <1>0, <1>1, WorkerAlone
<1>3. ASSUME NEW u \in Workers PROVE Resting(u)'
  <2>1. CASE u = w
    BY <1>2, <2>1 DEF Resting, Parked
  <2>2. CASE u # w
    BY <1>2, <2>2 DEF Idle, Resting, Parked
  <2> QED BY <2>1, <2>2
<1> QED BY <1>2, <1>3 DEF Idle

FreeStates == {"none", "ran", "signalled", "wait", "woken", "exit"}

LEMMA FreeingWorker ==
  ASSUME IInv, pc[Main] \in {"free", "freed"}, Freeing, NEW w \in Workers,
         Park(w) \/ WorkerResume(w) \/ SpuriousWake(w)
  PROVE  pc'[Main] = pc[Main] /\ Freeing'
<1>0. TypeOK /\ finished /\ pc[w] \in FreeStates
  BY DEF IInv, Freeing, FreeStates
<1>1. /\ pc'[w] \in FreeStates
      /\ \A u \in Workers : u # w => pc'[u] = pc[u]
      /\ pc'[Main] = pc[Main] /\ UNCHANGED <<done, finished, next>>
  BY <1>0, WorkerAlone DEF FreeStates
<1>2. ASSUME NEW u \in Workers PROVE pc'[u] \in FreeStates
  <2>1. CASE u = w
    BY <1>1, <2>1
  <2>2. CASE u # w
    BY <1>1, <2>2 DEF Freeing, FreeStates
  <2> QED BY <2>1, <2>2
<1> QED BY <1>0, <1>1, <1>2 DEF Freeing, FreeStates

LEMMA CreateSteps ==
  ASSUME IInv, CreateWorker \/ CreateResume \/ CreateDone \/ CreateFail
  PROVE  \/ pc'[Main] \in CreateStates /\ Creating'
         \/ pc'[Main] = "idle" /\ Idle'
         \/ pc'[Main] = "free" /\ Freeing'
<1>0. TypeOK /\ next \in Int /\ NbWorkers \in Int /\ Main \in Threads /\ Main \notin Workers
      /\ pc \in [Threads -> Pcs] /\ Workers \subseteq Threads /\ wdone \in [Workers -> BOOLEAN]
      /\ \A w \in Workers : w \in Int
  BY NumbersAre DEF IInv, TypeOK, Pcs
<1>1. pc[Main] \in CreateStates /\ Creating
  BY DEF IInv, Stages, CreateWorker, CreateResume, CreateDone, CreateFail, CreateStates, InCall
<1>2. ASSUME CreateWorker PROVE pc'[Main] \in CreateStates /\ Creating'
  <2>1. /\ pc[Main] = "create" /\ next \in Workers /\ UNCHANGED <<done, finished, next>>
        /\ pc'[next] = "new" /\ pc'[Main] = "create_wait" /\ wdone'[next] = FALSE
        /\ \A u \in Workers : u # next => pc'[u] = pc[u] /\ wdone'[u] = wdone[u]
    BY <1>0, <1>2 DEF CreateWorker
  <2>2. ASSUME NEW w \in Workers
        PROVE  /\ w < next => Parked(w)' /\ wdone'[w]
               /\ w > next => pc'[w] = "none"
    BY <1>0, <1>1, <2>1 DEF Creating, Parked
  <2> QED BY <1>1, <2>1, <2>2 DEF Creating, CreateStates
<1>3. ASSUME CreateResume PROVE pc'[Main] \in CreateStates /\ Creating'
  <2>1. /\ pc[Main] = "create_woken" /\ UNCHANGED <<done, finished, wdone>> /\ next \in Workers
        /\ \A u \in Workers : pc'[u] = pc[u] /\ (Parked(u)' <=> Parked(u))
        /\ next' = IF wdone[next] THEN next + 1 ELSE next
        /\ pc'[Main] = IF wdone[next] THEN "create" ELSE "create_wait"
    BY <1>0, <1>1, <1>3 DEF CreateResume, Go, Parked, Creating
  <2>2. CASE wdone[next]
    <3>1. Parked(next)
      BY <1>1, <2>1, <2>2 DEF Creating
    <3>2. next' \in 1 .. NbWorkers + 1
      BY <2>1, <2>2, NumbersAre
    <3>3. ASSUME NEW w \in Workers
          PROVE  /\ w < next' => Parked(w)' /\ wdone'[w]
                 /\ w >= next' => pc'[w] = "none"
      <4>1. w < next' => w < next \/ w = next
        BY <1>0, <2>1, <2>2
      <4>2. w >= next' => w > next
        BY <1>0, <2>1, <2>2
      <4> QED BY <1>1, <2>1, <2>2, <3>1, <4>1, <4>2 DEF Creating
    <3> QED BY <1>0, <1>1, <2>1, <2>2, <3>2, <3>3 DEF Creating, CreateStates
  <2>3. CASE ~wdone[next]
    BY <1>1, <2>1, <2>3 DEF Creating, CreateStates
  <2> QED BY <2>2, <2>3
<1>4. ASSUME CreateDone PROVE pc'[Main] = "idle" /\ Idle'
  <2>1. /\ pc'[Main] = "idle" /\ UNCHANGED <<done, finished, wdone>> /\ next \notin Workers
        /\ \A u \in Workers : pc'[u] = pc[u]
    BY <1>0, <1>4 DEF CreateDone, Go
  <2>2. \A w \in Workers : w < next
    <3>1. next = NbWorkers + 1
      BY <1>0, <1>1, <2>1 DEF Creating, Workers
    <3> QED BY <3>1, NumbersAre
  <2>3. \A w \in Workers : Parked(w) /\ wdone[w]
    BY <1>1, <2>2 DEF Creating
  <2> QED BY <1>1, <2>1, <2>3 DEF Idle, Creating, Resting, Parked
<1>5. ASSUME CreateFail PROVE pc'[Main] = "free" /\ Freeing'
  <2>1. /\ pc[Main] = "create" /\ pc'[Main] = "free" /\ finished' = TRUE /\ done' = done
        /\ \A u \in Workers : pc'[u] = pc[u]
    BY <1>0, <1>5 DEF CreateFail, Go
  <2>2. ASSUME NEW w \in Workers PROVE pc[w] \in {"none", "wait", "woken"}
    <3>1. w < next \/ w > next \/ w = next
      BY <1>0
    <3> QED BY <1>1, <2>1, <3>1 DEF Creating, Parked
  <2> QED BY <1>1, <2>1, <2>2 DEF Freeing, Creating
<1> QED BY <1>2, <1>3, <1>4, <1>5

LEMMA FreeSteps ==
  ASSUME IInv, Free \/ FreeWorker \/ JoinWorkers
  PROVE  pc'[Main] \in {"free", "freed"} /\ Freeing'
<1>0. TypeOK /\ Main \in Threads /\ Main \notin Workers
      /\ pc \in [Threads -> Pcs] /\ Workers \subseteq Threads
  BY NumbersAre DEF IInv, TypeOK, Pcs
<1>1. ASSUME Free PROVE pc'[Main] = "free" /\ Freeing'
  <2>1. /\ pc[Main] = "idle" /\ pc'[Main] = "free" /\ finished' = TRUE /\ done' = done
        /\ \A u \in Workers : pc'[u] = pc[u]
    BY <1>0, <1>1 DEF Free, Go
  <2>2. Idle
    BY <2>1 DEF IInv, Stages, InCall
  <2> QED BY <2>1, <2>2 DEF Freeing, Idle, Resting, Parked
<1>2. ASSUME FreeWorker PROVE pc'[Main] = "free" /\ Freeing'
  <2>1. next \in Workers /\ SignalAndGo(next, "free") /\ UNCHANGED <<done, finished>>
        /\ Freeing
    BY <1>2 DEF FreeWorker, Created, IInv, Stages, InCall
  <2>2. /\ pc'[next] = (IF pc[next] = "wait" THEN "woken" ELSE pc[next]) /\ pc'[Main] = "free"
        /\ \A u \in Workers : u # next => pc'[u] = pc[u]
    BY <1>0, <2>1, Signals
  <2> QED BY <2>1, <2>2 DEF Freeing
<1>3. ASSUME JoinWorkers PROVE pc'[Main] = "freed" /\ Freeing'
  <2>1. /\ pc'[Main] = "freed" /\ UNCHANGED <<done, finished>>
        /\ \A u \in Workers : pc'[u] = pc[u]
    BY <1>0, <1>3 DEF JoinWorkers, Go
  <2>2. Freeing
    BY <1>3 DEF JoinWorkers, IInv, Stages, InCall
  <2> QED BY <2>1, <2>2 DEF Freeing
<1> QED BY <1>1, <1>2, <1>3

LEMMA ExecuteStep ==
  ASSUME IInv, NEW n \in 1 .. MaxJobs, NEW m \in BOOLEAN, Execute(n, m)
  PROVE  InCall' /\ Call'
<1>0. TypeOK /\ Main \in Threads /\ Main \notin Workers
      /\ pc \in [Threads -> Pcs] /\ Workers \subseteq Threads
  BY NumbersAre DEF IInv, TypeOK, Pcs
<1>1. /\ pc[Main] = "idle" /\ pc'[Main] = "wake" /\ \A u \in Workers : pc'[u] = pc[u]
      /\ nb_jobs' = n /\ nb_active_threads' = Smaller(n, NbThreads) /\ first_job' = 0
      /\ current_job' = nb_active_threads' /\ next' = 1 /\ runs' = [j \in Jobs |-> 0]
      /\ UNCHANGED <<main_func, done, finished, wdone, local>>
  BY <1>0 DEF Execute, Stores, Go
<1>2. Idle /\ InCall'
  BY <1>1 DEF IInv, Stages, InCall
<1>3. NbThreads' = NbThreads
  BY <1>1 DEF NbThreads
<1>4. nb_active_threads' \in Nat /\ 1 <= nb_active_threads' /\ nb_active_threads' <= n /\ n \in Nat
  BY <1>1, NumbersAre DEF Smaller
<1>5. \A w \in Workers : Resting(w)'
  BY <1>1, <1>2 DEF Idle, Resting, Parked
<1>6. Places'
  <2>1. next' \in 1 .. NbActiveWorkers' + 1
    BY <1>1, <1>4 DEF NbActiveWorkers
  <2> QED BY <1>1, <1>2, <1>3, <1>5, <2>1 DEF Places, Idle
<1>7. \A t \in Threads : pc'[t] \notin {"run", "fetch", "last"}
  BY <1>1, <1>2 DEF Idle, Resting, Parked, Threads
<1>8. BegunThreads' = {} /\ OverThreads' = {}
  <2>1. \A t \in Active' : t \in Threads /\ (t = Main \/ ~(t < 1))
    <3>1. NbActiveWorkers' \in 0 .. NbWorkers
      BY <1>1, <1>3, <1>4, NumbersAre DEF NbActiveWorkers, MainFunc, Smaller
    <3> QED BY <3>1, NumbersAre DEF Active, Threads, Workers
  <2>2. \A t \in Active' : ~Over(t)' /\ ~Begun(t)'
    <3>1. TAKE t \in Active'
    <3>2. pc'[t] \notin {"run", "fetch", "last"}
      BY <1>7, <2>1
    <3>3. ~Over(t)'
      BY <1>1, <2>1, <3>2 DEF Over
    <3> QED BY <3>2, <3>3 DEF Begun
  <2> QED BY <2>2 DEF BegunThreads, OverThreads
<1>9. Counting'
  BY <1>1, <1>4, <1>8, FS_EmptySet DEF Counting
<1>10. Locals'
  BY <1>8 DEF Locals
<1>11. JobsTaken'
  <2>1. \A j \in Jobs : ~Taken(j)' /\ runs'[j] = 0
    BY <1>1, <1>4, NumbersAre DEF Taken, Jobs
  <2> QED BY <1>7, <2>1 DEF JobsTaken
<1>12. Ends'
  BY <1>1, <1>2, <1>7 DEF Ends, Idle
<1> QED BY <1>2, <1>6, <1>9, <1>10, <1>11, <1>12 DEF Call

LEMMA AllRest ==
  ASSUME TypeOK, Call, pc[Main] # "wake", OverThreads = Active, \A w \in Workers : pc[w] # "last"
  PROVE  \A w \in Workers : Resting(w)
<1>1. /\ next = NbActiveWorkers + 1 /\ NbActiveWorkers \in 0 .. NbWorkers
      /\ \A w \in Workers : Resting(w) \/ w < next
  BY ActiveIs DEF Call, Places
<1>2. ASSUME NEW w \in Workers, w < next PROVE Resting(w)
  <2>1. w \in Active
    BY <1>1, <1>2, NumbersAre DEF Active
  <2>2. Over(w)
    BY <2>1 DEF OverThreads
  <2> QED BY <2>2, NumbersAre DEF Over
<1> QED BY <1>1, <1>2

\* A call returns.
LEMMA ReturnStep ==
  ASSUME IInv, (Join /\ done) \/ MainLast
  PROVE  pc'[Main] = "idle" /\ Idle' /\ OverThreads = Active /\ Call
<1>0. TypeOK /\ Main \in Threads /\ Main \notin Workers
      /\ pc \in [Threads -> Pcs] /\ Workers \subseteq Threads
  BY NumbersAre DEF IInv, TypeOK, Pcs
<1>1. Call /\ pc[Main] # "wake"
  BY DEF IInv, Stages, InCall, Join, MainLast
<1>2. /\ pc'[Main] = "idle" /\ UNCHANGED <<finished, wdone>>
      /\ \A u \in Workers : pc'[u] = pc[u]
  BY <1>0 DEF Join, MainLast, Go
<1>3. OverThreads = Active /\ ~done' /\ \A w \in Workers : pc[w] # "last"
  <2>1. CASE Join /\ done
    <3>1. OverThreads = Active /\ \A w \in Workers : pc[w] # "last"
      BY <1>0, <1>1, <2>1 DEF Call, Ends
    <3> QED BY <2>1, <3>1 DEF Join
  <2>2. CASE MainLast
    <3>1. OverThreads = Active /\ ~done /\ \A w \in Workers : pc[w] # "last"
      BY <1>0, <1>1, <2>2 DEF Call, Ends, MainLast
    <3> QED BY <2>2, <3>1 DEF MainLast
  <2> QED BY <2>1, <2>2
<1>4. \A w \in Workers : Resting(w)
  BY <1>0, <1>1, <1>3, AllRest
<1>5. \A w \in Workers : Resting(w)'
  BY <1>2, <1>4 DEF Resting, Parked
<1>6. ~finished
  BY <1>1 DEF Call, Places
<1> QED BY <1>1, <1>2, <1>3, <1>5, <1>6 DEF Idle
-----------------------------------------------------------------------------
(* The invariant, and that the threads and the calls keep apart.            *)

LEMMA StagesAfter ==
  /\ pc'[Main] \in CreateStates /\ Creating' => Stages'
  /\ pc'[Main] = "idle" /\ Idle' => Stages'
  /\ pc'[Main] \in {"free", "freed"} /\ Freeing' => Stages'
  /\ InCall' /\ Call' => Stages'
BY DEF Stages, MainStates, CreateStates, InCall

LEMMA IInvInit == Init => IInv
<1> SUFFICES ASSUME Init PROVE Stages
  BY TypeInit DEF IInv
<1>1. pc[Main] = "create" /\ \A w \in Workers : pc[w] = "none"
  BY NumbersAre DEF Init
<1>2. Creating
  BY <1>1, NumbersAre DEF Init, Creating
<1> QED BY <1>1, <1>2 DEF Stages, MainStates

LEMMA AloneStep ==
  ASSUME IInv, NEW w \in Workers, Park(w) \/ WorkerResume(w) \/ SpuriousWake(w)
  PROVE  Stages'
<1>1. CASE pc[Main] \in {"create", "create_wait", "create_woken"} /\ Creating
  BY <1>1, CreatingWorker, StagesAfter DEF CreateStates
<1>2. CASE pc[Main] = "idle" /\ Idle
  BY <1>2, IdleWorker, StagesAfter
<1>3. CASE InCall /\ Call
  BY <1>3, ParkStep, ResumeStep, SpuriousStep, StagesAfter
<1>4. CASE pc[Main] \in {"free", "freed"} /\ Freeing
  BY <1>4, FreeingWorker, StagesAfter
<1> QED BY <1>1, <1>2, <1>3, <1>4 DEF IInv, Stages

LEMMA MainAloneStep ==
  ASSUME IInv, AllAwake \/ MainJoins \/ Join \/ MainLast \/ SpuriousWake(Main)
  PROVE  Stages'
<1>1. CASE SpuriousWake(Main) /\ pc[Main] \in CreateStates
  <2>1. Creating /\ TypeOK
    BY <1>1 DEF IInv, Stages, InCall, CreateStates
  <2>2. PICK p \in {<<"wait", "woken">>, <<"create_wait", "create_woken">>,
                    <<"done_wait", "done_woken">>} : pc[Main] = p[1] /\ Go(Main, p[2])
    BY <1>1 DEF SpuriousWake
  <2>3. pc[Main] = "create_wait" /\ Go(Main, "create_woken")
    BY <1>1, <2>2 DEF CreateStates
  <2>4. /\ pc'[Main] = "create_woken" /\ \A u \in Workers : pc'[u] = pc[u]
        /\ UNCHANGED <<done, finished, wdone, next>>
    BY <1>1, <2>1, <2>3, Goes, NumbersAre DEF SpuriousWake
  <2>5. Creating'
    BY <2>1, <2>3, <2>4 DEF Creating, Parked
  <2> QED BY <2>4, <2>5, StagesAfter DEF CreateStates
<1>2. CASE (Join /\ done) \/ MainLast
  BY <1>2, ReturnStep, StagesAfter
<1>3. CASE /\ InCall /\ Call
           /\ AllAwake \/ MainJoins \/ (Join /\ ~done) \/ SpuriousWake(Main)
  BY <1>3, MainQuietStep, StagesAfter
<1>4. pc[Main] \in CreateStates \/ InCall
  BY DEF AllAwake, MainJoins, Join, MainLast, SpuriousWake, IInv, Stages, MainStates,
         CreateStates, InCall
<1>5. SpuriousWake(Main) \/ pc[Main] \notin CreateStates
  BY DEF AllAwake, MainJoins, Join, MainLast, CreateStates
<1>6. InCall => Call
  BY DEF IInv, Stages, InCall
<1> QED BY <1>1, <1>2, <1>3, <1>4, <1>5, <1>6

LEMMA IInvStep ==
  ASSUME IInv, [Next]_vars
  PROVE  IInv'
<1> SUFFICES Stages'
  BY TypeStep DEF IInv
<1>1. CASE CreateWorker \/ CreateResume \/ CreateDone \/ CreateFail
  BY <1>1, CreateSteps, StagesAfter
<1>2. CASE WakeWorker
  BY <1>2, WakeStep, StagesAfter
<1>3. CASE AllAwake \/ MainJoins \/ Join \/ MainLast
  BY <1>3, MainAloneStep
<1>4. ASSUME NEW t \in Threads, RunJobs(t) PROVE Stages'
  BY <1>4, FirstJobStep, EndJobStep, NextJobStep, StagesAfter DEF RunJobs
<1>5. CASE Free \/ FreeWorker \/ JoinWorkers
  BY <1>5, FreeSteps, StagesAfter
<1>6. ASSUME NEW n \in 1 .. MaxJobs, NEW m \in BOOLEAN, Execute(n, m) PROVE Stages'
  BY <1>6, ExecuteStep, StagesAfter
<1>7. ASSUME NEW w \in Workers, Park(w) \/ WorkerResume(w) PROVE Stages'
  BY <1>7, AloneStep
<1>8. ASSUME NEW w \in Workers, TellMain(w) PROVE Stages'
  <2>1. InCall /\ Call
    BY <1>8, WorksInCall, NumbersAre DEF TellMain
  <2> QED BY <1>8, <2>1, TellStep, StagesAfter
<1>9. ASSUME NEW t \in Threads, SpuriousWake(t) PROVE Stages'
  BY <1>9, AloneStep, MainAloneStep DEF Threads
<1>10. CASE UNCHANGED vars
  <2>1. UNCHANGED <<pc, wdone, next, done, finished, first_job, current_job, nb_jobs,
                    nb_active_threads, main_func, execute_main, local, runs>>
    BY <1>10 DEF vars, shared
  <2>2. /\ UNCHANGED <<NbThreads, NbActiveWorkers, MainFunc, Active>>
        /\ \A t : (Begun(t)' <=> Begun(t)) /\ (Over(t)' <=> Over(t))
        /\ \A w : (Resting(w)' <=> Resting(w)) /\ (Parked(w)' <=> Parked(w))
    BY <2>1 DEF NbThreads, NbActiveWorkers, MainFunc, Active, Begun, Over, Resting, Parked
  <2>3. BegunThreads' = BegunThreads /\ OverThreads' = OverThreads
    BY <2>2 DEF BegunThreads, OverThreads
  <2>4. Call => Call'
    <3>1. Places => Places'
      BY <2>1, <2>2 DEF Places
    <3>2. (Counting => Counting') /\ (Locals => Locals')
      BY <2>1, <2>3 DEF Counting, Locals
    <3>3. JobsTaken => JobsTaken'
      BY <2>1 DEF JobsTaken, Taken
    <3>4. Ends => Ends'
      BY <2>1, <2>2, <2>3 DEF Ends
    <3> QED BY <3>1, <3>2, <3>3, <3>4 DEF Call
  <2>5. (Creating => Creating') /\ (Idle => Idle') /\ (Freeing => Freeing')
    BY <2>1, <2>2 DEF Creating, Idle, Freeing
  <2> QED BY <2>1, <2>4, <2>5 DEF IInv, Stages, InCall
<1> QED BY <1>1, <1>2, <1>3, <1>4, <1>5, <1>6, <1>7, <1>8, <1>9, <1>10, NumbersAre
        DEF Next, MainStep, WorkerStep

\* Of slicethread.c: the threads are always where one of the stages of the main
\* thread lets them be, and in a call the counters count them.
THEOREM Invariant == Spec => []IInv
BY IInvInit, IInvStep, PTL DEF Spec

LEMMA IInvImpliesKeptApart == IInv => KeptApart
<1> SUFFICES ASSUME IInv PROVE KeptApart
  OBVIOUS
<1>0. TypeOK
  BY DEF IInv
<1>1. ASSUME NEW t \in Threads, pc[t] = "run"
      PROVE  /\ local[t].first < NbThreads
             /\ \A u \in Threads \ {t} : pc[u] = "run" => local[u].first # local[t].first
  <2>1. Call /\ \A u \in Threads : pc[u] = "run" => u \in BegunThreads
    BY <1>1, WorksInCall DEF BegunThreads, Begun
  <2>2. /\ local[t].first < first_job
        /\ \A u \in Threads : pc[u] = "run" /\ local[u].first = local[t].first => u = t
    BY <1>1, <2>1 DEF Call, Locals
  <2>3. first_job \in 0 .. NbThreads /\ local[t].first \in Nat
    BY <1>0, NumbersAre DEF TypeOK
  <2> QED BY <2>2, <2>3, NumbersAre
<1>2. ThreadNumbers
  BY <1>1 DEF ThreadNumbers
<1>3. NoStraggler
  <2>1. ASSUME ~InCall
        PROVE  /\ ~done
               /\ \A w \in Workers : /\ pc[w] \notin {"start", "run", "fetch", "last"}
                                     /\ pc[w] = "woken" => wdone[w] \/ finished
    <3>1. Creating \/ Idle \/ Freeing
      BY <2>1 DEF IInv, Stages
    <3>2. ~done
      BY <3>1 DEF Creating, Idle, Freeing
    <3>3. \A w \in Workers : pc[w] \notin {"start", "run", "fetch", "last"}
      BY <2>1, WorksInCall, NumbersAre
    <3>4. ASSUME NEW w \in Workers, pc[w] = "woken" PROVE wdone[w] \/ finished
      <4>1. CASE Creating
        <5>1. next \in Int /\ w \in Int
          BY <1>0, NumbersAre DEF TypeOK
        <5>2. w < next \/ w > next \/ w = next
          BY <5>1
        <5> QED BY <3>4, <4>1, <5>2 DEF Creating
      <4>2. CASE Idle
        BY <3>4, <4>2 DEF Idle, Resting
      <4>3. CASE Freeing
        BY <4>3 DEF Freeing
      <4> QED BY <3>1, <4>1, <4>2, <4>3
    <3> QED BY <3>2, <3>3, <3>4
  <2> QED BY <2>1 DEF NoStraggler
<1>4. OneLast
  <2>1. ASSUME NEW t \in Threads, pc[t] = "last"
        PROVE  ~done /\ \A u \in Threads : pc[u] = "last" => u = t
    BY <2>1, WorksInCall DEF Call, Ends
  <2> QED BY <2>1 DEF OneLast
<1> QED BY <1>0, <1>2, <1>3, <1>4 DEF KeptApart

\* Threads of a call work under different numbers, a call leaves nobody behind
\* that could touch the counters of the next one, and one thread is the last.
THEOREM ThreadsKeepApart == Spec => []KeptApart
BY Invariant, IInvImpliesKeptApart, PTL
-----------------------------------------------------------------------------
(* The calls of ParallelJobs.                                               *)

Running == {t \in Threads : pc[t] = "run"}
Todo    == {j \in 0 .. nb_jobs - 1 : runs[j] = 0}
Busy    == {local[t].current : t \in Running}

LEMMA PoolIs ==
  /\ Pool!Init <=> (InCall = FALSE /\ Todo = {} /\ Busy = {})
  /\ UNCHANGED Pool!vars <=> (InCall' = InCall /\ Todo' = Todo /\ Busy' = Busy)
BY DEF Pool!Init, Pool!vars, Todo, Busy, Running

\* A step after which the same jobs run and the same are left.
LEMMA SameJobs ==
  ASSUME TypeOK, UNCHANGED <<nb_jobs, runs>>, InCall' <=> InCall, Running' = Running,
         \A t \in Running : local'[t].current = local[t].current
  PROVE  UNCHANGED Pool!vars
<1>1. Todo' = Todo /\ Busy' = Busy
  BY DEF Todo, Busy
<1>2. InCall' = InCall
  BY DEF InCall
<1> QED BY <1>1, <1>2, PoolIs

\* Steps outside run_jobs() that neither begin nor end a call.
LEMMA OutsideJobs ==
  ASSUME IInv,
         \/ CreateWorker \/ CreateResume \/ CreateDone \/ CreateFail
         \/ WakeWorker \/ AllAwake \/ MainJoins \/ (Join /\ ~done)
         \/ FreeWorker \/ JoinWorkers \/ Free
         \/ \E w \in Workers : Park(w) \/ WorkerResume(w) \/ TellMain(w)
         \/ \E t \in Threads : SpuriousWake(t)
         \/ UNCHANGED vars
  PROVE  UNCHANGED Pool!vars
<1>0. TypeOK /\ pc \in [Threads -> Pcs] /\ Main \in Threads /\ Main \notin Workers
      /\ Workers \subseteq Threads
  BY NumbersAre DEF IInv, TypeOK, Pcs
<1>1. UNCHANGED <<nb_jobs, runs, local>>
  BY DEF CreateWorker, CreateResume, CreateDone, CreateFail, WakeWorker, AllAwake, MainJoins,
         Join, FreeWorker, JoinWorkers, Free, Park, WorkerResume, TellMain, SpuriousWake, vars,
         shared
<1> DEFINE Kept == /\ InCall' <=> InCall
                   /\ \A t \in Threads : pc'[t] = "run" <=> pc[t] = "run"
<1> SUFFICES Kept
  <2>1. ASSUME Kept PROVE UNCHANGED Pool!vars
    <3>1. Running' = Running
      BY <2>1 DEF Running
    <3> QED BY <1>0, <1>1, <2>1, <3>1, SameJobs
  <2> QED BY <2>1
<1>2. CASE CreateWorker \/ CreateResume \/ CreateDone \/ CreateFail
  <2>1. pc[Main] \in CreateStates /\ ~InCall
    BY <1>2 DEF CreateWorker, CreateResume, CreateDone, CreateFail, CreateStates, InCall
  <2>2. ~InCall'
    BY <1>2, CreateSteps DEF CreateStates, InCall
  <2>3. CASE CreateWorker
    <3>1. pc[next] # "run"
      BY <2>1, <2>3, WorksInCall DEF CreateWorker, Threads
    <3> QED BY <1>0, <2>1, <2>2, <2>3, <3>1 DEF CreateWorker
  <2>4. CASE CreateResume \/ CreateDone \/ CreateFail
    BY <1>0, <2>1, <2>2, <2>4 DEF CreateResume, CreateDone, CreateFail, CreateStates, Go
  <2> QED BY <1>2, <2>3, <2>4
<1>3. CASE WakeWorker \/ FreeWorker
  <2>1. next \in Workers
    <3>1. CASE WakeWorker
      <4>1. Parked(next) /\ Call /\ next \in Nat /\ 1 <= next
        BY <1>0, <3>1, NumbersAre DEF WakeWorker, IInv, Stages, InCall, TypeOK
      <4>2. NbActiveWorkers \in 0 .. NbWorkers
        BY <1>0, <4>1, ActiveIs DEF Call
      <4> QED BY <3>1, <4>1, <4>2, NumbersAre DEF WakeWorker, Workers
    <3>2. CASE FreeWorker
      BY <3>2 DEF FreeWorker, Created
    <3> QED BY <1>3, <3>1, <3>2
  <2>2. \E p \in {"wake", "free"} : SignalAndGo(next, p) /\ pc[Main] = p
    BY <1>3 DEF WakeWorker, FreeWorker
  <2>3. /\ pc'[next] = (IF pc[next] = "wait" THEN "woken" ELSE pc[next])
        /\ pc[Main] \in {"wake", "free"} /\ pc'[Main] = pc[Main]
        /\ \A u \in Workers : u # next => pc'[u] = pc[u]
    BY <1>0, <2>1, <2>2, Signals
  <2> QED BY <2>1, <2>3 DEF InCall, Threads
<1>4. CASE AllAwake \/ MainJoins \/ (Join /\ ~done)
  <2>1. InCall
    BY <1>4 DEF AllAwake, MainJoins, Join, InCall
  <2>2. InCall'
    BY <1>4, <2>1, MainQuietStep DEF IInv, Stages, InCall
  <2>3. \A t \in Threads : pc'[t] = "run" <=> pc[t] = "run"
    BY <1>0, <1>4 DEF AllAwake, MainJoins, Join, Go
  <2> QED BY <2>1, <2>2, <2>3
<1>5. CASE JoinWorkers \/ Free
  BY <1>0, <1>5 DEF JoinWorkers, Free, InCall, Go
<1>6. ASSUME NEW w \in Workers, Park(w) \/ WorkerResume(w) PROVE Kept
  <2>1. pc[w] # "run" /\ pc'[w] # "run"
    BY <1>0, <1>6 DEF Park, WorkerResume, Go
  <2>2. /\ \A u \in Workers : u # w => pc'[u] = pc[u]
        /\ pc'[Main] = pc[Main] \/ (pc[Main] = "create_wait" /\ pc'[Main] = "create_woken")
    BY <1>0, <1>6, WorkerAlone
  <2> QED BY <2>1, <2>2 DEF InCall, Threads
<1>7. ASSUME NEW w \in Workers, TellMain(w) PROVE Kept
  BY <1>0, <1>7 DEF TellMain, InCall, Threads
<1>8. ASSUME NEW t \in Threads, SpuriousWake(t) PROVE Kept
  <2>1. PICK p \in {<<"wait", "woken">>, <<"create_wait", "create_woken">>,
                    <<"done_wait", "done_woken">>} : pc[t] = p[1] /\ Go(t, p[2])
    BY <1>8 DEF SpuriousWake
  <2>2. /\ pc[t] = p[1] /\ pc'[t] = p[2] /\ \A u \in Threads : u # t => pc'[u] = pc[u]
    BY <1>0, <2>1, Goes
  <2>3. pc[t] # "run" /\ pc'[t] # "run"
    BY <2>2
  <2>4. InCall' <=> InCall
    <3>1. CASE t = Main
      BY <2>2, <3>1 DEF InCall
    <3>2. CASE t # Main
      BY <1>0, <2>2, <3>2 DEF InCall
    <3> QED BY <3>1, <3>2
  <2> QED BY <2>2, <2>3, <2>4
<1>9. CASE UNCHANGED vars
  BY <1>9 DEF vars, InCall
<1> QED BY <1>2, <1>3, <1>4, <1>5, <1>6, <1>7, <1>8, <1>9

\* A job that is begun, by a thread that now runs it.
LEMMA BeginsJob ==
  ASSUME IInv, InCall, InCall', Call, nb_jobs' = nb_jobs, NEW t \in Threads,
         NEW j \in Nat, j < nb_jobs, ~Taken(j),
         Started(j), pc[t] # "run", pc'[t] = "run", local'[t].current = j,
         \A u \in Threads : u # t => pc'[u] = pc[u] /\ local'[u] = local[u]
  PROVE  Pool!Next
<1>0. TypeOK /\ nb_jobs \in Nat /\ nb_jobs <= MaxJobs
  BY NumbersAre DEF IInv, TypeOK
<1>1. j \in Jobs /\ j \in 0 .. MaxJobs - 1 /\ j \in 0 .. nb_jobs - 1
  BY <1>0, NumbersAre DEF Jobs
<1>2. runs[j] = 0
  BY <1>1 DEF Call, JobsTaken
<1>3. runs'[j] = 1 /\ \A i \in Jobs : i # j => runs'[i] = runs[i]
  BY <1>0, <1>1, <1>2, RunsAfter DEF TypeOK
<1>4. \A i \in 0 .. nb_jobs - 1 : i \in Jobs
  BY <1>0, NumbersAre DEF Jobs
<1>5. j \in Todo /\ Todo' = Todo \ {j}
  BY <1>1, <1>2, <1>3, <1>4 DEF Todo
<1>6. Running' = Running \cup {t} /\ t \notin Running
  BY DEF Running
<1>7. Busy' = Busy \cup {j}
  <2>1. \A u \in Running : u \in Threads /\ u # t
    BY <1>6 DEF Running
  <2> QED BY <1>6, <2>1 DEF Busy
<1>8. InCall' = InCall
  BY DEF InCall
<1>9. Pool!Begin(j)
  BY <1>5, <1>7, <1>8 DEF Pool!Begin, Todo, Busy, Running
<1> QED BY <1>1, <1>9 DEF Pool!Next

LEMMA EndsJob ==
  ASSUME IInv, NEW t \in Threads, EndJob(t)
  PROVE  Pool!Next
<1>0. TypeOK /\ nb_jobs \in Nat /\ nb_jobs <= MaxJobs /\ InCall /\ Call
  BY WorksInCall, NumbersAre DEF IInv, TypeOK, EndJob
<1>1. /\ pc[t] = "run" /\ pc'[t] = "fetch" /\ UNCHANGED <<nb_jobs, runs, local>>
      /\ \A u \in Threads : u # t => pc'[u] = pc[u]
  BY <1>0, Goes DEF EndJob, shared
<1>2. Running' = Running \ {t} /\ t \in Running
  BY <1>1 DEF Running
<1>3. /\ Taken(local[t].current)
      /\ \A u \in Running : local[u].current = local[t].current => u = t
  BY <1>0, <1>1 DEF Call, JobsTaken, Running
<1>4. local[t].current \in 0 .. MaxJobs - 1
  <2>1. local[t].current < nb_jobs /\ local[t].current \in Nat
    BY <1>0, <1>3, NumbersAre DEF Taken, TypeOK
  <2> QED BY <1>0, <2>1, NumbersAre
<1>5. PICK j \in 0 .. MaxJobs - 1 : j \in Busy /\ Busy' = Busy \ {j}
  <2>1. local[t].current \in Busy /\ Busy' = Busy \ {local[t].current}
    BY <1>1, <1>2, <1>3 DEF Busy
  <2> QED BY <1>4, <2>1
<1>6. Todo' = Todo /\ InCall' = InCall
  <2>1. InCall'
    BY EndJobStep
  <2> QED BY <1>0, <1>1, <2>1 DEF Todo, InCall
<1>7. Pool!End(j)
  BY <1>5, <1>6 DEF Pool!End, Todo, Busy, Running
<1> QED BY <1>7 DEF Pool!Next

LEMMA StepOfRunJobs ==
  ASSUME IInv, NEW t \in Threads, RunJobs(t)
  PROVE  [Pool!Next]_Pool!vars
<1>1. CASE EndJob(t)
  BY <1>1, EndsJob
<1>2. CASE FirstJob(t)
  <2>1. InCall /\ InCall' /\ Call /\ TypeOK /\ Places
    BY <1>2, WorksInCall, FirstJobStep DEF FirstJob, IInv, Call
  <2>2. first_job \in Nat /\ first_job < nb_active_threads
    BY <1>2, RoomToBegin DEF FirstJob
  <2>3. nb_active_threads \in Nat /\ nb_active_threads <= nb_jobs /\ nb_jobs \in Nat
    BY <2>1, ActiveIs
  <2>4. first_job < nb_jobs /\ ~Taken(first_job)
    BY <2>2, <2>3 DEF Taken
  <2>5. /\ pc[t] # "run" /\ pc'[t] = "run" /\ Started(first_job) /\ nb_jobs' = nb_jobs
        /\ \A u \in Threads : u # t => pc'[u] = pc[u]
    BY <1>2, <2>1, Goes DEF FirstJob
  <2>6. /\ local'[t].current = first_job
        /\ \A u \in Threads : u # t => local'[u] = local[u]
    BY <1>2, <2>1 DEF FirstJob, TypeOK
  <2>7. Pool!Next
    BY <2>1, <2>2, <2>4, <2>5, <2>6, BeginsJob
  <2> QED BY <2>7
<1>3. CASE NextJob(t)
  <2>1. InCall /\ InCall' /\ Call /\ TypeOK /\ Places
    BY <1>3, WorksInCall, NextJobStep DEF NextJob, IInv, Call
  <2>2. /\ pc[t] = "fetch" /\ \A u \in Threads : u # t => pc'[u] = pc[u]
        /\ nb_jobs' = nb_jobs /\ current_job \in Nat /\ local'[t].current = current_job
        /\ \A u \in Threads : u # t => local'[u] = local[u]
    BY <1>3, NextJobCommon
  <2>3. CASE current_job < nb_jobs
    <3>1. Started(current_job) /\ pc'[t] = "run"
      BY <1>3, <2>3, NextJobCommon
    <3>2. ~Taken(current_job)
      <4>1. first_job = Cardinality(BegunThreads) /\ nb_active_threads <= current_job
        BY <2>1 DEF Call, Counting
      <4>2. first_job \in Nat /\ first_job <= nb_active_threads /\ nb_active_threads \in Nat
        BY <2>1, <4>1, CountsAre, ActiveIs
      <4> QED BY <2>2, <4>1, <4>2 DEF Taken
    <3>3. Pool!Next
      BY <2>1, <2>2, <2>3, <3>1, <3>2, BeginsJob
    <3> QED BY <3>3
  <2>4. CASE ~(current_job < nb_jobs)
    <3>1. UNCHANGED runs /\ pc'[t] \in {"last", "ran"}
      BY <1>3, <2>4, NextJobCommon
    <3>2. Running' = Running /\ t \notin Running
      BY <2>2, <3>1 DEF Running
    <3>3. \A u \in Running : local'[u].current = local[u].current
      BY <2>2, <3>2 DEF Running
    <3>4. UNCHANGED Pool!vars
      BY <2>1, <2>2, <3>1, <3>2, <3>3, SameJobs
    <3> QED BY <3>4
  <2> QED BY <2>3, <2>4
<1> QED BY <1>1, <1>2, <1>3 DEF RunJobs

\* When a call returns no job is left and none is running.
LEMMA ReturnsAtEnd ==
  ASSUME IInv, (Join /\ done) \/ MainLast
  PROVE  Pool!Next
<1>0. /\ TypeOK /\ pc'[Main] = "idle" /\ OverThreads = Active /\ Call /\ Places /\ InCall
      /\ UNCHANGED <<nb_jobs, runs, local>>
  BY ReturnStep DEF IInv, Call, InCall, Join, MainLast, shared
<1>1. /\ nb_active_threads \in Nat /\ 1 <= nb_active_threads /\ nb_jobs \in Nat
      /\ nb_jobs <= MaxJobs /\ Cardinality(Active) = nb_active_threads /\ BegunThreads = Active
      /\ current_job \in Nat
  <2>1. /\ nb_active_threads \in Nat /\ 1 <= nb_active_threads /\ nb_jobs \in Nat
        /\ Cardinality(Active) = nb_active_threads
    BY <1>0, ActiveIs
  <2>2. BegunThreads = Active
    BY <1>0, CountsAre
  <2>3. nb_jobs <= MaxJobs /\ current_job \in Nat
    BY <1>0, NumbersAre DEF TypeOK
  <2> QED BY <2>1, <2>2, <2>3
<1>2. first_job = nb_active_threads /\ current_job = nb_jobs + nb_active_threads
  BY <1>0, <1>1 DEF Call, Counting
<1>3. Todo = {}
  <2>1. \A j \in 0 .. nb_jobs - 1 : j \in Jobs /\ Taken(j)
    BY <1>1, <1>2, NumbersAre DEF Taken, Jobs
  <2> QED BY <1>0, <2>1 DEF Todo, Call, JobsTaken
<1>4. \A t \in Threads : pc[t] # "run"
  <2>1. SUFFICES ASSUME NEW t \in Threads, pc[t] = "run" PROVE FALSE
    OBVIOUS
  <2>2. Over(t)
    BY <1>0, <2>1, WorksInCall DEF OverThreads
  <2> QED BY <2>1, <2>2 DEF Over, Resting, Parked
<1>5. \A t \in Threads : pc'[t] # "run"
  BY <1>0, <1>4, NumbersAre DEF Join, MainLast, Go, TypeOK
<1>6. Running = {} /\ Running' = {}
  BY <1>4, <1>5 DEF Running
<1>7. Busy = {} /\ Busy' = {} /\ Todo' = Todo /\ ~InCall'
  BY <1>0, <1>6 DEF Busy, Todo, InCall
<1>8. Pool!Return
  <2>1. InCall' = FALSE
    BY <1>7 DEF InCall
  <2> QED BY <1>0, <1>3, <1>7, <2>1 DEF Pool!Return, Todo, Busy, Running
<1> QED BY <1>8 DEF Pool!Next

LEMMA ExecuteCalls ==
  ASSUME IInv, NEW n \in 1 .. MaxJobs, NEW m \in BOOLEAN, Execute(n, m)
  PROVE  Pool!Next
<1>0. TypeOK /\ Main \in Threads /\ pc \in [Threads -> Pcs]
  BY NumbersAre DEF IInv, TypeOK, Pcs
<1>1. /\ pc[Main] = "idle" /\ pc'[Main] = "wake" /\ \A u \in Threads : u # Main => pc'[u] = pc[u]
      /\ nb_jobs' = n /\ runs' = [j \in Jobs |-> 0] /\ UNCHANGED local
  BY <1>0 DEF Execute, Stores, Go
<1>2. Todo' = 0 .. n - 1
  <2>1. \A j \in 0 .. n - 1 : j \in Jobs
    BY NumbersAre DEF Jobs
  <2> QED BY <1>1, <2>1 DEF Todo
<1>3. Running' = Running
  BY <1>1 DEF Running
<1>4. Busy' = Busy
  BY <1>1, <1>3 DEF Busy
<1>5. ~InCall /\ InCall' = TRUE
  BY <1>1 DEF InCall
<1>6. Pool!Call(n)
  BY <1>2, <1>4, <1>5 DEF Pool!Call, Todo, Busy, Running
<1> QED BY <1>6 DEF Pool!Next

LEMMA PoolInit == Init => Pool!Init
<1> SUFFICES ASSUME Init PROVE Pool!Init
  OBVIOUS
<1>1. /\ nb_jobs = 0 /\ pc[Main] = "create" /\ \A t \in Threads : pc[t] # "run"
  BY NumbersAre DEF Init
<1>2. Todo = {} /\ Running = {}
  BY <1>1 DEF Todo, Running
<1>3. InCall = FALSE /\ Busy = {}
  BY <1>1, <1>2 DEF InCall, Busy
<1> QED BY <1>2, <1>3, PoolIs

LEMMA PoolStep ==
  ASSUME IInv, [Next]_vars
  PROVE  [Pool!Next]_Pool!vars
<1>1. ASSUME NEW t \in Threads, RunJobs(t) PROVE [Pool!Next]_Pool!vars
  BY <1>1, StepOfRunJobs
<1>2. CASE (Join /\ done) \/ MainLast
  BY <1>2, ReturnsAtEnd
<1>3. ASSUME NEW n \in 1 .. MaxJobs, NEW m \in BOOLEAN, Execute(n, m)
      PROVE  [Pool!Next]_Pool!vars
  BY <1>3, ExecuteCalls
<1>4. CASE \/ CreateWorker \/ CreateResume \/ CreateDone \/ CreateFail
           \/ WakeWorker \/ AllAwake \/ MainJoins \/ (Join /\ ~done)
           \/ FreeWorker \/ JoinWorkers \/ Free
           \/ \E w \in Workers : Park(w) \/ WorkerResume(w) \/ TellMain(w)
           \/ \E t \in Threads : SpuriousWake(t)
           \/ UNCHANGED vars
  BY <1>4, OutsideJobs
<1> QED BY <1>1, <1>2, <1>3, <1>4, NumbersAre DEF Next, MainStep, WorkerStep

\* The pool implements the calls of ParallelJobs: every job of a call is begun
\* once and ended, all of them between the call and its return.
THEOREM ImplementsParallelJobs == Spec => JobsRunOnce
<1>1. Spec => []IInv
  BY Invariant
<1>2. IInv /\ [Next]_vars => [Pool!Next]_Pool!vars
  BY PoolStep
<1> QED BY <1>1, <1>2, PoolInit, PTL DEF Spec, JobsRunOnce, Pool!Spec

=============================================================================

---------------------------- MODULE SliceThread ----------------------------
(***************************************************************************)
(* libavutil/slicethread.c: a pool of threads that executes the jobs of    *)
(* one call at a time, for slice-threaded decoders, filters and scalers.   *)
(*                                                                         *)
(* Nothing but two counters tells the threads which job is next and which  *)
(* of them is the last one to finish: first_job hands out the thread       *)
(* numbers, each of which is also a thread's first job, and current_job    *)
(* the other jobs.  Once the jobs have run out current_job goes on         *)
(* counting the threads that noticed.                                      *)
(*                                                                         *)
(* A worker keeps its own mutex locked except while it waits for work, so  *)
(* it is parked when the main thread gets that mutex.  Each access to a    *)
(* counter and each critical section is an action.                         *)
(***************************************************************************)
EXTENDS Integers, FiniteSets

CONSTANTS
  NbWorkers,   \* worker threads of the pool
  MaxJobs,     \* bound on nb_jobs
  MaxCalls     \* bound on the calls of avpriv_slicethread_execute()

ASSUME SliceAssumption ==
  /\ NbWorkers \in Nat \ {0}
  /\ MaxJobs \in Nat \ {0}
  /\ MaxCalls \in Nat

VARIABLES
  main_func,   \* was a main_func given to avpriv_slicethread_create()?
  nb_jobs, nb_active_threads, first_job, current_job, done, finished,
  wdone,   \* wdone[w]: done of worker w
  pc,      \* pc[t]: where thread t is
  local,   \* local[t]: the variables of t's run_jobs()
  next,    \* the worker the main thread's loops are at
  execute_main,
  runs,    \* history: how often each job of the call was started
  calls    \* calls so far, for MaxCalls

\* nb_threads counts the calling thread unless it has its own main_func.
NbThreads == IF main_func THEN NbWorkers ELSE NbWorkers + 1

Main    == 0
Workers == 1 .. NbWorkers
Threads == {Main} \cup Workers
Jobs    == 0 .. MaxJobs - 1

shared == <<main_func, nb_jobs, nb_active_threads, first_job, current_job>>
vars   == <<shared, done, finished, wdone, pc, local, next, execute_main, runs, calls>>

\* A thread that goes on to p.
Go(t, p) == pc' = [pc EXCEPT ![t] = p]

\* The main thread signals the condition variable of worker w and goes on to p.
SignalAndGo(w, p) ==
  pc' = [pc EXCEPT ![w] = IF @ = "wait" THEN "woken" ELSE @, ![Main] = p]

Init ==
  /\ main_func \in BOOLEAN
  /\ nb_jobs = 0 /\ nb_active_threads = 0 /\ first_job = 0 /\ current_job = 0
  /\ done = FALSE
  /\ finished = FALSE
  /\ wdone = [w \in Workers |-> FALSE]
  /\ pc = [t \in Threads |-> IF t = Main THEN "create" ELSE "none"]
  /\ local = [t \in Threads |-> [jobs |-> 0, active |-> 0, first |-> 0, current |-> 0]]
  /\ next = 1
  /\ execute_main = FALSE
  /\ runs = [j \in Jobs |-> 0]
  /\ calls = 0

-----------------------------------------------------------------------------
(* avpriv_slicethread_create() *)

\* pthread_create() under the worker's mutex, then the wait for its readiness.
CreateWorker ==
  /\ pc[Main] = "create" /\ next \in Workers
  /\ wdone' = [wdone EXCEPT ![next] = FALSE]
  /\ pc' = [pc EXCEPT ![next] = "new", ![Main] = "create_wait"]
  /\ UNCHANGED <<shared, done, finished, local, next, execute_main, runs, calls>>

\* The main thread is woken by the worker and has the mutex again.
CreateResume ==
  /\ pc[Main] = "create_woken"
  /\ IF wdone[next] THEN next' = next + 1 /\ Go(Main, "create")
                    ELSE UNCHANGED next /\ Go(Main, "create_wait")
  /\ UNCHANGED <<shared, done, finished, wdone, local, execute_main, runs, calls>>

CreateDone ==
  /\ pc[Main] = "create" /\ next \notin Workers
  /\ Go(Main, "idle")
  /\ UNCHANGED <<shared, done, finished, wdone, local, next, execute_main, runs, calls>>

\* An initialisation or pthread_create() fails: nb_threads is lowered to what
\* exists, and avpriv_slicethread_free() is called.
CreateFail ==
  /\ pc[Main] = "create" /\ next \in Workers
  /\ finished' = TRUE
  /\ next' = 1
  /\ Go(Main, "free")
  /\ UNCHANGED <<shared, done, wdone, local, execute_main, runs, calls>>

-----------------------------------------------------------------------------
(* run_jobs(), by a worker or by the main thread *)

Started(j) == runs' = [runs EXCEPT ![j] = @ + 1]

\* Takes a thread number and starts the job of that number.
FirstJob(t) ==
  /\ pc[t] = "start"
  /\ local' = [local EXCEPT ![t] = [jobs |-> nb_jobs, active |-> nb_active_threads,
                                    first |-> first_job, current |-> first_job]]
  /\ first_job' = first_job + 1
  /\ Started(first_job)
  /\ Go(t, "run")
  /\ UNCHANGED <<main_func, nb_jobs, nb_active_threads, current_job, done, finished, wdone,
                 next, execute_main, calls>>

\* worker_func() returns.
EndJob(t) ==
  /\ pc[t] = "run"
  /\ Go(t, "fetch")
  /\ UNCHANGED <<shared, done, finished, wdone, local, next, execute_main, runs, calls>>

\* Mutant: the last but one takes itself for the last.
NextJobEarly(t) ==
  /\ pc[t] = "fetch"
  /\ current_job' = current_job + 1
  /\ local' = [local EXCEPT ![t].current = current_job]
  /\ LET l == local[t]
     IN  IF current_job < l.jobs
         THEN Started(current_job) /\ Go(t, "run")
         ELSE /\ UNCHANGED runs
              /\ Go(t, IF current_job >= l.jobs + l.active - 2 THEN "last" ELSE "ran")
  /\ UNCHANGED <<main_func, nb_jobs, nb_active_threads, first_job, done, finished, wdone, next,
                 execute_main, calls>>

\* Takes the next job, or finds that there is none and whether t is the last.
NextJob(t) ==
  /\ pc[t] = "fetch"
  /\ current_job' = current_job + 1
  /\ local' = [local EXCEPT ![t].current = current_job]
  /\ LET l == local[t]
     IN  IF current_job < l.jobs
         THEN Started(current_job) /\ Go(t, "run")
         ELSE /\ UNCHANGED runs
              /\ Go(t, IF current_job = l.jobs + l.active - 1 THEN "last" ELSE "ran")
  /\ UNCHANGED <<main_func, nb_jobs, nb_active_threads, first_job, done, finished, wdone, next,
                 execute_main, calls>>

-----------------------------------------------------------------------------
(* thread_worker() *)

\* Ready for work: release the mutex and wait.  A new worker thereby wakes the
\* main thread, which waits on the same condition variable.
Park(w) ==
  /\ pc[w] \in {"new", "ran", "signalled"}
  /\ wdone' = [wdone EXCEPT ![w] = TRUE]
  /\ pc' = [pc EXCEPT ![w] = "wait",
                      ![Main] = IF pc[w] = "new" /\ @ = "create_wait" THEN "create_woken" ELSE @]
  /\ UNCHANGED <<shared, done, finished, local, next, execute_main, runs, calls>>

WorkerResume(w) ==
  /\ pc[w] = "woken"
  /\ Go(w, IF wdone[w] THEN "wait" ELSE IF finished THEN "exit" ELSE "start")
  /\ UNCHANGED <<shared, done, finished, wdone, local, next, execute_main, runs, calls>>

\* Mutant: done is set without a signal.
TellMainSilently(w) ==
  /\ pc[w] = "last"
  /\ done' = TRUE
  /\ Go(w, "signalled")
  /\ UNCHANGED <<shared, finished, wdone, local, next, execute_main, runs, calls>>

\* The last one to finish sets done and signals the main thread.
TellMain(w) ==
  /\ pc[w] = "last"
  /\ done' = TRUE
  /\ pc' = [pc EXCEPT ![w] = "signalled",
                      ![Main] = IF @ = "done_wait" THEN "done_woken" ELSE @]
  /\ UNCHANGED <<shared, finished, wdone, local, next, execute_main, runs, calls>>

-----------------------------------------------------------------------------
(* avpriv_slicethread_execute() *)

Smaller(a, b) == IF a < b THEN a ELSE b

\* The stores at the beginning of a call, the counters starting from f and c.
Stores(n, m, f, c) ==
  /\ pc[Main] = "idle" /\ calls < MaxCalls
  /\ nb_jobs' = n
  /\ nb_active_threads' = Smaller(n, NbThreads)
  /\ first_job' = f
  /\ current_job' = c
  /\ execute_main' = m
  /\ next' = 1
  /\ Go(Main, "wake")
  /\ runs' = [j \in Jobs |-> 0]
  /\ calls' = calls + 1
  /\ UNCHANGED <<main_func, done, finished, wdone, local>>

\* Mutant: both counters are set to 0.
ExecuteFromZero(n, m) == Stores(n, m, 0, 0)

Execute(n, m) == Stores(n, m, 0, Smaller(n, NbThreads))

MainFunc == main_func /\ execute_main

\* The workers that take part in the call.
NbActiveWorkers == IF MainFunc THEN nb_active_threads ELSE nb_active_threads - 1

\* The worker's mutex is free: it is parked.
Parked(w) == pc[w] \in {"wait", "woken"}

WakeWorker ==
  /\ pc[Main] = "wake" /\ next <= NbActiveWorkers
  /\ Parked(next)
  /\ wdone' = [wdone EXCEPT ![next] = FALSE]
  /\ SignalAndGo(next, "wake")
  /\ next' = next + 1
  /\ UNCHANGED <<shared, done, finished, local, execute_main, runs, calls>>

AllAwake ==
  /\ pc[Main] = "wake" /\ next > NbActiveWorkers
  /\ Go(Main, IF MainFunc THEN "main_func" ELSE "start")
  /\ UNCHANGED <<shared, done, finished, wdone, local, next, execute_main, runs, calls>>

\* main_func() returns, or run_jobs() was not the last to finish.
MainJoins ==
  /\ pc[Main] \in {"main_func", "ran"}
  /\ Go(Main, "join")
  /\ UNCHANGED <<shared, done, finished, wdone, local, next, execute_main, runs, calls>>

\* Mutant: done is left set for the next call.
JoinKeepsDone ==
  /\ pc[Main] \in {"join", "done_woken"}
  /\ Go(Main, IF done THEN "idle" ELSE "done_wait")
  /\ UNCHANGED <<shared, done, finished, wdone, local, next, execute_main, runs, calls>>

\* The wait loop on done.
Join ==
  /\ pc[Main] \in {"join", "done_woken"}
  /\ done' = FALSE
  /\ Go(Main, IF done THEN "idle" ELSE "done_wait")
  /\ UNCHANGED <<shared, finished, wdone, local, next, execute_main, runs, calls>>

\* The main thread itself was the last.
MainLast ==
  /\ pc[Main] = "last"
  /\ Go(Main, "idle")
  /\ UNCHANGED <<shared, done, finished, wdone, local, next, execute_main, runs, calls>>

-----------------------------------------------------------------------------
(* avpriv_slicethread_free() *)

Free ==
  /\ pc[Main] = "idle"
  /\ finished' = TRUE
  /\ next' = 1
  /\ Go(Main, "free")
  /\ UNCHANGED <<shared, done, wdone, local, execute_main, runs, calls>>

Created == {w \in Workers : pc[w] # "none"}

FreeWorker ==
  /\ pc[Main] = "free" /\ next \in Created
  /\ Parked(next)
  /\ wdone' = [wdone EXCEPT ![next] = FALSE]
  /\ SignalAndGo(next, "free")
  /\ next' = next + 1
  /\ UNCHANGED <<shared, done, finished, local, execute_main, runs, calls>>

\* pthread_join() of all workers
JoinWorkers ==
  /\ pc[Main] = "free" /\ next \notin Created
  /\ \A w \in Created : pc[w] = "exit"
  /\ Go(Main, "freed")
  /\ UNCHANGED <<shared, done, finished, wdone, local, next, execute_main, runs, calls>>

\* pthread_cond_wait() may return without a signal.
SpuriousWake(t) ==
  /\ \E p \in {<<"wait", "woken">>, <<"create_wait", "create_woken">>,
               <<"done_wait", "done_woken">>} :
       pc[t] = p[1] /\ Go(t, p[2])
  /\ UNCHANGED <<shared, done, finished, wdone, local, next, execute_main, runs, calls>>

-----------------------------------------------------------------------------
RunJobs(t) == FirstJob(t) \/ EndJob(t) \/ NextJob(t)

MainStep == \/ CreateWorker \/ CreateResume \/ CreateDone \/ CreateFail
            \/ WakeWorker \/ AllAwake \/ RunJobs(Main) \/ MainJoins \/ Join \/ MainLast
            \/ FreeWorker \/ JoinWorkers

WorkerStep(w) == Park(w) \/ WorkerResume(w) \/ RunJobs(w) \/ TellMain(w)

Next == \/ MainStep
        \/ \E n \in 1 .. MaxJobs, m \in BOOLEAN : Execute(n, m)
        \/ Free
        \/ \E w \in Workers : WorkerStep(w)
        \/ \E t \in Threads : SpuriousWake(t)

Spec == Init /\ [][Next]_vars

\* Threads make progress; the caller is not obliged to call anything.
FairSpec == /\ Spec
            /\ WF_vars(MainStep)
            /\ \A w \in Workers : WF_vars(WorkerStep(w))

-----------------------------------------------------------------------------
(* Properties *)

InCall == pc[Main] \in {"wake", "start", "run", "fetch", "last", "ran", "main_func", "join",
                        "done_wait", "done_woken"}

TypeOK ==
  /\ nb_jobs \in 0 .. MaxJobs
  /\ nb_active_threads \in 0 .. NbThreads
  /\ main_func \in BOOLEAN
  /\ first_job \in 0 .. NbThreads
  /\ current_job \in 0 .. MaxJobs + NbThreads
  /\ done \in BOOLEAN /\ finished \in BOOLEAN
  /\ wdone \in [Workers -> BOOLEAN]
  /\ pc \in [Threads -> {"create", "create_wait", "create_woken", "idle", "wake", "start",
       "run", "fetch", "last", "ran", "main_func", "join", "done_wait", "done_woken", "free",
       "freed", "none", "new", "wait", "woken", "signalled", "exit"}]
  /\ local \in [Threads -> [jobs : 0 .. MaxJobs, active : 0 .. NbThreads,
                            first : 0 .. NbThreads, current : 0 .. MaxJobs + NbThreads]]
  /\ next \in 1 .. NbThreads + 1
  /\ execute_main \in BOOLEAN
  /\ runs \in [Jobs -> Nat]
  /\ calls \in 0 .. MaxCalls

\* No two threads execute jobs under the same thread number at the same time,
\* and the numbers are smaller than the number of threads: worker_func() may
\* index per-thread buffers with them.
ThreadNumbers ==
  \A t \in Threads : pc[t] = "run" =>
    /\ local[t].first < NbThreads
    /\ \A u \in Threads \ {t} : pc[u] = "run" => local[u].first # local[t].first

\* When a call returns, no worker is left that could still touch the counters
\* which the next call resets without a lock, and no stale done flag is left for
\* it either.
NoStraggler ==
  ~InCall =>
    /\ \A w \in Workers : /\ pc[w] \notin {"start", "run", "fetch", "last"}
                          /\ pc[w] = "woken" => wdone[w] \/ finished
    /\ ~done

\* Exactly one thread of a call finds that it is the last: at most one at any
\* time, and the flag is not set twice.
OneLast ==
  /\ \A t, u \in Threads : pc[t] = "last" /\ pc[u] = "last" => t = u
  /\ done => \A t \in Threads : pc[t] # "last"

\* The threads of a call keep apart, and so do the calls, although both counters
\* are reset and read without a lock.
KeptApart == TypeOK /\ ThreadNumbers /\ NoStraggler /\ OneLast

\* A call returns, also when other calls have left threads behind that are not
\* parked yet.
CallReturns == InCall ~> pc[Main] = "idle"

\* The pool can be freed at any time between calls and after a failed creation.
FreeReturns == pc[Main] = "free" ~> pc[Main] = "freed"

\* Nobody waits for a thread that waits as well, in a call or when all end.
Returns == CallReturns /\ FreeReturns

-----------------------------------------------------------------------------
(* Refinement: the calls of ParallelJobs. *)

Pool == INSTANCE ParallelJobs WITH
          called <- InCall,
          todo   <- {j \in 0 .. nb_jobs - 1 : runs[j] = 0},
          busy   <- {local[t].current : t \in {u \in Threads : pc[u] = "run"}}

\* Every job of a call is executed exactly once, and the call returns when all of
\* them have ended, not earlier.
JobsRunOnce == Pool!Spec
=============================================================================

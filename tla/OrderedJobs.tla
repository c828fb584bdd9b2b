---------------------------- MODULE OrderedJobs ----------------------------
(***************************************************************************)
(* What the frame threads of libavcodec promise to their caller: jobs are  *)
(* numbered 1, 2, 3, ... as they are handed in, worked on at the same time *)
(* and ended in any order, and what they give is handed out in the order   *)
(* in which they were handed in, nothing twice.  A job gives a sequence    *)
(* of items; one that gives nothing leaves no trace.                       *)
(***************************************************************************)
EXTENDS Naturals, Sequences

CONSTANT Items         \* what a job can give: frames, packets, errors, ends

VARIABLES
  jobs,      \* the jobs in hand, oldest first: [id, done, items]
  last,      \* number of the newest job, refused ones included
  given      \* the last item handed out and the job it is from

vars == <<jobs, last, given>>

Nothing == [id |-> 0, item |-> "none"]

Init == jobs = <<>> /\ last = 0 /\ given = Nothing

Submit == /\ jobs' = Append(jobs, [id |-> last + 1, done |-> FALSE, items |-> <<>>])
          /\ last' = last + 1
          /\ UNCHANGED given

\* A job that is not started: the caller gets an error, its input is gone.
Refuse == last' = last + 1 /\ UNCHANGED <<jobs, given>>

\* The job at place i ends, before or after the ones in front of it.
Finish(i) == /\ ~jobs[i].done
             /\ DOMAIN jobs' = DOMAIN jobs
             /\ jobs'[i].items \in Seq(Items)
             /\ jobs' = [jobs EXCEPT ![i] = [id |-> @.id, done |-> TRUE, items |-> jobs'[i].items]]
             /\ UNCHANGED <<last, given>>

Oldest == jobs[1]

Deliver == /\ jobs # <<>> /\ Oldest.done /\ Oldest.items # <<>>
           /\ given' = [id |-> Oldest.id, item |-> Head(Oldest.items)]
           /\ jobs' = IF Len(Oldest.items) = 1 THEN Tail(jobs)
                      ELSE [jobs EXCEPT ![1].items = Tail(@)]
           /\ UNCHANGED last

Drop == /\ jobs # <<>> /\ Oldest.done /\ Oldest.items = <<>>
        /\ jobs' = Tail(jobs)
        /\ UNCHANGED <<last, given>>

\* The caller gives up everything that is in hand.
Abandon == jobs' = <<>> /\ UNCHANGED <<last, given>>

Next == \/ Submit \/ Refuse \/ Deliver \/ Drop \/ Abandon
        \/ \E i \in DOMAIN jobs : Finish(i)

Spec == Init /\ [][Next]_vars
=============================================================================

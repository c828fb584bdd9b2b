---------------------------- MODULE ParallelJobs ----------------------------
(***************************************************************************)
(* What libavutil/slicethread.h promises its callers: a call runs the jobs *)
(* 0 .. n-1, each exactly once, some of them at the same time, and returns *)
(* when all of them have ended.                                            *)
(***************************************************************************)
EXTENDS Naturals

CONSTANT MaxJobs    \* bound on the jobs of a call

VARIABLES
  called,   \* is a call under way?
  todo,     \* jobs of the call that were not started
  busy      \* jobs that are being executed

vars == <<called, todo, busy>>

Init == called = FALSE /\ todo = {} /\ busy = {}

Call(n) == /\ ~called
           /\ called' = TRUE
           /\ todo' = 0 .. n - 1
           /\ UNCHANGED busy

Begin(j) == /\ j \in todo
            /\ todo' = todo \ {j}
            /\ busy' = busy \cup {j}
            /\ UNCHANGED called

End(j) == /\ j \in busy
          /\ busy' = busy \ {j}
          /\ UNCHANGED <<called, todo>>

Return == /\ called /\ todo = {} /\ busy = {}
          /\ called' = FALSE
          /\ UNCHANGED <<todo, busy>>

Next == \/ \E n \in 1 .. MaxJobs : Call(n)
        \/ \E j \in 0 .. MaxJobs - 1 : Begin(j) \/ End(j)
        \/ Return

Spec == Init /\ [][Next]_vars
=============================================================================

-------------------------- MODULE MCScheduledTasks --------------------------
(* Constants of the run: two tasks, each of its own server, ticks that may *)
(* overlap.                                                                *)
EXTENDS ScheduledTasks, TLC

CONSTANTS t1, t2, s1, s2

MCServerOf == t1 :> s1 @@ t2 :> s2
=============================================================================

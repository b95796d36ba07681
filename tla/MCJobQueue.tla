------------------------------ MODULE MCJobQueue ------------------------------
(* Three Enqueue calls, one of a type nobody registered, a channel of one   *)
(* slot and two workers: calls block, both workers run at once, and the     *)
(* process is restarted once.                                              *)
EXTENDS JobQueue

CONSTANTS j1, j2, j3, w1, w2

MCJobs == {j1, j2, j3}
MCRegistered == {j1, j2}
MCWorkers == {w1, w2}
================================================================================

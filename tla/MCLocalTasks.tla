---------------------------- MODULE MCLocalTasks ----------------------------
(* Instances of LocalTasks for TLC.                                          *)
EXTENDS LocalTasks, TLC

CONSTANTS t1, t2, r1, r2
=============================================================================

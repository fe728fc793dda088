----------------------------- MODULE MCTaskRuns -----------------------------
(* Two runs that share nothing but the queue: one of two jobs, one of one. *)
EXTENDS TaskRuns, TLC

CONSTANTS r1, r2, j1, j2, j3

MCTwoRuns == j1 :> r1 @@ j2 :> r1 @@ j3 :> r2
=============================================================================

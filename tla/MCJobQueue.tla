----------------------------- MODULE MCJobQueue -----------------------------
(* Small jobs tables for TLC: up to two agents, two jobs and one account.  *)
EXTENDS JobQueue, TLC

CONSTANTS a1, a2, j1, j2, acc

\* Two jobs without an account.
MCRank == j1 :> 1 @@ j2 :> 2
MCSupported == [a \in {a1, a2} |-> {j1, j2}]
MCNoAccountOf == [j \in {j1, j2} |-> NoAccount]

\* One job of an account.
MCRank1 == j1 :> 1
MCSupported1 == [a \in {a1, a2} |-> {j1}]
MCAccountOf1 == j1 :> acc

MCAgentSymmetry == Permutations({a1, a2})
=============================================================================

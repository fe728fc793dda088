---------------------------- MODULE MCAgentLoop -----------------------------
(* Instances of AgentLoop for TLC: two agents and up to two jobs.           *)
EXTENDS AgentLoop, TLC

CONSTANTS a1, a2, j1, j2

MCRank == [j \in Jobs |-> IF j = j1 THEN 1 ELSE 2]
MCSupported == [a \in Agents |-> Jobs]

\* Two agents that compete for one job under the hands of operators, and one
\* agent with a batch of two.
MCWorkloads ==
    {[agents |-> {a1, a2}, jobs |-> {j1}, attended |-> {j1}],
     [agents |-> {a1}, jobs |-> {j1, j2}, attended |-> {j1}]}
=============================================================================

---------------------------- MODULE JobLifecycle ----------------------------
(***************************************************************************)
(* What the job queue promises about the status of its jobs, whoever works *)
(* on them: the operations of JobRepository without agents, owners,        *)
(* deadlines and budgets.  JobQueue implements this specification, and     *)
(* TaskRuns builds the aggregates of the run table on it.                  *)
(***************************************************************************)
EXTENDS JobStateMachine

CONSTANT Jobs

VARIABLE status

CanMove(j, target) == <<status[j], target>> \in AllowedTransitions

SetStatus(S, value) ==
    status' = [j \in Jobs |-> IF j \in S THEN value ELSE status[j]]

\* Rows are inserted, each one pending.
Submit(S) ==
    /\ \A j \in S : status[j] = "absent"
    /\ SetStatus(S, "pending")

\* A claim request: claims found expired fall back to the queue, and some
\* queued jobs are handed out.
HandOut(expired, picked) ==
    /\ \A j \in expired : status[j] = "claimed"
    /\ \A j \in picked \ expired : status[j] = "pending"
    /\ status' = [j \in Jobs |-> IF j \in picked THEN "claimed"
                                 ELSE IF j \in expired THEN "pending"
                                 ELSE status[j]]

Begin(j) == CanMove(j, "running") /\ SetStatus({j}, "running")

Finish(j, result) == CanMove(j, result) /\ SetStatus({j}, result)

Pause(j) == CanMove(j, "paused") /\ SetStatus({j}, "paused")

Resume(j) == CanMove(j, "pending") /\ SetStatus({j}, "pending")

Fail(S) ==
    /\ \A j \in S : CanMove(j, "failed")
    /\ SetStatus(S, "failed")

Cancel(S) ==
    /\ \A j \in S : status[j] = "pending"
    /\ SetStatus(S, "cancelled")

Retry(S) ==
    /\ \A j \in S : status[j] = "failed"
    /\ SetStatus(S, "pending")

\* A maintenance pass: expired claims are queued again; running jobs past
\* their time are failed, and retried at once while their budget lasts.
Recover(expired, overdue, retried) ==
    /\ \A j \in expired : status[j] = "claimed"
    /\ \A j \in overdue : status[j] = "running"
    /\ retried \subseteq overdue
    /\ status' = [j \in Jobs |-> IF j \in expired \cup retried THEN "pending"
                                 ELSE IF j \in overdue THEN "failed"
                                 ELSE status[j]]

Init == status = [j \in Jobs |-> "absent"]

Next ==
    \/ \E S \in SUBSET Jobs : Submit(S) \/ Fail(S) \/ Cancel(S) \/ Retry(S)
    \/ \E expired, picked \in SUBSET Jobs : HandOut(expired, picked)
    \/ \E j \in Jobs : Begin(j) \/ Pause(j) \/ Resume(j)
    \/ \E j \in Jobs, result \in ResultStatus : Finish(j, result)
    \/ \E expired, overdue \in SUBSET Jobs :
         \E retried \in SUBSET overdue : Recover(expired, overdue, retried)

Spec == Init /\ [][Next]_status
=============================================================================

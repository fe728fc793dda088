------------------------------ MODULE TaskRuns ------------------------------
(***************************************************************************)
(* Task runs: the batches of jobs a task template is turned into, and the  *)
(* aggregate columns of their rows.  The aggregates are recomputed only by *)
(* the calls of refresh_task_run, which some operations on jobs make and   *)
(* others do not.  The jobs themselves behave as JobLifecycle says.        *)
(***************************************************************************)
EXTENDS Naturals, FiniteSets

CONSTANTS
    Runs,      \* ids of the rows the task_runs table may ever hold
    Jobs,      \* ids of the jobs that belong to some run
    RunOf      \* jobs.task_run_id

ASSUME TaskRunsAssumption ==
    /\ IsFiniteSet(Jobs)
    /\ RunOf \in [Jobs -> Runs]

VARIABLES
    status,    \* jobs.status
    runs       \* the rows of task_runs

vars == <<status, runs>>

Queue == INSTANCE JobLifecycle

WaitingStatus == {"pending", "claimed"}
FailedStatus  == {"failed", "cancelled"}
EndedStatus   == Queue!ResultStatus \cup FailedStatus

OpenStatus   == {"materialized", "queued", "running"}
ClosedStatus == {"success", "partial_success", "failed"}

RunRow == [status : {"absent"} \cup OpenStatus \cup ClosedStatus,
           total : Nat, pending : Nat, running : Nat, success : Nat,
           failed : Nat, finished : BOOLEAN]

\* A row as create_task_run inserts it.
NewRun == [status |-> "materialized", total |-> 0, pending |-> 0,
           running |-> 0, success |-> 0, failed |-> 0, finished |-> FALSE]

JobsOf(r) == {j \in Jobs : RunOf[j] = r}

-----------------------------------------------------------------------------
(* refresh_task_run, on job statuses st.                                   *)

InStatus(r, st, S) == {j \in JobsOf(r) : st[j] \in S}

Present(r, st) == {j \in JobsOf(r) : st[j] # "absent"}

Ended(r, st) == \A j \in Present(r, st) : st[j] \in EndedStatus

\* The run takes over the status of its job, which no run may have.
TakeOverPause(before) == "paused"

\* The run is given up while one of its jobs is merely paused.
GiveUp(before) == "failed"

\* A run with a paused job and nothing in progress is left as it was.
Undecided(before) == before

\* The status column after a refresh; before is its old value.
Verdict(r, st, before) ==
    LET some(S) == InStatus(r, st, S) # {}
    IN  CASE Present(r, st) = {}                       -> "failed"
          [] some({"running"})                         -> "running"
          [] ~some({"running"}) /\ some(WaitingStatus) -> "queued"
          [] Present(r, st) # {} /\ Ended(r, st) ->
               IF some(FailedStatus)
               THEN IF some(Queue!ResultStatus) THEN "partial_success"
                    ELSE "failed"
               ELSE IF some({"partial_success"}) THEN "partial_success"
                    ELSE "success"
          [] OTHER -> Undecided(before)

\* finished_at: cleared while work is in progress, else set once.
Finished(now, row) ==
    IF now \in {"queued", "running"} THEN FALSE
    ELSE now \in ClosedStatus \/ row.finished

Refreshed(r, st, row) ==
    LET count(S) == Cardinality(InStatus(r, st, S))
        now      == Verdict(r, st, row.status)
    IN  [status   |-> now,
         total    |-> Cardinality(Present(r, st)),
         pending  |-> count(WaitingStatus),
         running  |-> count({"running"}),
         success  |-> count(Queue!ResultStatus),
         failed   |-> count(FailedStatus),
         finished |-> Finished(now, row)]

\* Only the runs whose own status is open are refreshed.
OpenRuns(st) == {r \in Runs : runs[r].status \in OpenStatus}

\* Only the runs that have an unfinished job are refreshed.
RunsAtWork(st) ==
    {r \in Runs : /\ runs[r].status # "absent"
                  /\ InStatus(r, st, WaitingStatus \cup {"running"}) # {}}

\* The runs refresh_active_task_runs picks.
ActiveRuns(st) ==
    {r \in Runs :
       /\ runs[r].status # "absent"
       /\ \/ runs[r].status \in OpenStatus
          \/ InStatus(r, st, WaitingStatus \cup {"running"}) # {}}

Refresh(S, st) ==
    runs' = [r \in Runs |-> IF r \in S THEN Refreshed(r, st, runs[r])
                            ELSE runs[r]]

-----------------------------------------------------------------------------
(* Operations that refresh a run.                                          *)

\* run_template, and the manual fetch of one content: a run is inserted
\* together with its first jobs, possibly none.
RunTemplate(r, S) ==
    /\ runs[r].status = "absent"
    /\ S \subseteq JobsOf(r)
    /\ Queue!Submit(S)
    /\ runs' = [runs EXCEPT ![r] = Refreshed(r, status', NewRun)]

Complete(j, result) ==
    /\ Queue!Finish(j, result)
    /\ Refresh({RunOf[j]}, status')

\* retry_task_run: the failed jobs that have budget left are queued again.
RetryRun(r, S) ==
    /\ runs[r].status # "absent"
    /\ S \subseteq JobsOf(r)
    /\ Queue!Retry(S)
    /\ Refresh({r}, status')

\* Opening a run's page.
ViewRun(r) ==
    /\ runs[r].status # "absent"
    /\ Refresh({r}, status)
    /\ UNCHANGED status

\* queue_summary and list_task_runs.
ListRuns == Refresh(ActiveRuns(status), status) /\ UNCHANGED status

Maintenance ==
    /\ \E expired, overdue \in SUBSET Jobs :
         \E retried \in SUBSET overdue :
           Queue!Recover(expired, overdue, retried)
    /\ Refresh(ActiveRuns(status'), status')

-----------------------------------------------------------------------------
(* Operations that leave the aggregates alone.                             *)

\* The ingestion of a job's results adds jobs to its run, whatever has
\* become of the job in the meantime.
AddChildren(parent, S) ==
    /\ status[parent] # "absent"
    /\ S \subseteq JobsOf(RunOf[parent])
    /\ Queue!Submit(S)
    /\ UNCHANGED runs

QueueMove ==
    /\ \/ \E S \in SUBSET Jobs : Queue!Fail(S) \/ Queue!Cancel(S)
       \/ \E j \in Jobs : Queue!Retry({j})
       \/ \E expired, picked \in SUBSET Jobs : Queue!HandOut(expired, picked)
       \/ \E j \in Jobs : Queue!Begin(j) \/ Queue!Pause(j) \/ Queue!Resume(j)
    /\ UNCHANGED runs

Init ==
    /\ status = [j \in Jobs |-> "absent"]
    /\ runs = [r \in Runs |-> [NewRun EXCEPT !.status = "absent"]]

Next ==
    \/ \E r \in Runs, S \in SUBSET Jobs : RunTemplate(r, S) \/ RetryRun(r, S)
    \/ \E j \in Jobs, result \in Queue!ResultStatus : Complete(j, result)
    \/ \E r \in Runs : ViewRun(r)
    \/ ListRuns
    \/ Maintenance
    \/ \E j \in Jobs, S \in SUBSET Jobs : AddChildren(j, S)
    \/ QueueMove

Spec == Init /\ [][Next]_vars

\* The maintenance script keeps being run.
FairSpec == Spec /\ WF_vars(Maintenance)
-----------------------------------------------------------------------------
(* Properties.                                                             *)

Closed(r) == runs[r].status \in ClosedStatus

\* Every column holds a value of its type.
TypeOK ==
    /\ status \in [Jobs -> Queue!JobStatus]
    /\ runs \in [Runs -> RunRow]

\* A run has a finish date exactly while it is shown as closed, however often
\* retries, late children and refreshes reopen and close it.
ClosedRunsDated == \A r \in Runs : Closed(r) <=> runs[r].finished

\* A run is closed only once all of its jobs have ended, paused ones included.
NoEarlyVerdict ==
    [][\A r \in Runs : ~Closed(r) /\ Closed(r)' => Ended(r, status')]_vars

\* A run whose jobs have all ended for good is eventually shown as closed,
\* although the reports of failed jobs and the cancellations never refresh it.
RunsClose ==
    \A r \in Runs :
        <>[](Present(r, status) # {} /\ Ended(r, status)) => <>[]Closed(r)

\* A run whose jobs keep it busy for good is eventually no longer shown as
\* closed, although retries and resumes of single jobs, and ingestions that add
\* jobs to a closed run, never refresh it.
RunsReopen ==
    \A r \in Runs :
        <>[](InStatus(r, status, WaitingStatus \cup {"running"}) # {})
            => <>[]~Closed(r)
=============================================================================

--------------------------- MODULE JobTransactions ---------------------------
(***************************************************************************)
(* The job handlers as the database sees them.  JobQueue takes a handler   *)
(* as one atomic step; here it is two: it reads rows, decides and changes  *)
(* its copies, and later commits.  Handlers run in parallel threads, each  *)
(* with a session of its own, without row locks or version columns, so     *)
(* that others may commit in between.  A commit writes the columns whose   *)
(* value the handler changed and leaves every other column as it finds it. *)
(*                                                                         *)
(* Which of the waiting jobs the filter of a claim lets through is left    *)
(* open (JobQueue models the filter); update_checkpoint writes none of the *)
(* columns kept here.                                                      *)
(***************************************************************************)
EXTENDS JobStateMachine, Naturals, FiniteSets

CONSTANTS
    Sessions,      \* database sessions that may be open at the same time
    Agents,        \* ids of the local agents
    Jobs,          \* ids of the rows of the jobs table
    NoAgent,       \* a NULL agent column, or a caller who is no agent
    MaxJobs,       \* max_jobs of a claim request
    MaxRetries,    \* jobs.max_retries
    MaxCount       \* bound: no handler raises retry_count above it

ASSUME JobTransactionsAssumption ==
    /\ NoAgent \notin Agents
    /\ MaxJobs \in Nat \ {0}
    /\ MaxRetries \in Nat \ {0}
    /\ MaxCount \in Nat

VARIABLES
    rows,          \* the committed rows of the jobs table
    open,          \* the sessions that have read and not yet committed
    work,          \* what the handler of each session is about to write
    held,          \* agent/job pairs some claim response has handed out
    executing      \* history: agents whose start of a job was accepted since
                   \* it was last paused, ended or sent back to the queue

vars == <<rows, open, work, held, executing>>

MaybeAgent == Agents \cup {NoAgent}

\* A date is only compared with the clock: the moment it stands for lies
\* ahead or is past.  "now" is a date a handler has just computed; it differs
\* from every date that was read.
Date == {"none", "ahead", "past"}

\* status, claimed_by_agent_id, claim_expires_at, started_at (as the moment at
\* which the running timeout ends) and retry_count.
RowOver(dates) == [status : JobStatus, owner : MaybeAgent, expiry : dates,
                   started : dates, retries : Nat]
Row == RowOver(Date)
Copy == RowOver(Date \cup {"now"})

Columns == {"status", "owner", "expiry", "started", "retries"}

NewRow == [status |-> "absent", owner |-> NoAgent, expiry |-> "none",
           started |-> "none", retries |-> 0]

\* caller: the agent whose request it is; granted: the jobs the response will
\* hand out; copies: the rows as the handler leaves its copies of them; dirty:
\* the columns of each row that the commit writes.
Work == [caller : MaybeAgent, granted : SUBSET Jobs,
         copies : [Jobs -> Copy], dirty : [Jobs -> SUBSET Columns]]

NoWork == [caller |-> NoAgent, granted |-> {},
           copies |-> [j \in Jobs |-> NewRow], dirty |-> [j \in Jobs |-> {}]]

-----------------------------------------------------------------------------
(* The guards, and the changes the operations make to a copy of a row.     *)

CanMove(row, target) == <<row.status, target>> \in AllowedTransitions

EnsureClaimOwner(a, row) == row.owner \in {NoAgent, a}

Expired(row) == row.status = "claimed" /\ row.expiry = "past"

StaleRunning(row) == row.status = "running" /\ row.started = "past"

Claimed(row, a) ==
    [row EXCEPT !.status = "claimed", !.owner = a, !.expiry = "now"]

\* A slip: the owner column becomes an empty string instead of NULL.
RequeuedEmpty(row) ==
    [row EXCEPT !.status = "pending", !.owner = "", !.expiry = "none"]

Requeued(row) ==
    [row EXCEPT !.status = "pending", !.owner = NoAgent, !.expiry = "none"]

\* A slip: a job keeps the date of its very first start.
StartedOnce(row, a) ==
    [row EXCEPT !.status = "running", !.owner = a,
                !.started = IF @ = "none" THEN "now" ELSE @]

Started(row, a) ==
    [row EXCEPT !.status = "running", !.owner = a, !.started = "now"]

Failed(row) == [row EXCEPT !.status = "failed", !.retries = @ + 1]

Retried(row) == [Requeued(row) EXCEPT !.started = "none"]

HasRetryBudget(row) == row.retries < MaxRetries

\* A stale running job is failed and, budget permitting, queued again.
Recovered(row) == IF HasRetryBudget(Failed(row)) THEN Retried(Failed(row))
                  ELSE Failed(row)

-----------------------------------------------------------------------------
(* Sessions.                                                               *)

Differ(old, new) == {c \in Columns : old[c] # new[c]}

\* A handler reads the rows, writes the versions flushed to the database
\* without committing them, and will commit the versions final.
Read(s, caller, granted, flushed, final) ==
    /\ s \notin open
    /\ open' = open \cup {s}
    /\ work' = [work EXCEPT ![s] =
                  [caller |-> caller, granted |-> granted, copies |-> final,
                   dirty |-> [j \in Jobs |-> Differ(rows[j], flushed[j])
                                               \cup Differ(flushed[j], final[j])]]]
    /\ UNCHANGED <<rows, held, executing>>

\* A handler that changes the row of j only, or the rows of S.
ReadRow(s, caller, j, copy) ==
    Read(s, caller, {}, rows, [rows EXCEPT ![j] = copy])

ReadRows(s, S, copies) ==
    Read(s, NoAgent, {}, rows,
         [j \in Jobs |-> IF j \in S THEN copies[j] ELSE rows[j]])

Stored(date) == IF date = "now" THEN "ahead" ELSE date

\* A row once the columns C of a copy are written over it.
Written(row, C, copy) ==
    [status  |-> IF "status" \in C THEN copy.status ELSE row.status,
     owner   |-> IF "owner" \in C THEN copy.owner ELSE row.owner,
     expiry  |-> IF "expiry" \in C THEN Stored(copy.expiry) ELSE row.expiry,
     started |-> IF "started" \in C THEN Stored(copy.started) ELSE row.started,
     retries |-> IF "retries" \in C THEN copy.retries ELSE row.retries]

Commit(s) ==
    /\ s \in open
    /\ open' = open \ {s}
    /\ work' = [work EXCEPT ![s] = NoWork]
    /\ LET w == work[s]
       IN  /\ rows' = [j \in Jobs |->
                         Written(rows[j], w.dirty[j], w.copies[j])]
           /\ held' = held \cup ({w.caller} \X w.granted)
           /\ executing' = [j \in Jobs |->
                IF "status" \notin w.dirty[j] THEN executing[j]
                ELSE CASE w.copies[j].status = "claimed" -> executing[j]
                       [] w.copies[j].status = "running" -> executing[j] \cup {w.caller}
                       [] OTHER                          -> {}]

\* The commit fails, the process stops, or the request is given up.
Abort(s) ==
    /\ s \in open
    /\ open' = open \ {s}
    /\ work' = [work EXCEPT ![s] = NoWork]
    /\ UNCHANGED <<rows, held, executing>>

-----------------------------------------------------------------------------
(* What the handlers read and decide.                                      *)

\* The INSERT of a job: it needs no row it has read.
CreateJob(j) ==
    /\ rows[j].status = "absent"
    /\ rows' = [rows EXCEPT ![j].status = "pending"]
    /\ UNCHANGED <<open, work, held, executing>>

Busy(a) == \E j \in Jobs : /\ rows[j].owner = a
                           /\ rows[j].status \in ActiveStatus
                           /\ ~Expired(rows[j])

\* requeue_expired_claims is flushed before the candidates are read.
Claim(s, a) ==
    LET requeued == [j \in Jobs |-> IF Expired(rows[j]) THEN Requeued(rows[j])
                                    ELSE rows[j]]
    IN  \E picked \in SUBSET {j \in Jobs : requeued[j].status = "pending"} :
          /\ Cardinality(picked) =< MaxJobs
          /\ Busy(a) => picked = {}
          /\ Read(s, a, picked, requeued,
                  [j \in Jobs |-> IF j \in picked THEN Claimed(requeued[j], a)
                                  ELSE requeued[j]])

\* The callbacks of an agent about a job that it was handed.
Start(s, a, j) ==
    /\ EnsureClaimOwner(a, rows[j])
    /\ CanMove(rows[j], "running")
    /\ ReadRow(s, a, j, Started(rows[j], a))

\* With one of the results that an executor reports, as in JobQueue.
Complete(s, a, j, result) ==
    /\ EnsureClaimOwner(a, rows[j])
    /\ CanMove(rows[j], result)
    /\ ReadRow(s, a, j, [rows[j] EXCEPT !.status = result])

Fail(s, a, j) ==
    /\ EnsureClaimOwner(a, rows[j])
    /\ CanMove(rows[j], "failed")
    /\ rows[j].retries < MaxCount
    /\ ReadRow(s, a, j, Failed(rows[j]))

\* Operators.
Pause(s, j) ==
    /\ CanMove(rows[j], "paused")
    /\ ReadRow(s, NoAgent, j, [rows[j] EXCEPT !.status = "paused"])

Resume(s, j) ==
    /\ CanMove(rows[j], "pending")
    /\ ReadRow(s, NoAgent, j, Requeued(rows[j]))

CancelPendingJobs(s, S) ==
    /\ \A j \in S : rows[j].status = "pending"
    /\ ReadRows(s, S, [j \in S |-> [rows[j] EXCEPT !.status = "cancelled"]])

RetryFailedJobs(s, S) ==
    /\ \A j \in S : rows[j].status = "failed" /\ HasRetryBudget(rows[j])
    /\ ReadRows(s, S, [j \in S |-> Retried(rows[j])])

\* fail_stale_running and, for any selection of active jobs, fail_active_jobs.
FailJobs(s, S) ==
    /\ \A j \in S : rows[j].status \in ActiveStatus /\ rows[j].retries < MaxCount
    /\ ReadRows(s, S, [j \in S |-> Failed(rows[j])])

Maintenance(s) ==
    LET requeued == [j \in Jobs |-> IF Expired(rows[j]) THEN Requeued(rows[j])
                                    ELSE rows[j]]
    IN  /\ \A j \in Jobs : StaleRunning(rows[j]) => rows[j].retries < MaxCount
        /\ Read(s, NoAgent, {}, requeued,
                [j \in Jobs |-> IF StaleRunning(rows[j]) THEN Recovered(rows[j])
                                ELSE requeued[j]])

\* The clock passes claim_expires_at, or the running timeout.
ClaimLapses(j) ==
    /\ rows[j].status = "claimed" /\ rows[j].expiry = "ahead"
    /\ rows' = [rows EXCEPT ![j].expiry = "past"]
    /\ UNCHANGED <<open, work, held, executing>>

RunGoesStale(j) ==
    /\ rows[j].status = "running" /\ rows[j].started = "ahead"
    /\ rows' = [rows EXCEPT ![j].started = "past"]
    /\ UNCHANGED <<open, work, held, executing>>

-----------------------------------------------------------------------------
Init ==
    /\ rows = [j \in Jobs |-> NewRow]
    /\ open = {}
    /\ work = [s \in Sessions |-> NoWork]
    /\ held = {}
    /\ executing = [j \in Jobs |-> {}]

AgentCall(s, a, j) ==
    /\ <<a, j>> \in held
    /\ \/ Start(s, a, j)
       \/ \E result \in ResultStatus : Complete(s, a, j, result)
       \/ Fail(s, a, j)

Handler(s) ==
    \/ \E a \in Agents : Claim(s, a)
    \/ \E a \in Agents, j \in Jobs : AgentCall(s, a, j)
    \/ \E j \in Jobs : Pause(s, j) \/ Resume(s, j)
    \/ \E S \in SUBSET Jobs :
         CancelPendingJobs(s, S) \/ RetryFailedJobs(s, S) \/ FailJobs(s, S)
    \/ Maintenance(s)

Next ==
    \/ \E j \in Jobs : CreateJob(j) \/ ClaimLapses(j) \/ RunGoesStale(j)
    \/ \E s \in Sessions : Handler(s) \/ Commit(s) \/ Abort(s)

Spec == Init /\ [][Next]_vars
-----------------------------------------------------------------------------
(* Properties.                                                             *)

\* Every column and every copy holds a value of its type.
TypeOK ==
    /\ rows \in [Jobs -> Row]
    /\ open \subseteq Sessions
    /\ work \in [Sessions -> Work]
    /\ held \subseteq Agents \X Jobs
    /\ executing \in [Jobs -> SUBSET MaybeAgent]

\* Whatever two handlers overwrite of one another's columns, no active row is
\* left without the date by which requeue_expired_claims or the query for
\* stale running jobs finds it again.
ActiveRowsRecoverable ==
    \A j \in Jobs :
        /\ rows[j].status = "claimed" => rows[j].expiry # "none"
        /\ rows[j].status = "running" => rows[j].started # "none"

\* "No duplicate claims; one job is not executed by several agents": while a
\* job runs, no second agent is told to go ahead with it.
NoDoubleExecution == \A j \in Jobs : Cardinality(executing[j]) =< 1
=============================================================================

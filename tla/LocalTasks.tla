----------------------------- MODULE LocalTasks -----------------------------
(***************************************************************************)
(* The collection tasks that an employee runs on their own machine.  The   *)
(* requests of the local page are served by threads of the bridge, which   *)
(* hand executions over to the event loop of the agent; a scheduler on the *)
(* loop executes the tasks that are due.  Nothing is locked: the threads   *)
(* and the loop share the task rows of the local database and two          *)
(* in-memory tables, and a thread may be overtaken between any two of its  *)
(* statements.  The loop itself is left only where a coroutine awaits.     *)
(*                                                                         *)
(* An execution may be refused a write of its own; refused writes of       *)
(* requests, which change nothing here, and of the scheduler's query,      *)
(* which ends the scheduler with the agent's other loops, are left out.    *)
(***************************************************************************)
EXTENDS Naturals, FiniteSets

CONSTANTS
    Tasks,       \* ids of the rows collect_task may ever hold
    Scheduled,   \* tasks with schedule_seconds
    Threads,     \* requests that the bridge serves at a time
    DueLimit,    \* how many due tasks a round of the scheduler takes up
    MaxExecs     \* bound: executions at a time

ASSUME LocalTasksAssumption ==
    /\ Scheduled \subseteq Tasks
    /\ DueLimit \in Nat \ {0}
    /\ MaxExecs \in Nat \ {0}

VARIABLES
    tasks,       \* status of the task rows, and whether schedule_seconds passed
    execs,       \* the coroutines of executions
    ids,         \* _running_task_ids
    futures,     \* _running_futures: the execution of a task, or 0
    requests,    \* what each thread of the bridge is about to do
    listed,      \* due tasks that the scheduler has still to look at
    disturbed    \* history: tasks whose work was interrupted, left by a crash
                 \* or cut short by a refused write

shared == <<ids, futures>>
vars   == <<tasks, execs, shared, requests, listed, disturbed>>

TaskStatus == {"absent", "queued", "active", "running", "paused", "success",
               "failed"}
Interrupted == {"paused", "failed"}

Stages == {"created", "collecting", "closing", "gone"}
Steps  == {"idle", "check", "schedule", "record", "interrupt", "cancel"}

TaskRow == [status : TaskStatus, due : BOOLEAN]
Exec    == [task : Tasks, by : {"bridge", "scheduler"}, stage : Stages,
            cancelled : BOOLEAN]
Request == [step : Steps, task : Tasks, exec : 0 .. MaxExecs,
            status : Interrupted]

Live(e) == execs[e].stage # "gone"

AtWork(t) == \E e \in DOMAIN execs : execs[e].task = t /\ Live(e)

\* A coroutine nobody can refer to any more; its place serves another one.
Free(e) ==
    /\ ~Live(e)
    /\ \A t \in Tasks : futures[t] # e
    /\ \A r \in Threads : requests[r].exec # e

\* The loop is between two coroutines, or inside an await.
LoopFree == listed = {}

-----------------------------------------------------------------------------
(* The task rows.                                                          *)

SetStatus(t, value) == tasks' = [tasks EXCEPT ![t] = [status |-> value, due |-> FALSE]]

\* A slip: a failure leaves the row as it is.
RestStatusKept(t, success) ==
    IF ~success THEN tasks[t].status
    ELSE IF t \in Scheduled THEN "active" ELSE "success"

\* finish_collect_task.
RestStatus(t, success) ==
    IF t \in Scheduled THEN "active" ELSE IF success THEN "success" ELSE "failed"

\* A slip: a resumed task has lost its schedule.
ReadyQueued(t) == "queued"

\* create_collect_task, resume_collect_task.
ReadyStatus(t) == IF t \in Scheduled THEN "active" ELSE "queued"

\* The schedule of a task comes round.
FallsDue(t) ==
    /\ t \in Scheduled /\ tasks[t].status # "absent" /\ ~tasks[t].due
    /\ tasks' = [tasks EXCEPT ![t].due = TRUE]
    /\ UNCHANGED <<execs, shared, requests, listed, disturbed>>

-----------------------------------------------------------------------------
(* The tables in memory.                                                   *)

\* A slip: only the future of a finished execution is dropped.
FutureDropped(t) == ids' = ids /\ futures' = [futures EXCEPT ![t] = 0]

\* _task_done, and the end of _execute_with_cleanup: by task, not by execution.
Forgotten(t) == ids' = ids \ {t} /\ futures' = [futures EXCEPT ![t] = 0]

NewExec(e, t, by) ==
    /\ Free(e) /\ \A k \in DOMAIN execs : Free(k) => e =< k
    /\ execs' = [execs EXCEPT ![e] = [task |-> t, by |-> by, stage |-> "created",
                                      cancelled |-> FALSE]]

-----------------------------------------------------------------------------
(* Requests: submit, run_task, and the update of a row before it.          *)

Idle(r) == requests[r].step = "idle"

Proceed(r, t, step, e, status) ==
    requests' = [requests EXCEPT ![r] = [step |-> step, task |-> t, exec |-> e,
                                         status |-> status]]

Done(r) == requests' = [requests EXCEPT ![r] =
                          [@ EXCEPT !.step = "idle", !.exec = 0, !.status = "paused"]]

Submit(r, t) ==
    /\ Idle(r) /\ tasks[t].status = "absent"
    /\ SetStatus(t, ReadyStatus(t))
    /\ Proceed(r, t, "check", 0, "paused")
    /\ UNCHANGED <<execs, shared, listed, disturbed>>

Resume(r, t) ==
    /\ Idle(r) /\ tasks[t].status # "absent"
    /\ tasks' = [tasks EXCEPT ![t].status = ReadyStatus(t)]
    /\ Proceed(r, t, "check", 0, "paused")
    /\ UNCHANGED <<execs, shared, listed, disturbed>>

Run(r, t) ==
    /\ Idle(r) /\ tasks[t].status # "absent"
    /\ Proceed(r, t, "check", 0, "paused")
    /\ UNCHANGED <<tasks, execs, shared, listed, disturbed>>

\* A task that is known to run is left alone; otherwise its row is read, and
\* only then the execution is announced.
Check(r) ==
    /\ requests[r].step = "check"
    /\ IF requests[r].task \in ids THEN Done(r)
       ELSE requests' = [requests EXCEPT ![r].step = "schedule"]
    /\ UNCHANGED <<tasks, execs, shared, listed, disturbed>>

Schedule(r) ==
    /\ requests[r].step = "schedule"
    /\ ids' = ids \cup {requests[r].task}
    /\ \E e \in DOMAIN execs :
         /\ NewExec(e, requests[r].task, "bridge")
         /\ Proceed(r, requests[r].task, "record", e, "paused")
    /\ UNCHANGED <<tasks, futures, listed, disturbed>>

\* The callback of an execution that has ended by now is called at once.
Record(r) ==
    /\ requests[r].step = "record"
    /\ IF Live(requests[r].exec)
       THEN /\ futures' = [futures EXCEPT ![requests[r].task] = requests[r].exec]
            /\ UNCHANGED ids
       ELSE Forgotten(requests[r].task)
    /\ Done(r)
    /\ UNCHANGED <<tasks, execs, listed, disturbed>>

-----------------------------------------------------------------------------
(* Requests: pause_task and cancel_task.                                   *)

Interrupt(r, t, status) ==
    /\ Idle(r) /\ tasks[t].status # "absent"
    /\ Proceed(r, t, "interrupt", futures[t], status)
    /\ UNCHANGED <<tasks, execs, shared, listed, disturbed>>

Mark(r) ==
    LET t == requests[r].task
    IN  /\ requests[r].step = "interrupt"
        /\ SetStatus(t, requests[r].status)
        /\ requests' = [requests EXCEPT ![r].step = "cancel", ![r].status = "paused"]
        /\ disturbed' = IF AtWork(t) THEN disturbed \cup {t} ELSE disturbed
        /\ UNCHANGED <<execs, shared, listed>>

\* The future of a request is cancelled there and then, and its callback
\* called; its coroutine hears of it later, as do those of the scheduler.
Cancel(r) ==
    LET t == requests[r].task
        e == requests[r].exec
    IN  /\ requests[r].step = "cancel"
        /\ IF t \in ids /\ e # 0 /\ Live(e) /\ ~execs[e].cancelled
           THEN /\ execs' = [execs EXCEPT ![e].cancelled = TRUE]
                /\ IF execs[e].by = "bridge" THEN Forgotten(t)
                   ELSE UNCHANGED shared
           ELSE UNCHANGED <<execs, shared>>
        /\ Done(r)
        /\ UNCHANGED <<tasks, listed, disturbed>>

-----------------------------------------------------------------------------
(* The scheduler.                                                          *)

Due == {t \in Tasks : tasks[t].status = "active" /\ tasks[t].due}

\* The least recently run come first; who that is is left open.
ListDue ==
    /\ LoopFree
    /\ Due # {}
    /\ \E round \in SUBSET Due :
         /\ Cardinality(round) =< DueLimit
         /\ round # Due => Cardinality(round) = DueLimit
         /\ listed' = round
    /\ UNCHANGED <<tasks, execs, shared, requests, disturbed>>

\* (The bound: with no place for a coroutine, the task waits for the next round.)
TakeDue ==
    /\ \E t \in listed :
         /\ listed' = listed \ {t}
         /\ IF t \in ids \/ \A e \in DOMAIN execs : ~Free(e)
            THEN UNCHANGED <<execs, shared>>
            ELSE /\ ids' = ids \cup {t}
                 /\ \E e \in DOMAIN execs :
                      /\ NewExec(e, t, "scheduler")
                      /\ futures' = [futures EXCEPT ![t] = e]
    /\ UNCHANGED <<tasks, requests, disturbed>>

-----------------------------------------------------------------------------
(* An execution.                                                           *)

Ended(exec) == [exec EXCEPT !.stage = "gone", !.by = "bridge", !.cancelled = FALSE]

MoveTo(e, stage) == execs' = [execs EXCEPT ![e].stage = stage]

\* Marks the row; the loop is not left before the collection begins.  A
\* cancelled coroutine begins all the same: the cancellation is queued behind
\* its first step.
Begin(e) ==
    /\ execs[e].stage = "created" /\ LoopFree
    /\ MoveTo(e, "collecting")
    /\ SetStatus(execs[e].task, "running")
    /\ UNCHANGED <<shared, requests, listed, disturbed>>

\* The session is there or not, the collection succeeds or not.
Finish(e, success) ==
    /\ execs[e].stage = "collecting" /\ LoopFree
    /\ MoveTo(e, "closing")
    /\ SetStatus(execs[e].task, RestStatus(execs[e].task, success))
    /\ UNCHANGED <<shared, requests, listed, disturbed>>

\* A cancelled coroutine returns from its await without touching a row.
Unwind(e) ==
    /\ execs[e].stage = "collecting" /\ execs[e].cancelled /\ LoopFree
    /\ MoveTo(e, "closing")
    /\ UNCHANGED <<tasks, shared, requests, listed, disturbed>>

\* A write of the coroutine itself is refused: that of the row, that of the run
\* of a row already marked, or those of the end, of which the first is tried
\* once more.  The error ends the coroutine.
Fail(e) ==
    LET t == execs[e].task
    IN  /\ execs[e].stage \in {"created", "collecting"} /\ LoopFree
        /\ MoveTo(e, "closing")
        /\ \/ execs[e].stage = "created" /\ SetStatus(t, "running")
           \/ UNCHANGED tasks
        /\ disturbed' = disturbed \cup {t}
        /\ UNCHANGED <<shared, requests, listed>>

\* The session is closed.  A cancelled future has called back already, and
\* one that its request has not recorded yet will be called back by Record.
Leave(e) ==
    /\ execs[e].stage = "closing" /\ LoopFree
    /\ execs' = [execs EXCEPT ![e] = Ended(@)]
    /\ IF \/ execs[e].by = "bridge" /\ execs[e].cancelled
          \/ \E r \in Threads : requests[r].step = "record" /\ requests[r].exec = e
       THEN UNCHANGED shared
       ELSE Forgotten(execs[e].task)
    /\ UNCHANGED <<tasks, requests, listed, disturbed>>

\* The process dies and is started again: the rows stay as they are.
Crash ==
    /\ execs' = [e \in DOMAIN execs |-> Ended(execs[e])]
    /\ ids' = {}
    /\ futures' = [t \in Tasks |-> 0]
    /\ requests' = [r \in Threads |-> [requests[r] EXCEPT
                       !.step = "idle", !.exec = 0, !.status = "paused"]]
    /\ listed' = {}
    /\ disturbed' = disturbed \cup {t \in Tasks : AtWork(t)}
    /\ UNCHANGED tasks

-----------------------------------------------------------------------------
Init ==
    /\ tasks = [t \in Tasks |-> [status |-> "absent", due |-> FALSE]]
    /\ ids = {}
    /\ futures = [t \in Tasks |-> 0]
    /\ \E t \in Tasks :
         /\ execs = [e \in 1 .. MaxExecs |->
                       [task |-> t, by |-> "bridge", stage |-> "gone",
                        cancelled |-> FALSE]]
         /\ requests = [r \in Threads |-> [step |-> "idle", task |-> t, exec |-> 0,
                                           status |-> "paused"]]
    /\ listed = {}
    /\ disturbed = {}

Serve(r) == Check(r) \/ Schedule(r) \/ Record(r) \/ Mark(r) \/ Cancel(r)

Execute(e) ==
    \/ Begin(e)
    \/ \E success \in BOOLEAN : Finish(e, success)
    \/ Unwind(e) \/ Fail(e) \/ Leave(e)

Next ==
    \/ \E r \in Threads, t \in Tasks :
         \/ Submit(r, t) \/ Resume(r, t) \/ Run(r, t)
         \/ \E status \in Interrupted : Interrupt(r, t, status)
    \/ \E r \in Threads : Serve(r)
    \/ \E t \in Tasks : FallsDue(t)
    \/ ListDue \/ TakeDue
    \/ \E e \in DOMAIN execs : Execute(e)
    \/ Crash

Spec == Init /\ [][Next]_vars

\* The threads and the loop go on, and every await ends: page operations have
\* timeouts.  The scheduler looks at the rows every two seconds, and between
\* two of its rounds the loop serves its coroutines first come, first served.
\* The process does not die, and the database does not refuse a write, again
\* and again for ever; run_forever catches nothing, so that this includes that
\* no round of the scheduler ever fails.
FairSpec ==
    /\ Spec
    /\ <>[][~Crash /\ \A e \in DOMAIN execs : ~Fail(e)]_vars
    /\ WF_vars(TakeDue) /\ WF_vars(ListDue)
    /\ \A r \in Threads : WF_vars(Serve(r))
    /\ \A e \in 1 .. MaxExecs : SF_vars(Execute(e))

-----------------------------------------------------------------------------
(* Properties.                                                             *)

\* Rows, coroutines and tables hold values of their types; a task with a
\* schedule never rests in "queued" or "success", where it would wait for ever
\* to be taken up again.
TypeOK ==
    /\ tasks \in [Tasks -> TaskRow]
    /\ \A t \in Scheduled : tasks[t].status \notin {"queued", "success"}
    /\ execs \in [1 .. MaxExecs -> Exec]
    /\ ids \subseteq Tasks
    /\ futures \in [Tasks -> 0 .. MaxExecs]
    /\ requests \in [Threads -> Request]
    /\ listed \subseteq Tasks /\ disturbed \subseteq Tasks

\* No id stays in _running_task_ids without somebody who will take it out:
\* such a task could never be run again until the process is restarted.
RunningIdsReleased ==
    \A t \in ids :
        \/ AtWork(t)
        \/ \E r \in Threads : requests[r].step = "record" /\ requests[r].task = t

\* A task is shown as running only while something works on it, unless its work
\* was interrupted, or cut short by the process's death or by a refused write.
RunningIsWorkedOn ==
    \A t \in Tasks :
        tasks[t].status = "running" => AtWork(t) \/ t \in disturbed

\* A task whose schedule is active does not stay due for ever, whatever the
\* requests about it do to its executions and to the tables in memory.
ActiveTasksRun ==
    \A t \in Scheduled :
        tasks[t].status = "active" /\ tasks[t].due
          ~> tasks[t].status # "active" \/ ~tasks[t].due
=============================================================================

-------------------------- MODULE LocalTasksProofs --------------------------
(* Proofs about LocalTasks.                                                  *)
EXTENDS LocalTasks, TLAPS

(***************************************************************************)
(* The inductive invariant.                                                *)
(***************************************************************************)

\* Futures, and the executions that requests hold on to, are those of the task.
FuturesMatch == \A t \in Tasks : futures[t] # 0 => execs[futures[t]].task = t
RequestsMatch ==
    \A r \in Threads : requests[r].exec # 0 =>
        execs[requests[r].exec].task = requests[r].task

\* An execution that is not recorded yet is known to nobody else, so that
\* nobody can have cancelled it.
UnrecordedIsUnknown ==
    \A r \in Threads : requests[r].step = "record" =>
        LET e == requests[r].exec
        IN  /\ e # 0 /\ ~execs[e].cancelled
            /\ \A t \in Tasks : futures[t] # e
            /\ \A q \in Threads : q # r => requests[q].exec # e

\* Somebody will call _task_done for t: an execution whose future has not
\* called back, or the request that is about to record it.
Recording(t) == \E r \in Threads : requests[r].step = "record" /\ requests[r].task = t
CallsBack(t) ==
    \E e \in 1 .. MaxExecs :
        Live(e) /\ execs[e].task = t /\ ~(execs[e].by = "bridge" /\ execs[e].cancelled)
IdsAwaited == \A t \in ids : CallsBack(t) \/ Recording(t)

\* A row that says "running" has an execution before the end of its collection.
Collecting(t) ==
    \E e \in 1 .. MaxExecs : execs[e].task = t /\ execs[e].stage = "collecting"
RunningCollects ==
    \A t \in Tasks : tasks[t].status = "running" => Collecting(t) \/ t \in disturbed

\* Only a task marked as interrupted at work has its executions cancelled.
CancelledDisturbed ==
    /\ \A e \in 1 .. MaxExecs :
          Live(e) /\ execs[e].cancelled => execs[e].task \in disturbed
    /\ \A r \in Threads :
          LET e == requests[r].exec
          IN  requests[r].step = "cancel" /\ e # 0 /\ Live(e)
                => requests[r].task \in disturbed

IInv ==
    /\ TypeOK
    /\ FuturesMatch
    /\ RequestsMatch
    /\ UnrecordedIsUnknown
    /\ IdsAwaited
    /\ RunningCollects
    /\ CancelledDisturbed
-----------------------------------------------------------------------------
(* Updates of one field.                                                   *)

LEMMA FellDue ==
    ASSUME TypeOK, NEW t \in Tasks, tasks' = [tasks EXCEPT ![t].due = TRUE]
    PROVE  /\ tasks' \in [Tasks -> TaskRow]
           /\ \A k \in Tasks : tasks'[k].status = tasks[k].status
  BY DEF TypeOK, TaskRow

LEMMA Readied ==
    ASSUME TypeOK, NEW t \in Tasks,
           tasks' = [tasks EXCEPT ![t].status = ReadyStatus(t)]
    PROVE  /\ tasks' \in [Tasks -> TaskRow]
           /\ \A k \in Tasks :
                tasks'[k].status = IF k = t THEN ReadyStatus(t) ELSE tasks[k].status
  BY DEF TypeOK, TaskRow, TaskStatus, ReadyStatus

LEMMA MovedTo ==
    ASSUME TypeOK, NEW e \in DOMAIN execs, NEW s \in Stages, MoveTo(e, s)
    PROVE  /\ execs' \in [1 .. MaxExecs -> Exec]
           /\ \A k \in 1 .. MaxExecs :
                /\ execs'[k].task = execs[k].task
                /\ execs'[k].by = execs[k].by
                /\ execs'[k].cancelled = execs[k].cancelled
                /\ execs'[k].stage = IF k = e THEN s ELSE execs[k].stage
  BY DEF TypeOK, Exec, MoveTo

LEMMA MarkedCancelled ==
    ASSUME TypeOK, NEW e \in DOMAIN execs,
           execs' = [execs EXCEPT ![e].cancelled = TRUE]
    PROVE  /\ execs' \in [1 .. MaxExecs -> Exec]
           /\ \A k \in 1 .. MaxExecs :
                /\ execs'[k].task = execs[k].task
                /\ execs'[k].by = execs[k].by
                /\ execs'[k].stage = execs[k].stage
                /\ k # e => execs'[k].cancelled = execs[k].cancelled
  BY DEF TypeOK, Exec

LEMMA EndedExec ==
    ASSUME TypeOK, NEW e \in DOMAIN execs
    PROVE  /\ Ended(execs[e]) \in Exec
           /\ Ended(execs[e]).task = execs[e].task
           /\ Ended(execs[e]).stage = "gone" /\ ~Ended(execs[e]).cancelled
  BY DEF TypeOK, Exec, Ended, Stages

LEMMA Scheduling ==
    ASSUME TypeOK, NEW r \in Threads,
           requests' = [requests EXCEPT ![r].step = "schedule"]
    PROVE  /\ requests' \in [Threads -> Request]
           /\ requests'[r].step = "schedule"
           /\ requests'[r].task = requests[r].task
           /\ requests'[r].exec = requests[r].exec
           /\ \A q \in Threads : q # r => requests'[q] = requests[q]
  BY DEF TypeOK, Request, Steps

LEMMA Cancelling ==
    ASSUME TypeOK, NEW r \in Threads,
           requests' = [requests EXCEPT ![r].step = "cancel", ![r].status = "paused"]
    PROVE  /\ requests' \in [Threads -> Request]
           /\ requests'[r].step = "cancel"
           /\ requests'[r].task = requests[r].task
           /\ requests'[r].exec = requests[r].exec
           /\ \A q \in Threads : q # r => requests'[q] = requests[q]
<1> DEFINE new == [requests[r] EXCEPT !.step = "cancel", !.status = "paused"]
<1>1. requests' = [requests EXCEPT ![r] = new]  OBVIOUS
<1>2. requests \in [Threads -> Request]  BY DEF TypeOK
<1>3. /\ new.step = "cancel" /\ new.exec = requests[r].exec
      /\ new.task = requests[r].task /\ new \in Request
  BY <1>2 DEF Request, Steps, Interrupted
<1> QED  BY <1>1, <1>2, <1>3

LEMMA DoneRequest ==
    ASSUME TypeOK, NEW r \in Threads, Done(r)
    PROVE  /\ requests' \in [Threads -> Request]
           /\ requests'[r].step = "idle" /\ requests'[r].exec = 0
           /\ requests'[r].task = requests[r].task
           /\ \A q \in Threads : q # r => requests'[q] = requests[q]
<1> DEFINE new == [requests[r] EXCEPT !.step = "idle", !.exec = 0, !.status = "paused"]
<1>1. requests' = [requests EXCEPT ![r] = new]  BY DEF Done
<1>2. requests \in [Threads -> Request] /\ 0 \in 0 .. MaxExecs
  BY LocalTasksAssumption DEF TypeOK
<1>3. /\ new.step = "idle" /\ new.exec = 0 /\ new.task = requests[r].task
      /\ new \in Request
  BY <1>2 DEF Request, Steps, Interrupted
<1> QED  BY <1>1, <1>2, <1>3

\* A step that neither cancels nor revives anything.
LEMMA NobodyCancelled ==
    ASSUME TypeOK, CancelledDisturbed,
           requests' = requests, disturbed \subseteq disturbed',
           \A k \in 1 .. MaxExecs :
              Live(k)' => /\ Live(k) /\ execs'[k].task = execs[k].task
                          /\ execs'[k].cancelled = execs[k].cancelled
    PROVE  CancelledDisturbed'
<1>1. \A r \in Threads : requests[r].exec # 0 => requests[r].exec \in 1 .. MaxExecs
  BY LocalTasksAssumption DEF TypeOK, Request
<1>2. \A e \in 1 .. MaxExecs :
         Live(e)' /\ execs'[e].cancelled => execs'[e].task \in disturbed'
  BY DEF CancelledDisturbed
<1>3. ASSUME NEW r \in Threads, requests[r].step = "cancel",
             requests[r].exec # 0, Live(requests[r].exec)'
      PROVE  requests[r].task \in disturbed'
  BY <1>1, <1>3 DEF CancelledDisturbed
<1> QED  BY <1>2, <1>3 DEF CancelledDisturbed, Live
-----------------------------------------------------------------------------
(* The actions.                                                            *)

LEMMA FallsDueInv == ASSUME IInv, NEW t \in Tasks, FallsDue(t) PROVE IInv'
<1>1. TypeOK /\ tasks' = [tasks EXCEPT ![t].due = TRUE]  BY DEF FallsDue, IInv
<1>2. /\ tasks' \in [Tasks -> TaskRow]
      /\ \A k \in Tasks : tasks'[k].status = tasks[k].status
  BY <1>1, FellDue
<1>3. TypeOK'
  BY <1>2 DEF IInv, TypeOK, FallsDue, shared
<1>4. FuturesMatch'
  BY DEF IInv, FuturesMatch, TypeOK, FallsDue, shared
<1>5. RequestsMatch'
  BY DEF IInv, RequestsMatch, TypeOK, FallsDue, shared
<1>6. UnrecordedIsUnknown'
  BY DEF IInv, UnrecordedIsUnknown, TypeOK, FallsDue, shared
<1>7. IdsAwaited'
  BY DEF IInv, IdsAwaited, TypeOK, CallsBack, Recording, Live, FallsDue,
     shared
<1>8. RunningCollects'
  BY DEF IInv, RunningCollects, TypeOK, Collecting, FallsDue, shared
<1>9. CancelledDisturbed'
  BY DEF IInv, CancelledDisturbed, TypeOK, Live, FallsDue, shared
<1> QED  BY <1>3, <1>4, <1>5, <1>6, <1>7, <1>8, <1>9 DEF IInv

LEMMA SubmitInv ==
    ASSUME IInv, NEW r \in Threads, NEW t \in Tasks, Submit(r, t) PROVE IInv'
<1>1. TypeOK'
  BY LocalTasksAssumption DEF IInv, TypeOK, TaskRow, Exec, Request,
     TaskStatus, Stages, Steps, Interrupted, Submit, Idle, SetStatus,
     ReadyStatus, Proceed, shared
<1>2. FuturesMatch'
  BY DEF IInv, FuturesMatch, TypeOK, Submit, Idle, SetStatus, ReadyStatus,
     Proceed, shared
<1>3. RequestsMatch'
  BY DEF IInv, RequestsMatch, TypeOK, Submit, Idle, SetStatus, ReadyStatus,
     Proceed, shared
<1>4. UnrecordedIsUnknown'
  BY DEF IInv, UnrecordedIsUnknown, TypeOK, Submit, Idle, SetStatus,
     ReadyStatus, Proceed, shared
<1>5. IdsAwaited'
  BY DEF IInv, IdsAwaited, TypeOK, CallsBack, Recording, Live, Submit, Idle,
     SetStatus, ReadyStatus, Proceed, shared
<1>6. RunningCollects'
  BY DEF IInv, RunningCollects, TypeOK, Collecting, Submit, Idle, SetStatus,
     ReadyStatus, Proceed, shared
<1>7. CancelledDisturbed'
  BY DEF IInv, CancelledDisturbed, TypeOK, Live, Submit, Idle, SetStatus,
     ReadyStatus, Proceed, shared
<1> QED  BY <1>1, <1>2, <1>3, <1>4, <1>5, <1>6, <1>7 DEF IInv

LEMMA ResumeInv ==
    ASSUME IInv, NEW r \in Threads, NEW t \in Tasks, Resume(r, t) PROVE IInv'
<1>1. TypeOK /\ tasks' = [tasks EXCEPT ![t].status = ReadyStatus(t)]
  BY DEF Resume, IInv
<1>2. /\ tasks' \in [Tasks -> TaskRow]
      /\ \A k \in Tasks :
           tasks'[k].status = IF k = t THEN ReadyStatus(t) ELSE tasks[k].status
  BY <1>1, Readied
<1>3. TypeOK'
  BY <1>2, LocalTasksAssumption
  DEF IInv, TypeOK, Resume, ReadyStatus, Proceed, Request, Steps, Interrupted,
      shared
<1>4. FuturesMatch'
  BY DEF IInv, FuturesMatch, TypeOK, Resume, Idle, ReadyStatus, Proceed,
     shared
<1>5. RequestsMatch'
  BY DEF IInv, RequestsMatch, TypeOK, Resume, Idle, ReadyStatus, Proceed,
     shared
<1>6. UnrecordedIsUnknown'
  BY DEF IInv, UnrecordedIsUnknown, TypeOK, Resume, Idle, ReadyStatus,
     Proceed, shared
<1>7. IdsAwaited'
  BY DEF IInv, IdsAwaited, TypeOK, CallsBack, Recording, Live, Resume, Idle,
     ReadyStatus, Proceed, shared
<1>8. RunningCollects'
  BY DEF IInv, RunningCollects, TypeOK, Collecting, Resume, Idle,
     ReadyStatus, Proceed, shared
<1>9. CancelledDisturbed'
  BY DEF IInv, CancelledDisturbed, TypeOK, Live, Resume, Idle, ReadyStatus,
     Proceed, shared
<1> QED  BY <1>3, <1>4, <1>5, <1>6, <1>7, <1>8, <1>9 DEF IInv

LEMMA RunInv == ASSUME IInv, NEW r \in Threads, NEW t \in Tasks, Run(r, t) PROVE IInv'
<1>1. TypeOK'
  BY LocalTasksAssumption DEF IInv, TypeOK, TaskRow, Exec, Request,
     TaskStatus, Stages, Steps, Interrupted, Run, Idle, Proceed, shared
<1>2. FuturesMatch'
  BY DEF IInv, FuturesMatch, TypeOK, Run, Idle, Proceed, shared
<1>3. RequestsMatch'
  BY DEF IInv, RequestsMatch, TypeOK, Run, Idle, Proceed, shared
<1>4. UnrecordedIsUnknown'
  BY DEF IInv, UnrecordedIsUnknown, TypeOK, Run, Idle, Proceed, shared
<1>5. IdsAwaited'
  BY DEF IInv, IdsAwaited, TypeOK, CallsBack, Recording, Live, Run, Idle,
     Proceed, shared
<1>6. RunningCollects'
  BY DEF IInv, RunningCollects, TypeOK, Collecting, Run, Idle, Proceed,
     shared
<1>7. CancelledDisturbed'
  BY DEF IInv, CancelledDisturbed, TypeOK, Live, Run, Idle, Proceed, shared
<1> QED  BY <1>1, <1>2, <1>3, <1>4, <1>5, <1>6, <1>7 DEF IInv

LEMMA CheckInv == ASSUME IInv, NEW r \in Threads, Check(r) PROVE IInv'
<1>1. /\ requests' \in [Threads -> Request]
      /\ requests'[r].step \in {"idle", "schedule"}
      /\ requests'[r].exec \in {0, requests[r].exec}
      /\ requests'[r].task = requests[r].task
      /\ \A q \in Threads : q # r => requests'[q] = requests[q]
  BY DoneRequest, Scheduling DEF IInv, Check
<1>2. TypeOK'
  BY <1>1 DEF IInv, TypeOK, Check, shared
<1>3. FuturesMatch'
  BY DEF IInv, FuturesMatch, TypeOK, Check, Done, shared
<1>4. RequestsMatch'
  BY <1>1 DEF IInv, RequestsMatch, Check
<1>5. UnrecordedIsUnknown'
  <2> SUFFICES ASSUME NEW q \in Threads, requests'[q].step = "record"
               PROVE  LET e == requests[q].exec
                      IN  /\ e # 0 /\ ~execs[e].cancelled
                          /\ \A t \in Tasks : futures[t] # e
                          /\ \A p \in Threads : p # q => requests'[p].exec # e
    BY <1>1 DEF UnrecordedIsUnknown, Check, shared
  <2> QED  BY <1>1 DEF IInv, UnrecordedIsUnknown
<1>6. IdsAwaited'
  BY <1>1 DEF IInv, IdsAwaited, CallsBack, Recording, Live, Check, shared
<1>7. RunningCollects'
  BY DEF IInv, RunningCollects, TypeOK, Collecting, Check, Done, shared
<1>8. CancelledDisturbed'
  BY <1>1 DEF IInv, CancelledDisturbed, Live, Check
<1> QED  BY <1>2, <1>3, <1>4, <1>5, <1>6, <1>7, <1>8 DEF IInv

LEMMA ScheduleInv == ASSUME IInv, NEW r \in Threads, Schedule(r) PROVE IInv'
<1>1. TypeOK'
  BY LocalTasksAssumption DEF IInv, TypeOK, TaskRow, Exec, Request,
     TaskStatus, Stages, Steps, Interrupted, Schedule, NewExec, Proceed,
     Free, Live
<1>2. FuturesMatch'
  BY DEF IInv, FuturesMatch, TypeOK, Schedule, NewExec, Proceed, Free, Live
<1>3. RequestsMatch'
  BY DEF IInv, RequestsMatch, TypeOK, Schedule, NewExec, Proceed, Free, Live
<1>4. UnrecordedIsUnknown'
  BY DEF IInv, UnrecordedIsUnknown, TypeOK, Schedule, NewExec, Proceed,
     Free, Live
<1>5. IdsAwaited'
  BY DEF IInv, IdsAwaited, TypeOK, CallsBack, Recording, Live, Schedule,
     NewExec, Proceed, Free
<1>6. RunningCollects'
  BY DEF IInv, RunningCollects, TypeOK, Collecting, Schedule, NewExec,
     Proceed, Free, Live
<1>7. CancelledDisturbed'
  BY DEF IInv, CancelledDisturbed, TypeOK, Live, Schedule, NewExec, Proceed,
     Free
<1> QED  BY <1>1, <1>2, <1>3, <1>4, <1>5, <1>6, <1>7 DEF IInv

LEMMA RecordInv == ASSUME IInv, NEW r \in Threads, Record(r) PROVE IInv'
<1> DEFINE e == requests[r].exec
           t == requests[r].task
<1>1. /\ requests' \in [Threads -> Request]
      /\ requests'[r].exec = 0 /\ requests'[r].step = "idle"
      /\ requests'[r].task = requests[r].task
      /\ \A q \in Threads : q # r => requests'[q] = requests[q]
  BY DoneRequest DEF IInv, Record
<1>2. e \in 1 .. MaxExecs /\ t \in Tasks /\ execs[e].task = t
  BY LocalTasksAssumption
  DEF IInv, TypeOK, Request, RequestsMatch, UnrecordedIsUnknown, Record
<1>3. \/ Live(e) /\ futures' = [futures EXCEPT ![t] = e] /\ ids' = ids
      \/ futures' = [futures EXCEPT ![t] = 0] /\ ids' = ids \ {t}
  BY DEF Record, Forgotten
<1>4. TypeOK'
  BY <1>1, <1>2, <1>3, LocalTasksAssumption DEF IInv, TypeOK, Record
<1>5. FuturesMatch'
  BY <1>2, <1>3 DEF IInv, TypeOK, FuturesMatch, Record
<1>6. RequestsMatch'
  BY DEF IInv, RequestsMatch, TypeOK, Record, Live, Forgotten, Done
<1>7. UnrecordedIsUnknown'
  BY DEF IInv, UnrecordedIsUnknown, TypeOK, Record, Live, Forgotten, Done
<1>8. IdsAwaited'
  <2>1. Live(e) => CallsBack(t)
    BY <1>2 DEF CallsBack, IInv, UnrecordedIsUnknown, Record
  <2>2. \A k : CallsBack(k)' <=> CallsBack(k)  BY DEF CallsBack, Live, Record
  <2>3. \A k : k # t /\ Recording(k) => Recording(k)'  BY <1>1 DEF Recording
  <2>4. ASSUME NEW k \in ids' PROVE CallsBack(k)' \/ Recording(k)'
    <3>1. CASE k = t /\ Live(e)  BY <2>1, <2>2, <3>1
    <3>2. CASE k # t
      <4>1. k \in ids  BY <1>3, <2>4
      <4> QED  BY <2>2, <2>3, <3>2, <4>1 DEF IInv, IdsAwaited
    <3> QED  BY <1>3, <2>4, <3>1, <3>2
  <2> QED  BY <2>4 DEF IdsAwaited
<1>9. RunningCollects'
  BY DEF IInv, RunningCollects, TypeOK, Collecting, Record, Live, Forgotten,
     Done
<1>10. CancelledDisturbed'
  BY DEF IInv, CancelledDisturbed, TypeOK, Live, Record, Forgotten, Done
<1> QED  BY <1>4, <1>5, <1>6, <1>7, <1>8, <1>9, <1>10 DEF IInv

LEMMA InterruptInv ==
    ASSUME IInv, NEW r \in Threads, NEW t \in Tasks, NEW s \in Interrupted,
           Interrupt(r, t, s)
    PROVE  IInv'
<1>1. TypeOK'
  BY LocalTasksAssumption DEF IInv, TypeOK, TaskRow, Exec, Request,
     TaskStatus, Stages, Steps, Interrupted, Interrupt, Idle, Proceed,
     shared
<1>2. FuturesMatch'
  BY DEF IInv, FuturesMatch, TypeOK, Interrupt, Idle, Proceed, shared
<1>3. RequestsMatch'
  BY DEF IInv, TypeOK, RequestsMatch, FuturesMatch, Interrupt, Proceed, shared
<1>4. UnrecordedIsUnknown'
  BY DEF IInv, UnrecordedIsUnknown, TypeOK, Interrupt, Idle, Proceed, shared
<1>5. IdsAwaited'
  BY DEF IInv, IdsAwaited, TypeOK, CallsBack, Recording, Live, Interrupt,
     Idle, Proceed, shared
<1>6. RunningCollects'
  BY DEF IInv, RunningCollects, TypeOK, Collecting, Interrupt, Idle,
     Proceed, shared
<1>7. CancelledDisturbed'
  BY DEF IInv, CancelledDisturbed, TypeOK, Live, Interrupt, Idle, Proceed,
     shared
<1> QED  BY <1>1, <1>2, <1>3, <1>4, <1>5, <1>6, <1>7 DEF IInv

LEMMA MarkInv == ASSUME IInv, NEW r \in Threads, Mark(r) PROVE IInv'
<1>1. /\ requests' \in [Threads -> Request]
      /\ requests'[r].step = "cancel"
      /\ requests'[r].task = requests[r].task
      /\ requests'[r].exec = requests[r].exec
      /\ \A q \in Threads : q # r => requests'[q] = requests[q]
  BY Cancelling DEF IInv, Mark
<1>2. TypeOK'
  BY <1>1
  DEF IInv, TypeOK, Mark, SetStatus, TaskRow, TaskStatus, Request, Interrupted,
      shared
<1>3. FuturesMatch'
  BY DEF IInv, FuturesMatch, TypeOK, Mark, SetStatus, AtWork, shared, Live
<1>4. RequestsMatch'
  BY DEF IInv, RequestsMatch, TypeOK, Mark, SetStatus, AtWork, shared, Live
<1>5. UnrecordedIsUnknown'
  BY DEF IInv, UnrecordedIsUnknown, TypeOK, Mark, SetStatus, AtWork, shared,
     Live
<1>6. IdsAwaited'
  BY DEF IInv, IdsAwaited, TypeOK, CallsBack, Recording, Live, Mark,
     SetStatus, AtWork, shared
<1>7. RunningCollects'
  BY <1>1
  DEF IInv, TypeOK, RunningCollects, Collecting, Mark, SetStatus, Request,
      Interrupted
<1>8. CancelledDisturbed'
  <2> DEFINE e == requests[r].exec
  <2>1. disturbed \subseteq disturbed' /\ execs' = execs  BY DEF Mark
  <2>2. requests[r].task \in Tasks /\ e \in 0 .. MaxExecs
    BY DEF IInv, TypeOK, Request
  <2>3. e # 0 /\ Live(e) => requests[r].task \in disturbed'
    <3>1. e # 0 => e \in DOMAIN execs /\ execs[e].task = requests[r].task
      BY <2>2, LocalTasksAssumption DEF IInv, TypeOK, RequestsMatch
    <3> QED  BY <2>2, <3>1 DEF Mark, AtWork
  <2> QED  BY <1>1, <2>1, <2>3 DEF IInv, CancelledDisturbed, Live
<1> QED  BY <1>2, <1>3, <1>4, <1>5, <1>6, <1>7, <1>8 DEF IInv

LEMMA CancelInv == ASSUME IInv, NEW r \in Threads, Cancel(r) PROVE IInv'
<1> DEFINE e == requests[r].exec
           t == requests[r].task
<1>1. /\ requests' \in [Threads -> Request]
      /\ requests'[r].exec = 0 /\ requests'[r].step = "idle"
      /\ requests'[r].task = requests[r].task
      /\ \A q \in Threads : q # r => requests'[q] = requests[q]
  BY DoneRequest DEF IInv, Cancel
<1>2. /\ t \in Tasks /\ e \in 0 .. MaxExecs
      /\ e # 0 => e \in 1 .. MaxExecs /\ execs[e].task = t
  BY LocalTasksAssumption DEF IInv, TypeOK, Request, RequestsMatch
<1>3. /\ execs' \in [1 .. MaxExecs -> Exec]
      /\ \A k \in 1 .. MaxExecs :
           /\ execs'[k].task = execs[k].task
           /\ execs'[k].by = execs[k].by
           /\ execs'[k].stage = execs[k].stage
           /\ \/ execs'[k].cancelled = execs[k].cancelled
              \/ k = e /\ Live(e) /\ (execs[e].by = "bridge" => Forgotten(t))
  <2>1. CASE execs' = execs  BY <2>1 DEF IInv, TypeOK
  <2>2. CASE /\ e # 0 /\ Live(e) /\ execs' = [execs EXCEPT ![e].cancelled = TRUE]
             /\ execs[e].by = "bridge" => Forgotten(t)
    <3>1. e \in DOMAIN execs /\ TypeOK  BY <1>2, <2>2 DEF IInv, TypeOK
    <3>2. /\ execs' \in [1 .. MaxExecs -> Exec]
          /\ \A k \in 1 .. MaxExecs :
                /\ execs'[k].task = execs[k].task
                /\ execs'[k].by = execs[k].by
                /\ execs'[k].stage = execs[k].stage
                /\ k # e => execs'[k].cancelled = execs[k].cancelled
      BY <2>2, <3>1, MarkedCancelled
    <3> QED  BY <2>2, <3>2
  <2> QED  BY <2>1, <2>2 DEF Cancel
<1>4. \/ ids' = ids /\ futures' = futures
      \/ ids' = ids \ {t} /\ futures' = [futures EXCEPT ![t] = 0]
  BY DEF Cancel, Forgotten, shared
<1>5. TypeOK'
  <2>1. futures' \in [Tasks -> 0 .. MaxExecs] /\ ids' \subseteq Tasks
    BY <1>4, LocalTasksAssumption DEF IInv, TypeOK
  <2>2. tasks' = tasks /\ listed' = listed /\ disturbed' = disturbed  BY DEF Cancel
  <2> QED  BY <1>1, <1>3, <2>1, <2>2 DEF IInv, TypeOK
<1>6. FuturesMatch'
  BY <1>3, <1>4 DEF IInv, TypeOK, FuturesMatch
<1>7. RequestsMatch'
  <2> SUFFICES ASSUME NEW q \in Threads, requests'[q].exec # 0
               PROVE  execs'[requests'[q].exec].task = requests'[q].task
    BY DEF RequestsMatch
  <2>1. q # r /\ requests'[q] = requests[q]  BY <1>1
  <2>2. requests[q].exec \in 1 .. MaxExecs
    BY <2>1, LocalTasksAssumption DEF IInv, TypeOK, Request
  <2> QED  BY <1>3, <2>1, <2>2 DEF IInv, RequestsMatch
<1>8. UnrecordedIsUnknown'
  <2> SUFFICES ASSUME NEW q \in Threads, requests'[q].step = "record"
               PROVE  LET n == requests'[q].exec
                      IN  /\ n # 0 /\ ~execs'[n].cancelled
                          /\ \A k \in Tasks : futures'[k] # n
                          /\ \A p \in Threads : p # q => requests'[p].exec # n
    BY DEF UnrecordedIsUnknown
  <2> DEFINE n == requests[q].exec
  <2>1. q # r /\ requests'[q] = requests[q]  BY <1>1
  <2>2. /\ n # 0 /\ ~execs[n].cancelled /\ \A k \in Tasks : futures[k] # n
        /\ \A p \in Threads : p # q => requests[p].exec # n
    BY <2>1 DEF IInv, UnrecordedIsUnknown
  <2>3. n \in 1 .. MaxExecs
    BY <2>2, LocalTasksAssumption DEF IInv, TypeOK, Request
  <2>4. e # n  BY <2>1, <2>2
  <2>5. ~execs'[n].cancelled  BY <1>3, <2>2, <2>3, <2>4
  <2>6. \A k \in Tasks : futures'[k] # n
    BY <1>4, <2>2 DEF IInv, TypeOK
  <2>7. \A p \in Threads : p # q => requests'[p].exec # n  BY <1>1, <2>2
  <2> QED  BY <2>1, <2>2, <2>5, <2>6, <2>7
<1>9. IdsAwaited'
  <2> SUFFICES ASSUME NEW k \in ids' PROVE CallsBack(k)' \/ Recording(k)'
    BY DEF IdsAwaited
  <2>1. k \in ids  BY <1>4
  <2>2. CASE Recording(k)  BY <1>1, <2>2 DEF Recording, Cancel
  <2>3. CASE CallsBack(k)
    <3>1. PICK n \in 1 .. MaxExecs :
            /\ Live(n) /\ execs[n].task = k
            /\ ~(execs[n].by = "bridge" /\ execs[n].cancelled)
      BY <2>3 DEF CallsBack
    <3>2. execs'[n].by = "bridge" => ~execs'[n].cancelled
      <4>1. CASE n = e /\ execs[e].by = "bridge" /\ Forgotten(t)
        <5>1. k = t /\ k \notin ids'
          BY <1>2, <3>1, <4>1, LocalTasksAssumption DEF Forgotten
        <5> QED  BY <5>1
      <4> QED  BY <1>3, <3>1, <4>1
    <3> QED  BY <1>3, <3>1, <3>2 DEF CallsBack, Live
  <2> QED  BY <2>1, <2>2, <2>3 DEF IInv, IdsAwaited
<1>10. RunningCollects'
  BY <1>3 DEF IInv, RunningCollects, Collecting, Cancel
<1>11. CancelledDisturbed'
  <2>1. e # 0 /\ Live(e) => t \in disturbed
    BY DEF IInv, CancelledDisturbed, Cancel
  <2>2. disturbed' = disturbed  BY DEF Cancel
  <2>3. \A k \in 1 .. MaxExecs : Live(k)' <=> Live(k)  BY <1>3 DEF Live
  <2>4. \A k \in 1 .. MaxExecs :
           Live(k)' /\ execs'[k].cancelled => execs'[k].task \in disturbed
    BY <1>2, <1>3, <2>1, <2>3, LocalTasksAssumption DEF IInv, CancelledDisturbed
  <2>5. ASSUME NEW q \in Threads, requests'[q].step = "cancel",
               requests'[q].exec # 0, Live(requests[q].exec)'
        PROVE  requests'[q].task \in disturbed
    <3>1. q # r /\ requests'[q] = requests[q]  BY <1>1, <2>5
    <3>2. requests[q].exec \in 1 .. MaxExecs
      BY <2>5, <3>1, LocalTasksAssumption DEF IInv, TypeOK, Request
    <3> QED  BY <2>3, <2>5, <3>1, <3>2 DEF IInv, CancelledDisturbed
  <2> QED  BY <1>1, <2>2, <2>4, <2>5 DEF CancelledDisturbed, Live
<1> QED  BY <1>5, <1>6, <1>7, <1>8, <1>9, <1>10, <1>11 DEF IInv

LEMMA ListDueInv == ASSUME IInv, ListDue PROVE IInv'
<1>1. TypeOK'
  BY LocalTasksAssumption DEF IInv, TypeOK, TaskRow, Exec, Request,
     TaskStatus, Stages, Steps, Interrupted, ListDue, Due, LoopFree, shared
<1>2. FuturesMatch'
  BY DEF IInv, FuturesMatch, TypeOK, ListDue, LoopFree, shared
<1>3. RequestsMatch'
  BY DEF IInv, RequestsMatch, TypeOK, ListDue, LoopFree, shared
<1>4. UnrecordedIsUnknown'
  BY DEF IInv, UnrecordedIsUnknown, TypeOK, ListDue, LoopFree, shared
<1>5. IdsAwaited'
  BY DEF IInv, IdsAwaited, TypeOK, CallsBack, Recording, Live, ListDue,
     LoopFree, shared
<1>6. RunningCollects'
  BY DEF IInv, RunningCollects, TypeOK, Collecting, ListDue, LoopFree,
     shared
<1>7. CancelledDisturbed'
  BY DEF IInv, CancelledDisturbed, TypeOK, Live, ListDue, LoopFree, shared
<1> QED  BY <1>1, <1>2, <1>3, <1>4, <1>5, <1>6, <1>7 DEF IInv

LEMMA TakeDueInv == ASSUME IInv, TakeDue PROVE IInv'
<1>1. /\ listed \subseteq Tasks /\ listed' \subseteq listed
      /\ tasks' = tasks /\ requests' = requests /\ disturbed' = disturbed
  BY DEF IInv, TypeOK, TakeDue
<1>2. \/ execs' = execs /\ ids' = ids /\ futures' = futures
      \/ \E t \in listed, e \in 1 .. MaxExecs :
            /\ ids' = ids \cup {t}
            /\ NewExec(e, t, "scheduler")
            /\ futures' = [futures EXCEPT ![t] = e]
  BY DEF IInv, TypeOK, TakeDue, shared
<1>3. CASE execs' = execs /\ ids' = ids /\ futures' = futures
  BY <1>1, <1>3
  DEF IInv, TypeOK, FuturesMatch, RequestsMatch, UnrecordedIsUnknown, IdsAwaited,
      CallsBack, Recording, RunningCollects, Collecting, CancelledDisturbed, Live
<1>4. ASSUME NEW t \in Tasks, NEW e \in 1 .. MaxExecs,
             ids' = ids \cup {t}, NewExec(e, t, "scheduler"),
             futures' = [futures EXCEPT ![t] = e]
      PROVE  IInv'
  <2>1. /\ Free(e)
        /\ execs' \in [1 .. MaxExecs -> Exec]
        /\ execs'[e] = [task |-> t, by |-> "scheduler", stage |-> "created",
                        cancelled |-> FALSE]
        /\ \A k \in 1 .. MaxExecs : k # e => execs'[k] = execs[k]
    BY <1>4 DEF IInv, TypeOK, NewExec, Exec, Stages
  <2>2. /\ ~Live(e) /\ Live(e)'
        /\ \A k \in 1 .. MaxExecs : k # e => (Live(k)' <=> Live(k))
    BY <2>1 DEF Free, Live
  <2>3. /\ \A k \in Tasks : futures[k] # e
        /\ \A r \in Threads : requests[r].exec # e
    BY <2>1 DEF Free
  <2>4. TypeOK'  BY <1>1, <1>4, <2>1, LocalTasksAssumption DEF IInv, TypeOK
  <2>5. FuturesMatch'
    BY <1>4, <2>1, <2>3, LocalTasksAssumption DEF IInv, TypeOK, FuturesMatch
  <2>6. RequestsMatch'
    BY <1>1, <2>1, <2>3, LocalTasksAssumption DEF IInv, TypeOK, Request, RequestsMatch
  <2>7. UnrecordedIsUnknown'
    <3>1. \A k \in Tasks, r \in Threads :
             futures[k] # requests[r].exec => futures'[k] # requests[r].exec
      BY <1>4, <2>3 DEF IInv, TypeOK
    <3> QED
      BY <1>1, <2>1, <2>3, <3>1, LocalTasksAssumption
      DEF IInv, TypeOK, Request, UnrecordedIsUnknown
  <2>8. IdsAwaited'
    <3>1. CallsBack(t)'  BY <2>1, <2>2 DEF CallsBack
    <3>2. \A k : CallsBack(k) => CallsBack(k)'  BY <2>1, <2>2 DEF CallsBack
    <3>3. \A k : Recording(k) => Recording(k)'  BY <1>1 DEF Recording
    <3> QED  BY <1>4, <3>1, <3>2, <3>3 DEF IInv, IdsAwaited
  <2>9. RunningCollects'
    <3>1. \A k : Collecting(k) => Collecting(k)'
      <4>1. execs[e].stage # "collecting"  BY <2>2 DEF Live
      <4> QED  BY <2>1, <4>1 DEF Collecting
    <3> QED  BY <1>1, <3>1 DEF IInv, RunningCollects
  <2>10. CancelledDisturbed'
    <3>1. \A r \in Threads : requests[r].exec # 0 =>
             requests[r].exec \in 1 .. MaxExecs /\ requests[r].exec # e
      BY <2>3, LocalTasksAssumption DEF IInv, TypeOK, Request
    <3>2. \A k \in 1 .. MaxExecs :
             Live(k)' /\ execs'[k].cancelled => execs'[k].task \in disturbed'
      BY <1>1, <2>1, <2>2 DEF IInv, CancelledDisturbed
    <3>3. ASSUME NEW r \in Threads, requests[r].step = "cancel",
                 requests[r].exec # 0, Live(requests[r].exec)'
          PROVE  requests[r].task \in disturbed'
      BY <1>1, <2>2, <3>1, <3>3 DEF IInv, CancelledDisturbed
    <3> QED  BY <1>1, <3>2, <3>3 DEF CancelledDisturbed, Live
  <2> QED  BY <2>4, <2>5, <2>6, <2>7, <2>8, <2>9, <2>10 DEF IInv
<1> QED  BY <1>1, <1>2, <1>3, <1>4

LEMMA BeginInv == ASSUME IInv, NEW e \in DOMAIN execs, Begin(e) PROVE IInv'
<1>1. /\ execs' \in [1 .. MaxExecs -> Exec]
      /\ \A k \in 1 .. MaxExecs :
           /\ execs'[k].task = execs[k].task
           /\ execs'[k].by = execs[k].by
           /\ execs'[k].cancelled = execs[k].cancelled
           /\ execs'[k].stage = IF k = e THEN "collecting" ELSE execs[k].stage
  BY MovedTo DEF IInv, Stages, Begin
<1>2. e \in 1 .. MaxExecs /\ execs[e].task \in Tasks  BY DEF IInv, TypeOK, Exec
<1>3. tasks' \in [Tasks -> TaskRow]
  BY <1>2 DEF IInv, TypeOK, Begin, SetStatus, TaskRow, TaskStatus
<1>4. \A k \in Tasks :
         tasks'[k].status = IF k = execs[e].task THEN "running" ELSE tasks[k].status
  BY <1>2 DEF IInv, TypeOK, Begin, SetStatus
<1>5. \A k \in 1 .. MaxExecs : Live(k)' <=> Live(k)  BY <1>1 DEF Live, Begin
<1>6. TypeOK'
  BY <1>1, <1>3, <1>4, LocalTasksAssumption DEF IInv, TypeOK, Begin, shared
<1>7. FuturesMatch'
  BY <1>1, LocalTasksAssumption DEF IInv, TypeOK, FuturesMatch, Begin, shared
<1>8. RequestsMatch'
  BY <1>1, LocalTasksAssumption DEF IInv, TypeOK, Request, RequestsMatch, Begin
<1>9. UnrecordedIsUnknown'
  BY <1>1, LocalTasksAssumption
  DEF IInv, TypeOK, Request, UnrecordedIsUnknown, Begin, shared
<1>10. IdsAwaited'
  BY <1>1, <1>5 DEF IInv, IdsAwaited, CallsBack, Recording, Begin, shared
<1>11. RunningCollects'
  <2>1. \A k : Collecting(k) \/ k = execs[e].task => Collecting(k)'
    BY <1>1, <1>2 DEF Collecting
  <2> QED  BY <1>4, <2>1 DEF IInv, RunningCollects, Begin
<1>12. CancelledDisturbed'
  BY <1>1, <1>5, NobodyCancelled DEF IInv, Begin
<1> QED  BY <1>6, <1>7, <1>8, <1>9, <1>10, <1>11, <1>12 DEF IInv

LEMMA FinishInv ==
    ASSUME IInv, NEW e \in DOMAIN execs, NEW success \in BOOLEAN,
           Finish(e, success)
    PROVE  IInv'
<1>1. /\ execs' \in [1 .. MaxExecs -> Exec]
      /\ \A k \in 1 .. MaxExecs :
           /\ execs'[k].task = execs[k].task
           /\ execs'[k].by = execs[k].by
           /\ execs'[k].cancelled = execs[k].cancelled
           /\ execs'[k].stage = IF k = e THEN "closing" ELSE execs[k].stage
  BY MovedTo DEF IInv, Stages, Finish
<1>2. e \in 1 .. MaxExecs /\ execs[e].task \in Tasks  BY DEF IInv, TypeOK, Exec
<1>3. tasks' \in [Tasks -> TaskRow]
  BY <1>2 DEF IInv, TypeOK, Finish, SetStatus, RestStatus, TaskRow, TaskStatus
<1>4. \A k \in Tasks :
         tasks'[k].status = IF k = execs[e].task THEN RestStatus(k, success) ELSE tasks[k].status
  BY <1>2 DEF IInv, TypeOK, Finish, SetStatus
<1>5. \A k \in 1 .. MaxExecs : Live(k)' <=> Live(k)  BY <1>1 DEF Live, Finish
<1>6. TypeOK'
  BY <1>1, <1>3, <1>4, LocalTasksAssumption DEF IInv, TypeOK, RestStatus, Finish, shared
<1>7. FuturesMatch'
  BY <1>1, LocalTasksAssumption DEF IInv, TypeOK, FuturesMatch, Finish, shared
<1>8. RequestsMatch'
  BY <1>1, LocalTasksAssumption DEF IInv, TypeOK, Request, RequestsMatch, Finish
<1>9. UnrecordedIsUnknown'
  BY <1>1, LocalTasksAssumption
  DEF IInv, TypeOK, Request, UnrecordedIsUnknown, Finish, shared
<1>10. IdsAwaited'
  BY <1>1, <1>5 DEF IInv, IdsAwaited, CallsBack, Recording, Finish, shared
<1>11. RunningCollects'
  BY <1>1, <1>2, <1>4 DEF IInv, TypeOK, RunningCollects, Collecting, RestStatus, Finish
<1>12. CancelledDisturbed'
  BY <1>1, <1>5, NobodyCancelled DEF IInv, Finish
<1> QED  BY <1>6, <1>7, <1>8, <1>9, <1>10, <1>11, <1>12 DEF IInv

LEMMA UnwindInv == ASSUME IInv, NEW e \in DOMAIN execs, Unwind(e) PROVE IInv'
<1>1. /\ execs' \in [1 .. MaxExecs -> Exec]
      /\ \A k \in 1 .. MaxExecs :
           /\ execs'[k].task = execs[k].task
           /\ execs'[k].by = execs[k].by
           /\ execs'[k].cancelled = execs[k].cancelled
           /\ execs'[k].stage = IF k = e THEN "closing" ELSE execs[k].stage
  BY MovedTo DEF IInv, Stages, Unwind
<1>2. e \in 1 .. MaxExecs /\ execs[e].task \in Tasks  BY DEF IInv, TypeOK, Exec
<1>3. \A k \in 1 .. MaxExecs : Live(k)' <=> Live(k)  BY <1>1 DEF Live, Unwind
<1>4. TypeOK'
  BY <1>1 DEF IInv, TypeOK, Unwind, shared
<1>5. FuturesMatch'
  BY <1>1, LocalTasksAssumption DEF IInv, TypeOK, FuturesMatch, Unwind, shared
<1>6. RequestsMatch'
  BY <1>1, LocalTasksAssumption DEF IInv, TypeOK, Request, RequestsMatch, Unwind
<1>7. UnrecordedIsUnknown'
  BY <1>1, LocalTasksAssumption
  DEF IInv, TypeOK, Request, UnrecordedIsUnknown, Unwind, shared
<1>8. IdsAwaited'
  BY <1>1, <1>3 DEF IInv, IdsAwaited, CallsBack, Recording, Unwind, shared
<1>9. RunningCollects'
  <2>1. execs[e].task \in disturbed
    BY <1>2 DEF IInv, CancelledDisturbed, Live, Unwind
  <2> QED  BY <1>1, <1>2, <2>1 DEF IInv, TypeOK, RunningCollects, Collecting, Unwind
<1>10. CancelledDisturbed'
  BY <1>1, <1>3, NobodyCancelled DEF IInv, Unwind
<1> QED  BY <1>4, <1>5, <1>6, <1>7, <1>8, <1>9, <1>10 DEF IInv

LEMMA FailInv == ASSUME IInv, NEW e \in DOMAIN execs, Fail(e) PROVE IInv'
<1> DEFINE t == execs[e].task
<1>1. /\ execs' \in [1 .. MaxExecs -> Exec]
      /\ \A k \in 1 .. MaxExecs :
           /\ execs'[k].task = execs[k].task
           /\ execs'[k].by = execs[k].by
           /\ execs'[k].cancelled = execs[k].cancelled
           /\ execs'[k].stage = IF k = e THEN "closing" ELSE execs[k].stage
  BY MovedTo DEF IInv, Stages, Fail
<1>2. e \in 1 .. MaxExecs /\ t \in Tasks  BY DEF IInv, TypeOK, Exec
<1>3. /\ ids' = ids /\ futures' = futures /\ requests' = requests
      /\ listed' = listed /\ disturbed' = disturbed \cup {t}
  BY DEF Fail, shared
<1>4. /\ tasks' \in [Tasks -> TaskRow]
      /\ \A k \in Tasks :
           \/ tasks'[k].status = tasks[k].status
           \/ k = t /\ tasks'[k].status = "running"
  <2>1. CASE SetStatus(t, "running")
    BY <1>2, <2>1 DEF IInv, TypeOK, SetStatus, TaskRow, TaskStatus
  <2>2. CASE tasks' = tasks  BY <2>2 DEF IInv, TypeOK
  <2> QED  BY <2>1, <2>2 DEF Fail
<1>5. \A k \in 1 .. MaxExecs : Live(k)' <=> Live(k)  BY <1>1 DEF Live, Fail
<1>6. TypeOK'
  BY <1>1, <1>2, <1>3, <1>4, LocalTasksAssumption DEF IInv, TypeOK
<1>7. FuturesMatch'
  BY <1>1, <1>3, LocalTasksAssumption DEF IInv, TypeOK, FuturesMatch
<1>8. RequestsMatch'
  BY <1>1, <1>3, LocalTasksAssumption DEF IInv, TypeOK, Request, RequestsMatch
<1>9. UnrecordedIsUnknown'
  BY <1>1, <1>3, LocalTasksAssumption DEF IInv, TypeOK, Request, UnrecordedIsUnknown
<1>10. IdsAwaited'
  BY <1>1, <1>3, <1>5 DEF IInv, IdsAwaited, CallsBack, Recording
<1>11. RunningCollects'
  <2>1. \A k : k # t /\ Collecting(k) => Collecting(k)'
    BY <1>1, <1>2 DEF Collecting
  <2> QED  BY <1>3, <1>4, <2>1 DEF IInv, RunningCollects
<1>12. CancelledDisturbed'
  BY <1>1, <1>3, <1>5, NobodyCancelled DEF IInv
<1> QED  BY <1>6, <1>7, <1>8, <1>9, <1>10, <1>11, <1>12 DEF IInv

LEMMA LeaveInv == ASSUME IInv, NEW e \in DOMAIN execs, Leave(e) PROVE IInv'
<1> DEFINE t == execs[e].task
<1>1. e \in 1 .. MaxExecs /\ t \in Tasks  BY DEF IInv, TypeOK, Exec
<1>2. /\ execs' \in [1 .. MaxExecs -> Exec]
      /\ \A k \in 1 .. MaxExecs :
           /\ execs'[k].task = execs[k].task
           /\ k # e => execs'[k] = execs[k]
      /\ execs'[e].stage = "gone" /\ ~execs'[e].cancelled
  BY <1>1, EndedExec DEF IInv, TypeOK, Leave
<1>3. /\ \A k \in 1 .. MaxExecs : k # e => (Live(k)' <=> Live(k))
      /\ ~Live(e)'
  BY <1>2 DEF Live
<1>4. /\ tasks' = tasks /\ requests' = requests
      /\ listed' = listed /\ disturbed' = disturbed
  BY DEF Leave
<1>5. \/ /\ ids' = ids /\ futures' = futures
         /\ \/ execs[e].by = "bridge" /\ execs[e].cancelled
            \/ \E r \in Threads : requests[r].step = "record" /\ requests[r].exec = e
      \/ ids' = ids \ {t} /\ futures' = [futures EXCEPT ![t] = 0]
  BY DEF Leave, Forgotten, shared
<1>6. TypeOK'
  <2>1. futures' \in [Tasks -> 0 .. MaxExecs] /\ ids' \subseteq Tasks
    BY <1>5, LocalTasksAssumption DEF IInv, TypeOK
  <2> QED  BY <1>2, <1>4, <2>1 DEF IInv, TypeOK
<1>7. FuturesMatch'
  BY <1>2, <1>5, LocalTasksAssumption DEF IInv, TypeOK, FuturesMatch
<1>8. RequestsMatch'
  BY <1>2, <1>4, LocalTasksAssumption DEF IInv, TypeOK, Request, RequestsMatch
<1>9. UnrecordedIsUnknown'
  <2>1. \A k \in Tasks, n \in 1 .. MaxExecs : futures[k] # n => futures'[k] # n
    BY <1>5 DEF IInv, TypeOK
  <2> QED
    BY <1>2, <1>4, <2>1, LocalTasksAssumption
    DEF IInv, TypeOK, Request, UnrecordedIsUnknown
<1>10. IdsAwaited'
  <2> SUFFICES ASSUME NEW k \in ids' PROVE CallsBack(k)' \/ Recording(k)'
    BY DEF IdsAwaited
  <2>1. k \in ids  BY <1>5
  <2>2. CASE Recording(k)  BY <1>4, <2>2 DEF Recording
  <2>3. CASE CallsBack(k)
    <3>1. PICK n \in 1 .. MaxExecs :
            /\ Live(n) /\ execs[n].task = k
            /\ ~(execs[n].by = "bridge" /\ execs[n].cancelled)
      BY <2>3 DEF CallsBack
    <3>2. CASE n # e  BY <1>2, <1>3, <3>1, <3>2 DEF CallsBack
    <3>3. CASE n = e
      <4>1. PICK r \in Threads : requests[r].step = "record" /\ requests[r].exec = e
        BY <1>5, <3>1, <3>3
      <4>2. requests[r].task = k
        BY <1>1, <3>1, <3>3, <4>1, LocalTasksAssumption DEF IInv, RequestsMatch
      <4> QED  BY <1>4, <4>1, <4>2 DEF Recording
    <3> QED  BY <3>2, <3>3
  <2> QED  BY <2>1, <2>2, <2>3 DEF IInv, IdsAwaited
<1>11. RunningCollects'
  <2>1. execs[e].stage # "collecting"  BY DEF Leave
  <2> QED  BY <1>2, <1>4, <2>1 DEF IInv, RunningCollects, Collecting
<1>12. CancelledDisturbed'
  BY <1>2, <1>3, <1>4, NobodyCancelled DEF IInv
<1> QED  BY <1>6, <1>7, <1>8, <1>9, <1>10, <1>11, <1>12 DEF IInv

LEMMA CrashInv == ASSUME IInv, Crash PROVE IInv'
<1>1. /\ execs' \in [1 .. MaxExecs -> Exec]
      /\ \A k \in 1 .. MaxExecs : execs'[k].stage = "gone"
  BY EndedExec DEF IInv, TypeOK, Crash
<1> DEFINE reset(r) == [requests[r] EXCEPT !.step = "idle", !.exec = 0,
                                           !.status = "paused"]
<1>2. ASSUME NEW r \in Threads
      PROVE  reset(r) \in Request /\ reset(r).step = "idle" /\ reset(r).exec = 0
  <2>1. requests[r] \in Request /\ 0 \in 0 .. MaxExecs
    BY LocalTasksAssumption DEF IInv, TypeOK
  <2> QED  BY <2>1 DEF Request, Steps, Interrupted
<1>3. /\ requests' \in [Threads -> Request]
      /\ \A r \in Threads : requests'[r].step = "idle" /\ requests'[r].exec = 0
  <2>1. requests' = [r \in Threads |-> reset(r)]  BY DEF Crash
  <2> HIDE DEF reset
  <2> QED  BY <1>2, <2>1
<1>4. disturbed' = disturbed \cup {t \in Tasks : AtWork(t)}  BY DEF Crash
<1>5. TypeOK'
  <2>1. 0 \in 0 .. MaxExecs  BY LocalTasksAssumption
  <2>2. futures' \in [Tasks -> 0 .. MaxExecs] /\ ids' = {} /\ listed' = {}
    BY <2>1 DEF Crash
  <2>3. tasks' = tasks /\ disturbed' \subseteq Tasks
    BY <1>4 DEF IInv, TypeOK, Crash
  <2> QED  BY <1>1, <1>3, <2>2, <2>3 DEF IInv, TypeOK
<1>6. FuturesMatch'
  BY DEF FuturesMatch, Crash
<1>7. RequestsMatch'
  BY <1>3 DEF RequestsMatch
<1>8. UnrecordedIsUnknown'
  BY <1>3 DEF UnrecordedIsUnknown
<1>9. IdsAwaited'
  BY DEF IdsAwaited, Crash
<1>10. RunningCollects'
  <2>1. \A t \in Tasks : Collecting(t) => AtWork(t)
    BY DEF IInv, TypeOK, Collecting, AtWork, Live
  <2> QED  BY <1>4, <2>1 DEF IInv, RunningCollects, Crash
<1>11. CancelledDisturbed'
  BY <1>1, <1>3 DEF CancelledDisturbed, Live
<1> QED  BY <1>5, <1>6, <1>7, <1>8, <1>9, <1>10, <1>11 DEF IInv

-----------------------------------------------------------------------------
(* The theorems.                                                           *)

LEMMA InitInv == Init => IInv
<1> SUFFICES ASSUME Init PROVE IInv  OBVIOUS
<1>1. PICK t \in Tasks :
        /\ execs = [e \in 1 .. MaxExecs |->
                      [task |-> t, by |-> "bridge", stage |-> "gone",
                       cancelled |-> FALSE]]
        /\ requests = [r \in Threads |-> [step |-> "idle", task |-> t, exec |-> 0,
                                          status |-> "paused"]]
  BY DEF Init
<1>2. TypeOK
  BY <1>1, LocalTasksAssumption
  DEF Init, TypeOK, TaskRow, Exec, Request, TaskStatus, Stages, Steps, Interrupted
<1> QED
  BY <1>1, <1>2
  DEF Init, IInv, FuturesMatch, RequestsMatch, UnrecordedIsUnknown, IdsAwaited,
      RunningCollects, CancelledDisturbed, Live

LEMMA StutterInv == ASSUME IInv, UNCHANGED vars PROVE IInv'
  BY DEF vars, shared, IInv, TypeOK, FuturesMatch, RequestsMatch,
     UnrecordedIsUnknown, IdsAwaited, CallsBack, Recording, RunningCollects,
     Collecting, CancelledDisturbed, Live

LEMMA Inductive == IInv /\ [Next]_vars => IInv'
  BY FallsDueInv, SubmitInv, ResumeInv, RunInv, CheckInv, ScheduleInv, RecordInv,
     InterruptInv, MarkInv, CancelInv, ListDueInv, TakeDueInv, BeginInv,
     FinishInv, UnwindInv, FailInv, LeaveInv, CrashInv, StutterInv
  DEF Next, Serve, Execute

LEMMA Invariant == Spec => []IInv
  BY InitInv, Inductive, PTL DEF Spec

\* Rows, coroutines and tables keep to their types, and a task with a schedule
\* never rests in "queued" or "success" (storage/workspace_repository.py,
\* finish_collect_task).
THEOREM TypeCorrect == Spec => []TypeOK
<1>1. IInv => TypeOK  BY DEF IInv
<1> QED  BY <1>1, Invariant, PTL

\* No id stays in _running_task_ids for ever: while it is there, an execution of
\* the task, or a request about to record one, is (local_tasks.py, _task_done).
THEOREM RunningIdsAreReleased == Spec => []RunningIdsReleased
<1>1. IInv => RunningIdsReleased
  BY DEF IInv, TypeOK, IdsAwaited, CallsBack, Recording, RunningIdsReleased, AtWork
<1> QED  BY <1>1, Invariant, PTL

\* A row says "running" only while an execution of the task is at work, unless
\* its work was interrupted by a request, or cut short by the process's death or
\* by a refused write (local_tasks.py, _execute).
THEOREM RunningTasksAreWorkedOn == Spec => []RunningIsWorkedOn
<1>1. IInv => RunningIsWorkedOn
  BY DEF IInv, TypeOK, RunningCollects, Collecting, RunningIsWorkedOn, AtWork, Live
<1> QED  BY <1>1, Invariant, PTL

\* The scheduler has started an execution of t, and can tell its future.
Starts(t) ==
    \E e \in 1 .. MaxExecs :
        /\ Free(e)
        /\ execs'[e] = [task |-> t, by |-> "scheduler", stage |-> "created",
                        cancelled |-> FALSE]
        /\ futures'[t] = e

\* A due task that the scheduler's round comes to is started, or passed over for
\* a reason that ends: an execution that will call back, or a request about to
\* record one, holds its id (or the bound leaves no place).  No cancellation,
\* answer or late record makes the scheduler pass it over for good
\* (local_tasks.py, run_due_tasks).
THEOREM DueTasksAreTaken ==
    Spec => [][\A t \in listed \ listed' :
                  TakeDue => \/ Starts(t)
                             \/ CallsBack(t) \/ Recording(t)
                             \/ \A e \in DOMAIN execs : ~Free(e)]_vars
<1>1. ASSUME IInv, NEW t \in listed \ listed', TakeDue,
             ~(CallsBack(t) \/ Recording(t)), ~\A e \in DOMAIN execs : ~Free(e)
      PROVE  Starts(t)
  <2>1. t \in Tasks /\ t \notin ids  BY <1>1 DEF IInv, TypeOK, IdsAwaited
  <2>2. \E e \in DOMAIN execs :
           NewExec(e, t, "scheduler") /\ futures' = [futures EXCEPT ![t] = e]
    BY <1>1, <2>1 DEF TakeDue
  <2>3. PICK e \in DOMAIN execs :
           NewExec(e, t, "scheduler") /\ futures' = [futures EXCEPT ![t] = e]
    BY <2>2
  <2>4. e \in 1 .. MaxExecs /\ Free(e)  BY <1>1, <2>3 DEF IInv, TypeOK, NewExec
  <2>5. execs'[e] = [task |-> t, by |-> "scheduler", stage |-> "created",
                     cancelled |-> FALSE]
    BY <2>3 DEF NewExec
  <2>6. futures'[t] = e  BY <1>1, <2>1, <2>3 DEF IInv, TypeOK
  <2> QED  BY <2>4, <2>5, <2>6 DEF Starts
<1>2. IInv /\ [Next]_vars =>
        [\A t \in listed \ listed' :
            TakeDue => \/ Starts(t)
                       \/ CallsBack(t) \/ Recording(t)
                       \/ \A e \in DOMAIN execs : ~Free(e)]_vars
  BY <1>1
<1> QED  BY <1>2, Invariant, PTL DEF Spec

\* A pause or a cancellation stops executions of its own task only, although it
\* took its future from the table before it marked the row, and the table may
\* be another execution's by the time it cancels; and no execution is ever
\* stopped but of a task whose work was interrupted (or had been cut short before)
\* (local_tasks.py, _interrupt_task).
THEOREM StopsHitTheirTask ==
    Spec => /\ [](\A e \in 1 .. MaxExecs :
                     Live(e) /\ execs[e].cancelled => execs[e].task \in disturbed)
            /\ [][\A r \in Threads, e \in 1 .. MaxExecs :
                     Cancel(r) /\ execs'[e].cancelled /\ ~execs[e].cancelled
                        => execs[e].task = requests[r].task]_vars
<1>1. IInv => \A e \in 1 .. MaxExecs :
                 Live(e) /\ execs[e].cancelled => execs[e].task \in disturbed
  BY DEF IInv, CancelledDisturbed
<1>2. ASSUME IInv, NEW r \in Threads, NEW e \in 1 .. MaxExecs, Cancel(r),
             execs'[e].cancelled, ~execs[e].cancelled
      PROVE  execs[e].task = requests[r].task
  <2>1. execs' # execs  BY <1>2
  <2>2. /\ requests[r].exec # 0
        /\ execs' = [execs EXCEPT ![requests[r].exec].cancelled = TRUE]
    BY <1>2, <2>1 DEF Cancel
  <2>3. e = requests[r].exec  BY <1>2, <2>2 DEF IInv, TypeOK, Exec
  <2> QED  BY <1>2, <2>2, <2>3 DEF IInv, RequestsMatch
<1>3. IInv /\ [Next]_vars =>
        [\A r \in Threads, e \in 1 .. MaxExecs :
            Cancel(r) /\ execs'[e].cancelled /\ ~execs[e].cancelled
               => execs[e].task = requests[r].task]_vars
  BY <1>2
<1> QED  BY <1>1, <1>3, Invariant, PTL DEF Spec
=============================================================================

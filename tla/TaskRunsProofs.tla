--------------------------- MODULE TaskRunsProofs ---------------------------
(* Proofs about TaskRuns, for any finite set of jobs and any set of runs.  *)
EXTENDS TaskRuns, FiniteSetTheorems, TLAPS

-----------------------------------------------------------------------------
(* refresh_task_run.                                                       *)

LEMMA TalliesAreNumbers ==
    ASSUME NEW r, NEW st, NEW S
    PROVE  /\ Cardinality(InStatus(r, st, S)) \in Nat
           /\ Cardinality(Present(r, st)) \in Nat
<1>1. IsFiniteSet(InStatus(r, st, S)) /\ IsFiniteSet(Present(r, st))
  BY TaskRunsAssumption, FS_Subset DEF InStatus, Present, JobsOf
<1>2. QED
  BY <1>1, FS_CardinalityType

\* What a refresh leaves in the status column.
LEMMA VerdictCases ==
    ASSUME NEW r, NEW st, NEW before
    PROVE  \/ Verdict(r, st, before) \in {"queued", "running"}
           \/ /\ Verdict(r, st, before) \in ClosedStatus
              /\ Ended(r, st)
           \/ Verdict(r, st, before) = before
<1> DEFINE some(S) == InStatus(r, st, S) # {}
<1>1. CASE Present(r, st) = {}
  BY <1>1 DEF Verdict, Ended, ClosedStatus, InStatus, Present, JobsOf
<1>2. CASE Present(r, st) # {} /\ some({"running"})
  BY <1>2 DEF Verdict, Ended, EndedStatus, FailedStatus, Queue!ResultStatus,
              InStatus, Present
<1>3. CASE Present(r, st) # {} /\ ~some({"running"}) /\ some(WaitingStatus)
  BY <1>3 DEF Verdict, Ended, EndedStatus, FailedStatus, Queue!ResultStatus,
              WaitingStatus, InStatus, Present
<1>4. CASE /\ Present(r, st) # {} /\ ~some({"running"})
           /\ ~some(WaitingStatus) /\ Ended(r, st)
  BY <1>4 DEF Verdict, ClosedStatus
<1>5. CASE /\ Present(r, st) # {} /\ ~some({"running"})
           /\ ~some(WaitingStatus) /\ ~Ended(r, st)
  BY <1>5 DEF Verdict, Undecided
<1>6. QED
  BY <1>1, <1>2, <1>3, <1>4, <1>5

LEMMA RefreshTyped ==
    ASSUME NEW r, NEW st, NEW row \in RunRow
    PROVE  Refreshed(r, st, row) \in RunRow
<1>1. Verdict(r, st, row.status) \in {"absent"} \cup OpenStatus \cup ClosedStatus
  BY VerdictCases DEF RunRow, OpenStatus, ClosedStatus
<1>2. Finished(Verdict(r, st, row.status), row) \in BOOLEAN
  BY DEF Finished, RunRow
<1>3. QED
  BY <1>1, <1>2, TalliesAreNumbers DEF Refreshed, RunRow

\* A refresh keeps the finish date in step with the status.
Dated(row) == row.status \in ClosedStatus <=> row.finished

LEMMA RefreshDated ==
    ASSUME NEW r, NEW st, NEW row \in RunRow, Dated(row)
    PROVE  Dated(Refreshed(r, st, row))
<1> DEFINE now == Verdict(r, st, row.status)
<1>1. now \in {"queued", "running"} \/ now \in ClosedStatus \/ now = row.status
  BY VerdictCases
<1>2. Finished(now, row) <=> now \in ClosedStatus
  BY <1>1 DEF Finished, Dated, ClosedStatus, RunRow
<1>3. QED
  BY <1>2 DEF Refreshed, Dated

-----------------------------------------------------------------------------
(* Every step refreshes some rows and leaves the others alone.             *)

\* A row is inserted and refreshed at once, refreshed, or left alone.
RowStep(r) ==
    \/ runs'[r] = runs[r]
    \/ runs[r].status = "absent" /\ runs'[r] = Refreshed(r, status', NewRun)
    \/ runs'[r] = Refreshed(r, status', runs[r])

LEMMA RowSteps ==
    ASSUME TypeOK, [Next]_vars
    PROVE  /\ \A r \in Runs : RowStep(r)
           /\ runs' = [r \in Runs |-> runs'[r]]
<1> USE DEF TypeOK, RowStep
<1>1. ASSUME NEW S \in SUBSET Runs, Refresh(S, status')
      PROVE  /\ \A r \in Runs : RowStep(r)
             /\ runs' = [r \in Runs |-> runs'[r]]
  BY <1>1 DEF Refresh
<1>2. ASSUME NEW q \in Runs, NEW S \in SUBSET Jobs, RunTemplate(q, S)
      PROVE  /\ \A r \in Runs : RowStep(r)
             /\ runs' = [r \in Runs |-> runs'[r]]
  BY <1>2 DEF RunTemplate
<1>3. ASSUME NEW q \in Runs, NEW S \in SUBSET Jobs, RetryRun(q, S)
      PROVE  Refresh({q}, status')
  BY <1>3 DEF RetryRun
<1>4. ASSUME NEW j \in Jobs, NEW result \in Queue!ResultStatus,
             Complete(j, result)
      PROVE  Refresh({RunOf[j]}, status') /\ RunOf[j] \in Runs
  BY <1>4, TaskRunsAssumption DEF Complete
<1>5. ASSUME NEW q \in Runs, ViewRun(q) PROVE Refresh({q}, status')
  BY <1>5 DEF ViewRun, Refresh
<1>6. ASSUME ListRuns PROVE Refresh(ActiveRuns(status), status')
  BY <1>6 DEF ListRuns, Refresh
<1>7. ASSUME Maintenance PROVE Refresh(ActiveRuns(status'), status')
  BY <1>7 DEF Maintenance
<1>8. ASSUME UNCHANGED runs
      PROVE  /\ \A r \in Runs : RowStep(r)
             /\ runs' = [r \in Runs |-> runs'[r]]
  BY <1>8
<1>9. ActiveRuns(status) \subseteq Runs /\ ActiveRuns(status') \subseteq Runs
  BY DEF ActiveRuns
<1> HIDE DEF TypeOK, RowStep
<1>10. QED
  BY <1>1, <1>2, <1>3, <1>4, <1>5, <1>6, <1>7, <1>8, <1>9
     DEF Next, AddChildren, QueueMove, vars
-----------------------------------------------------------------------------
(* The statuses of the jobs keep their type: that much of JobLifecycle.    *)

LEMMA StatusTyped ==
    ASSUME TypeOK, [Next]_vars
    PROVE  status' \in [Jobs -> Queue!JobStatus]
<1> USE DEF TypeOK, Queue!SetStatus, Queue!JobStatus
<1>1. ASSUME NEW S \in SUBSET Jobs,
             Queue!Submit(S) \/ Queue!Fail(S) \/ Queue!Cancel(S) \/ Queue!Retry(S)
      PROVE  status' \in [Jobs -> Queue!JobStatus]
  BY <1>1 DEF Queue!Submit, Queue!Fail, Queue!Cancel, Queue!Retry
<1>2. ASSUME NEW expired \in SUBSET Jobs, NEW picked \in SUBSET Jobs,
             Queue!HandOut(expired, picked)
      PROVE  status' \in [Jobs -> Queue!JobStatus]
  BY <1>2 DEF Queue!HandOut
<1>3. ASSUME NEW j \in Jobs, Queue!Begin(j) \/ Queue!Pause(j) \/ Queue!Resume(j)
      PROVE  status' \in [Jobs -> Queue!JobStatus]
  BY <1>3 DEF Queue!Begin, Queue!Pause, Queue!Resume
<1>4. ASSUME NEW j \in Jobs, NEW result \in Queue!ResultStatus,
             Queue!Finish(j, result)
      PROVE  status' \in [Jobs -> Queue!JobStatus]
  BY <1>4 DEF Queue!Finish, Queue!ResultStatus
<1>5. ASSUME NEW expired \in SUBSET Jobs, NEW overdue \in SUBSET Jobs,
             NEW retried \in SUBSET overdue,
             Queue!Recover(expired, overdue, retried)
      PROVE  status' \in [Jobs -> Queue!JobStatus]
  BY <1>5 DEF Queue!Recover
<1>6. CASE UNCHANGED status
  BY <1>6
<1> HIDE DEF TypeOK, Queue!SetStatus, Queue!JobStatus
<1>7. CASE QueueMove
  BY <1>7, <1>1, <1>2, <1>3 DEF QueueMove
<1>8. CASE Next /\ ~QueueMove
  BY <1>8, <1>1, <1>4, <1>5, <1>6
     DEF Next, RunTemplate, RetryRun, Complete, ViewRun, ListRuns,
         Maintenance, AddChildren
<1>9. QED
  BY <1>6, <1>7, <1>8 DEF vars

-----------------------------------------------------------------------------
(* Theorems.                                                               *)

\* Both tables keep values of their types.
THEOREM TaskRunsTyped == Spec => []TypeOK
<1>1. NewRun \in RunRow
  BY DEF NewRun, RunRow, OpenStatus
<1>2. Init => TypeOK
  <2>1. [NewRun EXCEPT !.status = "absent"] \in RunRow
    BY DEF NewRun, RunRow
  <2>2. Init => status \in [Jobs -> Queue!JobStatus]
    BY DEF Init, Queue!JobStatus
  <2>3. QED
    BY <2>1, <2>2 DEF Init, TypeOK
<1>3. TypeOK /\ [Next]_vars => TypeOK'
  <2> SUFFICES ASSUME TypeOK, [Next]_vars PROVE TypeOK'
    OBVIOUS
  <2>1. \A r \in Runs : runs'[r] \in RunRow
    BY <1>1, RowSteps, RefreshTyped DEF RowStep, TypeOK
  <2>2. QED
    BY <2>1, RowSteps, StatusTyped DEF TypeOK
<1>4. QED
  BY <1>2, <1>3, PTL DEF Spec

\* A run has a finish date exactly while it is shown as closed.
THEOREM ClosedRunsAreDated == Spec => []ClosedRunsDated
<1>1. NewRun \in RunRow /\ Dated(NewRun)
  BY DEF NewRun, RunRow, OpenStatus, Dated, ClosedStatus
<1>2. Init => ClosedRunsDated
  BY DEF Init, ClosedRunsDated, Closed, NewRun, ClosedStatus
<1>3. TypeOK /\ ClosedRunsDated /\ [Next]_vars => ClosedRunsDated'
  <2> SUFFICES ASSUME TypeOK, ClosedRunsDated, [Next]_vars, NEW r \in Runs
               PROVE  Dated(runs'[r])
    BY DEF ClosedRunsDated, Closed, Dated
  <2>1. runs[r] \in RunRow /\ Dated(runs[r])
    BY DEF TypeOK, ClosedRunsDated, Closed, Dated
  <2>2. RowStep(r)
    BY RowSteps
  <2>3. QED
    BY <1>1, <2>1, <2>2, RefreshDated DEF RowStep
<1>4. QED
  BY <1>2, <1>3, TaskRunsTyped, PTL DEF Spec

\* No step closes a run that still has a waiting, running or paused job.
THEOREM NoVerdictIsEarly == Spec => NoEarlyVerdict
<1>1. TypeOK /\ [Next]_vars =>
        [\A r \in Runs : ~Closed(r) /\ Closed(r)' => Ended(r, status')]_vars
  <2> SUFFICES ASSUME TypeOK, [Next]_vars, NEW r \in Runs, ~Closed(r), Closed(r)'
               PROVE  Ended(r, status')
    OBVIOUS
  <2>1. RowStep(r)
    BY RowSteps
  <2>2. PICK before :
          /\ before \notin ClosedStatus
          /\ runs'[r].status = Verdict(r, status', before)
    BY <2>1 DEF RowStep, Refreshed, Closed, NewRun, ClosedStatus
  <2>3. QED
    BY <2>2, VerdictCases DEF Closed, ClosedStatus
<1>2. QED
  BY <1>1, TaskRunsTyped, PTL DEF Spec, NoEarlyVerdict

-----------------------------------------------------------------------------
(***************************************************************************)
(* What a refresh decides, and what the passes that refresh every active   *)
(* run leave behind.                                                       *)
(***************************************************************************)
Unfinished(r, st) == InStatus(r, st, WaitingStatus \cup {"running"}) # {}

LEMMA VerdictDecides ==
    ASSUME NEW r, NEW st, NEW before
    PROVE  /\ Ended(r, st) => Verdict(r, st, before) \in ClosedStatus
           /\ Unfinished(r, st) => Verdict(r, st, before) \in {"queued", "running"}
           /\ Verdict(r, st, Verdict(r, st, before)) = Verdict(r, st, before)
<1> DEFINE some(S) == InStatus(r, st, S) # {}
<1> USE DEF Unfinished, ClosedStatus
<1>1. CASE Present(r, st) = {}
  BY <1>1 DEF Verdict, InStatus, Present, JobsOf, WaitingStatus
<1>2. CASE Present(r, st) # {} /\ some({"running"})
  BY <1>2 DEF Verdict, Ended, EndedStatus, FailedStatus, Queue!ResultStatus,
              InStatus, Present
<1>3. CASE Present(r, st) # {} /\ ~some({"running"}) /\ some(WaitingStatus)
  BY <1>3 DEF Verdict, Ended, EndedStatus, FailedStatus, Queue!ResultStatus,
              WaitingStatus, InStatus, Present
<1>4. CASE /\ Present(r, st) # {} /\ ~some({"running"})
           /\ ~some(WaitingStatus) /\ Ended(r, st)
  BY <1>4 DEF Verdict, InStatus
<1>5. CASE /\ Present(r, st) # {} /\ ~some({"running"})
           /\ ~some(WaitingStatus) /\ ~Ended(r, st)
  BY <1>5 DEF Verdict, Undecided, InStatus
<1>6. QED
  BY <1>1, <1>2, <1>3, <1>4, <1>5

\* A refresh that comes right after another changes nothing: two requests that
\* refresh the same run on the same jobs may both write it.
THEOREM RefreshIsIdempotent ==
    ASSUME NEW r, NEW st, NEW row \in RunRow
    PROVE  Refreshed(r, st, Refreshed(r, st, row)) = Refreshed(r, st, row)
<1> DEFINE now == Verdict(r, st, row.status)
           once == Refreshed(r, st, row)
<1>1. once.status = now /\ once.finished = Finished(now, row)
  BY DEF Refreshed
<1>2. Verdict(r, st, once.status) = now
  BY <1>1, VerdictDecides
<1>3. Finished(now, once) = Finished(now, row)
  BY <1>1 DEF Finished, RunRow, ClosedStatus
<1>4. QED
  BY <1>2, <1>3 DEF Refreshed

LEMMA ActiveOrClosed ==
    ASSUME TypeOK, NEW r \in Runs, NEW st, runs[r].status # "absent",
           r \notin ActiveRuns(st)
    PROVE  Closed(r) /\ ~Unfinished(r, st)
  BY DEF TypeOK, RunRow, ActiveRuns, Closed, Unfinished

\* The maintenance pass, and listing the runs, leave every run that is there
\* in step with its jobs: closed if they have all ended, and not closed if one
\* of them is waiting or running, whatever happened to them unrefreshed.  It
\* is the safety half of RunsClose and RunsReopen.
PassSettles ==
    [][Maintenance \/ ListRuns =>
         \A r \in Runs : runs[r].status # "absent" =>
            /\ Ended(r, status') => Closed(r)'
            /\ Unfinished(r, status') => ~Closed(r)']_vars

\* Whoever else is at work, such a pass leaves no run out of step.
THEOREM PassesSettleRuns == Spec => PassSettles
<1>1. TypeOK /\ [Next]_vars =>
        [Maintenance \/ ListRuns =>
           \A r \in Runs : runs[r].status # "absent" =>
              /\ Ended(r, status') => Closed(r)'
              /\ Unfinished(r, status') => ~Closed(r)']_vars
  <2> SUFFICES ASSUME TypeOK, Maintenance \/ ListRuns,
                      NEW r \in Runs, runs[r].status # "absent"
               PROVE  /\ Ended(r, status') => Closed(r)'
                      /\ Unfinished(r, status') => ~Closed(r)'
    OBVIOUS
  <2>1. Refresh(ActiveRuns(status'), status')
    BY DEF Maintenance, ListRuns, ActiveRuns, Refresh
  <2>2. CASE r \in ActiveRuns(status')
    <3>1. runs'[r].status = Verdict(r, status', runs[r].status)
      BY <2>1, <2>2 DEF Refresh, Refreshed
    <3>2. QED
      BY <3>1, VerdictDecides DEF Closed, ClosedStatus
  <2>3. CASE r \notin ActiveRuns(status')
    <3>1. runs'[r] = runs[r]
      BY <2>1, <2>3 DEF Refresh
    <3>2. QED
      BY <2>3, <3>1, ActiveOrClosed DEF Closed
  <2>4. QED
    BY <2>2, <2>3
<1>2. QED
  BY <1>1, TaskRunsTyped, PTL DEF Spec, PassSettles

-----------------------------------------------------------------------------
(* The tallies.                                                            *)

LEMMA DisjointSum ==
    ASSUME NEW A, NEW B, IsFiniteSet(A), IsFiniteSet(B), A \cap B = {}
    PROVE  /\ IsFiniteSet(A \cup B)
           /\ Cardinality(A \cup B) = Cardinality(A) + Cardinality(B)
           /\ Cardinality(A) \in Nat /\ Cardinality(B) \in Nat
<1>1. Cardinality(A) \in Nat /\ Cardinality(B) \in Nat
  BY FS_CardinalityType
<1>2. Cardinality(A \cap B) = 0
  BY FS_EmptySet
<1>3. /\ IsFiniteSet(A \cup B)
      /\ Cardinality(A \cup B)
           = Cardinality(A) + Cardinality(B) - Cardinality(A \cap B)
  BY FS_Union
<1>4. QED
  BY <1>1, <1>2, <1>3

AddsUp(row) == row.pending + row.running + row.success + row.failed =< row.total

\* No job is counted twice by a refresh.
LEMMA RefreshAddsUp ==
    ASSUME NEW r, NEW st, NEW row
    PROVE  AddsUp(Refreshed(r, st, row))
<1> DEFINE P == InStatus(r, st, WaitingStatus)
           R == InStatus(r, st, {"running"})
           S == InStatus(r, st, Queue!ResultStatus)
           F == InStatus(r, st, FailedStatus)
<1>1. /\ P \subseteq JobsOf(r) /\ R \subseteq JobsOf(r)
      /\ S \subseteq JobsOf(r) /\ F \subseteq JobsOf(r)
      /\ JobsOf(r) \subseteq Jobs /\ Present(r, st) \subseteq Jobs
  BY DEF InStatus, JobsOf, Present
<1>2. /\ IsFiniteSet(P) /\ IsFiniteSet(R) /\ IsFiniteSet(S) /\ IsFiniteSet(F)
      /\ IsFiniteSet(Present(r, st))
  BY <1>1, TaskRunsAssumption, FS_Subset
<1>3. /\ P \cap R = {} /\ (P \cup R) \cap S = {} /\ (P \cup R \cup S) \cap F = {}
      /\ P \cup R \cup S \cup F \subseteq Present(r, st)
  BY DEF InStatus, Present, WaitingStatus, FailedStatus, Queue!ResultStatus
<1> HIDE DEF P, R, S, F
<1>4. /\ IsFiniteSet(P \cup R)
      /\ Cardinality(P \cup R) = Cardinality(P) + Cardinality(R)
  BY <1>2, <1>3, DisjointSum
<1>5. /\ IsFiniteSet(P \cup R \cup S)
      /\ Cardinality(P \cup R \cup S) = Cardinality(P \cup R) + Cardinality(S)
  BY <1>2, <1>3, <1>4, DisjointSum
<1>6. Cardinality(P \cup R \cup S \cup F) = Cardinality(P \cup R \cup S) + Cardinality(F)
  BY <1>2, <1>3, <1>5, DisjointSum
<1>7. Cardinality(P \cup R \cup S \cup F) =< Cardinality(Present(r, st))
  BY <1>2, <1>3, FS_Subset
<1>8. Cardinality(P) + Cardinality(R) + Cardinality(S) + Cardinality(F)
        =< Cardinality(Present(r, st))
  BY <1>4, <1>5, <1>6, <1>7
<1>9. QED
  BY <1>8 DEF AddsUp, Refreshed, P, R, S, F

\* The counts of a run never exceed its total: no job is counted twice, however
\* old the counts are.
TalliesAddUp == \A r \in Runs : AddsUp(runs[r])

\* So it is in every state, whatever was refreshed and when.
THEOREM RunTalliesAddUp == Spec => []TalliesAddUp
<1>1. Init => TalliesAddUp
  BY DEF Init, TalliesAddUp, AddsUp, NewRun
<1>2. TypeOK /\ TalliesAddUp /\ [Next]_vars => TalliesAddUp'
  <2> SUFFICES ASSUME TypeOK, TalliesAddUp, [Next]_vars, NEW r \in Runs
               PROVE  AddsUp(runs'[r])
    BY DEF TalliesAddUp
  <2>1. RowStep(r)
    BY RowSteps
  <2>2. QED
    BY <2>1, RefreshAddsUp DEF RowStep, TalliesAddUp
<1>3. QED
  BY <1>1, <1>2, TaskRunsTyped, PTL DEF Spec

-----------------------------------------------------------------------------
(* The jobs of the runs.                                                   *)

\* Each operation on runs moves their jobs as one operation of the abstract
\* life of jobs does, or leaves them alone.
THEOREM RunsFollowLifecycle == Spec => Queue!Spec
<1>1. Init => Queue!Init
  BY DEF Init, Queue!Init
<1>2. [Next]_vars => [Queue!Next]_status
  <2> SUFFICES ASSUME [Next]_vars PROVE [Queue!Next]_status
    OBVIOUS
  <2>1. CASE \E r \in Runs, S \in SUBSET Jobs : RunTemplate(r, S) \/ RetryRun(r, S)
    BY <2>1 DEF RunTemplate, RetryRun, Queue!Next
  <2>2. CASE \E j \in Jobs, result \in Queue!ResultStatus : Complete(j, result)
    BY <2>2 DEF Complete, Queue!Next
  <2>3. CASE Maintenance
    BY <2>3 DEF Maintenance, Queue!Next
  <2>4. CASE \E j \in Jobs, S \in SUBSET Jobs : AddChildren(j, S)
    BY <2>4 DEF AddChildren, Queue!Next
  <2>5. CASE QueueMove
    <3>1. CASE \E j \in Jobs : Queue!Retry({j})
      BY <3>1 DEF Queue!Next
    <3>2. CASE QueueMove /\ ~\E j \in Jobs : Queue!Retry({j})
      BY <3>2 DEF QueueMove, Queue!Next
    <3>3. QED
      BY <2>5, <3>1, <3>2
  <2>6. CASE UNCHANGED status
    BY <2>6
  <2>7. QED
    BY <2>1, <2>2, <2>3, <2>4, <2>5, <2>6 DEF Next, ViewRun, ListRuns, vars
<1>3. QED
  BY <1>1, <1>2, PTL DEF Spec, Queue!Spec

\* A job that has succeeded or was cancelled is done with, and a row is never
\* taken away: no retry, recovery or late report of any run brings such a job
\* back, and a run never loses a job that it has counted.
JobsStayDone ==
    [][\A j \in Jobs :
         /\ status[j] \in {"success", "cancelled"} => status'[j] = status[j]
         /\ status[j] # "absent" => status'[j] # "absent"]_status

LEMMA LifecycleStep ==
    ASSUME Queue!Next, NEW j \in Jobs
    PROVE  /\ status[j] \in {"success", "cancelled"} => status'[j] = status[j]
           /\ status[j] # "absent" => status'[j] # "absent"
<1> USE DEF Queue!SetStatus, Queue!CanMove, Queue!AllowedTransitions
<1>1. CASE \E S \in SUBSET Jobs :
             Queue!Submit(S) \/ Queue!Fail(S) \/ Queue!Cancel(S) \/ Queue!Retry(S)
  BY <1>1 DEF Queue!Submit, Queue!Fail, Queue!Cancel, Queue!Retry
<1>2. CASE \E expired, picked \in SUBSET Jobs : Queue!HandOut(expired, picked)
  BY <1>2 DEF Queue!HandOut
<1>3. CASE \E i \in Jobs : Queue!Begin(i) \/ Queue!Pause(i) \/ Queue!Resume(i)
  BY <1>3 DEF Queue!Begin, Queue!Pause, Queue!Resume
<1>4. CASE \E i \in Jobs, result \in Queue!ResultStatus : Queue!Finish(i, result)
  BY <1>4 DEF Queue!Finish, Queue!ResultStatus
<1>5. CASE \E expired, overdue \in SUBSET Jobs :
             \E retried \in SUBSET overdue : Queue!Recover(expired, overdue, retried)
  BY <1>5 DEF Queue!Recover
<1>6. QED
  BY <1>1, <1>2, <1>3, <1>4, <1>5 DEF Queue!Next

\* The abstract life of jobs alone says so, hence whatever implements it.
THEOREM LifecycleKeepsEnds == Queue!Spec => JobsStayDone
<1>1. [Queue!Next]_status =>
        [\A j \in Jobs :
           /\ status[j] \in {"success", "cancelled"} => status'[j] = status[j]
           /\ status[j] # "absent" => status'[j] # "absent"]_status
  BY LifecycleStep
<1>2. QED
  BY <1>1, PTL DEF Queue!Spec, JobsStayDone
=============================================================================

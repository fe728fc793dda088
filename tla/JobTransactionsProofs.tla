------------------------ MODULE JobTransactionsProofs ------------------------
(***************************************************************************)
(* Proofs about JobTransactions.  ActiveRowsRecoverable is not inductive:  *)
(* what saves it is a property of the writes a session carries while       *)
(* others commit.  SoundWrite says it: a write that makes a row claimed or *)
(* running also writes its date, and one that clears a date also takes the *)
(* row out of that status.                                                 *)
(***************************************************************************)
EXTENDS JobTransactions, FiniteSetTheorems, TLAPS

\* A row that recovery can find.
Recoverable(row) ==
    /\ row.status = "claimed" => row.expiry # "none"
    /\ row.status = "running" => row.started # "none"

SoundWrite(C, copy) ==
    /\ "status" \in C /\ copy.status = "claimed"
         => "expiry" \in C /\ copy.expiry # "none"
    /\ "status" \in C /\ copy.status = "running"
         => "started" \in C /\ copy.started # "none"
    /\ "expiry" \in C /\ copy.expiry = "none"
         => "status" \in C /\ copy.status # "claimed"
    /\ "started" \in C /\ copy.started = "none"
         => "status" \in C /\ copy.status # "running"

\* The inductive invariant.
WritesSound ==
    \A s \in Sessions, j \in Jobs :
        SoundWrite(work[s].dirty[j], work[s].copies[j])

\* Only agents are handed jobs.
GrantsToAgents == \A s \in Sessions : work[s].granted # {} => work[s].caller \in Agents

RecoveryInv == TypeOK /\ ActiveRowsRecoverable /\ WritesSound /\ GrantsToAgents

-----------------------------------------------------------------------------
(* Lemmas.                                                                 *)

\* A sound write leaves a recoverable row recoverable, whatever other
\* handlers have made of the row since it was read.
LEMMA WrittenRecoverable ==
  ASSUME NEW row \in Row, Recoverable(row), NEW copy \in Copy,
         NEW C \in SUBSET Columns, SoundWrite(C, copy)
  PROVE  Written(row, C, copy) \in Row /\ Recoverable(Written(row, C, copy))
<1>1. Written(row, C, copy) \in Row
  BY DEF Written, Row, Copy, RowOver, Stored, Date
<1>2. Recoverable(Written(row, C, copy))
  BY DEF Written, Recoverable, SoundWrite, Stored
<1>3. QED
  BY <1>1, <1>2

\* What a handler may make of a row it has read: flushed, then copy.
SoundChange(row, flushed, copy) ==
    /\ copy \in Copy
    /\ SoundWrite(Differ(row, flushed) \cup Differ(flushed, copy), copy)

\* The changes the handlers make are sound.
LEMMA NoChangeSound == \A row \in Row : SoundChange(row, row, row)
BY DEF Row, Copy, RowOver, SoundChange, SoundWrite, Differ, Date

LEMMA StatusSound ==
  ASSUME NEW row \in Row, NEW value \in JobStatus \ ActiveStatus
  PROVE  SoundChange(row, row, [row EXCEPT !.status = value])
BY DEF Row, Copy, RowOver, Date, SoundChange, SoundWrite, Differ, ActiveStatus

LEMMA RequeuedSound ==
  ASSUME NEW row \in Row, row.status # "pending"
  PROVE  /\ SoundChange(row, row, Requeued(row))
         /\ SoundChange(row, Requeued(row), Requeued(row))
         /\ Requeued(row) \in Row
BY DEF Row, Copy, RowOver, Date, SoundChange, SoundWrite, Differ, Requeued,
       Columns, JobStatus, MaybeAgent

LEMMA ClaimedSound ==
  ASSUME NEW row \in Row, NEW a \in Agents
  PROVE  /\ row.status = "pending" => SoundChange(row, row, Claimed(row, a))
         /\ Expired(row) =>
              SoundChange(row, Requeued(row), Claimed(Requeued(row), a))
<1>1. Claimed(row, a) \in Copy /\ Claimed(Requeued(row), a) \in Copy
  BY DEF Row, Copy, RowOver, Date, Claimed, Requeued, JobStatus, MaybeAgent
<1>2. row.expiry # "now"
  BY DEF Row, RowOver, Date
<1>3. ASSUME row.status = "pending"
      PROVE  SoundChange(row, row, Claimed(row, a))
  BY <1>1, <1>2, <1>3
     DEF Row, RowOver, SoundChange, SoundWrite, Differ, Claimed, Columns
<1>4. ASSUME Expired(row)
      PROVE  SoundChange(row, Requeued(row), Claimed(Requeued(row), a))
  BY <1>1, <1>2, <1>4
     DEF Row, RowOver, SoundChange, SoundWrite, Differ, Claimed, Requeued,
         Columns, Expired
<1>5. QED
  BY <1>3, <1>4

LEMMA StartedSound ==
  ASSUME NEW row \in Row, row.status # "running", NEW a \in MaybeAgent
  PROVE  SoundChange(row, row, Started(row, a))
BY DEF Row, Copy, RowOver, Date, SoundChange, SoundWrite, Differ, Started,
       Columns, JobStatus, MaybeAgent

LEMMA FailedSound ==
  ASSUME NEW row \in Row
  PROVE  SoundChange(row, row, Failed(row)) /\ Failed(row) \in Row
<1>1. Failed(row) \in Row
  <2>1. row.retries \in Nat
    BY DEF Row, RowOver
  <2>2. row.retries + 1 \in Nat
    BY <2>1
  <2>3. QED
    BY <2>2 DEF Failed, Row, RowOver, JobStatus
<1>2. /\ Failed(row).status = "failed" /\ Failed(row).expiry = row.expiry
      /\ Failed(row).started = row.started
  BY DEF Failed, Row, RowOver
<1>3. Failed(row) \in Copy
  BY <1>1 DEF Row, Copy, RowOver
<1>4. QED
  BY <1>1, <1>2, <1>3 DEF SoundChange, SoundWrite, Differ

LEMMA RetriedRow ==
  ASSUME NEW row \in Row
  PROVE  /\ Retried(row) \in Copy
         /\ Retried(row).status = "pending"
         /\ Retried(row).expiry = "none" /\ Retried(row).started = "none"
<1>1. Requeued(row) \in Row /\ Requeued(row).status = "pending"
        /\ Requeued(row).expiry = "none"
  BY DEF Requeued, Row, RowOver, Date, JobStatus, MaybeAgent
<1>2. QED
  BY <1>1 DEF Retried, Row, Copy, RowOver, Date

LEMMA RetriedSound ==
  ASSUME NEW row \in Row, row.status = "failed"
  PROVE  SoundChange(row, row, Retried(row))
BY RetriedRow DEF SoundChange, SoundWrite, Differ, Columns

LEMMA RecoveredSound ==
  ASSUME NEW row \in Row, row.status = "running"
  PROVE  SoundChange(row, row, Recovered(row))
<1>1. Failed(row) \in Row
  BY FailedSound
<1>2. CASE HasRetryBudget(Failed(row))
  <2>1. Recovered(row) = Retried(Failed(row))
    BY <1>2 DEF Recovered
  <2>2. QED
    BY <1>1, <2>1, RetriedRow DEF SoundChange, SoundWrite, Differ, Columns
<1>3. CASE ~HasRetryBudget(Failed(row))
  BY <1>3, FailedSound DEF Recovered
<1>4. QED
  BY <1>2, <1>3

-----------------------------------------------------------------------------
(* Steps.                                                                  *)

\* Reading sound changes, whatever the handler.
LEMMA ReadKeeps ==
  ASSUME RecoveryInv, NEW s \in Sessions, NEW caller \in MaybeAgent,
         NEW granted \in SUBSET Jobs, granted # {} => caller \in Agents,
         NEW flushed, NEW final \in [Jobs -> Copy],
         Read(s, caller, granted, flushed, final),
         \A j \in Jobs : SoundChange(rows[j], flushed[j], final[j])
  PROVE  RecoveryInv'
<1> DEFINE changed == [j \in Jobs |-> Differ(rows[j], flushed[j])
                                        \cup Differ(flushed[j], final[j])]
           w == [caller |-> caller, granted |-> granted, copies |-> final,
                 dirty |-> changed]
<1>1. changed \in [Jobs -> SUBSET Columns]
  BY DEF Differ
<1>2. w \in Work
  BY <1>1 DEF Work
<1>3. work' = [work EXCEPT ![s] = w]
  BY DEF Read
<1>4. \A j \in Jobs : SoundWrite(w.dirty[j], w.copies[j])
  BY DEF SoundChange
<1> HIDE DEF w, changed
<1>5. work' \in [Sessions -> Work]
  BY <1>2, <1>3 DEF RecoveryInv, TypeOK
<1>6. \A t \in Sessions : work'[t] = IF t = s THEN w ELSE work[t]
  BY <1>3 DEF RecoveryInv, TypeOK
<1>7. TypeOK'
  BY <1>5 DEF RecoveryInv, TypeOK, Read
<1>8. ActiveRowsRecoverable'
  BY DEF RecoveryInv, ActiveRowsRecoverable, Read
<1>9. WritesSound'
  BY <1>4, <1>6 DEF RecoveryInv, WritesSound
<1>10. GrantsToAgents'
  <2>1. w.granted # {} => w.caller \in Agents
    BY DEF w
  <2>2. QED
    BY <1>6, <2>1 DEF RecoveryInv, GrantsToAgents
<1>11. QED
  BY <1>7, <1>8, <1>9, <1>10 DEF RecoveryInv

\* A handler that changes one row, or the rows of a set, by sound changes.
LEMMA ReadRowKeeps ==
  ASSUME RecoveryInv, NEW s \in Sessions, NEW caller \in MaybeAgent,
         NEW j \in Jobs, NEW copy, SoundChange(rows[j], rows[j], copy),
         ReadRow(s, caller, j, copy)
  PROVE  RecoveryInv'
<1>1. \A k \in Jobs : rows[k] \in Row
  BY DEF RecoveryInv, TypeOK
<1>2. \A k \in Jobs :
        SoundChange(rows[k], rows[k], [rows EXCEPT ![j] = copy][k])
  BY <1>1, NoChangeSound DEF RecoveryInv, TypeOK
<1>3. [rows EXCEPT ![j] = copy] \in [Jobs -> Copy]
  <2>1. \A k \in Jobs : [rows EXCEPT ![j] = copy][k] \in Copy
    BY <1>2 DEF SoundChange
  <2>2. QED
    BY <2>1 DEF RecoveryInv, TypeOK
<1>4. QED
  BY <1>2, <1>3, ReadKeeps DEF ReadRow

LEMMA ReadRowsKeeps ==
  ASSUME RecoveryInv, NEW s \in Sessions, NEW S \in SUBSET Jobs, NEW copies,
         \A j \in S : SoundChange(rows[j], rows[j], copies[j]),
         ReadRows(s, S, copies)
  PROVE  RecoveryInv'
<1> DEFINE final == [j \in Jobs |-> IF j \in S THEN copies[j] ELSE rows[j]]
<1>1. \A k \in Jobs : rows[k] \in Row
  BY DEF RecoveryInv, TypeOK
<1>2. \A k \in Jobs : SoundChange(rows[k], rows[k], final[k])
  BY <1>1, NoChangeSound
<1>3. final \in [Jobs -> Copy]
  BY <1>2 DEF SoundChange
<1>4. NoAgent \in MaybeAgent
  BY DEF MaybeAgent
<1>5. Read(s, NoAgent, {}, rows, final)
  BY DEF ReadRows
<1> HIDE DEF final
<1>6. QED
  BY <1>2, <1>3, <1>4, <1>5, ReadKeeps

LEMMA ClaimKeeps ==
  ASSUME RecoveryInv, NEW s \in Sessions, NEW a \in Agents, Claim(s, a)
  PROVE  RecoveryInv'
<1> DEFINE requeued == [j \in Jobs |-> IF Expired(rows[j])
                                       THEN Requeued(rows[j]) ELSE rows[j]]
           final(P) == [j \in Jobs |-> IF j \in P THEN Claimed(requeued[j], a)
                                       ELSE requeued[j]]
<1>1. PICK picked \in SUBSET {j \in Jobs : requeued[j].status = "pending"} :
        Read(s, a, picked, requeued, final(picked))
  BY DEF Claim
<1>2. \A j \in Jobs : rows[j] \in Row
  BY DEF RecoveryInv, TypeOK
<1>3. \A j \in Jobs : SoundChange(rows[j], requeued[j], final(picked)[j])
  <2> SUFFICES ASSUME NEW j \in Jobs
               PROVE  SoundChange(rows[j], requeued[j], final(picked)[j])
    OBVIOUS
  <2>1. CASE j \in picked
    BY <1>2, <2>1, ClaimedSound
  <2>2. CASE j \notin picked /\ Expired(rows[j])
    BY <1>2, <2>2, RequeuedSound DEF Expired
  <2>3. CASE j \notin picked /\ ~Expired(rows[j])
    BY <1>2, <2>3, NoChangeSound
  <2>4. QED
    BY <2>1, <2>2, <2>3
<1>4. final(picked) \in [Jobs -> Copy]
  BY <1>3 DEF SoundChange
<1>5. a \in MaybeAgent
  BY DEF MaybeAgent
<1> HIDE DEF final, requeued
<1>6. picked \in SUBSET Jobs
  OBVIOUS
<1>7. QED
  BY <1>1, <1>3, <1>4, <1>5, <1>6, ReadKeeps

LEMMA MaintenanceKeeps ==
  ASSUME RecoveryInv, NEW s \in Sessions, Maintenance(s)
  PROVE  RecoveryInv'
<1> DEFINE requeued == [j \in Jobs |-> IF Expired(rows[j])
                                       THEN Requeued(rows[j]) ELSE rows[j]]
           final == [j \in Jobs |-> IF StaleRunning(rows[j])
                                    THEN Recovered(rows[j]) ELSE requeued[j]]
<1>1. Read(s, NoAgent, {}, requeued, final)
  BY DEF Maintenance
<1>2. \A j \in Jobs : rows[j] \in Row
  BY DEF RecoveryInv, TypeOK
<1>3. \A j \in Jobs : SoundChange(rows[j], requeued[j], final[j])
  <2> SUFFICES ASSUME NEW j \in Jobs
               PROVE  SoundChange(rows[j], requeued[j], final[j])
    OBVIOUS
  <2>1. CASE StaleRunning(rows[j])
    BY <1>2, <2>1, RecoveredSound DEF StaleRunning, Expired
  <2>2. CASE ~StaleRunning(rows[j]) /\ Expired(rows[j])
    BY <1>2, <2>2, RequeuedSound DEF Expired
  <2>3. CASE ~StaleRunning(rows[j]) /\ ~Expired(rows[j])
    BY <1>2, <2>3, NoChangeSound
  <2>4. QED
    BY <2>1, <2>2, <2>3
<1>4. final \in [Jobs -> Copy]
  BY <1>3 DEF SoundChange
<1>5. NoAgent \in MaybeAgent
  BY DEF MaybeAgent
<1> HIDE DEF final, requeued
<1>6. QED
  BY <1>1, <1>3, <1>4, <1>5, ReadKeeps

\* A session without work has nothing unsound to write.
LEMMA NoWorkSound ==
  /\ NoWork \in Work
  /\ \A j \in Jobs : SoundWrite(NoWork.dirty[j], NoWork.copies[j])
  /\ NoWork.granted = {}
<1>1. NewRow \in Copy
  BY DEF NewRow, Copy, RowOver, Date, JobStatus, MaybeAgent
<1>2. QED
  BY <1>1 DEF NoWork, Work, SoundWrite, MaybeAgent

LEMMA IdleKeeps ==
  ASSUME RecoveryInv, NEW s \in Sessions, work' = [work EXCEPT ![s] = NoWork]
  PROVE  work' \in [Sessions -> Work] /\ WritesSound' /\ GrantsToAgents'
<1> USE NoWorkSound DEF RecoveryInv, TypeOK
<1>1. \A t \in Sessions : work'[t] = IF t = s THEN NoWork ELSE work[t]
  OBVIOUS
<1>2. work' \in [Sessions -> Work]
  OBVIOUS
<1>3. WritesSound'
  BY <1>1 DEF WritesSound
<1>4. GrantsToAgents'
  BY <1>1 DEF GrantsToAgents
<1>5. QED
  BY <1>2, <1>3, <1>4

LEMMA CommitKeeps ==
  ASSUME RecoveryInv, NEW s \in Sessions, Commit(s)
  PROVE  RecoveryInv'
<1> DEFINE w == work[s]
<1>1. w \in Work
  BY DEF RecoveryInv, TypeOK
<1>2. /\ w.caller \in MaybeAgent /\ w.granted \subseteq Jobs
      /\ \A j \in Jobs : w.copies[j] \in Copy /\ w.dirty[j] \in SUBSET Columns
  BY <1>1 DEF Work
<1>3. \A j \in Jobs : SoundWrite(w.dirty[j], w.copies[j])
  BY DEF RecoveryInv, WritesSound
<1>4. w.granted # {} => w.caller \in Agents
  BY DEF RecoveryInv, GrantsToAgents
<1>5. /\ rows' = [j \in Jobs |-> Written(rows[j], w.dirty[j], w.copies[j])]
      /\ held' = held \cup ({w.caller} \X w.granted)
  BY DEF Commit
<1>6. work' = [work EXCEPT ![s] = NoWork] /\ open' \subseteq Sessions
  BY DEF Commit, RecoveryInv, TypeOK
<1>7. executing' \in [Jobs -> SUBSET MaybeAgent]
  BY <1>2 DEF Commit, RecoveryInv, TypeOK
<1> HIDE DEF w
<1>8. \A j \in Jobs : rows'[j] \in Row /\ Recoverable(rows'[j])
  <2> SUFFICES ASSUME NEW j \in Jobs
               PROVE  rows'[j] \in Row /\ Recoverable(rows'[j])
    OBVIOUS
  <2>1. rows[j] \in Row /\ Recoverable(rows[j])
    BY DEF RecoveryInv, TypeOK, ActiveRowsRecoverable, Recoverable
  <2>2. rows'[j] = Written(rows[j], w.dirty[j], w.copies[j])
    BY <1>5
  <2>3. QED
    BY <1>2, <1>3, <2>1, <2>2, WrittenRecoverable
<1>9. rows' \in [Jobs -> Row] /\ held' \subseteq Agents \X Jobs
  BY <1>2, <1>4, <1>5, <1>8 DEF RecoveryInv, TypeOK
<1>10. QED
  BY <1>6, <1>7, <1>8, <1>9, IdleKeeps
     DEF RecoveryInv, TypeOK, ActiveRowsRecoverable, Recoverable

\* The clock only moves a date that is there.
LEMMA ClockKeeps ==
  ASSUME RecoveryInv, NEW j \in Jobs, ClaimLapses(j) \/ RunGoesStale(j)
  PROVE  RecoveryInv'
<1>1. \A k \in Jobs : rows[k] \in Row /\ Recoverable(rows[k])
  BY DEF RecoveryInv, TypeOK, ActiveRowsRecoverable, Recoverable
<1>2. \A k \in Jobs : rows'[k] \in Row /\ Recoverable(rows'[k])
  BY <1>1 DEF ClaimLapses, RunGoesStale, Row, RowOver, Date, Recoverable,
              RecoveryInv, TypeOK
<1>3. rows' \in [Jobs -> Row]
  BY <1>2 DEF ClaimLapses, RunGoesStale, RecoveryInv, TypeOK
<1>4. QED
  BY <1>2, <1>3 DEF ClaimLapses, RunGoesStale, RecoveryInv, TypeOK,
                    ActiveRowsRecoverable, Recoverable, WritesSound,
                    GrantsToAgents

LEMMA CreateKeeps ==
  ASSUME RecoveryInv, NEW j \in Jobs, CreateJob(j)
  PROVE  RecoveryInv'
<1>1. \A k \in Jobs : rows[k] \in Row /\ Recoverable(rows[k])
  BY DEF RecoveryInv, TypeOK, ActiveRowsRecoverable, Recoverable
<1>2. \A k \in Jobs : rows'[k] \in Row /\ Recoverable(rows'[k])
  BY <1>1 DEF CreateJob, Row, RowOver, JobStatus, Recoverable, RecoveryInv,
              TypeOK
<1>3. rows' \in [Jobs -> Row]
  BY <1>2 DEF CreateJob, RecoveryInv, TypeOK
<1>4. QED
  BY <1>2, <1>3 DEF CreateJob, RecoveryInv, TypeOK, ActiveRowsRecoverable,
                    Recoverable, WritesSound, GrantsToAgents

LEMMA HandlerKeeps ==
  ASSUME RecoveryInv, NEW s \in Sessions, Handler(s)
  PROVE  RecoveryInv'
<1>1. \A j \in Jobs : rows[j] \in Row
  BY DEF RecoveryInv, TypeOK
<1>2. \A a \in Agents : a \in MaybeAgent
  BY DEF MaybeAgent
<1>3. NoAgent \in MaybeAgent
  BY DEF MaybeAgent
<1>4. ASSUME NEW a \in Agents, NEW j \in Jobs, AgentCall(s, a, j)
      PROVE  RecoveryInv'
  <2>1. CASE Start(s, a, j)
    <3>1. rows[j].status # "running"
      BY <2>1 DEF Start, CanMove, AllowedTransitions
    <3>2. SoundChange(rows[j], rows[j], Started(rows[j], a))
      BY <1>1, <1>2, <3>1, StartedSound
    <3>3. QED
      BY <1>2, <2>1, <3>2, ReadRowKeeps DEF Start
  <2>2. ASSUME NEW result \in ResultStatus, Complete(s, a, j, result)
        PROVE  RecoveryInv'
    <3>1. result \in JobStatus \ ActiveStatus
      BY DEF ResultStatus, JobStatus, ActiveStatus
    <3>2. QED
      BY <1>1, <1>2, <2>2, <3>1, StatusSound, ReadRowKeeps DEF Complete
  <2>3. CASE Fail(s, a, j)
    BY <1>1, <1>2, <2>3, FailedSound, ReadRowKeeps DEF Fail
  <2>4. QED
    BY <1>4, <2>1, <2>2, <2>3 DEF AgentCall
<1>5. ASSUME NEW j \in Jobs, Pause(s, j)
      PROVE  RecoveryInv'
  <2>1. "paused" \in JobStatus \ ActiveStatus
    BY DEF JobStatus, ActiveStatus
  <2>2. QED
    BY <1>1, <1>3, <1>5, <2>1, StatusSound, ReadRowKeeps DEF Pause
<1>6. ASSUME NEW j \in Jobs, Resume(s, j)
      PROVE  RecoveryInv'
  <2>1. rows[j].status # "pending"
    BY <1>6 DEF Resume, CanMove, AllowedTransitions
  <2>2. SoundChange(rows[j], rows[j], Requeued(rows[j]))
    BY <1>1, <2>1, RequeuedSound
  <2>3. QED
    BY <1>3, <1>6, <2>2, ReadRowKeeps DEF Resume
<1>7. ASSUME NEW S \in SUBSET Jobs, CancelPendingJobs(s, S)
      PROVE  RecoveryInv'
  <2> DEFINE copies == [j \in S |-> [rows[j] EXCEPT !.status = "cancelled"]]
  <2>1. "cancelled" \in JobStatus \ ActiveStatus
    BY DEF JobStatus, ActiveStatus
  <2>2. \A j \in S : SoundChange(rows[j], rows[j], copies[j])
    BY <1>1, <2>1, StatusSound
  <2>3. ReadRows(s, S, copies)
    BY <1>7 DEF CancelPendingJobs
  <2> HIDE DEF copies
  <2>4. QED
    BY <2>2, <2>3, ReadRowsKeeps
<1>8. ASSUME NEW S \in SUBSET Jobs, RetryFailedJobs(s, S)
      PROVE  RecoveryInv'
  <2> DEFINE copies == [j \in S |-> Retried(rows[j])]
  <2>1. \A j \in S : SoundChange(rows[j], rows[j], copies[j])
    BY <1>1, <1>8, RetriedSound DEF RetryFailedJobs
  <2>2. ReadRows(s, S, copies)
    BY <1>8 DEF RetryFailedJobs
  <2> HIDE DEF copies
  <2>3. QED
    BY <2>1, <2>2, ReadRowsKeeps
<1>9. ASSUME NEW S \in SUBSET Jobs, FailJobs(s, S)
      PROVE  RecoveryInv'
  <2> DEFINE copies == [j \in S |-> Failed(rows[j])]
  <2>1. \A j \in S : SoundChange(rows[j], rows[j], copies[j])
    BY <1>1, FailedSound
  <2>2. ReadRows(s, S, copies)
    BY <1>9 DEF FailJobs
  <2> HIDE DEF copies
  <2>3. QED
    BY <2>1, <2>2, ReadRowsKeeps
<1>10. QED
  BY <1>4, <1>5, <1>6, <1>7, <1>8, <1>9, ClaimKeeps, MaintenanceKeeps
     DEF Handler

LEMMA AbortKeeps ==
  ASSUME RecoveryInv, NEW s \in Sessions, Abort(s)
  PROVE  RecoveryInv'
<1>1. work' \in [Sessions -> Work] /\ WritesSound' /\ GrantsToAgents'
  BY IdleKeeps DEF Abort
<1>2. QED
  BY <1>1 DEF Abort, RecoveryInv, TypeOK, ActiveRowsRecoverable

\* RecoveryInv is an invariant of every behaviour.
LEMMA RecoveryInvariant == Spec => []RecoveryInv
<1>1. Init => RecoveryInv
  <2>1. NewRow \in Row
    BY DEF NewRow, Row, RowOver, Date, JobStatus, MaybeAgent
  <2>2. SUFFICES ASSUME Init PROVE RecoveryInv
    OBVIOUS
  <2>3. TypeOK
    BY <2>1, <2>2, NoWorkSound DEF Init, TypeOK
  <2>4. ActiveRowsRecoverable
    BY <2>2 DEF Init, ActiveRowsRecoverable, NewRow
  <2>5. WritesSound /\ GrantsToAgents
    BY <2>2, NoWorkSound DEF Init, WritesSound, GrantsToAgents
  <2>6. QED
    BY <2>3, <2>4, <2>5 DEF RecoveryInv
<1>2. RecoveryInv /\ [Next]_vars => RecoveryInv'
  <2> SUFFICES ASSUME RecoveryInv, [Next]_vars PROVE RecoveryInv'
    OBVIOUS
  <2>1. CASE UNCHANGED vars
    BY <2>1 DEF vars, RecoveryInv, TypeOK, ActiveRowsRecoverable, WritesSound,
                GrantsToAgents
  <2>2. CASE Next
    BY <2>2, CreateKeeps, ClockKeeps, HandlerKeeps, CommitKeeps, AbortKeeps
       DEF Next
  <2>3. QED
    BY <2>1, <2>2
<1>3. QED
  BY <1>1, <1>2, PTL DEF Spec

-----------------------------------------------------------------------------
(* Theorems.                                                               *)

\* The table and the sessions keep values of their types.
THEOREM JobTransactionsTyped == Spec => []TypeOK
<1>1. RecoveryInv => TypeOK
  BY DEF RecoveryInv
<1>2. QED
  BY <1>1, RecoveryInvariant, PTL

\* However handlers overwrite one another's columns, and wherever they stop,
\* every claimed or running row keeps the date by which recovery finds it.
THEOREM ActiveRowsAreRecoverable == Spec => []ActiveRowsRecoverable
<1>1. RecoveryInv => ActiveRowsRecoverable
  BY DEF RecoveryInv
<1>2. QED
  BY <1>1, RecoveryInvariant, PTL

-----------------------------------------------------------------------------
(***************************************************************************)
(* One session at a time.  NoDoubleExecution does not hold of Spec; here   *)
(* is what it takes for it to hold.  While no two sessions are open        *)
(* together, the change that a session carries is still one that the rows  *)
(* allow when it is committed, since only new rows and the clock come in   *)
(* between: Fits says which changes those are.  So the handlers implement  *)
(* the life cycle of jobs, as the atomic ones of JobQueue do.              *)
(***************************************************************************)
OneAtATime == \A s, t \in open : s = t

Lifecycle == INSTANCE JobLifecycle WITH status <- [j \in Jobs |-> rows[j].status]

\* What a write does to the status of the rows of S: it sets it, or leaves it.
Sets(dirty, copies, S, value) ==
    \A j \in S : "status" \in dirty[j] /\ copies[j].status = value

Leaves(dirty, S) == \A j \in S : "status" \notin dirty[j]

FitsMove(table, dirty, copies, S, value) ==
    /\ Sets(dirty, copies, S, value)
    /\ Leaves(dirty, Jobs \ S)
    /\ \/ /\ value \in {"running", "paused", "pending"} \cup ResultStatus
          /\ \E j \in Jobs : S = {j} /\ CanMove(table[j], value)
       \/ value = "failed" /\ \A j \in S : CanMove(table[j], value)
       \/ value = "cancelled" /\ \A j \in S : table[j].status = "pending"
       \/ value = "pending" /\ \A j \in S : table[j].status = "failed"

FitsClaim(table, dirty, copies, expired, picked) ==
    /\ Sets(dirty, copies, picked, "claimed")
    /\ Sets(dirty, copies, expired \ picked, "pending")
    /\ Leaves(dirty, Jobs \ (expired \cup picked))
    /\ \A j \in expired : table[j].status = "claimed"
    /\ \A j \in picked \ expired : table[j].status = "pending"

FitsRecovery(table, dirty, copies, expired, overdue, retried) ==
    /\ Sets(dirty, copies, expired \cup retried, "pending")
    /\ Sets(dirty, copies, overdue \ retried, "failed")
    /\ Leaves(dirty, Jobs \ (expired \cup overdue))
    /\ \A j \in expired : table[j].status = "claimed"
    /\ \A j \in overdue : table[j].status = "running"

Fits(table, dirty, copies) ==
    \/ \E S \in SUBSET Jobs, value \in JobStatus :
         FitsMove(table, dirty, copies, S, value)
    \/ \E expired, picked \in SUBSET Jobs :
         FitsClaim(table, dirty, copies, expired, picked)
    \/ \E expired, overdue \in SUBSET Jobs : \E retried \in SUBSET overdue :
         FitsRecovery(table, dirty, copies, expired, overdue, retried)

\* Somebody executes a job only while it runs, and nobody else does.
OneExecutor ==
    \A j \in Jobs : /\ executing[j] # {} => rows[j].status = "running"
                    /\ \A p, q \in executing[j] : p = q

\* Its inductive invariant.
SerialInv ==
    /\ OneExecutor
    /\ \A s \in open : Fits(rows, work[s].dirty, work[s].copies)

-----------------------------------------------------------------------------
(* What the handlers read fits the rows they read.                         *)

Changed(flushed, final) ==
    [j \in Jobs |-> Differ(rows[j], flushed[j]) \cup Differ(flushed[j], final[j])]

\* Another session cannot be open when one reads.
LEMMA ReadFits ==
  ASSUME RecoveryInv, SerialInv, OneAtATime', NEW s \in Sessions,
         NEW caller, NEW granted, NEW flushed, NEW final,
         Read(s, caller, granted, flushed, final),
         Fits(rows, Changed(flushed, final), final)
  PROVE  SerialInv'
<1>1. /\ s \in open' /\ UNCHANGED <<rows, executing>>
      /\ open' = open \cup {s}
  BY DEF Read
<1>2. open' = {s}
  BY <1>1 DEF OneAtATime
<1>3. work'[s].dirty = Changed(flushed, final) /\ work'[s].copies = final
  BY DEF Read, Changed, RecoveryInv, TypeOK
<1>4. OneExecutor'
  BY <1>1 DEF SerialInv, OneExecutor
<1>5. \A t \in open' : Fits(rows', work'[t].dirty, work'[t].copies)
  BY <1>1, <1>2, <1>3
<1>6. QED
  BY <1>4, <1>5 DEF SerialInv

\* The statuses that the operations give their copies.
LEMMA NewStatuses ==
  ASSUME NEW row \in Row, NEW a
  PROVE  /\ Requeued(row) \in Row /\ Requeued(row).status = "pending"
         /\ Claimed(row, a).status = "claimed"
         /\ Started(row, a).status = "running"
         /\ Failed(row) \in Row /\ Failed(row).status = "failed"
         /\ Retried(row).status = "pending"
         /\ Recovered(row).status \in {"failed", "pending"}
<1>1. Requeued(row) \in Row /\ Requeued(row).status = "pending"
  BY DEF Requeued, Row, RowOver, Date, JobStatus, MaybeAgent
<1>2. Failed(row) \in Row /\ Failed(row).status = "failed"
  BY FailedSound DEF Failed, Row, RowOver
<1>3. /\ Claimed(row, a).status = "claimed"
      /\ Started(row, a).status = "running"
  BY DEF Claimed, Started, Row, RowOver
<1>4. Recovered(row).status \in {"failed", "pending"}
  BY <1>2, RetriedRow DEF Recovered
<1>5. QED
  BY <1>1, <1>2, <1>3, <1>4, RetriedRow

LEMMA StatusSet ==
  ASSUME NEW row \in Row, NEW value
  PROVE  [row EXCEPT !.status = value].status = value
BY DEF Row, RowOver

\* A handler that gives the rows of S, and no others, the status value.
LEMMA MovesFit ==
  ASSUME NEW S \in SUBSET Jobs, NEW value, NEW final,
         \A j \in S : final[j].status = value /\ rows[j].status # value,
         \A j \in Jobs \ S : final[j] = rows[j]
  PROVE  /\ Sets(Changed(rows, final), final, S, value)
         /\ Leaves(Changed(rows, final), Jobs \ S)
BY DEF Sets, Leaves, Changed, Differ, Columns

LEMMA ReadRowFits ==
  ASSUME RecoveryInv, SerialInv, OneAtATime', NEW s \in Sessions, NEW caller,
         NEW j \in Jobs, NEW copy, ReadRow(s, caller, j, copy),
         CanMove(rows[j], copy.status),
         copy.status \in {"running", "paused", "pending", "failed"} \cup ResultStatus
  PROVE  SerialInv'
<1> DEFINE final == [rows EXCEPT ![j] = copy]
<1>1. \A k \in Jobs : final[k] = IF k = j THEN copy ELSE rows[k]
  BY DEF RecoveryInv, TypeOK
<1>2. rows[j].status # copy.status
  BY DEF CanMove, AllowedTransitions
<1>3. Read(s, caller, {}, rows, final)
  BY DEF ReadRow
<1> HIDE DEF final
<1>4. /\ Sets(Changed(rows, final), final, {j}, copy.status)
      /\ Leaves(Changed(rows, final), Jobs \ {j})
  BY <1>1, <1>2, MovesFit
<1>5. copy.status \in JobStatus
  BY DEF JobStatus, ResultStatus
<1>6. FitsMove(rows, Changed(rows, final), final, {j}, copy.status)
  BY <1>4 DEF FitsMove
<1>7. Fits(rows, Changed(rows, final), final)
  BY <1>5, <1>6 DEF Fits
<1>8. QED
  BY <1>3, <1>7, ReadFits

LEMMA ReadRowsFits ==
  ASSUME RecoveryInv, SerialInv, OneAtATime', NEW s \in Sessions,
         NEW S \in SUBSET Jobs, NEW copies, NEW value \in JobStatus,
         ReadRows(s, S, copies),
         \A j \in S : copies[j].status = value /\ CanMove(rows[j], value),
         \/ value = "failed"
         \/ value = "cancelled" /\ \A j \in S : rows[j].status = "pending"
         \/ value = "pending" /\ \A j \in S : rows[j].status = "failed"
  PROVE  SerialInv'
<1> DEFINE final == [j \in Jobs |-> IF j \in S THEN copies[j] ELSE rows[j]]
<1>1. \A j \in S : final[j].status = value /\ rows[j].status # value
  BY DEF CanMove, AllowedTransitions
<1>2. \A j \in Jobs \ S : final[j] = rows[j]
  OBVIOUS
<1>3. Read(s, NoAgent, {}, rows, final)
  BY DEF ReadRows
<1> HIDE DEF final
<1>4. FitsMove(rows, Changed(rows, final), final, S, value)
  BY <1>1, <1>2, MovesFit DEF FitsMove
<1>5. Fits(rows, Changed(rows, final), final)
  BY <1>4 DEF Fits
<1>6. QED
  BY <1>3, <1>5, ReadFits

LEMMA ClaimFits ==
  ASSUME RecoveryInv, SerialInv, OneAtATime', NEW s \in Sessions,
         NEW a \in Agents, Claim(s, a)
  PROVE  SerialInv'
<1> DEFINE requeued == [j \in Jobs |-> IF Expired(rows[j]) THEN Requeued(rows[j])
                                       ELSE rows[j]]
           final(P) == [j \in Jobs |-> IF j \in P THEN Claimed(requeued[j], a)
                                       ELSE requeued[j]]
           expired == {j \in Jobs : Expired(rows[j])}
<1>1. PICK picked \in SUBSET {j \in Jobs : requeued[j].status = "pending"} :
        Read(s, a, picked, requeued, final(picked))
  BY DEF Claim
<1>2. \A j \in Jobs : rows[j] \in Row
  BY DEF RecoveryInv, TypeOK
<1>3. ASSUME NEW j \in picked
      PROVE  /\ "status" \in Changed(requeued, final(picked))[j]
             /\ final(picked)[j].status = "claimed"
  <2>1. requeued[j] \in Row /\ requeued[j].status = "pending"
    BY <1>2, <1>3, NewStatuses
  <2>2. final(picked)[j].status = "claimed"
    BY <1>3, <2>1, NewStatuses
  <2>3. QED
    BY <2>1, <2>2 DEF Changed, Differ, Columns
<1>4. ASSUME NEW j \in expired \ picked
      PROVE  /\ "status" \in Changed(requeued, final(picked))[j]
             /\ final(picked)[j].status = "pending"
  <2>1. requeued[j].status = "pending" /\ rows[j].status = "claimed"
    BY <1>2, <1>4, NewStatuses DEF Expired
  <2>2. QED
    BY <1>4, <2>1 DEF Changed, Differ, Columns
<1>5. ASSUME NEW j \in Jobs \ (expired \cup picked)
      PROVE  "status" \notin Changed(requeued, final(picked))[j]
  BY <1>5 DEF Changed, Differ
<1>6. \A j \in expired : rows[j].status = "claimed"
  BY DEF Expired
<1>7. \A j \in picked \ expired : rows[j].status = "pending"
  OBVIOUS
<1>8. expired \in SUBSET Jobs /\ picked \in SUBSET Jobs
  OBVIOUS
<1> HIDE DEF expired, requeued, final
<1>9. FitsClaim(rows, Changed(requeued, final(picked)), final(picked), expired, picked)
  BY <1>3, <1>4, <1>5, <1>6, <1>7 DEF FitsClaim, Sets, Leaves
<1>10. Fits(rows, Changed(requeued, final(picked)), final(picked))
  BY <1>8, <1>9 DEF Fits
<1>11. QED
  BY <1>1, <1>10, ReadFits

LEMMA MaintenanceFits ==
  ASSUME RecoveryInv, SerialInv, OneAtATime', NEW s \in Sessions, Maintenance(s)
  PROVE  SerialInv'
<1> DEFINE requeued == [j \in Jobs |-> IF Expired(rows[j]) THEN Requeued(rows[j])
                                       ELSE rows[j]]
           final == [j \in Jobs |-> IF StaleRunning(rows[j]) THEN Recovered(rows[j])
                                    ELSE requeued[j]]
           expired == {j \in Jobs : Expired(rows[j])}
           overdue == {j \in Jobs : StaleRunning(rows[j])}
           retried == {j \in overdue : final[j].status = "pending"}
<1>1. Read(s, NoAgent, {}, requeued, final)
  BY DEF Maintenance
<1>2. \A j \in Jobs : rows[j] \in Row
  BY DEF RecoveryInv, TypeOK
<1>3. \A j \in expired : rows[j].status = "claimed"
  BY DEF Expired
<1>4. \A j \in overdue : rows[j].status = "running" /\ j \notin expired
  BY DEF StaleRunning, Expired
<1>5. ASSUME NEW j \in expired
      PROVE  "status" \in Changed(requeued, final)[j] /\ final[j].status = "pending"
  <2>1. final[j] = Requeued(rows[j]) /\ requeued[j] = Requeued(rows[j])
    BY <1>4, <1>5
  <2>2. final[j].status = "pending"
    BY <1>2, <1>5, <2>1, NewStatuses
  <2>3. QED
    BY <1>3, <1>5, <2>1, <2>2 DEF Changed, Differ, Columns
<1>6. ASSUME NEW j \in overdue
      PROVE  /\ "status" \in Changed(requeued, final)[j]
             /\ final[j].status \in {"failed", "pending"}
  <2>1. final[j] = Recovered(rows[j]) /\ requeued[j] = rows[j]
    BY <1>4, <1>6
  <2>2. final[j].status \in {"failed", "pending"}
    BY <1>2, <1>6, <2>1, NewStatuses
  <2>3. QED
    BY <1>4, <1>6, <2>1, <2>2 DEF Changed, Differ, Columns
<1>7. ASSUME NEW j \in Jobs \ (expired \cup overdue)
      PROVE  "status" \notin Changed(requeued, final)[j]
  BY <1>7 DEF Changed, Differ
<1>8. /\ expired \in SUBSET Jobs /\ overdue \in SUBSET Jobs
      /\ retried \in SUBSET overdue
      /\ \A j \in retried : final[j].status = "pending"
      /\ \A j \in overdue \ retried : final[j].status # "pending"
  OBVIOUS
<1> HIDE DEF expired, overdue, retried, requeued, final
<1>9. FitsRecovery(rows, Changed(requeued, final), final, expired, overdue, retried)
  BY <1>3, <1>4, <1>5, <1>6, <1>7, <1>8 DEF FitsRecovery, Sets, Leaves
<1>10. Fits(rows, Changed(requeued, final), final)
  BY <1>8, <1>9 DEF Fits
<1>11. QED
  BY <1>1, <1>10, ReadFits

LEMMA HandlerFits ==
  ASSUME RecoveryInv, SerialInv, OneAtATime', NEW s \in Sessions, Handler(s)
  PROVE  SerialInv'
<1>1. \A j \in Jobs : rows[j] \in Row
  BY DEF RecoveryInv, TypeOK
<1>2. ASSUME NEW a \in Agents, NEW j \in Jobs, AgentCall(s, a, j)
      PROVE  SerialInv'
  <2>1. CASE Start(s, a, j)
    BY <1>1, <2>1, NewStatuses, ReadRowFits DEF Start
  <2>2. ASSUME NEW result \in ResultStatus, Complete(s, a, j, result)
        PROVE  SerialInv'
    <3> DEFINE copy == [rows[j] EXCEPT !.status = result]
    <3>1. copy.status = result
      BY <1>1, StatusSet
    <3>2. ReadRow(s, a, j, copy) /\ CanMove(rows[j], result)
      BY <2>2 DEF Complete
    <3> HIDE DEF copy
    <3>3. QED
      BY <3>1, <3>2, ReadRowFits
  <2>3. CASE Fail(s, a, j)
    BY <1>1, <2>3, NewStatuses, ReadRowFits DEF Fail
  <2>4. QED
    BY <1>2, <2>1, <2>2, <2>3 DEF AgentCall
<1>3. ASSUME NEW j \in Jobs, Pause(s, j) \/ Resume(s, j)
      PROVE  SerialInv'
  <2>1. CASE Resume(s, j)
    BY <1>1, <2>1, NewStatuses, ReadRowFits DEF Resume
  <2>2. CASE Pause(s, j)
    <3> DEFINE copy == [rows[j] EXCEPT !.status = "paused"]
    <3>1. copy.status = "paused"
      BY <1>1, StatusSet
    <3>2. ReadRow(s, NoAgent, j, copy) /\ CanMove(rows[j], "paused")
      BY <2>2 DEF Pause
    <3> HIDE DEF copy
    <3>3. QED
      BY <3>1, <3>2, ReadRowFits
  <2>3. QED
    BY <1>3, <2>1, <2>2
<1>4. ASSUME NEW S \in SUBSET Jobs, CancelPendingJobs(s, S)
      PROVE  SerialInv'
  <2> DEFINE copies == [j \in S |-> [rows[j] EXCEPT !.status = "cancelled"]]
  <2>1. \A j \in S : /\ copies[j].status = "cancelled"
                     /\ rows[j].status = "pending"
                     /\ CanMove(rows[j], "cancelled")
    BY <1>1, <1>4, StatusSet DEF CancelPendingJobs, CanMove, AllowedTransitions
  <2>2. ReadRows(s, S, copies)
    BY <1>4 DEF CancelPendingJobs
  <2> HIDE DEF copies
  <2>3. QED
    BY <2>1, <2>2, ReadRowsFits DEF JobStatus
<1>5. ASSUME NEW S \in SUBSET Jobs, RetryFailedJobs(s, S)
      PROVE  SerialInv'
  <2> DEFINE copies == [j \in S |-> Retried(rows[j])]
  <2>1. \A j \in S : /\ copies[j].status = "pending"
                     /\ rows[j].status = "failed"
                     /\ CanMove(rows[j], "pending")
    BY <1>1, <1>5, NewStatuses DEF RetryFailedJobs, CanMove, AllowedTransitions
  <2>2. ReadRows(s, S, copies)
    BY <1>5 DEF RetryFailedJobs
  <2> HIDE DEF copies
  <2>3. QED
    BY <2>1, <2>2, ReadRowsFits DEF JobStatus
<1>6. ASSUME NEW S \in SUBSET Jobs, FailJobs(s, S)
      PROVE  SerialInv'
  <2> DEFINE copies == [j \in S |-> Failed(rows[j])]
  <2>1. \A j \in S : copies[j].status = "failed" /\ CanMove(rows[j], "failed")
    BY <1>1, <1>6, NewStatuses DEF FailJobs, CanMove, AllowedTransitions, ActiveStatus
  <2>2. ReadRows(s, S, copies)
    BY <1>6 DEF FailJobs
  <2> HIDE DEF copies
  <2>3. QED
    BY <2>1, <2>2, ReadRowsFits DEF JobStatus
<1>7. QED
  BY <1>2, <1>3, <1>4, <1>5, <1>6, ClaimFits, MaintenanceFits DEF Handler

-----------------------------------------------------------------------------
(* Commits, new rows and the clock.                                        *)

NewStatus(w, j) == IF "status" \in w.dirty[j] THEN w.copies[j].status
                   ELSE rows[j].status

\* A change that fits starts only claimed jobs, and claims none that runs.
LEMMA FitsStart ==
  ASSUME NEW dirty, NEW copies, Fits(rows, dirty, copies), NEW j \in Jobs,
         "status" \in dirty[j]
  PROVE  /\ copies[j].status = "running" => rows[j].status = "claimed"
         /\ copies[j].status = "claimed" => rows[j].status \in {"pending", "claimed"}
<1>1. ASSUME NEW S \in SUBSET Jobs, NEW value \in JobStatus,
             FitsMove(rows, dirty, copies, S, value)
      PROVE  /\ copies[j].status = "running" => rows[j].status = "claimed"
             /\ copies[j].status # "claimed"
  <2>1. j \in S /\ copies[j].status = value
    BY <1>1 DEF FitsMove, Sets, Leaves
  <2>2. value # "claimed" /\ (value = "running" => CanMove(rows[j], "running"))
    BY <1>1, <2>1 DEF FitsMove, ResultStatus
  <2>3. QED
    BY <2>1, <2>2 DEF CanMove, AllowedTransitions
<1>2. ASSUME NEW expired \in SUBSET Jobs, NEW picked \in SUBSET Jobs,
             FitsClaim(rows, dirty, copies, expired, picked)
      PROVE  rows[j].status \in {"pending", "claimed"} /\ copies[j].status # "running"
  BY <1>2 DEF FitsClaim, Sets, Leaves
<1>3. ASSUME NEW expired \in SUBSET Jobs, NEW overdue \in SUBSET Jobs,
             NEW retried \in SUBSET overdue,
             FitsRecovery(rows, dirty, copies, expired, overdue, retried)
      PROVE  copies[j].status \in {"pending", "failed"}
  BY <1>3 DEF FitsRecovery, Sets, Leaves
<1>4. QED
  BY <1>1, <1>2, <1>3 DEF Fits

LEMMA CommitFits ==
  ASSUME RecoveryInv, SerialInv, OneAtATime, NEW s \in Sessions, Commit(s)
  PROVE  SerialInv'
<1> DEFINE w == work[s]
<1>1. s \in open /\ open' = open \ {s}
  BY DEF Commit
<1>2. open' = {}
  BY <1>1 DEF OneAtATime
<1>3. Fits(rows, w.dirty, w.copies)
  BY <1>1 DEF SerialInv
<1>4. ASSUME NEW j \in Jobs
      PROVE  /\ executing'[j] # {} => rows'[j].status = "running"
             /\ \A p, q \in executing'[j] : p = q
  <2>1. rows'[j].status = NewStatus(w, j)
    BY DEF Commit, Written, NewStatus
  <2>2. executing'[j] =
          IF "status" \notin w.dirty[j] THEN executing[j]
          ELSE CASE w.copies[j].status = "claimed" -> executing[j]
                 [] w.copies[j].status = "running" -> executing[j] \cup {w.caller}
                 [] OTHER                          -> {}
    BY DEF Commit
  <2>3. /\ executing[j] # {} => rows[j].status = "running"
        /\ \A p, q \in executing[j] : p = q
    BY DEF SerialInv, OneExecutor
  <2> HIDE DEF w
  <2>4. CASE "status" \notin w.dirty[j]
    <3>1. executing'[j] = executing[j]
      BY <2>2, <2>4
    <3>2. rows'[j].status = rows[j].status
      BY <2>1, <2>4 DEF NewStatus
    <3>3. QED
      BY <2>3, <3>1, <3>2
  <2>5. CASE "status" \in w.dirty[j] /\ w.copies[j].status = "claimed"
    <3>1. executing'[j] = executing[j]
      BY <2>2, <2>5
    <3>2. QED
      BY <1>3, <2>3, <2>5, <3>1, FitsStart
  <2>6. CASE "status" \in w.dirty[j] /\ w.copies[j].status = "running"
    <3>1. executing'[j] = executing[j] \cup {w.caller}
      BY <2>2, <2>6
    <3>2. executing[j] = {}
      BY <1>3, <2>3, <2>6, FitsStart
    <3>3. QED
      BY <2>1, <2>6, <3>1, <3>2 DEF NewStatus
  <2>7. CASE "status" \in w.dirty[j] /\ w.copies[j].status \notin ActiveStatus
    BY <2>2, <2>7 DEF ActiveStatus
  <2>8. QED
    BY <2>4, <2>5, <2>6, <2>7 DEF ActiveStatus
<1>5. QED
  BY <1>2, <1>4 DEF SerialInv, OneExecutor

\* Rows that are not there yet, and dates, are no part of what fits.
LEMMA FitsStays ==
  ASSUME NEW dirty, NEW copies, Fits(rows, dirty, copies),
         \A j \in Jobs : rows[j].status # "absent" => rows'[j].status = rows[j].status
  PROVE  Fits(rows', dirty, copies)
<1>1. ASSUME NEW S \in SUBSET Jobs, NEW value \in JobStatus,
             FitsMove(rows, dirty, copies, S, value)
      PROVE  FitsMove(rows', dirty, copies, S, value)
  <2>1. \A j \in Jobs, v \in JobStatus : CanMove(rows[j], v) => CanMove(rows'[j], v)
    BY DEF CanMove, AllowedTransitions
  <2>2. \A j \in Jobs : /\ rows[j].status = "pending" => rows'[j].status = "pending"
                        /\ rows[j].status = "failed" => rows'[j].status = "failed"
    OBVIOUS
  <2>3. QED
    BY <1>1, <2>1, <2>2 DEF FitsMove
<1>2. ASSUME NEW expired \in SUBSET Jobs, NEW picked \in SUBSET Jobs,
             FitsClaim(rows, dirty, copies, expired, picked)
      PROVE  FitsClaim(rows', dirty, copies, expired, picked)
  BY <1>2 DEF FitsClaim
<1>3. ASSUME NEW expired \in SUBSET Jobs, NEW overdue \in SUBSET Jobs,
             NEW retried \in SUBSET overdue,
             FitsRecovery(rows, dirty, copies, expired, overdue, retried)
      PROVE  FitsRecovery(rows', dirty, copies, expired, overdue, retried)
  BY <1>3 DEF FitsRecovery
<1>4. QED
  BY <1>1, <1>2, <1>3 DEF Fits

LEMMA RowsMoveOn ==
  ASSUME RecoveryInv, NEW j \in Jobs, CreateJob(j) \/ ClaimLapses(j) \/ RunGoesStale(j)
  PROVE  /\ UNCHANGED <<open, work, executing>>
         /\ \A k \in Jobs : rows[k].status # "absent" => rows'[k].status = rows[k].status
         /\ \A k \in Jobs : rows'[k].status # rows[k].status
                              => CreateJob(j) /\ k = j /\ rows'[k].status = "pending"
<1>1. rows \in [Jobs -> Row]
  BY DEF RecoveryInv, TypeOK
<1>2. \A k \in Jobs : rows[k] \in Row
  BY <1>1
<1>3. CASE CreateJob(j)
  BY <1>1, <1>2, <1>3 DEF CreateJob, Row, RowOver
<1>4. CASE ClaimLapses(j) \/ RunGoesStale(j)
  BY <1>1, <1>2, <1>4 DEF ClaimLapses, RunGoesStale, Row, RowOver
<1>5. QED
  BY <1>3, <1>4

LEMMA SerialStep ==
  ASSUME RecoveryInv, SerialInv, OneAtATime, OneAtATime', [Next]_vars
  PROVE  SerialInv'
<1>1. CASE \E j \in Jobs : CreateJob(j) \/ ClaimLapses(j) \/ RunGoesStale(j)
  <2>1. /\ UNCHANGED <<open, work, executing>>
        /\ \A k \in Jobs : rows[k].status # "absent" => rows'[k].status = rows[k].status
    BY <1>1, RowsMoveOn
  <2>2. \A s \in open : Fits(rows', work[s].dirty, work[s].copies)
    BY <2>1, FitsStays DEF SerialInv
  <2>3. OneExecutor'
    BY <2>1 DEF SerialInv, OneExecutor
  <2>4. QED
    BY <2>1, <2>2, <2>3 DEF SerialInv
<1>2. CASE \E s \in Sessions : Handler(s)
  BY <1>2, HandlerFits
<1>3. CASE \E s \in Sessions : Commit(s)
  BY <1>3, CommitFits
<1>4. CASE \E s \in Sessions : Abort(s)
  BY <1>4 DEF Abort, SerialInv, OneExecutor, OneAtATime
<1>5. CASE UNCHANGED vars
  BY <1>5 DEF vars, SerialInv, OneExecutor
<1>6. QED
  BY <1>1, <1>2, <1>3, <1>4, <1>5 DEF Next

\* SerialInv holds as long as sessions do not overlap.
LEMMA SerialInvariant == Spec /\ []OneAtATime => []SerialInv
<1>1. Init => SerialInv
  BY DEF Init, SerialInv, OneExecutor
<1>2. /\ RecoveryInv /\ SerialInv /\ OneAtATime /\ OneAtATime' /\ [Next]_vars
      => SerialInv'
  BY SerialStep
<1>3. QED
  BY <1>1, <1>2, RecoveryInvariant, PTL DEF Spec

\* One session at a time, a job is never executed by two agents: the double
\* execution that TLC finds comes of overlapping sessions alone, not of the
\* guards of the handlers, the retries or the recovery of stale jobs.
THEOREM SerialHandlersExecuteOnce == Spec /\ []OneAtATime => []NoDoubleExecution
<1>1. SerialInv => NoDoubleExecution
  <2> SUFFICES ASSUME SerialInv, NEW j \in Jobs
               PROVE  Cardinality(executing[j]) =< 1
    BY DEF NoDoubleExecution
  <2>1. CASE executing[j] = {}
    BY <2>1, FS_EmptySet
  <2>2. ASSUME NEW p \in executing[j] PROVE Cardinality(executing[j]) =< 1
    <3>1. executing[j] = {p}
      BY <2>2 DEF SerialInv, OneExecutor
    <3>2. Cardinality({p}) = 1
      BY FS_Singleton
    <3>3. QED
      BY <3>1, <3>2
  <2>3. QED
    BY <2>1, <2>2
<1>2. QED
  BY <1>1, SerialInvariant, PTL

-----------------------------------------------------------------------------
(* The refinement.                                                         *)

LEMMA CommitMoves ==
  ASSUME RecoveryInv, SerialInv, NEW s \in Sessions, Commit(s)
  PROVE  Lifecycle!Next
<1> DEFINE w == work[s]
           status == [j \in Jobs |-> rows[j].status]
           after == [j \in Jobs |-> NewStatus(w, j)]
<1>1. Fits(rows, w.dirty, w.copies)
  BY DEF SerialInv, Commit
<1>2. [j \in Jobs |-> rows'[j].status] = after
  BY DEF Commit, Written, NewStatus
<1> HIDE DEF w
<1>3. ASSUME NEW S \in SUBSET Jobs, NEW value \in JobStatus,
             FitsMove(rows, w.dirty, w.copies, S, value)
      PROVE  Lifecycle!Next
  <2>1. after = [j \in Jobs |-> IF j \in S THEN value ELSE status[j]]
    BY <1>3 DEF FitsMove, Sets, Leaves, NewStatus
  <2>2. Lifecycle!SetStatus(S, value)
    BY <1>2, <2>1 DEF Lifecycle!SetStatus
  <2>3. \A j \in Jobs : \A v : CanMove(rows[j], v) => Lifecycle!CanMove(j, v)
    BY DEF CanMove, Lifecycle!CanMove, AllowedTransitions,
       Lifecycle!AllowedTransitions
  <2>4. ASSUME value \in {"running", "paused", "pending"} \cup ResultStatus,
               NEW j \in Jobs, S = {j}, CanMove(rows[j], value)
        PROVE  Lifecycle!Next
    <3>1. Lifecycle!CanMove(j, value) /\ Lifecycle!SetStatus({j}, value)
      BY <2>2, <2>3, <2>4
    <3>2. \/ Lifecycle!Begin(j) \/ Lifecycle!Pause(j) \/ Lifecycle!Resume(j)
          \/ \E result \in Lifecycle!ResultStatus : Lifecycle!Finish(j, result)
      BY <2>4, <3>1 DEF Lifecycle!Begin, Lifecycle!Pause, Lifecycle!Resume,
         Lifecycle!Finish, ResultStatus, Lifecycle!ResultStatus
    <3>3. QED
      BY <3>2 DEF Lifecycle!Next
  <2>5. CASE value = "failed" /\ \A j \in S : CanMove(rows[j], value)
    <3>1. Lifecycle!Fail(S)
      BY <2>2, <2>3, <2>5 DEF Lifecycle!Fail
    <3>2. QED
      BY <3>1 DEF Lifecycle!Next
  <2>6. CASE value = "cancelled" /\ \A j \in S : rows[j].status = "pending"
    <3>1. Lifecycle!Cancel(S)
      BY <2>2, <2>6 DEF Lifecycle!Cancel
    <3>2. QED
      BY <3>1 DEF Lifecycle!Next
  <2>7. CASE value = "pending" /\ \A j \in S : rows[j].status = "failed"
    <3>1. Lifecycle!Retry(S)
      BY <2>2, <2>7 DEF Lifecycle!Retry
    <3>2. QED
      BY <3>1 DEF Lifecycle!Next
  <2>8. QED
    BY <1>3, <2>4, <2>5, <2>6, <2>7 DEF FitsMove
<1>4. ASSUME NEW expired \in SUBSET Jobs, NEW picked \in SUBSET Jobs,
             FitsClaim(rows, w.dirty, w.copies, expired, picked)
      PROVE  Lifecycle!Next
  <2>1. after = [j \in Jobs |-> IF j \in picked THEN "claimed"
                                ELSE IF j \in expired THEN "pending" ELSE status[j]]
    BY <1>4 DEF FitsClaim, Sets, Leaves, NewStatus
  <2>2. Lifecycle!HandOut(expired, picked)
    BY <1>2, <1>4, <2>1 DEF FitsClaim, Lifecycle!HandOut
  <2>3. QED
    BY <2>2 DEF Lifecycle!Next
<1>5. ASSUME NEW expired \in SUBSET Jobs, NEW overdue \in SUBSET Jobs,
             NEW retried \in SUBSET overdue,
             FitsRecovery(rows, w.dirty, w.copies, expired, overdue, retried)
      PROVE  Lifecycle!Next
  <2>1. after = [j \in Jobs |-> IF j \in expired \cup retried THEN "pending"
                                ELSE IF j \in overdue THEN "failed" ELSE status[j]]
    BY <1>5 DEF FitsRecovery, Sets, Leaves, NewStatus
  <2>2. Lifecycle!Recover(expired, overdue, retried)
    BY <1>2, <1>5, <2>1 DEF FitsRecovery, Lifecycle!Recover
  <2>3. QED
    BY <2>2 DEF Lifecycle!Next
<1>6. QED
  BY <1>1, <1>3, <1>4, <1>5 DEF Fits

\* A handler commits nothing yet.
LEMMA HandlersRead == \A s \in Sessions : Handler(s) => UNCHANGED rows
<1> SUFFICES ASSUME NEW s \in Sessions, Handler(s) PROVE UNCHANGED rows
  OBVIOUS
<1>1. \A caller, granted, flushed, final :
        Read(s, caller, granted, flushed, final) => UNCHANGED rows
  BY DEF Read
<1>2. \A caller, j, copy : ReadRow(s, caller, j, copy) => UNCHANGED rows
  BY <1>1 DEF ReadRow
<1>3. \A S, copies : ReadRows(s, S, copies) => UNCHANGED rows
  BY <1>1 DEF ReadRows
<1>4. ASSUME NEW a \in Agents, NEW j \in Jobs, AgentCall(s, a, j)
      PROVE  UNCHANGED rows
  BY <1>2, <1>4 DEF AgentCall, Start, Complete, Fail
<1>5. \A a \in Agents : Claim(s, a) => UNCHANGED rows
  BY <1>1 DEF Claim
<1>6. QED
  BY <1>1, <1>2, <1>3, <1>4, <1>5 DEF Handler, Pause, Resume,
     CancelPendingJobs, RetryFailedJobs, FailJobs, Maintenance

LEMMA SerialStepMaps ==
  ASSUME RecoveryInv, SerialInv, [Next]_vars
  PROVE  [Lifecycle!Next]_([j \in Jobs |-> rows[j].status])
<1> DEFINE status == [j \in Jobs |-> rows[j].status]
<1>1. CASE \E j \in Jobs : CreateJob(j)
  <2>1. PICK j \in Jobs : CreateJob(j)
    BY <1>1
  <2>2. rows \in [Jobs -> Row] /\ rows[j] \in Row
    BY DEF RecoveryInv, TypeOK
  <2>3. [k \in Jobs |-> rows'[k].status]
          = [k \in Jobs |-> IF k \in {j} THEN "pending" ELSE status[k]]
    BY <2>1, <2>2 DEF CreateJob, Row, RowOver
  <2>4. Lifecycle!Submit({j})
    BY <2>1, <2>3 DEF CreateJob, Lifecycle!Submit, Lifecycle!SetStatus
  <2>5. QED
    BY <2>4 DEF Lifecycle!Next
<1>2. CASE \E j \in Jobs : ClaimLapses(j) \/ RunGoesStale(j)
  <2>1. \A k \in Jobs : rows'[k].status = rows[k].status
    BY <1>2, RowsMoveOn DEF ClaimLapses, RunGoesStale, CreateJob
  <2>2. QED
    BY <2>1
<1>3. CASE \E s \in Sessions : Commit(s)
  BY <1>3, CommitMoves
<1>4. CASE UNCHANGED rows
  BY <1>4
<1>5. CASE \E s \in Sessions : Handler(s)
  BY <1>4, <1>5, HandlersRead
<1>6. QED
  BY <1>1, <1>2, <1>3, <1>4, <1>5 DEF Next, Abort, vars

\* One session at a time, the handlers, which read and commit in two steps
\* and may stop between them, do to the status of jobs what the life cycle
\* allows and nothing else, as the atomic handlers of JobQueue do.
THEOREM SerialHandlersFollowLifecycle == Spec /\ []OneAtATime => Lifecycle!Spec
<1>1. Init => Lifecycle!Init
  BY DEF Init, Lifecycle!Init, NewRow
<1>2. RecoveryInv /\ SerialInv /\ [Next]_vars
        => [Lifecycle!Next]_([j \in Jobs |-> rows[j].status])
  BY SerialStepMaps
<1>3. QED
  BY <1>1, <1>2, RecoveryInvariant, SerialInvariant, PTL DEF Spec, Lifecycle!Spec
=============================================================================

--------------------------- MODULE JobQueueProofs ---------------------------
(* Proofs about JobQueue, for any set of agents and any finite jobs table. *)
EXTENDS JobQueue, FiniteSetTheorems, WellFoundedInduction, TLAPS

-----------------------------------------------------------------------------
(* Typing.                                                                 *)

\* Every column keeps a value of its type, through every operation of
\* JobRepository.
THEOREM JobQueueTyped == Spec => []TypeOK
<1>1. Init => TypeOK
  BY JobQueueAssumption DEF Init, TypeOK, MaybeAgent, JobStatus
<1>2. TypeOK /\ [Next]_vars => TypeOK'
  <2> SUFFICES ASSUME TypeOK, [Next]_vars PROVE TypeOK'
    OBVIOUS
  <2> USE JobQueueAssumption DEF TypeOK, JobStatus, MaybeAgent, rowVars, agentVars
  <2>1. ASSUME NEW j \in Jobs, NEW pin \in MaybeAgent, CreateJob(j, pin)
        PROVE  TypeOK'
    BY <2>1 DEF CreateJob
  <2>2. ASSUME NEW a \in Agents, Claim(a) PROVE TypeOK'
    BY <2>2 DEF Claim, PinSeen, ClaimDeadline
  <2>3. ASSUME NEW a \in Agents, NEW j \in Jobs, AgentCall(a, j)
        PROVE  TypeOK'
    BY <2>3 DEF AgentCall, Start, Progress, Complete, Fail, ResultStatus
  <2>4. ASSUME NEW j \in Jobs, Pause(j) PROVE TypeOK'
    BY <2>4 DEF Pause
  <2>5. ASSUME NEW j \in Jobs, Resume(j) PROVE TypeOK'
    BY <2>5 DEF Resume, OwnerOnceReleased
  <2>6. ASSUME NEW S \in SUBSET Jobs, CancelPendingJobs(S) PROVE TypeOK'
    BY <2>6 DEF CancelPendingJobs
  <2>7. ASSUME NEW S \in SUBSET Jobs, RetryFailedJobs(S) PROVE TypeOK'
    BY <2>7 DEF RetryFailedJobs, OwnerOnceReleased
  <2>8. ASSUME NEW S \in SUBSET Jobs, FailJobs(S) PROVE TypeOK'
    BY <2>8 DEF FailJobs
  <2>9. CASE Maintenance
    BY <2>9 DEF Maintenance, PinSeen
  <2>10. ASSUME NEW a \in Agents, NEW owned \in SUBSET Accounts,
                Reassign(a, owned)
         PROVE  TypeOK'
    BY <2>10 DEF Reassign
  <2>11. ASSUME NEW a \in Agents, NEW account \in Accounts,
                SessionReported(a, account)
         PROVE  TypeOK'
    BY <2>11 DEF SessionReported
  <2>12. ASSUME NEW j \in Jobs, ClaimLapses(j) \/ RunGoesStale(j)
         PROVE  TypeOK'
    BY <2>12 DEF ClaimLapses, RunGoesStale
  <2>13. CASE UNCHANGED vars
    BY <2>13 DEF vars
  <2>14. QED
    BY <2>1, <2>2, <2>3, <2>4, <2>5, <2>6, <2>7, <2>8, <2>9, <2>10,
       <2>11, <2>12, <2>13
       DEF Next, FailStaleRunning, FailActiveJobs
<1>3. QED
  BY <1>1, <1>2, PTL DEF Spec
-----------------------------------------------------------------------------
(* Ownership.  OwnershipInv is inductive: the owner check of a callback is  *)
(* only as strong as the owner column, the column is only written by a      *)
(* claim of a queued (hence unowned) job, and every way back to the queue   *)
(* clears it.                                                              *)

OwnershipInv ==
    /\ TypeOK
    /\ ActiveJobsOwned
    /\ QueuedJobsUnowned
    /\ ActiveJobsRecoverable

LEMMA OwnershipInit == Init => OwnershipInv
BY JobQueueAssumption
   DEF Init, OwnershipInv, TypeOK, ActiveJobsOwned, QueuedJobsUnowned,
       ActiveJobsRecoverable, MaybeAgent, JobStatus,
       ActiveStatus

\* What a claim may take: jobs it sees waiting that the agent may run.
LEMMA PickedJobsRunnable ==
    ASSUME TypeOK, NEW a \in Agents, NEW picked \in SUBSET Jobs,
           Claimable(a, picked), NEW j \in picked
    PROVE  Waiting(j) /\ CanRunJob(a, j) /\ Cardinality(picked) =< MaxJobs
<1>1. PICK window \in SUBSET Jobs :
        /\ LeadingPart(window, {k \in Supported[a] : Waiting(k)},
                       MaxJobs * WindowFactor)
        /\ LeadingPart(picked, {k \in window : CanRunJob(a, k)}, MaxJobs)
  BY DEF Claimable
<1>2. QED
  BY <1>1 DEF LeadingPart

LEMMA OwnershipClaim ==
    ASSUME OwnershipInv, TypeOK', NEW a \in Agents, Claim(a)
    PROVE  OwnershipInv'
<1> USE DEF OwnershipInv
<1>1. PICK picked \in SUBSET Jobs :
        /\ Claimable(a, picked)
        /\ status' = [j \in Jobs |-> IF j \in picked THEN "claimed"
                                     ELSE IF ExpiredClaim(j) THEN "pending"
                                     ELSE status[j]]
        /\ localAgent' = [j \in Jobs |-> IF j \in picked THEN a
                                         ELSE PinSeen(j)]
        /\ claimedBy' = [j \in Jobs |-> IF j \in picked THEN a
                                        ELSE IF ExpiredClaim(j) THEN NoAgent
                                        ELSE claimedBy[j]]
        /\ claimExpiry' = [j \in Jobs |->
                             IF j \in picked THEN ClaimDeadline
                             ELSE IF ExpiredClaim(j) THEN "none"
                             ELSE claimExpiry[j]]
        /\ UNCHANGED startedAt
  BY DEF Claim
<1>2. ActiveJobsOwned'
  BY <1>1 DEF ActiveJobsOwned, ActiveStatus, PinSeen, TypeOK
<1>3. QueuedJobsUnowned'
  BY <1>1 DEF QueuedJobsUnowned, TypeOK
<1>4. ActiveJobsRecoverable'
  BY <1>1 DEF ActiveJobsRecoverable, ClaimDeadline, TypeOK
<1>5. QED
  BY <1>2, <1>3, <1>4

LEMMA OwnershipNext == OwnershipInv /\ TypeOK' /\ [Next]_vars => OwnershipInv'
<1> SUFFICES ASSUME OwnershipInv, TypeOK', [Next]_vars
             PROVE  OwnershipInv'
  OBVIOUS
<1> USE JobQueueAssumption
    DEF OwnershipInv, TypeOK, ActiveJobsOwned, QueuedJobsUnowned,
        ActiveJobsRecoverable, ActiveStatus, rowVars,
        agentVars
<1>1. ASSUME NEW j \in Jobs, NEW pin \in MaybeAgent, CreateJob(j, pin)
      PROVE  OwnershipInv'
  BY <1>1 DEF CreateJob
<1>2. ASSUME NEW a \in Agents, Claim(a) PROVE OwnershipInv'
  BY <1>2, OwnershipClaim
<1>3. ASSUME NEW a \in Agents, NEW j \in Jobs, AgentCall(a, j)
      PROVE  OwnershipInv'
  <2>1. CASE Start(a, j)
    <3>1. status[j] = "claimed" /\ claimedBy[j] = a
      BY <2>1 DEF Start, CanMove, AllowedTransitions, EnsureClaimOwner
    <3>2. QED
      BY <2>1, <3>1 DEF Start
  <2>2. CASE Progress(a, j)
    BY <2>2 DEF Progress
  <2>3. ASSUME NEW result \in ResultStatus, Complete(a, j, result)
        PROVE  OwnershipInv'
    BY <2>3 DEF Complete, ResultStatus
  <2>4. CASE Fail(a, j)
    BY <2>4 DEF Fail
  <2>5. QED
    BY <1>3, <2>1, <2>2, <2>3, <2>4 DEF AgentCall
<1>4. ASSUME NEW j \in Jobs, Pause(j) PROVE OwnershipInv'
  BY <1>4 DEF Pause
<1>5. ASSUME NEW j \in Jobs, Resume(j) PROVE OwnershipInv'
  BY <1>5 DEF Resume, OwnerOnceReleased
<1>6. ASSUME NEW S \in SUBSET Jobs, CancelPendingJobs(S) PROVE OwnershipInv'
  BY <1>6 DEF CancelPendingJobs
<1>7. ASSUME NEW S \in SUBSET Jobs, RetryFailedJobs(S) PROVE OwnershipInv'
  BY <1>7 DEF RetryFailedJobs, OwnerOnceReleased
<1>8. ASSUME NEW S \in SUBSET Jobs, FailJobs(S) PROVE OwnershipInv'
  BY <1>8 DEF FailJobs
<1>9. CASE Maintenance
  BY <1>9 DEF Maintenance, PinSeen, Recoverable, StaleRunning, ExpiredClaim
<1>10. ASSUME NEW a \in Agents, NEW owned \in SUBSET Accounts,
              Reassign(a, owned)
       PROVE  OwnershipInv'
  BY <1>10 DEF Reassign
<1>11. ASSUME NEW a \in Agents, NEW account \in Accounts,
              SessionReported(a, account)
       PROVE  OwnershipInv'
  BY <1>11 DEF SessionReported
<1>12. ASSUME NEW j \in Jobs, ClaimLapses(j) \/ RunGoesStale(j)
       PROVE  OwnershipInv'
  BY <1>12 DEF ClaimLapses, RunGoesStale
<1>13. CASE UNCHANGED vars
  BY <1>13 DEF vars
<1>14. QED
  BY <1>1, <1>2, <1>3, <1>4, <1>5, <1>6, <1>7, <1>8, <1>9, <1>10,
     <1>11, <1>12, <1>13
     DEF Next, FailStaleRunning, FailActiveJobs

\* The inductive invariant holds in every reachable state.
THEOREM OwnershipHolds == Spec => []OwnershipInv
BY OwnershipInit, OwnershipNext, JobQueueTyped, PTL DEF Spec

\* Every active job names its owner, whatever pauses, expiries, retries and
\* late callbacks came before.
THEOREM ActiveJobsAreOwned == Spec => []ActiveJobsOwned
<1>1. OwnershipInv => ActiveJobsOwned
  BY DEF OwnershipInv
<1>2. QED
  BY <1>1, OwnershipHolds, PTL

\* A job in the queue carries no owner of an earlier claim.
THEOREM QueuedJobsAreUnowned == Spec => []QueuedJobsUnowned
<1>1. OwnershipInv => QueuedJobsUnowned
  BY DEF OwnershipInv
<1>2. QED
  BY <1>1, OwnershipHolds, PTL

\* Every active job is in the reach of one of the two recovery queries.
THEOREM ActiveJobsAreRecoverable == Spec => []ActiveJobsRecoverable
<1>1. OwnershipInv => ActiveJobsRecoverable
  BY DEF OwnershipInv
<1>2. QED
  BY <1>1, OwnershipHolds, PTL

\* A callback that reaches an active job comes from its owner: a callback of
\* an agent that lost the job is refused.
THEOREM CallbacksAreFenced == Spec => CallbacksFenced
<1>1. OwnershipInv /\ [Next]_vars =>
        [\A a \in Agents, j \in Jobs :
           AgentCall(a, j) /\ status[j] \in ActiveStatus => claimedBy[j] = a]_vars
  <2>1. ASSUME OwnershipInv, NEW a \in Agents, NEW j \in Jobs,
               AgentCall(a, j), status[j] \in ActiveStatus
        PROVE  claimedBy[j] = a
    <3>1. EnsureClaimOwner(a, j)
      BY <2>1 DEF AgentCall, Start, Progress, Complete, Fail
    <3>2. claimedBy[j] # NoAgent
      BY <2>1, JobQueueAssumption DEF OwnershipInv, ActiveJobsOwned
    <3>3. QED
      BY <3>1, <3>2 DEF EnsureClaimOwner
  <2>2. QED
    BY <2>1
<1>2. QED
  BY <1>1, OwnershipHolds, PTL DEF Spec, CallbacksFenced
-----------------------------------------------------------------------------
(* Live claims.                                                            *)

\* No operation moves an active job from one agent to another unless its
\* claim has expired.
THEOREM LiveClaimsAreKept == Spec => LiveClaimKept
<1>1. OwnershipInv /\ [Next]_vars =>
        [\A j \in Jobs :
           status[j] \in ActiveStatus /\ ~ExpiredClaim(j) =>
             \/ claimedBy'[j] = claimedBy[j]
             \/ status'[j] = "pending" /\ claimedBy'[j] = NoAgent]_vars
  <2> SUFFICES ASSUME OwnershipInv, Next, NEW j \in Jobs,
                      status[j] \in ActiveStatus, ~ExpiredClaim(j)
               PROVE  \/ claimedBy'[j] = claimedBy[j]
                      \/ status'[j] = "pending" /\ claimedBy'[j] = NoAgent
    OBVIOUS
  <2> DEFINE Kept == \/ claimedBy'[j] = claimedBy[j]
                     \/ status'[j] = "pending" /\ claimedBy'[j] = NoAgent
  <2> USE JobQueueAssumption DEF OwnershipInv, TypeOK, ActiveStatus, rowVars
  <2>1. ASSUME NEW a \in Agents, Claim(a) PROVE Kept
    <3>1. PICK picked \in SUBSET Jobs :
            /\ Claimable(a, picked)
            /\ claimedBy' = [k \in Jobs |->
                               IF k \in picked THEN a
                               ELSE IF ExpiredClaim(k) THEN NoAgent
                               ELSE claimedBy[k]]
      BY <2>1 DEF Claim
    <3>2. j \notin picked
      BY <3>1, PickedJobsRunnable DEF Waiting
    <3>3. QED
      BY <3>1, <3>2
  <2>2. ASSUME NEW a \in Agents, NEW k \in Jobs, AgentCall(a, k) PROVE Kept
    <3>1. CASE Start(a, k)
      <4>1. k = j => claimedBy[j] = a
        BY <3>1 DEF Start, EnsureClaimOwner, ActiveJobsOwned
      <4>2. QED
        BY <3>1, <4>1 DEF Start
    <3>2. CASE ~Start(a, k)
      BY <2>2, <3>2 DEF AgentCall, Progress, Complete, Fail
    <3>3. QED
      BY <3>1, <3>2
  <2>3. ASSUME NEW k \in Jobs, Resume(k) PROVE Kept
    BY <2>3 DEF Resume, OwnerOnceReleased
  <2>4. ASSUME NEW S \in SUBSET Jobs, RetryFailedJobs(S) PROVE Kept
    BY <2>4 DEF RetryFailedJobs, OwnerOnceReleased
  <2>5. CASE Maintenance
    BY <2>5 DEF Maintenance
  <2>6. CASE UNCHANGED claimedBy
    BY <2>6
  <2>7. QED
    BY <2>1, <2>2, <2>3, <2>4, <2>5, <2>6
       DEF Next, CreateJob, Pause, CancelPendingJobs, FailStaleRunning,
           FailActiveJobs, FailJobs, Reassign,
           SessionReported, ClaimLapses, RunGoesStale
<1>2. QED
  BY <1>1, OwnershipHolds, PTL DEF Spec, LiveClaimKept

\* A job of an account is only ever given to an agent that passes the check of
\* its employee at that moment.
THEOREM AccountWorkIsAuthorised == Spec => AccountWorkAuthorised
<1> DEFINE Authorised(a, j) == <<a, AccountOf[j]>> \in manages
<1>1. OwnershipInv /\ [Next]_vars =>
        [\A a \in Agents, j \in Jobs :
           /\ AccountOf[j] # NoAccount
           /\ claimedBy[j] # a
           /\ claimedBy'[j] = a
           => Authorised(a, j)]_vars
  <2> SUFFICES ASSUME OwnershipInv, Next, NEW a \in Agents, NEW j \in Jobs,
                      AccountOf[j] # NoAccount, claimedBy[j] # a,
                      claimedBy'[j] = a
               PROVE  Authorised(a, j)
    OBVIOUS
  <2> USE JobQueueAssumption DEF OwnershipInv, TypeOK, rowVars
  <2>1. ASSUME NEW b \in Agents, Claim(b) PROVE Authorised(a, j)
    <3>1. PICK picked \in SUBSET Jobs :
            /\ Claimable(b, picked)
            /\ claimedBy' = [k \in Jobs |->
                               IF k \in picked THEN b
                               ELSE IF ExpiredClaim(k) THEN NoAgent
                               ELSE claimedBy[k]]
      BY <2>1 DEF Claim
    <3>2. j \in picked /\ a = b
      BY <3>1
    <3>3. CanRunJob(b, j)
      BY <3>1, <3>2, PickedJobsRunnable
    <3>4. QED
      BY <3>2, <3>3 DEF CanRunJob
  <2>2. ASSUME NEW b \in Agents, NEW k \in Jobs, AgentCall(b, k) PROVE FALSE
    <3>1. CASE Start(b, k)
      <4>1. claimedBy[k] = b
        BY <3>1
           DEF Start, CanMove, AllowedTransitions, EnsureClaimOwner,
               ActiveJobsOwned, ActiveStatus
      <4>2. QED
        BY <3>1, <4>1 DEF Start
    <3>2. CASE ~Start(b, k)
      BY <2>2, <3>2 DEF AgentCall, Progress, Complete, Fail
    <3>3. QED
      BY <3>1, <3>2
  <2>3. ASSUME NEW k \in Jobs, Resume(k) PROVE FALSE
    BY <2>3 DEF Resume, OwnerOnceReleased
  <2>4. ASSUME NEW S \in SUBSET Jobs, RetryFailedJobs(S) PROVE FALSE
    BY <2>4 DEF RetryFailedJobs, OwnerOnceReleased
  <2>5. CASE Maintenance
    BY <2>5 DEF Maintenance
  <2>6. CASE UNCHANGED claimedBy
    BY <2>6
  <2>7. QED
    BY <2>1, <2>2, <2>3, <2>4, <2>5, <2>6
       DEF Next, CreateJob, Pause, CancelPendingJobs, FailStaleRunning,
           FailActiveJobs, FailJobs, Reassign,
           SessionReported, ClaimLapses, RunGoesStale
<1>2. QED
  BY <1>1, OwnershipHolds, PTL DEF Spec, AccountWorkAuthorised

-----------------------------------------------------------------------------
(* The abstract queue.                                                     *)

\* Every operation on the jobs table is, as far as the status goes, an
\* operation of the abstract queue or leaves it alone.
LEMMA LifecycleStep ==
    ASSUME TypeOK, Next
    PROVE  Lifecycle!Next \/ UNCHANGED status
<1>0. /\ Lifecycle!AllowedTransitions = AllowedTransitions
      /\ Lifecycle!ResultStatus = ResultStatus
  BY DEF AllowedTransitions, Lifecycle!AllowedTransitions, ResultStatus,
         Lifecycle!ResultStatus
<1> USE <1>0
    DEF TypeOK, rowVars, CanMove, Lifecycle!CanMove, Lifecycle!SetStatus
<1>1. ASSUME NEW j \in Jobs, NEW pin \in MaybeAgent, CreateJob(j, pin)
      PROVE  Lifecycle!Next
  <2>1. Lifecycle!Submit({j})
    BY <1>1 DEF CreateJob, Lifecycle!Submit
  <2>2. QED
    BY <2>1 DEF Lifecycle!Next
<1>2. ASSUME NEW a \in Agents, Claim(a) PROVE Lifecycle!Next
  <2> DEFINE expired == {j \in Jobs : ExpiredClaim(j)}
  <2>1. PICK picked \in SUBSET Jobs :
          /\ Claimable(a, picked)
          /\ status' = [j \in Jobs |-> IF j \in picked THEN "claimed"
                                       ELSE IF ExpiredClaim(j) THEN "pending"
                                       ELSE status[j]]
    BY <1>2 DEF Claim
  <2>2. \A j \in picked \ expired : status[j] = "pending"
    BY <2>1, PickedJobsRunnable DEF Waiting
  <2>3. Lifecycle!HandOut(expired, picked)
    BY <2>1, <2>2 DEF Lifecycle!HandOut, ExpiredClaim
  <2>4. QED
    BY <2>3 DEF Lifecycle!Next
<1>3. ASSUME NEW a \in Agents, NEW j \in Jobs, AgentCall(a, j)
      PROVE  Lifecycle!Next \/ UNCHANGED status
  <2>1. CASE Start(a, j)
    <3>1. Lifecycle!Begin(j)
      BY <2>1 DEF Start, Lifecycle!Begin
    <3>2. QED
      BY <3>1 DEF Lifecycle!Next
  <2>2. CASE Progress(a, j)
    BY <2>2 DEF Progress
  <2>3. ASSUME NEW result \in ResultStatus, Complete(a, j, result)
        PROVE  Lifecycle!Next
    <3>1. Lifecycle!Finish(j, result)
      BY <2>3 DEF Complete, Lifecycle!Finish
    <3>2. QED
      BY <3>1 DEF Lifecycle!Next
  <2>4. CASE Fail(a, j)
    <3>1. Lifecycle!Fail({j})
      BY <2>4 DEF Fail, Lifecycle!Fail
    <3>2. QED
      BY <3>1 DEF Lifecycle!Next
  <2>5. QED
    BY <1>3, <2>1, <2>2, <2>3, <2>4 DEF AgentCall
<1>4. ASSUME NEW j \in Jobs, Pause(j) PROVE Lifecycle!Next
  <2>1. Lifecycle!Pause(j)
    BY <1>4 DEF Pause, Lifecycle!Pause
  <2>2. QED
    BY <2>1 DEF Lifecycle!Next
<1>5. ASSUME NEW j \in Jobs, Resume(j) PROVE Lifecycle!Next
  <2>1. Lifecycle!Resume(j)
    BY <1>5 DEF Resume, Lifecycle!Resume
  <2>2. QED
    BY <2>1 DEF Lifecycle!Next
<1>6. ASSUME NEW S \in SUBSET Jobs, CancelPendingJobs(S) PROVE Lifecycle!Next
  <2>1. Lifecycle!Cancel(S)
    BY <1>6 DEF CancelPendingJobs, Lifecycle!Cancel
  <2>2. QED
    BY <2>1 DEF Lifecycle!Next
<1>7. ASSUME NEW S \in SUBSET Jobs, RetryFailedJobs(S) PROVE Lifecycle!Next
  <2>1. Lifecycle!Retry(S)
    BY <1>7 DEF RetryFailedJobs, Lifecycle!Retry
  <2>2. QED
    BY <2>1 DEF Lifecycle!Next
<1>8. ASSUME NEW S \in SUBSET Jobs, FailJobs(S),
             \A j \in S : status[j] \in ActiveStatus
      PROVE  Lifecycle!Next
  <2>1. Lifecycle!Fail(S)
    BY <1>8 DEF FailJobs, Lifecycle!Fail, ActiveStatus, AllowedTransitions
  <2>2. QED
    BY <2>1 DEF Lifecycle!Next
<1>9. CASE FailStaleRunning
  BY <1>8, <1>9 DEF FailStaleRunning, StaleRunning, ActiveStatus
<1>10. ASSUME NEW a \in Agents, FailActiveJobs(a) PROVE Lifecycle!Next
  BY <1>8, <1>10 DEF FailActiveJobs
<1>11. CASE Maintenance
  <2> DEFINE expired == {j \in Jobs : ExpiredClaim(j)}
             overdue == {j \in Jobs : StaleRunning(j)}
             retried == {j \in overdue : Recoverable(j)}
  <2>1. status' = [j \in Jobs |-> IF j \in expired \cup retried THEN "pending"
                                  ELSE IF j \in overdue THEN "failed"
                                  ELSE status[j]]
    BY <1>11 DEF Maintenance, Recoverable
  <2>2. Lifecycle!Recover(expired, overdue, retried)
    BY <2>1 DEF Lifecycle!Recover, ExpiredClaim, StaleRunning
  <2>3. expired \in SUBSET Jobs /\ overdue \in SUBSET Jobs
        /\ retried \in SUBSET overdue
    OBVIOUS
  <2>4. QED
    BY <2>2, <2>3 DEF Lifecycle!Next
<1>12. CASE UNCHANGED rowVars
  BY <1>12
<1>13. ASSUME NEW j \in Jobs, ClaimLapses(j) \/ RunGoesStale(j)
       PROVE  UNCHANGED status
  BY <1>13 DEF ClaimLapses, RunGoesStale
<1>14. QED
  BY <1>1, <1>2, <1>3, <1>4, <1>5, <1>6, <1>7, <1>9, <1>10, <1>11, <1>12,
     <1>13
     DEF Next, Reassign, SessionReported

\* JobQueue implements the abstract queue: no interleaving of agents,
\* operators and maintenance takes a job out of the prescribed life.
THEOREM LifecycleIsKept == Spec => LifecycleKept
<1>1. Init => Lifecycle!Init
  BY DEF Init, Lifecycle!Init
<1>2. TypeOK /\ [Next]_vars => [Lifecycle!Next]_status
  BY LifecycleStep DEF vars, rowVars
<1>3. QED
  BY <1>1, <1>2, JobQueueTyped, PTL DEF Spec, LifecycleKept, Lifecycle!Spec

-----------------------------------------------------------------------------
(* The retry budget.                                                       *)

\* Failures, timeouts, recoveries and retries keep a job within its retry
\* budget; only resumes of a failed job extend it.
THEOREM RetryBudgetIsKept == Spec => []RetryBudgetKept
<1> USE DEF RetryBudgetKept
<1>1. Init => RetryBudgetKept
  BY JobQueueAssumption DEF Init
<1>2. TypeOK /\ RetryBudgetKept /\ [Next]_vars => RetryBudgetKept'
  <2> SUFFICES ASSUME TypeOK, RetryBudgetKept, [Next]_vars
               PROVE  RetryBudgetKept'
    OBVIOUS
  <2> USE JobQueueAssumption DEF TypeOK, rowVars, agentVars
  <2>1. ASSUME NEW j \in Jobs, NEW pin \in MaybeAgent, CreateJob(j, pin)
        PROVE  RetryBudgetKept'
    BY <2>1 DEF CreateJob
  <2>2. ASSUME NEW a \in Agents, Claim(a) PROVE RetryBudgetKept'
    <3>1. PICK picked \in SUBSET Jobs :
            /\ Claimable(a, picked)
            /\ status' = [j \in Jobs |-> IF j \in picked THEN "claimed"
                                         ELSE IF ExpiredClaim(j) THEN "pending"
                                         ELSE status[j]]
            /\ UNCHANGED <<retryCount, resumed>>
      BY <2>2 DEF Claim
    <3>2. \A j \in picked : status[j] \in {"pending", "claimed"}
      BY <3>1, PickedJobsRunnable DEF Waiting, ExpiredClaim
    <3>3. QED
      BY <3>1, <3>2 DEF ExpiredClaim
  <2>3. ASSUME NEW a \in Agents, NEW j \in Jobs, AgentCall(a, j)
        PROVE  RetryBudgetKept'
    BY <2>3
       DEF AgentCall, Start, Progress, Complete, Fail, ResultStatus, CanMove,
           AllowedTransitions
  <2>4. ASSUME NEW j \in Jobs, Pause(j) PROVE RetryBudgetKept'
    BY <2>4 DEF Pause, CanMove, AllowedTransitions
  <2>5. ASSUME NEW j \in Jobs, Resume(j) PROVE RetryBudgetKept'
    BY <2>5 DEF Resume, CanMove, AllowedTransitions
  <2>6. ASSUME NEW S \in SUBSET Jobs, CancelPendingJobs(S)
        PROVE  RetryBudgetKept'
    BY <2>6 DEF CancelPendingJobs
  <2>7. ASSUME NEW S \in SUBSET Jobs, RetryFailedJobs(S)
        PROVE  RetryBudgetKept'
    BY <2>7 DEF RetryFailedJobs, HasRetryBudget
  <2>8. CASE FailStaleRunning
    BY <2>8 DEF FailStaleRunning, FailJobs, StaleRunning
  <2>9. ASSUME NEW a \in Agents, FailActiveJobs(a) PROVE RetryBudgetKept'
    BY <2>9 DEF FailActiveJobs, FailJobs, ActiveStatus
  <2>10. CASE Maintenance
    BY <2>10
       DEF Maintenance, Recoverable, StaleRunning, ExpiredClaim,
           HasRetryBudget
  <2>11. CASE UNCHANGED <<status, retryCount, resumed>>
    BY <2>11
  <2>12. QED
    BY <2>1, <2>2, <2>3, <2>4, <2>5, <2>6, <2>7, <2>8, <2>9, <2>10, <2>11
       DEF Next, Reassign, SessionReported, ClaimLapses,
           RunGoesStale, vars
<1>3. QED
  BY <1>1, <1>2, JobQueueTyped, PTL DEF Spec

-----------------------------------------------------------------------------
(* The batch bound.                                                        *)

LEMMA BatchFinite ==
    \A a : IsFiniteSet(ActiveJobsOf(a))
BY JobQueueAssumption, FS_Subset DEF ActiveJobsOf

\* A step after which no agent has an active job it did not have before.
LEMMA BatchShrinks ==
    ASSUME AgentBatchBounded,
           \A a \in Agents : ActiveJobsOf(a)' \subseteq ActiveJobsOf(a)
    PROVE  AgentBatchBounded'
<1> SUFFICES ASSUME NEW a \in Agents
             PROVE  Cardinality(ActiveJobsOf(a)') =< MaxJobs
  BY DEF AgentBatchBounded
<1>1. /\ IsFiniteSet(ActiveJobsOf(a)')
      /\ Cardinality(ActiveJobsOf(a)') =< Cardinality(ActiveJobsOf(a))
  BY BatchFinite, FS_Subset
<1>2. /\ Cardinality(ActiveJobsOf(a)') \in Nat
      /\ Cardinality(ActiveJobsOf(a)) \in Nat
  BY <1>1, BatchFinite, FS_CardinalityType
<1>3. QED
  BY <1>1, <1>2, JobQueueAssumption DEF AgentBatchBounded

LEMMA BatchClaim ==
    ASSUME TypeOK, AgentBatchBounded, NEW a \in Agents, Claim(a)
    PROVE  AgentBatchBounded'
<1>1. PICK picked \in SUBSET Jobs :
        /\ Claimable(a, picked)
        /\ status' = [j \in Jobs |-> IF j \in picked THEN "claimed"
                                     ELSE IF ExpiredClaim(j) THEN "pending"
                                     ELSE status[j]]
        /\ claimedBy' = [j \in Jobs |-> IF j \in picked THEN a
                                        ELSE IF ExpiredClaim(j) THEN NoAgent
                                        ELSE claimedBy[j]]
  BY DEF Claim
<1>2. \A b \in Agents : b # a \/ picked = {} =>
          ActiveJobsOf(b)' \subseteq ActiveJobsOf(b)
  BY <1>1 DEF ActiveJobsOf, ActiveStatus, TypeOK
<1>3. CASE picked = {}
  BY <1>2, <1>3, BatchShrinks
<1>4. CASE picked # {}
  <2>1. ~HasActiveWork(a) /\ Cardinality(picked) =< MaxJobs
    BY <1>1, <1>4, PickedJobsRunnable DEF CanRunJob
  <2>2. ActiveJobsOf(a)' \subseteq picked
    BY <1>1, <2>1, JobQueueAssumption
       DEF ActiveJobsOf, HasActiveWork, ActiveStatus, TypeOK
  <2>3. /\ IsFiniteSet(picked)
        /\ IsFiniteSet(ActiveJobsOf(a)')
        /\ Cardinality(ActiveJobsOf(a)') =< Cardinality(picked)
    BY <2>2, JobQueueAssumption, FS_Subset
  <2>4. Cardinality(ActiveJobsOf(a)') =< MaxJobs
    BY <2>1, <2>3, FS_CardinalityType, JobQueueAssumption
  <2>5. ASSUME NEW b \in Agents, b # a
        PROVE  Cardinality(ActiveJobsOf(b)') =< MaxJobs
    <3>1. /\ IsFiniteSet(ActiveJobsOf(b)')
          /\ Cardinality(ActiveJobsOf(b)') =< Cardinality(ActiveJobsOf(b))
      BY <1>2, <2>5, BatchFinite, FS_Subset
    <3>2. QED
      BY <3>1, BatchFinite, FS_CardinalityType, JobQueueAssumption
         DEF AgentBatchBounded
  <2>6. QED
    BY <2>4, <2>5 DEF AgentBatchBounded
<1>5. QED
  BY <1>3, <1>4

\* No operation but a claim makes a job active for an agent.
LEMMA OnlyClaimsActivate ==
    ASSUME TypeOK, ActiveJobsOwned, Next, \A a \in Agents : ~Claim(a)
    PROVE  \A a \in Agents : ActiveJobsOf(a)' \subseteq ActiveJobsOf(a)
<1> DEFINE Shrinks ==
      \A a \in Agents, k \in Jobs :
        claimedBy'[k] = a /\ status'[k] \in ActiveStatus =>
          claimedBy[k] = a /\ status[k] \in ActiveStatus
<1> USE JobQueueAssumption DEF ActiveStatus, TypeOK, rowVars
<1>1. ASSUME NEW a \in Agents, NEW j \in Jobs, AgentCall(a, j)
      PROVE  Shrinks
  <2>1. CASE Start(a, j)
    <3>1. status[j] = "claimed" /\ claimedBy[j] = a
      BY <2>1
         DEF Start, CanMove, AllowedTransitions, EnsureClaimOwner,
             ActiveJobsOwned
    <3>2. QED
      BY <2>1, <3>1 DEF Start
  <2>2. CASE ~Start(a, j)
    BY <1>1, <2>2 DEF AgentCall, Progress, Complete, Fail, ResultStatus
  <2>3. QED
    BY <2>1, <2>2
<1>2. ASSUME NEW j \in Jobs, NEW pin \in MaybeAgent, CreateJob(j, pin)
      PROVE  Shrinks
  BY <1>2 DEF CreateJob
<1>3. ASSUME NEW j \in Jobs, Pause(j) \/ Resume(j) PROVE Shrinks
  BY <1>3 DEF Pause, Resume
<1>4. ASSUME NEW S \in SUBSET Jobs, CancelPendingJobs(S) \/ FailJobs(S)
      PROVE  Shrinks
  BY <1>4 DEF CancelPendingJobs, FailJobs
<1>5. ASSUME NEW S \in SUBSET Jobs, RetryFailedJobs(S) PROVE Shrinks
  BY <1>5 DEF RetryFailedJobs
<1>6. ASSUME Maintenance PROVE Shrinks
  BY <1>6 DEF Maintenance
<1>7. ASSUME UNCHANGED <<status, claimedBy>> PROVE Shrinks
  BY <1>7
<1> HIDE DEF Shrinks
<1>8. Shrinks
  <2>1. ASSUME \/ \E a \in Administered, owned \in SUBSET Accounts :
                      Reassign(a, owned)
               \/ \E a \in Agents, account \in Accounts :
                      SessionReported(a, account)
               \/ \E j \in Jobs : ClaimLapses(j)
               \/ \E j \in Jobs : RunGoesStale(j)
        PROVE  Shrinks
    BY <2>1, <1>7
       DEF Reassign, SessionReported, ClaimLapses,
           RunGoesStale
  <2>2. ASSUME FailStaleRunning \/ \E a \in Agents : FailActiveJobs(a)
        PROVE  Shrinks
    BY <2>2 DEF FailStaleRunning, FailActiveJobs, FailJobs, Shrinks
  <2> HIDE DEF TypeOK, ActiveStatus, rowVars
  <2>3. QED
    BY <1>1, <1>2, <1>3, <1>4, <1>5, <1>6, <2>1, <2>2 DEF Next
<1>9. QED
  BY <1>8 DEF Shrinks, ActiveJobsOf

\* No agent ever has more active jobs than one claim may hand out.
THEOREM AgentBatchIsBounded == Spec => []AgentBatchBounded
<1>1. Init => AgentBatchBounded
  <2>1. ASSUME Init, NEW a \in Agents PROVE ActiveJobsOf(a) = {}
    BY <2>1 DEF Init, ActiveJobsOf, ActiveStatus
  <2>2. 0 =< MaxJobs
    BY JobQueueAssumption
  <2>3. QED
    BY <2>1, <2>2, FS_EmptySet DEF AgentBatchBounded
<1>2. OwnershipInv /\ AgentBatchBounded /\ [Next]_vars => AgentBatchBounded'
  <2> SUFFICES ASSUME OwnershipInv, AgentBatchBounded, [Next]_vars
               PROVE  AgentBatchBounded'
    OBVIOUS
  <2>1. ASSUME NEW a \in Agents, Claim(a) PROVE AgentBatchBounded'
    BY <2>1, BatchClaim DEF OwnershipInv
  <2>2. CASE Next /\ \A a \in Agents : ~Claim(a)
    BY <2>2, OnlyClaimsActivate, BatchShrinks DEF OwnershipInv
  <2>3. CASE UNCHANGED vars
    <3>1. \A a \in Agents : ActiveJobsOf(a)' = ActiveJobsOf(a)
      BY <2>3 DEF vars, rowVars, ActiveJobsOf
    <3>2. QED
      BY <3>1, BatchShrinks
  <2>4. QED
    BY <2>1, <2>2, <2>3
<1>3. QED
  BY <1>1, <1>2, OwnershipHolds, PTL DEF Spec

-----------------------------------------------------------------------------
(***************************************************************************)
(* The answer to a claim.  What ORDER BY rank LIMIT n leaves of a set of   *)
(* jobs exists and is unique, for any finite set and any n, so a claim     *)
(* always has an answer, and the tables determine it.                      *)
(***************************************************************************)

LEMMA LeastNumber ==
    ASSUME NEW T \in SUBSET Nat, T # {}
    PROVE  \E n \in T : \A m \in T : n =< m
<1>1. IsWellFoundedOn(OpToRel(<, Nat), Nat)
  BY NatLessThanWellFounded
<1>2. PICK n \in T : \A m \in T : <<m, n>> \notin OpToRel(<, Nat)
  BY <1>1, WFMin
<1>3. \A m \in T : ~(m < n)
  BY <1>2 DEF OpToRel
<1>4. QED
  BY <1>3

LEMMA RanksOrder ==
    /\ \A j \in Jobs : Rank[j] \in Nat
    /\ \A j, k \in Jobs : Rank[j] = Rank[k] => j = k
BY JobQueueAssumption

\* A set of jobs that is not empty has a first one.
LEMMA FirstJob ==
    ASSUME NEW S \in SUBSET Jobs, S # {}
    PROVE  \E s \in S : \A t \in S \ {s} : Rank[s] < Rank[t]
<1> DEFINE ranks == {Rank[s] : s \in S}
<1>1. ranks \in SUBSET Nat /\ ranks # {}
  BY RanksOrder
<1>2. PICK n \in ranks : \A m \in ranks : n =< m
  BY <1>1, LeastNumber
<1>3. PICK s \in S : n = Rank[s]
  BY <1>2
<1>4. ASSUME NEW t \in S \ {s} PROVE Rank[s] < Rank[t]
  <2>1. Rank[s] =< Rank[t] /\ Rank[s] # Rank[t]
    BY <1>2, <1>3, <1>4, RanksOrder
  <2>2. QED
    BY <2>1, RanksOrder
<1>5. QED
  BY <1>4

\* A leading part that leaves something out is extended by the first job left.
LEMMA LeadingPartGrows ==
    ASSUME NEW S \in SUBSET Jobs, NEW n \in Nat, NEW P, LeadingPart(P, S, n)
    PROVE  \E Q : LeadingPart(Q, S, n + 1)
<1>1. IsFiniteSet(P) /\ Cardinality(P) \in Nat /\ P \subseteq S
  BY JobQueueAssumption, FS_Subset, FS_CardinalityType DEF LeadingPart
<1>2. CASE P = S
  <2>1. Cardinality(P) =< n + 1
    BY <1>1 DEF LeadingPart
  <2>2. LeadingPart(S, S, n + 1)
    BY <1>2, <2>1 DEF LeadingPart
  <2>3. QED
    BY <2>2
<1>3. CASE P # S
  <2>1. Cardinality(P) = n
    BY <1>1, <1>3 DEF LeadingPart
  <2>2. PICK s \in S \ P : \A t \in (S \ P) \ {s} : Rank[s] < Rank[t]
    BY <1>1, <1>3, FirstJob
  <2>3. Cardinality(P \cup {s}) = n + 1
    BY <1>1, <2>1, <2>2, FS_AddElement
  <2>4. \A p \in P, t \in S \ P : Rank[p] < Rank[t]
    BY DEF LeadingPart
  <2>5. LeadingPart(P \cup {s}, S, n + 1)
    BY <1>1, <2>2, <2>3, <2>4 DEF LeadingPart
  <2>6. QED
    BY <2>5
<1>4. QED
  BY <1>2, <1>3

LEMMA LeadingPartExists ==
    ASSUME NEW S \in SUBSET Jobs, NEW n \in Nat
    PROVE  \E P \in SUBSET S : LeadingPart(P, S, n)
<1> DEFINE T == {m \in Nat : ~\E P : LeadingPart(P, S, m)}
<1>1. T = {}
  <2> SUFFICES ASSUME T # {} PROVE FALSE
    OBVIOUS
  <2>1. PICK m \in T : \A k \in T : m =< k
    BY LeastNumber
  <2>2. m # 0
    <3>1. Cardinality({}) = 0
      BY FS_EmptySet
    <3>2. LeadingPart({}, S, 0)
      BY <3>1 DEF LeadingPart
    <3>3. QED
      BY <2>1, <3>2
  <2>3. m - 1 \in Nat /\ ~(m =< m - 1)
    BY <2>1, <2>2
  <2>4. m - 1 \notin T
    BY <2>1, <2>3
  <2>5. PICK P : LeadingPart(P, S, m - 1)
    BY <2>3, <2>4
  <2>6. \E Q : LeadingPart(Q, S, (m - 1) + 1)
    BY <2>3, <2>5, LeadingPartGrows
  <2>7. (m - 1) + 1 = m
    BY <2>1
  <2>8. QED
    BY <2>1, <2>6, <2>7
<1>2. QED
  BY <1>1 DEF LeadingPart

LEMMA LeadingPartUnique ==
    ASSUME NEW S \in SUBSET Jobs, NEW n \in Nat, NEW P, NEW Q,
           LeadingPart(P, S, n), LeadingPart(Q, S, n)
    PROVE  P = Q
<1>1. /\ P \subseteq S /\ Q \subseteq S
      /\ IsFiniteSet(S) /\ IsFiniteSet(P) /\ IsFiniteSet(Q)
  BY JobQueueAssumption, FS_Subset DEF LeadingPart
<1>2. /\ Cardinality(S) \in Nat /\ Cardinality(P) \in Nat
      /\ Cardinality(Q) \in Nat
  BY <1>1, FS_CardinalityType
<1>3. ASSUME NEW A, NEW B, LeadingPart(A, S, n), LeadingPart(B, S, n), A = S,
             IsFiniteSet(B), Cardinality(B) \in Nat, B \subseteq S
      PROVE  B = S
  <2>1. Cardinality(S) =< n
    BY <1>3 DEF LeadingPart
  <2>2. Cardinality(B) < n => B = S
    BY <1>3 DEF LeadingPart
  <2>3. Cardinality(B) =< Cardinality(S)
    BY <1>1, <1>3, FS_Subset
  <2>4. Cardinality(B) = Cardinality(S) => B = S
    BY <1>1, <1>3, FS_Subset
  <2>5. QED
    BY <1>2, <1>3, <2>1, <2>2, <2>3, <2>4
<1>4. CASE P = S \/ Q = S
  BY <1>1, <1>2, <1>3, <1>4
<1>5. CASE P # S /\ Q # S
  <2>1. Cardinality(P) = n /\ Cardinality(Q) = n
    BY <1>2, <1>5 DEF LeadingPart
  <2>2. \A p \in P \ Q, q \in Q \ P : FALSE
    <3>1. SUFFICES ASSUME NEW p \in P \ Q, NEW q \in Q \ P PROVE FALSE
      OBVIOUS
    <3>2. Rank[p] < Rank[q] /\ Rank[q] < Rank[p]
      BY <1>1 DEF LeadingPart
    <3>3. Rank[p] \in Nat /\ Rank[q] \in Nat
      BY <1>1, RanksOrder
    <3>4. QED
      BY <3>2, <3>3
  <2>3. P \subseteq Q \/ Q \subseteq P
    BY <2>2
  <2>4. P \subseteq Q => P = Q
    BY <1>1, <2>1, FS_Subset
  <2>5. Q \subseteq P => P = Q
    BY <1>1, <2>1, FS_Subset
  <2>6. QED
    BY <2>3, <2>4, <2>5
<1>6. QED
  BY <1>4, <1>5

\* A claim always has an answer, and the tables leave no choice: of two
\* requests that read the same rows, both are given the same jobs.
THEOREM ClaimsHaveOneAnswer ==
    ASSUME NEW a \in Agents
    PROVE  \E picked \in SUBSET Jobs :
              /\ Claimable(a, picked)
              /\ \A other : Claimable(a, other) => other = picked
<1> DEFINE waiting == {j \in Supported[a] : Waiting(j)}
           runnable(W) == {j \in W : CanRunJob(a, j)}
<1>1. /\ waiting \in SUBSET Jobs
      /\ MaxJobs \in Nat /\ MaxJobs * WindowFactor \in Nat
  BY JobQueueAssumption
<1>2. PICK window \in SUBSET waiting :
        LeadingPart(window, waiting, MaxJobs * WindowFactor)
  BY <1>1, LeadingPartExists
<1>3. runnable(window) \in SUBSET Jobs
  BY <1>1
<1> HIDE DEF waiting, runnable
<1>4. PICK picked \in SUBSET runnable(window) :
        LeadingPart(picked, runnable(window), MaxJobs)
  BY <1>1, <1>3, LeadingPartExists
<1>5. picked \in SUBSET Jobs /\ window \in SUBSET Jobs
  BY <1>1, <1>3, <1>4
<1>6. Claimable(a, picked)
  BY <1>2, <1>4, <1>5 DEF Claimable, waiting, runnable
<1>7. ASSUME NEW other, Claimable(a, other) PROVE other = picked
  <2>1. PICK W \in SUBSET Jobs :
          /\ LeadingPart(W, waiting, MaxJobs * WindowFactor)
          /\ LeadingPart(other, runnable(W), MaxJobs)
    BY <1>7 DEF Claimable, waiting, runnable
  <2>2. W = window
    BY <1>1, <1>2, <2>1, LeadingPartUnique
  <2>3. QED
    BY <1>1, <1>3, <1>4, <2>1, <2>2, LeadingPartUnique
<1>8. QED
  BY <1>5, <1>6, <1>7

\* A claim hands out no job before one of higher priority that the agent
\* could have had: neither the window of candidates nor the filter behind it
\* lets a later job overtake.
THEOREM ClaimsKeepTheOrder ==
    ASSUME NEW a \in Agents, NEW picked, Claimable(a, picked),
           NEW p \in picked, NEW j \in Supported[a],
           Waiting(j), CanRunJob(a, j), Rank[j] < Rank[p]
    PROVE  j \in picked
<1>1. PICK window \in SUBSET Jobs :
        /\ LeadingPart(window, {k \in Supported[a] : Waiting(k)},
                       MaxJobs * WindowFactor)
        /\ LeadingPart(picked, {k \in window : CanRunJob(a, k)}, MaxJobs)
  BY DEF Claimable
<1>2. p \in window
  BY <1>1 DEF LeadingPart
<1>3. Rank[p] \in Nat /\ Rank[j] \in Nat
  BY <1>1, <1>2, RanksOrder, JobQueueAssumption
<1>4. ~(Rank[p] < Rank[j])
  BY <1>3
<1>5. j \in window
  BY <1>1, <1>2, <1>4 DEF LeadingPart
<1>6. QED
  BY <1>1, <1>4, <1>5 DEF LeadingPart

\* A claim comes back empty only because none of the jobs at the head of the
\* queue, as many as are read for one claim, is one the agent may run: jobs
\* further down are not reached then.
THEOREM ClaimsFindWork ==
    ASSUME NEW a \in Agents, Claimable(a, {})
    PROVE  \E window \in SUBSET Jobs :
              /\ LeadingPart(window, {j \in Supported[a] : Waiting(j)},
                             MaxJobs * WindowFactor)
              /\ \A j \in window : ~CanRunJob(a, j)
<1>1. PICK window \in SUBSET Jobs :
        /\ LeadingPart(window, {j \in Supported[a] : Waiting(j)},
                       MaxJobs * WindowFactor)
        /\ LeadingPart({}, {j \in window : CanRunJob(a, j)}, MaxJobs)
  BY DEF Claimable
<1>2. Cardinality({}) = 0 /\ 0 < MaxJobs
  BY FS_EmptySet, JobQueueAssumption
<1>3. {} = {j \in window : CanRunJob(a, j)}
  BY <1>1, <1>2 DEF LeadingPart
<1>4. QED
  BY <1>1, <1>3

-----------------------------------------------------------------------------
(* Recovery and results.                                                   *)

\* One pass of the maintenance script leaves no claim whose time is over and
\* no run that is overdue, and queues an overdue run again only within its
\* budget; any agent's claim reaps every agent's expired claims, its own that
\* an answer lost among them.  This is what both liveness properties rest on.
THEOREM RecoveryLeavesNothing ==
    Spec => [][/\ Maintenance =>
                    \A j \in Jobs :
                        /\ ~ExpiredClaim(j)' /\ ~StaleRunning(j)'
                        /\ StaleRunning(j) /\ status'[j] = "pending"
                             => HasRetryBudget(retryCount'[j])
               /\ \A a \in Agents : Claim(a) => \A j \in Jobs : ~ExpiredClaim(j)']_vars
<1>1. ASSUME TypeOK, Maintenance, NEW j \in Jobs
      PROVE  /\ ~ExpiredClaim(j)' /\ ~StaleRunning(j)'
             /\ StaleRunning(j) /\ status'[j] = "pending"
                  => HasRetryBudget(retryCount'[j])
  BY <1>1
  DEF TypeOK, Maintenance, ExpiredClaim, StaleRunning, Recoverable, HasRetryBudget
<1>2. ASSUME TypeOK, NEW a \in Agents, Claim(a), NEW j \in Jobs
      PROVE  ~ExpiredClaim(j)'
  BY <1>2 DEF Claim, ExpiredClaim, ClaimDeadline
<1>3. TypeOK /\ [Next]_vars =>
        [/\ Maintenance =>
              \A j \in Jobs :
                  /\ ~ExpiredClaim(j)' /\ ~StaleRunning(j)'
                  /\ StaleRunning(j) /\ status'[j] = "pending"
                       => HasRetryBudget(retryCount'[j])
         /\ \A a \in Agents : Claim(a) => \A j \in Jobs : ~ExpiredClaim(j)']_vars
  BY <1>1, <1>2
<1>4. QED
  BY <1>3, JobQueueTyped, PTL DEF Spec

\* Results and cancellations are final, and no row is taken away: not even a
\* retry of a whole run, a recovery or the late report of a former owner
\* changes the status of a job that has succeeded or was cancelled.
THEOREM ResultsAreFinal ==
    ASSUME NEW j \in Jobs, NEW result \in {"success", "cancelled"}
    PROVE  Spec => [](status[j] = result => [](status[j] = result))
<1>1. ASSUME TypeOK, [Next]_vars, status[j] = result PROVE (status[j] = result)'
  <2>1. Lifecycle!Next \/ UNCHANGED status
    BY <1>1, LifecycleStep DEF vars, rowVars
  <2>2. ASSUME Lifecycle!Next PROVE status'[j] = result
    BY <1>1, <2>2
    DEF Lifecycle!Next, Lifecycle!Submit, Lifecycle!HandOut, Lifecycle!Begin,
        Lifecycle!Finish, Lifecycle!Pause, Lifecycle!Resume, Lifecycle!Fail,
        Lifecycle!Cancel, Lifecycle!Retry, Lifecycle!Recover,
        Lifecycle!SetStatus, Lifecycle!CanMove, Lifecycle!AllowedTransitions,
        Lifecycle!ResultStatus
  <2>3. QED
    BY <1>1, <2>1, <2>2
<1>2. QED
  BY <1>1, JobQueueTyped, PTL DEF Spec
=============================================================================

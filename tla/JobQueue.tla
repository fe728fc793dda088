------------------------------ MODULE JobQueue ------------------------------
(***************************************************************************)
(* The jobs table of the central server and the operations of              *)
(* JobRepository on it, each one as a single atomic step (one committed    *)
(* transaction).  Local agents are the environment: an agent that was      *)
(* handed a job by a claim may call back about it at any later time, once, *)
(* several times, out of order or never.                                   *)
(*                                                                         *)
(* Time is abstracted to the two comparisons the code makes: whether       *)
(* claim_expires_at lies in the past and whether started_at lies before    *)
(* the running-timeout cutoff.                                             *)
(*                                                                         *)
(* The status "retired" of an agent, which a claim asks for, is no state of *)
(* the program: the request that sets it puts the row "offline" before it  *)
(* commits, and a claim treats online and offline agents alike.            *)
(***************************************************************************)
EXTENDS JobStateMachine, Naturals, FiniteSets

CONSTANTS
    Agents,        \* ids of the registered local agents
    Jobs,          \* ids of the rows the jobs table may ever hold
    Accounts,      \* ids of the platform accounts
    NoAgent,       \* a NULL agent column
    NoAccount,     \* a NULL account column
    Rank,          \* place of a job in the order (priority, created_at)
    Supported,     \* the jobs whose type an agent lists in its claim request
    AccountOf,     \* jobs.account_id
    MaxJobs,       \* max_jobs of a claim request
    WindowFactor,  \* candidates read per requested job (5 in the code)
    MaxRetries,    \* jobs.max_retries (3 in the code)
    MaxResumes,    \* bound: resumes of a failed job in one behaviour
    Administered   \* bound: the agents administrators bind to other employees

ASSUME JobQueueAssumption ==
    /\ NoAgent \notin Agents
    /\ NoAccount \notin Accounts
    /\ IsFiniteSet(Jobs)
    /\ Rank \in [Jobs -> Nat]
    /\ \A j, k \in Jobs : Rank[j] = Rank[k] => j = k
    /\ Supported \in [Agents -> SUBSET Jobs]
    /\ AccountOf \in [Jobs -> Accounts \cup {NoAccount}]
    /\ MaxJobs \in Nat \ {0}
    /\ WindowFactor \in Nat \ {0}
    /\ MaxRetries \in Nat \ {0}
    /\ MaxResumes \in Nat
    /\ Administered \subseteq Agents

VARIABLES
    status,        \* jobs.status; "absent" before the row is inserted
    localAgent,    \* jobs.local_agent_id, the agent the job is pinned to
    claimedBy,     \* jobs.claimed_by_agent_id
    claimExpiry,   \* jobs.claim_expires_at: "none", in the "future" or "past"
    startedAt,     \* jobs.started_at: "none", "recent" or "stale"
    retryCount,    \* jobs.retry_count
    checkpoint,    \* jobs.checkpoint_json: "empty" or "saved"
    manages,       \* agent/account pairs the employee check lets through
    ready,         \* agent/account pairs with a ready account session
    held,          \* agent/job pairs handed out by some claim so far
    resumed        \* history: resumes that took the job out of "failed"

rowVars   == <<status, localAgent, claimedBy, claimExpiry, startedAt,
               retryCount, checkpoint>>
agentVars == <<manages, ready, held>>
vars      == <<rowVars, agentVars, resumed>>

MaybeAgent == Agents \cup {NoAgent}

-----------------------------------------------------------------------------
(* The status machine and the guards the operations share.                 *)

\* The call of assert_transition is forgotten.
AnyMove(j, target) == status[j] # "absent"

CanMove(j, target) == <<status[j], target>> \in AllowedTransitions

\* A slip in the owner check: the callback of any agent is let through.
AnyCaller(a, j) == TRUE

\* A callback is refused only when the row names another owner.
EnsureClaimOwner(a, j) == claimedBy[j] \in {NoAgent, a}

\* A slip in the comparison with the clock: claims still alive match.
UnexpiredClaim(j) == status[j] = "claimed" /\ claimExpiry[j] = "future"

ExpiredClaim(j) == status[j] = "claimed" /\ claimExpiry[j] = "past"

\* The same slip in the query for stale running jobs.
FreshRunning(j) == status[j] = "running" /\ startedAt[j] = "recent"

StaleRunning(j) == status[j] = "running" /\ startedAt[j] = "stale"

\* A slip in the retry guard: one attempt too many.
RetryBudgetOffByOne(n) == n =< MaxRetries

HasRetryBudget(n) == n < MaxRetries

-----------------------------------------------------------------------------
(* Claiming.  requeue_expired_claims runs first in the same transaction,   *)
(* so the rest of the claim sees an expired claim as pending and unpinned. *)

Waiting(j) == status[j] = "pending" \/ ExpiredClaim(j)

PinSeen(j) == IF ExpiredClaim(j) THEN NoAgent ELSE localAgent[j]

\* The part P of S that an ORDER BY rank LIMIT n returns.
LeadingPart(P, S, n) ==
    /\ P \subseteq S
    /\ Cardinality(P) =< n
    /\ Cardinality(P) < n => P = S
    /\ \A p \in P, s \in S \ P : Rank[p] < Rank[s]

\* A slip in the busy check: an agent that only holds a running job, not a
\* claimed one, counts as busy.
BusyIfRunning(a) ==
    \E j \in Jobs : claimedBy[j] = a /\ status[j] = "running"

HasActiveWork(a) ==
    \E j \in Jobs : /\ claimedBy[j] = a
                    /\ status[j] \in ActiveStatus
                    /\ ~ExpiredClaim(j)

\* Two checks swapped: a pinned job skips the employee check.
CanRunIfPinned(a, j) ==
    /\ PinSeen(j) \in {NoAgent, a}
    /\ ~HasActiveWork(a)
    /\ PinSeen(j) = a \/ AccountOf[j] = NoAccount

CanRunJob(a, j) ==
    /\ PinSeen(j) \in {NoAgent, a}
    /\ ~HasActiveWork(a)
    /\ \/ AccountOf[j] = NoAccount
       \/ /\ <<a, AccountOf[j]>> \in manages
          /\ PinSeen(j) = a \/ <<a, AccountOf[j]>> \in ready

\* The jobs a claim of agent a may take: the candidate query, then the
\* eligibility filter, then the first MaxJobs of what is left.
Claimable(a, picked) ==
    \E window \in SUBSET Jobs :
      /\ LeadingPart(window, {j \in Supported[a] : Waiting(j)},
                     MaxJobs * WindowFactor)
      /\ LeadingPart(picked, {j \in window : CanRunJob(a, j)}, MaxJobs)

\* The assignment of claim_expires_at is forgotten.
NoDeadline == "none"

ClaimDeadline == "future"

Claim(a) ==
    \E picked \in SUBSET Jobs :
      /\ Claimable(a, picked)
      /\ status' = [j \in Jobs |-> IF j \in picked THEN "claimed"
                                   ELSE IF ExpiredClaim(j) THEN "pending"
                                   ELSE status[j]]
      /\ localAgent' = [j \in Jobs |-> IF j \in picked THEN a ELSE PinSeen(j)]
      /\ claimedBy' = [j \in Jobs |-> IF j \in picked THEN a
                                      ELSE IF ExpiredClaim(j) THEN NoAgent
                                      ELSE claimedBy[j]]
      /\ claimExpiry' = [j \in Jobs |->
                           IF j \in picked THEN ClaimDeadline
                           ELSE IF ExpiredClaim(j) THEN "none"
                           ELSE claimExpiry[j]]
      /\ held' = held \cup {<<a, j>> : j \in picked}
      /\ UNCHANGED <<startedAt, retryCount, checkpoint, manages, ready, resumed>>

-----------------------------------------------------------------------------
(* Callbacks of an agent about a job it was handed.                        *)

Start(a, j) ==
    /\ <<a, j>> \in held
    /\ EnsureClaimOwner(a, j)
    /\ CanMove(j, "running")
    /\ status' = [status EXCEPT ![j] = "running"]
    /\ claimedBy' = [claimedBy EXCEPT ![j] = a]
    /\ startedAt' = [startedAt EXCEPT ![j] = "recent"]
    /\ UNCHANGED <<localAgent, claimExpiry, retryCount, checkpoint,
                   agentVars, resumed>>

\* update_checkpoint looks at the owner only, not at the status.
Progress(a, j) ==
    /\ <<a, j>> \in held
    /\ EnsureClaimOwner(a, j)
    /\ checkpoint' = [checkpoint EXCEPT ![j] = "saved"]
    /\ UNCHANGED <<status, localAgent, claimedBy, claimExpiry, startedAt,
                   retryCount, agentVars, resumed>>

\* With one of the results that an executor reports; the request itself takes
\* whatever status the status machine allows.
Complete(a, j, result) ==
    /\ <<a, j>> \in held
    /\ EnsureClaimOwner(a, j)
    /\ CanMove(j, result)
    /\ status' = [status EXCEPT ![j] = result]
    /\ UNCHANGED <<localAgent, claimedBy, claimExpiry, startedAt, retryCount,
                   checkpoint, agentVars, resumed>>

\* The request repeats the checkpoint handed out with the claim; an empty one
\* leaves the stored one alone.
Fail(a, j) ==
    /\ <<a, j>> \in held
    /\ EnsureClaimOwner(a, j)
    /\ CanMove(j, "failed")
    /\ status' = [status EXCEPT ![j] = "failed"]
    /\ retryCount' = [retryCount EXCEPT ![j] = @ + 1]
    /\ UNCHANGED <<localAgent, claimedBy, claimExpiry, startedAt,
                   checkpoint, agentVars, resumed>>

-----------------------------------------------------------------------------
(* Operations of operators, schedulers and maintenance.                    *)

CreateJob(j, pin) ==
    /\ status[j] = "absent"
    /\ status' = [status EXCEPT ![j] = "pending"]
    /\ localAgent' = [localAgent EXCEPT ![j] = pin]
    /\ UNCHANGED <<claimedBy, claimExpiry, startedAt, retryCount,
                   checkpoint, agentVars, resumed>>

Pause(j) ==
    /\ CanMove(j, "paused")
    /\ status' = [status EXCEPT ![j] = "paused"]
    /\ UNCHANGED <<localAgent, claimedBy, claimExpiry, startedAt, retryCount,
                   checkpoint, agentVars, resumed>>

\* The owner column becomes an empty string instead of NULL.
EmptyOwner(j) == ""

\* What resume and retry_failed_job leave in claimed_by_agent_id.
OwnerOnceReleased(j) == NoAgent

\* resume asks the status machine only: it also revives failed and
\* partly successful jobs, whatever their retry count.
Resume(j) ==
    /\ CanMove(j, "pending")
    /\ status[j] = "failed" => resumed[j] < MaxResumes
    /\ status' = [status EXCEPT ![j] = "pending"]
    /\ claimedBy' = [claimedBy EXCEPT ![j] = OwnerOnceReleased(j)]
    /\ claimExpiry' = [claimExpiry EXCEPT ![j] = "none"]
    /\ resumed' = IF status[j] = "failed"
                  THEN [resumed EXCEPT ![j] = @ + 1] ELSE resumed
    /\ UNCHANGED <<localAgent, startedAt, retryCount, checkpoint, agentVars>>

\* Cancelling the pending rows S: one row, those of a task run, or those a
\* cleanup filter selects.
CancelPendingJobs(S) ==
    /\ \A j \in S : status[j] = "pending" /\ CanMove(j, "cancelled")
    /\ status' = [j \in Jobs |-> IF j \in S THEN "cancelled" ELSE status[j]]
    /\ UNCHANGED <<localAgent, claimedBy, claimExpiry, startedAt, retryCount,
                   checkpoint, agentVars, resumed>>

\* retry_failed_job on each row of S: one row or the failed ones of a run.
RetryFailedJobs(S) ==
    /\ \A j \in S : status[j] = "failed" /\ HasRetryBudget(retryCount[j])
    /\ status' = [j \in Jobs |-> IF j \in S THEN "pending" ELSE status[j]]
    /\ claimedBy' = [j \in Jobs |-> IF j \in S THEN OwnerOnceReleased(j)
                                    ELSE claimedBy[j]]
    /\ claimExpiry' = [j \in Jobs |-> IF j \in S THEN "none"
                                      ELSE claimExpiry[j]]
    /\ startedAt' = [j \in Jobs |-> IF j \in S THEN "none" ELSE startedAt[j]]
    /\ UNCHANGED <<localAgent, retryCount, checkpoint, agentVars, resumed>>

\* mark_failed without an agent id on the rows S, checkpoints untouched.
FailJobs(S) ==
    /\ status' = [j \in Jobs |-> IF j \in S THEN "failed" ELSE status[j]]
    /\ retryCount' = [j \in Jobs |-> IF j \in S THEN retryCount[j] + 1
                                     ELSE retryCount[j]]
    /\ UNCHANGED <<localAgent, claimedBy, claimExpiry, startedAt,
                   checkpoint, agentVars, resumed>>

FailStaleRunning == FailJobs({j \in Jobs : StaleRunning(j)})

FailActiveJobs(a) ==
    FailJobs({j \in Jobs : claimedBy[j] = a /\ status[j] \in ActiveStatus})

\* A stale running job is failed and, budget permitting, queued again.
Recoverable(j) == StaleRunning(j) /\ HasRetryBudget(retryCount[j] + 1)

\* One maintenance pass: requeue_expired_claims, then
\* recover_stale_running_jobs.
Maintenance ==
    LET released == {j \in Jobs : ExpiredClaim(j) \/ Recoverable(j)}
    IN  /\ status' = [j \in Jobs |-> IF j \in released THEN "pending"
                                     ELSE IF StaleRunning(j) THEN "failed"
                                     ELSE status[j]]
        /\ localAgent' = [j \in Jobs |-> PinSeen(j)]
        /\ claimedBy' = [j \in Jobs |-> IF j \in released THEN NoAgent
                                        ELSE claimedBy[j]]
        /\ claimExpiry' = [j \in Jobs |-> IF j \in released THEN "none"
                                          ELSE claimExpiry[j]]
        /\ startedAt' = [j \in Jobs |-> IF Recoverable(j) THEN "none"
                                        ELSE startedAt[j]]
        /\ retryCount' = [j \in Jobs |-> IF StaleRunning(j)
                                         THEN retryCount[j] + 1
                                         ELSE retryCount[j]]
        /\ UNCHANGED <<checkpoint, agentVars, resumed>>

-----------------------------------------------------------------------------
(* Agent rows and account sessions, as far as claiming reads them.         *)

\* The agent is bound to another employee, or to none; owned are the
\* accounts it may serve from then on.
Reassign(a, owned) ==
    /\ manages' = {p \in manages : p[1] # a} \cup ({a} \X owned)
    /\ UNCHANGED <<rowVars, ready, held, resumed>>

\* An account session is stored as ready, or as anything else.
SessionReported(a, account) ==
    /\ \/ ready' = ready \cup {<<a, account>>}
       \/ ready' = ready \ {<<a, account>>}
    /\ UNCHANGED <<rowVars, manages, held, resumed>>

(* The clock passes claim_expires_at, or the running timeout.  Both columns *)
(* are compared only while the job is claimed, respectively running.        *)
ClaimLapses(j) ==
    /\ status[j] = "claimed" /\ claimExpiry[j] = "future"
    /\ claimExpiry' = [claimExpiry EXCEPT ![j] = "past"]
    /\ UNCHANGED <<status, localAgent, claimedBy, startedAt, retryCount,
                   checkpoint, agentVars, resumed>>

RunGoesStale(j) ==
    /\ status[j] = "running" /\ startedAt[j] = "recent"
    /\ startedAt' = [startedAt EXCEPT ![j] = "stale"]
    /\ UNCHANGED <<status, localAgent, claimedBy, claimExpiry, retryCount,
                   checkpoint, agentVars, resumed>>

-----------------------------------------------------------------------------
Init ==
    /\ status = [j \in Jobs |-> "absent"]
    /\ localAgent = [j \in Jobs |-> NoAgent]
    /\ claimedBy = [j \in Jobs |-> NoAgent]
    /\ claimExpiry = [j \in Jobs |-> "none"]
    /\ startedAt = [j \in Jobs |-> "none"]
    /\ retryCount = [j \in Jobs |-> 0]
    /\ checkpoint = [j \in Jobs |-> "empty"]
    /\ manages \in SUBSET (Agents \X Accounts)
    /\ ready = {}
    /\ held = {}
    /\ resumed = [j \in Jobs |-> 0]

AgentCall(a, j) ==
    \/ Start(a, j)
    \/ Progress(a, j)
    \/ \E result \in ResultStatus : Complete(a, j, result)
    \/ Fail(a, j)

Next ==
    \/ \E j \in Jobs, pin \in MaybeAgent : CreateJob(j, pin)
    \/ \E a \in Agents : Claim(a)
    \/ \E a \in Agents, j \in Jobs : AgentCall(a, j)
    \/ \E j \in Jobs : Pause(j)
    \/ \E j \in Jobs : Resume(j)
    \/ \E S \in SUBSET Jobs : CancelPendingJobs(S)
    \/ \E S \in SUBSET Jobs : RetryFailedJobs(S)
    \/ FailStaleRunning
    \/ \E a \in Agents : FailActiveJobs(a)
    \/ Maintenance
    \/ \E a \in Administered, owned \in SUBSET Accounts : Reassign(a, owned)
    \/ \E a \in Agents, account \in Accounts : SessionReported(a, account)
    \/ \E j \in Jobs : ClaimLapses(j)
    \/ \E j \in Jobs : RunGoesStale(j)

Spec == Init /\ [][Next]_vars

\* The clock advances, some agent keeps polling for work, and the
\* maintenance script keeps being run.  Nothing is asked of an agent that
\* holds a job, nor of the operators.
Fairness ==
    /\ \A j \in Jobs : WF_vars(ClaimLapses(j)) /\ WF_vars(RunGoesStale(j))
    /\ WF_vars(\E a \in Agents : Claim(a))
    /\ WF_vars(Maintenance)

FairSpec == Spec /\ Fairness
-----------------------------------------------------------------------------
(* Properties.                                                             *)

\* Every column holds a value of its type.
TypeOK ==
    /\ status \in [Jobs -> JobStatus]
    /\ localAgent \in [Jobs -> MaybeAgent]
    /\ claimedBy \in [Jobs -> MaybeAgent]
    /\ claimExpiry \in [Jobs -> {"none", "future", "past"}]
    /\ startedAt \in [Jobs -> {"none", "recent", "stale"}]
    /\ retryCount \in [Jobs -> Nat]
    /\ checkpoint \in [Jobs -> {"empty", "saved"}]
    /\ manages \subseteq Agents \X Accounts
    /\ ready \subseteq Agents \X Accounts
    /\ held \subseteq Agents \X Jobs
    /\ resumed \in [Jobs -> Nat]

\* A claimed or running job names an owner, and it is the agent the job is
\* pinned to: _ensure_claim_owner lets every caller through when the owner
\* column is NULL, so no sequence of pauses, expiries, retries and late
\* callbacks may leave an active job without one.
ActiveJobsOwned ==
    \A j \in Jobs : status[j] \in ActiveStatus =>
        claimedBy[j] \in Agents /\ localAgent[j] = claimedBy[j]

\* A queued job has no owner left over from an earlier claim, whichever way
\* it returned to the queue.  The next claim overwrites the column in any case;
\* this is what OwnershipInv needs to know of the rows that a claim passes over.
QueuedJobsUnowned ==
    \A j \in Jobs : status[j] \in {"absent", "pending"} =>
        claimedBy[j] = NoAgent

\* Nothing active is invisible to recovery: requeue_expired_claims skips
\* rows without claim_expires_at, the stale-running query rows without
\* started_at.
ActiveJobsRecoverable ==
    \A j \in Jobs :
        /\ status[j] = "claimed" => claimExpiry[j] # "none"
        /\ status[j] = "running" => startedAt[j] # "none"

ActiveJobsOf(a) ==
    {j \in Jobs : claimedBy[j] = a /\ status[j] \in ActiveStatus}

\* An agent never has more active jobs than one claim request may return,
\* however its claims interleave with pauses, resumes and expiries.
AgentBatchBounded ==
    \A a \in Agents : Cardinality(ActiveJobsOf(a)) =< MaxJobs

\* An account's job only comes into the hands of an agent that, at that
\* moment, is not bound to another employee than the account: neither the pin
\* of an earlier claim, nor a late callback, nor a return to the queue carries
\* the job round the check.
AccountWorkAuthorised ==
    [][\A a \in Agents, j \in Jobs :
         /\ AccountOf[j] # NoAccount
         /\ claimedBy[j] # a
         /\ claimedBy'[j] = a
         => <<a, AccountOf[j]>> \in manages]_vars

\* Only an operator's resume of a failed job takes it beyond its retry
\* budget: failures reported by agents, timeouts, maintenance recovery,
\* retries of a job and of a whole run cannot do it together.
RetryBudgetKept ==
    \A j \in Jobs :
        /\ retryCount[j] =< MaxRetries + resumed[j]
        /\ status[j] # "failed" => retryCount[j] < MaxRetries + resumed[j]

\* "Reject stale agent callbacks once a job has an explicit owner": an
\* agent's callback that changes an active job comes from its owner, even
\* when the caller once held the job itself.
CallbacksFenced ==
    [][\A a \in Agents, j \in Jobs :
         AgentCall(a, j) /\ status[j] \in ActiveStatus => claimedBy[j] = a]_vars

\* A job is handed to another agent only from the queue or after its claim
\* expired: while a claim lives, or the job runs, the owner column only
\* changes by sending the job back to the queue without an owner.
LiveClaimKept ==
    [][\A j \in Jobs :
         status[j] \in ActiveStatus /\ ~ExpiredClaim(j) =>
           \/ claimedBy'[j] = claimedBy[j]
           \/ status'[j] = "pending" /\ claimedBy'[j] = NoAgent]_vars

\* However calls interleave, the status of jobs only moves as the operations
\* of the abstract queue move it: a result, full or partial, is only given to a
\* running job, and success and cancellation are final; a partial success may be
\* resumed, a pending job cancelled unstarted and a claimed one fail unstarted.
Lifecycle == INSTANCE JobLifecycle WITH Jobs <- Jobs, status <- status
LifecycleKept == Lifecycle!Spec

\* The claim of an agent that has died, and so claims nothing any more, does
\* not keep its job for ever: the polling of any other agent takes it back.
DeadAgentsClaimsEnd ==
    \A a \in Agents, j \in Jobs :
        \/ []<><<Claim(a)>>_vars
        \/ status[j] = "claimed" /\ claimedBy[j] = a
              ~> ~(status[j] = "claimed" /\ claimedBy[j] = a)

\* No job stays running for ever after its agent has died: the maintenance
\* pass ends it.
RunsEnd == \A j \in Jobs : status[j] = "running" ~> status[j] # "running"
=============================================================================

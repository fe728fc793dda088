----------------------------- MODULE AgentLoop ------------------------------
(***************************************************************************)
(* Local agents at work on the jobs of the central server: the loop that   *)
(* claims jobs and handles them one after the other, the protection of the *)
(* account that delays and counts them, the local record of runs, and the    *)
(* calls to the server, each of which may fail before or after the server  *)
(* has acted on it.  The server side is JobQueue; a call that the queue    *)
(* would refuse, and one that does not reach it, look alike to the agent.  *)
(***************************************************************************)
EXTENDS Naturals, FiniteSets

CONSTANTS
    Agents, Jobs, NoAgent, NoAccount, Rank, Supported, MaxJobs, WindowFactor,
    MaxRetries,    \* as in JobQueue
    NoJob,         \* the agent has no job in hand
    Workloads      \* bound: which agents run, which jobs are submitted, and
                   \* which of them operators pause, resume and retry

ASSUME AgentLoopAssumption ==
    /\ NoJob \notin Jobs /\ NoAgent \notin Agents /\ IsFiniteSet(Jobs)
    /\ Rank \in [Jobs -> Nat]
    /\ \A j, k \in Jobs : Rank[j] = Rank[k] => j = k
    /\ Supported \in [Agents -> SUBSET Jobs]
    /\ {MaxJobs, WindowFactor, MaxRetries} \subseteq Nat \ {0}
    /\ Workloads \subseteq [agents : SUBSET Agents, jobs : SUBSET Jobs,
                           attended : SUBSET Jobs]

VARIABLES
    status, localAgent, claimedBy, claimExpiry, startedAt, retryCount,
    checkpoint, manages, ready, held, resumed,  \* as in JobQueue
    phase,         \* where the loop of an agent is
    inHand,        \* the job that _handle_job is at work on
    batch,         \* jobs of the last claim that have not been handled yet
    runningIds,    \* running_job_ids, as reported by heartbeats
    openRuns,      \* collect_run rows that this process has opened and not closed
    cooling,       \* backoff_until lies in the future
    load,          \* the member of Workloads looked at
    interrupted    \* history: executions whose job was taken from "running"

serverVars == <<status, localAgent, claimedBy, claimExpiry, startedAt,
                retryCount, checkpoint, manages, ready, held, resumed>>
loopVars   == <<phase, inHand, batch, runningIds>>
storeVars  == <<openRuns, cooling>>
vars       == <<serverVars, loopVars, storeVars, load, interrupted>>

\* Jobs without an account share one row of account_risk_state.
Queue == INSTANCE JobQueue WITH Accounts <- {},
                                AccountOf <- [j \in Jobs |-> NoAccount],
                                Administered <- {}, MaxResumes <- 0

Phases == {"idle", "waiting", "denied", "admitted", "executing", "reporting",
           "broken", "telling"}

InHand(a) == (IF inHand[a] = NoJob THEN {} ELSE {inHand[a]}) \cup batch[a]

Executes(a, j) == phase[a] = "executing" /\ inHand[a] = j

-----------------------------------------------------------------------------
(* Steps of the loop and their calls.                                      *)

GoTo(a, value) ==
    /\ phase' = [phase EXCEPT ![a] = value]
    /\ UNCHANGED <<inHand, batch, runningIds>>

\* A slip: the id is only taken out when the last call went well.
LetGoIfTold(a, rest, told) ==
    /\ phase' = [phase EXCEPT ![a] = "idle"]
    /\ inHand' = [inHand EXCEPT ![a] = NoJob]
    /\ batch' = [batch EXCEPT ![a] = rest]
    /\ runningIds' = IF told THEN [runningIds EXCEPT ![a] = @ \ {inHand[a]}]
                     ELSE runningIds

\* Another slip: the job stays in hand.
LetGoHolding(a, rest, told) ==
    /\ phase' = [phase EXCEPT ![a] = "idle"]
    /\ batch' = [batch EXCEPT ![a] = rest]
    /\ runningIds' = [runningIds EXCEPT ![a] = @ \ {inHand[a]}]
    /\ UNCHANGED inHand

\* _handle_job is left; an exception leaves the loop over the batch as well.
LetGo(a, rest, told) ==
    /\ phase' = [phase EXCEPT ![a] = "idle"]
    /\ inHand' = [inHand EXCEPT ![a] = NoJob]
    /\ batch' = [batch EXCEPT ![a] = rest]
    /\ runningIds' = [runningIds EXCEPT ![a] = @ \ {inHand[a]}]

NotTaken == UNCHANGED serverVars

\* A call that raises: its answer is lost, or it was refused, or never arrived.
Fails(call) == call \/ NotTaken

\* A slip: an agent that believes it is at work does not claim.
MayPollAtRest(a) == phase[a] = "idle" /\ batch[a] = {} /\ runningIds[a] = {}

MayPoll(a) == phase[a] = "idle" /\ batch[a] = {}

\* run_once: the jobs handed out, unless the answer is lost.
Poll(a) ==
    LET picked == {j \in Jobs : /\ claimedBy'[j] = a /\ status'[j] = "claimed"
                                /\ \/ status[j] # "claimed"
                                   \/ Queue!ExpiredClaim(j)}
    IN  /\ MayPoll(a) /\ a \in load.agents
        /\ Queue!Claim(a)
        /\ \E answer \in {picked, {}} : batch' = [batch EXCEPT ![a] = answer]
        /\ UNCHANGED <<phase, inHand, runningIds, storeVars, load, interrupted>>

TakeJob(a) ==
    /\ phase[a] = "idle"
    /\ \E j \in batch[a] :
         /\ \A k \in batch[a] : Rank[j] =< Rank[k]
         /\ phase' = [phase EXCEPT ![a] = "waiting"]
         /\ inHand' = [inHand EXCEPT ![a] = j]
         /\ batch' = [batch EXCEPT ![a] = @ \ {j}]
         /\ runningIds' = [runningIds EXCEPT ![a] = @ \cup {j}]
         /\ openRuns' = [openRuns EXCEPT ![a] = @ \cup {j}]
    /\ UNCHANGED <<serverVars, cooling, load, interrupted>>

\* finish_collect_run.
CloseRun(a) == openRuns' = [openRuns EXCEPT ![a] = @ \ {inHand[a]}]

\* A slip: the refusal by the budget leaves the local run open.
DeniedOnly(a) == UNCHANGED openRuns

DeniedRun(a) == CloseRun(a)

\* before_job, once its sleep is over: the budget of the day, which is not
\* counted here, admits the job or does not.
Admit(a) ==
    /\ phase[a] = "waiting" /\ ~cooling[a]
    /\ \/ GoTo(a, "admitted") /\ UNCHANGED openRuns
       \/ GoTo(a, "denied") /\ DeniedRun(a)
    /\ UNCHANGED <<serverVars, cooling, load, interrupted>>

\* Here nothing catches the exception of fail_job: the id stays.
TellDenial(a) ==
    /\ phase[a] = "denied"
    /\ \/ Queue!Fail(a, inHand[a]) /\ LetGo(a, batch[a], TRUE)
       \/ /\ Fails(Queue!Fail(a, inHand[a]))
          /\ phase' = [phase EXCEPT ![a] = "idle"]
          /\ inHand' = [inHand EXCEPT ![a] = NoJob]
          /\ batch' = [batch EXCEPT ![a] = {}]
          /\ UNCHANGED runningIds
    /\ UNCHANGED <<storeVars, load, interrupted>>

\* A slip: the answer of start_job is not looked at.
AnywayPhase == "executing"

\* The phase after a start that was refused, lost or not answered.
RefusedPhase == "broken"

StartJob(a) ==
    /\ phase[a] = "admitted"
    /\ \/ Queue!Start(a, inHand[a]) /\ GoTo(a, "executing")
       \/ Fails(Queue!Start(a, inHand[a])) /\ GoTo(a, RefusedPhase)
    /\ UNCHANGED <<storeVars, load, interrupted>>

\* The execution fails, or succeeds with a checkpoint to report or without.
Execute(a) ==
    /\ phase[a] = "executing"
    /\ \/ (NotTaken \/ Queue!Progress(a, inHand[a])) /\ GoTo(a, "reporting")
       \/ Fails(Queue!Progress(a, inHand[a])) /\ GoTo(a, "broken")
    /\ interrupted' = interrupted \ {<<a, inHand[a]>>}
    /\ UNCHANGED <<storeVars, load>>

CompleteJob(a) ==
    /\ phase[a] = "reporting"
    /\ \/ /\ \E result \in Queue!ResultStatus : Queue!Complete(a, inHand[a], result)
          /\ cooling' = [cooling EXCEPT ![a] = FALSE]
          /\ CloseRun(a)
          /\ LetGo(a, batch[a], TRUE)
       \/ /\ \E result \in Queue!ResultStatus :
               Fails(Queue!Complete(a, inHand[a], result))
          /\ GoTo(a, "broken")
          /\ UNCHANGED storeVars
    /\ UNCHANGED <<load, interrupted>>

\* The handler of an exception: record_failure sets a backoff, or none when a
\* retry is pointless, and the local run is closed.
RecordFailure(a) ==
    /\ phase[a] = "broken"
    /\ \E backoff \in BOOLEAN : cooling' = [cooling EXCEPT ![a] = backoff]
    /\ CloseRun(a)
    /\ GoTo(a, "telling")
    /\ UNCHANGED <<serverVars, load, interrupted>>

\* When fail_job fails too, the rest of the batch is forgotten.
TellFailure(a) ==
    /\ phase[a] = "telling"
    /\ \/ Queue!Fail(a, inHand[a]) /\ LetGo(a, batch[a], TRUE)
       \/ Fails(Queue!Fail(a, inHand[a])) /\ LetGo(a, {}, FALSE)
    /\ UNCHANGED <<storeVars, load, interrupted>>

\* A slip: the cooldown is kept in memory.
CoolingForgotten(a) == cooling' = [cooling EXCEPT ![a] = FALSE]

\* account_risk_state is stored in a file of its own.
CoolingStored(a) == UNCHANGED cooling

\* The process dies and is started again; the rows it leaves running are not
\* looked at again until their job comes back.
Crash(a) ==
    /\ phase[a] # "idle" \/ batch[a] # {} \/ runningIds[a] # {}
    /\ phase' = [phase EXCEPT ![a] = "idle"]
    /\ inHand' = [inHand EXCEPT ![a] = NoJob]
    /\ batch' = [batch EXCEPT ![a] = {}]
    /\ runningIds' = [runningIds EXCEPT ![a] = {}]
    /\ interrupted' = interrupted \ {<<a, inHand[a]>>}
    /\ CoolingStored(a)
    /\ openRuns' = [openRuns EXCEPT ![a] = {}]
    /\ UNCHANGED <<serverVars, load>>

CoolingEnds(a) ==
    /\ cooling[a]
    /\ cooling' = [cooling EXCEPT ![a] = FALSE]
    /\ UNCHANGED <<serverVars, loopVars, openRuns, load, interrupted>>

-----------------------------------------------------------------------------
(* The server without its agents.                                          *)

ServerStep ==
    \/ \E j \in load.jobs : Queue!CreateJob(j, NoAgent)
    \/ \E j \in load.attended : Queue!Pause(j) \/ Queue!Resume(j)
    \/ \E S \in SUBSET load.attended : Queue!RetryFailedJobs(S)
    \/ \E j \in Jobs : Queue!RunGoesStale(j)
    \/ Queue!FailStaleRunning

Undisturbed(step) ==
    /\ step
    /\ interrupted' = interrupted \cup
         {e \in Agents \X Jobs : /\ Executes(e[1], e[2])
                                 /\ status[e[2]] = "running"
                                 /\ status'[e[2]] # "running"}
    /\ UNCHANGED <<loopVars, storeVars, load>>

Maintain == Undisturbed(Queue!Maintenance)

Lapse(j) == Undisturbed(Queue!ClaimLapses(j))

-----------------------------------------------------------------------------
Init ==
    /\ Queue!Init
    /\ phase = [a \in Agents |-> "idle"]
    /\ inHand = [a \in Agents |-> NoJob]
    /\ batch = [a \in Agents |-> {}]
    /\ runningIds = [a \in Agents |-> {}]
    /\ openRuns = [a \in Agents |-> {}]
    /\ cooling = [a \in Agents |-> FALSE]
    /\ load \in Workloads
    /\ interrupted = {}

Handle(a) ==
    \/ TakeJob(a) \/ Admit(a) \/ TellDenial(a) \/ StartJob(a) \/ Execute(a)
    \/ CompleteJob(a) \/ RecordFailure(a) \/ TellFailure(a)

Next ==
    \/ \E a \in Agents : Poll(a) \/ Handle(a) \/ Crash(a) \/ CoolingEnds(a)
    \/ Undisturbed(ServerStep) \/ Maintain
    \/ \E j \in Jobs : Lapse(j)

Spec == Init /\ [][Next]_vars

\* Loops and clocks go on: a request has a timeout, a cooldown an end, and the
\* process does not die again and again for ever, nor are the answers to all
\* of an agent's claims lost.
FairSpec ==
    /\ Spec
    /\ <>[][\A a \in Agents : ~Crash(a)]_vars
    /\ \A a \in Agents :
         /\ WF_vars(Poll(a)) /\ SF_vars(Poll(a) /\ batch'[a] # {})
         /\ WF_vars(Handle(a)) /\ WF_vars(CoolingEnds(a))
    /\ \A j \in Jobs : WF_vars(Lapse(j))

-----------------------------------------------------------------------------
(* Properties.                                                             *)

\* The loop's tables hold values of their types; a job is in hand exactly while
\* it is being handled.
TypeOK ==
    /\ Queue!TypeOK
    /\ phase \in [Agents -> Phases]
    /\ inHand \in [Agents -> Jobs \cup {NoJob}]
    /\ \A a \in Agents : inHand[a] = NoJob <=> phase[a] = "idle"
    /\ batch \in [Agents -> SUBSET Jobs] /\ \A a \in Agents : inHand[a] \notin batch[a]
    /\ runningIds \in [Agents -> SUBSET Jobs]
    /\ openRuns \in [Agents -> SUBSET Jobs]
    /\ cooling \in [Agents -> BOOLEAN]
    /\ interrupted \subseteq Agents \X Jobs

\* "No job is executed by several agents" (p2-acceptance-runbook.md:121), as
\* far as requests are served one after the other: whatever answers are lost
\* and whoever dies, two agents are at work on one job only when the row of
\* the first was paused, or timed out, under its hands.
ExecutedOnce ==
    \A j \in Jobs, a, b \in Agents :
        Executes(a, j) /\ Executes(b, j) /\ a # b
          => <<a, j>> \in interrupted \/ <<b, j>> \in interrupted

\* Only the clock ends a cooldown: no death of the process, and no job that is
\* already under way, lets an agent start before its time.
CooldownKept ==
    [][\A a \in Agents : cooling[a] /\ ~cooling'[a] => UNCHANGED loopVars]_vars

\* Whichever call fails, the local run of a job is closed before the next job
\* is looked at.
LocalRunsEnd == \A a \in Agents : openRuns[a] \subseteq {inHand[a]}

\* Heartbeats name the job in hand, and no other unless it was denied by the
\* budget and the server could not be told.
RunningIdsTrue ==
    [][\A a \in Agents :
         \A j \in runningIds'[a] \ {inHand'[a]} :
             j \in runningIds[a] /\ (inHand[a] = j => phase[a] = "denied")]_vars

\* A job whose claim nobody works on (the answer was lost, the batch dropped,
\* the agent dead) does not stay claimed: the polling of its own agent, which
\* gets nothing new until then, takes it back.
AbandonedClaimsEnd ==
    \A a \in Agents, j \in Jobs :
        status[j] = "claimed" /\ claimedBy[j] = a /\ j \notin InHand(a)
          ~> status[j] # "claimed" \/ j \in InHand(claimedBy[j])
=============================================================================

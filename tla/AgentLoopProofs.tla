-------------------------- MODULE AgentLoopProofs ---------------------------
(* Proofs about AgentLoop, for any agents and any jobs.                      *)
EXTENDS AgentLoop, FiniteSetTheorems, TLAPS

-----------------------------------------------------------------------------
(* The server under the loops is the job queue.                            *)

\* Whatever a loop does about a job it does with the job in its hand.
LoopTypes ==
    /\ phase \in [Agents -> Phases]
    /\ inHand \in [Agents -> Jobs \cup {NoJob}]
    /\ \A a \in Agents : inHand[a] = NoJob <=> phase[a] = "idle"
    /\ batch \in [Agents -> SUBSET Jobs]
    /\ \A a \in Agents : inHand[a] \notin batch[a]
    /\ runningIds \in [Agents -> SUBSET Jobs]
    /\ openRuns \in [Agents -> SUBSET Jobs]
    /\ cooling \in [Agents -> BOOLEAN]
    /\ load \in Workloads
    /\ interrupted \subseteq Agents \X Jobs

LEMMA QueueCalls ==
    ASSUME LoopTypes, NEW a \in Agents, Handle(a)
    PROVE  \/ \E j \in Jobs : Queue!AgentCall(a, j)
           \/ UNCHANGED serverVars
<1>1. phase[a] # "idle" => inHand[a] \in Jobs  BY DEF LoopTypes
<1>2. CASE TakeJob(a) \/ Admit(a) \/ RecordFailure(a)
  BY <1>2 DEF TakeJob, Admit, RecordFailure
<1>3. CASE TellDenial(a) \/ TellFailure(a)
  <2>1. Queue!Fail(a, inHand[a]) \/ UNCHANGED serverVars
    BY <1>3 DEF TellDenial, TellFailure, Fails, NotTaken
  <2> QED  BY <1>1, <1>3, <2>1 DEF TellDenial, TellFailure, Queue!AgentCall
<1>4. CASE StartJob(a)
  <2>1. Queue!Start(a, inHand[a]) \/ UNCHANGED serverVars
    BY <1>4 DEF StartJob, Fails, NotTaken
  <2> QED  BY <1>1, <1>4, <2>1 DEF StartJob, Queue!AgentCall
<1>5. CASE Execute(a)
  <2>1. Queue!Progress(a, inHand[a]) \/ UNCHANGED serverVars
    BY <1>5 DEF Execute, Fails, NotTaken
  <2> QED  BY <1>1, <1>5, <2>1 DEF Execute, Queue!AgentCall
<1>6. CASE CompleteJob(a)
  <2>1. \/ \E result \in Queue!ResultStatus : Queue!Complete(a, inHand[a], result)
        \/ UNCHANGED serverVars
    BY <1>6 DEF CompleteJob, Fails, NotTaken
  <2> QED  BY <1>1, <1>6, <2>1 DEF CompleteJob, Queue!AgentCall
<1> QED  BY <1>2, <1>3, <1>4, <1>5, <1>6 DEF Handle

\* A step of agents and server is a step of the queue, or leaves it alone.
LEMMA QueueSteps ==
    ASSUME LoopTypes, [Next]_vars
    PROVE  Queue!Next \/ UNCHANGED serverVars
<1>1. ASSUME NEW a \in Agents, Poll(a) PROVE Queue!Next
  BY <1>1 DEF Poll, Queue!Next
<1>2. ASSUME NEW a \in Agents, Handle(a) PROVE Queue!Next \/ UNCHANGED serverVars
  BY <1>2, QueueCalls DEF Queue!Next
<1>3. ASSUME NEW a \in Agents, Crash(a) \/ CoolingEnds(a) PROVE UNCHANGED serverVars
  BY <1>3 DEF Crash, CoolingEnds
<1>4. ASSUME Undisturbed(ServerStep) PROVE Queue!Next
  BY <1>4, AgentLoopAssumption
  DEF LoopTypes, Undisturbed, ServerStep, Queue!Next, Queue!MaybeAgent
<1>5. ASSUME Maintain \/ \E j \in Jobs : Lapse(j) PROVE Queue!Next
  BY <1>5 DEF Maintain, Lapse, Undisturbed, Queue!Next
<1>6. CASE UNCHANGED vars  BY <1>6 DEF vars
<1> QED  BY <1>1, <1>2, <1>3, <1>4, <1>5, <1>6 DEF Next

\* The queue's rows keep to their types.
LEMMA QueueTyped ==
    ASSUME Queue!TypeOK, Queue!Next \/ UNCHANGED serverVars
    PROVE  Queue!TypeOK'
<1> USE DEF Queue!TypeOK, Queue!JobStatus, Queue!MaybeAgent, Queue!agentVars,
            Queue!rowVars
<1>1. ASSUME NEW j \in Jobs, NEW pin \in Queue!MaybeAgent, Queue!CreateJob(j, pin)
      PROVE  Queue!TypeOK'
  BY <1>1 DEF Queue!CreateJob
<1>2. ASSUME NEW a \in Agents, Queue!Claim(a) PROVE Queue!TypeOK'
  BY <1>2 DEF Queue!Claim, Queue!PinSeen, Queue!ClaimDeadline
<1>3. ASSUME NEW a \in Agents, NEW j \in Jobs, Queue!AgentCall(a, j)
      PROVE  Queue!TypeOK'
  BY <1>3
  DEF Queue!AgentCall, Queue!Start, Queue!Progress, Queue!Complete, Queue!Fail,
      Queue!ResultStatus
<1>4. ASSUME NEW j \in Jobs, Queue!Pause(j) PROVE Queue!TypeOK'
  BY <1>4 DEF Queue!Pause
<1>5. ASSUME NEW j \in Jobs, Queue!Resume(j) PROVE Queue!TypeOK'
  BY <1>5 DEF Queue!Resume, Queue!OwnerOnceReleased
<1>6. ASSUME NEW S \in SUBSET Jobs, Queue!CancelPendingJobs(S) PROVE Queue!TypeOK'
  BY <1>6 DEF Queue!CancelPendingJobs
<1>7. ASSUME NEW S \in SUBSET Jobs, Queue!RetryFailedJobs(S) PROVE Queue!TypeOK'
  BY <1>7 DEF Queue!RetryFailedJobs, Queue!OwnerOnceReleased
<1>8. ASSUME NEW S \in SUBSET Jobs, Queue!FailJobs(S) PROVE Queue!TypeOK'
  BY <1>8 DEF Queue!FailJobs
<1>9. CASE Queue!Maintenance
  BY <1>9 DEF Queue!Maintenance, Queue!PinSeen
<1>10. ASSUME NEW a \in Agents, NEW owned \in SUBSET {}, Queue!Reassign(a, owned)
       PROVE  Queue!TypeOK'
  BY <1>10 DEF Queue!Reassign
<1>11. ASSUME NEW j \in Jobs, Queue!ClaimLapses(j) \/ Queue!RunGoesStale(j)
       PROVE  Queue!TypeOK'
  BY <1>11 DEF Queue!ClaimLapses, Queue!RunGoesStale
<1>12. CASE UNCHANGED serverVars
  BY <1>12 DEF serverVars
<1> QED
  BY <1>1, <1>2, <1>3, <1>4, <1>5, <1>6, <1>7, <1>8, <1>9, <1>10, <1>11,
     <1>12
  DEF Queue!Next, Queue!FailStaleRunning, Queue!FailActiveJobs

-----------------------------------------------------------------------------
(* The inductive invariant.                                                *)

\* While an agent executes a job the row is running in its name, unless the
\* job was taken from under its hands.
ExecutesOwned ==
    \A a \in Agents, j \in Jobs :
        Executes(a, j) => \/ <<a, j>> \in interrupted
                          \/ status[j] = "running" /\ claimedBy[j] = a

\* The phases in which the local run of the job in hand is closed, or there is
\* no job in hand.
ClosedPhases == {"idle", "denied", "telling"}

RunsHeld ==
    \A a \in Agents :
        openRuns[a] \subseteq (IF phase[a] \in ClosedPhases THEN {} ELSE {inHand[a]})

\* An account that was let through is not cooling until its job has ended.
AdmittedPhases == {"admitted", "denied", "executing", "reporting", "broken"}

AdmittedIsCool == \A a \in Agents : phase[a] \in AdmittedPhases => ~cooling[a]

IInv ==
    /\ Queue!TypeOK
    /\ LoopTypes
    /\ ExecutesOwned
    /\ RunsHeld
    /\ AdmittedIsCool

-----------------------------------------------------------------------------
(* The loop's own tables.                                                  *)

\* Handling a job keeps the tables to their types, and the three parts of the
\* invariant that look at one agent's tables alone.
LEMMA HandleKeepsLoop ==
    ASSUME LoopTypes, RunsHeld, AdmittedIsCool, NEW a \in Agents, Handle(a)
    PROVE  LoopTypes' /\ RunsHeld' /\ AdmittedIsCool'
<1> USE AgentLoopAssumption
    DEF LoopTypes, RunsHeld, AdmittedIsCool, Phases, ClosedPhases, AdmittedPhases,
        storeVars, loopVars
<1>1. CASE TakeJob(a)  BY <1>1 DEF TakeJob
<1>2. CASE Admit(a)  BY <1>2 DEF Admit, GoTo, DeniedRun, CloseRun
<1>3. CASE TellDenial(a)  BY <1>3 DEF TellDenial, LetGo
<1>4. CASE StartJob(a)  BY <1>4 DEF StartJob, GoTo, RefusedPhase
<1>5. CASE Execute(a)  BY <1>5 DEF Execute, GoTo
<1>6. CASE CompleteJob(a)
  <2>1. CASE CloseRun(a) /\ LetGo(a, batch[a], TRUE)
    <3>1. cooling' = [cooling EXCEPT ![a] = FALSE] \/ UNCHANGED storeVars
      BY <1>6 DEF CompleteJob
    <3>2. UNCHANGED <<load, interrupted>>  BY <1>6 DEF CompleteJob
    <3> QED  BY <2>1, <3>1, <3>2 DEF LetGo, CloseRun
  <2>2. CASE GoTo(a, "broken") /\ UNCHANGED <<storeVars, load, interrupted>>
    BY <1>6, <2>2 DEF CompleteJob, GoTo
  <2> QED  BY <1>6, <2>1, <2>2 DEF CompleteJob
<1>7. CASE RecordFailure(a)  BY <1>7 DEF RecordFailure, GoTo, CloseRun
<1>8. CASE TellFailure(a)  BY <1>8 DEF TellFailure, LetGo
<1> QED  BY <1>1, <1>2, <1>3, <1>4, <1>5, <1>6, <1>7, <1>8 DEF Handle

LEMMA StepsKeepLoop ==
    ASSUME LoopTypes, RunsHeld, AdmittedIsCool, [Next]_vars
    PROVE  LoopTypes' /\ RunsHeld' /\ AdmittedIsCool'
<1> USE DEF LoopTypes, RunsHeld, AdmittedIsCool, ClosedPhases, AdmittedPhases,
            storeVars, loopVars
<1>1. ASSUME NEW a \in Agents, Poll(a)
      PROVE  LoopTypes' /\ RunsHeld' /\ AdmittedIsCool'
  BY <1>1, AgentLoopAssumption DEF Poll, MayPoll
<1>2. ASSUME NEW a \in Agents, Handle(a)
      PROVE  LoopTypes' /\ RunsHeld' /\ AdmittedIsCool'
  BY <1>2, HandleKeepsLoop
<1>3. ASSUME NEW a \in Agents, Crash(a)
      PROVE  LoopTypes' /\ RunsHeld' /\ AdmittedIsCool'
  BY <1>3, AgentLoopAssumption DEF Crash, CoolingStored, Phases
<1>4. ASSUME NEW a \in Agents, CoolingEnds(a)
      PROVE  LoopTypes' /\ RunsHeld' /\ AdmittedIsCool'
  BY <1>4 DEF CoolingEnds
<1>5. CASE Undisturbed(ServerStep) \/ Maintain \/ \E j \in Jobs : Lapse(j)
  <2>1. UNCHANGED <<loopVars, storeVars, load>>
    BY <1>5 DEF Undisturbed, Maintain, Lapse
  <2>2. interrupted' \subseteq Agents \X Jobs
    BY <1>5 DEF Undisturbed, Maintain, Lapse
  <2> QED  BY <2>1, <2>2
<1>6. CASE UNCHANGED vars  BY <1>6 DEF vars
<1> QED
  BY <1>1, <1>2, <1>3, <1>4, <1>5, <1>6 DEF Next

-----------------------------------------------------------------------------
(* Who a running row belongs to.                                           *)

\* The row of j is running in the name of a.
Owns(a, j) == status[j] = "running" /\ claimedBy[j] = a

\* A claim and a call of another agent do not touch it.
LEMMA ClaimSparesRunning ==
    ASSUME NEW a \in Agents, NEW b \in Agents, NEW j \in Jobs, Queue!Claim(b), Owns(a, j)
    PROVE  Owns(a, j)'
<1>1. PICK picked \in SUBSET Jobs :
        /\ Queue!Claimable(b, picked)
        /\ status' = [k \in Jobs |-> IF k \in picked THEN "claimed"
                                     ELSE IF Queue!ExpiredClaim(k) THEN "pending"
                                     ELSE status[k]]
        /\ claimedBy' = [k \in Jobs |-> IF k \in picked THEN b
                                        ELSE IF Queue!ExpiredClaim(k) THEN NoAgent
                                        ELSE claimedBy[k]]
  BY DEF Queue!Claim
<1>2. \A k \in picked : Queue!Waiting(k)
  BY <1>1 DEF Queue!Claimable, Queue!LeadingPart
<1>3. j \notin picked /\ ~Queue!ExpiredClaim(j)
  BY <1>2 DEF Queue!Waiting, Queue!ExpiredClaim, Owns
<1> QED  BY <1>1, <1>3 DEF Owns

LEMMA CallSparesRunning ==
    ASSUME Queue!TypeOK, NEW a \in Agents, NEW b \in Agents, a # b,
           NEW j \in Jobs, NEW k \in Jobs, Queue!AgentCall(b, k), Owns(a, j)
    PROVE  Owns(a, j)'
<1> USE DEF Owns, Queue!TypeOK
<1>1. CASE Queue!Start(b, k)
  BY <1>1, AgentLoopAssumption DEF Queue!Start, Queue!EnsureClaimOwner
<1>2. CASE Queue!Progress(b, k)  BY <1>2 DEF Queue!Progress
<1>3. ASSUME NEW result \in Queue!ResultStatus, Queue!Complete(b, k, result)
      PROVE  Owns(a, j)'
  BY <1>3, AgentLoopAssumption DEF Queue!Complete, Queue!EnsureClaimOwner
<1>4. CASE Queue!Fail(b, k)
  BY <1>4, AgentLoopAssumption DEF Queue!Fail, Queue!EnsureClaimOwner
<1> QED  BY <1>1, <1>2, <1>3, <1>4 DEF Queue!AgentCall

\* What the server does without its agents either stops the run or leaves its
\* owner in place.
LEMMA ServerKeepsOwner ==
    ASSUME Queue!TypeOK,
           ServerStep \/ Queue!Maintenance \/ \E k \in Jobs : Queue!ClaimLapses(k),
           NEW a \in Agents, NEW j \in Jobs, Owns(a, j), status'[j] = "running",
           LoopTypes
    PROVE  Owns(a, j)'
<1> USE AgentLoopAssumption DEF Owns, Queue!TypeOK, LoopTypes
<1>1. ASSUME NEW k \in load.jobs, Queue!CreateJob(k, NoAgent) PROVE claimedBy'[j] = a
  BY <1>1 DEF Queue!CreateJob
<1>2. ASSUME NEW k \in load.attended, Queue!Pause(k) PROVE claimedBy'[j] = a
  BY <1>2 DEF Queue!Pause
<1>3. ASSUME NEW k \in load.attended, Queue!Resume(k) PROVE claimedBy'[j] = a
  BY <1>3 DEF Queue!Resume
<1>4. ASSUME NEW S \in SUBSET load.attended, Queue!RetryFailedJobs(S)
      PROVE  claimedBy'[j] = a
  BY <1>4 DEF Queue!RetryFailedJobs
<1>5. ASSUME NEW k \in Jobs, Queue!RunGoesStale(k) PROVE claimedBy'[j] = a
  BY <1>5 DEF Queue!RunGoesStale
<1>6. ASSUME Queue!FailStaleRunning PROVE claimedBy'[j] = a
  BY <1>6 DEF Queue!FailStaleRunning, Queue!FailJobs
<1>7. ASSUME Queue!Maintenance PROVE claimedBy'[j] = a
  BY <1>7 DEF Queue!Maintenance
<1>8. ASSUME NEW k \in Jobs, Queue!ClaimLapses(k) PROVE claimedBy'[j] = a
  BY <1>8 DEF Queue!ClaimLapses
<1> QED
  BY <1>1, <1>2, <1>3, <1>4, <1>5, <1>6, <1>7, <1>8 DEF ServerStep

\* No step breaks the tie between an execution and its row unnoticed.
LEMMA StepsKeepOwned ==
    ASSUME IInv, [Next]_vars
    PROVE  ExecutesOwned'
<1> SUFFICES ASSUME NEW a \in Agents, NEW j \in Jobs, Executes(a, j)'
             PROVE  <<a, j>> \in interrupted' \/ Owns(a, j)'
  BY DEF ExecutesOwned, Owns
<1> USE DEF IInv, LoopTypes
<1>1. Executes(a, j) => <<a, j>> \in interrupted \/ Owns(a, j)
  BY DEF ExecutesOwned, Owns
<1>2. ASSUME NEW b \in Agents, Poll(b) PROVE <<a, j>> \in interrupted' \/ Owns(a, j)'
  <2>1. Executes(a, j) /\ UNCHANGED interrupted
    BY <1>2 DEF Poll, Executes
  <2> QED  BY <1>1, <1>2, <2>1, ClaimSparesRunning DEF Poll
<1>3. ASSUME NEW b \in Agents, b # a, Handle(b) \/ Crash(b) \/ CoolingEnds(b)
      PROVE  <<a, j>> \in interrupted' \/ Owns(a, j)'
  <2>1. Executes(a, j)
    <3> USE DEF Executes, GoTo, LetGo, loopVars
    <3>1. CASE TakeJob(b) \/ Admit(b) \/ TellDenial(b) \/ StartJob(b)
      BY <1>3, <3>1 DEF TakeJob, Admit, TellDenial, StartJob
    <3>2. CASE Execute(b) \/ CompleteJob(b) \/ RecordFailure(b) \/ TellFailure(b)
      BY <1>3, <3>2 DEF Execute, CompleteJob, RecordFailure, TellFailure
    <3>3. CASE Crash(b) \/ CoolingEnds(b)
      BY <1>3, <3>3 DEF Crash, CoolingEnds
    <3> QED  BY <1>3, <3>1, <3>2, <3>3 DEF Handle
  <2>2. <<a, j>> \in interrupted => <<a, j>> \in interrupted'
    BY <1>3
    DEF Handle, TakeJob, Admit, TellDenial, StartJob, Execute, CompleteJob,
        RecordFailure, TellFailure, Crash, CoolingEnds
  <2>3. CASE Owns(a, j)
    <3>1. CASE Handle(b)
      BY <1>3, <2>3, <3>1, QueueCalls, CallSparesRunning DEF serverVars, Owns
    <3>2. CASE Crash(b) \/ CoolingEnds(b)
      BY <2>3, <3>2 DEF Crash, CoolingEnds, serverVars, Owns
    <3> QED  BY <1>3, <3>1, <3>2
  <2> QED  BY <1>1, <2>1, <2>2, <2>3
<1>4. ASSUME Handle(a) PROVE <<a, j>> \in interrupted' \/ Owns(a, j)'
  <2>1. StartJob(a) /\ Queue!Start(a, inHand[a]) /\ inHand[a] = j
    <3> USE DEF Executes, GoTo, LetGo
    <3>1. CASE TakeJob(a) \/ Admit(a) \/ TellDenial(a)
      BY <3>1 DEF TakeJob, Admit, TellDenial
    <3>2. CASE StartJob(a)  BY <3>2 DEF StartJob, RefusedPhase
    <3>3. CASE Execute(a) \/ CompleteJob(a)
      BY <3>3 DEF Execute, CompleteJob
    <3>4. CASE RecordFailure(a) \/ TellFailure(a)
      BY <3>4 DEF RecordFailure, TellFailure
    <3> QED  BY <1>4, <3>1, <3>2, <3>3, <3>4 DEF Handle
  <2> QED  BY <2>1 DEF Queue!Start, Queue!TypeOK, Owns
<1>5. ASSUME Crash(a) PROVE FALSE
  BY <1>5 DEF Crash, Executes
<1>6. ASSUME CoolingEnds(a) PROVE <<a, j>> \in interrupted' \/ Owns(a, j)'
  BY <1>1, <1>6 DEF CoolingEnds, loopVars, serverVars, Executes, Owns
<1>7. ASSUME Undisturbed(ServerStep) \/ Maintain \/ \E k \in Jobs : Lapse(k)
      PROVE  <<a, j>> \in interrupted' \/ Owns(a, j)'
  <2>1. ServerStep \/ Queue!Maintenance \/ \E k \in Jobs : Queue!ClaimLapses(k)
    BY <1>7 DEF Undisturbed, Maintain, Lapse
  <2>2. Executes(a, j)
    BY <1>7 DEF Undisturbed, Maintain, Lapse, Executes, loopVars
  <2>3. interrupted' = interrupted \cup
          {e \in Agents \X Jobs : /\ Executes(e[1], e[2])
                                  /\ status[e[2]] = "running"
                                  /\ status'[e[2]] # "running"}
    BY <1>7 DEF Undisturbed, Maintain, Lapse
  <2>4. CASE Owns(a, j) /\ status'[j] = "running"
    BY <2>1, <2>4, ServerKeepsOwner
  <2>5. CASE Owns(a, j) /\ status'[j] # "running"
    BY <2>2, <2>3, <2>5 DEF Owns
  <2> QED  BY <1>1, <2>2, <2>3, <2>4, <2>5
<1>8. CASE UNCHANGED vars
  BY <1>1, <1>8 DEF vars, loopVars, serverVars, Executes, Owns
<1> QED
  BY <1>2, <1>3, <1>4, <1>5, <1>6, <1>7, <1>8 DEF Next

LEMMA IInvInductive == Init /\ [][Next]_vars => []IInv
<1>1. Init => IInv
  BY AgentLoopAssumption
  DEF Init, IInv, LoopTypes, ExecutesOwned, Executes, RunsHeld, AdmittedIsCool,
      Phases, ClosedPhases, AdmittedPhases, Queue!Init, Queue!TypeOK,
      Queue!JobStatus, Queue!MaybeAgent
<1>2. ASSUME IInv, [Next]_vars PROVE IInv'
  <2>1. Queue!TypeOK'  BY <1>2, QueueSteps, QueueTyped DEF IInv
  <2>2. LoopTypes' /\ RunsHeld' /\ AdmittedIsCool'
    BY <1>2, StepsKeepLoop DEF IInv
  <2>3. ExecutesOwned'  BY <1>2, StepsKeepOwned
  <2> QED  BY <2>1, <2>2, <2>3 DEF IInv
<1> QED  BY <1>1, <1>2, PTL

-----------------------------------------------------------------------------
(* Theorems.                                                               *)

\* The tables of every loop, and the rows of the server, keep to their types.
THEOREM TypeCorrect == Spec => []TypeOK
<1>1. IInv => TypeOK  BY DEF IInv, LoopTypes, TypeOK
<1> QED  BY <1>1, IInvInductive, PTL DEF Spec

\* Agents that lose answers, die and start again drive the server through
\* behaviours of the job queue only: what is shown of JobQueue with nobody
\* administering agents holds below them.
THEOREM DrivesTheQueue == Spec => Queue!Spec
<1>1. Init => Queue!Init  BY DEF Init
<1>2. IInv /\ [Next]_vars => [Queue!Next]_(Queue!vars)
  BY QueueSteps
  DEF IInv, serverVars, Queue!vars, Queue!rowVars, Queue!agentVars
<1> QED  BY <1>1, <1>2, IInvInductive, PTL DEF Spec, Queue!Spec

\* Two agents are at work on one job only when the row of one of them was
\* paused, or timed out, under its hands.
THEOREM OneExecution == Spec => []ExecutedOnce
<1>1. IInv => ExecutedOnce
  BY DEF IInv, ExecutesOwned, ExecutedOnce
<1> QED  BY <1>1, IInvInductive, PTL DEF Spec

\* Whichever call fails, the local run of a job is closed before the next.
THEOREM LocalRunsClosed == Spec => []LocalRunsEnd
<1>1. IInv => LocalRunsEnd  BY DEF IInv, RunsHeld, LocalRunsEnd
<1> QED  BY <1>1, IInvInductive, PTL DEF Spec

\* Only the clock ends a cooldown.
THEOREM CooldownsLast == Spec => CooldownKept
<1>1. ASSUME IInv, [Next]_vars, NEW a \in Agents, cooling[a], ~cooling'[a]
      PROVE  UNCHANGED loopVars
  <2> USE <1>1 DEF IInv, LoopTypes, storeVars
  <2>1. phase[a] \notin AdmittedPhases  BY DEF AdmittedIsCool
  <2>2. \A b \in Agents : ~Poll(b)  BY DEF Poll
  <2>3. \A b \in Agents : ~Handle(b)
    <3> SUFFICES ASSUME NEW b \in Agents, Handle(b) PROVE FALSE  OBVIOUS
    <3>1. CASE CompleteJob(b)
      BY <2>1, <3>1 DEF CompleteJob, AdmittedPhases
    <3>2. CASE RecordFailure(b)
      BY <2>1, <3>2 DEF RecordFailure, AdmittedPhases
    <3> QED
      BY <3>1, <3>2
      DEF Handle, TakeJob, Admit, TellDenial, StartJob, Execute, TellFailure
  <2>4. \A b \in Agents : ~Crash(b)  BY DEF Crash, CoolingStored
  <2>5. \A b \in Agents : CoolingEnds(b) => UNCHANGED loopVars
    BY DEF CoolingEnds
  <2>6. Undisturbed(ServerStep) \/ Maintain \/ (\E j \in Jobs : Lapse(j))
          => UNCHANGED loopVars
    BY DEF Undisturbed, Maintain, Lapse
  <2>7. UNCHANGED vars => UNCHANGED loopVars  BY DEF vars
  <2> QED  BY <2>2, <2>3, <2>4, <2>5, <2>6, <2>7 DEF Next
<1>2. IInv /\ [Next]_vars =>
        [\A a \in Agents : cooling[a] /\ ~cooling'[a] => UNCHANGED loopVars]_vars
  BY <1>1
<1> QED  BY <1>2, IInvInductive, PTL DEF Spec, CooldownKept

\* Heartbeats name the job in hand, and no other unless it was denied and the
\* server could not be told.
THEOREM RunningIdsNameTheHand == Spec => RunningIdsTrue
<1> DEFINE Named(a) ==
      \A j \in runningIds'[a] \ {inHand'[a]} :
          j \in runningIds[a] /\ (inHand[a] = j => phase[a] = "denied")
<1>1. ASSUME IInv, [Next]_vars, NEW a \in Agents PROVE Named(a)
  <2> USE <1>1, AgentLoopAssumption DEF IInv, LoopTypes
  <2>1. CASE UNCHANGED <<inHand, runningIds>>  BY <2>1
  <2>2. ASSUME NEW b \in Agents, Handle(b) PROVE Named(a)
    <3>1. CASE TakeJob(b)  BY <3>1 DEF TakeJob
    <3>2. CASE Admit(b) \/ StartJob(b) \/ Execute(b) \/ RecordFailure(b)
      BY <2>1, <3>2 DEF Admit, StartJob, Execute, RecordFailure, GoTo
    <3>3. CASE TellDenial(b)  BY <3>3 DEF TellDenial, LetGo
    <3>4. CASE CompleteJob(b)  BY <2>1, <3>4 DEF CompleteJob, LetGo, GoTo
    <3>5. CASE TellFailure(b)  BY <3>5 DEF TellFailure, LetGo
    <3> QED  BY <2>2, <3>1, <3>2, <3>3, <3>4, <3>5 DEF Handle
  <2>3. ASSUME NEW b \in Agents, Crash(b) PROVE Named(a)
    BY <2>3 DEF Crash
  <2>4. ASSUME NEW b \in Agents, Poll(b) \/ CoolingEnds(b) PROVE Named(a)
    BY <2>1, <2>4 DEF Poll, CoolingEnds, loopVars
  <2>5. ASSUME Undisturbed(ServerStep) \/ Maintain \/ \E j \in Jobs : Lapse(j)
        PROVE  Named(a)
    BY <2>1, <2>5 DEF Undisturbed, Maintain, Lapse, loopVars
  <2>6. ASSUME UNCHANGED vars PROVE Named(a)
    BY <2>1, <2>6 DEF vars, loopVars
  <2> QED  BY <2>2, <2>3, <2>4, <2>5, <2>6 DEF Next
<1>2. IInv /\ [Next]_vars => [\A a \in Agents : Named(a)]_vars
  BY <1>1
<1> QED  BY <1>2, IInvInductive, PTL DEF Spec, RunningIdsTrue

-----------------------------------------------------------------------------
(* What is proved of the queue holds of the queue under the loops.         *)

QueueFacts == INSTANCE JobQueueProofs
              WITH Accounts <- {}, AccountOf <- [j \in Jobs |-> NoAccount],
                   Administered <- {}, MaxResumes <- 0

\* The two instances of JobQueue, of the loops and of its proofs, are the same.
LEMMA QueueAssumption == QueueFacts!JobQueueAssumption
BY AgentLoopAssumption DEF QueueFacts!IsFiniteSet, IsFiniteSet

LEMMA SameQueue == Queue!Spec <=> QueueFacts!Spec
<1>1. Queue!Init <=> QueueFacts!Init
  BY DEF Queue!Init, QueueFacts!Init
<1>2. Queue!Next <=> QueueFacts!Next
  BY DEF Queue!CanMove, Queue!AllowedTransitions, Queue!MaybeAgent,
         Queue!rowVars, Queue!agentVars, Queue!ExpiredClaim,
         Queue!StaleRunning, Queue!HasRetryBudget, Queue!Recoverable,
         Queue!PinSeen, Queue!OwnerOnceReleased, Queue!EnsureClaimOwner,
         Queue!ResultStatus, Queue!ActiveStatus, Queue!FailJobs,
         Queue!Waiting, Queue!LeadingPart, Queue!HasActiveWork,
         Queue!CanRunJob, Queue!Claimable, Queue!ClaimDeadline,
         Queue!Cardinality, Queue!CreateJob, Queue!Pause, Queue!Resume,
         Queue!CancelPendingJobs, Queue!RetryFailedJobs,
         Queue!FailStaleRunning, Queue!FailActiveJobs, Queue!Maintenance,
         Queue!Reassign,
         Queue!SessionReported, Queue!ClaimLapses, Queue!RunGoesStale,
         Queue!Claim, Queue!Start, Queue!Progress, Queue!Complete,
         Queue!Fail, Queue!AgentCall, Queue!Next, QueueFacts!CanMove,
         QueueFacts!AllowedTransitions, QueueFacts!MaybeAgent,
         QueueFacts!rowVars, QueueFacts!agentVars, QueueFacts!ExpiredClaim,
         QueueFacts!StaleRunning, QueueFacts!HasRetryBudget,
         QueueFacts!Recoverable, QueueFacts!PinSeen,
         QueueFacts!OwnerOnceReleased, QueueFacts!EnsureClaimOwner,
         QueueFacts!ResultStatus, QueueFacts!ActiveStatus,
         QueueFacts!FailJobs, QueueFacts!Waiting, QueueFacts!LeadingPart,
         QueueFacts!HasActiveWork, QueueFacts!CanRunJob,
         QueueFacts!Claimable, QueueFacts!ClaimDeadline,
         QueueFacts!Cardinality, QueueFacts!CreateJob, QueueFacts!Pause,
         QueueFacts!Resume, QueueFacts!CancelPendingJobs,
         QueueFacts!RetryFailedJobs, QueueFacts!FailStaleRunning,
         QueueFacts!FailActiveJobs, QueueFacts!Maintenance,
         QueueFacts!Reassign,
         QueueFacts!SessionReported, QueueFacts!ClaimLapses,
         QueueFacts!RunGoesStale, QueueFacts!Claim, QueueFacts!Start,
         QueueFacts!Progress, QueueFacts!Complete, QueueFacts!Fail,
         QueueFacts!AgentCall, QueueFacts!Next
<1>3. [Queue!Next]_(Queue!vars) <=> [QueueFacts!Next]_(QueueFacts!vars)
  BY <1>2
  DEF Queue!vars, Queue!rowVars, Queue!agentVars, QueueFacts!vars,
      QueueFacts!rowVars, QueueFacts!agentVars
<1> QED  BY <1>1, <1>3, PTL DEF Queue!Spec, QueueFacts!Spec

LEMMA QueueDriven == Spec => QueueFacts!Spec
BY SameQueue, DrivesTheQueue, PTL

\* Lost answers, deaths and restarts of agents leave no active row without
\* owner or date, and no owner on a queued row; no agent comes to own more
\* than a claim may return.
THEOREM RowsStaySound ==
    Spec => [](/\ QueueFacts!ActiveJobsOwned /\ QueueFacts!QueuedJobsUnowned
               /\ QueueFacts!ActiveJobsRecoverable
               /\ QueueFacts!AgentBatchBounded)
BY QueueAssumption, QueueDriven, QueueFacts!ActiveJobsAreOwned,
   QueueFacts!QueuedJobsAreUnowned, QueueFacts!ActiveJobsAreRecoverable,
   QueueFacts!AgentBatchIsBounded, PTL

\* A loop whose job has been given away reaches the row no more, and a live
\* claim is not given away.
THEOREM CallsStayFenced ==
    Spec => QueueFacts!CallbacksFenced /\ QueueFacts!LiveClaimKept
BY QueueAssumption, QueueDriven, QueueFacts!CallbacksAreFenced,
   QueueFacts!LiveClaimsAreKept, PTL

\* A job under execution is one whose row recovery can find, should the
\* process die: it runs, is owned by and pinned to the agent at work, and has
\* the date that the stale-running query compares; or it was taken away.
THEOREM WorkIsRecoverable ==
    Spec => [](\A a \in Agents, j \in Jobs :
                 Executes(a, j) /\ <<a, j>> \notin interrupted
                   => /\ status[j] = "running" /\ startedAt[j] # "none"
                      /\ claimedBy[j] = a /\ localAgent[j] = a)
<1>1. IInv /\ QueueFacts!ActiveJobsOwned /\ QueueFacts!ActiveJobsRecoverable =>
        (\A a \in Agents, j \in Jobs :
           Executes(a, j) /\ <<a, j>> \notin interrupted
             => /\ status[j] = "running" /\ startedAt[j] # "none"
                /\ claimedBy[j] = a /\ localAgent[j] = a)
  BY DEF IInv, ExecutesOwned, QueueFacts!ActiveJobsOwned,
         QueueFacts!ActiveJobsRecoverable, QueueFacts!ActiveStatus
<1> QED  BY <1>1, IInvInductive, RowsStaySound, PTL DEF Spec

-----------------------------------------------------------------------------
(* What an agent has in hand.                                              *)

\* The answer of a claim is what the claim picked.
Answered(a) ==
    {j \in Jobs : /\ claimedBy'[j] = a /\ status'[j] = "claimed"
                  /\ \/ status[j] # "claimed"
                     \/ Queue!ExpiredClaim(j)}

LEMMA AnswerFits ==
    ASSUME NEW a \in Agents, Queue!Claim(a)
    PROVE  /\ IsFiniteSet(Answered(a)) /\ Cardinality(Answered(a)) =< MaxJobs
           /\ \A j \in Answered(a) : <<a, j>> \in held'
<1>1. PICK picked \in SUBSET Jobs :
        /\ Queue!Claimable(a, picked)
        /\ status' = [j \in Jobs |-> IF j \in picked THEN "claimed"
                                     ELSE IF Queue!ExpiredClaim(j) THEN "pending"
                                     ELSE status[j]]
        /\ held' = held \cup {<<a, j>> : j \in picked}
  BY DEF Queue!Claim
<1>2. IsFiniteSet(picked)
  BY FS_Subset, AgentLoopAssumption
<1>3. Cardinality(picked) =< MaxJobs
  <2>1. CASE picked = {}
    BY <2>1, FS_EmptySet, AgentLoopAssumption
  <2>2. CASE picked # {}
    BY <1>1, <2>2 DEF Queue!Claimable, Queue!LeadingPart, Queue!Cardinality,
       Queue!IsFiniteSet, Cardinality, IsFiniteSet
  <2> QED  BY <2>1, <2>2
<1>4. Answered(a) \subseteq picked
  BY <1>1 DEF Answered, Queue!ExpiredClaim
<1>5. IsFiniteSet(Answered(a)) /\ Cardinality(Answered(a)) =< Cardinality(picked)
  BY <1>2, <1>4, FS_Subset
<1>6. Cardinality(picked) \in Nat /\ Cardinality(Answered(a)) \in Nat
  BY <1>2, <1>5, FS_CardinalityType
<1> QED  BY <1>1, <1>3, <1>4, <1>5, <1>6, AgentLoopAssumption

\* An agent has in hand what one claim handed it, or a part of it.
HandsFit == \A a \in Agents : Cardinality(InHand(a)) =< MaxJobs

HandsGiven == \A a \in Agents : \A j \in InHand(a) : <<a, j>> \in held

LEMMA GivenForGood == ASSUME Queue!Next \/ UNCHANGED serverVars PROVE held \subseteq held'
BY DEF serverVars, Queue!Next, Queue!CreateJob, Queue!Claim, Queue!AgentCall,
       Queue!Start, Queue!Progress, Queue!Complete, Queue!Fail, Queue!Pause,
       Queue!Resume, Queue!CancelPendingJobs, Queue!RetryFailedJobs,
       Queue!FailStaleRunning, Queue!FailActiveJobs, Queue!FailJobs,
       Queue!Maintenance, Queue!Reassign,
       Queue!SessionReported, Queue!ClaimLapses, Queue!RunGoesStale,
       Queue!agentVars

\* Only a claim puts jobs in hand, and only when nothing is left of the last.
LEMMA HandFills ==
    ASSUME LoopTypes, [Next]_vars, NEW a \in Agents
    PROVE  \/ InHand(a)' \subseteq InHand(a)
           \/ Queue!Claim(a) /\ InHand(a)' \subseteq Answered(a)
<1> USE AgentLoopAssumption DEF LoopTypes, InHand
<1>1. CASE Poll(a)
  <2>1. inHand'[a] = NoJob
    BY <1>1 DEF Poll, MayPoll
  <2>2. batch'[a] \subseteq Answered(a)
    BY <1>1 DEF Poll, Answered
  <2> QED  BY <1>1, <2>1, <2>2 DEF Poll
<1>2. ASSUME Handle(a) \/ Crash(a) PROVE InHand(a)' \subseteq InHand(a)
  <2>1. CASE TakeJob(a)  BY <2>1 DEF TakeJob
  <2>2. CASE Admit(a) \/ StartJob(a) \/ Execute(a) \/ RecordFailure(a)
    BY <2>2 DEF Admit, StartJob, Execute, RecordFailure, GoTo
  <2>3. CASE TellDenial(a)  BY <2>3 DEF TellDenial, LetGo
  <2>4. CASE CompleteJob(a)  BY <2>4 DEF CompleteJob, LetGo, GoTo
  <2>5. CASE TellFailure(a)  BY <2>5 DEF TellFailure, LetGo
  <2>6. CASE Crash(a)  BY <2>6 DEF Crash
  <2> QED  BY <1>2, <2>1, <2>2, <2>3, <2>4, <2>5, <2>6 DEF Handle
<1>3. ASSUME NEW b \in Agents, b # a, Poll(b) \/ Handle(b) \/ Crash(b)
      PROVE  inHand'[a] = inHand[a] /\ batch'[a] = batch[a]
  <2> USE DEF GoTo, LetGo
  <2>1. CASE Poll(b)  BY <1>3, <2>1 DEF Poll
  <2>2. CASE TakeJob(b) \/ Admit(b) \/ TellDenial(b) \/ StartJob(b)
    BY <1>3, <2>2 DEF TakeJob, Admit, TellDenial, StartJob
  <2>3. CASE Execute(b) \/ CompleteJob(b)
    BY <1>3, <2>3 DEF Execute, CompleteJob
  <2>4. CASE RecordFailure(b) \/ TellFailure(b)
    BY <1>3, <2>4 DEF RecordFailure, TellFailure
  <2>5. CASE Crash(b)  BY <1>3, <2>5 DEF Crash
  <2> QED  BY <1>3, <2>1, <2>2, <2>3, <2>4, <2>5 DEF Handle
<1>4. ASSUME \/ \E b \in Agents : CoolingEnds(b)
             \/ Undisturbed(ServerStep) \/ Maintain \/ \E j \in Jobs : Lapse(j)
             \/ UNCHANGED vars
      PROVE  UNCHANGED loopVars
  BY <1>4 DEF CoolingEnds, Undisturbed, Maintain, Lapse, vars
<1> QED  BY <1>1, <1>2, <1>3, <1>4 DEF Next, loopVars

\* However answers get lost, batches are dropped and processes die, an agent
\* never has more jobs in hand than one claim may return, and none that was
\* not handed to it: what it calls the server about, a claim gave it.
THEOREM HandsAreHonest == Spec => [](HandsFit /\ HandsGiven)
<1>1. Init => HandsFit /\ HandsGiven
  <2>1. ASSUME Init, NEW a \in Agents PROVE InHand(a) = {}
    BY <2>1 DEF Init, InHand
  <2> QED  BY <2>1, FS_EmptySet, AgentLoopAssumption DEF HandsFit, HandsGiven
<1>2. ASSUME IInv, HandsFit, HandsGiven, [Next]_vars PROVE HandsFit' /\ HandsGiven'
  <2> SUFFICES ASSUME NEW a \in Agents
               PROVE  /\ Cardinality(InHand(a)') =< MaxJobs
                      /\ \A j \in InHand(a)' : <<a, j>> \in held'
    BY DEF HandsFit, HandsGiven
  <2>1. LoopTypes  BY <1>2 DEF IInv
  <2>2. held \subseteq held'  BY <1>2, <2>1, QueueSteps, GivenForGood
  <2>3. InHand(a) \subseteq Jobs  BY <2>1 DEF LoopTypes, InHand
  <2>4. IsFiniteSet(InHand(a))  BY <2>3, FS_Subset, AgentLoopAssumption
  <2>5. CASE InHand(a)' \subseteq InHand(a)
    <3>1. /\ Cardinality(InHand(a)') =< Cardinality(InHand(a))
          /\ Cardinality(InHand(a)') \in Nat /\ Cardinality(InHand(a)) \in Nat
      BY <2>4, <2>5, FS_Subset, FS_CardinalityType
    <3> QED
      BY <1>2, <2>2, <2>5, <3>1, AgentLoopAssumption DEF HandsFit, HandsGiven
  <2>6. CASE Queue!Claim(a) /\ InHand(a)' \subseteq Answered(a)
    <3>1. /\ Cardinality(InHand(a)') =< Cardinality(Answered(a))
          /\ Cardinality(InHand(a)') \in Nat /\ Cardinality(Answered(a)) \in Nat
      BY <2>6, AnswerFits, FS_Subset, FS_CardinalityType
    <3> QED  BY <2>6, <3>1, AnswerFits, AgentLoopAssumption
  <2> QED  BY <1>2, <2>1, <2>5, <2>6, HandFills
<1> QED  BY <1>1, <1>2, IInvInductive, PTL DEF Spec
============================================================================

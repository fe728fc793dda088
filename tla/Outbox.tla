------------------------------- MODULE Outbox -------------------------------
(***************************************************************************)
(* The agent's ingestion outbox.  What a job has collected is written to   *)
(* the agent's own database first and then sent to the central server; a   *)
(* report that does not get through is kept in ingestion_outbox, one row   *)
(* per operation and job, and replayed at the start of later polls.        *)
(*                                                                         *)
(* The agent is one event loop: reports and replays never overlap, but the *)
(* process may die in the middle of either.  The content of a report is    *)
(* its number: the n-th thing its job had to say.  The operations that the *)
(* replay knows are one, "report"; the two that it does not know, which    *)
(* the database queues for content it has never seen, are "unmatched".     *)
(***************************************************************************)
EXTENDS Naturals, Sequences, FiniteSets

CONSTANTS
    Jobs,         \* ids of the jobs that report
    Unseen,       \* jobs whose content may be unknown to the local database
    Refused,      \* jobs whose reports the central server rejects
    Limit,        \* rows replayed per poll (20 in the code)
    NoReport,
    MaxReports,   \* bound: times one job reports
    MaxCrashes    \* bound: times the process dies

ASSUME OutboxAssumption ==
    /\ Unseen \subseteq Jobs /\ Refused \subseteq Jobs
    /\ Limit \in Nat \ {0}
    /\ NoReport \notin [job : Jobs, payload : 1 .. MaxReports]
    /\ MaxReports \in Nat /\ MaxCrashes \in Nat

VARIABLES
    outbox,       \* the rows of ingestion_outbox, in order of creation
    hand,         \* the report being sent, or NoReport
    batch,        \* ids of the rows that the present flush has yet to replay
    reports,      \* number of reports of each job so far
    up,           \* does the central server answer?
    received,     \* history: reports the server has ingested
    died,         \* history: reports in hand when the process died
    crashes

vars == <<outbox, hand, batch, reports, up, received, died, crashes>>

Operation == {"report", "unmatched"}
Report    == [job : Jobs, payload : 1 .. MaxReports]
OutboxRow == [op : Operation, job : Jobs, payload : 1 .. MaxReports,
              status : {"pending", "sent"}]

-----------------------------------------------------------------------------
(* The table.                                                              *)

\* A slip: a second failure finds its row and leaves it alone.
EnqueuedOnce(rows, op, q) ==
    IF \E i \in DOMAIN rows : rows[i].op = op /\ rows[i].job = q.job
    THEN rows
    ELSE Append(rows, [op |-> op, job |-> q.job, payload |-> q.payload,
                       status |-> "pending"])

\* enqueue_outbox: the row of an operation and a job keeps its place, takes
\* the new payload and is pending again.
Enqueued(rows, op, q) ==
    LET row == [op |-> op, job |-> q.job, payload |-> q.payload,
                status |-> "pending"]
        place == {i \in DOMAIN rows : rows[i].op = op /\ rows[i].job = q.job}
    IN  IF place = {} THEN Append(rows, row)
        ELSE [i \in DOMAIN rows |-> IF i \in place THEN row ELSE rows[i]]

\* A slip: rows that were sent are listed too.
FirstRows == {i \in DOMAIN outbox : i =< Limit}

\* list_pending_outbox: the oldest pending rows, at most Limit of them.
PendingRows ==
    LET pending == {i \in DOMAIN outbox : outbox[i].status = "pending"}
    IN  {i \in pending : Cardinality({k \in pending : k < i}) < Limit}

\* A slip: a row counts as sent however its replay ends.
SentAnyway(i, replayed) == "sent"

\* Another: failed rows get a status of their own.
FailedAfter(i, replayed) == IF replayed THEN "sent" ELSE "failed"

\* What the flush makes of a row's status.
StatusAfter(i, replayed) == IF replayed THEN "sent" ELSE outbox[i].status

-----------------------------------------------------------------------------
(* Reporting.                                                              *)

Polling == hand = NoReport /\ batch = {}

\* What a job collected goes to the local database, and is then in hand.
Ingest(j) ==
    /\ Polling
    /\ reports[j] < MaxReports
    /\ reports' = [reports EXCEPT ![j] = @ + 1]
    /\ hand' = [job |-> j, payload |-> reports[j] + 1]
    /\ \/ UNCHANGED outbox
       \/ j \in Unseen /\ outbox' = Enqueued(outbox, "unmatched", hand')
    /\ UNCHANGED <<batch, up, received, died, crashes>>

\* Does the server take the report?  It may when the answer never arrives.
Taken(q, answered) ==
    IF answered THEN received' = received \cup {q}
    ELSE \E lost \in BOOLEAN :
           received' = IF lost /\ ~up /\ q.job \notin Refused
                       THEN received \cup {q} ELSE received

Answered(q) == up /\ q.job \notin Refused

Sent ==
    /\ hand # NoReport
    /\ Answered(hand)
    /\ Taken(hand, TRUE)
    /\ hand' = NoReport
    /\ UNCHANGED <<outbox, batch, reports, up, died, crashes>>

\* Any exception of the request queues the report.
NotSent ==
    /\ hand # NoReport
    /\ ~Answered(hand)
    /\ Taken(hand, FALSE)
    /\ outbox' = Enqueued(outbox, "report", hand)
    /\ hand' = NoReport
    /\ UNCHANGED <<batch, reports, up, died, crashes>>

-----------------------------------------------------------------------------
(* flush_pending_outbox.                                                   *)

Flush ==
    /\ Polling
    /\ PendingRows # {}
    /\ batch' = PendingRows
    /\ UNCHANGED <<outbox, hand, reports, up, received, died, crashes>>

QueuedReport(i) == [job |-> outbox[i].job, payload |-> outbox[i].payload]

\* One row after the other; no failure keeps the next from being replayed.
Replay ==
    /\ \E i \in batch :
         LET q == QueuedReport(i)
             replayed == outbox[i].op = "report" /\ Answered(q)
         IN  /\ \A k \in batch : i =< k
             /\ IF outbox[i].op = "report" THEN Taken(q, replayed)
                ELSE UNCHANGED received
             /\ outbox' = [outbox EXCEPT ![i].status = StatusAfter(i, replayed)]
             /\ batch' = batch \ {i}
    /\ UNCHANGED <<hand, reports, up, died, crashes>>

-----------------------------------------------------------------------------
(* The process and the server.                                             *)

\* The request under way, if any.
InFlight ==
    IF hand # NoReport THEN {hand}
    ELSE {QueuedReport(i) : i \in {k \in batch :
             outbox[k].op = "report" /\ \A n \in batch : k =< n}}

\* The agent dies and starts again with what its database holds.
Crash ==
    /\ crashes < MaxCrashes
    /\ crashes' = crashes + 1
    /\ \E taken \in SUBSET {q \in InFlight : q.job \notin Refused} :
         received' = received \cup taken
    /\ died' = died \cup (IF hand # NoReport THEN {hand} ELSE {})
    /\ hand' = NoReport
    /\ batch' = {}
    /\ UNCHANGED <<outbox, reports, up>>

ServerToggles ==
    /\ up' = ~up
    /\ UNCHANGED <<outbox, hand, batch, reports, received, died, crashes>>

-----------------------------------------------------------------------------
Init ==
    /\ outbox = <<>>
    /\ hand = NoReport
    /\ batch = {}
    /\ reports = [j \in Jobs |-> 0]
    /\ up = TRUE
    /\ received = {}
    /\ died = {}
    /\ crashes = 0

Next ==
    \/ \E j \in Jobs : Ingest(j)
    \/ Sent \/ NotSent
    \/ Flush \/ Replay
    \/ Crash
    \/ ServerToggles

Spec == Init /\ [][Next]_vars

\* The agent polls again and again, and its requests end in an answer or in
\* an exception; a poll gets as far as the flush when its heartbeat is
\* answered.  Nothing makes the server come back.
FairSpec ==
    Spec /\ WF_vars(Sent \/ NotSent) /\ WF_vars(up /\ Flush) /\ WF_vars(Replay)

-----------------------------------------------------------------------------
(* Properties.                                                             *)

\* Every column holds a value of its type, and a flush works on rows of the
\* table.
TypeOK ==
    /\ outbox \in Seq(OutboxRow)
    /\ hand \in Report \cup {NoReport}
    /\ batch \subseteq DOMAIN outbox
    /\ reports \in [Jobs -> 0 .. MaxReports]
    /\ up \in BOOLEAN
    /\ received \subseteq Report /\ died \subseteq Report
    /\ crashes \in 0 .. MaxCrashes

Pending(q) == \E i \in DOMAIN outbox :
                 /\ outbox[i].op = "report" /\ outbox[i].status = "pending"
                 /\ outbox[i].job = q.job /\ outbox[i].payload = q.payload

\* The last thing a job had to say is with the server, in the outbox or being
\* sent, whatever fails and however often the process dies, unless it died
\* with the report in hand.
NothingLost ==
    \A j \in {k \in Jobs : reports[k] > 0} :
        LET q == [job |-> j, payload |-> reports[j]]
        IN  q \in received \/ Pending(q) \/ hand = q \/ q \in died

\* A row is marked as sent only when the server has the payload it holds,
\* which a later failure of the same job may have replaced.
SentIsReceived ==
    \A i \in DOMAIN outbox :
        outbox[i].status = "sent" => QueuedReport(i) \in received

\* Once the server stays up, every queued report that it does not refuse stops
\* being pending: later polls replay it, unless a newer report of its job takes
\* over its row, which is then replayed in its place.
QueueDrains ==
    <>[]up => \A q \in Report :
                q.job \notin Refused => (Pending(q) ~> ~Pending(q))
=============================================================================

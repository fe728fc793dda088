---------------------------- MODULE OutboxProofs ----------------------------
(* Proofs about Outbox.                                                      *)
EXTENDS Outbox, SequenceTheorems, FiniteSetTheorems, TLAPS

(***************************************************************************)
(* The inductive invariant: the report in hand is the last of its job.     *)
(***************************************************************************)
HandIsLatest == hand # NoReport => hand.payload = reports[hand.job]

IInv == TypeOK /\ HandIsLatest /\ NothingLost /\ SentIsReceived

\* A function over 1..n is a sequence.
LEMMA FunctionIsSeq ==
    ASSUME NEW S, NEW n \in Nat, NEW f \in [1..n -> S]
    PROVE  f \in Seq(S)
  BY SeqDef

\* The row that enqueue_outbox writes.
NewRow(op, q) ==
    [op |-> op, job |-> q.job, payload |-> q.payload, status |-> "pending"]

\* enqueue_outbox leaves a table in which the report is pending and every
\* other row is what it was.
LEMMA EnqueuedRows ==
    ASSUME NEW rows \in Seq(OutboxRow), NEW op \in Operation, NEW q \in Report
    PROVE  /\ Enqueued(rows, op, q) \in Seq(OutboxRow)
           /\ DOMAIN rows \subseteq DOMAIN Enqueued(rows, op, q)
           /\ \E i \in DOMAIN Enqueued(rows, op, q) :
                 Enqueued(rows, op, q)[i] = NewRow(op, q)
           /\ \A i \in DOMAIN rows :
                 \/ Enqueued(rows, op, q)[i] = rows[i]
                 \/ rows[i].op = op /\ rows[i].job = q.job
           /\ \A i \in DOMAIN Enqueued(rows, op, q) :
                 \/ Enqueued(rows, op, q)[i] = NewRow(op, q)
                 \/ i \in DOMAIN rows /\ Enqueued(rows, op, q)[i] = rows[i]
<1> DEFINE row == NewRow(op, q)
           place == {i \in DOMAIN rows : rows[i].op = op /\ rows[i].job = q.job}
           n == Len(rows)
<1>1. row \in OutboxRow  BY DEF NewRow, OutboxRow, Report
<1>2. n \in Nat /\ DOMAIN rows = 1..n /\ rows \in [1..n -> OutboxRow]
  BY LenProperties
<1>3. CASE place = {}
  <2>1. Enqueued(rows, op, q) = Append(rows, row)
    BY <1>3 DEF Enqueued, NewRow
  <2>2. /\ Append(rows, row) \in Seq(OutboxRow)
        /\ Len(Append(rows, row)) = n + 1
        /\ \A i \in 1..n : Append(rows, row)[i] = rows[i]
        /\ Append(rows, row)[n + 1] = row
    BY <1>1, AppendProperties
  <2>3. DOMAIN Append(rows, row) = 1..(n + 1)  BY <2>2, LenProperties
  <2> HIDE DEF row, place, n
  <2> QED  BY <1>2, <2>1, <2>2, <2>3 DEF row
<1>4. CASE place # {}
  <2> DEFINE new == [i \in DOMAIN rows |-> IF i \in place THEN row ELSE rows[i]]
  <2>1. Enqueued(rows, op, q) = new
    BY <1>4 DEF Enqueued, NewRow
  <2> HIDE DEF row
  <2>2. new \in [1..n -> OutboxRow]  BY <1>1, <1>2
  <2>3. new \in Seq(OutboxRow)  BY <1>2, <2>2, FunctionIsSeq
  <2> QED  BY <1>2, <1>4, <2>1, <2>2, <2>3 DEF row
<1> QED  BY <1>3, <1>4

\* Sent rows stay received, whatever is enqueued.
LEMMA EnqueuedSent ==
    ASSUME NEW op \in Operation, NEW q \in Report, outbox \in Seq(OutboxRow),
           SentIsReceived, outbox' = Enqueued(outbox, op, q),
           received \subseteq received'
    PROVE  SentIsReceived'
<1> SUFFICES ASSUME NEW i \in DOMAIN outbox', outbox'[i].status = "sent"
             PROVE  QueuedReport(i)' \in received'
  BY DEF SentIsReceived
<1>1. outbox'[i] # NewRow(op, q)  BY DEF NewRow
<1>2. i \in DOMAIN outbox /\ outbox'[i] = outbox[i]  BY <1>1, EnqueuedRows
<1> QED  BY <1>2 DEF SentIsReceived, QueuedReport

\* What is pending stays pending, unless the same job's report takes its place.
LEMMA EnqueuedPending ==
    ASSUME NEW op \in Operation, NEW q \in Report, outbox \in Seq(OutboxRow),
           outbox' = Enqueued(outbox, op, q), NEW p \in Report, Pending(p),
           op = "report" => p.job # q.job
    PROVE  Pending(p)'
<1>1. PICK i \in DOMAIN outbox :
        /\ outbox[i].op = "report" /\ outbox[i].status = "pending"
        /\ outbox[i].job = p.job /\ outbox[i].payload = p.payload
  BY DEF Pending
<1>2. i \in DOMAIN outbox' /\ outbox'[i] = outbox[i]  BY <1>1, EnqueuedRows
<1> QED  BY <1>1, <1>2 DEF Pending
-----------------------------------------------------------------------------
(* The actions.                                                            *)

\* The last report of a job is a report.
LEMMA LatestType ==
    ASSUME TypeOK, NEW j \in Jobs, reports[j] > 0
    PROVE  [job |-> j, payload |-> reports[j]] \in Report
  BY OutboxAssumption DEF TypeOK, Report

\* The report of j, wherever it is.
Safe(j) ==
    LET q == [job |-> j, payload |-> reports[j]]
    IN  q \in received \/ Pending(q) \/ hand = q \/ q \in died

LEMMA IngestInv == ASSUME IInv, NEW j \in Jobs, Ingest(j) PROVE IInv'
<1> DEFINE q == [job |-> j, payload |-> reports[j] + 1]
<1>1. q \in Report  BY OutboxAssumption DEF IInv, TypeOK, Ingest, Report
<1>2. reports' \in [Jobs -> 0 .. MaxReports]
  BY OutboxAssumption DEF IInv, TypeOK, Ingest
<1>3. hand' = q /\ hand = NoReport  BY DEF Ingest, Polling
<1>4. outbox' = outbox \/ outbox' = Enqueued(outbox, "unmatched", q)
  BY <1>3 DEF Ingest
<1>5. "unmatched" \in Operation  BY DEF Operation
<1>6. outbox \in Seq(OutboxRow) /\ SentIsReceived  BY DEF IInv, TypeOK
<1>7. received' = received /\ died' = died  BY DEF Ingest
<1>8. TypeOK'
  <2>1. outbox' \in Seq(OutboxRow) /\ DOMAIN outbox \subseteq DOMAIN outbox'
    BY <1>1, <1>4, <1>5, <1>6, EnqueuedRows
  <2> QED  BY <1>1, <1>2, <1>3, <2>1 DEF IInv, TypeOK, Ingest, Polling
<1>9. HandIsLatest'
  BY <1>3 DEF HandIsLatest, Ingest, IInv, TypeOK
<1>10. SentIsReceived'
  <2>1. CASE outbox' = outbox  BY <2>1, <1>6, <1>7 DEF SentIsReceived, QueuedReport
  <2>2. CASE outbox' = Enqueued(outbox, "unmatched", q)
    BY <2>2, <1>1, <1>5, <1>6, <1>7, EnqueuedSent
  <2> QED  BY <1>4, <2>1, <2>2
<1>11. ASSUME NEW k \in Jobs, reports'[k] > 0 PROVE Safe(k)'
  <2>1. CASE k = j
    BY <2>1, <1>3 DEF Safe, Ingest, IInv, TypeOK
  <2>2. CASE k # j
    <3> DEFINE p == [job |-> k, payload |-> reports[k]]
    <3>1. reports'[k] = reports[k]  BY <2>2 DEF Ingest, IInv, TypeOK
    <3>2. p \in Report  BY <1>11, <3>1, LatestType DEF IInv
    <3>3. PICK x : x = p  OBVIOUS
    <3>4. x # NoReport  BY <3>2, <3>3, OutboxAssumption DEF Report
    <3>5. Safe(k)  BY <1>11, <3>1 DEF IInv, NothingLost, Safe
    <3>6. x \in received \/ Pending(x) \/ x \in died
      BY <1>3, <3>3, <3>4, <3>5 DEF Safe
    <3>7. Pending(x) => Pending(x)'
      <4>1. CASE outbox' = outbox  BY <4>1 DEF Pending
      <4>2. CASE outbox' = Enqueued(outbox, "unmatched", q)
        BY <4>2, <1>1, <1>5, <1>6, <3>2, <3>3, EnqueuedPending
      <4> QED  BY <1>4, <4>1, <4>2
    <3>8. x = [job |-> k, payload |-> reports'[k]]  BY <3>1, <3>3
    <3> HIDE DEF p
    <3> QED  BY <3>6, <3>7, <3>8, <1>7 DEF Safe
  <2> QED  BY <2>1, <2>2
<1> QED  BY <1>8, <1>9, <1>10, <1>11 DEF IInv, NothingLost, Safe

\* A step that makes no report loses none, if it drops none that was pending
\* or in hand.
LEMMA StaysSafe ==
    ASSUME IInv, NEW j \in Jobs, reports[j] > 0, reports' = reports,
           received \subseteq received', died \subseteq died',
           \A x \in Report : x.payload = reports[x.job] =>
              /\ Pending(x) => Pending(x)' \/ x \in received' \/ hand = x
              /\ x = hand => \/ hand' = x \/ Pending(x)'
                            \/ x \in received' \/ x \in died'
    PROVE  Safe(j)'
<1> DEFINE q == [job |-> j, payload |-> reports[j]]
<1>1. q \in Report  BY LatestType DEF IInv
<1>2. PICK x : x = q  OBVIOUS
<1>3. Safe(j)  BY DEF IInv, NothingLost, Safe
<1>4. x \in received \/ Pending(x) \/ hand = x \/ x \in died
  BY <1>2, <1>3 DEF Safe
<1>5. x \in received' \/ Pending(x)' \/ hand' = x \/ x \in died'
  BY <1>1, <1>2, <1>4
<1>6. x = [job |-> j, payload |-> reports'[j]]  BY <1>2
<1> QED  BY <1>5, <1>6 DEF Safe

LEMMA AllSafe ==
    ASSUME IInv, reports' = reports, \A j \in Jobs : reports[j] > 0 => Safe(j)'
    PROVE  NothingLost'
  BY DEF NothingLost, Safe

LEMMA HandType == TypeOK /\ hand # NoReport => hand \in Report
  BY DEF TypeOK

\* What a request leaves at the server is a report.
LEMMA TakenType ==
    ASSUME TypeOK, NEW q \in Report, NEW answered \in BOOLEAN, Taken(q, answered)
    PROVE  /\ received' \subseteq Report
           /\ received \subseteq received'
           /\ answered => q \in received'
  BY DEF TypeOK, Taken

LEMMA SentInv == ASSUME IInv, Sent PROVE IInv'
<1>1. hand \in Report  BY HandType DEF IInv, Sent
<1>2. /\ received' \subseteq Report /\ received \subseteq received'
      /\ hand \in received'
  BY <1>1, TakenType DEF Sent, IInv
<1>3. TypeOK'  BY <1>2 DEF IInv, TypeOK, Sent
<1>4. HandIsLatest'  BY DEF HandIsLatest, Sent
<1>5. SentIsReceived'
  BY <1>2 DEF SentIsReceived, QueuedReport, IInv, Sent
<1>6. \A x \in Report : Pending(x) => Pending(x)'  BY DEF Pending, Sent
<1>7. \A j \in Jobs : reports[j] > 0 => Safe(j)'
  BY <1>2, <1>6, StaysSafe DEF Sent
<1>8. NothingLost'  BY <1>7, AllSafe DEF Sent
<1> QED  BY <1>3, <1>4, <1>5, <1>8 DEF IInv

LEMMA NotSentInv == ASSUME IInv, NotSent PROVE IInv'
<1>1. hand \in Report  BY HandType DEF IInv, NotSent
<1>2. received' \subseteq Report /\ received \subseteq received'
  BY <1>1, TakenType DEF NotSent, IInv
<1>3. /\ "report" \in Operation
      /\ outbox \in Seq(OutboxRow)
      /\ outbox' = Enqueued(outbox, "report", hand)
  BY DEF NotSent, Operation, IInv, TypeOK
<1>4. outbox' \in Seq(OutboxRow) /\ DOMAIN outbox \subseteq DOMAIN outbox'
  BY <1>1, <1>3, EnqueuedRows
<1>5. TypeOK'  BY <1>2, <1>4 DEF IInv, TypeOK, NotSent
<1>6. HandIsLatest'  BY DEF HandIsLatest, NotSent
<1>7. SentIsReceived'  BY <1>1, <1>2, <1>3, EnqueuedSent DEF IInv
<1>8. ASSUME NEW x \in Report, x = hand PROVE Pending(x)'
  <2>1. PICK i \in DOMAIN outbox' : outbox'[i] = NewRow("report", x)
    BY <1>1, <1>3, <1>8, EnqueuedRows
  <2> QED  BY <2>1 DEF Pending, NewRow
<1>9. ASSUME NEW x \in Report, x.payload = reports[x.job], Pending(x), x # hand
      PROVE  Pending(x)'
  <2>1. hand.payload = reports[hand.job]
    BY DEF IInv, HandIsLatest, NotSent
  <2>2. x.job # hand.job  BY <1>1, <1>9, <2>1 DEF Report
  <2> QED  BY <1>1, <1>3, <1>9, <2>2, EnqueuedPending
<1>10. \A j \in Jobs : reports[j] > 0 => Safe(j)'
  BY <1>2, <1>8, <1>9, StaysSafe DEF NotSent
<1>11. NothingLost'  BY <1>10, AllSafe DEF NotSent
<1> QED  BY <1>5, <1>6, <1>7, <1>11 DEF IInv

LEMMA FlushInv == ASSUME IInv, Flush PROVE IInv'
<1>1. TypeOK'  BY DEF IInv, TypeOK, Flush, PendingRows
<1>2. HandIsLatest' /\ SentIsReceived'
  BY DEF IInv, HandIsLatest, SentIsReceived, QueuedReport, Flush
<1>3. \A x \in Report : Pending(x) => Pending(x)'  BY DEF Pending, Flush
<1>4. \A j \in Jobs : reports[j] > 0 => Safe(j)'
  BY <1>3, StaysSafe DEF Flush
<1> QED  BY <1>1, <1>2, <1>4, AllSafe DEF IInv, Flush

\* The report that a row of the table holds.
LEMMA QueuedType ==
    ASSUME TypeOK, NEW i \in DOMAIN outbox
    PROVE  outbox[i] \in OutboxRow /\ QueuedReport(i) \in Report
<1>1. outbox[i] \in OutboxRow  BY LenProperties, ElementOfSeq DEF TypeOK
<1> QED  BY <1>1 DEF OutboxRow, QueuedReport, Report

LEMMA ReplayInv == ASSUME IInv, Replay PROVE IInv'
<1>1. PICK i \in batch :
        LET q == QueuedReport(i)
            replayed == outbox[i].op = "report" /\ Answered(q)
        IN  /\ IF outbox[i].op = "report" THEN Taken(q, replayed)
               ELSE UNCHANGED received
            /\ outbox' = [outbox EXCEPT ![i].status = StatusAfter(i, replayed)]
            /\ batch' = batch \ {i}
  BY DEF Replay
<1> DEFINE q == QueuedReport(i)
           replayed == outbox[i].op = "report" /\ Answered(q)
           row == [outbox[i] EXCEPT !.status = StatusAfter(i, replayed)]
<1>2. /\ UNCHANGED <<hand, reports, up, died, crashes>>
      /\ i \in DOMAIN outbox
      /\ outbox' = [outbox EXCEPT ![i] = row]
  BY <1>1 DEF Replay, IInv, TypeOK
<1>3. outbox[i] \in OutboxRow /\ q \in Report
  BY <1>2, QueuedType DEF IInv
<1>4. /\ received' \subseteq Report /\ received \subseteq received'
      /\ replayed => q \in received'
  <2>1. CASE outbox[i].op = "report"
    <3>1. Taken(q, replayed)  BY <1>1, <2>1
    <3>2. replayed \in BOOLEAN  OBVIOUS
    <3> HIDE DEF q, replayed
    <3> QED  BY <1>3, <3>1, <3>2, TakenType DEF IInv
  <2>2. CASE outbox[i].op # "report"
    BY <1>1, <2>2 DEF IInv, TypeOK
  <2> QED  BY <2>1, <2>2
<1>5. row \in OutboxRow /\ row.op = outbox[i].op /\ row.job = outbox[i].job
      /\ row.payload = outbox[i].payload
  BY <1>3 DEF OutboxRow, StatusAfter
<1>6. row.status = "sent" => replayed \/ outbox[i].status = "sent"
  BY <1>3 DEF OutboxRow, StatusAfter
<1>7. replayed \/ row.status = outbox[i].status
  BY <1>3 DEF OutboxRow, StatusAfter
<1> HIDE DEF row, replayed
<1>8. /\ outbox' \in Seq(OutboxRow)
      /\ DOMAIN outbox' = DOMAIN outbox
      /\ \A k \in DOMAIN outbox : outbox'[k] = IF k = i THEN row ELSE outbox[k]
  BY <1>2, <1>5, LenProperties, ExceptSeq DEF IInv, TypeOK
<1>9. TypeOK'  BY <1>1, <1>2, <1>4, <1>8 DEF IInv, TypeOK
<1>10. HandIsLatest'  BY <1>2 DEF IInv, HandIsLatest
<1>11. SentIsReceived'
  <2> SUFFICES ASSUME NEW k \in DOMAIN outbox', outbox'[k].status = "sent"
               PROVE  QueuedReport(k)' \in received'
    BY DEF SentIsReceived
  <2>1. QueuedReport(k)' = QueuedReport(k)  BY <1>5, <1>8 DEF QueuedReport
  <2>2. CASE outbox[k].status = "sent"
    BY <2>1, <2>2, <1>4, <1>8 DEF IInv, SentIsReceived
  <2>3. CASE outbox[k].status # "sent"
    <3>1. k = i /\ replayed  BY <1>6, <1>8, <2>3
    <3> QED  BY <2>1, <3>1, <1>4
  <2> QED  BY <2>2, <2>3
<1>12. ASSUME NEW x \in Report, Pending(x) PROVE Pending(x)' \/ x \in received'
  <2>1. PICK k \in DOMAIN outbox :
          /\ outbox[k].op = "report" /\ outbox[k].status = "pending"
          /\ outbox[k].job = x.job /\ outbox[k].payload = x.payload
    BY <1>12 DEF Pending
  <2>2. CASE k = i /\ replayed
    <3>1. q = x  BY <2>1, <2>2 DEF QueuedReport, Report
    <3> QED  BY <3>1, <2>2, <1>4
  <2>3. CASE ~(k = i /\ replayed)
    <3>1. /\ outbox'[k].op = outbox[k].op /\ outbox'[k].job = outbox[k].job
          /\ outbox'[k].payload = outbox[k].payload
          /\ outbox'[k].status = outbox[k].status
      BY <1>5, <1>7, <1>8, <2>3
    <3> QED  BY <2>1, <3>1, <1>8 DEF Pending
  <2> QED  BY <2>2, <2>3
<1>13. \A j \in Jobs : reports[j] > 0 => Safe(j)'
  BY <1>2, <1>4, <1>12, StaysSafe
<1>14. NothingLost'  BY <1>2, <1>13, AllSafe
<1> QED  BY <1>9, <1>10, <1>11, <1>14 DEF IInv

LEMMA CrashInv == ASSUME IInv, Crash PROVE IInv'
<1>1. InFlight \subseteq Report
  BY HandType, QueuedType DEF IInv, InFlight, TypeOK
<1>2. received \subseteq received' /\ received' \subseteq Report
  BY <1>1 DEF Crash, IInv, TypeOK
<1>3. /\ died \subseteq died' /\ died' \subseteq Report
      /\ hand # NoReport => hand \in died'
  BY HandType DEF Crash, IInv, TypeOK
<1>4. TypeOK'
  BY <1>2, <1>3, OutboxAssumption DEF IInv, TypeOK, Crash
<1>5. HandIsLatest'  BY DEF HandIsLatest, Crash
<1>6. SentIsReceived'
  BY <1>2 DEF IInv, SentIsReceived, QueuedReport, Crash
<1>7. \A x \in Report : Pending(x) => Pending(x)'  BY DEF Pending, Crash
<1>8. \A x \in Report : x = hand => x \in died'
  BY <1>3, OutboxAssumption DEF Report
<1>9. \A j \in Jobs : reports[j] > 0 => Safe(j)'
  BY <1>2, <1>3, <1>7, <1>8, StaysSafe DEF Crash
<1>10. NothingLost'  BY <1>9, AllSafe DEF Crash
<1> QED  BY <1>4, <1>5, <1>6, <1>10 DEF IInv

LEMMA ToggleInv == ASSUME IInv, ServerToggles \/ UNCHANGED vars PROVE IInv'
  BY DEF IInv, TypeOK, HandIsLatest, NothingLost, SentIsReceived, QueuedReport,
     Pending, ServerToggles, vars
-----------------------------------------------------------------------------
(* The theorems.                                                           *)

LEMMA InitInv == Init => IInv
  BY OutboxAssumption, EmptySeq DEF Init, IInv, TypeOK, HandIsLatest, NothingLost,
     SentIsReceived

LEMMA Inductive == IInv /\ [Next]_vars => IInv'
  BY IngestInv, SentInv, NotSentInv, FlushInv, ReplayInv, CrashInv, ToggleInv DEF Next

LEMMA Invariant == Spec => []IInv
  BY InitInv, Inductive, PTL DEF Spec

\* Every state of the agent's outbox has the right types.
THEOREM TypeCorrect == Spec => []TypeOK
<1>1. IInv => TypeOK  BY DEF IInv
<1> QED  BY <1>1, Invariant, PTL

\* The last report of a job is at the server, queued or in hand, whatever
\* fails, unless the process died with it in hand (storage/gateway.py).
THEOREM NoReportIsLost == Spec => []NothingLost
<1>1. IInv => NothingLost  BY DEF IInv
<1> QED  BY <1>1, Invariant, PTL

\* What the table calls sent the server has, the payload included that a later
\* failure may have put in its place (storage/repository.py, enqueue_outbox).
THEOREM WhatIsSentIsReceived == Spec => []SentIsReceived
<1>1. IInv => SentIsReceived  BY DEF IInv
<1> QED  BY <1>1, Invariant, PTL

-----------------------------------------------------------------------------
(* One row per operation and job.                                          *)

OneRowEach ==
    \A i, k \in DOMAIN outbox :
        outbox[i].op = outbox[k].op /\ outbox[i].job = outbox[k].job => i = k

OnlyUnseenUnmatched ==
    \A i \in DOMAIN outbox : outbox[i].op = "unmatched" => outbox[i].job \in Unseen

LEMMA EnqueuedOneRow ==
    ASSUME NEW op \in Operation, NEW q \in Report, outbox \in Seq(OutboxRow),
           outbox' = Enqueued(outbox, op, q), OneRowEach, OnlyUnseenUnmatched,
           op = "unmatched" => q.job \in Unseen
    PROVE  OneRowEach' /\ OnlyUnseenUnmatched'
<1> DEFINE row == NewRow(op, q)
           place == {i \in DOMAIN outbox : outbox[i].op = op /\ outbox[i].job = q.job}
<1>1. row.op = op /\ row.job = q.job  BY DEF NewRow
<1>2. OnlyUnseenUnmatched'
  BY <1>1, EnqueuedRows DEF OnlyUnseenUnmatched
<1>3. CASE place = {}
  <2>1. outbox' = Append(outbox, row)
    BY <1>3 DEF Enqueued, NewRow
  <2>2. /\ DOMAIN outbox' = 1 .. (Len(outbox) + 1)
        /\ DOMAIN outbox = 1 .. Len(outbox) /\ Len(outbox) \in Nat
        /\ \A i \in DOMAIN outbox : outbox'[i] = outbox[i]
        /\ outbox'[Len(outbox) + 1] = row
    BY <2>1, AppendProperties, LenProperties, EnqueuedRows
  <2> HIDE DEF row
  <2> QED  BY <1>1, <1>2, <1>3, <2>2 DEF OneRowEach
<1>4. CASE place # {}
  <2>1. outbox' = [i \in DOMAIN outbox |-> IF i \in place THEN row ELSE outbox[i]]
    BY <1>4 DEF Enqueued, NewRow
  <2> HIDE DEF row
  <2>2. ASSUME NEW i \in DOMAIN outbox
        PROVE  outbox'[i].op = outbox[i].op /\ outbox'[i].job = outbox[i].job
    BY <1>1, <2>1
  <2>3. DOMAIN outbox' = DOMAIN outbox  BY <2>1
  <2> QED  BY <1>2, <2>2, <2>3 DEF OneRowEach
<1> QED  BY <1>3, <1>4

\* What a step does to the table: a report is put into it, one row's status is
\* set by a replay, or nothing.
LEMMA TableSteps ==
    ASSUME IInv, [Next]_vars
    PROVE  \/ UNCHANGED outbox
           \/ \E op \in Operation, q \in Report :
                /\ outbox' = Enqueued(outbox, op, q)
                /\ op = "unmatched" => q.job \in Unseen
                /\ UNCHANGED batch
           \/ \E i \in batch :
                /\ outbox' = [outbox EXCEPT ![i].status =
                                StatusAfter(i, outbox[i].op = "report" /\
                                               Answered(QueuedReport(i)))]
                /\ batch' = batch \ {i}
<1>1. ASSUME NEW j \in Jobs, Ingest(j), outbox' # outbox
      PROVE  /\ outbox' = Enqueued(outbox, "unmatched", hand')
             /\ hand' \in Report /\ hand'.job \in Unseen /\ UNCHANGED batch
  <2>1. j \in Unseen /\ outbox' = Enqueued(outbox, "unmatched", hand') /\ UNCHANGED batch
    BY <1>1 DEF Ingest
  <2>2. hand' = [job |-> j, payload |-> reports[j] + 1]
    BY <1>1 DEF Ingest
  <2>3. hand' \in Report
    BY <1>1, IngestInv, OutboxAssumption, <2>2
    DEF IInv, TypeOK, Ingest, Report
  <2> QED  BY <2>1, <2>2, <2>3
<1>2. ASSUME NotSent
      PROVE  outbox' = Enqueued(outbox, "report", hand) /\ hand \in Report /\ UNCHANGED batch
  BY <1>2, HandType DEF NotSent, IInv
<1>3. ASSUME Replay
      PROVE  \E i \in batch :
                /\ outbox' = [outbox EXCEPT ![i].status =
                                StatusAfter(i, outbox[i].op = "report" /\
                                               Answered(QueuedReport(i)))]
                /\ batch' = batch \ {i}
  BY <1>3 DEF Replay
<1>4. ASSUME Sent \/ Flush \/ Crash \/ ServerToggles \/ UNCHANGED vars
      PROVE  UNCHANGED outbox
  BY <1>4 DEF Sent, Flush, Crash, ServerToggles, vars
<1> QED  BY <1>1, <1>2, <1>3, <1>4 DEF Next, Operation

\* A replay sets a status, and only that of a report the server has accepted.
LEMMA ReplayedRow ==
    ASSUME IInv, NEW i \in batch,
           outbox' = [outbox EXCEPT ![i].status =
                        StatusAfter(i, outbox[i].op = "report" /\
                                       Answered(QueuedReport(i)))]
    PROVE  /\ DOMAIN outbox' = DOMAIN outbox
           /\ \A k \in DOMAIN outbox :
                /\ outbox'[k].op = outbox[k].op /\ outbox'[k].job = outbox[k].job
                /\ \/ outbox'[k] = outbox[k]
                   \/ k = i /\ outbox[k].op = "report" /\ outbox[k].job \notin Refused
<1>1. i \in DOMAIN outbox /\ outbox[i] \in OutboxRow
  BY QueuedType DEF IInv, TypeOK
<1>2. outbox \in Seq(OutboxRow) /\ DOMAIN outbox = 1 .. Len(outbox) /\ Len(outbox) \in Nat
  BY LenProperties DEF IInv, TypeOK
<1>3. outbox \in [1 .. Len(outbox) -> OutboxRow]  BY <1>2, LenProperties
<1> QED
  BY <1>1, <1>2, <1>3 DEF StatusAfter, Answered, QueuedReport, OutboxRow

\* Whatever is reported and replayed, the table has one row per operation and
\* job at most, and unmatched ones only of jobs whose content may be unknown.
LEMMA RowsAreUnique == Spec => [](OneRowEach /\ OnlyUnseenUnmatched)
<1>1. Init => OneRowEach /\ OnlyUnseenUnmatched
  BY EmptySeq DEF Init, OneRowEach, OnlyUnseenUnmatched
<1>2. ASSUME IInv, OneRowEach, OnlyUnseenUnmatched, [Next]_vars
      PROVE  OneRowEach' /\ OnlyUnseenUnmatched'
  <2>1. CASE UNCHANGED outbox
    BY <1>2, <2>1 DEF OneRowEach, OnlyUnseenUnmatched
  <2>2. ASSUME NEW op \in Operation, NEW q \in Report,
               outbox' = Enqueued(outbox, op, q), op = "unmatched" => q.job \in Unseen
        PROVE  OneRowEach' /\ OnlyUnseenUnmatched'
    BY <1>2, <2>2, EnqueuedOneRow DEF IInv, TypeOK
  <2>3. ASSUME NEW i \in batch,
               outbox' = [outbox EXCEPT ![i].status =
                            StatusAfter(i, outbox[i].op = "report" /\
                                           Answered(QueuedReport(i)))]
        PROVE  OneRowEach' /\ OnlyUnseenUnmatched'
    BY <1>2, <2>3, ReplayedRow DEF OneRowEach, OnlyUnseenUnmatched
  <2> QED  BY <1>2, <2>1, <2>2, <2>3, TableSteps
<1> QED  BY <1>1, <1>2, Invariant, PTL DEF Spec

-----------------------------------------------------------------------------
(* Rows that no replay gets rid of: those of an operation that _replay does  *)
(* not know, and reports that the server rejects.                            *)

\* Putting a report into the table leaves a row alone or replaces it.
LEMMA EnqueuedOver ==
    ASSUME IInv, NEW op \in Operation, NEW q \in Report,
           outbox' = Enqueued(outbox, op, q), NEW k \in DOMAIN outbox
    PROVE  /\ k \in DOMAIN outbox'
           /\ \/ outbox'[k] = outbox[k]
              \/ /\ outbox[k].op = op /\ outbox[k].job = q.job
                 /\ outbox'[k] = NewRow(op, q)
<1>1. outbox \in Seq(OutboxRow)  BY DEF IInv, TypeOK
<1>2. /\ DOMAIN outbox \subseteq DOMAIN outbox'
      /\ \A i \in DOMAIN outbox :
            outbox'[i] = outbox[i] \/ (outbox[i].op = op /\ outbox[i].job = q.job)
      /\ \A i \in DOMAIN outbox' :
            outbox'[i] = NewRow(op, q) \/ (i \in DOMAIN outbox /\ outbox'[i] = outbox[i])
  BY <1>1, EnqueuedRows
<1> QED  BY <1>2

Unreplayable(i) ==
    /\ i \in DOMAIN outbox /\ outbox[i].status = "pending"
    /\ outbox[i].op = "unmatched" \/ outbox[i].job \in Refused

LEMMA UnreplayableStays ==
    ASSUME IInv, [Next]_vars, NEW k, Unreplayable(k)
    PROVE  Unreplayable(k)'
<1>1. CASE UNCHANGED outbox
  BY <1>1 DEF Unreplayable
<1>2. ASSUME NEW op \in Operation, NEW q \in Report, outbox' = Enqueued(outbox, op, q)
      PROVE  Unreplayable(k)'
  <2>1. k \in DOMAIN outbox  BY DEF Unreplayable
  <2>2. /\ k \in DOMAIN outbox'
        /\ \/ outbox'[k] = outbox[k]
           \/ /\ outbox[k].op = op /\ outbox[k].job = q.job
              /\ outbox'[k] = NewRow(op, q)
    BY <1>2, <2>1, EnqueuedOver
  <2>3. /\ NewRow(op, q).op = op /\ NewRow(op, q).job = q.job
        /\ NewRow(op, q).status = "pending"
    BY DEF NewRow
  <2> QED  BY <2>2, <2>3 DEF Unreplayable
<1>3. ASSUME NEW i \in batch,
             outbox' = [outbox EXCEPT ![i].status =
                          StatusAfter(i, outbox[i].op = "report" /\
                                         Answered(QueuedReport(i)))]
      PROVE  Unreplayable(k)'
  BY <1>3, ReplayedRow DEF Unreplayable
<1> QED  BY <1>1, <1>2, <1>3, TableSteps

\* Row i waits behind as many unreplayable rows as one flush takes.
HeldBack(i) ==
    /\ i \in DOMAIN outbox /\ outbox[i].status = "pending" /\ i \notin batch
    /\ \E D \in SUBSET (1 .. i - 1) :
         Cardinality(D) = Limit /\ \A k \in D : Unreplayable(k)

\* A flush does not get as far as such a row.
LEMMA FlushStopsShort ==
    ASSUME IInv, NEW i, HeldBack(i)
    PROVE  i \notin PendingRows
<1> DEFINE older == {k \in {n \in DOMAIN outbox : outbox[n].status = "pending"} : k < i}
<1>1. DOMAIN outbox = 1 .. Len(outbox) /\ Len(outbox) \in Nat /\ i \in 1 .. Len(outbox)
  BY LenProperties DEF IInv, TypeOK, HeldBack
<1>2. PICK D \in SUBSET (1 .. i - 1) :
        Cardinality(D) = Limit /\ \A k \in D : Unreplayable(k)
  BY DEF HeldBack
<1>3. D \subseteq older
  BY <1>1, <1>2 DEF Unreplayable
<1>4. IsFiniteSet(older)
  <2>1. IsFiniteSet(DOMAIN outbox)  BY <1>1, FS_Interval
  <2> QED  BY <2>1, FS_Subset
<1>5. /\ Cardinality(D) =< Cardinality(older)
      /\ Cardinality(D) \in Nat /\ Cardinality(older) \in Nat
  BY <1>3, <1>4, FS_Subset, FS_CardinalityType
<1>6. ~(Cardinality(older) < Limit)
  BY <1>2, <1>5, OutboxAssumption
<1> QED  BY <1>6 DEF PendingRows

\* The outbox can be poisoned for good: a report that waits behind Limit rows
\* which no replay gets rid of is never replayed again, whether or not the
\* server answers, and whatever is reported or dies later.  With the 20 rows
\* of the code this is what the outbox_poison run exhibits with two.
THEOREM PoisonIsForGood ==
    ASSUME NEW i
    PROVE  Spec => [](HeldBack(i) => []HeldBack(i))
<1>1. ASSUME IInv, [Next]_vars, HeldBack(i) PROVE HeldBack(i)'
  <2>1. PICK D \in SUBSET (1 .. i - 1) :
          Cardinality(D) = Limit /\ \A k \in D : Unreplayable(k)
    BY <1>1 DEF HeldBack
  <2>2. \A k \in D : Unreplayable(k)'
    BY <1>1, <2>1, UnreplayableStays
  <2>3. i \in DOMAIN outbox' /\ outbox'[i].status = "pending"
    <3>1. CASE UNCHANGED outbox
      BY <1>1, <3>1 DEF HeldBack
    <3>2. ASSUME NEW op \in Operation, NEW q \in Report,
                 outbox' = Enqueued(outbox, op, q)
          PROVE  i \in DOMAIN outbox' /\ outbox'[i].status = "pending"
      <4>1. i \in DOMAIN outbox  BY <1>1 DEF HeldBack
      <4>2. /\ i \in DOMAIN outbox'
            /\ outbox'[i] = outbox[i] \/ outbox'[i] = NewRow(op, q)
        BY <1>1, <3>2, <4>1, EnqueuedOver
      <4>3. NewRow(op, q).status = "pending"  BY DEF NewRow
      <4> QED  BY <1>1, <4>2, <4>3 DEF HeldBack
    <3>3. ASSUME NEW n \in batch,
                 outbox' = [outbox EXCEPT ![n].status =
                              StatusAfter(n, outbox[n].op = "report" /\
                                             Answered(QueuedReport(n)))]
          PROVE  i \in DOMAIN outbox' /\ outbox'[i].status = "pending"
      BY <1>1, <3>3, ReplayedRow DEF HeldBack
    <3> QED  BY <1>1, <3>1, <3>2, <3>3, TableSteps
  <2>4. i \notin batch'
    <3>1. CASE Flush
      BY <1>1, <3>1, FlushStopsShort DEF Flush
    <3>2. CASE ~Flush
      BY <1>1, <3>2
      DEF Next, HeldBack, Ingest, Sent, NotSent, Replay, Crash, ServerToggles, vars
    <3> QED  BY <3>1, <3>2
  <2> QED  BY <2>1, <2>2, <2>3, <2>4 DEF HeldBack
<1> QED  BY <1>1, Invariant, PTL DEF Spec

\* A row that a replay delivers once the server answers.
Deliverable(i) ==
    /\ i \in DOMAIN outbox /\ outbox[i].status = "pending"
    /\ outbox[i].op = "report" /\ outbox[i].job \notin Refused

\* The rows that no replay gets rid of are at most one per unmatched job and
\* one per refused job.
LEMMA UnreplayableFew ==
    ASSUME IInv, OneRowEach, OnlyUnseenUnmatched,
           IsFiniteSet(Unseen), IsFiniteSet(Refused)
    PROVE  LET dead == {i \in DOMAIN outbox : Unreplayable(i)}
           IN  /\ IsFiniteSet(dead)
               /\ Cardinality(dead) =< Cardinality(Unseen) + Cardinality(Refused)
<1> DEFINE dead == {i \in DOMAIN outbox : Unreplayable(i)}
           lost == {i \in dead : outbox[i].op = "unmatched"}
           bad  == {i \in dead : outbox[i].op = "report"}
<1>1. ASSUME NEW i \in DOMAIN outbox PROVE outbox[i].op \in {"report", "unmatched"}
  BY <1>1, QueuedType DEF IInv, OutboxRow, Operation
<1>2. IsFiniteSet(lost) /\ Cardinality(lost) =< Cardinality(Unseen)
  <2> DEFINE f == [i \in lost |-> outbox[i].job]
  <2>1. f \in Injection(lost, Unseen)
    BY DEF Injection, IsInjective, OneRowEach, OnlyUnseenUnmatched
  <2> QED  BY <2>1, FS_Injection
<1>3. IsFiniteSet(bad) /\ Cardinality(bad) =< Cardinality(Refused)
  <2> DEFINE f == [i \in bad |-> outbox[i].job]
  <2>1. f \in Injection(bad, Refused)
    BY DEF Injection, IsInjective, OneRowEach, Unreplayable
  <2> QED  BY <2>1, FS_Injection
<1>4. dead = lost \cup bad  BY <1>1
<1>5. /\ IsFiniteSet(dead)
      /\ Cardinality(dead) = Cardinality(lost) + Cardinality(bad)
                               - Cardinality(lost \cap bad)
  BY <1>2, <1>3, <1>4, FS_Union
<1>6. /\ Cardinality(lost) \in Nat /\ Cardinality(bad) \in Nat
      /\ Cardinality(lost \cap bad) \in Nat /\ Cardinality(dead) \in Nat
      /\ Cardinality(Unseen) \in Nat /\ Cardinality(Refused) \in Nat
  BY <1>2, <1>3, <1>5, FS_CardinalityType, FS_Intersection
<1> HIDE DEF dead, lost, bad
<1>7. Cardinality(dead) =< Cardinality(Unseen) + Cardinality(Refused)
  BY <1>2, <1>3, <1>5, <1>6
<1> QED  BY <1>5, <1>7 DEF dead

\* Where fewer jobs than that leave rows which cannot be replayed, every flush
\* takes up the oldest report that can: nothing stands in its way but outages.
THEOREM OldestIsTakenUp ==
    ASSUME IsFiniteSet(Unseen), IsFiniteSet(Refused),
           Cardinality(Unseen) + Cardinality(Refused) < Limit
    PROVE  Spec => [](\A i : Deliverable(i) /\ (\A k : Deliverable(k) => i =< k)
                               => i \in PendingRows)
<1> DEFINE Oldest(i) == Deliverable(i) /\ \A k : Deliverable(k) => i =< k
<1>1. ASSUME IInv, OneRowEach, OnlyUnseenUnmatched, NEW i, Oldest(i)
      PROVE  i \in PendingRows
  <2> DEFINE older == {k \in {n \in DOMAIN outbox : outbox[n].status = "pending"} : k < i}
             dead == {k \in DOMAIN outbox : Unreplayable(k)}
  <2>1. /\ DOMAIN outbox = 1 .. Len(outbox) /\ Len(outbox) \in Nat
        /\ i \in DOMAIN outbox
    BY <1>1, LenProperties DEF IInv, TypeOK, Deliverable
  <2>2. ASSUME NEW k \in older PROVE k \in dead
    <3>1. ~(i =< k)  BY <2>1
    <3>2. ~Deliverable(k)  BY <1>1, <3>1
    <3>3. outbox[k] \in OutboxRow  BY <1>1, QueuedType DEF IInv
    <3> QED  BY <3>2, <3>3 DEF Deliverable, Unreplayable, OutboxRow, Operation
  <2>3. /\ IsFiniteSet(dead)
        /\ Cardinality(dead) =< Cardinality(Unseen) + Cardinality(Refused)
    BY <1>1, UnreplayableFew
  <2>4. /\ Cardinality(older) =< Cardinality(dead)
        /\ Cardinality(older) \in Nat /\ Cardinality(dead) \in Nat
        /\ Cardinality(Unseen) \in Nat /\ Cardinality(Refused) \in Nat
    BY <2>2, <2>3, FS_Subset, FS_CardinalityType
  <2> HIDE DEF older, dead
  <2>5. Cardinality(older) < Limit
    BY <2>3, <2>4, OutboxAssumption
  <2> QED  BY <1>1, <2>5 DEF older, PendingRows, Deliverable
<1>2. IInv /\ OneRowEach /\ OnlyUnseenUnmatched
        => (\A i : Oldest(i) => i \in PendingRows)
  BY <1>1
<1> QED  BY <1>2, Invariant, RowsAreUnique, PTL
=============================================================================

------------------------------ MODULE Contents ------------------------------
(***************************************************************************)
(* What the central server does with what the agents find: the ingestion   *)
(* of feeds, details and comments, the assignment of a content to a user,  *)
(* the detail jobs asked for, and the reference library with its two ways  *)
(* in, an operator's selection and the rules' ("ai").                      *)
(*                                                                         *)
(* A handler that reads before it writes is two steps: Read takes the rows *)
(* as they are and a later step writes, in one transaction, what follows   *)
(* from them; handlers run in parallel threads and take no row locks, so   *)
(* others may commit in between.  Ingesting a feed is two transactions:    *)
(* the rules' selection comes in a second one.  A handler that only writes *)
(* is one step.                                                            *)
(*                                                                         *)
(* Which contents a rule takes, whether it has been applied before, what a *)
(* decision says and which policy asks for details is left open.  Left     *)
(* out, since no handler here reads them: texts and urls, events, library  *)
(* type and rating, the workflow status and the comment jobs.  A report    *)
(* carries one content.                                                    *)
(***************************************************************************)
EXTENDS Naturals, FiniteSets

CONSTANTS
    Content,       \* platform ids of the contents that can be found
    Requests,      \* database sessions that may be open at the same time
    Users,         \* users a content may be assigned to
    NoUser,        \* a NULL assigned_to_user_id, or an account nobody owns
    MaxItems,      \* bound: library items ever made of one content
    MaxDetails     \* bound: detail jobs of one content active at a time

ASSUME ContentsAssumption ==
    /\ NoUser \notin Users
    /\ MaxItems \in Nat /\ MaxDetails \in Nat

VARIABLES
    rows,          \* the committed rows about each content
    open           \* the request of each session

vars == <<rows, open>>

\* no: which of the items made of the content this is; locked:
\* metadata_json.selection_locked_by_manual
Item == [no : 1..MaxItems, locked : BOOLEAN]

\* known: it has a content_identity and a workflow state; user: the
\* assigned_to_user_id; fetched: latest_snapshot_id is set; judged: it has a
\* candidate decision; details: its active detail jobs; items: its active
\* library items; made: the items ever made of it.
Row == [known : BOOLEAN, user : Users \cup {NoUser}, fetched : BOOLEAN,
        judged : BOOLEAN, details : 0..MaxDetails, items : SUBSET Item,
        made : 0..MaxItems]

Undiscovered ==
    [known |-> FALSE, user |-> NoUser, fetched |-> FALSE, judged |-> FALSE,
     details |-> 0, items |-> {}, made |-> 0]

Kinds == {"feed", "monitor", "detail", "comments", "promote", "rules", "manual",
          "material"}

\* What a handler has read: taken: the content has a user; fetching: it has an
\* active detail job.
View == [known : BOOLEAN, taken : BOOLEAN, fetched : BOOLEAN, judged : BOOLEAN,
         fetching : BOOLEAN, items : SUBSET Item]

Viewed(row) ==
    [known |-> row.known, taken |-> row.user # NoUser, fetched |-> row.fetched,
     judged |-> row.judged, fetching |-> row.details > 0, items |-> row.items]

\* stale is history: another request about the content has committed since
\* this one has read.
Request == [kind : Kinds, content : Content, seen : View, stale : BOOLEAN]

\* No request; and a report whose first transaction is through.
Closed == [kind |-> "none"]
Second(c) == [kind |-> "second", content |-> c]

Session == Request \cup {Closed} \cup {Second(c) : c \in Content}

Init ==
    /\ rows = [c \in Content |-> Undiscovered]
    /\ open = [q \in Requests |-> Closed]
-----------------------------------------------------------------------------
(* Library items.                                                          *)

\* A slip: there is no unique index.
MayCreateAnyway(row) == row.made < MaxItems

\* create_item adds an item; the unique index on the active items of a
\* content refuses a second one.
MayCreate(row) == row.items = {} /\ row.made < MaxItems

Created(row, locked) ==
    [row EXCEPT !.items = @ \cup {[no |-> row.made + 1, locked |-> locked]},
                !.made = @ + 1]

\* update_item writes the row that was read, active still or not.
Updated(row, i, locked) ==
    [row EXCEPT !.items =
        {IF j.no = i.no THEN [j EXCEPT !.locked = locked] ELSE j : j \in @}]

\* The row after an item was selected by somebody who saw the row seen.  Who
\* saw no item is answered with one created since, as it is, if create_item
\* finds it when it looks again; with none found, the index has the last word.
Selected(seen, row, locked) ==
    {Updated(row, i, locked) : i \in seen.items}
      \cup (IF seen.items = {} /\ MayCreate(row) THEN {Created(row, locked)} ELSE {})
      \cup (IF seen.items = {} /\ row.items # {} THEN {row} ELSE {})

Locked(seen) == \E i \in seen.items : i.locked

\* A slip: the rules do not look at the lock.
ByRulesAlone(seen, judged, row) ==
    {row} \cup IF judged THEN Selected(seen, row, FALSE) ELSE {}

\* ai_select_by_rules: an item locked by hand, a content without a decision,
\* one no rule takes and an evaluation made before are left alone.
ByRules(seen, judged, row) ==
    {row} \cup IF judged /\ ~Locked(seen) THEN Selected(seen, row, FALSE) ELSE {}
-----------------------------------------------------------------------------
(* Sessions.                                                               *)

\* The row of c becomes after: who has read it holds an old view of it now.
Outdated(c, after) ==
    [q \in Requests |->
        IF open[q].kind \in Kinds /\ open[q].content = c /\ after # rows[c]
        THEN [open[q] EXCEPT !.stale = TRUE]
        ELSE open[q]]

\* A request that only writes.
Write(c, after) ==
    /\ rows' = [rows EXCEPT ![c] = after]
    /\ open' = Outdated(c, after)

\* Session q commits, and is left at next.
Commit(q, c, after, next) ==
    /\ rows' = [rows EXCEPT ![c] = after]
    /\ open' = [Outdated(c, after) EXCEPT ![q] = next]

\* What a kind of request needs to find before it does anything.
Answers(kind, row) ==
    /\ kind \notin {"feed", "monitor", "promote"} => row.known
    /\ kind = "material" => row.items # {}

\* A handler reads what it decides on.  A feed may be any account's.
Read(q, kind, c) ==
    /\ open[q] = Closed
    /\ Answers(kind, rows[c])
    /\ open' = [open EXCEPT ![q] = [kind |-> kind, content |-> c,
                                    seen |-> Viewed(rows[c]), stale |-> FALSE]]
    /\ UNCHANGED rows

\* The second transaction of a feed or a creator monitor: the rules, on the
\* rows as they are now.
ReadAgain(q) ==
    /\ open[q].kind = "second"
    /\ open' = [open EXCEPT ![q] =
                  [kind |-> "rules", content |-> open[q].content,
                   seen |-> Viewed(rows[open[q].content]), stale |-> FALSE]]
    /\ UNCHANGED rows

\* An exception, a refused write or a restart of the server: nothing of the
\* transaction stays.  The agent will send its report again.
Rollback(q) ==
    /\ open[q] # Closed
    /\ open' = [open EXCEPT ![q] = Closed]
    /\ UNCHANGED rows
-----------------------------------------------------------------------------
(* Ingestion.                                                              *)

\* A slip: whoever owns the account gets the content.
AssignedAnyway(seen, row, user) == IF user # NoUser THEN user ELSE row.user

\* maybe_auto_assign_from_discovery_account: to the user of the employee the
\* account belongs to, unless somebody has the content already.
AutoAssigned(seen, row, user) ==
    IF user # NoUser /\ ~seen.taken THEN user ELSE row.user

\* A slip: active detail jobs are not looked for.
AsksAgain(kind, seen, policy) ==
    /\ kind = "monitor" \/ (~seen.known /\ policy)
    /\ ~seen.known \/ ~seen.fetched

\* A detail job is wanted of what was never seen or never fetched: a feed asks
\* for it, if the policy says so, when it finds the content; a creator monitor
\* always.
AsksForDetail(kind, seen, policy) ==
    /\ kind = "monitor" \/ (~seen.known /\ policy)
    /\ ~seen.known \/ ~seen.fetched
    /\ ~seen.fetching

\* ingest_feed_candidate, and a new decision on a content fetched before.  The
\* unique key of content_identity refuses a content a second time.
IngestFeed(q, user, policy, prelim) ==
    /\ open[q].kind \in {"feed", "monitor"}
    /\ LET c == open[q].content
           seen == open[q].seen
           row == rows[c]
           asks == AsksForDetail(open[q].kind, seen, policy)
       IN /\ prelim => open[q].kind = "feed"
          /\ ~seen.known => ~row.known
          /\ asks => row.details < MaxDetails
          /\ Commit(q, c,
                 [row EXCEPT !.known = TRUE,
                             !.user = AutoAssigned(seen, row, user),
                             !.judged = @ \/ prelim \/ seen.fetched,
                             !.details = IF asks THEN @ + 1 ELSE @],
                 IF open[q].kind = "feed" \/ seen.fetched THEN Second(c) ELSE Closed)

\* ingest_detail: the new snapshot becomes the latest, is judged and goes
\* through the rules, in one transaction.
IngestDetail(q) ==
    /\ open[q].kind = "detail"
    /\ LET c == open[q].content
           row == [rows[c] EXCEPT !.fetched = TRUE, !.judged = TRUE]
       IN \E after \in ByRules(open[q].seen, TRUE, row) : Commit(q, c, after, Closed)

\* ingest_comments: a content with a snapshot is judged again and goes through
\* the rules.
IngestComments(q) ==
    /\ open[q].kind = "comments"
    /\ LET c == open[q].content
           seen == open[q].seen
           row == [rows[c] EXCEPT !.judged = @ \/ seen.fetched]
       IN \E after \in IF seen.fetched THEN ByRules(seen, TRUE, row) ELSE {row} :
             Commit(q, c, after, Closed)

\* ai_select_by_rules on its own: after a feed, or for a re-evaluation.
Evaluate(q) ==
    /\ open[q].kind = "rules"
    /\ LET c == open[q].content
           seen == open[q].seen
       IN \E after \in ByRules(seen, seen.judged, rows[c]) : Commit(q, c, after, Closed)

\* A detail job ends, whether its report came through or not.
EndDetail(c) ==
    /\ rows[c].details > 0
    /\ Write(c, [rows[c] EXCEPT !.details = @ - 1])
-----------------------------------------------------------------------------
(* Users.                                                                  *)

\* manual_select: the item is locked against the rules.
SelectByHand(q) ==
    /\ open[q].kind = "manual"
    /\ LET c == open[q].content
       IN \E after \in Selected(open[q].seen, rows[c], TRUE) : Commit(q, c, after, Closed)

\* prepare_reference_library_creative_material writes the metadata it read
\* back, the lock with it.
PrepareMaterial(q) ==
    /\ open[q].kind = "material"
    /\ LET c == open[q].content
       IN \E i \in open[q].seen.items :
             Commit(q, c, Updated(rows[c], i, i.locked), Closed)

\* promote_local_content: an operator brings in what an agent has kept to
\* itself, with a snapshot or without.
Promote(q) ==
    /\ open[q].kind = "promote"
    /\ LET c == open[q].content
           row == rows[c]
       IN /\ ~open[q].seen.known => ~row.known
          /\ \E fetched \in {row.fetched, TRUE} :
                Commit(q, c, [row EXCEPT !.known = TRUE, !.fetched = fetched], Closed)

\* update_reference_library_item: the metadata of the request replace the
\* item's, and need not have the lock.
Edit(c) ==
    \E i \in rows[c].items, locked \in BOOLEAN : Write(c, Updated(rows[c], i, locked))

\* archive and revoke.
Archive(c) ==
    \E i \in rows[c].items : Write(c, [rows[c] EXCEPT !.items = @ \ {i}])

Assign(c, user) == rows[c].known /\ Write(c, [rows[c] EXCEPT !.user = user])

\* enqueue_detail_fetch by hand asks whether there is such a content, and no more.
EnqueueDetail(c) ==
    /\ rows[c].known
    /\ rows[c].details < MaxDetails
    /\ Write(c, [rows[c] EXCEPT !.details = @ + 1])
-----------------------------------------------------------------------------
Handle(q) ==
    \/ \E kind \in Kinds, c \in Content : Read(q, kind, c)
    \/ ReadAgain(q)
    \/ Rollback(q)
    \/ \E user \in Users \cup {NoUser}, policy, prelim \in BOOLEAN :
          IngestFeed(q, user, policy, prelim)
    \/ IngestDetail(q)
    \/ IngestComments(q)
    \/ Evaluate(q)
    \/ SelectByHand(q)
    \/ PrepareMaterial(q)
    \/ Promote(q)

Next ==
    \/ \E q \in Requests : Handle(q)
    \/ \E c \in Content :
          \/ EndDetail(c)
          \/ Edit(c)
          \/ Archive(c)
          \/ \E user \in Users : Assign(c, user)
          \/ EnqueueDetail(c)

Spec == Init /\ [][Next]_vars
-----------------------------------------------------------------------------
(* Properties.                                                             *)

\* Types; and a content has one active library item at most, whoever selects
\* it at the same time.
TypeOK ==
    /\ rows \in [Content -> Row]
    /\ open \in [Requests -> Session]
    /\ \A c \in Content : Cardinality(rows[c].items) <= 1

\* A request that has read the content c before another changed it commits.
StaleCommit(c) ==
    \E q \in Requests :
        open[q].kind \in Kinds /\ open[q].content = c /\ open[q].stale /\ open'[q] # open[q]

\* What an operator has selected by hand stays locked: no report of an agent,
\* in the transaction it comes in or in the one after it, and no re-evaluation
\* takes the lock away, unless the operator's selection came between its reads
\* and its commit.  Editing the item by hand may.  (benchmark_selection.py:113)
ManualChoiceHolds ==
    [][\A c \in Content : \A i \in rows[c].items, j \in rows'[c].items :
          i.no = j.no /\ i.locked /\ ~j.locked => StaleCommit(c) \/ Edit(c)]_vars

\* A content somebody has is not handed to the user of the account that comes
\* across it, however many reports do at the same time, unless it was assigned
\* between the report's reads and its commit.  (workflow_repository.py:82)
AssignmentHolds ==
    [][\A c \in Content :
          rows[c].user # NoUser /\ rows'[c].user # rows[c].user =>
              StaleCommit(c) \/ \E user \in Users : Assign(c, user)]_vars

\* Reports do not pile up detail jobs of one content: while one is active, none
\* is added but by hand or by a report that has read before.
\* (content_repository.py:225)
OneDetailJob ==
    [][\A c \in Content :
          rows'[c].details > rows[c].details /\ rows[c].details > 0 =>
              StaleCommit(c) \/ EnqueueDetail(c)]_vars
=============================================================================

---------------------------- MODULE LoginSessions ----------------------------
(***************************************************************************)
(* Logging an account in to its platform: an operator starts a login, the  *)
(* central server offers it to an agent, the agent opens a browser on the  *)
(* account's profile and debugging port, watches the user log in, and      *)
(* reports back.  A bridge on the operator's own machine may settle the    *)
(* matter instead, and any login runs out after a while.                   *)
(*                                                                         *)
(* A request that decides by what it has read, which port is free or which *)
(* logins nobody has come for, is two steps: it reads, and later commits   *)
(* the columns that it has changed; nothing keeps other requests from      *)
(* committing in between.  The logins that a request ends are locked by    *)
(* its flush at once, so they are ended in the step that commits.  Every   *)
(* other request is one step.  The agent is the program of                 *)
(* AccountLoginExecutor, one login at a time; any of its requests may be   *)
(* lost or late, and so may the answers.                                   *)
(***************************************************************************)
EXTENDS Naturals, Sequences

CONSTANTS
    Accounts,     \* ids of the platform accounts
    Agents,       \* ids of the local agents
    NoAgent,      \* a NULL agent column
    EmployeeOf,   \* employee_id of agents and accounts, or NoEmployee
    NoEmployee,
    Capable,      \* agents that support account login
    PortCount,    \* size of the range of debugging ports (200 in the code)
    NoPort,       \* a NULL port column
    Seed,         \* where the search for an account's port starts
    MaxLogins,    \* bound: logins started in one behaviour
    Requests,     \* bound: what runs the requests that may overlap
    BridgeReports \* bound: what bridges report

Ports == 0 .. PortCount - 1

BridgeStatus == {"ready", "expired", "manual_verify_required", "unavailable"}

ASSUME LoginAssumption ==
    /\ NoAgent \notin Agents
    /\ PortCount \in Nat \ {0}
    /\ NoPort \notin Ports
    /\ Seed \in [Accounts -> Ports]
    /\ Capable \subseteq Agents
    /\ MaxLogins \in Nat
    /\ BridgeReports \subseteq BridgeStatus

VARIABLES
    logins,       \* the rows of account_login_sessions, in order of creation
    accounts,     \* auth_status and login_cdp_port of the accounts
    ready,        \* account/agent pairs whose account_sessions row is ready
    live,         \* agents with a recent heartbeat that nobody has put offline
    stage,        \* how far the agent that claimed a login has got with it
    open          \* the requests that have read and not yet committed

serverVars == <<logins, accounts, ready, open>>
vars       == <<serverVars, live, stage>>

ActiveStatus == {"created", "waiting_agent", "launching_browser",
                 "waiting_user_login"}
EndedStatus  == {"logged_in", "failed", "expired"}

AuthStatus == {"not_logged_in", "login_pending", "active", "expired", "error"}

MaybeAgent == Agents \cup {NoAgent}

LoginRow == [account : Accounts, agent : MaybeAgent, claimedBy : MaybeAgent,
             status : ActiveStatus \cup EndedStatus, overdue : BOOLEAN,
             port : Ports]

Stages == {"none", "launching", "opened", "observing", "failing", "done"}

Online(a) == a \in live

-----------------------------------------------------------------------------
(* Requests under way.                                                     *)

NoRequest == [kind |-> "none"]

\* start_login with the login that it will create, the logins that it has
\* ended and the account's columns that it has changed; holders are the
\* accounts that had the port when the request looked.
StartRequest == [kind : {"start"}, account : Accounts, agent : MaybeAgent,
                 status : {"created", "waiting_agent"}, port : Ports,
                 ended : SUBSET (1 .. MaxLogins),
                 writes : SUBSET {"auth", "port"}, holders : SUBSET Accounts]

\* A request that has found a port for the bridge of an account.
PortRequest == [kind : {"port"}, account : Accounts, port : Ports,
                holders : SUBSET Accounts]

\* The agent of a login, and who has come for it.
Binding(row) == <<row.agent, row.claimedBy>>

\* A request that gives logins to an agent, with what it has seen of them.
RowRequest == [kind : {"reuse", "reroute", "claim"}, agent : Agents,
               seen : UNION {[S -> MaybeAgent \X MaybeAgent] :
                                S \in SUBSET (1 .. MaxLogins)}]

Request == StartRequest \cup PortRequest \cup RowRequest

Reads(r, request) == open[r] = NoRequest /\ open' = [open EXCEPT ![r] = request]

Closes(r) == open' = [open EXCEPT ![r] = NoRequest]

\* A request fails, or the server dies under it: nothing is written.
Rollback(r) ==
    /\ open[r] # NoRequest
    /\ Closes(r)
    /\ UNCHANGED <<logins, accounts, ready, live, stage>>

-----------------------------------------------------------------------------
(* expire_stale_sessions runs first in most requests; the rest of such a   *)
(* request works on the tables as it leaves them.                          *)

\* A slip: only logins that no agent has come for run out.
StaleUnclaimed(l) == /\ logins[l].status \in ActiveStatus
                     /\ logins[l].overdue
                     /\ logins[l].claimedBy = NoAgent

Stale(l) == logins[l].status \in ActiveStatus /\ logins[l].overdue

\* The rows of S end as value says.
Ended(rows, S, value) ==
    [l \in DOMAIN rows |-> IF l \in S THEN [rows[l] EXCEPT !.status = value]
                           ELSE rows[l]]

SeenLogins == Ended(logins, {l \in DOMAIN logins : Stale(l)}, "expired")

SeenAccounts ==
    [x \in Accounts |->
       IF /\ accounts[x].auth = "login_pending"
          /\ \E l \in DOMAIN logins : Stale(l) /\ logins[l].account = x
       THEN [accounts[x] EXCEPT !.auth = "error"]
       ELSE accounts[x]]

ActiveOf(rows, x) ==
    {l \in DOMAIN rows : rows[l].account = x /\ rows[l].status \in ActiveStatus}

\* The maintenance pass, and every request that looks a login up.
ExpireStale ==
    /\ logins' = SeenLogins
    /\ accounts' = SeenAccounts
    /\ UNCHANGED <<ready, live, stage, open>>

-----------------------------------------------------------------------------
(* allocate_cdp_port.                                                      *)

\* A slip: logins that have ended give their ports back.
ActivePorts(cleared) == {accounts[y].port : y \in Accounts \ cleared}
    \cup {logins[l].port : l \in {k \in DOMAIN logins :
                                 logins[k].status \in ActiveStatus}}

\* Ports in use: those of the accounts that keep theirs, and of any login ever.
UsedPorts(cleared) == {accounts[y].port : y \in Accounts \ cleared}
                        \cup {logins[l].port : l \in DOMAIN logins}

\* The first port from the account's seed on that is not in used.
FreePort(x, used) ==
    LET nth(k) == (Seed[x] + k) % PortCount
        first == {k \in 0 .. PortCount - 1 :
                    /\ nth(k) \notin used
                    /\ \A i \in 0 .. k - 1 : nth(i) \in used}
    IN  IF first = {} THEN NoPort ELSE nth(CHOOSE k \in first : TRUE)

Holders(port) ==
    {y \in Accounts : \/ accounts[y].port = port
                      \/ \E l \in DOMAIN logins : /\ logins[l].account = y
                                                 /\ logins[l].port = port}

-----------------------------------------------------------------------------
(* Requests of operators.                                                  *)

\* Live agents come before others, and then those that support a login.
Rank(a) == (IF Online(a) THEN 0 ELSE 2) + (IF a \in Capable THEN 0 ELSE 1)

EmployeesAgents(x) ==
    {a \in Agents : /\ EmployeeOf[x] # NoEmployee
                    /\ EmployeeOf[a] = EmployeeOf[x]}

\* What resolve_login_agent may return; heartbeats break ties.
Resolved(x, preferred) ==
    LET candidates == ({preferred} \cap Agents) \cup EmployeesAgents(x)
    IN  IF candidates = {} THEN {NoAgent}
        ELSE {a \in candidates : \A b \in candidates : Rank(a) =< Rank(b)}

ValidPreferred(x, a) ==
    /\ a \in Agents
    /\ NoEmployee \in {EmployeeOf[x], EmployeeOf[a]}
         \/ EmployeeOf[x] = EmployeeOf[a]

\* start_login when the account has an active login: it is returned, and
\* offered to another agent if its own has not come for it.  (When there is
\* nothing to offer the request is an ExpireStale.)
ReadReuse(r, x, preferred) ==
    LET active == ActiveOf(SeenLogins, x)
    IN  /\ \E latest \in active, a \in Resolved(x, preferred) :
             LET row == SeenLogins[latest]
             IN  /\ \A l \in active : l =< latest
                 /\ row.status = "waiting_agent" /\ row.claimedBy = NoAgent
                 /\ a # NoAgent /\ a # row.agent /\ Online(a)
                 /\ Reads(r, [kind |-> "reuse", agent |-> a,
                              seen |-> [l \in {latest} |-> Binding(row)]])
        /\ UNCHANGED <<logins, accounts, ready, live, stage>>

Offered(rows, t) ==
    [l \in DOMAIN rows |-> IF l \in DOMAIN t.seen
                           THEN [rows[l] EXCEPT !.agent = t.agent] ELSE rows[l]]

ReuseLogin(r) ==
    /\ open[r].kind = "reuse"
    /\ logins' = Offered(SeenLogins, open[r])
    /\ accounts' = SeenAccounts
    /\ Closes(r)
    /\ UNCHANGED <<ready, live, stage>>

\* start_login otherwise; force first ends every active login of the account
\* and takes its port away.  It fails when no port is left.
ReadStart(r, x, preferred, force) ==
    LET ended == IF force THEN ActiveOf(SeenLogins, x) ELSE {}
        own   == IF force THEN NoPort ELSE accounts[x].port
        port  == IF own # NoPort THEN own
                 ELSE FreePort(x, UsedPorts(IF force THEN {x} ELSE {}))
    IN  /\ Len(logins) < MaxLogins
        /\ force \/ ActiveOf(SeenLogins, x) = {}
        /\ preferred # NoAgent => ValidPreferred(x, preferred)
        /\ port # NoPort
        /\ \E a \in IF preferred # NoAgent THEN {preferred}
                    ELSE Resolved(x, NoAgent) :
             Reads(r, [kind |-> "start", account |-> x, agent |-> a,
                       status |-> IF Online(a) THEN "created" ELSE "waiting_agent",
                       port |-> port, ended |-> ended,
                       writes |-> {c \in {"auth", "port"} :
                          IF c = "port" THEN own = NoPort
                          ELSE force \/ SeenAccounts[x].auth # "login_pending"},
                       holders |-> Holders(port)])
        /\ UNCHANGED <<logins, accounts, ready, live, stage>>

NewLogin(r) ==
    LET t == open[r]
        x == t.account
        rows == Ended(SeenLogins, t.ended \cap ActiveOf(SeenLogins, x), "failed")
    IN  /\ t.kind = "start"
        /\ Len(logins) < MaxLogins
        /\ logins' = Append(rows,
              [account |-> x, agent |-> t.agent, claimedBy |-> NoAgent,
               status |-> t.status, overdue |-> FALSE, port |-> t.port])
        /\ accounts' = [SeenAccounts EXCEPT ![x] =
              [auth |-> IF "auth" \in t.writes THEN "login_pending" ELSE @.auth,
               port |-> IF "port" \in t.writes THEN t.port ELSE @.port]]
        /\ Closes(r)
        /\ UNCHANGED <<ready, live, stage>>

ResetLogin(x) ==
    /\ logins' = Ended(SeenLogins, ActiveOf(SeenLogins, x), "failed")
    /\ accounts' = [SeenAccounts EXCEPT ![x].auth = "not_logged_in"]
    /\ UNCHANGED <<ready, live, stage, open>>

\* A slip: logins that an agent works on are rerouted as well.
NotEnded(l) == logins[l].status \in ActiveStatus

Reroutable(l) == /\ logins[l].status = "waiting_agent"
                 /\ logins[l].claimedBy = NoAgent

\* The account is given another default agent.
ReadReroute(r, x, a) ==
    LET waiting == {l \in DOMAIN logins : /\ logins[l].account = x
                                          /\ Reroutable(l) /\ logins[l].agent # a}
    IN  /\ waiting # {}
        /\ Reads(r, [kind |-> "reroute", agent |-> a,
                     seen |-> [l \in waiting |-> Binding(logins[l])]])
        /\ UNCHANGED <<logins, accounts, ready, live, stage>>

RerouteLogins(r) ==
    /\ open[r].kind = "reroute"
    /\ logins' = Offered(logins, open[r])
    /\ Closes(r)
    /\ UNCHANGED <<accounts, ready, live, stage>>

\* A port is found for the bridge of an account that has none.
ReadPorts(r, x) ==
    LET port == FreePort(x, UsedPorts({}))
    IN  /\ accounts[x].port = NoPort
        /\ port # NoPort
        /\ Reads(r, [kind |-> "port", account |-> x, port |-> port,
                     holders |-> Holders(port)])
        /\ UNCHANGED <<logins, accounts, ready, live, stage>>

PrepareBridge(r) ==
    /\ open[r].kind = "port"
    /\ accounts' = [accounts EXCEPT ![open[r].account].port = open[r].port]
    /\ Closes(r)
    /\ UNCHANGED <<logins, ready, live, stage>>

\* The local bridge reports what it finds in the browser of the account.
SyncBridge(x, bridge, port, preferred) ==
    LET status == CASE bridge = "ready" -> "logged_in"
                    [] bridge = "manual_verify_required" -> "waiting_user_login"
                    [] OTHER -> "failed"
        auth == CASE bridge = "ready" -> "active"
                  [] bridge = "manual_verify_required" -> "login_pending"
                  [] bridge = "expired" -> "expired"
                  [] bridge = "unavailable" -> "not_logged_in"
    IN  /\ logins' = Ended(SeenLogins, ActiveOf(SeenLogins, x), status)
        /\ accounts' = [SeenAccounts EXCEPT ![x] = [auth |-> auth, port |-> port]]
        /\ \E a \in IF ValidPreferred(x, preferred) THEN {preferred}
                    ELSE Resolved(x, NoAgent) :
             ready' = IF bridge = "ready" /\ a # NoAgent
                      THEN ready \cup {<<x, a>>} ELSE ready \ {<<x, a>>}
        /\ UNCHANGED <<live, stage>>

\* It names any port it likes, or leaves the account its own ...
SyncNamed(x, bridge, named, preferred) ==
    LET port == IF named # NoPort THEN named ELSE accounts[x].port
    IN  /\ port # NoPort
        /\ SyncBridge(x, bridge, port, preferred)
        /\ UNCHANGED open

\* ... or one is found for it.
SyncAllocated(r, bridge, preferred) ==
    /\ open[r].kind = "port"
    /\ SyncBridge(open[r].account, bridge, open[r].port, preferred)
    /\ Closes(r)

-----------------------------------------------------------------------------
(* Agents.                                                                 *)

Serves(a, x) == EmployeeOf[x] = NoEmployee \/ EmployeeOf[x] = EmployeeOf[a]

Claimable(row, a) ==
    /\ row.claimedBy = NoAgent
    /\ row.status \in {"created", "waiting_agent"}
    /\ \/ row.agent = a
       \/ row.agent = NoAgent /\ Serves(a, row.account)
       \/ /\ row.status = "waiting_agent"
          /\ Serves(a, row.account)
          /\ ~Online(row.agent)

\* The agent's loop asks for one login, and only when it has none in hand.
Idle(a) ==
    /\ \A l \in DOMAIN logins : logins[l].claimedBy = a => stage[l] = "done"
    /\ \A r \in Requests : ~(open[r].kind = "claim" /\ open[r].agent = a)

ReadClaim(r, a) ==
    LET unclaimed == {l \in DOMAIN logins : Claimable(SeenLogins[l], a)}
    IN  /\ Idle(a)
        /\ Online(a) /\ a \in Capable
        /\ \E oldest \in unclaimed :
             /\ \A l \in unclaimed : oldest =< l
             /\ Reads(r, [kind |-> "claim", agent |-> a,
                          seen |-> [l \in {oldest} |-> Binding(SeenLogins[l])]])
        /\ UNCHANGED <<logins, accounts, ready, live, stage>>

\* The agent is written only where the request has seen another.
Claimed(row, a, binding) ==
    [row EXCEPT !.claimedBy = a, !.status = "launching_browser",
                !.agent = IF binding[1] = a THEN @ ELSE a]

\* Whoever claimed the login before is answered "not found" from now on.
ClaimLogin(r) ==
    LET t == open[r]
    IN  /\ t.kind = "claim"
        /\ \E l \in DOMAIN t.seen :
             /\ logins' = [SeenLogins EXCEPT ![l] = Claimed(@, t.agent, t.seen[l])]
             /\ \E reached \in {"launching", "done"} :  \* done: the answer is lost
                  stage' = [stage EXCEPT ![l] = reached]
        /\ accounts' = SeenAccounts
        /\ Closes(r)
        /\ UNCHANGED <<ready, live>>

\* The agent reports on the login that it has claimed; nothing asks whether the
\* login is still active.  An answer that is lost makes the agent report a failure next.
ReportLaunching(l) ==
    /\ stage[l] = "launching"
    /\ logins' = [logins EXCEPT ![l].status = "launching_browser"]
    /\ \E reached \in {"opened", "failing"} : stage' = [stage EXCEPT ![l] = reached]
    /\ UNCHANGED <<accounts, ready, live, open>>

ReportWaiting(l) ==
    /\ stage[l] \in {"opened", "observing"}
    /\ logins' = [logins EXCEPT ![l].status = "waiting_user_login"]
    /\ \E reached \in {"observing", "failing"} :
         stage' = [stage EXCEPT ![l] = reached]
    /\ UNCHANGED <<accounts, ready, live, open>>

WorkerOf(row) == IF row.agent # NoAgent THEN row.agent ELSE row.claimedBy

CompleteLogin(l) ==
    /\ stage[l] = "observing"
    /\ logins' = [logins EXCEPT ![l].status = "logged_in"]
    /\ accounts' = [accounts EXCEPT ![logins[l].account].auth = "active"]
    /\ ready' = ready \cup {<<logins[l].account, WorkerOf(logins[l])>>}
    /\ \E reached \in {"done", "failing"} : stage' = [stage EXCEPT ![l] = reached]
    /\ UNCHANGED <<live, open>>

\* A slip: the account stays as it is when its login fails.
AuthOnceFailed(x) == accounts[x].auth

\* Another: the account is given the status of its login.
AuthAsLogin(x) == "failed"

AuthAfterFailure(x) == "error"

FailLogin(l) ==
    /\ stage[l] = "failing"
    /\ logins' = [logins EXCEPT ![l].status = "failed"]
    /\ LET x == logins[l].account
       IN  accounts' = [accounts EXCEPT ![x].auth = AuthAfterFailure(x)]
    /\ stage' = [stage EXCEPT ![l] = "done"]
    /\ UNCHANGED <<ready, live, open>>

\* The browser does not start, the time to observe is over, or a report did
\* not get through.
GiveUp(l) ==
    /\ stage[l] \in {"launching", "opened", "observing"}
    /\ stage' = [stage EXCEPT ![l] = "failing"]
    /\ UNCHANGED <<serverVars, live>>

\* The agent process ends, or its last report did not get through.
StopWork(l) ==
    /\ stage[l] \in {"launching", "opened", "observing", "failing"}
    /\ stage' = [stage EXCEPT ![l] = "done"]
    /\ UNCHANGED <<serverVars, live>>

-----------------------------------------------------------------------------
(* Agent rows and the clock.                                               *)

Heartbeat(a) ==
    /\ live' = live \cup {a}
    /\ UNCHANGED <<serverVars, stage>>

\* Its heartbeats stop, or an administrator retires it: the row is then put
\* "offline" in the same request, and the next heartbeat makes it "online".
Silent(a) ==
    /\ live' = live \ {a}
    /\ UNCHANGED <<serverVars, stage>>

\* expires_at is compared only while the login is active.
Lapses(l) ==
    /\ logins[l].status \in ActiveStatus /\ ~logins[l].overdue
    /\ logins' = [logins EXCEPT ![l].overdue = TRUE]
    /\ UNCHANGED <<accounts, ready, live, stage, open>>

-----------------------------------------------------------------------------
Init ==
    /\ logins = <<>>
    /\ accounts = [x \in Accounts |-> [auth |-> "not_logged_in", port |-> NoPort]]
    /\ ready = {}
    /\ live = {}
    /\ stage = [l \in 1 .. MaxLogins |-> "none"]
    /\ open = [r \in Requests |-> NoRequest]

Report(l) == ReportLaunching(l) \/ ReportWaiting(l) \/ CompleteLogin(l)
               \/ FailLogin(l)

Reading(r) ==
    \/ \E x \in Accounts, a \in MaybeAgent :
         \/ ReadReuse(r, x, a)
         \/ \E force \in BOOLEAN : ReadStart(r, x, a, force)
    \/ \E x \in Accounts, a \in Agents : ReadReroute(r, x, a)
    \/ \E x \in Accounts : ReadPorts(r, x)
    \/ \E a \in Agents : ReadClaim(r, a)

Committing(r) ==
    \/ ReuseLogin(r) \/ NewLogin(r) \/ RerouteLogins(r)
    \/ PrepareBridge(r) \/ ClaimLogin(r)
    \/ \E bridge \in BridgeReports, a \in MaybeAgent : SyncAllocated(r, bridge, a)

Next ==
    \/ ExpireStale
    \/ \E r \in Requests : Reading(r) \/ Committing(r) \/ Rollback(r)
    \/ \E x \in Accounts, a \in MaybeAgent, bridge \in BridgeReports,
          named \in Ports \cup {NoPort} : SyncNamed(x, bridge, named, a)
    \/ \E x \in Accounts : ResetLogin(x)
    \/ \E a \in Agents : Heartbeat(a) \/ Silent(a)
    \/ \E l \in DOMAIN logins : Report(l) \/ GiveUp(l) \/ StopWork(l) \/ Lapses(l)

Spec == Init /\ [][Next]_vars

\* The clock advances, expired logins are looked for, a request that has read
\* commits or fails, and an agent's work on a login ends: the executor observes
\* for a bounded time and then reports once, whether or not the report gets
\* through.
FairSpec ==
    /\ Spec
    /\ WF_vars(ExpireStale)
    /\ \A r \in Requests : WF_vars(Committing(r) \/ Rollback(r))
    /\ \A l \in 1 .. MaxLogins :
         /\ WF_vars(l \in DOMAIN logins /\ Lapses(l))
         /\ SF_vars(l \in DOMAIN logins /\ (GiveUp(l) \/ CompleteLogin(l)))
         /\ WF_vars(l \in DOMAIN logins /\ (FailLogin(l) \/ StopWork(l)))
-----------------------------------------------------------------------------
(* Properties.                                                             *)

\* Every column holds a value of its type.
TypeOK ==
    /\ logins \in Seq(LoginRow)
    /\ accounts \in [Accounts -> [auth : AuthStatus, port : Ports \cup {NoPort}]]
    /\ ready \subseteq Accounts \X Agents
    /\ live \subseteq Agents
    /\ stage \in [1 .. MaxLogins -> Stages]
    /\ open \in [Requests -> Request \cup {NoRequest}]

\* What r has seen of l is no longer so.
Overtaken(r, l) ==
    /\ open[r].kind \in {"reuse", "reroute", "claim"}
    /\ l \in DOMAIN open[r].seen
    /\ open[r].seen[l] # Binding(logins[l])

Bound(row) == row.claimedBy # NoAgent => row.agent = row.claimedBy

\* A login that an agent has come for stays bound to that agent, so that the
\* session which its completion makes ready is one of the machine on which the
\* user logged in.  Only one thing parts the two: the commit of a claim or of
\* a new offer of the login that was overtaken by another since it read it.
ClaimedByItsAgent ==
    [][\A l \in DOMAIN logins :
         Bound(logins[l]) /\ ~Bound(logins'[l])
           => \E r \in Requests : /\ open[r] # NoRequest
                                  /\ open'[r] = NoRequest
                                  /\ Overtaken(r, l)]_vars

BridgeWantsUser(x) ==
    \E port \in Ports, a \in MaybeAgent :
        SyncBridge(x, "manual_verify_required", port, a)

\* No step ends the last active login of an account and leaves the account
\* waiting for it, unless the bridge says that it waits for the user: an
\* account does not show a pending login that nobody will ever finish.
NoOrphanPending ==
    [][\A x \in Accounts :
         /\ ActiveOf(logins, x) # {}
         /\ ActiveOf(logins', x) = {}
         /\ ~BridgeWantsUser(x)
         => accounts'[x].auth # "login_pending"]_vars

\* A bridge names the port.
Named(port) ==
    \E x \in Accounts, bridge \in BridgeReports, a \in MaybeAgent :
        SyncNamed(x, bridge, port, a)

\* A request gives an account the port, and other accounts have taken or left
\* it since the request looked.
Raced(port) ==
    \E r \in Requests :
        /\ open[r].kind \in {"start", "port"}
        /\ open'[r] = NoRequest
        /\ open[r].port = port
        /\ open[r].holders # Holders(port)

\* Two accounts come to have one debugging port, as the port of the account or
\* of a login it ever had, in two ways only: a bridge names it, or two requests
\* that look for a port overlap.  Otherwise the login of one account could be
\* checked in the browser of another.
PortsPrivate ==
    [][\A port \in Ports : \A x, y \in Holders(port)' :
         x # y /\ ~({x, y} \subseteq Holders(port))
           => Named(port) \/ Raced(port)]_vars

\* Every login ends and stays ended, although the reports of an agent revive
\* logins that were reset or have expired.
LoginsEnd ==
    \A l \in 1 .. MaxLogins :
        l \in DOMAIN logins
          ~> [](l \in DOMAIN logins /\ logins[l].status \in EndedStatus)
=============================================================================

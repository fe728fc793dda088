------------------------- MODULE LoginSessionsProofs -------------------------
(* Proofs about LoginSessions.                                               *)
EXTENDS LoginSessions, SequenceTheorems, WellFoundedInduction, TLAPS

(***************************************************************************)
(* The rows: types, and that a login in work has been claimed.             *)
(***************************************************************************)
RowsOK(rows) == rows \in Seq(LoginRow) /\ Len(rows) =< MaxLogins

InWork == \A l \in 1 .. MaxLogins :
            stage[l] # "none" => l \in DOMAIN logins /\ logins[l].claimedBy # NoAgent

RowsInv == RowsOK(logins) /\ InWork

AccountRow == [auth : AuthStatus, port : Ports \cup {NoPort}]

OthersOK ==
    /\ accounts \in [Accounts -> AccountRow]
    /\ ready \subseteq Accounts \X Agents
    /\ live \subseteq Agents
    /\ stage \in [1 .. MaxLogins -> Stages]

(***************************************************************************)
(* The requests under way.  A port was in use by its account when the      *)
(* request looked, or in use by no other; a login was there, and nobody    *)
(* had come for it.                                                        *)
(***************************************************************************)
OfPorts == {"start", "port"}
OfRows  == {"reuse", "reroute", "claim"}

GoodPort(t) == t.holders \subseteq {t.account} \/ t.account \in t.holders

GoodRows(t) ==
    /\ DOMAIN t.seen \subseteq DOMAIN logins
    /\ \A l \in DOMAIN t.seen : t.seen[l][2] = NoAgent

GoodRequest(t) ==
    /\ t.kind \in OfPorts => GoodPort(t)
    /\ t.kind \in OfRows => GoodRows(t)

OpenOK ==
    /\ open \in [Requests -> Request \cup {NoRequest}]
    /\ \A r \in Requests : GoodRequest(open[r])

Types == RowsInv /\ OthersOK /\ OpenOK

\* The kind of a request tells what it holds.
LEMMA KindOfRequest ==
    ASSUME NEW t \in Request \cup {NoRequest}
    PROVE  /\ t.kind = "start" => t \in StartRequest
           /\ t.kind = "port" => t \in PortRequest
           /\ t.kind \in OfRows => t \in RowRequest
           /\ t.kind = "none" <=> t = NoRequest
  BY DEF Request, StartRequest, PortRequest, RowRequest, NoRequest, OfRows

-----------------------------------------------------------------------------
(* Rows that come of others.                                               *)

\* Account, port and claimant of each row stay.
Kept(rows, new) ==
    /\ new \in Seq(LoginRow)
    /\ Len(new) = Len(rows)
    /\ DOMAIN new = DOMAIN rows
    /\ \A l \in DOMAIN rows :
          /\ new[l].account = rows[l].account
          /\ new[l].port = rows[l].port
          /\ new[l].claimedBy = rows[l].claimedBy

\* And so does its agent.
Steady(rows, new) ==
    Kept(rows, new) /\ \A l \in DOMAIN rows : new[l].agent = rows[l].agent

\* A function that has kept what matters of each row is such rows.
LEMMA KeptFunction ==
    ASSUME NEW rows \in Seq(LoginRow), NEW new \in [DOMAIN rows -> LoginRow],
           \A l \in DOMAIN rows :
              /\ new[l].account = rows[l].account
              /\ new[l].port = rows[l].port
              /\ new[l].claimedBy = rows[l].claimedBy
    PROVE  Kept(rows, new)
<1>1. Len(rows) \in Nat /\ DOMAIN rows = 1 .. Len(rows)  BY LenProperties
<1>2. new \in Seq(LoginRow)  BY <1>1, SeqDef
<1>3. Len(new) \in Nat /\ DOMAIN new = 1 .. Len(new)  BY <1>2, LenProperties
<1>4. Len(new) = Len(rows)  BY <1>1, <1>3
<1> QED  BY <1>2, <1>4 DEF Kept

LEMMA RowType ==
    ASSUME NEW rows \in Seq(LoginRow), NEW l \in DOMAIN rows
    PROVE  rows[l] \in LoginRow
  BY LenProperties, ElementOfSeq

LEMMA KeptTransitive ==
    ASSUME NEW r1, NEW r2, NEW r3, Kept(r1, r2), Kept(r2, r3)
    PROVE  Kept(r1, r3)
  BY DEF Kept

LEMMA SteadyTransitive ==
    ASSUME NEW r1, NEW r2, NEW r3, Steady(r1, r2), Steady(r2, r3)
    PROVE  Steady(r1, r3)
  BY DEF Steady, Kept

LEMMA KeptRows ==
    ASSUME NEW rows, NEW new, RowsOK(rows), Kept(rows, new)
    PROVE  RowsOK(new)
  BY DEF RowsOK, Kept

\* Logins that end keep everything but their status.
LEMMA EndedSteady ==
    ASSUME NEW rows \in Seq(LoginRow), NEW S, NEW value \in ActiveStatus \cup EndedStatus
    PROVE  Steady(rows, Ended(rows, S, value))
<1> DEFINE new == Ended(rows, S, value)
<1>1. ASSUME NEW l \in DOMAIN rows
      PROVE  /\ new[l] \in LoginRow
             /\ new[l].account = rows[l].account
             /\ new[l].port = rows[l].port
             /\ new[l].claimedBy = rows[l].claimedBy
             /\ new[l].agent = rows[l].agent
  BY <1>1, RowType DEF Ended, LoginRow
<1>2. new \in [DOMAIN rows -> LoginRow]  BY <1>1 DEF Ended
<1> HIDE DEF new
<1> QED  BY <1>1, <1>2, KeptFunction DEF new, Steady

LEMMA SeenSteady == ASSUME RowsOK(logins) PROVE Steady(logins, SeenLogins)
  BY EndedSteady DEF SeenLogins, RowsOK, EndedStatus

LEMMA SeenKept == ASSUME RowsOK(logins) PROVE Kept(logins, SeenLogins)
  BY SeenSteady DEF Steady

LEMMA SeenAccountsType ==
    ASSUME accounts \in [Accounts -> AccountRow]
    PROVE  /\ SeenAccounts \in [Accounts -> AccountRow]
           /\ \A x \in Accounts : SeenAccounts[x].port = accounts[x].port
  BY DEF SeenAccounts, AccountRow, AuthStatus

\* One row is given a status.
LEMMA StatusSteady ==
    ASSUME NEW rows \in Seq(LoginRow), NEW l \in DOMAIN rows,
           NEW value \in ActiveStatus \cup EndedStatus
    PROVE  Steady(rows, [rows EXCEPT ![l].status = value])
<1> DEFINE new == [rows EXCEPT ![l].status = value]
<1>1. ASSUME NEW k \in DOMAIN rows
      PROVE  /\ new[k] \in LoginRow
             /\ new[k].account = rows[k].account
             /\ new[k].port = rows[k].port
             /\ new[k].claimedBy = rows[k].claimedBy
             /\ new[k].agent = rows[k].agent
  BY <1>1, RowType DEF LoginRow
<1>2. new \in [DOMAIN rows -> LoginRow]  BY <1>1
<1> HIDE DEF new
<1> QED  BY <1>1, <1>2, KeptFunction DEF new, Steady

\* Rows are offered to another agent.
LEMMA OfferedKept ==
    ASSUME NEW rows \in Seq(LoginRow), NEW t, t.agent \in Agents
    PROVE  /\ Kept(rows, Offered(rows, t))
           /\ \A l \in DOMAIN rows :
                 /\ Offered(rows, t)[l].status = rows[l].status
                 /\ l \notin DOMAIN t.seen => Offered(rows, t)[l] = rows[l]
<1> DEFINE new == Offered(rows, t)
<1>1. ASSUME NEW k \in DOMAIN rows
      PROVE  /\ new[k] \in LoginRow
             /\ new[k].account = rows[k].account
             /\ new[k].port = rows[k].port
             /\ new[k].claimedBy = rows[k].claimedBy
             /\ new[k].status = rows[k].status
             /\ k \notin DOMAIN t.seen => new[k] = rows[k]
  <2>1. rows[k] \in LoginRow  BY <1>1, RowType
  <2>2. new[k] = IF k \in DOMAIN t.seen THEN [rows[k] EXCEPT !.agent = t.agent]
                 ELSE rows[k]
    BY <1>1 DEF Offered
  <2>3. CASE k \in DOMAIN t.seen
    <3>1. new[k] = [rows[k] EXCEPT !.agent = t.agent]  BY <2>2, <2>3
    <3> HIDE DEF new
    <3> QED  BY <2>1, <2>3, <3>1 DEF LoginRow, MaybeAgent
  <2>4. CASE k \notin DOMAIN t.seen
    <3>1. new[k] = rows[k]  BY <2>2, <2>4
    <3> HIDE DEF new
    <3> QED  BY <2>1, <3>1
  <2> QED  BY <2>3, <2>4
<1>2. new \in [DOMAIN rows -> LoginRow]  BY <1>1 DEF Offered
<1> HIDE DEF new
<1> QED  BY <1>1, <1>2, KeptFunction DEF new

-----------------------------------------------------------------------------
(* Steps by what they do to the requests.                                  *)

\* Requests that have closed, or are as they were.
LEMMA OpenStays ==
    ASSUME OpenOK, DOMAIN logins \subseteq DOMAIN logins',
           \/ open' = open
           \/ \E r \in Requests : Closes(r)
    PROVE  OpenOK'
<1>1. ASSUME NEW r \in Requests
      PROVE  /\ open'[r] \in Request \cup {NoRequest}
             /\ open'[r] = open[r] \/ open'[r] = NoRequest
  BY <1>1 DEF OpenOK, Closes
<1>2. open' \in [Requests -> Request \cup {NoRequest}]
  BY DEF OpenOK, Closes
<1>3. ASSUME NEW r \in Requests PROVE GoodRequest(open[r])'
  <2>1. CASE open'[r] = NoRequest
    BY <2>1 DEF GoodRequest, NoRequest, OfPorts, OfRows
  <2>2. CASE open'[r] = open[r]
    <3>1. GoodRequest(open[r])  BY <1>3 DEF OpenOK
    <3> QED  BY <2>2, <3>1 DEF GoodRequest, GoodPort, GoodRows
  <2> QED  BY <1>1, <1>3, <2>1, <2>2
<1> QED  BY <1>2, <1>3 DEF OpenOK

\* A step that keeps the rows and the stages.
LEMMA KeptTypes ==
    ASSUME Types, Kept(logins, logins'), stage' = stage,
           accounts' \in [Accounts -> AccountRow],
           ready' \subseteq Accounts \X Agents, live' \subseteq Agents,
           \/ open' = open
           \/ \E r \in Requests : Closes(r)
    PROVE  Types'
<1>1. RowsOK(logins')  BY KeptRows DEF Types, RowsInv
<1>2. InWork'  BY DEF Kept, InWork, Types, RowsInv
<1>3. OpenOK'  BY OpenStays DEF Kept, Types
<1> QED  BY <1>1, <1>2, <1>3 DEF Types, RowsInv, RowsOK, OthersOK

\* A request reads, and nothing else happens.
LEMMA ReadsTypes ==
    ASSUME Types, NEW r \in Requests, NEW t \in Request, GoodRequest(t), Reads(r, t),
           UNCHANGED <<logins, accounts, ready, live, stage>>
    PROVE  Types'
<1>1. open' \in [Requests -> Request \cup {NoRequest}]
  BY DEF Reads, Types, OpenOK
<1>2. ASSUME NEW q \in Requests PROVE GoodRequest(open[q])'
  <2>1. open'[q] = t \/ open'[q] = open[q]  BY <1>2 DEF Reads, Types, OpenOK
  <2>2. GoodRequest(open'[q])  BY <1>2, <2>1 DEF Types, OpenOK
  <2> QED  BY <2>2 DEF GoodRequest, GoodPort, GoodRows
<1>3. OpenOK'  BY <1>1, <1>2 DEF OpenOK
<1> QED  BY <1>3 DEF Types, RowsInv, RowsOK, InWork, OthersOK

-----------------------------------------------------------------------------
(* The types under each action.                                            *)

LEMMA ExpireTypes == ASSUME Types, ExpireStale PROVE Types' /\ Steady(logins, logins')
<1>1. Steady(logins, logins')  BY SeenSteady DEF ExpireStale, Types, RowsInv
<1>2. accounts' \in [Accounts -> AccountRow]
  BY SeenAccountsType DEF ExpireStale, Types, OthersOK
<1> QED  BY <1>1, <1>2, KeptTypes DEF ExpireStale, Types, OthersOK, Steady

LEMMA ResetTypes ==
    ASSUME Types, NEW x \in Accounts, ResetLogin(x)
    PROVE  Types' /\ Steady(logins, logins')
<1>1. Steady(logins, SeenLogins) /\ SeenLogins \in Seq(LoginRow)
  BY SeenSteady DEF Types, RowsInv, Kept, Steady
<1>2. Steady(SeenLogins, logins')
  BY <1>1, EndedSteady DEF ResetLogin, EndedStatus
<1>3. Steady(logins, logins')  BY <1>1, <1>2, SteadyTransitive
<1>4. accounts' \in [Accounts -> AccountRow]
  BY SeenAccountsType DEF ResetLogin, Types, OthersOK, AccountRow, AuthStatus
<1> QED  BY <1>3, <1>4, KeptTypes DEF ResetLogin, Types, OthersOK, Steady

LEMMA ReportTypes ==
    ASSUME Types, NEW l \in DOMAIN logins, Report(l) \/ GiveUp(l) \/ StopWork(l)
    PROVE  Types' /\ Steady(logins, logins')
<1>1. logins \in Seq(LoginRow) /\ logins[l] \in LoginRow
  BY RowType DEF Types, RowsInv, RowsOK
<1>2. l \in 1 .. MaxLogins
  BY <1>1, LenProperties, LoginAssumption DEF Types, RowsInv, RowsOK
<1>3. stage \in [1 .. MaxLogins -> Stages]  BY DEF Types, OthersOK
<1>4. stage[l] # "none"
  BY DEF Report, GiveUp, StopWork, ReportLaunching, ReportWaiting, CompleteLogin, FailLogin
<1>5. logins[l].claimedBy # NoAgent
  BY <1>2, <1>4 DEF Types, RowsInv, InWork
<1>6. <<logins[l].account, WorkerOf(logins[l])>> \in Accounts \X Agents
  BY <1>1, <1>5 DEF LoginRow, MaybeAgent, WorkerOf
<1>7. Steady(logins, logins')
  <2>1. CASE UNCHANGED logins  BY <1>1, <2>1 DEF Kept, Steady
  <2>2. CASE \E value \in ActiveStatus \cup EndedStatus :
               logins' = [logins EXCEPT ![l].status = value]
    BY <1>1, <2>2, StatusSteady
  <2> QED
    BY <2>1, <2>2 DEF Report, GiveUp, StopWork, ReportLaunching, ReportWaiting,
       CompleteLogin, FailLogin, serverVars, ActiveStatus, EndedStatus
<1>8. /\ stage' \in [1 .. MaxLogins -> Stages]
      /\ \A k \in 1 .. MaxLogins : k # l => stage'[k] = stage[k]
  BY <1>2, <1>3 DEF Report, GiveUp, StopWork, ReportLaunching, ReportWaiting,
     CompleteLogin, FailLogin, Stages
<1>9. RowsInv'
  <2>1. RowsOK(logins')  BY <1>7, KeptRows DEF Types, RowsInv, Steady
  <2>2. InWork'  BY <1>5, <1>7, <1>8 DEF Types, RowsInv, InWork, Kept, Steady
  <2> QED  BY <2>1, <2>2 DEF RowsInv, RowsOK
<1>10. accounts' \in [Accounts -> AccountRow]
  <2>1. accounts \in [Accounts -> AccountRow]  BY DEF Types, OthersOK
  <2>2. CASE UNCHANGED accounts  BY <2>1, <2>2
  <2>3. CASE \E auth \in AuthStatus :
               accounts' = [accounts EXCEPT ![logins[l].account].auth = auth]
    BY <2>1, <2>3 DEF AccountRow
  <2> QED
    BY <2>2, <2>3 DEF Report, GiveUp, StopWork, ReportLaunching, ReportWaiting,
       CompleteLogin, FailLogin, serverVars, AuthStatus, AuthAfterFailure
<1>11. ready' \subseteq Accounts \X Agents
  BY <1>6 DEF Types, OthersOK, Report, GiveUp, StopWork, ReportLaunching,
     ReportWaiting, CompleteLogin, FailLogin, serverVars
<1>12. OthersOK'
  BY <1>8, <1>10, <1>11 DEF Types, OthersOK, Report, GiveUp, StopWork,
     ReportLaunching, ReportWaiting, CompleteLogin, FailLogin, serverVars
<1>13. open' = open
  BY DEF Report, GiveUp, StopWork, ReportLaunching, ReportWaiting,
     CompleteLogin, FailLogin, serverVars
<1>14. OpenOK'  BY <1>7, <1>13, OpenStays DEF Types, Kept, Steady
<1> QED  BY <1>7, <1>9, <1>12, <1>14 DEF Types

LEMMA LapseTypes ==
    ASSUME Types, NEW l \in DOMAIN logins, Lapses(l)
    PROVE  Types' /\ Steady(logins, logins')
<1> DEFINE new == [logins EXCEPT ![l].overdue = TRUE]
<1>1. logins \in Seq(LoginRow)  BY DEF Types, RowsInv, RowsOK
<1>2. ASSUME NEW k \in DOMAIN logins
      PROVE  /\ new[k] \in LoginRow
             /\ new[k].account = logins[k].account
             /\ new[k].port = logins[k].port
             /\ new[k].claimedBy = logins[k].claimedBy
             /\ new[k].agent = logins[k].agent
  BY <1>1, <1>2, RowType DEF LoginRow
<1>3. new \in [DOMAIN logins -> LoginRow]  BY <1>2
<1>4. logins' = new  BY DEF Lapses
<1> HIDE DEF new
<1>5. Steady(logins, logins')  BY <1>1, <1>2, <1>3, <1>4, KeptFunction DEF Steady
<1> QED  BY <1>5, KeptTypes DEF Lapses, Types, OthersOK, Steady

\* Heartbeats, and requests that come to nothing.
LEMMA QuietTypes ==
    ASSUME Types,
           \/ \E a \in Agents : Heartbeat(a) \/ Silent(a)
           \/ \E r \in Requests : Rollback(r)
    PROVE  Types' /\ UNCHANGED <<logins, accounts, stage>>
<1>1. UNCHANGED <<logins, accounts, ready, stage>>
  BY DEF Heartbeat, Silent, Rollback, serverVars
<1>2. live' \subseteq Agents
  BY DEF Heartbeat, Silent, Rollback, Types, OthersOK
<1>3. open' = open \/ \E r \in Requests : Closes(r)
  BY DEF Heartbeat, Silent, Rollback, serverVars
<1>4. Kept(logins, logins')  BY <1>1 DEF Kept, Types, RowsInv, RowsOK
<1> QED  BY <1>1, <1>2, <1>3, <1>4, KeptTypes DEF Types, OthersOK

-----------------------------------------------------------------------------
(* The search for a port.                                                   *)

Nth(x, k) == (Seed[x] + k) % PortCount

FirstFree(x, used, q) ==
    \E k \in 0 .. PortCount - 1 : /\ q = Nth(x, k)
                                  /\ q \notin used
                                  /\ \A i \in 0 .. k - 1 : Nth(x, i) \in used

LEMMA NthType ==
    \A x \in Accounts : \A k \in 0 .. PortCount - 1 : Nth(x, k) \in Ports
<1>1. \A n \in Nat : n % PortCount \in Ports  BY LoginAssumption DEF Ports
<1> QED  BY <1>1, LoginAssumption DEF Nth, Ports

LEMMA FreePortFirst ==
    ASSUME NEW x \in Accounts, NEW used, FreePort(x, used) # NoPort
    PROVE  FirstFree(x, used, FreePort(x, used))
<1> DEFINE first == {k \in 0 .. PortCount - 1 :
                       /\ Nth(x, k) \notin used
                       /\ \A i \in 0 .. k - 1 : Nth(x, i) \in used}
<1>1. FreePort(x, used) = IF first = {} THEN NoPort
                          ELSE Nth(x, CHOOSE k \in first : TRUE)
  BY DEF FreePort, Nth
<1>2. first # {}  BY <1>1
<1>3. PICK k \in first : FreePort(x, used) = Nth(x, k)  BY <1>1, <1>2
<1> QED  BY <1>3 DEF FirstFree

LEMMA FreePortType ==
    ASSUME NEW x \in Accounts, NEW used, FreePort(x, used) # NoPort
    PROVE  FreePort(x, used) \in Ports \ used
  BY FreePortFirst, NthType DEF FirstFree

\* A port that the request finds for an account is one that no other had.
LEMMA FreeHolders ==
    ASSUME NEW x \in Accounts, NEW cleared \in SUBSET {x}, NEW port,
           port \notin UsedPorts(cleared)
    PROVE  Holders(port) \subseteq {x}
<1> SUFFICES ASSUME NEW y \in Accounts, y # x, y \in Holders(port) PROVE FALSE
  BY DEF Holders
<1>1. y \in Accounts \ cleared  OBVIOUS
<1> QED  BY <1>1 DEF Holders, UsedPorts

-----------------------------------------------------------------------------
(* The types under the requests that read.                                  *)

LEMMA ResolvedType ==
    ASSUME NEW x \in Accounts, NEW p \in MaybeAgent
    PROVE  Resolved(x, p) \subseteq MaybeAgent
  BY DEF Resolved, MaybeAgent, EmployeesAgents

\* The logins that are there are numbered up to the bound.
LEMMA LoginNumbers ==
    ASSUME Types
    PROVE  /\ DOMAIN logins \subseteq 1 .. MaxLogins
           /\ DOMAIN SeenLogins = DOMAIN logins
           /\ SeenLogins \in Seq(LoginRow)
           /\ \A l \in DOMAIN logins : SeenLogins[l] \in LoginRow
<1>1. logins \in Seq(LoginRow) /\ Len(logins) =< MaxLogins
  BY DEF Types, RowsInv, RowsOK
<1>2. Len(logins) \in Nat /\ DOMAIN logins = 1 .. Len(logins)  BY <1>1, LenProperties
<1>3. DOMAIN logins \subseteq 1 .. MaxLogins  BY <1>1, <1>2, LoginAssumption
<1>4. DOMAIN SeenLogins = DOMAIN logins /\ SeenLogins \in Seq(LoginRow)
  BY SeenKept DEF Types, RowsInv, Kept
<1> QED  BY <1>3, <1>4, RowType

\* A request that has read logins which nobody has come for.
LEMMA RowsRead ==
    ASSUME Types, NEW S \in SUBSET DOMAIN logins, NEW a \in Agents,
           NEW kind \in OfRows, NEW rows \in Seq(LoginRow), DOMAIN rows = DOMAIN logins,
           \A l \in S : rows[l].claimedBy = NoAgent
    PROVE  LET t == [kind |-> kind, agent |-> a, seen |-> [l \in S |-> Binding(rows[l])]]
           IN  t \in Request /\ GoodRequest(t)
<1> DEFINE seen == [l \in S |-> Binding(rows[l])]
           t == [kind |-> kind, agent |-> a, seen |-> seen]
<1>1. S \in SUBSET (1 .. MaxLogins)  BY LoginNumbers
<1>2. \A l \in S : rows[l] \in LoginRow  BY RowType
<1>3. \A l \in S : /\ Binding(rows[l]) \in MaybeAgent \X MaybeAgent
                  /\ Binding(rows[l])[2] = NoAgent
  BY <1>2 DEF Binding, LoginRow
<1>4. seen \in [S -> MaybeAgent \X MaybeAgent]  BY <1>3
<1>5. seen \in UNION {[Q -> MaybeAgent \X MaybeAgent] : Q \in SUBSET (1 .. MaxLogins)}
  BY <1>1, <1>4
<1>6. /\ DOMAIN seen = S
      /\ \A l \in S : seen[l][2] = NoAgent
  BY <1>3
<1> HIDE DEF seen
<1>7. t \in RowRequest  BY <1>5 DEF RowRequest, OfRows
<1>8. GoodRequest(t)  BY <1>6 DEF GoodRequest, GoodRows, OfRows, OfPorts
<1> QED  BY <1>7, <1>8 DEF Request, seen

LEMMA ReadReuseTypes ==
    ASSUME Types, NEW r \in Requests, NEW x \in Accounts, NEW p \in MaybeAgent,
           ReadReuse(r, x, p)
    PROVE  Types'
<1>1. PICK latest \in ActiveOf(SeenLogins, x), a \in Resolved(x, p) :
        /\ SeenLogins[latest].claimedBy = NoAgent
        /\ a # NoAgent
        /\ Reads(r, [kind |-> "reuse", agent |-> a,
                     seen |-> [l \in {latest} |-> Binding(SeenLogins[latest])]])
  BY DEF ReadReuse
<1>2. {latest} \in SUBSET DOMAIN logins /\ a \in Agents
  BY <1>1, LoginNumbers, ResolvedType DEF ActiveOf, MaybeAgent
<1> DEFINE t == [kind |-> "reuse", agent |-> a,
                 seen |-> [l \in {latest} |-> Binding(SeenLogins[l])]]
<1>3. t \in Request /\ GoodRequest(t)
  BY <1>1, <1>2, LoginNumbers, RowsRead DEF OfRows
<1>4. Reads(r, t)
  <2>1. [l \in {latest} |-> Binding(SeenLogins[latest])]
          = [l \in {latest} |-> Binding(SeenLogins[l])]
    OBVIOUS
  <2> QED  BY <1>1, <2>1
<1> HIDE DEF t
<1> QED  BY <1>3, <1>4, ReadsTypes DEF ReadReuse

LEMMA ReadRerouteTypes ==
    ASSUME Types, NEW r \in Requests, NEW x \in Accounts, NEW a \in Agents,
           ReadReroute(r, x, a)
    PROVE  Types'
<1> DEFINE waiting == {l \in DOMAIN logins : /\ logins[l].account = x
                                            /\ Reroutable(l) /\ logins[l].agent # a}
           t == [kind |-> "reroute", agent |-> a,
                 seen |-> [l \in waiting |-> Binding(logins[l])]]
<1>1. /\ waiting \in SUBSET DOMAIN logins
      /\ \A l \in waiting : logins[l].claimedBy = NoAgent
      /\ logins \in Seq(LoginRow)
  BY DEF Reroutable, Types, RowsInv, RowsOK
<1>2. t \in Request /\ GoodRequest(t)
  <2> HIDE DEF waiting
  <2> QED  BY <1>1, RowsRead DEF OfRows
<1>3. Reads(r, t)  BY DEF ReadReroute
<1> HIDE DEF t
<1> QED  BY <1>2, <1>3, ReadsTypes DEF ReadReroute

LEMMA ReadClaimTypes ==
    ASSUME Types, NEW r \in Requests, NEW a \in Agents, ReadClaim(r, a)
    PROVE  Types'
<1>1. PICK oldest \in {l \in DOMAIN logins : Claimable(SeenLogins[l], a)} :
        Reads(r, [kind |-> "claim", agent |-> a,
                  seen |-> [l \in {oldest} |-> Binding(SeenLogins[l])]])
  BY DEF ReadClaim
<1> DEFINE t == [kind |-> "claim", agent |-> a,
                 seen |-> [l \in {oldest} |-> Binding(SeenLogins[l])]]
<1>2. t \in Request /\ GoodRequest(t)
  BY <1>1, LoginNumbers, RowsRead DEF OfRows, Claimable
<1>3. Reads(r, t)  BY <1>1
<1> HIDE DEF t
<1> QED  BY <1>2, <1>3, ReadsTypes DEF ReadClaim

LEMMA ReadPortsTypes ==
    ASSUME Types, NEW r \in Requests, NEW x \in Accounts, ReadPorts(r, x)
    PROVE  Types'
<1> DEFINE port == FreePort(x, UsedPorts({}))
           t == [kind |-> "port", account |-> x, port |-> port,
                 holders |-> Holders(port)]
<1>1. port \in Ports \ UsedPorts({})  BY FreePortType DEF ReadPorts
<1>2. Holders(port) \subseteq {x} /\ Holders(port) \subseteq Accounts
  BY <1>1, FreeHolders DEF Holders
<1>3. Reads(r, t)  BY DEF ReadPorts
<1> HIDE DEF port
<1>4. t \in Request  BY <1>1, <1>2 DEF Request, PortRequest
<1>5. GoodRequest(t)  BY <1>2 DEF GoodRequest, GoodPort, OfRows
<1> HIDE DEF t
<1> QED  BY <1>3, <1>4, <1>5, ReadsTypes DEF ReadPorts

LEMMA ReadStartTypes ==
    ASSUME Types, NEW r \in Requests, NEW x \in Accounts, NEW p \in MaybeAgent,
           NEW force \in BOOLEAN, ReadStart(r, x, p, force)
    PROVE  Types'
<1> DEFINE ended == IF force THEN ActiveOf(SeenLogins, x) ELSE {}
           own   == IF force THEN NoPort ELSE accounts[x].port
           used  == UsedPorts(IF force THEN {x} ELSE {})
           port  == IF own # NoPort THEN own ELSE FreePort(x, used)
           writes == {c \in {"auth", "port"} :
                        IF c = "port" THEN own = NoPort
                        ELSE force \/ SeenAccounts[x].auth # "login_pending"}
<1>1. PICK a \in IF p # NoAgent THEN {p} ELSE Resolved(x, NoAgent) :
        Reads(r, [kind |-> "start", account |-> x, agent |-> a,
                  status |-> IF Online(a) THEN "created" ELSE "waiting_agent",
                  port |-> port, ended |-> ended, writes |-> writes,
                  holders |-> Holders(port)])
  BY DEF ReadStart
<1> DEFINE t == [kind |-> "start", account |-> x, agent |-> a,
                 status |-> IF Online(a) THEN "created" ELSE "waiting_agent",
                 port |-> port, ended |-> ended, writes |-> writes,
                 holders |-> Holders(port)]
<1>2. port # NoPort  BY DEF ReadStart
<1>3. a \in MaybeAgent  BY ResolvedType DEF MaybeAgent
<1>4. ended \in SUBSET (1 .. MaxLogins)
  BY LoginNumbers DEF ActiveOf
<1>5. port \in Ports /\ (x \in Holders(port) \/ Holders(port) \subseteq {x})
  <2>1. CASE own # NoPort
    <3>1. port = accounts[x].port  BY <2>1
    <3>2. port \in Ports  BY <1>2, <3>1 DEF Types, OthersOK, AccountRow
    <3> QED  BY <3>1, <3>2 DEF Holders
  <2>2. CASE own = NoPort
    <3>1. port = FreePort(x, used)  BY <2>2
    <3>2. port \in Ports \ used  BY <1>2, <3>1, FreePortType
    <3> HIDE DEF port
    <3>3. Holders(port) \subseteq {x}  BY <3>2, FreeHolders
    <3> QED  BY <3>2, <3>3
  <2> QED  BY <2>1, <2>2
<1>6. Holders(port) \subseteq Accounts /\ writes \in SUBSET {"auth", "port"}
  BY DEF Holders
<1>7. Reads(r, t)  BY <1>1
<1> HIDE DEF port, ended, writes, own, used
<1>8. t \in Request
  BY <1>3, <1>4, <1>5, <1>6 DEF Request, StartRequest
<1>9. GoodRequest(t)  BY <1>5 DEF GoodRequest, GoodPort, OfRows
<1> HIDE DEF t
<1> QED  BY <1>7, <1>8, <1>9, ReadsTypes DEF ReadStart

LEMMA ReadingTypes ==
    ASSUME Types, NEW r \in Requests, Reading(r)
    PROVE  Types' /\ UNCHANGED <<logins, accounts, ready, live, stage>>
<1>1. Types'
  BY ReadReuseTypes, ReadStartTypes, ReadRerouteTypes, ReadPortsTypes, ReadClaimTypes
  DEF Reading
<1>2. UNCHANGED <<logins, accounts, ready, live, stage>>
  BY DEF Reading, ReadReuse, ReadStart, ReadReroute, ReadPorts, ReadClaim
<1> QED  BY <1>1, <1>2

-----------------------------------------------------------------------------
(* The types under the requests that commit.                                *)

LEMMA OpenRequest ==
    ASSUME Types, NEW r \in Requests
    PROVE  /\ open[r] \in Request \cup {NoRequest}
           /\ GoodRequest(open[r])
           /\ open[r].kind \in OfRows => open[r] \in RowRequest /\ open[r].agent \in Agents
           /\ open[r].kind = "start" => open[r] \in StartRequest
           /\ open[r].kind = "port" => open[r] \in PortRequest
<1>1. open[r] \in Request \cup {NoRequest} /\ GoodRequest(open[r])
  BY DEF Types, OpenOK
<1> QED  BY <1>1, KindOfRequest DEF RowRequest

LEMMA ReuseTypes ==
    ASSUME Types, NEW r \in Requests, ReuseLogin(r)
    PROVE  Types' /\ Kept(logins, logins')
<1>1. open[r].agent \in Agents  BY OpenRequest DEF ReuseLogin, OfRows
<1>2. Kept(SeenLogins, logins')  BY <1>1, LoginNumbers, OfferedKept DEF ReuseLogin
<1>3. Kept(logins, logins')  BY <1>2, SeenKept, KeptTransitive DEF Types, RowsInv
<1>4. accounts' \in [Accounts -> AccountRow]
  BY SeenAccountsType DEF ReuseLogin, Types, OthersOK
<1> QED  BY <1>3, <1>4, KeptTypes DEF ReuseLogin, Types, OthersOK

LEMMA RerouteTypes ==
    ASSUME Types, NEW r \in Requests, RerouteLogins(r)
    PROVE  Types' /\ Kept(logins, logins')
<1>1. open[r].agent \in Agents  BY OpenRequest DEF RerouteLogins, OfRows
<1>2. Kept(logins, logins')
  BY <1>1, OfferedKept DEF RerouteLogins, Types, RowsInv, RowsOK
<1> QED  BY <1>2, KeptTypes DEF RerouteLogins, Types, OthersOK

LEMMA PrepareTypes ==
    ASSUME Types, NEW r \in Requests, PrepareBridge(r)
    PROVE  Types' /\ Steady(logins, logins')
<1>1. open[r].account \in Accounts /\ open[r].port \in Ports
  BY OpenRequest DEF PrepareBridge, PortRequest
<1>2. Steady(logins, logins')
  BY DEF PrepareBridge, Kept, Steady, Types, RowsInv, RowsOK
<1>3. accounts' \in [Accounts -> AccountRow]
  BY <1>1 DEF PrepareBridge, Types, OthersOK, AccountRow
<1> QED  BY <1>2, <1>3, KeptTypes DEF PrepareBridge, Types, OthersOK, Steady

LEMMA SyncTypes ==
    ASSUME Types, NEW x \in Accounts, NEW bridge \in BridgeStatus,
           NEW port \in Ports, NEW p \in MaybeAgent,
           SyncBridge(x, bridge, port, p),
           open' = open \/ \E r \in Requests : Closes(r)
    PROVE  /\ Types' /\ Steady(logins, logins')
           /\ accounts'[x].port = port
           /\ \A y \in Accounts \ {x} : accounts'[y].port = accounts[y].port
<1>1. Steady(logins, SeenLogins)  BY SeenSteady DEF Types, RowsInv
<1>2. PICK status \in ActiveStatus \cup EndedStatus :
        logins' = Ended(SeenLogins, ActiveOf(SeenLogins, x), status)
  BY DEF SyncBridge, ActiveStatus, EndedStatus
<1>3. PICK auth \in AuthStatus :
        accounts' = [SeenAccounts EXCEPT ![x] = [auth |-> auth, port |-> port]]
  BY DEF SyncBridge, AuthStatus, BridgeStatus
<1>4. Steady(logins, logins')
  BY <1>1, <1>2, LoginNumbers, EndedSteady, SteadyTransitive
<1>5. /\ accounts' \in [Accounts -> AccountRow]
      /\ accounts'[x].port = port
      /\ \A y \in Accounts \ {x} : accounts'[y].port = accounts[y].port
  BY <1>3, SeenAccountsType DEF Types, OthersOK, AccountRow
<1>6. ready' \subseteq Accounts \X Agents
  <2>1. PICK a \in IF ValidPreferred(x, p) THEN {p} ELSE Resolved(x, NoAgent) :
          ready' = IF bridge = "ready" /\ a # NoAgent
                   THEN ready \cup {<<x, a>>} ELSE ready \ {<<x, a>>}
    BY DEF SyncBridge
  <2>2. a \in MaybeAgent  BY ResolvedType DEF MaybeAgent
  <2> QED  BY <2>1, <2>2 DEF Types, OthersOK, MaybeAgent
<1>7. stage' = stage /\ live' \subseteq Agents  BY DEF SyncBridge, Types, OthersOK
<1>8. Types'  BY <1>4, <1>5, <1>6, <1>7, KeptTypes DEF Steady
<1> QED  BY <1>4, <1>5, <1>8

\* The bridge names a port, or leaves the account its own.
LEMMA NamedPort ==
    ASSUME Types, NEW x \in Accounts, NEW bridge, NEW named \in Ports \cup {NoPort},
           NEW p, SyncNamed(x, bridge, named, p)
    PROVE  \E port \in Ports : /\ SyncBridge(x, bridge, port, p)
                               /\ open' = open
                               /\ port = named \/ port = accounts[x].port
<1> DEFINE port == IF named # NoPort THEN named ELSE accounts[x].port
<1>1. port \in Ports  BY DEF SyncNamed, Types, OthersOK, AccountRow
<1>2. SyncBridge(x, bridge, port, p) /\ open' = open  BY DEF SyncNamed
<1> QED  BY <1>1, <1>2

\* The rows after a new login: the old ones, and one that nobody has come for.
LEMMA NewTypes ==
    ASSUME Types, NEW r \in Requests, NewLogin(r)
    PROVE  LET t == open[r]
               rows == Ended(SeenLogins, t.ended \cap ActiveOf(SeenLogins, t.account),
                             "failed")
               new == Len(logins) + 1
           IN  /\ Types'
               /\ Steady(logins, rows)
               /\ DOMAIN logins' = DOMAIN logins \cup {new}
               /\ new \notin DOMAIN logins
               /\ \A l \in DOMAIN logins : logins'[l] = rows[l]
               /\ logins'[new].account = t.account
               /\ logins'[new].port = t.port
               /\ logins'[new].status \in ActiveStatus
               /\ t.account \in Accounts
               /\ \A y \in Accounts \ {t.account} : accounts'[y] = SeenAccounts[y]
               /\ accounts'[t.account].port \in {t.port, accounts[t.account].port}
<1> DEFINE t == open[r]
           x == t.account
           rows == Ended(SeenLogins, t.ended \cap ActiveOf(SeenLogins, x), "failed")
           new == Len(logins) + 1
           row == [account |-> x, agent |-> t.agent, claimedBy |-> NoAgent,
                   status |-> t.status, overdue |-> FALSE, port |-> t.port]
           own == [auth |-> IF "auth" \in t.writes THEN "login_pending"
                            ELSE SeenAccounts[x].auth,
                   port |-> IF "port" \in t.writes THEN t.port
                            ELSE SeenAccounts[x].port]
<1>1. t \in StartRequest  BY OpenRequest DEF NewLogin
<1>2. /\ x \in Accounts /\ t.port \in Ports /\ row \in LoginRow
      /\ row.account = x /\ row.port = t.port /\ row.claimedBy = NoAgent
      /\ row.status \in ActiveStatus
  BY <1>1 DEF StartRequest, LoginRow, MaybeAgent, ActiveStatus
<1>3. Steady(logins, rows)
  BY LoginNumbers, SeenSteady, EndedSteady, SteadyTransitive
  DEF EndedStatus, Types, RowsInv
<1>4. /\ Len(logins) < MaxLogins
      /\ logins' = Append(rows, row)
      /\ accounts' = [SeenAccounts EXCEPT ![x] = own]
      /\ Closes(r)
      /\ UNCHANGED <<ready, live, stage>>
  BY DEF NewLogin
<1>5. /\ SeenAccounts \in [Accounts -> AccountRow]
      /\ SeenAccounts[x].port = accounts[x].port
  BY <1>2, SeenAccountsType DEF Types, OthersOK
<1>6. own \in AccountRow /\ own.port \in {t.port, accounts[x].port}
  BY <1>2, <1>5 DEF AccountRow, AuthStatus
<1> HIDE DEF row, own, rows
<1>7. /\ accounts' \in [Accounts -> AccountRow]
      /\ accounts'[x] = own
      /\ \A y \in Accounts \ {x} : accounts'[y] = SeenAccounts[y]
  BY <1>2, <1>4, <1>5, <1>6
<1>8. /\ rows \in Seq(LoginRow) /\ Len(rows) = Len(logins)
      /\ DOMAIN rows = DOMAIN logins
  BY <1>3 DEF Kept, Steady
<1>9. /\ logins' \in Seq(LoginRow)
      /\ Len(logins') = Len(rows) + 1
      /\ \A i \in 1 .. Len(rows) : logins'[i] = rows[i]
      /\ logins'[Len(rows) + 1] = row
  BY <1>2, <1>4, <1>8, AppendProperties
<1>10. /\ Len(logins) \in Nat /\ DOMAIN logins = 1 .. Len(logins)
       /\ DOMAIN logins' = 1 .. Len(logins) + 1
  BY <1>8, <1>9, LenProperties DEF Types, RowsInv, RowsOK
<1>11. /\ DOMAIN logins' = DOMAIN logins \cup {new}
       /\ new \notin DOMAIN logins
       /\ \A l \in DOMAIN logins : logins'[l] = rows[l]
       /\ logins'[new] = row
  BY <1>8, <1>9, <1>10
<1>12. RowsOK(logins')  BY <1>4, <1>8, <1>9, <1>10, LoginAssumption DEF RowsOK
<1>13. InWork'
  BY <1>3, <1>4, <1>11 DEF InWork, Types, RowsInv, Kept, Steady
<1>14. OthersOK'  BY <1>4, <1>7 DEF Types, OthersOK
<1>15. OpenOK'  BY <1>4, <1>11, OpenStays DEF Types
<1>16. Types'  BY <1>12, <1>13, <1>14, <1>15 DEF Types, RowsInv, RowsOK
<1> QED  BY <1>2, <1>3, <1>6, <1>7, <1>11, <1>16 DEF rows

\* A claim gives the login to the agent; the other rows are as it saw them.
LEMMA ClaimTypes ==
    ASSUME Types, NEW r \in Requests, ClaimLogin(r)
    PROVE  /\ Types'
           /\ \E l \in DOMAIN open[r].seen :
                /\ l \in DOMAIN logins
                /\ logins'[l] = Claimed(SeenLogins[l], open[r].agent, open[r].seen[l])
                /\ \A k \in DOMAIN logins : k # l => logins'[k] = SeenLogins[k]
           /\ DOMAIN logins' = DOMAIN logins
           /\ \A l \in DOMAIN logins : /\ logins'[l].account = logins[l].account
                                       /\ logins'[l].port = logins[l].port
<1> DEFINE t == open[r]
<1>1. /\ t \in RowRequest /\ t.agent \in Agents
      /\ DOMAIN t.seen \subseteq DOMAIN logins
  BY OpenRequest DEF ClaimLogin, OfRows, GoodRequest, GoodRows
<1>2. PICK l \in DOMAIN t.seen, reached \in {"launching", "done"} :
        /\ logins' = [SeenLogins EXCEPT ![l] = Claimed(@, t.agent, t.seen[l])]
        /\ stage' = [stage EXCEPT ![l] = reached]
  BY DEF ClaimLogin
<1> DEFINE row == Claimed(SeenLogins[l], t.agent, t.seen[l])
<1>3. /\ l \in DOMAIN logins
      /\ Kept(logins, SeenLogins) /\ RowsOK(SeenLogins)
      /\ SeenLogins \in Seq(LoginRow) /\ DOMAIN SeenLogins = DOMAIN logins
  BY <1>1, <1>2, SeenKept, KeptRows, LoginNumbers DEF Types, RowsInv
<1>4. SeenLogins[l] \in LoginRow  BY <1>3, RowType
<1>5. /\ row \in LoginRow /\ row.account = SeenLogins[l].account
      /\ row.port = SeenLogins[l].port
      /\ row.claimedBy = t.agent
  BY <1>1, <1>4 DEF Claimed, LoginRow, MaybeAgent, ActiveStatus
<1>6. logins' = [SeenLogins EXCEPT ![l] = row]  BY <1>2, <1>3
<1> HIDE DEF row
<1>7. l \in 1 .. Len(SeenLogins)  BY <1>3, LenProperties
<1>8. /\ logins' \in Seq(LoginRow)
      /\ Len(logins') = Len(SeenLogins)
      /\ DOMAIN logins' = DOMAIN logins
      /\ \A k \in DOMAIN logins :
            logins'[k] = IF k = l THEN row ELSE SeenLogins[k]
  BY <1>3, <1>5, <1>6, <1>7, ExceptSeq, LenProperties
<1>9. RowsOK(logins')  BY <1>3, <1>8 DEF RowsOK
<1>10. /\ stage' \in [1 .. MaxLogins -> Stages]
       /\ \A k \in 1 .. MaxLogins : k # l => stage'[k] = stage[k]
  BY <1>2, <1>3, LoginNumbers DEF Types, OthersOK, Stages
<1>11. InWork'
  BY <1>1, <1>3, <1>5, <1>8, <1>10, LoginAssumption DEF InWork, Types, RowsInv, Kept
<1>12. OthersOK'
  BY <1>10, SeenAccountsType DEF ClaimLogin, Types, OthersOK
<1>13. OpenOK'  BY <1>8, OpenStays DEF ClaimLogin, Types
<1>14. Types'  BY <1>9, <1>11, <1>12, <1>13 DEF Types, RowsInv, RowsOK
<1>15. \A k \in DOMAIN logins : /\ logins'[k].account = logins[k].account
                               /\ logins'[k].port = logins[k].port
  BY <1>3, <1>5, <1>8 DEF Kept
<1>16. logins'[l] = Claimed(SeenLogins[l], open[r].agent, open[r].seen[l])
  BY <1>3, <1>8 DEF row
<1> QED  BY <1>2, <1>3, <1>8, <1>14, <1>15, <1>16

LEMMA SyncAllocatedTypes ==
    ASSUME Types, NEW r \in Requests, NEW bridge \in BridgeStatus,
           NEW p \in MaybeAgent, SyncAllocated(r, bridge, p)
    PROVE  /\ Types' /\ Steady(logins, logins')
           /\ open[r].account \in Accounts
           /\ accounts'[open[r].account].port = open[r].port
           /\ \A y \in Accounts \ {open[r].account} : accounts'[y].port = accounts[y].port
<1>1. open[r].account \in Accounts /\ open[r].port \in Ports
  BY OpenRequest DEF SyncAllocated, PortRequest
<1> QED  BY <1>1, SyncTypes DEF SyncAllocated

-----------------------------------------------------------------------------
LEMMA InitialTypes == Init => Types
<1> SUFFICES ASSUME Init PROVE Types  OBVIOUS
<1>1. logins \in Seq(LoginRow) /\ Len(logins) = 0 /\ DOMAIN logins = {}
  BY EmptySeq, LenProperties DEF Init
<1>2. GoodRequest(NoRequest)  BY DEF GoodRequest, NoRequest, OfPorts, OfRows
<1> QED
  BY <1>1, <1>2, LoginAssumption DEF Init, Types, RowsInv, RowsOK, InWork, OthersOK,
     OpenOK, AccountRow, AuthStatus, Stages

LEMMA TypesStep == Types /\ [Next]_vars => Types'
<1> SUFFICES ASSUME Types, [Next]_vars PROVE Types'
  OBVIOUS
<1>0. BridgeReports \subseteq BridgeStatus  BY LoginAssumption
<1>1. CASE ExpireStale  BY <1>1, ExpireTypes
<1>2. CASE \E r \in Requests : Reading(r)  BY <1>2, ReadingTypes
<1>3. CASE \E r \in Requests : Committing(r)
  BY <1>0, <1>3, ReuseTypes, NewTypes, RerouteTypes, PrepareTypes, ClaimTypes,
     SyncAllocatedTypes DEF Committing
<1>4. CASE \E x \in Accounts, a \in MaybeAgent, bridge \in BridgeReports,
              named \in Ports \cup {NoPort} : SyncNamed(x, bridge, named, a)
  BY <1>0, <1>4, NamedPort, SyncTypes
<1>5. CASE \E x \in Accounts : ResetLogin(x)  BY <1>5, ResetTypes
<1>6. CASE (\E a \in Agents : Heartbeat(a) \/ Silent(a)) \/ \E r \in Requests : Rollback(r)
  BY <1>6, QuietTypes
<1>7. CASE \E l \in DOMAIN logins : Report(l) \/ GiveUp(l) \/ StopWork(l)
  BY <1>7, ReportTypes
<1>8. CASE \E l \in DOMAIN logins : Lapses(l)  BY <1>8, LapseTypes
<1>9. CASE UNCHANGED vars
  BY <1>9 DEF vars, serverVars, Types, RowsInv, RowsOK, InWork, OthersOK,
     OpenOK, GoodRequest, GoodPort, GoodRows
<1> QED
  BY <1>1, <1>2, <1>3, <1>4, <1>5, <1>6, <1>7, <1>8, <1>9 DEF Next

LEMMA TypesAlways == Spec => []Types
  BY InitialTypes, TypesStep, PTL DEF Spec

\* Every column always holds a value of its type, and so does what the requests
\* under way have read.
THEOREM TypeCorrect == Spec => []TypeOK
<1>1. Types => TypeOK
  BY DEF Types, RowsInv, RowsOK, OthersOK, OpenOK, TypeOK, AccountRow
<1> QED  BY <1>1, TypesAlways, PTL

-----------------------------------------------------------------------------
(***************************************************************************)
(* Whoever has come for a login is its agent.  Nobody had come for a login *)
(* that a request gives away, so one that has a claimant by the time the   *)
(* request commits was taken after the request had read it.                *)
(***************************************************************************)
Parts(l) == Bound(logins[l]) /\ ~Bound(logins'[l])

Excused(l) == \E r \in Requests : /\ open[r] # NoRequest
                                  /\ open'[r] = NoRequest
                                  /\ Overtaken(r, l)

LEMMA SteadyBinds ==
    ASSUME Steady(logins, logins'), NEW l \in DOMAIN logins
    PROVE  ~Parts(l)
  BY DEF Steady, Kept, Parts, Bound

LEMMA Closed ==
    ASSUME Types, NEW r \in Requests, open[r].kind \in OfRows \cup OfPorts, Closes(r)
    PROVE  open[r] # NoRequest /\ open'[r] = NoRequest
  BY DEF Closes, NoRequest, OfRows, OfPorts, Types, OpenOK

LEMMA OfferBinds ==
    ASSUME Types, NEW r \in Requests, open[r].kind \in {"reuse", "reroute"},
           NEW rows, Steady(logins, rows),
           logins' = Offered(rows, open[r]), Closes(r),
           NEW l \in DOMAIN logins, Parts(l)
    PROVE  Excused(l)
<1>1. /\ open[r].agent \in Agents
      /\ GoodRows(open[r])
  BY OpenRequest DEF OfRows, GoodRequest
<1>2. /\ rows \in Seq(LoginRow) /\ DOMAIN rows = DOMAIN logins
      /\ rows[l].agent = logins[l].agent
      /\ rows[l].claimedBy = logins[l].claimedBy
  BY DEF Steady, Kept
<1>3. /\ logins'[l].claimedBy = logins[l].claimedBy
      /\ l \notin DOMAIN open[r].seen => logins'[l] = rows[l]
  BY <1>1, <1>2, OfferedKept DEF Kept
<1>4. l \in DOMAIN open[r].seen  BY <1>2, <1>3 DEF Parts, Bound
<1>5. logins[l].claimedBy # NoAgent  BY <1>3 DEF Parts, Bound
<1>6. open[r].seen[l][2] = NoAgent  BY <1>1, <1>4 DEF GoodRows
<1>7. Binding(logins[l])[2] = logins[l].claimedBy  BY DEF Binding
<1>8. Overtaken(r, l)  BY <1>4, <1>5, <1>6, <1>7 DEF Overtaken
<1> QED  BY <1>8, Closed DEF Excused, OfRows

LEMMA ClaimBinds ==
    ASSUME Types, NEW r \in Requests, ClaimLogin(r), NEW l \in DOMAIN logins, Parts(l)
    PROVE  Excused(l)
<1> DEFINE t == open[r]
<1>1. PICK k \in DOMAIN t.seen :
        /\ k \in DOMAIN logins
        /\ logins'[k] = Claimed(SeenLogins[k], t.agent, t.seen[k])
        /\ \A m \in DOMAIN logins : m # k => logins'[m] = SeenLogins[m]
  BY ClaimTypes
<1>2. /\ SeenLogins[l].agent = logins[l].agent
      /\ SeenLogins[l].claimedBy = logins[l].claimedBy
      /\ SeenLogins[l] \in LoginRow
  BY SeenSteady, LoginNumbers DEF Types, RowsInv, Steady, Kept
<1>3. l = k  BY <1>1, <1>2 DEF Parts, Bound
<1>4. logins'[l] = [SeenLogins[l] EXCEPT
                      !.claimedBy = t.agent, !.status = "launching_browser",
                      !.agent = IF t.seen[l][1] = t.agent THEN SeenLogins[l].agent
                                ELSE t.agent]
  BY <1>1, <1>3 DEF Claimed, LoginRow
<1>5. /\ logins'[l].claimedBy = t.agent
      /\ logins'[l].agent = IF t.seen[l][1] = t.agent THEN logins[l].agent ELSE t.agent
  BY <1>2, <1>4 DEF LoginRow
<1>6. t.seen[l][1] = t.agent /\ logins[l].agent # t.agent
  BY <1>5 DEF Parts, Bound
<1>7. Binding(logins[l])[1] = logins[l].agent  BY DEF Binding
<1>8. Overtaken(r, l)  BY <1>1, <1>3, <1>6, <1>7 DEF Overtaken, ClaimLogin
<1>9. Closes(r) /\ t.kind = "claim"  BY DEF ClaimLogin
<1> QED  BY <1>8, <1>9, Closed DEF Excused, OfRows

LEMMA StepBinds ==
    ASSUME Types, Next, NEW l \in DOMAIN logins, Parts(l)
    PROVE  Excused(l)
<1>0. BridgeReports \subseteq BridgeStatus  BY LoginAssumption
<1>1. CASE \E r \in Requests : ReuseLogin(r)
  BY <1>1, OfferBinds, SeenSteady DEF ReuseLogin, Types, RowsInv
<1>2. CASE \E r \in Requests : RerouteLogins(r)
  <2>1. Steady(logins, logins)  BY DEF Steady, Kept, Types, RowsInv, RowsOK
  <2> QED  BY <1>2, <2>1, OfferBinds DEF RerouteLogins
<1>3. CASE \E r \in Requests : ClaimLogin(r)  BY <1>3, ClaimBinds
<1>4. CASE \E r \in Requests : NewLogin(r)
  <2>1. PICK r \in Requests : NewLogin(r)  BY <1>4
  <2> DEFINE rows == Ended(SeenLogins,
                           open[r].ended \cap ActiveOf(SeenLogins, open[r].account),
                           "failed")
  <2>2. Steady(logins, rows) /\ logins'[l] = rows[l]  BY <2>1, NewTypes
  <2> HIDE DEF rows
  <2> QED  BY <2>2 DEF Steady, Kept, Parts, Bound
<1>5. CASE \E r \in Requests :
             \/ PrepareBridge(r)
             \/ \E bridge \in BridgeReports, a \in MaybeAgent : SyncAllocated(r, bridge, a)
  BY <1>0, <1>5, PrepareTypes, SyncAllocatedTypes, SteadyBinds
<1>6. CASE \E x \in Accounts, a \in MaybeAgent, bridge \in BridgeReports,
              named \in Ports \cup {NoPort} : SyncNamed(x, bridge, named, a)
  BY <1>0, <1>6, NamedPort, SyncTypes, SteadyBinds
<1>7. CASE ExpireStale \/ \E x \in Accounts : ResetLogin(x)
  BY <1>7, ExpireTypes, ResetTypes, SteadyBinds
<1>8. CASE \E k \in DOMAIN logins : Report(k) \/ GiveUp(k) \/ StopWork(k) \/ Lapses(k)
  BY <1>8, ReportTypes, LapseTypes, SteadyBinds
<1>9. CASE UNCHANGED logins  BY <1>9 DEF Parts
<1>10. CASE (\E r \in Requests : Reading(r) \/ Rollback(r))
              \/ \E a \in Agents : Heartbeat(a) \/ Silent(a)
  BY <1>9, <1>10, ReadingTypes, QuietTypes
<1> QED
  BY <1>1, <1>2, <1>3, <1>4, <1>5, <1>6, <1>7, <1>8, <1>10 DEF Next, Committing

\* A login that an agent has come for stays bound to it, unless the commit of a
\* claim or of an offer was overtaken by another since it read the login.
THEOREM ClaimStays == Spec => ClaimedByItsAgent
<1>1. Types /\ [Next]_vars =>
        [\A l \in DOMAIN logins :
           Bound(logins[l]) /\ ~Bound(logins'[l])
             => \E r \in Requests : /\ open[r] # NoRequest
                                    /\ open'[r] = NoRequest
                                    /\ Overtaken(r, l)]_vars
  BY StepBinds DEF Parts, Excused
<1> QED  BY <1>1, TypesAlways, PTL DEF Spec, ClaimedByItsAgent

-----------------------------------------------------------------------------
(***************************************************************************)
(* Ports.  The port that a request gives to an account was in use by that  *)
(* account alone, or not at all, or by it and others, when it looked; if   *)
(* that is still so, nothing comes to be shared.                           *)
(***************************************************************************)

\* A port comes to be shared.
Shares(q) == \E y, z \in Holders(q)' : y # z /\ ~({y, z} \subseteq Holders(q))

LEMMA SameHolders ==
    ASSUME Kept(logins, logins'),
           \A y \in Accounts : accounts'[y].port = accounts[y].port,
           NEW q
    PROVE  ~Shares(q)
<1>1. Holders(q)' \subseteq Holders(q)  BY DEF Kept, Holders
<1> QED  BY <1>1 DEF Shares

\* What an account is given, only that account comes to hold.
LEMMA GrantedHolders ==
    ASSUME NEW x \in Accounts, NEW port,
           accounts'[x].port \in {port, accounts[x].port},
           \A y \in Accounts \ {x} : accounts'[y].port = accounts[y].port,
           \A l \in DOMAIN logins' :
              \/ /\ l \in DOMAIN logins
                 /\ logins'[l].account = logins[l].account
                 /\ logins'[l].port = logins[l].port
              \/ logins'[l].account = x /\ logins'[l].port = port,
           NEW q
    PROVE  /\ Holders(q)' \subseteq Holders(q) \cup {x}
           /\ q # port => Holders(q)' \subseteq Holders(q)
<1> SUFFICES ASSUME NEW y \in Holders(q)', y \notin Holders(q)
             PROVE  y = x /\ q = port
  OBVIOUS
<1>1. y \in Accounts  BY DEF Holders
<1>2. CASE accounts'[y].port = q  BY <1>1, <1>2 DEF Holders
<1>3. CASE \E l \in DOMAIN logins' : logins'[l].account = y /\ logins'[l].port = q
  BY <1>1, <1>3 DEF Holders
<1> QED  BY <1>2, <1>3 DEF Holders

LEMMA GrantRaces ==
    ASSUME Types, NEW r \in Requests, open[r].kind \in OfPorts, Closes(r),
           NEW q, Shares(q),
           Holders(q)' \subseteq Holders(q) \cup {open[r].account},
           q # open[r].port => Holders(q)' \subseteq Holders(q)
    PROVE  Raced(q)
<1>1. q = open[r].port  BY DEF Shares
<1>2. GoodPort(open[r])  BY OpenRequest DEF GoodRequest
<1>3. open[r].holders # Holders(q)  BY <1>1, <1>2 DEF GoodPort, Shares
<1>4. open'[r] = NoRequest  BY Closed
<1> QED  BY <1>1, <1>3, <1>4 DEF Raced, OfPorts

LEMMA StepShares ==
    ASSUME Types, Next, NEW q \in Ports, Shares(q)
    PROVE  Named(q) \/ Raced(q)
<1>0. BridgeReports \subseteq BridgeStatus  BY LoginAssumption
<1>1. CASE \E r \in Requests : NewLogin(r)
  <2>1. PICK r \in Requests : NewLogin(r)  BY <1>1
  <2> DEFINE t == open[r]
             rows == Ended(SeenLogins, t.ended \cap ActiveOf(SeenLogins, t.account),
                           "failed")
             new == Len(logins) + 1
  <2>2. /\ Steady(logins, rows)
        /\ DOMAIN logins' = DOMAIN logins \cup {new}
        /\ \A l \in DOMAIN logins : logins'[l] = rows[l]
        /\ logins'[new].account = t.account
        /\ logins'[new].port = t.port
        /\ t.account \in Accounts
        /\ \A y \in Accounts \ {t.account} : accounts'[y] = SeenAccounts[y]
        /\ accounts'[t.account].port \in {t.port, accounts[t.account].port}
    BY <2>1, NewTypes
  <2> HIDE DEF rows, new
  <2>3. \A y \in Accounts \ {t.account} : accounts'[y].port = accounts[y].port
    BY <2>2, SeenAccountsType DEF Types, OthersOK
  <2>4. \A l \in DOMAIN logins' :
           \/ /\ l \in DOMAIN logins
              /\ logins'[l].account = logins[l].account
              /\ logins'[l].port = logins[l].port
           \/ logins'[l].account = t.account /\ logins'[l].port = t.port
    BY <2>2 DEF Steady, Kept
  <2>5. /\ Holders(q)' \subseteq Holders(q) \cup {t.account}
        /\ q # t.port => Holders(q)' \subseteq Holders(q)
    BY <2>2, <2>3, <2>4, GrantedHolders DEF Holders
  <2>6. t.kind \in OfPorts /\ Closes(r)  BY <2>1 DEF NewLogin, OfPorts
  <2> QED  BY <2>5, <2>6, GrantRaces
<1>2. CASE \E r \in Requests :
             \/ PrepareBridge(r)
             \/ \E bridge \in BridgeReports, a \in MaybeAgent : SyncAllocated(r, bridge, a)
  <2>1. PICK r \in Requests :
             \/ PrepareBridge(r)
             \/ \E bridge \in BridgeReports, a \in MaybeAgent : SyncAllocated(r, bridge, a)
    BY <1>2
  <2> DEFINE t == open[r]
  <2>2. t.kind = "port" /\ Closes(r)  BY <2>1 DEF PrepareBridge, SyncAllocated
  <2>3. t.account \in Accounts  BY <2>2, OpenRequest DEF PortRequest
  <2>4. /\ Steady(logins, logins')
        /\ accounts'[t.account].port = t.port
        /\ \A y \in Accounts \ {t.account} : accounts'[y].port = accounts[y].port
    <3>1. CASE PrepareBridge(r)
      <4>1. accounts' = [accounts EXCEPT ![t.account].port = t.port]
        BY <3>1 DEF PrepareBridge
      <4>2. accounts \in [Accounts -> AccountRow]  BY DEF Types, OthersOK
      <4> QED  BY <2>3, <3>1, <4>1, <4>2, PrepareTypes DEF AccountRow
    <3>2. CASE \E bridge \in BridgeReports, a \in MaybeAgent : SyncAllocated(r, bridge, a)
      BY <1>0, <3>2, SyncAllocatedTypes
    <3> QED  BY <2>1, <3>1, <3>2
  <2>5. /\ Holders(q)' \subseteq Holders(q) \cup {t.account}
        /\ q # t.port => Holders(q)' \subseteq Holders(q)
    BY <2>3, <2>4, GrantedHolders DEF Steady, Kept, Holders
  <2> QED  BY <2>2, <2>5, GrantRaces DEF OfPorts
<1>3. CASE \E x \in Accounts, a \in MaybeAgent, bridge \in BridgeReports,
              named \in Ports \cup {NoPort} : SyncNamed(x, bridge, named, a)
  <2>1. PICK x \in Accounts, a \in MaybeAgent, bridge \in BridgeReports,
             named \in Ports \cup {NoPort} : SyncNamed(x, bridge, named, a)
    BY <1>3
  <2>2. PICK port \in Ports : /\ SyncBridge(x, bridge, port, a)
                              /\ open' = open
                              /\ port = named \/ port = accounts[x].port
    BY <2>1, NamedPort
  <2>3. /\ Steady(logins, logins')
        /\ accounts'[x].port = port
        /\ \A y \in Accounts \ {x} : accounts'[y].port = accounts[y].port
    BY <1>0, <2>2, SyncTypes
  <2>4. /\ Holders(q)' \subseteq Holders(q) \cup {x}
        /\ q # port => Holders(q)' \subseteq Holders(q)
    BY <2>3, GrantedHolders DEF Steady, Kept, Holders
  <2>5. q = port /\ x \notin Holders(q)  BY <2>4 DEF Shares
  <2>6. q = named  BY <2>2, <2>5 DEF Holders
  <2> QED  BY <2>1, <2>6 DEF Named
<1>4. CASE \E r \in Requests : ReuseLogin(r) \/ RerouteLogins(r) \/ ClaimLogin(r)
  <2>1. PICK r \in Requests : ReuseLogin(r) \/ RerouteLogins(r) \/ ClaimLogin(r)
    BY <1>4
  <2>2. /\ DOMAIN logins' = DOMAIN logins
        /\ \A l \in DOMAIN logins : /\ logins'[l].account = logins[l].account
                                    /\ logins'[l].port = logins[l].port
    BY <2>1, ReuseTypes, RerouteTypes, ClaimTypes DEF Kept
  <2>3. \A y \in Accounts : accounts'[y].port = accounts[y].port
    BY <2>1, SeenAccountsType
    DEF ReuseLogin, RerouteLogins, ClaimLogin, Types, OthersOK
  <2>4. Holders(q)' \subseteq Holders(q)  BY <2>2, <2>3 DEF Holders
  <2> QED  BY <2>4 DEF Shares
<1>5. CASE ExpireStale \/ \E x \in Accounts : ResetLogin(x)
  <2>1. Kept(logins, logins')  BY <1>5, ExpireTypes, ResetTypes DEF Steady
  <2>2. \A y \in Accounts : accounts'[y].port = accounts[y].port
    BY <1>5, SeenAccountsType DEF ExpireStale, ResetLogin, Types, OthersOK, AccountRow
  <2> QED  BY <2>1, <2>2, SameHolders
<1>6. CASE \E l \in DOMAIN logins : Report(l) \/ GiveUp(l) \/ StopWork(l) \/ Lapses(l)
  <2>1. Kept(logins, logins')  BY <1>6, ReportTypes, LapseTypes DEF Steady
  <2>2. accounts \in [Accounts -> AccountRow]  BY DEF Types, OthersOK
  <2>3. \/ UNCHANGED accounts
        \/ \E x, auth : accounts' = [accounts EXCEPT ![x].auth = auth]
    BY <1>6 DEF Report, ReportLaunching, ReportWaiting, CompleteLogin, FailLogin,
       GiveUp, StopWork, Lapses, serverVars
  <2>4. \A y \in Accounts : accounts'[y].port = accounts[y].port
    BY <2>2, <2>3 DEF AccountRow
  <2> QED  BY <2>1, <2>4, SameHolders
<1>7. CASE (\E r \in Requests : Reading(r) \/ Rollback(r))
             \/ \E a \in Agents : Heartbeat(a) \/ Silent(a)
  <2>1. UNCHANGED <<logins, accounts>>  BY <1>7, ReadingTypes, QuietTypes
  <2>2. Holders(q)' = Holders(q)  BY <2>1 DEF Holders
  <2> QED  BY <2>2 DEF Shares
<1> QED
  BY <1>1, <1>2, <1>3, <1>4, <1>5, <1>6, <1>7 DEF Next, Committing

\* Two accounts come to have one port only when a bridge names it, or when
\* requests that look for a port overlap.
THEOREM PortsStayPrivate == Spec => PortsPrivate
<1>1. Types /\ [Next]_vars =>
        [\A port \in Ports : \A x, y \in Holders(port)' :
           x # y /\ ~({x, y} \subseteq Holders(port))
             => Named(port) \/ Raced(port)]_vars
  BY StepShares DEF Shares
<1> QED  BY <1>1, TypesAlways, PTL DEF Spec, PortsPrivate

-----------------------------------------------------------------------------
(***************************************************************************)
(* No account waits for a login that nobody will finish.  The logins that a*)
(* request finds stale end together with the wait of their account; every  *)
(* other step that ends a login gives its account a status of its own.     *)
(***************************************************************************)
Abandons(x) == ActiveOf(logins, x) # {} /\ ActiveOf(logins', x) = {}

LEMMA SeenActive ==
    ASSUME Types, NEW x, NEW l \in ActiveOf(logins, x), ~Stale(l)
    PROVE  l \in ActiveOf(SeenLogins, x) /\ SeenLogins[l] = logins[l]
  BY DEF ActiveOf, SeenLogins, Ended

LEMMA SeenRow ==
    ASSUME Types, NEW l \in DOMAIN logins
    PROVE  /\ l \in DOMAIN SeenLogins /\ SeenLogins[l] \in LoginRow
           /\ SeenLogins[l].account = logins[l].account
  BY SeenKept, RowType DEF Types, RowsInv, Kept

\* A step that leaves the logins of an account active that are not stale.
LEMMA OnlyStaleEnd ==
    ASSUME Types, NEW x \in Accounts, Abandons(x),
           accounts'[x].auth = SeenAccounts[x].auth,
           ActiveOf(SeenLogins, x) \subseteq ActiveOf(logins', x)
    PROVE  accounts'[x].auth # "login_pending"
<1>1. PICK l \in ActiveOf(logins, x) : Stale(l)  BY SeenActive DEF Abandons
<1>2. l \in DOMAIN logins /\ logins[l].account = x  BY <1>1 DEF ActiveOf
<1>3. accounts[x] \in AccountRow  BY DEF Types, OthersOK
<1>4. SeenAccounts[x].auth # "login_pending"
  BY <1>1, <1>2, <1>3 DEF SeenAccounts, AccountRow, AuthStatus
<1> QED  BY <1>4

\* A step that changes the status of at most one row, and makes that active.
LEMMA RevivalKeeps ==
    ASSUME Types, NEW l \in DOMAIN logins, NEW value \in ActiveStatus,
           logins' = [logins EXCEPT ![l].status = value]
    PROVE  \A x \in Accounts : ~Abandons(x)
<1> SUFFICES ASSUME NEW x \in Accounts, NEW k \in ActiveOf(logins, x)
             PROVE  k \in ActiveOf(logins', x)
  BY DEF Abandons
<1>1. k \in DOMAIN logins /\ logins[k] \in LoginRow
  BY RowType DEF ActiveOf, Types, RowsInv, RowsOK
<1>2. DOMAIN logins' = DOMAIN logins  OBVIOUS
<1>3. logins'[k].account = logins[k].account /\ logins'[k].status \in ActiveStatus
  BY <1>1 DEF ActiveOf, LoginRow
<1> QED  BY <1>1, <1>2, <1>3 DEF ActiveOf

\* The end of a login leaves the logins of other accounts as they are.
LEMMA EndKeepsOthers ==
    ASSUME Types, NEW l \in DOMAIN logins, NEW value,
           logins' = [logins EXCEPT ![l].status = value],
           NEW x \in Accounts, Abandons(x)
    PROVE  logins[l].account = x
<1> SUFFICES ASSUME logins[l].account # x, NEW k \in ActiveOf(logins, x)
             PROVE  k \in ActiveOf(logins', x)
  BY DEF Abandons
<1> QED  BY DEF ActiveOf

\* No step leaves an account waiting whose last active login it ends, unless
\* the bridge says that it waits for the user.
Settles(x) == Abandons(x) /\ ~BridgeWantsUser(x) => accounts'[x].auth # "login_pending"

LEMMA ReuseSettles ==
    ASSUME Types, NEW r \in Requests, ReuseLogin(r), NEW x \in Accounts
    PROVE  Settles(x)
<1>1. open[r].agent \in Agents  BY OpenRequest DEF ReuseLogin, OfRows
<1>2. logins' = Offered(SeenLogins, open[r]) /\ accounts' = SeenAccounts
  BY DEF ReuseLogin
<1>3. /\ DOMAIN logins' = DOMAIN SeenLogins
      /\ \A l \in DOMAIN SeenLogins :
            /\ logins'[l].status = SeenLogins[l].status
            /\ logins'[l].account = SeenLogins[l].account
  BY <1>1, <1>2, LoginNumbers, OfferedKept DEF Kept
<1>4. ActiveOf(SeenLogins, x) \subseteq ActiveOf(logins', x)
  BY <1>3 DEF ActiveOf
<1> QED  BY <1>2, <1>4, OnlyStaleEnd DEF Settles

LEMMA ClaimSettles ==
    ASSUME Types, NEW r \in Requests, ClaimLogin(r), NEW x \in Accounts
    PROVE  Settles(x)
<1>1. /\ DOMAIN logins' = DOMAIN logins
      /\ \E l \in DOMAIN logins :
           /\ logins'[l] = Claimed(SeenLogins[l], open[r].agent, open[r].seen[l])
           /\ \A k \in DOMAIN logins : k # l => logins'[k] = SeenLogins[k]
  BY ClaimTypes
<1>2. ASSUME NEW k \in ActiveOf(SeenLogins, x) PROVE k \in ActiveOf(logins', x)
  <2>1. k \in DOMAIN logins /\ SeenLogins[k] \in LoginRow
    BY LoginNumbers DEF ActiveOf
  <2>2. ASSUME NEW row \in LoginRow, NEW a, NEW binding
        PROVE  /\ Claimed(row, a, binding).account = row.account
               /\ Claimed(row, a, binding).status = "launching_browser"
    BY <2>2 DEF Claimed, LoginRow
  <2>3. /\ logins'[k].account = SeenLogins[k].account
        /\ logins'[k].status \in {"launching_browser", SeenLogins[k].status}
    BY <1>1, <2>1, <2>2
  <2> QED  BY <1>1, <1>2, <2>1, <2>3 DEF ActiveOf, ActiveStatus
<1>3. accounts' = SeenAccounts  BY DEF ClaimLogin
<1> QED  BY <1>2, <1>3, OnlyStaleEnd DEF Settles

\* Ending the active logins of one account leaves those of the others.
LEMMA EndedOthers ==
    ASSUME Types, NEW x \in Accounts, NEW y \in Accounts, x # y, NEW value,
           logins' = Ended(SeenLogins, ActiveOf(SeenLogins, y), value),
           accounts'[x].auth = SeenAccounts[x].auth
    PROVE  Settles(x)
<1>1. ActiveOf(SeenLogins, x) \subseteq ActiveOf(logins', x)
  BY DEF Ended, ActiveOf
<1> QED  BY <1>1, OnlyStaleEnd DEF Settles

LEMMA ResetSettles ==
    ASSUME Types, NEW y \in Accounts, ResetLogin(y), NEW x \in Accounts
    PROVE  Settles(x)
<1>1. accounts' = [SeenAccounts EXCEPT ![y].auth = "not_logged_in"]
      /\ logins' = Ended(SeenLogins, ActiveOf(SeenLogins, y), "failed")
  BY DEF ResetLogin
<1>2. SeenAccounts \in [Accounts -> AccountRow]  BY SeenAccountsType DEF Types, OthersOK
<1>3. CASE x = y  BY <1>1, <1>2, <1>3 DEF Settles, AccountRow
<1>4. CASE x # y
  <2>1. accounts'[x].auth = SeenAccounts[x].auth  BY <1>1, <1>2, <1>4
  <2> QED  BY <1>1, <1>4, <2>1, EndedOthers
<1> QED  BY <1>3, <1>4

LEMMA SyncSettles ==
    ASSUME Types, NEW y \in Accounts, NEW bridge \in BridgeStatus,
           NEW port \in Ports, NEW p \in MaybeAgent,
           SyncBridge(y, bridge, port, p), NEW x \in Accounts
    PROVE  Settles(x)
<1>0. PICK auth \in AuthStatus : \E status :
        /\ accounts' = [SeenAccounts EXCEPT ![y] = [auth |-> auth, port |-> port]]
        /\ logins' = Ended(SeenLogins, ActiveOf(SeenLogins, y), status)
        /\ bridge # "manual_verify_required" => auth # "login_pending"
  BY DEF SyncBridge, AuthStatus, BridgeStatus
<1>1. PICK status :
        /\ accounts' = [SeenAccounts EXCEPT ![y] = [auth |-> auth, port |-> port]]
        /\ logins' = Ended(SeenLogins, ActiveOf(SeenLogins, y), status)
        /\ bridge # "manual_verify_required" => auth # "login_pending"
  BY <1>0
<1>2. SeenAccounts \in [Accounts -> AccountRow]  BY SeenAccountsType DEF Types, OthersOK
<1>3. CASE x = y /\ bridge # "manual_verify_required"
  BY <1>1, <1>2, <1>3 DEF Settles
<1>4. CASE x = y /\ bridge = "manual_verify_required"
  <2>1. BridgeWantsUser(x)  BY <1>4 DEF BridgeWantsUser
  <2> QED  BY <2>1 DEF Settles
<1>5. CASE x # y
  <2>1. accounts'[x].auth = SeenAccounts[x].auth  BY <1>1, <1>2, <1>5
  <2> QED  BY <1>1, <1>5, <2>1, EndedOthers
<1> QED  BY <1>3, <1>4, <1>5

LEMMA NewSettles ==
    ASSUME Types, NEW r \in Requests, NewLogin(r), NEW x \in Accounts
    PROVE  Settles(x)
<1> DEFINE y == open[r].account
           new == Len(logins) + 1
           rows == Ended(SeenLogins, open[r].ended \cap ActiveOf(SeenLogins, y), "failed")
<1>1. /\ DOMAIN logins' = DOMAIN logins \cup {new}
      /\ \A l \in DOMAIN logins : logins'[l] = rows[l]
      /\ logins'[new].account = y
      /\ logins'[new].status \in ActiveStatus
      /\ \A z \in Accounts \ {y} : accounts'[z] = SeenAccounts[z]
  BY NewTypes
<1>2. CASE x = y
  <2>1. new \in ActiveOf(logins', x)  BY <1>1, <1>2 DEF ActiveOf
  <2> QED  BY <2>1 DEF Settles, Abandons
<1>3. CASE x # y
  <2>1. \A l \in ActiveOf(SeenLogins, x) : l \in DOMAIN logins /\ rows[l] = SeenLogins[l]
    BY <1>3, LoginNumbers DEF Ended, ActiveOf
  <2> HIDE DEF rows, new
  <2>2. ActiveOf(SeenLogins, x) \subseteq ActiveOf(logins', x)
    BY <1>1, <2>1 DEF ActiveOf
  <2> QED  BY <1>1, <1>3, <2>2, OnlyStaleEnd DEF Settles
<1> QED  BY <1>2, <1>3

LEMMA ReportSettles ==
    ASSUME Types, NEW l \in DOMAIN logins, Report(l), NEW x \in Accounts
    PROVE  Settles(x)
<1>1. CASE ReportLaunching(l) \/ ReportWaiting(l)
  BY <1>1, RevivalKeeps DEF ReportLaunching, ReportWaiting, ActiveStatus, Settles
<1>2. CASE CompleteLogin(l) \/ FailLogin(l)
  <2>1. PICK auth \in {"active", "error"}, value \in {"logged_in", "failed"} :
          /\ accounts' = [accounts EXCEPT ![logins[l].account].auth = auth]
          /\ logins' = [logins EXCEPT ![l].status = value]
    BY <1>2 DEF CompleteLogin, FailLogin, AuthAfterFailure
  <2>2. accounts \in [Accounts -> AccountRow]  BY DEF Types, OthersOK
  <2>3. ASSUME Abandons(x) PROVE accounts'[x].auth # "login_pending"
    <3>1. logins[l].account = x  BY <2>1, <2>3, EndKeepsOthers
    <3> QED  BY <2>1, <2>2, <3>1 DEF AccountRow
  <2> QED  BY <2>3 DEF Settles
<1> QED  BY <1>1, <1>2 DEF Report

\* Steps that leave the status of every login.
LEMMA QuietSettles ==
    ASSUME DOMAIN logins' = DOMAIN logins,
           \A l \in DOMAIN logins : /\ logins'[l].account = logins[l].account
                                    /\ logins'[l].status = logins[l].status,
           NEW x \in Accounts
    PROVE  Settles(x)
  BY DEF Settles, Abandons, ActiveOf

LEMMA StepSettles == Types /\ [Next]_vars => \A x \in Accounts : Settles(x)
<1> SUFFICES ASSUME Types, [Next]_vars, NEW x \in Accounts PROVE Settles(x)
  OBVIOUS
<1>0. /\ \A l \in DOMAIN logins : logins[l] \in LoginRow
      /\ BridgeReports \subseteq BridgeStatus
  BY RowType, LoginAssumption DEF Types, RowsInv, RowsOK
<1>1. CASE ExpireStale
  BY <1>1, OnlyStaleEnd DEF ExpireStale, Settles
<1>2. CASE \E r \in Requests : ReuseLogin(r) \/ NewLogin(r) \/ ClaimLogin(r)
  BY <1>2, ReuseSettles, NewSettles, ClaimSettles
<1>3. CASE \E r \in Requests : RerouteLogins(r)
  <2>1. PICK r \in Requests : RerouteLogins(r)  BY <1>3
  <2>2. open[r].agent \in Agents  BY <2>1, OpenRequest DEF RerouteLogins, OfRows
  <2>3. /\ DOMAIN logins' = DOMAIN logins
        /\ \A l \in DOMAIN logins : /\ logins'[l].account = logins[l].account
                                    /\ logins'[l].status = logins[l].status
    BY <2>1, <2>2, OfferedKept DEF RerouteLogins, Kept, Types, RowsInv, RowsOK
  <2> QED  BY <2>3, QuietSettles
<1>4. CASE \E r \in Requests, bridge \in BridgeReports, a \in MaybeAgent :
             SyncAllocated(r, bridge, a)
  <2>1. PICK r \in Requests, bridge \in BridgeReports, a \in MaybeAgent :
               SyncAllocated(r, bridge, a)
    BY <1>4
  <2>2. open[r].account \in Accounts /\ open[r].port \in Ports
    BY <2>1, OpenRequest DEF SyncAllocated, PortRequest
  <2> QED  BY <1>0, <2>1, <2>2, SyncSettles DEF SyncAllocated
<1>5. CASE \E y \in Accounts, a \in MaybeAgent, bridge \in BridgeReports,
              named \in Ports \cup {NoPort} : SyncNamed(y, bridge, named, a)
  BY <1>0, <1>5, NamedPort, SyncSettles
<1>6. CASE \E y \in Accounts : ResetLogin(y)  BY <1>6, ResetSettles
<1>7. CASE \E l \in DOMAIN logins : Report(l)  BY <1>7, ReportSettles
<1>8. CASE \E l \in DOMAIN logins : Lapses(l)
  BY <1>0, <1>8, QuietSettles DEF Lapses, LoginRow
<1>9. CASE UNCHANGED logins  BY <1>9, QuietSettles
<1>10. CASE (\E r \in Requests : Reading(r) \/ PrepareBridge(r) \/ Rollback(r))
              \/ \E a \in Agents : Heartbeat(a) \/ Silent(a)
  BY <1>9, <1>10, ReadingTypes, QuietTypes DEF PrepareBridge
<1> QED
  BY <1>1, <1>2, <1>3, <1>4, <1>5, <1>6, <1>7, <1>8, <1>9, <1>10
  DEF Next, Committing, GiveUp, StopWork, serverVars, vars

\* No step ends the last active login of an account and leaves the account
\* waiting for it, unless the bridge says that it waits for the user.
THEOREM NoLoginIsOrphaned == Spec => NoOrphanPending
<1>1. Types /\ [Next]_vars =>
        [\A x \in Accounts :
           /\ ActiveOf(logins, x) # {}
           /\ ActiveOf(logins', x) = {}
           /\ ~BridgeWantsUser(x)
           => accounts'[x].auth # "login_pending"]_vars
  BY StepSettles DEF Settles, Abandons
<1> QED  BY <1>1, TypesAlways, PTL DEF Spec, NoOrphanPending

-----------------------------------------------------------------------------
(***************************************************************************)
(* Logins stay ended.  Only the agent that still works on a login revives  *)
(* it; once it has ended and no such agent is left, nothing does.          *)
(***************************************************************************)
Settled(l) ==
    /\ l \in DOMAIN logins
    /\ logins[l].status \in EndedStatus
    /\ stage[l] \in {"none", "failing", "done"}
    /\ \A r \in Requests : open[r].kind = "claim" => l \notin DOMAIN open[r].seen

LEMMA SettledNotActive ==
    ASSUME Types, NEW l, Settled(l)
    PROVE  /\ logins[l].status \notin ActiveStatus
           /\ l \in DOMAIN SeenLogins /\ SeenLogins[l] = logins[l]
           /\ \A x : l \notin ActiveOf(SeenLogins, x)
<1>1. l \in DOMAIN logins /\ logins[l].status \notin ActiveStatus
  BY DEF Settled, EndedStatus, ActiveStatus
<1>2. l \in DOMAIN SeenLogins /\ SeenLogins[l] = logins[l]
  BY <1>1 DEF SeenLogins, Ended, Stale
<1> QED  BY <1>1, <1>2 DEF ActiveOf

\* What ends the logins that it sees leaves a settled one as it is.
LEMMA SettledSeen ==
    ASSUME Types, NEW l, Settled(l), NEW S, NEW x, NEW value,
           S \subseteq ActiveOf(SeenLogins, x)
    PROVE  l \in DOMAIN Ended(SeenLogins, S, value)
           /\ Ended(SeenLogins, S, value)[l] = logins[l]
  BY SettledNotActive DEF Ended

\* The requests under way hold no claim of l, if no step reads one.
LEMMA NoClaimOpens ==
    ASSUME Types, NEW l, Settled(l),
           \/ open' = open
           \/ \E r \in Requests : Closes(r)
    PROVE  \A r \in Requests : open'[r].kind = "claim" => l \notin DOMAIN open'[r].seen
<1> SUFFICES ASSUME NEW r \in Requests, open'[r].kind = "claim"
             PROVE  l \notin DOMAIN open'[r].seen
  OBVIOUS
<1>1. open'[r] = open[r] \/ open'[r] = NoRequest  BY DEF Closes, Types, OpenOK
<1> QED  BY <1>1 DEF Settled, NoRequest

LEMMA ReportKeepsSettled ==
    ASSUME Types, NEW k \in DOMAIN logins, Report(k) \/ GiveUp(k) \/ StopWork(k),
           NEW l, Settled(l)
    PROVE  Settled(l)'
<1>1. l \in DOMAIN logins /\ k \in DOMAIN logins  BY DEF Settled
<1>2. logins[l] \in LoginRow /\ l \in 1 .. MaxLogins /\ k \in 1 .. MaxLogins
  BY <1>1, RowType, LenProperties, LoginAssumption DEF Types, RowsInv, RowsOK
<1>3. stage \in [1 .. MaxLogins -> Stages]  BY DEF Types, OthersOK
<1>6. open' = open
  BY DEF Report, ReportLaunching, ReportWaiting, CompleteLogin, FailLogin,
     GiveUp, StopWork, serverVars
<1>4. CASE k # l
  BY <1>1, <1>2, <1>3, <1>4, <1>6 DEF Settled, Report, ReportLaunching, ReportWaiting,
     CompleteLogin, FailLogin, GiveUp, StopWork, serverVars
<1>5. CASE k = l
  BY <1>1, <1>2, <1>3, <1>5, <1>6 DEF Settled, Report, ReportLaunching, ReportWaiting,
     CompleteLogin, FailLogin, GiveUp, StopWork, serverVars, LoginRow, EndedStatus
<1> QED  BY <1>4, <1>5

\* A claim that is read is of a login which has not ended.
LEMMA ReadingKeepsSettled ==
    ASSUME Types, NEW r \in Requests, Reading(r), NEW l, Settled(l)
    PROVE  Settled(l)'
<1>1. UNCHANGED <<logins, stage>>  BY ReadingTypes
<1>2. /\ \A q \in Requests : q # r => open'[q] = open[q]
      /\ open'[r].kind = "claim" => l \notin DOMAIN open'[r].seen
  <2>1. ASSUME NEW t, Reads(r, t)
        PROVE  /\ open'[r] = t
               /\ \A q \in Requests : q # r => open'[q] = open[q]
    BY <2>1 DEF Reads, Types, OpenOK
  <2>2. CASE \E a \in Agents : ReadClaim(r, a)
    <3>1. PICK a \in Agents, oldest \in DOMAIN logins :
            /\ Claimable(SeenLogins[oldest], a)
            /\ Reads(r, [kind |-> "claim", agent |-> a,
                         seen |-> [k \in {oldest} |-> Binding(SeenLogins[k])]])
      BY <2>2 DEF ReadClaim
    <3>2. oldest # l
      BY <3>1, SettledNotActive DEF Claimable, ActiveStatus
    <3> DEFINE seen == [k \in {oldest} |-> Binding(SeenLogins[k])]
    <3>3. l \notin DOMAIN seen  BY <3>2
    <3> HIDE DEF seen
    <3> DEFINE t == [kind |-> "claim", agent |-> a, seen |-> seen]
    <3>4. Reads(r, t)  BY <3>1 DEF seen
    <3>5. t.seen = seen  OBVIOUS
    <3> HIDE DEF t
    <3> QED  BY <2>1, <3>3, <3>4, <3>5
  <2>3. ASSUME NEW t, Reads(r, t), t.kind # "claim"
        PROVE  /\ open'[r].kind # "claim"
               /\ \A q \in Requests : q # r => open'[q] = open[q]
    BY <2>1, <2>3
  <2>4. CASE \E x \in Accounts, a \in MaybeAgent : ReadReuse(r, x, a)
    <3>1. PICK a, seen : Reads(r, [kind |-> "reuse", agent |-> a, seen |-> seen])
      BY <2>4 DEF ReadReuse
    <3> QED  BY <2>3, <3>1
  <2>5. CASE \E x \in Accounts, a \in MaybeAgent, force \in BOOLEAN :
               ReadStart(r, x, a, force)
    <3>1. PICK x \in Accounts, p \in MaybeAgent, force \in BOOLEAN :
            ReadStart(r, x, p, force)
      BY <2>5
    <3> DEFINE ended == IF force THEN ActiveOf(SeenLogins, x) ELSE {}
               own   == IF force THEN NoPort ELSE accounts[x].port
               port  == IF own # NoPort THEN own
                        ELSE FreePort(x, UsedPorts(IF force THEN {x} ELSE {}))
               writes == {c \in {"auth", "port"} :
                            IF c = "port" THEN own = NoPort
                            ELSE force \/ SeenAccounts[x].auth # "login_pending"}
    <3>2. PICK a \in IF p # NoAgent THEN {p} ELSE Resolved(x, NoAgent) :
            Reads(r, [kind |-> "start", account |-> x, agent |-> a,
                      status |-> IF Online(a) THEN "created" ELSE "waiting_agent",
                      port |-> port, ended |-> ended, writes |-> writes,
                      holders |-> Holders(port)])
      BY <3>1 DEF ReadStart
    <3> HIDE DEF ended, own, port, writes
    <3> QED  BY <2>3, <3>2
  <2>6. CASE \E x \in Accounts, a \in Agents : ReadReroute(r, x, a)
    <3>1. PICK a, seen : Reads(r, [kind |-> "reroute", agent |-> a, seen |-> seen])
      BY <2>6 DEF ReadReroute
    <3> QED  BY <2>3, <3>1
  <2>7. CASE \E x \in Accounts : ReadPorts(r, x)
    <3>1. PICK x, port, holders :
            Reads(r, [kind |-> "port", account |-> x, port |-> port,
                      holders |-> holders])
      BY <2>7 DEF ReadPorts
    <3> QED  BY <2>3, <3>1
  <2> QED  BY <2>2, <2>4, <2>5, <2>6, <2>7 DEF Reading
<1>3. \A q \in Requests : open'[q].kind = "claim" => l \notin DOMAIN open'[q].seen
  BY <1>2 DEF Settled, Types, OpenOK
<1> QED  BY <1>1, <1>3 DEF Settled

LEMMA SettledStep ==
    ASSUME Types, [Next]_vars, NEW l, Settled(l)
    PROVE  Settled(l)'
<1>0. /\ l \in DOMAIN logins /\ logins[l] \in LoginRow
      /\ l \in DOMAIN SeenLogins /\ SeenLogins[l] = logins[l]
      /\ logins[l].status \notin ActiveStatus
  BY RowType, SettledNotActive DEF Settled, Types, RowsInv, RowsOK
<1>1. ASSUME stage' = stage, l \in DOMAIN logins', logins'[l].status = logins[l].status,
             open' = open \/ \E r \in Requests : Closes(r)
      PROVE  Settled(l)'
  BY <1>1, NoClaimOpens DEF Settled
<1>2. CASE ExpireStale  BY <1>0, <1>1, <1>2 DEF ExpireStale
<1>3. CASE \E r \in Requests : ReuseLogin(r) \/ RerouteLogins(r)
  <2>1. PICK r \in Requests : ReuseLogin(r) \/ RerouteLogins(r)  BY <1>3
  <2>2. open[r].agent \in Agents
    BY <2>1, OpenRequest DEF ReuseLogin, RerouteLogins, OfRows
  <2>3. PICK rows \in {logins, SeenLogins} : logins' = Offered(rows, open[r])
    BY <2>1 DEF ReuseLogin, RerouteLogins
  <2>4. rows \in Seq(LoginRow) /\ DOMAIN rows = DOMAIN logins /\ rows[l] = logins[l]
    BY <1>0, <2>3, LoginNumbers DEF Types, RowsInv, RowsOK
  <2>5. l \in DOMAIN logins' /\ logins'[l].status = logins[l].status
    BY <1>0, <2>2, <2>3, <2>4, OfferedKept DEF Kept
  <2> QED  BY <1>1, <2>1, <2>5 DEF ReuseLogin, RerouteLogins
<1>4. CASE \E r \in Requests : NewLogin(r)
  <2>1. PICK r \in Requests : NewLogin(r)  BY <1>4
  <2> DEFINE S == open[r].ended \cap ActiveOf(SeenLogins, open[r].account)
  <2>2. l \in DOMAIN logins' /\ logins'[l] = Ended(SeenLogins, S, "failed")[l]
    BY <1>0, <2>1, NewTypes
  <2>3. Ended(SeenLogins, S, "failed")[l] = logins[l]
    <3>1. S \subseteq ActiveOf(SeenLogins, open[r].account)  OBVIOUS
    <3> HIDE DEF S
    <3> QED  BY <3>1, SettledSeen
  <2> QED  BY <1>1, <2>1, <2>2, <2>3 DEF NewLogin
<1>5. CASE \E r \in Requests, bridge \in BridgeReports, a \in MaybeAgent :
             SyncAllocated(r, bridge, a)
  <2>1. PICK x, value : logins' = Ended(SeenLogins, ActiveOf(SeenLogins, x), value)
    BY <1>5 DEF SyncBridge, SyncAllocated
  <2> QED  BY <1>1, <1>5, <2>1, SettledSeen DEF SyncBridge, SyncAllocated
<1>6. CASE \E x \in Accounts, a \in MaybeAgent, bridge \in BridgeReports,
              named \in Ports \cup {NoPort} : SyncNamed(x, bridge, named, a)
  <2>1. PICK x, value : logins' = Ended(SeenLogins, ActiveOf(SeenLogins, x), value)
    BY <1>6 DEF SyncBridge, SyncNamed
  <2> QED  BY <1>1, <1>6, <2>1, SettledSeen DEF SyncBridge, SyncNamed
<1>7. CASE \E x \in Accounts : ResetLogin(x)
  BY <1>1, <1>7, SettledSeen DEF ResetLogin
<1>8. CASE \E r \in Requests : ClaimLogin(r)
  <2>1. PICK r \in Requests : ClaimLogin(r)  BY <1>8
  <2>2. PICK k \in DOMAIN open[r].seen :
          /\ logins' = [SeenLogins EXCEPT ![k] = Claimed(@, open[r].agent, open[r].seen[k])]
          /\ \E reached \in {"launching", "done"} : stage' = [stage EXCEPT ![k] = reached]
    BY <2>1 DEF ClaimLogin
  <2>3. k # l  BY <2>1 DEF Settled, ClaimLogin
  <2>4. l \in DOMAIN logins' /\ logins'[l] = logins[l]  BY <1>0, <2>2, <2>3
  <2>5. stage'[l] = stage[l]  BY <2>2, <2>3
  <2>6. \A q \in Requests : open'[q].kind = "claim" => l \notin DOMAIN open'[q].seen
    BY <2>1, NoClaimOpens DEF ClaimLogin
  <2> QED  BY <2>4, <2>5, <2>6 DEF Settled
<1>9. CASE \E k \in DOMAIN logins : Report(k) \/ GiveUp(k) \/ StopWork(k)
  BY <1>9, ReportKeepsSettled
<1>10. CASE \E k \in DOMAIN logins : Lapses(k)
  BY <1>0, <1>1, <1>10 DEF Lapses, LoginRow
<1>11. CASE \E r \in Requests : Reading(r)  BY <1>11, ReadingKeepsSettled
<1>12. CASE (\E r \in Requests : PrepareBridge(r) \/ Rollback(r))
              \/ \E a \in Agents : Heartbeat(a) \/ Silent(a)
  BY <1>0, <1>1, <1>12 DEF PrepareBridge, Rollback, Heartbeat, Silent, serverVars
<1>13. CASE UNCHANGED vars
  BY <1>0, <1>1, <1>13 DEF vars, serverVars
<1> QED
  BY <1>2, <1>3, <1>4, <1>5, <1>6, <1>7, <1>8, <1>9, <1>10, <1>11, <1>12, <1>13
  DEF Next, Committing

\* A login that has ended, and which no agent works on or is about to claim,
\* stays ended: the safety half of LoginsEnd.
THEOREM SettledForever ==
    ASSUME NEW l \in 1 .. MaxLogins
    PROVE  Spec => [](Settled(l) => []Settled(l))
<1>1. Types /\ [Next]_vars /\ Settled(l) => Settled(l)'  BY SettledStep
<1> QED  BY <1>1, TypesAlways, PTL DEF Spec

-----------------------------------------------------------------------------
(* The search for a port is complete.                                      *)

LEMMA LeastNumber ==
    ASSUME NEW T \in SUBSET Nat, T # {}
    PROVE  \E n \in T : \A m \in T : n =< m
<1>1. IsWellFoundedOn(OpToRel(<, Nat), Nat)  BY NatLessThanWellFounded
<1>2. PICK n \in T : \A m \in T : <<m, n>> \notin OpToRel(<, Nat)  BY <1>1, WFMin
<1>3. \A m \in T : ~(m < n)  BY <1>2 DEF OpToRel
<1> QED  BY <1>3

\* From any seed on the search comes to every port.
LEMMA EveryPortIsMet ==
    ASSUME NEW x \in Accounts, NEW q \in Ports
    PROVE  \E k \in 0 .. PortCount - 1 : Nth(x, k) = q
<1>1. /\ PortCount \in Nat /\ PortCount > 0
      /\ Seed[x] \in Nat /\ Seed[x] < PortCount /\ q \in Nat /\ q < PortCount
  BY LoginAssumption DEF Ports
<1>2. CASE q >= Seed[x]
  <2> DEFINE k == q - Seed[x]
  <2>1. k \in 0 .. PortCount - 1 /\ Seed[x] + k = q  BY <1>1, <1>2
  <2>2. q % PortCount = q  BY <1>1
  <2> QED  BY <2>1, <2>2 DEF Nth
<1>3. CASE q < Seed[x]
  <2> DEFINE k == q + PortCount - Seed[x]
  <2>1. k \in 0 .. PortCount - 1 /\ Seed[x] + k = q + PortCount  BY <1>1, <1>3
  <2>2. (q + PortCount) % PortCount = q  BY <1>1
  <2> QED  BY <2>1, <2>2 DEF Nth
<1> QED  BY <1>1, <1>2, <1>3

\* allocate_cdp_port fails only when every port of the range is in use, and
\* otherwise returns one that is not: no account is turned away, and none is
\* given another's port, whatever its seed.
THEOREM FreePortComplete ==
    ASSUME NEW x \in Accounts, NEW used
    PROVE  /\ FreePort(x, used) = NoPort <=> Ports \subseteq used
           /\ FreePort(x, used) # NoPort => FreePort(x, used) \in Ports \ used
<1>1. ASSUME FreePort(x, used) # NoPort PROVE FreePort(x, used) \in Ports \ used
  BY <1>1, FreePortType
<1>2. ASSUME NEW q \in Ports \ used PROVE FreePort(x, used) # NoPort
  <2> DEFINE T == {k \in 0 .. PortCount - 1 : Nth(x, k) \notin used}
             first == {k \in 0 .. PortCount - 1 :
                         /\ Nth(x, k) \notin used
                         /\ \A i \in 0 .. k - 1 : Nth(x, i) \in used}
  <2>1. T # {} /\ T \in SUBSET Nat  BY EveryPortIsMet, LoginAssumption
  <2>2. PICK k \in T : \A m \in T : k =< m  BY <2>1, LeastNumber
  <2>3. \A i \in 0 .. k - 1 : i \in 0 .. PortCount - 1 /\ ~(k =< i)
    BY <2>2, LoginAssumption
  <2>4. k \in first  BY <2>2, <2>3
  <2>5. FreePort(x, used) = Nth(x, CHOOSE j \in first : TRUE)
    BY <2>4 DEF FreePort, Nth
  <2> HIDE DEF first
  <2>6. (CHOOSE j \in first : TRUE) \in first  BY <2>4
  <2>7. Nth(x, CHOOSE j \in first : TRUE) \in Ports  BY <2>6, NthType DEF first
  <2> QED  BY <2>5, <2>7, LoginAssumption
<1> QED  BY <1>1, <1>2, LoginAssumption
=============================================================================

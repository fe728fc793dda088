--------------------------- MODULE MCLoginSessions ---------------------------
(* Instances of LoginSessions for TLC.                                       *)
EXTENDS LoginSessions, TLC

CONSTANTS a1, a2, x1, x2, e1, r1, r2

\* One employee owns both accounts and the first agent.
OneEmployee == [i \in Agents \cup Accounts |-> IF i = a2 THEN NoEmployee ELSE e1]

\* The accounts are alike, and so are the requests.
Alike == Permutations(Accounts) \cup Permutations(Requests)

SameSeed == [x \in Accounts |-> 0]
=============================================================================

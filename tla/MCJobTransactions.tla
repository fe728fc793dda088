-------------------------- MODULE MCJobTransactions --------------------------
(* Instances of JobTransactions for TLC.                                     *)
EXTENDS JobTransactions, TLC

CONSTANTS a1, a2, s1, s2, j1, j2

\* Sessions are interchangeable; agents differ by nothing but their name.
Symmetry == Permutations(Agents) \cup Permutations(Sessions)
=============================================================================

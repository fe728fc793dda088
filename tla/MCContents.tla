----------------------------- MODULE MCContents -----------------------------
(* An instance of Contents for TLC.                                          *)
EXTENDS Contents, TLC

CONSTANTS c1, q1, q2, u1, u2

\* Sessions and users differ by nothing but their name.
Symmetry == Permutations(Requests) \cup Permutations(Users)
=============================================================================

------------------------------ MODULE MCOutbox ------------------------------
(* Instances of Outbox for TLC.                                              *)
EXTENDS Outbox, TLC

CONSTANTS j1, j2, j3
=============================================================================

------------------------------ MODULE MCStream ------------------------------
(* Small instances of Stream for TLC. *)
EXTENDS Stream

CONSTANTS p1, s1, s2
=============================================================================

------------------------------ MODULE MCSeats ------------------------------
(* A small instance of Seats for TLC. *)
EXTENDS Seats

CONSTANTS c1, c2, neutral, press
=============================================================================

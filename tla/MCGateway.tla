----------------------------- MODULE MCGateway ------------------------------
(* Small instances of Gateway for TLC. *)
EXTENDS Gateway

CONSTANTS a1, a2, r1, r2
=============================================================================

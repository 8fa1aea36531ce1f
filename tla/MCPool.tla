------------------------------- MODULE MCPool -------------------------------
(* Small instances of Pool for TLC: a1 and a2 are clients, b1 is a server. *)
EXTENDS Pool

CONSTANTS a1, a2, b1, n1, n2
=============================================================================

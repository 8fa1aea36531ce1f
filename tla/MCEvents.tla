------------------------------ MODULE MCEvents ------------------------------
(* A small instance of Events for TLC. *)
EXTENDS Events

CONSTANTS h1, h2, h3, c1

ThreeApplied == <<h1, h2, h3>>

\* What append does with slices as short as these: it doubles the array.
Doubled(n) == CHOOSE c \in {0, 1, 2, 4, 8} : c >= n /\ (c < 2 * n \/ c = n)
=============================================================================

------------------------------ MODULE MCSender ------------------------------
(* Small instances of Sender for TLC. *)
EXTENDS SenderProofs, TLC

\* Calls do the same things: permuting them maps behaviours to behaviours.
CallSymmetry == Permutations(Calls)
=============================================================================

------------------------------ MODULE MC_Action ------------------------------
(* Model values for checking Action with TLC. *)
EXTENDS Action, TLC

CONSTANTS c1, c2

=============================================================================

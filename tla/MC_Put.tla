------------------------------- MODULE MC_Put -------------------------------
(* Model values for checking Put with TLC. *)
EXTENDS Put, TLC

CONSTANTS c1, c2, c3

\* Connections are interchangeable; used by the safety-only runs.
MCSymmetry == Permutations({c1, c2, c3})

=============================================================================

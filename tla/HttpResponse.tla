---------------------------- MODULE HttpResponse ----------------------------
(***************************************************************************)
(* What a REST handler of openbmc_dbus_rest.hpp promises about the         *)
(* crow::response it is handed: the response is completed (res.end())      *)
(* once, with one answer (status and body), and that answer never changes  *)
(* afterwards.  The handler modules are shown to implement this spec by a  *)
(* refinement mapping from their own response state.                      *)
(*                                                                         *)
(* crow::response is not under src/; this contract is taken from the spec  *)
(* (section 3, "Transaction": "the response is emitted exactly once; no    *)
(* further mutation is permitted").                                        *)
(***************************************************************************)

CONSTANT NoAnswer    \* the answer of a response that is not completed yet

VARIABLES answered,  \* has the response been completed?
          answer     \* what was completed: status and body

vars == <<answered, answer>>

Init == answered = FALSE /\ answer = NoAnswer

\* The handler completes the response with some answer.
Respond == /\ answered = FALSE
           /\ answered' = TRUE
           /\ answer' # NoAnswer

Spec == Init /\ [][Respond]_vars

\* Every request is eventually answered.
EventuallyAnswered == <>answered
=============================================================================

--------------------------- MODULE EvaluationService ---------------------------
(***************************************************************************)
(* What the game threads may rely on, whichever service answers them: a    *)
(* call that was made while the service was open ends with the answers to  *)
(* its own rows or with an error, and one made later with an error.        *)
(* Implemented by seven_wonders_duel/loop_inference.py,                    *)
(* cantstop/batched_evaluator.py and kingdomino/inference_service.py.      *)
(***************************************************************************)
CONSTANTS Callers

VARIABLES
    phase,    (* how far each caller's latest call is                      *)
    open      (* the service has not been closed                           *)

vars == <<phase, open>>

Returned == {"none", "answered", "failed"}

Init == phase = [c \in Callers |-> "none"] /\ open = TRUE

Becomes(c, p) == phase' = [phase EXCEPT ![c] = p]

Ask(c)    == phase[c] \in Returned /\ open /\ Becomes(c, "waiting") /\ UNCHANGED open
Refuse(c) == phase[c] \in Returned /\ Becomes(c, "failed") /\ UNCHANGED open
Answer(c) == phase[c] = "waiting" /\ Becomes(c, "answered") /\ UNCHANGED open
Fail(c)   == phase[c] = "waiting" /\ Becomes(c, "failed") /\ UNCHANGED open
Close     == open' = FALSE /\ UNCHANGED phase

Next == Close \/ \E c \in Callers : Ask(c) \/ Refuse(c) \/ Answer(c) \/ Fail(c)

Spec == Init /\ [][Next]_vars
=============================================================================

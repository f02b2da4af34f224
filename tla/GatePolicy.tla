------------------------------ MODULE GatePolicy ------------------------------
(***************************************************************************)
(* The promotion policy of a training run (games/az_loop/                  *)
(* training_control.py): which checkpoint generates the next games, and    *)
(* what one gate decision does to the learner, to the protected best and   *)
(* to the counters of a GeneratorState.  Nothing here touches a file.      *)
(*                                                                         *)
(* A generated iteration counts as one game on the ladder's games clock.   *)
(* last_iteration is left out: nothing reads it.                           *)
(***************************************************************************)
EXTENDS Integers, Sequences, FiniteSets

CONSTANTS
    Mode,                 (* generator mode of the run                     *)
    Policy,               (* bootstrap policy                              *)
    PromotionEvery,       (* a gate every so many iterations; 0 is never   *)
    RevertResetAfter,     (* rejects that reset the learner; 0 is never    *)
    ProbationResetAfter,  (* probations that reset the learner; 0 is never *)
    Top,                  (* highest rung of the gate ladder               *)
    StepUpAfter,          (* probations that move the ladder up            *)
    FloorGames            (* games that must exist before it may move up   *)

Modes == {"latest", "current_best", "strict_gate", "soft_gate"}
Policies == {"auto_first_trained", "gate"}
Sources == {"latest", "current_best"}

(* What a match can conclude: "suppressed" is a `continue' whose stop      *)
(* reason is revert_suppressed_knot.                                       *)
Decisions == {"accept", "continue", "reject", "suppressed"}
Actions == {"not_scheduled", "bootstrap_promote", "promote", "probation",
            "revert", "revert_reset"}

(* Either reset copies the best over the learner: ControllerConfig.validate*)
(* refuses it outside soft_gate.                                           *)
ASSUME PolicyAssumption ==
    /\ Mode \in Modes
    /\ Policy \in Policies
    /\ PromotionEvery \in Nat
    /\ RevertResetAfter \in Nat
    /\ ProbationResetAfter \in Nat
    /\ (RevertResetAfter > 0 \/ ProbationResetAfter > 0) => Mode = "soft_gate"
    /\ Top \in Nat
    /\ StepUpAfter \in Nat \ {0}
    /\ FloorGames \in Nat

(* A GeneratorState: trained is bootstrap_state = TRAINED, source is       *)
(* next_generator_source, inconclusive is probations_since_decisive and    *)
(* probations is the ladder's own consecutive_probations.                  *)
Control == [trained      : BOOLEAN,
            source       : Sources,
            reverts      : Nat,
            rung         : 0..Top,
            probations   : Nat,
            inconclusive : Nat]

FixedOnBest == Mode \in {"current_best", "strict_gate"}

InitialState ==
    [trained      |-> FALSE,
     source       |-> IF FixedOnBest THEN "current_best" ELSE "latest",
     reverts      |-> 0,
     rung         |-> 0,
     probations   |-> 0,
     inconclusive |-> 0]

GeneratorSource(s) ==
    CASE Mode = "latest" -> "latest"
      [] FixedOnBest     -> "current_best"
      [] OTHER           -> s.source

GeneratorAfter(action) ==
    CASE Mode = "latest" -> "latest"
      [] FixedOnBest     -> "current_best"
      [] OTHER           -> IF action \in {"revert", "revert_reset"}
                            THEN "current_best" ELSE "latest"

----------------------------------------------------------------------------
(* The ladder: only a counted probation moves it up, only a promotion      *)
(* moves it down.  Below the floor probations do not accumulate.           *)

(* Faulty variants: no highest rung; a debt that builds up below the floor *)
(* and is paid when it clears.                                             *)
LadderAfterUncapped(s, decision, mayStepUp) ==
    CASE decision = "accept" ->
           [rung |-> IF s.rung = 0 THEN 0 ELSE s.rung - 1, probations |-> 0]
      [] decision = "reject" \/ (decision = "continue" /\ ~mayStepUp) ->
           [rung |-> s.rung, probations |-> 0]
      [] decision = "continue" /\ mayStepUp /\ s.probations + 1 >= StepUpAfter ->
           [rung |-> s.rung + 1, probations |-> 0]
      [] OTHER ->
           [rung |-> s.rung, probations |-> s.probations + 1]

LadderAfterInDebt(s, decision, mayStepUp) ==
    CASE decision # "continue" ->
           [rung |-> s.rung, probations |-> 0]
      [] s.probations + 1 >= StepUpAfter /\ mayStepUp /\ s.rung < Top ->
           [rung |-> s.rung + 1, probations |-> 0]
      [] OTHER ->
           [rung |-> s.rung, probations |-> s.probations + 1]

LadderAfter(s, decision, mayStepUp) ==
    CASE decision = "accept" ->
           [rung |-> IF s.rung = 0 THEN 0 ELSE s.rung - 1, probations |-> 0]
      [] decision = "reject" \/ (decision = "continue" /\ ~mayStepUp) ->
           [rung |-> s.rung, probations |-> 0]
      [] decision = "continue" /\ mayStepUp /\ s.probations + 1 >= StepUpAfter ->
           [rung |-> IF s.rung = Top THEN Top ELSE s.rung + 1, probations |-> 0]
      [] OTHER ->
           [rung |-> s.rung, probations |-> s.probations + 1]

----------------------------------------------------------------------------
(* A transition: what the controller does with the two checkpoints, and    *)
(* the state it continues with.                                            *)

Transition(action, replaceBest, resetLearner, next) ==
    [action       |-> action,
     replaceBest  |-> replaceBest,
     resetLearner |-> resetLearner,
     next         |-> next]

Transitions == [action : Actions, replaceBest : BOOLEAN,
                resetLearner : BOOLEAN, next : Control]

BootstrapTransition(s) ==
    Transition("bootstrap_promote", TRUE, FALSE,
        [s EXCEPT !.trained = TRUE,
                  !.source  = GeneratorAfter("bootstrap_promote"),
                  !.reverts = 0])

(* Faulty variant: an iteration without a gate counts as a clean one. *)
NotScheduledClearsReverts(s) ==
    Transition("not_scheduled", FALSE, FALSE, [s EXCEPT !.reverts = 0])

NotScheduledTransition(s) == Transition("not_scheduled", FALSE, FALSE, s)

(* The loss crossed a known distribution boundary: no evidence, no counter *)
SuppressedTransition(s) ==
    Transition("probation", FALSE, FALSE,
        [s EXCEPT !.source = GeneratorAfter("probation")])

AcceptTransition(s, mayStepUp) ==
    LET ladder == LadderAfter(s, "accept", mayStepUp)
    IN  Transition("promote", TRUE, FALSE,
            [s EXCEPT !.trained      = TRUE,
                      !.source       = GeneratorAfter("promote"),
                      !.reverts      = 0,
                      !.inconclusive = 0,
                      !.rung         = ladder.rung,
                      !.probations   = ladder.probations])

ContinueTransition(s, mayStepUp) ==
    LET count  == s.inconclusive + 1
        reset  == ProbationResetAfter > 0 /\ count >= ProbationResetAfter
        action == IF reset THEN "revert_reset" ELSE "probation"
        ladder == LadderAfter(s, "continue", mayStepUp)
    IN  Transition(action, FALSE, reset,
            [s EXCEPT !.source       = GeneratorAfter(action),
                      !.inconclusive = IF reset THEN 0 ELSE count,
                      !.rung         = ladder.rung,
                      !.probations   = ladder.probations])

RejectTransition(s, mayStepUp) ==
    LET count  == s.reverts + 1
        reset  == RevertResetAfter > 0 /\ count >= RevertResetAfter
        action == IF reset THEN "revert_reset" ELSE "revert"
        ladder == LadderAfter(s, "reject", mayStepUp)
    IN  Transition(action, FALSE, reset,
            [s EXCEPT !.source       = GeneratorAfter(action),
                      !.reverts      = IF reset THEN 0 ELSE count,
                      !.inconclusive = 0,
                      !.rung         = ladder.rung,
                      !.probations   = ladder.probations])

GateTransition(s, decision, mayStepUp) ==
    CASE decision = "suppressed" -> SuppressedTransition(s)
      [] decision = "accept"     -> AcceptTransition(s, mayStepUp)
      [] decision = "continue"   -> ContinueTransition(s, mayStepUp)
      [] decision = "reject"     -> RejectTransition(s, mayStepUp)

IsBootstrapEligible(s) == ~s.trained /\ Policy = "auto_first_trained"

(* Every row but a bootstrap counts towards the cadence, warmup rows too.  *)
PromotionScheduled(rows, s) ==
    LET eligible == {i \in DOMAIN rows : rows[i].action # "bootstrap_promote"}
    IN  /\ ~IsBootstrapEligible(s)
        /\ PromotionEvery > 0
        /\ (Cardinality(eligible) + 1) % PromotionEvery = 0

(* Games generated by the committed iterations, against the ladder's floor *)
MayStepUp(rows) == Len(rows) >= FloorGames

(* decision is "none" when no gate ran. *)
DecideTransition(s, decision, mayStepUp) ==
    IF IsBootstrapEligible(s) THEN BootstrapTransition(s)
    ELSE IF decision = "none" THEN NotScheduledTransition(s)
    ELSE GateTransition(s, decision, mayStepUp)
=============================================================================

-------------------------------- MODULE RunLog --------------------------------
(***************************************************************************)
(* What a training run promises its reader: a log to which every iteration *)
(* appends one row, with nothing in between.  There are no files here, no  *)
(* journal and no crash.  Checkpoints are named by the iteration that      *)
(* trained them: 0 is the untrained network the run began with, n is what  *)
(* iteration n - 1 trained.                                                *)
(***************************************************************************)
EXTENDS GatePolicy

CONSTANTS
    MaxRows,         (* bound: iterations of a run                         *)
    MinBufferGames   (* games below which an iteration does not train      *)

VARIABLE log

Row == [learner   : 0..MaxRows,   (* latest.pt when the row was written    *)
        best      : 0..MaxRows,   (* current_best.pt                       *)
        generator : 0..MaxRows,   (* whose games the iteration added       *)
        decision  : Decisions \cup {"none"},
        action    : Actions,
        control   : Control]

TypeOK == log \in Seq(Row) /\ Len(log) <= MaxRows

Init == log = <<>>

Fresh == [learner |-> 0, best |-> 0, generator |-> 0, decision |-> "none",
          action |-> "not_scheduled", control |-> InitialState]

(* The row before row i, the fresh run before the first. *)
Before(i) == IF i = 1 THEN Fresh ELSE log[i - 1]

Previous == Before(Len(log) + 1)

Generator(row) ==
    IF GeneratorSource(row.control) = "latest" THEN row.learner ELSE row.best

(* Too few games: they are kept and nothing else changes. *)
Warmup ==
    /\ Len(log) < MaxRows
    /\ Len(log) + 1 < MinBufferGames
    /\ log' = Append(log, [Previous EXCEPT !.generator = Generator(Previous),
                                           !.decision  = "none",
                                           !.action    = "not_scheduled"])

(* Train, decide, and apply what was decided to the two checkpoints. *)
Iterate(decision) ==
    LET trained == Len(log) + 1
        t == DecideTransition(Previous.control, decision, MayStepUp(log))
        best == IF t.replaceBest THEN trained ELSE Previous.best
    IN  /\ Len(log) < MaxRows
        /\ Len(log) + 1 >= MinBufferGames
        /\ log' = Append(log,
                    [learner   |-> IF t.resetLearner THEN best ELSE trained,
                     best      |-> best,
                     generator |-> Generator(Previous),
                     decision  |-> decision,
                     action    |-> t.action,
                     control   |-> t.next])

Ungated == ~PromotionScheduled(log, Previous.control) /\ Iterate("none")

Gated == /\ PromotionScheduled(log, Previous.control)
         /\ \E decision \in Decisions : Iterate(decision)

Next == Warmup \/ Ungated \/ Gated

Spec == Init /\ [][Next]_log

----------------------------------------------------------------------------
(* What the rows say, counted from the rows themselves.                    *)

(* Rows that are evidence: a gate played and not suppressed. *)
Counted(i) == log[i].decision \in {"accept", "continue", "reject"}

(* Rows up to i with this decision that no row before i has settled. *)
Standing(i, decision, Settles(_)) ==
    {j \in 1..i : /\ log[j].decision = decision
                  /\ \A k \in j..i - 1 : ~Settles(k)}

SettlesReverts(k) ==
    \/ log[k].action \in {"promote", "bootstrap_promote"}
    \/ /\ log[k].decision = "reject"
       /\ log[k].action = "revert_reset"

SettlesProbations(k) ==
    \/ log[k].decision \in {"accept", "reject"}
    \/ /\ log[k].decision = "continue"
       /\ log[k].action = "revert_reset"

(* A learner is thrown away exactly when the configured number of rejects, *)
(* or of probations, has built up since the evidence was last settled: not *)
(* earlier, not later, whatever unscheduled, warmup or suppressed rows lie *)
(* in between (training_control.gate_transition).                          *)
ResetsAreExact ==
    \A i \in DOMAIN log :
        log[i].action = "revert_reset" <=>
            \/ /\ log[i].decision = "reject"
               /\ Cardinality(Standing(i, "reject", SettlesReverts))
                    = RevertResetAfter
            \/ /\ log[i].decision = "continue"
               /\ Cardinality(Standing(i, "continue", SettlesProbations))
                    = ProbationResetAfter

(* A bigger gate is bought with StepUpAfter probations in a row, all of    *)
(* them above the floor and none of them spent before; a smaller one only  *)
(* with a promotion (training_control._ladder_after).                      *)
RungsAreEarned ==
    \A i \in DOMAIN log :
        LET rung(j) == log[j].control.rung
            old == Before(i).control.rung
            Evidence(k) == {j \in k..i : Counted(j)}
        IN  /\ rung(i) > old =>
                 /\ rung(i) = old + 1
                 /\ \E k \in 1..i :
                      /\ Cardinality(Evidence(k)) = StepUpAfter
                      /\ \A j \in Evidence(k) :
                           /\ log[j].decision = "continue"
                           /\ j > FloorGames
                           /\ Before(j).control.rung = old
            /\ rung(i) < old =>
                 log[i].decision = "accept" /\ rung(i) = old - 1

(* Under soft_gate the games come from the protected best exactly while    *)
(* the last transition that was not merely unscheduled was a revert; in    *)
(* the other modes the source never changes (select_generator_source).     *)
GeneratorFollowsGates ==
    \A i \in DOMAIN log :
        LET acted == {j \in 1..i - 1 : log[j].action # "not_scheduled"}
            reverted == /\ acted # {}
                        /\ LET last == CHOOSE j \in acted :
                                         \A k \in acted : k <= j
                           IN  log[last].action \in {"revert", "revert_reset"}
        IN  log[i].generator =
              IF FixedOnBest \/ (Mode = "soft_gate" /\ reverted)
              THEN Before(i).best ELSE Before(i).learner
==============================================================================

--------------------------- MODULE GatePolicyProofs ---------------------------
(***************************************************************************)
(* What one transition of the gate policy does: the types it keeps, and    *)
(* for each counter of a GeneratorState the cases of what may become of it.*)
(* And that a set of rows has a last one, which whoever looks for the last *)
(* row of some kind relies on.                                             *)
(***************************************************************************)
EXTENDS GatePolicy, TLAPS, WellFoundedInduction

(* A set of rows that is not empty has a last one.                        *)
LEMMA Greatest ==
  ASSUME NEW k \in Nat, NEW S \in SUBSET (1..k), S # {}
  PROVE  \E n \in S : \A m \in S : m <= n
<1> DEFINE R == {ss \in Nat \X Nat : ss[1] < ss[2]}
           T == {k - n : n \in S}
<1>1. IsWellFoundedOn(R, Nat)
  BY NatLessThanWellFounded DEF OpToRel
<1>2. T \subseteq Nat /\ T # {}
  <2>1. \A n \in S : k - n \in Nat
    OBVIOUS
  <2>2. PICK n \in S : TRUE
    OBVIOUS
  <2>3. k - n \in T
    OBVIOUS
  <2> QED
    BY <2>1, <2>3
<1>3. PICK t \in T : \A u \in T : <<u, t>> \notin R
  <2> HIDE DEF R, T
  <2> QED
    BY <1>1, <1>2, WFMin
<1>4. \A u \in T : t <= u
  <2> TAKE u \in T
  <2>1. u \in Nat /\ t \in Nat /\ <<u, t>> \notin R
    BY <1>2, <1>3
  <2> HIDE DEF T
  <2> QED
    BY <2>1
<1>5. PICK n \in S : t = k - n
  OBVIOUS
<1>6. \A m \in S : m <= n
  <2> TAKE m \in S
  <2>1. k - n <= k - m
    BY <1>4, <1>5
  <2>2. n \in 1..k /\ m \in 1..k
    BY <1>5
  <2> QED
    BY <2>1, <2>2
<1> QED
  BY <1>5, <1>6

(* The gate policy stays within its types.                                 *)

LEMMA PolicyType ==
  ASSUME NEW s \in Control, NEW d \in Decisions \cup {"none"}, NEW b \in BOOLEAN
  PROVE  DecideTransition(s, d, b) \in Transitions
<1> USE PolicyAssumption
<1>1. \A a \in Actions : GeneratorAfter(a) \in Sources
  BY DEF GeneratorAfter, Sources
<1>2. \A e \in Decisions :
        LadderAfter(s, e, b) \in [rung : 0..Top, probations : Nat]
  BY DEF LadderAfter, Control
<1>3. BootstrapTransition(s) \in Transitions
  BY <1>1 DEF BootstrapTransition, Transition, Transitions, Control, Actions
<1>4. NotScheduledTransition(s) \in Transitions
  BY DEF NotScheduledTransition, Transition, Transitions, Actions
<1>5. SuppressedTransition(s) \in Transitions
  BY <1>1 DEF SuppressedTransition, Transition, Transitions, Control, Actions
<1>6. AcceptTransition(s, b) \in Transitions
  BY <1>1, <1>2 DEF AcceptTransition, Transition, Transitions, Control,
     Actions, Decisions
<1>7. ContinueTransition(s, b) \in Transitions
  <2> DEFINE count  == s.inconclusive + 1
             reset  == ProbationResetAfter > 0 /\ count >= ProbationResetAfter
             action == IF reset THEN "revert_reset" ELSE "probation"
             ladder == LadderAfter(s, "continue", b)
             next   == [s EXCEPT !.source       = GeneratorAfter(action),
                                 !.inconclusive = IF reset THEN 0 ELSE count,
                                 !.rung         = ladder.rung,
                                 !.probations   = ladder.probations]
  <2>1. action \in Actions /\ GeneratorAfter(action) \in Sources
    BY <1>1 DEF Actions
  <2>2. ladder \in [rung : 0..Top, probations : Nat]
    BY <1>2 DEF Decisions
  <2>3. count \in Nat /\ reset \in BOOLEAN
    BY DEF Control
  <2>4. next \in Control
    <3> HIDE DEF count, reset, action, ladder
    <3> QED
      BY <2>1, <2>2, <2>3 DEF Control
  <2> HIDE DEF next, reset, action
  <2>5. Transition(action, FALSE, reset, next) \in Transitions
    BY <2>1, <2>3, <2>4 DEF Transition, Transitions
  <2> QED
    BY <2>5 DEF ContinueTransition, next, reset, action
<1>8. RejectTransition(s, b) \in Transitions
  <2> DEFINE count  == s.reverts + 1
             reset  == RevertResetAfter > 0 /\ count >= RevertResetAfter
             action == IF reset THEN "revert_reset" ELSE "revert"
             ladder == LadderAfter(s, "reject", b)
             next   == [s EXCEPT !.source       = GeneratorAfter(action),
                                 !.reverts      = IF reset THEN 0 ELSE count,
                                 !.inconclusive = 0,
                                 !.rung         = ladder.rung,
                                 !.probations   = ladder.probations]
  <2>1. action \in Actions /\ GeneratorAfter(action) \in Sources
    BY <1>1 DEF Actions
  <2>2. ladder \in [rung : 0..Top, probations : Nat]
    BY <1>2 DEF Decisions
  <2>3. count \in Nat /\ reset \in BOOLEAN
    BY DEF Control
  <2>4. next \in Control
    <3> HIDE DEF count, reset, action, ladder
    <3> QED
      BY <2>1, <2>2, <2>3 DEF Control
  <2> HIDE DEF next, reset, action
  <2>5. Transition(action, FALSE, reset, next) \in Transitions
    BY <2>1, <2>3, <2>4 DEF Transition, Transitions
  <2> QED
    BY <2>5 DEF RejectTransition, next, reset, action
<1> QED
  BY <1>3, <1>4, <1>5, <1>6, <1>7, <1>8 DEF DecideTransition,
     GateTransition, Decisions

(* The transitions that move a counter, field by field.                    *)
LEMMA Bootstrapped ==
  ASSUME NEW s \in Control
  PROVE  LET t == BootstrapTransition(s)
         IN  /\ t.action = "bootstrap_promote"
             /\ t.next.source = GeneratorAfter(t.action)
             /\ t.next.reverts = 0
             /\ t.next.inconclusive = s.inconclusive
             /\ t.next.rung = s.rung
             /\ t.next.probations = s.probations
BY DEF BootstrapTransition, Transition, Control

LEMMA Accepted ==
  ASSUME NEW s \in Control, NEW b \in BOOLEAN
  PROVE  LET t == AcceptTransition(s, b)
         IN  /\ t.action = "promote"
             /\ t.next.source = GeneratorAfter(t.action)
             /\ t.next.reverts = 0
             /\ t.next.inconclusive = 0
             /\ t.next.rung = IF s.rung = 0 THEN 0 ELSE s.rung - 1
             /\ t.next.probations = 0
<1> DEFINE ladder == LadderAfter(s, "accept", b)
           next   == [s EXCEPT !.trained      = TRUE,
                               !.source       = GeneratorAfter("promote"),
                               !.reverts      = 0,
                               !.inconclusive = 0,
                               !.rung         = ladder.rung,
                               !.probations   = ladder.probations]
<1>1. AcceptTransition(s, b) = Transition("promote", TRUE, FALSE, next)
  BY DEF AcceptTransition
<1>2. /\ ladder.rung = IF s.rung = 0 THEN 0 ELSE s.rung - 1
      /\ ladder.probations = 0
  BY DEF LadderAfter
<1>3. /\ next.source = GeneratorAfter("promote")
      /\ next.reverts = 0 /\ next.inconclusive = 0
      /\ next.rung = ladder.rung /\ next.probations = ladder.probations
  <2> HIDE DEF ladder
  <2> QED
    BY DEF Control
<1> HIDE DEF next, ladder
<1> QED
  BY <1>1, <1>2, <1>3 DEF Transition

LEMMA Continued ==
  ASSUME NEW s \in Control, NEW b \in BOOLEAN
  PROVE  LET t == ContinueTransition(s, b)
             reset == /\ ProbationResetAfter > 0
                      /\ s.inconclusive + 1 >= ProbationResetAfter
         IN  /\ t.action = IF reset THEN "revert_reset" ELSE "probation"
             /\ t.next.source = GeneratorAfter(t.action)
             /\ t.next.reverts = s.reverts
             /\ t.next.inconclusive = IF reset THEN 0 ELSE s.inconclusive + 1
             /\ t.next.rung =
                  IF /\ b /\ s.probations + 1 >= StepUpAfter /\ s.rung # Top
                  THEN s.rung + 1 ELSE s.rung
             /\ t.next.probations =
                  IF b /\ s.probations + 1 < StepUpAfter
                  THEN s.probations + 1 ELSE 0
<1> DEFINE count  == s.inconclusive + 1
           reset  == ProbationResetAfter > 0 /\ count >= ProbationResetAfter
           action == IF reset THEN "revert_reset" ELSE "probation"
           ladder == LadderAfter(s, "continue", b)
           next   == [s EXCEPT !.source       = GeneratorAfter(action),
                               !.inconclusive = IF reset THEN 0 ELSE count,
                               !.rung         = ladder.rung,
                               !.probations   = ladder.probations]
<1>1. ContinueTransition(s, b) = Transition(action, FALSE, reset, next)
  BY DEF ContinueTransition
<1>2. /\ next.source = GeneratorAfter(action)
      /\ next.reverts = s.reverts
      /\ next.inconclusive = IF reset THEN 0 ELSE count
      /\ next.rung = ladder.rung
      /\ next.probations = ladder.probations
  <2> HIDE DEF action, ladder, reset, count
  <2> QED
    BY DEF Control
<1>3. /\ ladder.rung = IF /\ b /\ s.probations + 1 >= StepUpAfter /\ s.rung # Top
                       THEN s.rung + 1 ELSE s.rung
      /\ ladder.probations = IF b /\ s.probations + 1 < StepUpAfter
                             THEN s.probations + 1 ELSE 0
  BY PolicyAssumption DEF LadderAfter, Control
<1> HIDE DEF next, ladder
<1> QED
  BY <1>1, <1>2, <1>3 DEF Transition

LEMMA Rejected ==
  ASSUME NEW s \in Control, NEW b \in BOOLEAN
  PROVE  LET t == RejectTransition(s, b)
             reset == /\ RevertResetAfter > 0
                      /\ s.reverts + 1 >= RevertResetAfter
         IN  /\ t.action = IF reset THEN "revert_reset" ELSE "revert"
             /\ t.next.source = GeneratorAfter(t.action)
             /\ t.next.reverts = IF reset THEN 0 ELSE s.reverts + 1
             /\ t.next.inconclusive = 0
             /\ t.next.rung = s.rung
             /\ t.next.probations = 0
<1> DEFINE count  == s.reverts + 1
           reset  == RevertResetAfter > 0 /\ count >= RevertResetAfter
           action == IF reset THEN "revert_reset" ELSE "revert"
           ladder == LadderAfter(s, "reject", b)
           next   == [s EXCEPT !.source       = GeneratorAfter(action),
                               !.reverts      = IF reset THEN 0 ELSE count,
                               !.inconclusive = 0,
                               !.rung         = ladder.rung,
                               !.probations   = ladder.probations]
<1>1. RejectTransition(s, b) = Transition(action, FALSE, reset, next)
  BY DEF RejectTransition
<1>2. /\ next.source = GeneratorAfter(action)
      /\ next.reverts = IF reset THEN 0 ELSE count
      /\ next.inconclusive = 0
      /\ next.rung = s.rung
      /\ next.probations = 0
  <2>1. ladder = [rung |-> s.rung, probations |-> 0]
    BY DEF LadderAfter
  <2>2. ladder.rung = s.rung /\ ladder.probations = 0
    BY <2>1
  <2> HIDE DEF action, ladder, reset, count
  <2> QED
    BY <2>2 DEF Control
<1> HIDE DEF next
<1> QED
  BY <1>1, <1>2 DEF Transition

(* Which transition a decision makes.                                      *)
LEMMA Decided ==
  ASSUME NEW s, NEW d \in Decisions \cup {"none"}, NEW b,
         d # "none" => ~IsBootstrapEligible(s)
  PROVE  LET t == DecideTransition(s, d, b)
         IN  \/ d = "none"       /\ t = BootstrapTransition(s)
             \/ d = "none"       /\ t = NotScheduledTransition(s)
             \/ d = "suppressed" /\ t = SuppressedTransition(s)
             \/ d = "accept"     /\ t = AcceptTransition(s, b)
             \/ d = "continue"   /\ t = ContinueTransition(s, b)
             \/ d = "reject"     /\ t = RejectTransition(s, b)
BY DEF DecideTransition, GateTransition, Decisions

----------------------------------------------------------------------------
(* What a row with decision d and action a makes of the counters of s.     *)

(* Lost gates: counted by rejects, spent by a reset, cleared by promotions.*)
RevertsMove(s, d, a, c) ==
    \/ /\ d = "reject" /\ a = "revert_reset"
       /\ RevertResetAfter > 0 /\ s.reverts + 1 >= RevertResetAfter
       /\ c.reverts = 0
    \/ /\ d = "reject" /\ a = "revert"
       /\ RevertResetAfter > 0 => s.reverts + 1 < RevertResetAfter
       /\ c.reverts = s.reverts + 1
    \/ /\ d # "reject" /\ a \in {"promote", "bootstrap_promote"}
       /\ c.reverts = 0
    \/ /\ d # "reject" /\ a \in {"not_scheduled", "probation", "revert_reset"}
       /\ c.reverts = s.reverts

(* Probations since a gate was decisive, spent by a reset. *)
InconclusiveMove(s, d, a, c) ==
    \/ /\ d = "continue" /\ a = "revert_reset"
       /\ ProbationResetAfter > 0 /\ s.inconclusive + 1 >= ProbationResetAfter
       /\ c.inconclusive = 0
    \/ /\ d = "continue" /\ a = "probation"
       /\ ProbationResetAfter > 0 => s.inconclusive + 1 < ProbationResetAfter
       /\ c.inconclusive = s.inconclusive + 1
    \/ d = "accept" /\ a = "promote" /\ c.inconclusive = 0
    \/ d = "reject" /\ c.inconclusive = 0
    \/ /\ d \in {"none", "suppressed"} /\ a # "revert_reset"
       /\ c.inconclusive = s.inconclusive

(* The ladder: a counted probation buys, a promotion gives back. *)
LadderMove(s, d, high, c) ==
    \/ /\ d = "continue" /\ high /\ s.probations + 1 >= StepUpAfter
       /\ c.rung \in {s.rung, s.rung + 1} /\ c.probations = 0
    \/ /\ d = "continue" /\ high /\ s.probations + 1 < StepUpAfter
       /\ c.rung = s.rung /\ c.probations = s.probations + 1
    \/ /\ d \in {"continue", "reject"}
       /\ c.rung = s.rung /\ c.probations = 0
    \/ /\ d = "accept"
       /\ c.rung \in {s.rung, s.rung - 1} /\ c.probations = 0
    \/ /\ d \in {"none", "suppressed"}
       /\ c.rung = s.rung /\ c.probations = s.probations

(* The source of the next games follows every action but "not scheduled". *)
SourceMove(s, a, c) ==
    c.source = IF a = "not_scheduled" THEN s.source ELSE GeneratorAfter(a)

Moves(s, d, high, a, c) ==
    /\ RevertsMove(s, d, a, c) /\ InconclusiveMove(s, d, a, c)
    /\ LadderMove(s, d, high, c) /\ SourceMove(s, a, c)

LEMMA NotScheduledMoves ==
  ASSUME NEW s \in Control, NEW b \in BOOLEAN
  PROVE  Moves(s, "none", b, "not_scheduled", s)
BY DEF Moves, RevertsMove, InconclusiveMove, LadderMove, SourceMove

LEMMA DecisionMoves ==
  ASSUME NEW s \in Control, NEW d \in Decisions \cup {"none"}, NEW b \in BOOLEAN,
         d # "none" => ~IsBootstrapEligible(s)
  PROVE  LET t == DecideTransition(s, d, b)
         IN  Moves(s, d, b, t.action, t.next)
<1> DEFINE t == DecideTransition(s, d, b)
<1> USE PolicyAssumption DEF Moves, RevertsMove, InconclusiveMove, LadderMove,
                             SourceMove
<1>1. CASE d = "none" /\ t = BootstrapTransition(s)
  BY <1>1, Bootstrapped DEF Control
<1>2. CASE d = "none" /\ t = NotScheduledTransition(s)
  BY <1>2 DEF NotScheduledTransition, Transition, Control
<1>3. CASE d = "suppressed" /\ t = SuppressedTransition(s)
  BY <1>3 DEF SuppressedTransition, Transition, Control
<1>4. CASE d = "accept" /\ t = AcceptTransition(s, b)
  BY <1>4, Accepted DEF Control
<1>5. CASE d = "continue" /\ t = ContinueTransition(s, b)
  BY <1>5, Continued DEF Control
<1>6. CASE d = "reject" /\ t = RejectTransition(s, b)
  BY <1>6, Rejected DEF Control
<1> HIDE DEF t
<1> QED
  BY <1>1, <1>2, <1>3, <1>4, <1>5, <1>6, Decided DEF t

(* A promotion replaces the best, a reset the learner, and nothing both.   *)
LEMMA RoleMoves ==
  ASSUME NEW s \in Control, NEW d \in Decisions \cup {"none"}, NEW b \in BOOLEAN,
         d # "none" => ~IsBootstrapEligible(s)
  PROVE  LET t == DecideTransition(s, d, b)
         IN  /\ t.replaceBest <=> t.action \in {"promote", "bootstrap_promote"}
             /\ t.resetLearner <=> t.action = "revert_reset"
             /\ t.replaceBest \in BOOLEAN /\ t.resetLearner \in BOOLEAN
<1> DEFINE t == DecideTransition(s, d, b)
<1>1. CASE t = BootstrapTransition(s)
  BY <1>1 DEF BootstrapTransition, Transition
<1>2. CASE t = NotScheduledTransition(s)
  BY <1>2 DEF NotScheduledTransition, Transition
<1>3. CASE t = SuppressedTransition(s)
  BY <1>3 DEF SuppressedTransition, Transition
<1>4. CASE t = AcceptTransition(s, b)
  BY <1>4 DEF AcceptTransition, Transition
<1>5. CASE t = ContinueTransition(s, b)
  <2> DEFINE reset == ProbationResetAfter > 0 /\ s.inconclusive + 1 >= ProbationResetAfter
  <2>1. PICK next : t = Transition(IF reset THEN "revert_reset" ELSE "probation",
                                   FALSE, reset, next)
    BY <1>5 DEF ContinueTransition
  <2>2. reset \in BOOLEAN
    OBVIOUS
  <2> HIDE DEF reset, t
  <2>3. (t.resetLearner <=> reset) /\ t.resetLearner \in BOOLEAN
    BY Zenon, <2>1, <2>2 DEF Transition
  <2>4. /\ t.replaceBest = FALSE
        /\ t.action = IF reset THEN "revert_reset" ELSE "probation"
    BY <2>1, <2>2 DEF Transition
  <2>5. t.action = "revert_reset" <=> reset
    BY <2>2, <2>4
  <2>6. t.action \notin {"promote", "bootstrap_promote"}
    BY <2>2, <2>4
  <2> QED
    BY Zenon, <2>3, <2>4, <2>5, <2>6 DEF t
<1>6. CASE t = RejectTransition(s, b)
  <2> DEFINE reset == RevertResetAfter > 0 /\ s.reverts + 1 >= RevertResetAfter
  <2>1. PICK next : t = Transition(IF reset THEN "revert_reset" ELSE "revert",
                                   FALSE, reset, next)
    BY <1>6 DEF RejectTransition
  <2>2. reset \in BOOLEAN
    OBVIOUS
  <2> HIDE DEF reset, t
  <2>3. (t.resetLearner <=> reset) /\ t.resetLearner \in BOOLEAN
    BY Zenon, <2>1, <2>2 DEF Transition
  <2>4. /\ t.replaceBest = FALSE
        /\ t.action = IF reset THEN "revert_reset" ELSE "revert"
    BY <2>1, <2>2 DEF Transition
  <2>5. t.action = "revert_reset" <=> reset
    BY <2>2, <2>4
  <2>6. t.action \notin {"promote", "bootstrap_promote"}
    BY <2>2, <2>4
  <2> QED
    BY Zenon, <2>3, <2>4, <2>5, <2>6 DEF t
<1> HIDE DEF t
<1> QED
  BY <1>1, <1>2, <1>3, <1>4, <1>5, <1>6, Decided DEF t

(* The network counts as trained from the first promotion on.              *)
LEMMA TrainedMoves ==
  ASSUME NEW s \in Control, NEW d \in Decisions \cup {"none"}, NEW b \in BOOLEAN,
         d # "none" => ~IsBootstrapEligible(s)
  PROVE  LET t == DecideTransition(s, d, b)
         IN  t.next.trained <=> s.trained \/ t.replaceBest
<1> DEFINE t == DecideTransition(s, d, b)
<1>1. CASE t = BootstrapTransition(s)
  <2>1. t.next = [s EXCEPT !.trained = TRUE,
                           !.source  = GeneratorAfter("bootstrap_promote"),
                           !.reverts = 0]
    BY <1>1 DEF BootstrapTransition, Transition
  <2>2. t.next.trained = TRUE
    <3> HIDE DEF t
    <3> QED
      BY <2>1 DEF Control
  <2>3. t.replaceBest = TRUE
    BY <1>1 DEF BootstrapTransition, Transition
  <2> QED
    BY <2>2, <2>3
<1>2. CASE t = NotScheduledTransition(s)
  BY <1>2 DEF NotScheduledTransition, Transition
<1>3. CASE t = SuppressedTransition(s)
  BY <1>3 DEF SuppressedTransition, Transition, Control
<1>4. CASE t = AcceptTransition(s, b)
  <2> DEFINE ladder == LadderAfter(s, "accept", b)
  <2>1. t.next = [s EXCEPT !.trained      = TRUE,
                           !.source       = GeneratorAfter("promote"),
                           !.reverts      = 0,
                           !.inconclusive = 0,
                           !.rung         = ladder.rung,
                           !.probations   = ladder.probations]
    BY <1>4 DEF AcceptTransition, Transition
  <2>2. t.next.trained = TRUE
    <3> HIDE DEF ladder, t
    <3> QED
      BY <2>1 DEF Control
  <2>3. t.replaceBest = TRUE
    BY <1>4 DEF AcceptTransition, Transition
  <2> QED
    BY <2>2, <2>3
<1>5. CASE t = ContinueTransition(s, b)
  <2> DEFINE count  == s.inconclusive + 1
             reset  == ProbationResetAfter > 0 /\ count >= ProbationResetAfter
             source == GeneratorAfter(IF reset THEN "revert_reset" ELSE "probation")
             left   == IF reset THEN 0 ELSE count
             ladder == LadderAfter(s, "continue", b)
  <2>1. t.next = [s EXCEPT !.source       = source,
                           !.inconclusive = left,
                           !.rung         = ladder.rung,
                           !.probations   = ladder.probations]
    BY <1>5 DEF ContinueTransition, Transition
  <2>2. t.next.trained = s.trained
    <3> HIDE DEF source, left, ladder, t
    <3> QED
      BY <2>1 DEF Control
  <2>3. t.replaceBest = FALSE
    BY <1>5 DEF ContinueTransition, Transition
  <2> QED
    BY <2>2, <2>3
<1>6. CASE t = RejectTransition(s, b)
  <2> DEFINE count  == s.reverts + 1
             reset  == RevertResetAfter > 0 /\ count >= RevertResetAfter
             source == GeneratorAfter(IF reset THEN "revert_reset" ELSE "revert")
             left   == IF reset THEN 0 ELSE count
             ladder == LadderAfter(s, "reject", b)
  <2>1. t.next = [s EXCEPT !.source       = source,
                           !.reverts      = left,
                           !.inconclusive = 0,
                           !.rung         = ladder.rung,
                           !.probations   = ladder.probations]
    BY <1>6 DEF RejectTransition, Transition
  <2>2. t.next.trained = s.trained
    <3> HIDE DEF source, left, ladder, t
    <3> QED
      BY <2>1 DEF Control
  <2>3. t.replaceBest = FALSE
    BY <1>6 DEF RejectTransition, Transition
  <2> QED
    BY <2>2, <2>3
<1> HIDE DEF t
<1> QED
  BY <1>1, <1>2, <1>3, <1>4, <1>5, <1>6, Decided DEF t
==============================================================================

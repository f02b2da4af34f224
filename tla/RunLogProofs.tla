----------------------------- MODULE RunLogProofs -----------------------------
(***************************************************************************)
(* What every log of a training run says of the gates that wrote it, for   *)
(* every policy and however long the log: learners are thrown away exactly *)
(* when they have lost often enough, rungs are paid for, and games come    *)
(* from the checkpoint the gates have chosen.  The properties recount the  *)
(* rows, the policy keeps counters; the inductive invariant, IInv, says    *)
(* that the counters of the last row are the counts.                       *)
(***************************************************************************)
EXTENDS RunLog, GatePolicyProofs, FiniteSetTheorems

----------------------------------------------------------------------------
(* The inductive invariant.                                                *)

Entry == [learner : Nat, best : Nat, generator : Nat,
          decision : Decisions \cup {"none"}, action : Actions,
          control : Control]

(* Rows with this decision that no row up to the last one has settled. *)
Open(decision, Settles(_)) ==
    {j \in DOMAIN log : /\ log[j].decision = decision
                        /\ \A k \in j..Len(log) : ~Settles(k)}

(* The counters hold what the rows say, and never reach their limit. *)
TallyInv ==
    /\ Cardinality(Open("reject", SettlesReverts)) = Previous.control.reverts
    /\ Cardinality(Open("continue", SettlesProbations))
         = Previous.control.inconclusive
    /\ RevertResetAfter > 0 => Previous.control.reverts < RevertResetAfter
    /\ ProbationResetAfter > 0 =>
         Previous.control.inconclusive < ProbationResetAfter

(* The probations that count towards the next rung are the evidence of the *)
(* rows from some row on, and all of them were played on this rung.        *)
EvidenceFrom(k) == {j \in k..Len(log) : Counted(j)}

Backed(k) ==
    /\ Cardinality(EvidenceFrom(k)) = Previous.control.probations
    /\ \A j \in EvidenceFrom(k) :
         /\ log[j].decision = "continue"
         /\ j > FloorGames
         /\ Before(j).control.rung = Previous.control.rung

LadderInv ==
    /\ \E k \in 1..Len(log) + 1 : Backed(k)
    /\ Previous.control.probations < StepUpAfter

(* The source the policy remembers is what the last gate decided. *)
Acted == {j \in DOMAIN log : log[j].action # "not_scheduled"}

Reverted ==
    /\ Acted # {}
    /\ LET last == CHOOSE j \in Acted : \A k \in Acted : k <= j
       IN  log[last].action \in {"revert", "revert_reset"}

SourceInv ==
    Mode = "soft_gate" =>
      Previous.control.source = IF Reverted THEN "current_best" ELSE "latest"

IInv == /\ log \in Seq(Entry)
        /\ TallyInv /\ LadderInv /\ SourceInv
        /\ ResetsAreExact /\ RungsAreEarned /\ GeneratorFollowsGates

----------------------------------------------------------------------------
(* The row that is appended.                                               *)

LEMMA LogFacts ==
  ASSUME log \in Seq(Entry)
  PROVE  /\ Len(log) \in Nat /\ DOMAIN log = 1..Len(log)
         /\ \A i \in 1..Len(log) : log[i] \in Entry
         /\ Previous = Before(Len(log) + 1) /\ Previous \in Entry
         /\ Len(log) = 0 => Previous = Fresh
         /\ Len(log) # 0 => Previous = log[Len(log)]
<1>1. Len(log) \in Nat /\ DOMAIN log = 1..Len(log)
  OBVIOUS
<1>2. \A i \in 1..Len(log) : log[i] \in Entry
  OBVIOUS
<1>3. Previous = IF Len(log) = 0 THEN Fresh ELSE log[Len(log)]
  BY <1>1 DEF Previous, Before
<1>4. InitialState \in Control
  BY PolicyAssumption DEF InitialState, Control, Sources
<1>5. Fresh \in Entry
  BY <1>4 DEF Fresh, Entry, Actions
<1> QED
  BY <1>1, <1>2, <1>3, <1>5 DEF Previous

(* Whatever an iteration does, it appends one row, whose checkpoints are   *)
(* those of the row before or the one just trained, and whose counters     *)
(* follow from those of the row before.                                    *)
Appended(row) ==
    /\ Len(log) < MaxRows
    /\ log' = Append(log, row)
    /\ {row.learner, row.best}
         \subseteq {Previous.learner, Previous.best, Len(log) + 1}
    /\ row.generator = Generator(Previous)
    /\ Moves(Previous.control, row.decision, MayStepUp(log), row.action,
             row.control)

LEMMA OneRow ==
  ASSUME log \in Seq(Entry), Next
  PROVE  \E row \in Entry : Appended(row)
<1>1. /\ Previous.learner \in Nat /\ Previous.best \in Nat
      /\ Previous.control \in Control /\ Len(log) \in Nat
  BY LogFacts DEF Entry
<1>2. MayStepUp(log) \in BOOLEAN
  BY DEF MayStepUp
<1>3. Generator(Previous) \in Nat
  BY <1>1 DEF Generator
<1>4. CASE Warmup
  <2>1. PICK p \in Entry : p = Previous
    BY LogFacts
  <2>2. PICK row : row = [p EXCEPT !.generator = Generator(Previous),
                                   !.decision  = "none",
                                   !.action    = "not_scheduled"]
    OBVIOUS
  <2>3. /\ row \in Entry
        /\ row.generator = Generator(Previous) /\ row.decision = "none"
        /\ row.action = "not_scheduled" /\ row.control = Previous.control
        /\ row.learner = Previous.learner /\ row.best = Previous.best
    BY <1>3, <2>1, <2>2 DEF Entry, Actions
  <2>4. log' = Append(log, row) /\ Len(log) < MaxRows
    BY <1>4, <2>1, <2>2 DEF Warmup
  <2>5. Moves(Previous.control, row.decision, MayStepUp(log), row.action,
              row.control)
    BY <1>1, <1>2, <2>3, NotScheduledMoves
  <2> QED
    BY <2>3, <2>4, <2>5 DEF Appended
<1>5. ASSUME NEW d \in Decisions \cup {"none"}, Iterate(d),
             d # "none" => ~IsBootstrapEligible(Previous.control)
      PROVE  \E row \in Entry : Appended(row)
  <2> DEFINE t == DecideTransition(Previous.control, d, MayStepUp(log))
             best == IF t.replaceBest THEN Len(log) + 1 ELSE Previous.best
             row == [learner   |-> IF t.resetLearner THEN best ELSE Len(log) + 1,
                     best      |-> best,
                     generator |-> Generator(Previous),
                     decision  |-> d,
                     action    |-> t.action,
                     control   |-> t.next]
  <2>1. log' = Append(log, row) /\ Len(log) < MaxRows
    BY <1>5 DEF Iterate
  <2>2. Moves(Previous.control, d, MayStepUp(log), t.action, t.next)
    BY <1>1, <1>2, <1>5, DecisionMoves
  <2>3. t.action \in Actions /\ t.next \in Control
    BY <1>1, <1>2, PolicyType DEF Transitions
  <2> HIDE DEF t
  <2>4. row \in Entry
    BY <1>1, <1>3, <2>3 DEF Entry
  <2>5. /\ row.generator = Generator(Previous) /\ row.decision = d
        /\ row.action = t.action /\ row.control = t.next
        /\ {row.learner, row.best}
             \subseteq {Previous.learner, Previous.best, Len(log) + 1}
    OBVIOUS
  <2> HIDE DEF row
  <2> QED
    BY <2>1, <2>2, <2>4, <2>5 DEF Appended
<1>6. CASE Ungated
  BY <1>5, <1>6 DEF Ungated
<1>7. CASE Gated
  BY <1>5, <1>7 DEF Gated, PromotionScheduled
<1> QED
  BY <1>4, <1>6, <1>7 DEF Next

(* The rows that were there stay as they are.                              *)
LEMMA Grown ==
  ASSUME log \in Seq(Entry), NEW row \in Entry, Appended(row)
  PROVE  /\ log' \in Seq(Entry) /\ Len(log') = Len(log) + 1
         /\ DOMAIN log' = 1..Len(log) + 1
         /\ \A i \in 1..Len(log) : log'[i] = log[i]
         /\ log'[Len(log) + 1] = row
         /\ Previous' = row
         /\ \A i \in 1..Len(log) + 1 : Before(i)' = Before(i)
<1>1. log' = Append(log, row) /\ Len(log) \in Nat
  BY DEF Appended
<1>2. /\ log' \in Seq(Entry) /\ Len(log') = Len(log) + 1
      /\ DOMAIN log' = 1..Len(log) + 1
      /\ \A i \in 1..Len(log) : log'[i] = log[i]
      /\ log'[Len(log) + 1] = row
  BY <1>1
<1>3. \A i \in 1..Len(log) + 1 : Before(i)' = Before(i)
  BY <1>1, <1>2 DEF Before, Fresh
<1>4. Previous' = row
  BY <1>1, <1>2 DEF Previous, Before
<1> QED
  BY <1>1, <1>2, <1>3, <1>4

----------------------------------------------------------------------------
(* The counts.                                                             *)

(* What settles the evidence before it, by the row that does. *)
EndsReverts(row) ==
    \/ row.action \in {"promote", "bootstrap_promote"}
    \/ row.decision = "reject" /\ row.action = "revert_reset"

EndsProbations(row) ==
    \/ row.decision \in {"accept", "reject"}
    \/ row.decision = "continue" /\ row.action = "revert_reset"

(* Rejects that stand at a row, and those it leaves open.                  *)
LEMMA OpenReverts ==
  ASSUME IInv, NEW row \in Entry, Appended(row), NEW n \in Nat, n = Len(log)
  PROVE  /\ Standing(n + 1, "reject", SettlesReverts)'
              = Open("reject", SettlesReverts)
                  \cup IF row.decision = "reject" THEN {n + 1} ELSE {}
         /\ Open("reject", SettlesReverts)'
              = IF EndsReverts(row)
                THEN {} ELSE Standing(n + 1, "reject", SettlesReverts)'
         /\ IsFiniteSet(Open("reject", SettlesReverts))
         /\ n + 1 \notin Open("reject", SettlesReverts)
<1>1. /\ log \in Seq(Entry) /\ DOMAIN log = 1..n
      /\ \A i \in 1..n : log[i] \in Entry
  BY LogFacts DEF IInv
<1>2. /\ Len(log') = n + 1 /\ DOMAIN log' = 1..n + 1
      /\ \A i \in 1..n : log'[i] = log[i]
      /\ log'[n + 1] = row
  BY Grown DEF IInv
<1>3. /\ \A k \in 1..n : SettlesReverts(k)' <=> SettlesReverts(k)
      /\ SettlesReverts(n + 1)' <=> EndsReverts(row)
  BY <1>2 DEF SettlesReverts, EndsReverts
<1>4. Standing(n + 1, "reject", SettlesReverts)'
        = {j \in 1..n + 1 : /\ log'[j].decision = "reject"
                            /\ \A k \in j..n : ~SettlesReverts(k)'}
  BY DEF Standing
<1>5. Open("reject", SettlesReverts)
        = {j \in 1..n : /\ log[j].decision = "reject"
                        /\ \A k \in j..n : ~SettlesReverts(k)}
  BY <1>1 DEF Open
<1>6. Open("reject", SettlesReverts)'
        = {j \in 1..n + 1 : /\ log'[j].decision = "reject"
                            /\ \A k \in j..n + 1 : ~SettlesReverts(k)'}
  BY <1>2 DEF Open
<1> DEFINE open  == Open("reject", SettlesReverts)
           stand == Standing(n + 1, "reject", SettlesReverts)'
           after == Open("reject", SettlesReverts)'
           opens(j) == /\ log[j].decision = "reject"
                       /\ \A k \in j..n : ~SettlesReverts(k)
<1>7. \A j \in 1..n : j \in open <=> opens(j)
  BY <1>5
<1>8. open \subseteq 1..n /\ stand \subseteq 1..n + 1 /\ after \subseteq 1..n + 1
  BY <1>4, <1>5, <1>6
<1>9. \A j \in 1..n : j \in stand <=> opens(j)
  <2> TAKE j \in 1..n
  <2>1. j..n \subseteq 1..n /\ j \in 1..n + 1
    OBVIOUS
  <2> QED
    BY <1>2, <1>3, <1>4, <2>1
<1>10. n + 1 \in stand <=> row.decision = "reject"
  <2>1. (n + 1..n) = {} /\ n + 1 \in 1..n + 1
    OBVIOUS
  <2> QED
    BY <1>2, <1>4, <2>1
<1>11. ASSUME NEW j \in 1..n + 1
       PROVE  j \in after <=> j \in stand /\ ~EndsReverts(row)
  <2>1. (j..n + 1) = (j..n) \cup {n + 1}
    OBVIOUS
  <2> QED
    BY <1>3, <1>4, <1>6, <2>1
<1>12. IsFiniteSet(open) /\ n + 1 \notin open
  <2> HIDE DEF open
  <2>1. IsFiniteSet(1..n)
    BY FS_Interval
  <2>2. IsFiniteSet(open)
    BY Zenon, <1>8, <2>1, FS_Subset
  <2> QED
    BY <1>8, <2>2
<1> HIDE DEF open, stand, after, opens
<1>13. /\ stand = open \cup IF row.decision = "reject" THEN {n + 1} ELSE {}
       /\ after = IF EndsReverts(row) THEN {} ELSE stand
  BY <1>7, <1>8, <1>9, <1>10, <1>11
<1> QED
  BY <1>12, <1>13 DEF open, stand, after

(* The same for probations.                                                *)
LEMMA OpenProbations ==
  ASSUME IInv, NEW row \in Entry, Appended(row), NEW n \in Nat, n = Len(log)
  PROVE  /\ Standing(n + 1, "continue", SettlesProbations)'
              = Open("continue", SettlesProbations)
                  \cup IF row.decision = "continue" THEN {n + 1} ELSE {}
         /\ Open("continue", SettlesProbations)'
              = IF EndsProbations(row)
                THEN {} ELSE Standing(n + 1, "continue", SettlesProbations)'
         /\ IsFiniteSet(Open("continue", SettlesProbations))
         /\ n + 1 \notin Open("continue", SettlesProbations)
<1>1. /\ log \in Seq(Entry) /\ DOMAIN log = 1..n
      /\ \A i \in 1..n : log[i] \in Entry
  BY LogFacts DEF IInv
<1>2. /\ Len(log') = n + 1 /\ DOMAIN log' = 1..n + 1
      /\ \A i \in 1..n : log'[i] = log[i]
      /\ log'[n + 1] = row
  BY Grown DEF IInv
<1>3. /\ \A k \in 1..n : SettlesProbations(k)' <=> SettlesProbations(k)
      /\ SettlesProbations(n + 1)' <=> EndsProbations(row)
  BY <1>2 DEF SettlesProbations, EndsProbations
<1>4. Standing(n + 1, "continue", SettlesProbations)'
        = {j \in 1..n + 1 : /\ log'[j].decision = "continue"
                            /\ \A k \in j..n : ~SettlesProbations(k)'}
  BY DEF Standing
<1>5. Open("continue", SettlesProbations)
        = {j \in 1..n : /\ log[j].decision = "continue"
                        /\ \A k \in j..n : ~SettlesProbations(k)}
  BY <1>1 DEF Open
<1>6. Open("continue", SettlesProbations)'
        = {j \in 1..n + 1 : /\ log'[j].decision = "continue"
                            /\ \A k \in j..n + 1 : ~SettlesProbations(k)'}
  BY <1>2 DEF Open
<1> DEFINE open  == Open("continue", SettlesProbations)
           stand == Standing(n + 1, "continue", SettlesProbations)'
           after == Open("continue", SettlesProbations)'
           opens(j) == /\ log[j].decision = "continue"
                       /\ \A k \in j..n : ~SettlesProbations(k)
<1>7. \A j \in 1..n : j \in open <=> opens(j)
  BY <1>5
<1>8. open \subseteq 1..n /\ stand \subseteq 1..n + 1 /\ after \subseteq 1..n + 1
  BY <1>4, <1>5, <1>6
<1>9. \A j \in 1..n : j \in stand <=> opens(j)
  <2> TAKE j \in 1..n
  <2>1. j..n \subseteq 1..n /\ j \in 1..n + 1
    OBVIOUS
  <2> QED
    BY <1>2, <1>3, <1>4, <2>1
<1>10. n + 1 \in stand <=> row.decision = "continue"
  <2>1. (n + 1..n) = {} /\ n + 1 \in 1..n + 1
    OBVIOUS
  <2> QED
    BY <1>2, <1>4, <2>1
<1>11. ASSUME NEW j \in 1..n + 1
       PROVE  j \in after <=> j \in stand /\ ~EndsProbations(row)
  <2>1. (j..n + 1) = (j..n) \cup {n + 1}
    OBVIOUS
  <2> QED
    BY <1>3, <1>4, <1>6, <2>1
<1>12. IsFiniteSet(open) /\ n + 1 \notin open
  <2> HIDE DEF open
  <2>1. IsFiniteSet(1..n)
    BY FS_Interval
  <2>2. IsFiniteSet(open)
    BY Zenon, <1>8, <2>1, FS_Subset
  <2> QED
    BY <1>8, <2>2
<1> HIDE DEF open, stand, after, opens
<1>13. /\ stand = open \cup IF row.decision = "continue" THEN {n + 1} ELSE {}
       /\ after = IF EndsProbations(row) THEN {} ELSE stand
  BY <1>7, <1>8, <1>9, <1>10, <1>11
<1> QED
  BY <1>12, <1>13 DEF open, stand, after


(* The counters keep the counts, and a reset falls on the row that brings  *)
(* its count to the limit.                                                 *)
LEMMA Tallies ==
  ASSUME IInv, NEW row \in Entry, Appended(row)
  PROVE  TallyInv' /\ ResetsAreExact'
<1>1. PICK n \in Nat : n = Len(log)
  BY LogFacts DEF IInv
<1>2. PICK s \in Control : s = Previous.control
  BY LogFacts DEF IInv, Entry
<1> DEFINE opened   == Open("reject", SettlesReverts)
           stand    == Standing(n + 1, "reject", SettlesReverts)'
           after    == Open("reject", SettlesReverts)'
           openedP  == Open("continue", SettlesProbations)
           standP   == Standing(n + 1, "continue", SettlesProbations)'
           afterP   == Open("continue", SettlesProbations)'
<1>3. /\ s.reverts \in Nat /\ s.inconclusive \in Nat
      /\ RevertResetAfter \in Nat /\ ProbationResetAfter \in Nat
  BY PolicyAssumption DEF Control
<1>4. /\ RevertsMove(s, row.decision, row.action, row.control)
      /\ InconclusiveMove(s, row.decision, row.action, row.control)
  BY <1>2 DEF Appended, Moves
<1>5. /\ Cardinality(opened) = s.reverts
      /\ Cardinality(openedP) = s.inconclusive
      /\ RevertResetAfter > 0 => s.reverts < RevertResetAfter
      /\ ProbationResetAfter > 0 => s.inconclusive < ProbationResetAfter
  BY <1>2 DEF IInv, TallyInv
<1>6. /\ stand = opened \cup IF row.decision = "reject" THEN {n + 1} ELSE {}
      /\ after = IF EndsReverts(row) THEN {} ELSE stand
      /\ IsFiniteSet(opened) /\ n + 1 \notin opened
  BY <1>1, OpenReverts
<1>7. /\ standP = openedP \cup IF row.decision = "continue" THEN {n + 1} ELSE {}
      /\ afterP = IF EndsProbations(row) THEN {} ELSE standP
      /\ IsFiniteSet(openedP) /\ n + 1 \notin openedP
  BY <1>1, OpenProbations
<1> HIDE DEF opened, stand, after, openedP, standP, afterP
<1>8. Cardinality(stand) = IF row.decision = "reject" THEN s.reverts + 1
                                                      ELSE s.reverts
  <2>1. CASE row.decision = "reject"
    BY <1>5, <1>6, <2>1, FS_AddElement
  <2>2. CASE row.decision # "reject"
    BY <1>5, <1>6, <2>2
  <2> QED
    BY <2>1, <2>2
<1>9. Cardinality(standP) = IF row.decision = "continue" THEN s.inconclusive + 1
                                                         ELSE s.inconclusive
  <2>1. CASE row.decision = "continue"
    BY <1>5, <1>7, <2>1, FS_AddElement
  <2>2. CASE row.decision # "continue"
    BY <1>5, <1>7, <2>2
  <2> QED
    BY <2>1, <2>2
<1>10. /\ Cardinality(after) = IF EndsReverts(row) THEN 0 ELSE Cardinality(stand)
       /\ Cardinality(afterP) = IF EndsProbations(row) THEN 0
                                                       ELSE Cardinality(standP)
  BY <1>6, <1>7, FS_EmptySet
<1>11. TallyInv'
  <2>1. Previous' = row
    BY Grown DEF IInv
  <2>2. /\ Cardinality(after) = row.control.reverts
        /\ RevertResetAfter > 0 => row.control.reverts < RevertResetAfter
    BY <1>3, <1>4, <1>5, <1>8, <1>10 DEF RevertsMove, EndsReverts
  <2>3. /\ Cardinality(afterP) = row.control.inconclusive
        /\ ProbationResetAfter > 0 =>
             row.control.inconclusive < ProbationResetAfter
    BY <1>3, <1>4, <1>5, <1>9, <1>10 DEF InconclusiveMove, EndsProbations
  <2> QED
    BY <2>1, <2>2, <2>3 DEF TallyInv, after, afterP
<1>12. row.action = "revert_reset" <=>
         \/ row.decision = "reject" /\ Cardinality(stand) = RevertResetAfter
         \/ row.decision = "continue" /\ Cardinality(standP) = ProbationResetAfter
  BY <1>3, <1>4, <1>5, <1>8, <1>9 DEF RevertsMove, InconclusiveMove
<1>13. ResetsAreExact'
  <2>1. /\ DOMAIN log = 1..n /\ DOMAIN log' = 1..n + 1
        /\ \A i \in 1..n : log'[i] = log[i]
        /\ log'[n + 1] = row
    BY <1>1, LogFacts, Grown DEF IInv
  <2>2. \A i \in 1..n :
          /\ Standing(i, "reject", SettlesReverts)'
               = Standing(i, "reject", SettlesReverts)
          /\ Standing(i, "continue", SettlesProbations)'
               = Standing(i, "continue", SettlesProbations)
    BY <2>1 DEF Standing, SettlesReverts, SettlesProbations
  <2>3. \A i \in 1..n :
          log'[i].action = "revert_reset" <=>
            \/ /\ log'[i].decision = "reject"
               /\ Cardinality(Standing(i, "reject", SettlesReverts)')
                    = RevertResetAfter
            \/ /\ log'[i].decision = "continue"
               /\ Cardinality(Standing(i, "continue", SettlesProbations)')
                    = ProbationResetAfter
    BY <2>1, <2>2 DEF IInv, ResetsAreExact
  <2> QED
    BY <1>1, <1>12, <2>1, <2>3 DEF ResetsAreExact, stand, standP
<1> QED
  BY <1>11, <1>13
----------------------------------------------------------------------------
(* The ladder.                                                             *)

(* A row adds itself to the evidence, if it is some.                       *)
LEMMA Evidence ==
  ASSUME IInv, NEW row \in Entry, Appended(row), NEW n \in Nat, n = Len(log),
         NEW k \in 1..n + 1
  PROVE  /\ EvidenceFrom(k)'
              = EvidenceFrom(k)
                  \cup IF row.decision \in {"accept", "continue", "reject"}
                       THEN {n + 1} ELSE {}
         /\ EvidenceFrom(k) \subseteq 1..n
         /\ IsFiniteSet(EvidenceFrom(k)) /\ n + 1 \notin EvidenceFrom(k)
<1>1. /\ Len(log') = n + 1
      /\ \A i \in 1..n : log'[i] = log[i]
      /\ log'[n + 1] = row
  BY Grown DEF IInv
<1>2. EvidenceFrom(k) = {j \in k..n : Counted(j)}
  BY DEF EvidenceFrom
<1>3. EvidenceFrom(k)' = {j \in k..n + 1 : Counted(j)'}
  BY <1>1 DEF EvidenceFrom
<1>4. /\ \A j \in k..n : Counted(j)' <=> Counted(j)
      /\ Counted(n + 1)' <=> row.decision \in {"accept", "continue", "reject"}
  BY <1>1 DEF Counted
<1>5. /\ (k..n + 1) = (k..n) \cup {n + 1} /\ n + 1 \notin k..n
      /\ (k..n) \subseteq 1..n
  OBVIOUS
<1> DEFINE E == EvidenceFrom(k)
<1>6. E \subseteq 1..n /\ n + 1 \notin E
  BY <1>2, <1>5
<1> HIDE DEF E
<1>7. IsFiniteSet(E)
  <2>1. IsFiniteSet(1..n)
    BY FS_Interval
  <2> QED
    BY Zenon, <1>6, <2>1, FS_Subset
<1>8. E' = E \cup IF row.decision \in {"accept", "continue", "reject"}
                  THEN {n + 1} ELSE {}
  BY <1>2, <1>3, <1>4, <1>5 DEF E
<1> QED
  BY <1>6, <1>7, <1>8 DEF E

(* Probations are held on one rung, above the floor, until the count buys  *)
(* the next rung or a gate that is no probation spends them.               *)
LEMMA Ladder ==
  ASSUME IInv, NEW row \in Entry, Appended(row)
  PROVE  LadderInv' /\ RungsAreEarned'
<1>1. PICK n \in Nat : n = Len(log)
  BY LogFacts DEF IInv
<1>2. PICK s \in Control : s = Previous.control
  BY LogFacts DEF IInv, Entry
<1>3. /\ Len(log') = n + 1 /\ DOMAIN log' = 1..n + 1 /\ DOMAIN log = 1..n
      /\ \A i \in 1..n : log'[i] = log[i]
      /\ log'[n + 1] = row
      /\ Previous' = row
      /\ \A i \in 1..n + 1 : Before(i)' = Before(i)
      /\ Before(n + 1) = Previous
  BY <1>1, Grown, LogFacts DEF IInv
<1>4. LadderMove(s, row.decision, MayStepUp(log), row.control)
  BY <1>2 DEF Appended, Moves
<1>5. MayStepUp(log) => n + 1 > FloorGames
  BY <1>1, PolicyAssumption DEF MayStepUp
<1>6. /\ s.probations \in Nat /\ s.rung \in Int /\ StepUpAfter \in Nat \ {0}
      /\ s.probations < StepUpAfter /\ row.control.rung \in Int
  BY <1>2, PolicyAssumption DEF IInv, LadderInv, Control, Entry
<1>7. PICK k \in 1..n + 1 : Backed(k)
  BY <1>1 DEF IInv, LadderInv
<1>8. /\ Cardinality(EvidenceFrom(k)) = s.probations
      /\ \A j \in EvidenceFrom(k) :
           /\ log[j].decision = "continue"
           /\ j > FloorGames
           /\ Before(j).control.rung = s.rung
  BY <1>2, <1>7 DEF Backed
<1>9. /\ IsFiniteSet(EvidenceFrom(k)) /\ n + 1 \notin EvidenceFrom(k)
      /\ EvidenceFrom(k) \subseteq 1..n
  BY <1>1, Evidence
<1>10. ASSUME row.decision = "continue", MayStepUp(log)
       PROVE  /\ Cardinality(EvidenceFrom(k)') = s.probations + 1
              /\ \A j \in EvidenceFrom(k)' :
                   /\ log'[j].decision = "continue"
                   /\ j > FloorGames
                   /\ Before(j)'.control.rung = s.rung
  <2>1. EvidenceFrom(k)' = EvidenceFrom(k) \cup {n + 1}
    BY <1>1, <1>10, Evidence
  <2>2. Cardinality(EvidenceFrom(k)') = s.probations + 1
    BY <1>8, <1>9, <2>1, FS_AddElement
  <2> QED
    BY <1>2, <1>3, <1>5, <1>8, <1>9, <1>10, <2>1, <2>2
<1>11. LadderInv'
  <2>1. CASE row.control.probations = 0
    <3>1. EvidenceFrom(n + 2)' = {}
      BY <1>3 DEF EvidenceFrom
    <3>2. Backed(n + 2)'
      BY <1>3, <2>1, <3>1, FS_EmptySet DEF Backed
    <3> QED
      BY <1>3, <1>6, <2>1, <3>2 DEF LadderInv
  <2>2. CASE /\ row.decision = "continue" /\ MayStepUp(log)
             /\ s.probations + 1 < StepUpAfter
             /\ row.control.rung = s.rung
             /\ row.control.probations = s.probations + 1
    <3>1. Backed(k)'
      BY <1>3, <1>10, <2>2 DEF Backed
    <3> QED
      BY <1>3, <2>2, <3>1 DEF LadderInv
  <2>3. CASE /\ row.decision \in {"none", "suppressed"}
             /\ row.control.rung = s.rung
             /\ row.control.probations = s.probations
    <3>1. EvidenceFrom(k)' = EvidenceFrom(k)
      BY <1>1, <2>3, Evidence
    <3>2. Backed(k)'
      BY <1>3, <1>8, <1>9, <2>3, <3>1 DEF Backed
    <3> QED
      BY <1>3, <1>6, <2>3, <3>2 DEF LadderInv
  <2> QED
    BY <1>4, <2>1, <2>2, <2>3 DEF LadderMove
<1>12. RungsAreEarned'
  <2> DEFINE pays(m, i) ==
               LET e == {j \in m..i : Counted(j)}
               IN  /\ Cardinality(e) = StepUpAfter
                   /\ \A j \in e :
                        /\ log[j].decision = "continue"
                        /\ j > FloorGames
                        /\ Before(j).control.rung = Before(i).control.rung
             earned(i) == \E m \in 1..i : pays(m, i)
             fair(i) ==
               LET rung == log[i].control.rung
                   old  == Before(i).control.rung
               IN  /\ rung > old => rung = old + 1 /\ earned(i)
                   /\ rung < old => log[i].decision = "accept" /\ rung = old - 1
  <2>1. RungsAreEarned => \A i \in DOMAIN log : fair(i)
    BY DEF RungsAreEarned
  <2>2. (\A i \in DOMAIN log : fair(i))' => RungsAreEarned'
    BY DEF RungsAreEarned
  <2>3. ASSUME NEW i \in 1..n
        PROVE  fair(i)'
    <3>1. \A j \in 1..i :
            /\ log'[j] = log[j] /\ Before(j)' = Before(j)
            /\ Counted(j)' <=> Counted(j)
      BY <1>3 DEF Counted
    <3>2. fair(i)
      BY <1>3, <2>1 DEF IInv
    <3>3. ASSUME earned(i)
          PROVE  earned(i)'
      <4>1. PICK m \in 1..i : pays(m, i)
        BY <3>3
      <4>2. {j \in m..i : Counted(j)'} = {j \in m..i : Counted(j)}
        BY <3>1
      <4>0. {j \in m..i : Counted(j)} \in SUBSET (1..i)
        OBVIOUS
      <4>3. PICK e \in SUBSET (1..i) : e = {j \in m..i : Counted(j)}
        BY <4>0
      <4>4. /\ Cardinality(e) = StepUpAfter
            /\ \A j \in e :
                 /\ log[j].decision = "continue"
                 /\ j > FloorGames
                 /\ Before(j).control.rung = Before(i).control.rung
        BY <4>1, <4>3
      <4>5. /\ Cardinality(e) = StepUpAfter
            /\ \A j \in e :
                 /\ log'[j].decision = "continue"
                 /\ j > FloorGames
                 /\ Before(j)'.control.rung = Before(i)'.control.rung
        BY <3>1, <4>4
      <4>6. pays(m, i)'
        BY <4>2, <4>3, <4>5
      <4> HIDE DEF pays
      <4> QED
        BY <4>6
    <3> HIDE DEF earned
    <3> QED
      BY <3>1, <3>2, <3>3
  <2>4. fair(n + 1)'
    <3>1. ASSUME row.control.rung > s.rung
          PROVE  row.control.rung = s.rung + 1 /\ earned(n + 1)'
      <4>1. /\ row.decision = "continue" /\ MayStepUp(log)
            /\ s.probations + 1 = StepUpAfter /\ row.control.rung = s.rung + 1
        BY <1>4, <1>6, <3>1 DEF LadderMove
      <4>2. EvidenceFrom(k)' = {j \in k..n + 1 : Counted(j)'}
        BY <1>3 DEF EvidenceFrom
      <4>3. pays(k, n + 1)'
        BY <1>2, <1>3, <1>10, <4>1, <4>2
      <4>4. earned(n + 1)'
        <5> HIDE DEF pays
        <5> QED
          BY <4>3
      <4> QED
        BY <4>1, <4>4
    <3>2. row.control.rung < s.rung =>
            row.decision = "accept" /\ row.control.rung = s.rung - 1
      BY <1>4, <1>6 DEF LadderMove
    <3> HIDE DEF earned
    <3> QED
      BY <1>2, <1>3, <3>1, <3>2
  <2> HIDE DEF fair
  <2> QED
    BY <1>3, <2>2, <2>3, <2>4
<1> QED
  BY <1>11, <1>12

----------------------------------------------------------------------------
(* The source of the games.                                                *)

LEMMA Source ==
  ASSUME IInv, NEW row \in Entry, Appended(row)
  PROVE  SourceInv' /\ GeneratorFollowsGates'
<1>1. PICK n \in Nat : n = Len(log)
  BY LogFacts DEF IInv
<1>2. /\ Len(log') = n + 1 /\ DOMAIN log' = 1..n + 1 /\ DOMAIN log = 1..n
      /\ \A i \in 1..n : log'[i] = log[i]
      /\ log'[n + 1] = row
      /\ Previous' = row
      /\ \A i \in 1..n + 1 : Before(i)' = Before(i)
      /\ Before(n + 1) = Previous
  BY <1>1, Grown, LogFacts DEF IInv
<1>3. /\ SourceMove(Previous.control, row.action, row.control)
      /\ row.generator = Generator(Previous)
  BY DEF Appended, Moves
<1> DEFINE acted(i) == {j \in 1..i - 1 : log[j].action # "not_scheduled"}
           reverted(i) == /\ acted(i) # {}
                          /\ LET last == CHOOSE j \in acted(i) :
                                           \A k \in acted(i) : k <= j
                             IN  log[last].action \in {"revert", "revert_reset"}
<1>4. Acted = acted(n + 1) /\ (Reverted <=> reverted(n + 1))
  <2>1. Acted = acted(n + 1)
    BY <1>2 DEF Acted
  <2> HIDE DEF acted
  <2> QED
    BY <2>1 DEF Reverted
<1>5. ASSUME NEW i \in 1..n + 1
      PROVE  acted(i)' = acted(i) /\ (reverted(i)' <=> reverted(i))
  <2>1. i - 1 <= n /\ \A j \in 1..i - 1 : log'[j] = log[j]
    BY <1>2
  <2>2. acted(i)' = acted(i)
    BY <2>1
  <2>3. CASE acted(i) = {}
    BY <2>2, <2>3
  <2>4. CASE acted(i) # {}
    <3> DEFINE last == CHOOSE j \in acted(i) : \A k \in acted(i) : k <= j
    <3>1. i - 1 \in Nat /\ acted(i) \in SUBSET (1..i - 1)
      OBVIOUS
    <3>2. \E j \in acted(i) : \A k \in acted(i) : k <= j
      <4> HIDE DEF acted
      <4> QED
        BY <2>4, <3>1, Greatest
    <3>3. last \in acted(i)
      <4> HIDE DEF acted
      <4> QED
        BY <3>2
    <3>4. last \in 1..i - 1
      <4> HIDE DEF last
      <4> QED
        BY <3>1, <3>3
    <3>5. log'[last] = log[last]
      <4> HIDE DEF last
      <4> QED
        BY <2>1, <3>4
    <3>6. reverted(i) <=> log[last].action \in {"revert", "revert_reset"}
      <4> HIDE DEF acted
      <4> QED
        BY <2>4
    <3>7. reverted(i)' <=> log'[last].action \in {"revert", "revert_reset"}
      <4>1. reverted(i)' <=>
              /\ acted(i)' # {}
              /\ LET l == CHOOSE j \in acted(i)' : \A k \in acted(i)' : k <= j
                 IN  log'[l].action \in {"revert", "revert_reset"}
        BY Zenon
      <4> HIDE DEF acted, reverted
      <4> QED
        BY <2>2, <2>4, <4>1
    <3> QED
      BY <2>2, <3>5, <3>6, <3>7
  <2> QED
    BY <2>3, <2>4
<1>6. SourceInv'
  <2> HIDE DEF acted, reverted
  <2>0. acted(n + 1) \in SUBSET (1..n)
    BY DEF acted
  <2>1. Acted' = acted(n + 1) \cup
                   IF row.action = "not_scheduled" THEN {} ELSE {n + 1}
    BY <1>2 DEF Acted, acted
  <2>2. CASE row.action = "not_scheduled"
    <3>1. Reverted' <=> Reverted
      <4>1. acted(n + 1)' = acted(n + 1) /\ (reverted(n + 1)' <=> reverted(n + 1))
        BY <1>5
      <4>2. Acted' = acted(n + 1)'
        BY <2>1, <2>2, <4>1
      <4>3. Reverted' <=> reverted(n + 1)'
        BY <4>2 DEF Reverted, reverted
      <4> QED
        BY <1>4, <4>1, <4>3
    <3> QED
      BY <1>2, <1>3, <2>2, <3>1 DEF IInv, SourceInv, SourceMove
  <2>3. CASE row.action # "not_scheduled"
    <3>1. Acted' = acted(n + 1) \cup {n + 1}
      BY <2>1, <2>3
    <3>2. (CHOOSE j \in Acted' : \A k \in Acted' : k <= j) = n + 1
      <4> DEFINE A == Acted'
      <4>1. n + 1 \in A /\ A \subseteq 1..n + 1
        BY <2>0, <3>1
      <4> HIDE DEF A
      <4>2. \A k \in A : k <= n + 1
        BY <4>1
      <4>3. \A j \in A : (\A k \in A : k <= j) => j = n + 1
        BY <4>1, <4>2
      <4>4. (CHOOSE j \in A : \A k \in A : k <= j) = n + 1
        BY <4>1, <4>2, <4>3
      <4> QED
        BY <4>4 DEF A
    <3>3. Reverted' <=> row.action \in {"revert", "revert_reset"}
      BY <1>2, <3>1, <3>2 DEF Reverted
    <3>4. Mode = "soft_gate" =>
            GeneratorAfter(row.action)
              = IF row.action \in {"revert", "revert_reset"}
                THEN "current_best" ELSE "latest"
      BY DEF GeneratorAfter, FixedOnBest
    <3> QED
      BY <1>2, <1>3, <2>3, <3>3, <3>4 DEF SourceInv, SourceMove
  <2> QED
    BY <2>2, <2>3
<1>7. GeneratorFollowsGates'
  <2> DEFINE follows(i) ==
               log[i].generator =
                 IF FixedOnBest \/ (Mode = "soft_gate" /\ reverted(i))
                 THEN Before(i).best ELSE Before(i).learner
  <2>1. GeneratorFollowsGates => \A i \in DOMAIN log : follows(i)
    BY DEF GeneratorFollowsGates
  <2>2. (\A i \in DOMAIN log : follows(i))' => GeneratorFollowsGates'
    BY DEF GeneratorFollowsGates
  <2> HIDE DEF reverted
  <2>3. ASSUME NEW i \in 1..n
        PROVE  follows(i)'
    <3>1. follows(i)
      BY <1>2, <2>1 DEF IInv
    <3> QED
      BY <1>2, <1>5, <3>1
  <2>4. follows(n + 1)'
    <3>1. reverted(n + 1)' <=> Reverted
      BY <1>4, <1>5
    <3>2. row.generator =
            IF FixedOnBest \/ (Mode = "soft_gate" /\ Reverted)
            THEN Previous.best ELSE Previous.learner
      BY <1>3, PolicyAssumption DEF IInv, SourceInv, Generator,
         GeneratorSource, FixedOnBest, Modes
    <3> QED
      BY <1>2, <3>1, <3>2
  <2> HIDE DEF follows
  <2> QED
    BY <1>2, <2>2, <2>3, <2>4
<1> QED
  BY <1>6, <1>7

----------------------------------------------------------------------------
(* The theorems.                                                           *)

LEMMA Initial == Init => IInv
<1> SUFFICES ASSUME Init PROVE IInv
  OBVIOUS
<1>1. log = <<>> /\ Len(log) = 0 /\ DOMAIN log = {} /\ log \in Seq(Entry)
  BY DEF Init
<1>2. Previous = Fresh
  BY <1>1, LogFacts
<1>3. TallyInv
  <2>1. Open("reject", SettlesReverts) = {} /\ Open("continue", SettlesProbations) = {}
    BY <1>1 DEF Open
  <2> QED
    BY <1>2, <2>1, FS_EmptySet, PolicyAssumption DEF TallyInv, Fresh, InitialState
<1>4. LadderInv
  <2>1. EvidenceFrom(1) = {}
    BY <1>1 DEF EvidenceFrom
  <2>2. Backed(1)
    BY <1>2, <2>1, FS_EmptySet DEF Backed, Fresh, InitialState
  <2> QED
    BY <1>1, <1>2, <2>2, PolicyAssumption DEF LadderInv, Fresh, InitialState
<1>5. SourceInv
  <2>1. Acted = {}
    BY <1>1 DEF Acted
  <2> QED
    BY <1>2, <2>1 DEF SourceInv, Reverted, Fresh, InitialState, FixedOnBest
<1>6. ResetsAreExact /\ RungsAreEarned /\ GeneratorFollowsGates
  BY <1>1 DEF ResetsAreExact, RungsAreEarned, GeneratorFollowsGates
<1> QED
  BY <1>1, <1>3, <1>4, <1>5, <1>6 DEF IInv

LEMMA Inductive == Spec => []IInv
<1>1. IInv /\ [Next]_log => IInv'
  <2> SUFFICES ASSUME IInv, [Next]_log PROVE IInv'
    OBVIOUS
  <2>1. CASE Next
    <3>1. PICK row \in Entry : Appended(row)
      BY <2>1, OneRow DEF IInv
    <3>2. log' \in Seq(Entry)
      BY <3>1, Grown DEF IInv
    <3> QED
      BY <3>1, <3>2, Tallies, Ladder, Source DEF IInv
  <2>2. CASE UNCHANGED log
    <3> USE <2>2
    <3>0. /\ \A i : Before(i)' = Before(i)
          /\ \A i : Counted(i)' <=> Counted(i)
          /\ \A k : EvidenceFrom(k)' = EvidenceFrom(k)
          /\ Previous' = Previous
      BY DEF Before, Counted, EvidenceFrom, Previous
    <3>1. TallyInv'
      BY DEF IInv, TallyInv, Open, Previous, Before, SettlesReverts,
         SettlesProbations
    <3>2. LadderInv'
      BY <3>0 DEF IInv, LadderInv, Backed
    <3>3. SourceInv'
      BY DEF IInv, SourceInv, Reverted, Acted, Previous, Before
    <3>4. ResetsAreExact'
      <4> DEFINE rejects(i) ==
                   {j \in 1..i : /\ log[j].decision = "reject"
                                 /\ \A k \in j..i - 1 : ~SettlesReverts(k)}
                 probations(i) ==
                   {j \in 1..i : /\ log[j].decision = "continue"
                                 /\ \A k \in j..i - 1 : ~SettlesProbations(k)}
                 exact(i) ==
                   log[i].action = "revert_reset" <=>
                     \/ /\ log[i].decision = "reject"
                        /\ Cardinality(rejects(i)) = RevertResetAfter
                     \/ /\ log[i].decision = "continue"
                        /\ Cardinality(probations(i)) = ProbationResetAfter
      <4>1. ASSUME NEW i
            PROVE  rejects(i)' = rejects(i) /\ probations(i)' = probations(i)
        BY DEF SettlesReverts, SettlesProbations
      <4>2. ResetsAreExact => \A i \in DOMAIN log : exact(i)
        BY DEF ResetsAreExact, Standing
      <4>3. (\A i \in DOMAIN log : exact(i))' => ResetsAreExact'
        BY DEF ResetsAreExact, Standing
      <4> HIDE DEF rejects, probations
      <4>4. ASSUME NEW i
            PROVE  exact(i)' <=> exact(i)
        BY <4>1
      <4> HIDE DEF exact
      <4> QED
        BY <4>2, <4>3, <4>4 DEF IInv
    <3>5. RungsAreEarned'
      <4> DEFINE pays(m, i) ==
                   LET e == {j \in m..i : Counted(j)}
                   IN  /\ Cardinality(e) = StepUpAfter
                       /\ \A j \in e :
                            /\ log[j].decision = "continue"
                            /\ j > FloorGames
                            /\ Before(j).control.rung = Before(i).control.rung
      <4>1. ASSUME NEW i, NEW m
            PROVE  pays(m, i)' <=> pays(m, i)
        BY <3>0
      <4>2. RungsAreEarned =>
              \A i \in DOMAIN log :
                LET rung == log[i].control.rung
                    old  == Before(i).control.rung
                IN  /\ rung > old => rung = old + 1 /\ \E m \in 1..i : pays(m, i)
                    /\ rung < old => log[i].decision = "accept" /\ rung = old - 1
        BY DEF RungsAreEarned
      <4>3. (\A i \in DOMAIN log :
                LET rung == log[i].control.rung
                    old  == Before(i).control.rung
                IN  /\ rung > old => rung = old + 1 /\ \E m \in 1..i : pays(m, i)
                    /\ rung < old => log[i].decision = "accept" /\ rung = old - 1)'
             => RungsAreEarned'
        BY DEF RungsAreEarned
      <4> HIDE DEF pays
      <4> QED
        BY <3>0, <4>1, <4>2, <4>3 DEF IInv
    <3>6. GeneratorFollowsGates'
      <4> DEFINE acted(i) == {j \in 1..i - 1 : log[j].action # "not_scheduled"}
                 reverted(i) ==
                   /\ acted(i) # {}
                   /\ LET last == CHOOSE j \in acted(i) : \A k \in acted(i) : k <= j
                      IN  log[last].action \in {"revert", "revert_reset"}
      <4>1. ASSUME NEW i
            PROVE  reverted(i)' <=> reverted(i)
        <5>1. acted(i)' = acted(i)
          OBVIOUS
        <5> HIDE DEF acted
        <5> QED
          BY <5>1
      <4>2. GeneratorFollowsGates =>
              \A i \in DOMAIN log :
                log[i].generator =
                  IF FixedOnBest \/ (Mode = "soft_gate" /\ reverted(i))
                  THEN Before(i).best ELSE Before(i).learner
        BY DEF GeneratorFollowsGates
      <4>3. (\A i \in DOMAIN log :
                log[i].generator =
                  IF FixedOnBest \/ (Mode = "soft_gate" /\ reverted(i))
                  THEN Before(i).best ELSE Before(i).learner)'
             => GeneratorFollowsGates'
        BY DEF GeneratorFollowsGates
      <4> HIDE DEF reverted
      <4> QED
        BY <3>0, <4>1, <4>2, <4>3 DEF IInv
    <3> QED
      BY <3>1, <3>2, <3>3, <3>4, <3>5, <3>6 DEF IInv
  <2> QED
    BY <2>1, <2>2
<1> QED
  BY <1>1, Initial, PTL DEF Spec

(* A learner is thrown away exactly when its rejects, or its probations,   *)
(* have reached the configured number since a gate last settled them, for  *)
(* every limit and every order of gates, bootstraps, warmup and suppressed *)
(* rows (training_control.gate_transition).                                *)
THEOREM ResetsExact == Spec => []ResetsAreExact
<1>1. IInv => ResetsAreExact
  BY DEF IInv
<1> QED
  BY <1>1, Inductive, PTL

(* A rung up has been paid for by StepUpAfter probations in a row, above   *)
(* the floor and on the rung below; a rung down is a promotion             *)
(* (training_control._ladder_after).                                       *)
THEOREM RungsEarned == Spec => []RungsAreEarned
<1>1. IInv => RungsAreEarned
  BY DEF IInv
<1> QED
  BY <1>1, Inductive, PTL

(* The games of a row come from the checkpoint the gates before it have    *)
(* chosen, in every mode (select_generator_source).                        *)
THEOREM GeneratorFollows == Spec => []GeneratorFollowsGates
<1>1. IInv => GeneratorFollowsGates
  BY DEF IInv
<1> QED
  BY <1>1, Inductive, PTL

(* Every row names checkpoints of this run and a control state the policy  *)
(* can be in, whatever the bound on the rows.                              *)
THEOREM TypeCorrect ==
    ASSUME MaxRows \in Nat
    PROVE  Spec => []TypeOK
<1>1. Init => TypeOK
  BY DEF Init, TypeOK
<1>2. IInv /\ TypeOK /\ [Next]_log => TypeOK'
  <2> SUFFICES ASSUME IInv, TypeOK, [Next]_log PROVE TypeOK'
    OBVIOUS
  <2>1. CASE Next
    <3>1. PICK row \in Entry : Appended(row)
      BY <2>1, OneRow DEF IInv
    <3>2. Previous.learner \in 0..MaxRows /\ Previous.best \in 0..MaxRows
      <4>1. CASE Len(log) = 0
        BY <4>1, LogFacts DEF IInv, Fresh
      <4>2. CASE Len(log) # 0
        <5>1. log[Len(log)] \in Row
          BY <4>2 DEF TypeOK
        <5> QED
          BY <4>2, <5>1, LogFacts DEF IInv, Row
      <4> QED
        BY <4>1, <4>2
    <3>3. Len(log) \in Nat /\ Len(log) + 1 \in 0..MaxRows
      BY <3>1 DEF TypeOK, Appended
    <3>4. row.learner \in 0..MaxRows /\ row.best \in 0..MaxRows
      BY <3>1, <3>2, <3>3 DEF Appended
    <3>5. row.generator \in 0..MaxRows
      BY <3>1, <3>2 DEF Appended, Generator
    <3>6. row \in Row
      BY <3>4, <3>5 DEF Entry, Row
    <3> QED
      BY <3>1, <3>3, <3>6 DEF TypeOK, Appended
  <2>2. CASE UNCHANGED log
    BY <2>2 DEF TypeOK
  <2> QED
    BY <2>1, <2>2
<1> QED
  BY <1>1, <1>2, Inductive, PTL DEF Spec
==============================================================================

-------------------------- MODULE InterventionsProofs --------------------------
(***************************************************************************)
(* What the interventions of a run never do, whatever the rungs of its     *)
(* ladder, the window, the cadence of the measurements and the games of    *)
(* its iterations, and however often it dies or cannot write: a rung is    *)
(* applied and withdrawn for what was measured since the one before it,    *)
(* and the configuration is the one on record.                             *)
(***************************************************************************)
EXTENDS Interventions, SequenceTheorems, TLAPS

(* Every measurement is of games played since the one before it: the code  *)
(* refuses a cadence of zero, and no iteration is without a game.          *)
Parameters ==
    /\ Rungs \in Nat \ {0} /\ MinMeasurements \in Nat \ {0}
    /\ Every \in Nat \ {0} /\ Window \in Nat
    /\ IterationGames \subseteq Nat \ {0}
    /\ MaxGames \in Nat /\ MaxDeaths \in Nat /\ MaxFailures \in Nat

----------------------------------------------------------------------------
(* The inductive invariant.                                                *)

Played == {"iteration", "write", "commit"}

(* The games of an iteration count from its generation to its row.         *)
ClockInv ==
    /\ clock + playing <= MaxGames
    /\ process.at \in Played => playing \in IterationGames

(* No rung was entered after the last measurement: where one is due, the   *)
(* clock has moved on, and a change of the rung shows in the clock.        *)
EnteredInv ==
    LET measurements == file.measurements
    IN  IF measurements = <<>> THEN file.ladder.entered = 0
        ELSE file.ladder.entered <= Last(measurements).games

(* What is about to be written is the answer to the file.                  *)
WriteInv ==
    process.at = "write" =>
        /\ Due
        /\ \E clears \in BOOLEAN :
              next.measurements = Append(file.measurements,
                                         [games |-> Now, clears |-> clears])
        /\ next.ladder = Advance(file.ladder, process.enabled,
                                 Stagnant(next.measurements))
        /\ process.rung = Active(next.ladder, process.enabled)

(* A ladder that holds a rung is as the last move has left it.             *)
MovesInv ==
    /\ \A i \in DOMAIN moves : moves[i].seen \in 1..Len(file.measurements)
    /\ file.ladder.state \in Holding =>
          /\ moves # <<>> /\ moves[Len(moves)].to = file.ladder
          /\ file.ladder.rung # NoRung

Moved == [from : Ladder, to : Ladder, seen : Nat]

(* Of one move, what InterventionsAreEarned says of each.                  *)
Earned(i) ==
    LET m == moves[i]
        held == m.from.state \in Holding
    IN  /\ held => /\ i > 1 /\ moves[i - 1].to.rung = m.from.rung
                   /\ m.to.entered - moves[i - 1].to.entered >= Window
        /\ IF m.to.rung = NoRung
           THEN held /\ Clears(moves[i - 1].seen + 1, m.seen)
           ELSE /\ m.seen >= MinMeasurements
                /\ ~Clears(m.seen - MinMeasurements + 1, m.seen)
                /\ m.to.rung \in {m.from.rung + 1, Rungs}

IInv ==
    /\ TypeOK /\ moves \in Seq(Moved)
    /\ ClockInv /\ EnteredInv /\ WriteInv /\ MovesInv
    /\ InterventionsAreEarned /\ ConfigurationFollowsLadder

----------------------------------------------------------------------------
(* The operators.                                                          *)

LEMMA LastIn ==
  ASSUME NEW S, NEW s \in Seq(S), s # <<>>
  PROVE  Last(s) \in S
BY DEF Last

(* What the ladder answers (InterventionLadder.advance): it changes the    *)
(* rung only after the window, up for a run that is stagnant and down for  *)
(* one that is not, and sets its clock then and only then.                 *)
LEMMA Answers ==
  ASSUME Parameters, NEW ladder \in Ladder, NEW enabled \in BOOLEAN,
         NEW stagnant \in BOOLEAN, Now \in 0..MaxGames, ladder.entered < Now,
         ladder.state \in Holding => ladder.rung # NoRung,
         NEW answer, answer = Advance(ladder, enabled, stagnant)
  PROVE  /\ answer \in Ladder
         /\ answer.state \in Holding => answer.rung # NoRung
         /\ answer.entered = ladder.entered /\ answer.state \in Holding
            => answer = ladder
         /\ answer.entered \in {ladder.entered, Now}
         /\ answer.entered # ladder.entered =>
              /\ answer.entered = Now
              /\ ladder.state \in Holding => Now - ladder.entered >= Window
              /\ \/ /\ answer.rung = NoRung /\ answer.state = "normal"
                    /\ ladder.state \in Holding /\ ~stagnant
                 \/ /\ answer.rung \in {ladder.rung + 1, Rungs}
                    /\ answer.rung # NoRung /\ stagnant
<1>1. ladder.state \in Holding \/ ladder.state \in Calm
  BY DEF Ladder
<1>2. ~(ladder.state \in Holding /\ ladder.state \in Calm)
  BY DEF Holding, Calm
<1>3. ladder.rung \in NoRung..Rungs /\ ladder.entered \in 0..MaxGames
  BY DEF Ladder
<1>4. CASE ~enabled
  <2>1. answer = [ladder EXCEPT !.state = IF stagnant THEN "stagnant" ELSE "normal"]
    BY <1>4 DEF Advance
  <2> QED
    BY <2>1, <1>3 DEF Ladder, Holding, Calm
<1>5. CASE enabled /\ ladder.state \in Calm /\ ~stagnant
  <2>1. answer = [ladder EXCEPT !.state = "normal"]
    BY <1>2, <1>5 DEF Advance
  <2> QED
    BY <2>1, <1>3 DEF Ladder, Holding, Calm
<1>6. CASE enabled /\ ladder.state \in Holding /\ Now - ladder.entered < Window
  <2>1. answer = ladder
    BY <1>2, <1>3, <1>6 DEF Advance, Parameters
  <2> QED
    BY <2>1
<1>7. CASE /\ enabled /\ ladder.state \in Holding /\ ~stagnant
           /\ Now - ladder.entered >= Window
  <2>1. answer = [Fresh EXCEPT !.entered = Now]
    BY <1>2, <1>3, <1>7 DEF Advance, Parameters
  <2> QED
    BY <2>1, <1>3, <1>7 DEF Ladder, Holding, Calm, Fresh, NoRung, Parameters
<1>8. CASE /\ enabled /\ stagnant
           /\ ladder.state \in Holding => Now - ladder.entered >= Window
  <2>1. answer = Escalate(ladder)
    BY <1>1, <1>2, <1>3, <1>8 DEF Advance, Parameters
  <2>2. CASE ladder.rung = Rungs
    <3>1. answer = [ladder EXCEPT !.state = "exhausted", !.entered = Now]
      BY <2>1, <2>2 DEF Escalate
    <3>2. /\ answer.rung \in NoRung..Rungs /\ answer.rung # NoRung
          /\ answer.rung \in {ladder.rung + 1, Rungs}
      BY <1>3, <2>2, <3>1 DEF Ladder, NoRung, Parameters
    <3>3. answer.state \in Holding /\ answer.entered = Now /\ answer \in Ladder
      BY <3>1, <3>2 DEF Ladder, Holding
    <3>4. answer.entered # ladder.entered
      BY <1>3, <3>3
    <3> QED
      BY <1>8, <3>2, <3>3, <3>4
  <2>3. CASE ladder.rung # Rungs
    <3>1. answer = [state |-> "intervening", rung |-> ladder.rung + 1, entered |-> Now]
      BY <2>1, <2>3 DEF Escalate
    <3>2. /\ answer.rung \in NoRung..Rungs /\ answer.rung # NoRung
          /\ answer.rung \in {ladder.rung + 1, Rungs}
      BY <1>3, <2>3, <3>1 DEF Ladder, NoRung, Parameters
    <3>3. answer.state \in Holding /\ answer.entered = Now /\ answer \in Ladder
      BY <3>1, <3>2 DEF Ladder, Holding
    <3>4. answer.entered # ladder.entered
      BY <1>3, <3>3
    <3> QED
      BY <1>8, <3>2, <3>3, <3>4
  <2> QED
    BY <2>2, <2>3
<1>9. Now - ladder.entered < Window \/ Now - ladder.entered >= Window
  BY <1>3 DEF Parameters
<1> QED
  BY <1>1, <1>4, <1>5, <1>6, <1>7, <1>8, <1>9

(* Nothing the process does between two writes can change what the file or *)
(* the moves say.                                                          *)
LEMMA SameRecord ==
  ASSUME IInv, UNCHANGED <<file, moves>>
  PROVE  /\ EnteredInv' /\ MovesInv' /\ InterventionsAreEarned'
         /\ (moves \in Seq(Moved))'
<1>1. EnteredInv'
  BY DEF IInv, EnteredInv
<1>2. MovesInv'
  BY DEF IInv, MovesInv
<1>3. InterventionsAreEarned'
  BY DEF IInv, InterventionsAreEarned, Clears
<1> QED
  BY <1>1, <1>2, <1>3 DEF IInv

----------------------------------------------------------------------------
(* The steps.                                                              *)

LEMMA Start == ASSUME Parameters, Init PROVE IInv
<1>1. TypeOK
  <2>1. Fresh \in Ladder
    BY DEF Fresh, Ladder, Calm, NoRung, Parameters
  <2>2. file.ladder \in Ladder /\ next.ladder \in Ladder /\ file.measurements = <<>>
    BY <2>1 DEF Init, NothingToWrite
  <2>3. process \in [at : {"down", "start", "iteration", "write", "commit"},
                    rung : NoRung..Rungs, enabled : BOOLEAN]
    BY DEF Init, NoRung, Parameters
  <2>4. file.measurements \in Seq([games : 1..MaxGames, clears : BOOLEAN])
    BY <2>2
  <2>5. clock \in 0..MaxGames /\ playing \in 0..MaxGames
    BY DEF Init, Parameters
  <2>6. dead \in 0..MaxDeaths /\ failures \in 0..MaxFailures
    BY DEF Init, Parameters
  <2> QED
    BY Zenon, <2>2, <2>3, <2>4, <2>5, <2>6 DEF Init, TypeOK
<1>2. moves \in Seq(Moved) /\ MovesInv /\ InterventionsAreEarned
  BY DEF Init, MovesInv, InterventionsAreEarned, NothingToWrite, Fresh, Holding
<1>3. ClockInv /\ EnteredInv /\ WriteInv
  BY DEF Parameters, Init, ClockInv, EnteredInv, WriteInv, Played, NothingToWrite,
     Fresh
<1>4. ConfigurationFollowsLadder
  BY DEF Init, ConfigurationFollowsLadder, NothingToWrite, Fresh, Active, NoRung
<1> QED
  BY <1>1, <1>2, <1>3, <1>4 DEF IInv

LEMMA RestartKeeps ==
  ASSUME Parameters, IInv, NEW enabled \in BOOLEAN, Restart(enabled)
  PROVE  IInv'
<1>1. TypeOK'
  <2>1. Active(file.ladder, enabled) \in NoRung..Rungs
    BY DEF IInv, TypeOK, Active, Ladder, NoRung, Parameters
  <2> QED
    BY <2>1 DEF Restart, IInv, TypeOK
<1>2. ClockInv' /\ WriteInv'
  BY DEF Restart, IInv, TypeOK, ClockInv, WriteInv, Played
<1>3. ConfigurationFollowsLadder'
  BY DEF Restart, ConfigurationFollowsLadder, Active
<1> QED
  BY <1>1, <1>2, <1>3, SameRecord DEF IInv, Restart

LEMMA GenerateKeeps ==
  ASSUME Parameters, IInv, Generate
  PROVE  IInv'
<1>1. TypeOK'
  <2>1. playing' \in 0..MaxGames
    BY DEF Generate, IInv, TypeOK, Parameters
  <2> QED
    BY <2>1 DEF Generate, IInv, TypeOK
<1>2. ClockInv' /\ WriteInv'
  BY DEF Generate, IInv, TypeOK, ClockInv, WriteInv, Played
<1>3. ConfigurationFollowsLadder'
  BY DEF Generate, IInv, TypeOK, ConfigurationFollowsLadder, Active
<1> QED
  BY <1>1, <1>2, <1>3, SameRecord DEF IInv, Generate

(* Where a measurement is due the clock has gone on since the last move.   *)
LEMMA ClockGoesOn ==
  ASSUME Parameters, IInv, process.at \in Played, Due
  PROVE  Now \in 1..MaxGames /\ file.ladder.entered < Now
<1>1. Now \in 1..MaxGames
  BY DEF IInv, TypeOK, ClockInv, Now, Parameters
<1>2. CASE file.measurements = <<>>
  BY <1>1, <1>2 DEF IInv, EnteredInv
<1>3. CASE file.measurements # <<>>
  <2>1. Last(file.measurements) \in [games : 1..MaxGames, clears : BOOLEAN]
    <3>1. file.measurements \in Seq([games : 1..MaxGames, clears : BOOLEAN])
      BY DEF IInv, TypeOK
    <3> QED
      BY <1>3, <3>1, LastIn
  <2>2. /\ file.ladder.entered <= Last(file.measurements).games
        /\ Now - Last(file.measurements).games >= Every
    BY <1>3 DEF IInv, EnteredInv, Due
  <2>3. file.ladder.entered \in Nat
    BY DEF IInv, TypeOK, Ladder
  <2> QED
    BY <1>1, <2>1, <2>2, <2>3 DEF Parameters
<1> QED
  BY <1>1, <1>2, <1>3

LEMMA MeasureKeeps ==
  ASSUME Parameters, IInv, NEW clears \in BOOLEAN, Measure(clears)
  PROVE  IInv'
<1> DEFINE measurements == Append(file.measurements, [games |-> Now, clears |-> clears])
           ladder == Advance(file.ladder, process.enabled, Stagnant(measurements))
<1>1. /\ process.at = "iteration" /\ Due
      /\ next' = [measurements |-> measurements, ladder |-> ladder]
      /\ process' = [process EXCEPT !.at = "write",
                                    !.rung = Active(ladder, process.enabled)]
      /\ UNCHANGED <<clock, playing, file, moves, unsaved, dead, failures>>
  BY DEF Measure
<1>2. Now \in 1..MaxGames /\ file.ladder.entered < Now
  BY <1>1, ClockGoesOn DEF Played
<1>3. Stagnant(measurements) \in BOOLEAN
  BY DEF Stagnant
<1>4. ladder \in Ladder
  <2>1. file.ladder \in Ladder /\ process.enabled \in BOOLEAN
    BY DEF IInv, TypeOK
  <2>2. file.ladder.state \in Holding => file.ladder.rung # NoRung
    BY DEF IInv, MovesInv
  <2> QED
    BY <1>2, <1>3, <2>1, <2>2, Answers
<1> HIDE DEF ladder
<1>5. TypeOK'
  <2>1. Active(ladder, process.enabled) \in NoRung..Rungs
    BY <1>4 DEF Active, Ladder, NoRung, Parameters
  <2> QED
    BY <1>1, <1>4, <2>1 DEF IInv, TypeOK
<1>6. ClockInv'
  BY <1>1 DEF IInv, TypeOK, ClockInv, Played
<1>7. WriteInv'
  <2>1. Now' = Now /\ Due'
    BY <1>1 DEF Due, Now
  <2>2. process'.enabled = process.enabled /\ process'.rung = Active(ladder, process.enabled)
    BY <1>1 DEF IInv, TypeOK
  <2>3. Advance(file.ladder, process.enabled, Stagnant(measurements))'
        = Advance(file.ladder, process.enabled, Stagnant(measurements))
    BY <1>1, <2>1, <2>2 DEF Advance, Escalate, Stagnant
  <2> QED
    BY <1>1, <2>1, <2>2, <2>3 DEF WriteInv, ladder
<1>8. ConfigurationFollowsLadder'
  BY <1>1 DEF IInv, TypeOK, ConfigurationFollowsLadder
<1> QED
  BY <1>1, <1>5, <1>6, <1>7, <1>8, SameRecord DEF IInv

LEMMA MeasureNothingKeeps ==
  ASSUME Parameters, IInv, MeasureNothing
  PROVE  IInv'
<1>1. TypeOK'
  BY DEF MeasureNothing, IInv, TypeOK
<1>2. ClockInv' /\ WriteInv'
  BY DEF MeasureNothing, IInv, TypeOK, ClockInv, WriteInv, Played
<1>3. ConfigurationFollowsLadder'
  BY DEF MeasureNothing, IInv, TypeOK, ConfigurationFollowsLadder, Active
<1> QED
  BY <1>1, <1>2, <1>3, SameRecord DEF IInv, MeasureNothing

(* The write of a measurement and of the ladder's answer to it.            *)
LEMMA WriteKeeps ==
  ASSUME Parameters, IInv, Write
  PROVE  IInv'
<1>1. PICK clears \in BOOLEAN :
        next.measurements = Append(file.measurements,
                                   [games |-> Now, clears |-> clears])
  BY DEF Write, IInv, WriteInv
<1> DEFINE old == file.measurements
           new == next.measurements
           before == file.ladder
           after == next.ladder
<1>2. /\ process.at = "write" /\ file' = next
      /\ process' = [process EXCEPT !.at = "commit"]
      /\ UNCHANGED <<clock, playing, dead, failures>>
      /\ unsaved' = FALSE
  BY DEF Write
<1>3. /\ Due /\ process.rung = Active(after, process.enabled)
      /\ after = Advance(before, process.enabled, Stagnant(new))
  BY <1>2 DEF IInv, WriteInv
<1>4. Now \in 1..MaxGames /\ before.entered < Now
  BY <1>2, <1>3, ClockGoesOn DEF Played
<1>5. /\ old \in Seq([games : 1..MaxGames, clears : BOOLEAN])
      /\ before \in Ladder /\ process.enabled \in BOOLEAN
      /\ moves \in Seq(Moved)
  BY DEF IInv, TypeOK
<1>6. /\ new \in Seq([games : 1..MaxGames, clears : BOOLEAN])
      /\ Len(new) = Len(old) + 1 /\ new # <<>>
      /\ \A k \in 1..Len(old) : new[k] = old[k]
      /\ Last(new).games = Now
  <2>1. [games |-> Now, clears |-> clears] \in [games : 1..MaxGames, clears : BOOLEAN]
    BY <1>4
  <2> DEFINE m == [games |-> Now, clears |-> clears]
  <2> HIDE DEF m
  <2>2. /\ new \in Seq([games : 1..MaxGames, clears : BOOLEAN])
        /\ Len(new) = Len(old) + 1 /\ new # <<>>
        /\ \A k \in 1..Len(old) : new[k] = old[k]
        /\ new[Len(new)] = m
    BY <1>1, <1>5, <2>1, AppendProperties DEF m
  <2> QED
    BY <2>2 DEF Last, m
<1>7. /\ after \in Ladder
      /\ after.state \in Holding => after.rung # NoRung
      /\ after.entered = before.entered /\ after.state \in Holding => after = before
      /\ after.entered \in {before.entered, Now}
      /\ after.entered # before.entered =>
           /\ after.entered = Now
           /\ before.state \in Holding => Now - before.entered >= Window
           /\ \/ /\ after.rung = NoRung /\ after.state = "normal"
                 /\ before.state \in Holding /\ ~Stagnant(new)
              \/ /\ after.rung \in {before.rung + 1, Rungs}
                 /\ after.rung # NoRung /\ Stagnant(new)
  <2>1. Stagnant(new) \in BOOLEAN
    BY DEF Stagnant
  <2>2. before.state \in Holding => before.rung # NoRung
    BY DEF IInv, MovesInv
  <2>3. Now \in 0..MaxGames
    BY <1>4
  <2> HIDE DEF before, after, new
  <2> QED
    BY <1>3, <1>4, <1>5, <2>1, <2>2, <2>3, Answers
<1>8. /\ file'.measurements = new /\ file'.ladder = after
  BY <1>2
<1>9. TypeOK'
  <2>1. next'.ladder \in Ladder
    <3>1. Fresh \in Ladder
      BY DEF Fresh, Ladder, Calm, NoRung, Parameters
    <3> QED
      BY <3>1 DEF Write, NothingToWrite
  <2> QED
    BY <1>2, <1>6, <1>7, <1>8, <2>1 DEF IInv, TypeOK
<1>10. ClockInv' /\ WriteInv'
  BY <1>2 DEF IInv, TypeOK, ClockInv, WriteInv, Played
<1>11. EnteredInv'
  <2>1. before.entered \in Nat
    BY <1>5 DEF Ladder
  <2>2. after.entered <= Last(new).games
    BY <1>4, <1>6, <1>7, <2>1
  <2> QED
    BY <1>6, <1>8, <2>2 DEF EnteredInv
<1>12. ConfigurationFollowsLadder'
  <2>1. process'.rung = process.rung /\ process'.enabled = process.enabled
    BY <1>2 DEF IInv, TypeOK
  <2> QED
    BY <1>3, <1>8, <2>1 DEF ConfigurationFollowsLadder, Active
<1>13. ASSUME NEW from \in Nat \ {0}, NEW to \in 0..Len(old)
       PROVE  Clears(from, to)' <=> Clears(from, to)
  <2>1. \A k \in from..to : file'.measurements[k] = old[k]
    BY <1>6, <1>8
  <2> QED
    BY <2>1 DEF Clears
<1>14. /\ \A i \in DOMAIN moves : i \in DOMAIN moves' /\ moves'[i] = moves[i]
       /\ \A i \in DOMAIN moves' \ DOMAIN moves :
            /\ after.entered # before.entered /\ i = Len(moves) + 1
            /\ moves'[i] = [from |-> before, to |-> after, seen |-> Len(new)]
       /\ moves' \in Seq(Moved)
       /\ IF after.entered = before.entered THEN moves' = moves
          ELSE /\ moves' # <<>>
               /\ moves'[Len(moves')] = [from |-> before, to |-> after, seen |-> Len(new)]
  <2> DEFINE m == [from |-> before, to |-> after, seen |-> Len(new)]
  <2>1. moves' = IF after.entered = before.entered THEN moves ELSE Append(moves, m)
    BY DEF Write
  <2>2. m \in Moved
    BY <1>5, <1>6, <1>7 DEF Moved
  <2> HIDE DEF m
  <2>3. CASE after.entered = before.entered
    BY <1>5, <2>1, <2>3
  <2>4. CASE after.entered # before.entered
    BY <1>5, <2>1, <2>2, <2>4, AppendProperties DEF m
  <2> QED
    BY <2>3, <2>4
<1>15. ASSUME NEW i \in DOMAIN moves
       PROVE  moves[i] \in Moved /\ moves[i].seen \in 1..Len(old)
  BY <1>5 DEF IInv, MovesInv
<1>16. MovesInv'
  <2>1. ASSUME NEW i \in DOMAIN moves'
        PROVE  moves'[i].seen \in 1..Len(new)
    BY <1>5, <1>6, <1>14, <1>15
  <2>2. CASE after.entered = before.entered
    BY <1>7, <1>8, <1>14, <2>1, <2>2 DEF IInv, MovesInv
  <2>3. CASE after.entered # before.entered
    BY <1>7, <1>8, <1>14, <2>1, <2>3 DEF MovesInv
  <2> QED
    BY <2>2, <2>3
<1>17. ASSUME NEW i \in DOMAIN moves
       PROVE  Earned(i)'
  <2>1. Earned(i)
    BY DEF IInv, InterventionsAreEarned, Earned
  <2>2. moves'[i] = moves[i]
    BY <1>14
  <2>3. i > 1 => i - 1 \in DOMAIN moves /\ moves'[i - 1] = moves[i - 1]
    BY <1>5, <1>14
  <2>4. i > 1 => Clears(moves[i - 1].seen + 1, moves[i].seen)'
                 <=> Clears(moves[i - 1].seen + 1, moves[i].seen)
    BY <1>13, <1>15, <2>2, <2>3
  <2>5. moves[i].seen >= MinMeasurements =>
          Clears(moves[i].seen - MinMeasurements + 1, moves[i].seen)'
          <=> Clears(moves[i].seen - MinMeasurements + 1, moves[i].seen)
    BY <1>13, <1>15, <2>2 DEF Parameters
  <2> QED
    BY <2>1, <2>2, <2>3, <2>4, <2>5 DEF Earned
<1>18. ASSUME NEW i \in DOMAIN moves' \ DOMAIN moves
       PROVE  Earned(i)'
  <2>1. PICK n \in Nat : n = Len(new)
    BY <1>6
  <2>2. /\ after.entered # before.entered /\ i = Len(moves) + 1
        /\ moves'[i] = [from |-> before, to |-> after, seen |-> n]
    BY <1>14, <2>1
  <2>3. ASSUME NEW from \in Int, NEW to \in Int
        PROVE  Clears(from, to)' <=> \E k \in from..to : new[k].clears
    BY <1>8 DEF Clears
  <2>4. Len(old) \in Nat /\ n = Len(old) + 1 /\ MinMeasurements \in Nat \ {0}
    BY <1>5, <1>6, <2>1 DEF Parameters
  <2>5. Stagnant(new) => /\ n >= MinMeasurements
                         /\ ~Clears(n - MinMeasurements + 1, n)'
    <3>1. Clears(n - MinMeasurements + 1, n)'
          <=> \E k \in n - MinMeasurements + 1..n : new[k].clears
      <4>1. n - MinMeasurements + 1 \in Int /\ n \in Int
        BY <2>4
      <4> QED
        BY Zenon, <2>3, <4>1
    <3> QED
      BY <2>1, <3>1 DEF Stagnant
  <2>6. CASE before.state \in Holding
    <3>1. PICK p : p = moves[Len(moves)]
      OBVIOUS
    <3>2. Len(moves) \in DOMAIN moves /\ p.to = before /\ before.rung # NoRung
      BY <1>5, <2>6, <3>1 DEF IInv, MovesInv
    <3>3. moves'[i - 1] = p /\ i > 1
      BY <1>5, <1>14, <2>2, <3>1, <3>2
    <3>4. p.seen \in 1..Len(old)
      BY <1>15, <3>1, <3>2
    <3>5. /\ p.seen >= MinMeasurements
          /\ ~Clears(p.seen - MinMeasurements + 1, p.seen)
      BY <3>1, <3>2 DEF IInv, InterventionsAreEarned
    <3>6. Now - before.entered >= Window /\ after.entered = Now
      BY <1>7, <2>2, <2>6
    <3>7. ASSUME ~Stagnant(new)
          PROVE  Clears(p.seen + 1, n)'
      <4>1. PICK k \in n - MinMeasurements + 1..n : new[k].clears
        BY <2>1, <2>4, <3>4, <3>5, <3>7 DEF Stagnant
      <4>2. k \notin p.seen - MinMeasurements + 1..p.seen
        <5>1. k \in p.seen - MinMeasurements + 1..p.seen => k \in 1..Len(old)
          BY <2>4, <3>4, <3>5
        <5> QED
          BY <1>6, <3>5, <4>1, <5>1 DEF Clears
      <4>3. k \in p.seen + 1..n
        BY <2>4, <3>4, <4>1, <4>2
      <4> QED
        BY <2>3, <2>4, <3>4, <4>1, <4>3
    <3>8. CASE after.rung = NoRung /\ ~Stagnant(new)
      BY <2>2, <2>6, <3>2, <3>3, <3>6, <3>7, <3>8 DEF Earned
    <3>9. CASE /\ after.rung \in {before.rung + 1, Rungs}
               /\ after.rung # NoRung /\ Stagnant(new)
      BY <2>2, <2>5, <3>2, <3>3, <3>6, <3>9 DEF Earned
    <3> QED
      BY <1>7, <2>2, <3>8, <3>9
  <2>7. CASE before.state \notin Holding
    <3>1. /\ after.rung \in {before.rung + 1, Rungs}
          /\ after.rung # NoRung /\ Stagnant(new)
      BY <1>7, <2>2, <2>7
    <3> QED
      BY <2>2, <2>5, <2>7, <3>1 DEF Earned
  <2> QED
    BY <2>6, <2>7
<1>19. InterventionsAreEarned'
  BY <1>17, <1>18 DEF InterventionsAreEarned, Earned
<1> QED
  BY <1>9, <1>10, <1>11, <1>12, <1>14, <1>16, <1>19 DEF IInv

LEMMA WriteFailsKeeps ==
  ASSUME Parameters, IInv, WriteFails
  PROVE  IInv'
<1>1. TypeOK'
  <2>1. next'.ladder \in Ladder
    BY DEF WriteFails, NothingToWrite, Fresh, Ladder, Calm, NoRung, Parameters
  <2>2. failures' \in 0..MaxFailures
    BY DEF WriteFails, IInv, TypeOK, Parameters
  <2> QED
    BY <2>1, <2>2 DEF WriteFails, IInv, TypeOK
<1>2. ClockInv' /\ WriteInv'
  BY DEF WriteFails, IInv, TypeOK, ClockInv, WriteInv, Played
<1>3. ConfigurationFollowsLadder'
  BY DEF WriteFails, ConfigurationFollowsLadder
<1> QED
  BY <1>1, <1>2, <1>3, SameRecord DEF IInv, WriteFails

LEMMA CommitKeeps ==
  ASSUME Parameters, IInv, Commit
  PROVE  IInv'
<1>1. clock' \in 0..MaxGames /\ playing' = 0
  BY DEF Commit, IInv, TypeOK, ClockInv, Now, Parameters
<1>2. TypeOK'
  <2>1. playing' \in 0..MaxGames
    BY <1>1 DEF Parameters
  <2> QED
    BY <1>1, <2>1 DEF Commit, IInv, TypeOK
<1>3. ClockInv' /\ WriteInv'
  BY <1>1 DEF Commit, IInv, TypeOK, ClockInv, WriteInv, Played
<1>4. ConfigurationFollowsLadder'
  BY DEF Commit, IInv, TypeOK, ConfigurationFollowsLadder, Active
<1> QED
  BY <1>2, <1>3, <1>4, SameRecord DEF IInv, Commit

LEMMA DieKeeps ==
  ASSUME Parameters, IInv, Die
  PROVE  IInv'
<1>1. TypeOK'
  <2>1. next'.ladder \in Ladder /\ playing' \in 0..MaxGames
    BY DEF Die, NothingToWrite, Fresh, Ladder, Calm, NoRung, Parameters
  <2>2. dead' \in 0..MaxDeaths
    BY DEF Die, IInv, TypeOK, Parameters
  <2>3. process' \in [at : {"down"}, rung : NoRung..Rungs, enabled : BOOLEAN]
    BY DEF Die, NoRung, Parameters
  <2> QED
    BY <2>1, <2>2, <2>3 DEF Die, IInv, TypeOK
<1>2. ClockInv' /\ WriteInv'
  BY DEF Die, IInv, TypeOK, ClockInv, WriteInv, Played
<1>3. ConfigurationFollowsLadder'
  BY DEF Die, ConfigurationFollowsLadder
<1> QED
  BY <1>1, <1>2, <1>3, SameRecord DEF IInv, Die

LEMMA Step == ASSUME Parameters, IInv, [Next]_vars PROVE IInv'
<1>1. CASE UNCHANGED vars
  <2>1. TypeOK' /\ ClockInv'
    BY <1>1 DEF vars, IInv, TypeOK, ClockInv, Played
  <2>2. WriteInv'
    <3>1. Advance(file.ladder, process.enabled, Stagnant(next.measurements))'
          = Advance(file.ladder, process.enabled, Stagnant(next.measurements))
      BY <1>1 DEF vars, Advance, Escalate, Stagnant, Now
    <3> QED
      BY <1>1, <3>1 DEF vars, IInv, WriteInv, Due, Now
  <2>3. ConfigurationFollowsLadder'
    BY <1>1 DEF vars, IInv, ConfigurationFollowsLadder
  <2> QED
    BY <1>1, <2>1, <2>2, <2>3, SameRecord DEF vars, IInv
<1> QED
  BY <1>1, RestartKeeps, GenerateKeeps, MeasureKeeps, MeasureNothingKeeps,
     WriteKeeps, WriteFailsKeeps, CommitKeeps, DieKeeps DEF Next

THEOREM Inductive == ASSUME Parameters PROVE Spec => []IInv
BY Start, Step, PTL DEF Spec

(* The clock, the files and the configuration keep their types, and the    *)
(* clock never passes the games there are (LadderState, training_clock).   *)
THEOREM TypeCorrect == ASSUME Parameters PROVE Spec => []TypeOK
<1>1. IInv => TypeOK
  BY DEF IInv
<1> QED
  BY <1>1, Inductive, PTL

(* A rung is applied only to a run that has stopped learning, and after    *)
(* the window of the one before it; it is withdrawn only for what was      *)
(* measured since (InterventionLadder.advance).                            *)
THEOREM Earn == ASSUME Parameters PROVE Spec => []InterventionsAreEarned
<1>1. IInv => InterventionsAreEarned
  BY DEF IInv
<1> QED
  BY <1>1, Inductive, PTL

(* A process plays under the rung on record, in each of its starts         *)
(* (PhaseDLoop.restore_intervention).                                      *)
THEOREM Configured == ASSUME Parameters PROVE Spec => []ConfigurationFollowsLadder
<1>1. IInv => ConfigurationFollowsLadder
  BY DEF IInv
<1> QED
  BY <1>1, Inductive, PTL
=============================================================================

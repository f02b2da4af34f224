----------------------------- MODULE Interventions -----------------------------
(***************************************************************************)
(* What a run does when it stops learning (az_loop/stagnation.py): after a *)
(* self-anchor measurement the detector looks at the last few of them, and *)
(* the ladder may apply its next rung, a change of the working             *)
(* configuration.  Measurements and ladder are kept in stagnation.json,    *)
(* the configuration in the process; the process may die at any moment,    *)
(* and an operator may switch the ladder on or off when he starts it again.*)
(* Of an iteration there are only the games it adds to the clock.  A score *)
(* is whether its lower bound clears the null.                             *)
(***************************************************************************)
EXTENDS Integers, SequencesExt

CONSTANTS
    Rungs,           (* rungs of the ladder                                *)
    MinMeasurements, (* measurements the detector looks at                 *)
    Window,          (* games a rung is held before it is judged           *)
    Every,           (* games between two measurements                     *)
    IterationGames,  (* set: games one iteration may play                  *)
    MaxGames,        (* bound on the clock                                 *)
    MaxDeaths,       (* bound: times the process dies                      *)
    MaxFailures      (* bound: writes of stagnation.json that fail         *)

VARIABLES
    clock,           (* games through the last committed iteration         *)
    playing,         (* games of the iteration under way                   *)
    file,            (* stagnation.json: measurements, ladder              *)
    process,         (* what it does, the rung in its configuration, and   *)
                     (* whether its ladder is enabled                      *)
    next,            (* what it is about to write                          *)
    moves,           (* history: changes of the rung                       *)
    unsaved,         (* history: the rung in force could not be saved      *)
    dead,            (* times the process has died                         *)
    failures         (* writes that have failed                            *)

vars == <<clock, playing, file, process, next, moves, unsaved, dead, failures>>

NoRung  == 0
Holding == {"intervening", "exhausted"}
Calm    == {"normal", "stagnant"}

Ladder == [state : Holding \cup Calm, rung : NoRung..Rungs, entered : 0..MaxGames]
Fresh  == [state |-> "normal", rung |-> NoRung, entered |-> 0]

NothingToWrite == [measurements |-> <<>>, ladder |-> Fresh]

Now == clock + playing

(* The lower bounds of the last measurements, none of which clears the null. *)
Stagnant(measurements) ==
    /\ Len(measurements) >= MinMeasurements
    /\ \A k \in Len(measurements) - MinMeasurements + 1..Len(measurements) :
          ~measurements[k].clears

(* The rung that is in force, if the ladder is enabled. *)
Active(ladder, enabled) == IF enabled THEN ladder.rung ELSE NoRung

(* The last rung stays applied when there is none left. *)
Escalate(ladder) ==
    IF ladder.rung = Rungs
    THEN [ladder EXCEPT !.state = "exhausted", !.entered = Now]
    ELSE [state |-> "intervening", rung |-> ladder.rung + 1, entered |-> Now]

Advance(ladder, enabled, stagnant) ==
    CASE ~enabled ->
           [ladder EXCEPT !.state = IF stagnant THEN "stagnant" ELSE "normal"]
      [] enabled /\ ladder.state \in Calm /\ ~stagnant ->
           [ladder EXCEPT !.state = "normal"]
      [] enabled /\ ladder.state \in Holding /\ Now - ladder.entered < Window ->
           ladder
      [] enabled /\ ladder.state \in Holding /\ Now - ladder.entered >= Window
                 /\ ~stagnant ->
           [Fresh EXCEPT !.entered = Now]
      [] OTHER -> Escalate(ladder)

TypeOK ==
    /\ clock \in 0..MaxGames /\ playing \in 0..MaxGames
    /\ file.ladder \in Ladder /\ next.ladder \in Ladder
    /\ file.measurements \in Seq([games : 1..MaxGames, clears : BOOLEAN])
    /\ process \in [at : {"down", "start", "iteration", "write", "commit"},
                    rung : NoRung..Rungs, enabled : BOOLEAN]
    /\ unsaved \in BOOLEAN
    /\ dead \in 0..MaxDeaths /\ failures \in 0..MaxFailures

Init ==
    /\ clock = 0 /\ playing = 0
    /\ file = NothingToWrite /\ next = NothingToWrite
    /\ process \in [at : {"start"}, rung : {NoRung}, enabled : BOOLEAN]
    /\ moves = <<>> /\ unsaved = FALSE /\ dead = 0 /\ failures = 0

-----------------------------------------------------------------------------
(* restore_intervention: the rung of the file, whoever applied it.         *)
Restart(enabled) ==
    /\ process.at = "down"
    /\ process' = [at |-> "start", rung |-> Active(file.ladder, enabled),
                   enabled |-> enabled]
    /\ unsaved' = FALSE
    /\ UNCHANGED <<clock, playing, file, next, moves, dead, failures>>

Generate ==
    /\ process.at = "start"
    /\ playing' \in IterationGames /\ clock + playing' <= MaxGames
    /\ process' = [process EXCEPT !.at = "iteration"]
    /\ UNCHANGED <<clock, file, next, moves, unsaved, dead, failures>>

Due ==
    LET measurements == file.measurements
    IN  measurements # <<>> => Now - Last(measurements).games >= Every

(* measure_stagnation up to the configuration: the measurement, the        *)
(* verdict, the ladder's answer.                                           *)
Measure(clears) ==
    LET measurements == Append(file.measurements, [games |-> Now, clears |-> clears])
        ladder == Advance(file.ladder, process.enabled, Stagnant(measurements))
    IN  /\ process.at = "iteration" /\ Due
        /\ next' = [measurements |-> measurements, ladder |-> ladder]
        /\ process' = [process EXCEPT !.at = "write",
                                      !.rung = Active(ladder, process.enabled)]
        /\ UNCHANGED <<clock, playing, file, moves, unsaved, dead, failures>>

(* Not due, too early for an anchor, or it raised.                         *)
MeasureNothing ==
    /\ process.at = "iteration"
    /\ process' = [process EXCEPT !.at = "commit"]
    /\ UNCHANGED <<clock, playing, file, next, moves, unsaved, dead, failures>>

Write ==
    /\ process.at = "write"
    /\ file' = next /\ next' = NothingToWrite
    /\ process' = [process EXCEPT !.at = "commit"]
    /\ unsaved' = FALSE
    /\ moves' = IF next.ladder.entered = file.ladder.entered THEN moves
                ELSE Append(moves, [from |-> file.ladder, to |-> next.ladder,
                                    seen |-> Len(next.measurements)])
    /\ UNCHANGED <<clock, playing, dead, failures>>

(* The controller goes on without the measurement, and with the rung.      *)
WriteFails ==
    /\ process.at = "write" /\ failures < MaxFailures
    /\ failures' = failures + 1
    /\ next' = NothingToWrite
    /\ process' = [process EXCEPT !.at = "commit"]
    /\ unsaved' = TRUE
    /\ UNCHANGED <<clock, playing, file, moves, dead>>

Commit ==
    /\ process.at = "commit"
    /\ clock' = Now /\ playing' = 0
    /\ process' = [process EXCEPT !.at = "start"]
    /\ UNCHANGED <<file, next, moves, unsaved, dead, failures>>

(* The row is not there, so the games of its iteration are played again.   *)
Die ==
    /\ process.at # "down" /\ dead < MaxDeaths
    /\ dead' = dead + 1
    /\ playing' = 0 /\ next' = NothingToWrite
    /\ process' = [at |-> "down", rung |-> NoRung, enabled |-> FALSE]
    /\ UNCHANGED <<clock, file, moves, unsaved, failures>>

Next ==
    \/ \E enabled \in BOOLEAN : Restart(enabled)
    \/ Generate
    \/ \E clears \in BOOLEAN : Measure(clears)
    \/ MeasureNothing \/ Write \/ WriteFails \/ Commit \/ Die

Spec == Init /\ [][Next]_vars
-----------------------------------------------------------------------------
(* Properties.                                                             *)

Clears(from, to) == \E k \in from..to : file.measurements[k].clears

(* A rung is applied only after MinMeasurements measurements in a row have *)
(* failed; the one before it was held for its window, and was given up as  *)
(* recovered only for a measurement taken since it was applied, so that    *)
(* what a rung has done is told from what the others have, across restarts *)
(* and measurements whose iteration was played again.                      *)
InterventionsAreEarned ==
    \A i \in DOMAIN moves :
        LET m == moves[i]
            held == m.from.state \in Holding
        IN  /\ held => /\ i > 1 /\ moves[i - 1].to.rung = m.from.rung
                       /\ m.to.entered - moves[i - 1].to.entered >= Window
            /\ IF m.to.rung = NoRung
               THEN held /\ Clears(moves[i - 1].seen + 1, m.seen)
               ELSE /\ m.seen >= MinMeasurements
                    /\ ~Clears(m.seen - MinMeasurements + 1, m.seen)
                    /\ m.to.rung \in {m.from.rung + 1, Rungs}

(* The process plays under the rung that the file names, if its ladder is  *)
(* enabled, and under none otherwise, whenever it was started, unless the  *)
(* file could not be written.                                              *)
ConfigurationFollowsLadder ==
    process.at \notin {"down", "write"} /\ ~unsaved =>
        process.rung = Active(file.ladder, process.enabled)
=============================================================================

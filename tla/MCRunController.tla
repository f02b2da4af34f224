---------------------------- MODULE MCRunController ----------------------------
(***************************************************************************)
(* Instances for TLC of the two run controllers, and of the log the first  *)
(* one implements.  A behaviour is one of a run on disk; one of a log      *)
(* alone, longer than what fits with files and crashes, with a gate at     *)
(* every other iteration, resets after several rejects or probations, and  *)
(* two rungs; one of a Welcome To run of three iterations, with a window   *)
(* of two and gates at the second and the third; one of a single           *)
(* iteration of such a run with more games, several shards and a last one  *)
(* that is shorter; or one of the interventions of a run that has stopped  *)
(* learning.                                                               *)
(***************************************************************************)
EXTENDS RunController

VARIABLES
    which, log,
    shards, iteration, queue, held, index, failure, admitted, writer, reply,
    faults,
    currentBest, archive, league, manifests, generated, ledgered, candidates,
    trained, records, progress, cut, stage, resumed, played, holding, raised,
    refused, deaths,
    clock, playing, file, process, next, moves, unsaved, dead, failures

Longer == INSTANCE RunLog WITH
            PromotionEvery <- 2, RevertResetAfter <- 2, ProbationResetAfter <- 3,
            Top <- 2, StepUpAfter <- 2, FloorGames <- 4,
            MaxRows <- 16, MinBufferGames <- 2

Welcome == INSTANCE WelcomeRun WITH
             Iterations <- 3, Games <- 2, ShardGames <- 2, QueueGames <- 1,
             GateEvery <- 2, WindowGames <- 3, MaxDeaths <- 2, MaxFaults <- 1

Sharded == INSTANCE WelcomeRun WITH
             Iterations <- 1, Games <- 4, ShardGames <- 2, QueueGames <- 1,
             GateEvery <- 2, WindowGames <- 4, MaxDeaths <- 2, MaxFaults <- 1

Ladder == INSTANCE Interventions WITH
            Rungs <- 2, MinMeasurements <- 2, Window <- 2, Every <- 1,
            IterationGames <- {1, 2}, MaxGames <- 6, MaxDeaths <- 2,
            MaxFailures <- 1

welcome ==
    <<shards, iteration, queue, held, index, failure, admitted, writer, reply,
      faults, currentBest, archive, league, manifests, generated, ledgered,
      candidates, trained, records, progress, cut, stage, resumed, played,
      holding, raised, refused, deaths>>

ladder ==
    <<clock, playing, file, process, next, moves, unsaved, dead, failures>>

notRun     == <<which, log, welcome, ladder>>
notLog     == <<which, vars, welcome, ladder>>
notWelcome == <<which, vars, log, ladder>>
notLadder  == <<which, vars, log, welcome>>
everything == <<vars, notRun>>

(* What a behaviour does not have stays as it begins. *)
EitherInit ==
    /\ which \in {"run", "log", "welcome", "sharded", "ladder"}
    /\ Init /\ log = <<>>
    /\ IF which = "sharded" THEN Sharded!Init ELSE Welcome!Init
    /\ Ladder!Init /\ (which # "ladder" => process.enabled)

EitherNext ==
    \/ which = "run"     /\ Next         /\ UNCHANGED notRun
    \/ which = "log"     /\ Longer!Next  /\ UNCHANGED notLog
    \/ which = "welcome" /\ Welcome!Next /\ UNCHANGED notWelcome
    \/ which = "sharded" /\ Sharded!Next /\ UNCHANGED notWelcome
    \/ which = "ladder"  /\ Ladder!Next  /\ UNCHANGED notLadder

EitherSpec ==
    /\ EitherInit /\ [][EitherNext]_everything
    /\ WF_everything(which = "run" /\ (StartUp \/ Iteration) /\ UNCHANGED notRun)
    /\ WF_everything(which = "welcome" /\ Welcome!Drive /\ UNCHANGED notWelcome)
    /\ WF_everything(which = "welcome" /\ Welcome!WriterStep /\ UNCHANGED notWelcome)
    /\ WF_everything(which = "sharded" /\ Sharded!Drive /\ UNCHANGED notWelcome)
    /\ WF_everything(which = "sharded" /\ Sharded!WriterStep /\ UNCHANGED notWelcome)

-----------------------------------------------------------------------------
(* Properties.                                                             *)

(* A learner is thrown away exactly when the configured number of rejects, *)
(* or of probations, has built up since the evidence was last settled: not *)
(* earlier, not later, whatever unscheduled, warmup or suppressed rows lie *)
(* in between, and whatever crashes the rows have survived                 *)
(* (training_control.gate_transition).                                     *)
ResetsAreExact ==
    IF which = "run" THEN Log!ResetsAreExact ELSE Longer!ResetsAreExact

(* A bigger gate is bought with StepUpAfter probations in a row, all of    *)
(* them above the floor and none of them spent before; a smaller one only  *)
(* with a promotion (training_control._ladder_after).  An intervention is  *)
(* made only for a run that has stopped learning, after the window of the  *)
(* one before, and withdrawn for what it has brought about itself          *)
(* (stagnation.InterventionLadder).                                        *)
RungsAreEarned ==
    CASE which = "run"    -> Log!RungsAreEarned
      [] which = "ladder" -> Ladder!TypeOK /\ Ladder!InterventionsAreEarned
      [] OTHER            -> Longer!RungsAreEarned

(* Whose games an iteration plays is what the gates before it have decided,*)
(* also if the process died while it applied a decision: those of the      *)
(* protected best exactly while the last transition that was not merely    *)
(* unscheduled was a revert (select_generator_source); in a Welcome To run *)
(* those of the learner, against the best and the ones it replaced.  They  *)
(* are played under the intervention that is on record, after a restart    *)
(* too (restore_intervention).                                             *)
GeneratorFollowsGates ==
    CASE which = "run"     -> Log!GeneratorFollowsGates
      [] which = "log"     -> Longer!GeneratorFollowsGates
      [] which = "welcome" -> Welcome!PoolFollowsGates
      [] which = "sharded" -> Sharded!PoolFollowsGates
      [] which = "ladder"  -> Ladder!ConfigurationFollowsLadder

(* Nothing of an interrupted attempt gets into the weights: each training  *)
(* goes on from the learner before it, with the moments and the games that *)
(* belong to it.                                                           *)
LineageIsClean ==
    /\ CleanLineage
    /\ which = "welcome" => Welcome!CandidatesDescend
    /\ which = "sharded" => Sharded!CandidatesDescend

(* Every best that was replaced is in the archive its run keeps, and       *)
(* nothing else is, however often its replacement was attempted.           *)
ReplacedBestsAreKept ==
    /\ HallOfFameIsComplete
    /\ which = "welcome" => Welcome!LeagueIsComplete
    /\ which = "sharded" => Sharded!LeagueIsComplete

(* The shards of a Welcome To iteration hold each of its games once.       *)
EachGameOnce ==
    IF which = "sharded" THEN Sharded!TypeOK /\ Sharded!CorpusIsExact
                         ELSE Welcome!TypeOK /\ Welcome!CorpusIsExact

WelcomeEnded ==
    CASE which = "welcome" -> Welcome!Finished \/ Welcome!Stranded
      [] which = "sharded" -> Sharded!Finished \/ Sharded!Stranded
      [] OTHER             -> FALSE

WelcomeRefusal ==
    CASE which = "welcome" -> ~Welcome!RefusedOnlyIfStranded
      [] which = "sharded" -> ~Sharded!RefusedOnlyIfStranded
      [] OTHER             -> FALSE

(* Both runs end, whatever interrupts them, unless they die where no later *)
(* start can go on; and a Welcome To run refuses its own files nowhere     *)
(* else.                                                                   *)
RunsComplete ==
    /\ RunCompletes
    /\ []~WelcomeRefusal
    /\ which \in {"welcome", "sharded"} ~> WelcomeEnded
=============================================================================

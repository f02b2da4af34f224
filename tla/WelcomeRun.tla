------------------------------ MODULE WelcomeRun ------------------------------
(***************************************************************************)
(* A Welcome To training run on disk (games/welcome_to/s2_run.py): each    *)
(* iteration generates games (self_play.py, SampleShards), trains a        *)
(* candidate on a window of them (s2_replay.py, s2_train.py) and, at every *)
(* GateEvery-th, plays it against the best so far, which it replaces if it *)
(* wins (s2_promotion.py, s2_league.py).  Every durable write is a step,   *)
(* and the process may die between any two; the same command started again *)
(* is all the recovery there is.                                           *)
(*                                                                         *)
(* Checkpoint 0 is the random network, i the candidate of iteration i.     *)
(* Files written through a temporary and os.replace are whole or absent;   *)
(* the two metrics files and a line of progress.jsonl are written in       *)
(* place, and may be left in part.                                         *)
(***************************************************************************)
EXTENDS SampleShards, SequencesExt

CONSTANTS
    GateEvery,
    WindowGames,  (* games the replay window asks for                      *)
    MaxDeaths     (* bound: deaths of the process, and interrupts          *)

VARIABLES
    \* the run directory
    currentBest,  (* current_best.pt                                       *)
    archive,      (* promoted/                                             *)
    league,       (* league.json                                           *)
    manifests,    (* trajectories.jsonl.manifest.json, by iteration        *)
    generated,    (* trajectories.jsonl.metrics.json: its total_games      *)
    ledgered,     (* replay_ledger.json: games, 0 for no entry             *)
    candidates,   (* candidate_iter_NNNN.pt                                *)
    trained,      (* its metrics.json                                      *)
    records,      (* its gate.json                                         *)
    progress,     (* progress.jsonl, its complete lines                    *)
    cut,          (* it ends in part of a line                             *)
    \* the process
    stage,
    resumed,      (* games the generation found on disk                    *)
    played,       (* games it has added                                    *)
    holding,      (* game that waits for room in the channel, 0 for none   *)
    raised,       (* the generation ends with an exception                 *)
    refused,      (* the last process ended because of a file it had read  *)
    deaths

strength == <<currentBest, archive, league, records>>
replay   == <<manifests, generated, ledgered>>
training == <<candidates, trained>>
lines    == <<progress, cut>>
running  == <<resumed, played, holding, raised>>
ends     == <<refused, deaths>>
vars     == <<writerVars, strength, replay, training, lines, stage, running,
              ends>>

Absent == -2
Part   == -1
Ids    == 1..Iterations

NoManifest  == [learner |-> Absent, best |-> Absent, pool |-> {}]
NoCandidate == [from |-> Absent, window |-> {}]
NoRecord    == [status |-> "none", promoted |-> FALSE, incumbent |-> Absent]

Checkpoints == 0..Iterations

TypeOK ==
    /\ WriterTypeOK
    /\ currentBest \in Checkpoints \cup {Absent}
    /\ archive \subseteq Checkpoints
    /\ league \in Seq(Checkpoints)
    /\ manifests \in [Ids -> {NoManifest} \cup
         [learner : Checkpoints, best : Checkpoints, pool : SUBSET Checkpoints]]
    /\ generated \in [Ids -> {Absent, Part} \cup 0..Games]
    /\ ledgered \in [Ids -> 0..Games]
    /\ candidates \in [Ids -> {NoCandidate} \cup
         [from : Checkpoints, window : SUBSET Ids]]
    /\ trained \in [Ids -> {Absent, Part, 0}]
    /\ records \in [Ids -> {NoRecord} \cup
         [status : {"installing", "complete"}, promoted : BOOLEAN,
          incumbent : Checkpoints]]
    /\ progress \in Seq(Ids) /\ cut \in BOOLEAN
    /\ stage \in {"down", "generate", "play", "send", "close", "await",
                  "metrics", "end_metrics", "train", "fit", "save_metrics",
                  "end_saving", "gate", "archive", "install", "register",
                  "complete", "report", "append", "finished"}
    /\ resumed \subseteq Seeds /\ played \subseteq Seeds
    /\ holding \in Seeds \cup {0}
    /\ raised \in BOOLEAN /\ refused \in BOOLEAN
    /\ deaths \in 0..MaxDeaths

Init ==
    /\ WriterInit
    /\ currentBest = Absent /\ archive = {} /\ league = <<>>
    /\ manifests = [i \in Ids |-> NoManifest]
    /\ generated = [i \in Ids |-> Absent]
    /\ ledgered = [i \in Ids |-> 0]
    /\ candidates = [i \in Ids |-> NoCandidate]
    /\ trained = [i \in Ids |-> Absent]
    /\ records = [i \in Ids |-> NoRecord]
    /\ progress = <<>> /\ cut = FALSE
    /\ stage = "down" /\ resumed = {} /\ played = {} /\ holding = 0
    /\ raised = FALSE /\ refused = FALSE /\ deaths = 0

----------------------------------------------------------------------------
(* The process starts and ends.                                            *)

Forget ==
    /\ WriterDies
    /\ iteration' = 0 /\ stage' = "down"
    /\ resumed' = {} /\ played' = {} /\ holding' = 0 /\ raised' = FALSE

(* Something on disk makes the process raise. *)
Refuse ==
    /\ Forget
    /\ refused' = TRUE
    /\ UNCHANGED <<shards, faults, strength, replay, training, lines, deaths>>

Crash ==
    /\ stage \notin {"down", "finished"} /\ deaths < MaxDeaths
    /\ Forget
    /\ deaths' = deaths + 1
    /\ refused' = FALSE
    /\ UNCHANGED <<shards, faults, strength, replay, training, lines>>

Goto(s) ==
    /\ stage' = s
    /\ UNCHANGED <<writerVars, running, ends>>

(* The loop over the iterations, past those that have a line. *)
Unfinished(done) == {i \in Ids : i \notin ToSet(done)}

Proceed(done) ==
    IF Unfinished(done) = {} THEN stage' = "finished" /\ iteration' = 0
    ELSE /\ stage' = "generate"
         /\ iteration' = CHOOSE i \in Unfinished(done) :
                           \A j \in Unfinished(done) : i <= j

StartUp ==
    /\ stage = "down" /\ ~cut
    /\ currentBest' = IF currentBest = Absent THEN 0 ELSE currentBest
    /\ Proceed(progress)
    /\ refused' = FALSE
    /\ UNCHANGED <<shards, queue, admitted, thread, faults, archive, league,
                   records, replay, training, lines, running, deaths>>

StartRefused == stage = "down" /\ cut /\ Refuse

----------------------------------------------------------------------------
(* Generation.                                                             *)

Made(i) == candidates[i] # NoCandidate

Learner(i) == IF i > 1 /\ Made(i - 1) THEN i - 1 ELSE currentBest

(* The opponents are a function of the best and of the league's entries,   *)
(* and the manifest pins them all by hash.  They are in the league's order,*)
(* which is that of their iterations: the set tells them apart.            *)
Identity(i) ==
    [learner |-> Learner(i),
     best    |-> currentBest,
     pool    |-> ToSet(league) \ {currentBest}]

GenerationComplete(i) == generated[i] >= Games

SkipGeneration ==
    /\ stage = "generate" /\ GenerationComplete(iteration)
    /\ Goto("train")
    /\ UNCHANGED <<strength, replay, training, lines>>

Disjoint(i) == \A k, n \in DOMAIN shards[i] :
                 k # n => shards[i][k] \cap shards[i][n] = {}

(* Metrics that do not parse, a league checkpoint that is gone, seeds in   *)
(* two shards, another identity, shards without a manifest.                *)
Resumable(i) ==
    /\ generated[i] # Part
    /\ ToSet(league) \subseteq archive
    /\ Disjoint(i)
    /\ \/ manifests[i] = Identity(i)
       \/ manifests[i] = NoManifest /\ shards[i] = <<>>

GenerationRefused ==
    /\ stage = "generate" /\ ~GenerationComplete(iteration)
    /\ ~Resumable(iteration)
    /\ Refuse

Generate ==
    /\ stage = "generate" /\ ~GenerationComplete(iteration)
    /\ Resumable(iteration) /\ ~(Seeds \subseteq Content(iteration))
    /\ manifests' = [manifests EXCEPT ![iteration] = Identity(iteration)]
    /\ Open(iteration)
    /\ resumed' = Content(iteration) /\ played' = {}
    /\ stage' = "play"
    /\ UNCHANGED <<shards, iteration, faults, strength, generated, ledgered,
                   training, lines, holding, raised, ends>>

(* Every game is in a shard: "already complete", and nothing is written. *)
FindAllGames ==
    /\ stage = "generate" /\ ~GenerationComplete(iteration)
    /\ Resumable(iteration) /\ Seeds \subseteq Content(iteration)
    /\ Goto("train")
    /\ UNCHANGED <<strength, replay, training, lines>>

Pending == Seeds \ (resumed \cup played)

EndGame(seed) ==
    /\ stage = "play" /\ seed \in Pending /\ MayAdd(seed)
    /\ admitted' = admitted \cup {seed}
    /\ played' = played \cup {seed}
    /\ holding' = seed
    /\ stage' = "send"
    /\ UNCHANGED <<shards, iteration, queue, thread, faults, strength, replay,
                   training, lines, resumed, raised, ends>>

Send ==
    /\ stage = "send" /\ HasRoom
    /\ queue' = Append(queue, holding)
    /\ holding' = 0
    /\ stage' = "play"
    /\ UNCHANGED <<shards, iteration, admitted, thread, faults, strength,
                   replay, training, lines, resumed, played, raised, ends>>

EndPlay(error) ==
    /\ stage = "play"
    /\ raised' = error
    /\ stage' = "close"
    /\ UNCHANGED <<writerVars, strength, replay, training, lines, resumed,
                   played, holding, refused>>

AllPlayed == Pending = {} /\ EndPlay(FALSE) /\ UNCHANGED deaths

(* add raises the writer's failure. *)
AddRaises == /\ \E seed \in Pending : ~MayAdd(seed)
             /\ EndPlay(TRUE) /\ UNCHANGED deaths

(* Ctrl-C or an exception in a search: `finally' still drains the queue. *)
Interrupt == deaths < MaxDeaths /\ EndPlay(TRUE) /\ deaths' = deaths + 1

SendClose ==
    /\ stage = "close" /\ HasRoom
    /\ queue' = Append(queue, Close)
    /\ stage' = "await"
    /\ UNCHANGED <<shards, iteration, admitted, thread, faults, strength,
                   replay, training, lines, running, ends>>

Closed ==
    /\ stage = "await" /\ reply = "ok" /\ ~raised
    /\ WriterDies
    /\ stage' = "metrics"
    /\ UNCHANGED <<shards, iteration, faults, strength, replay, training, lines,
                   running, ends>>

ExitRaised ==
    /\ stage = "await" /\ reply # "none" /\ (raised \/ reply = "error")
    /\ Forget
    /\ refused' = FALSE
    /\ UNCHANGED <<shards, faults, strength, replay, training, lines, deaths>>

BeginMetrics ==
    /\ stage = "metrics"
    /\ generated' = [generated EXCEPT ![iteration] = Part]
    /\ Goto("end_metrics")
    /\ UNCHANGED <<strength, manifests, ledgered, training, lines>>

EndMetrics ==
    /\ stage = "end_metrics"
    /\ generated' = [generated EXCEPT ![iteration] =
                       Cardinality(resumed) + Cardinality(played)]
    /\ resumed' = {} /\ played' = {}
    /\ stage' = "train"
    /\ UNCHANGED <<writerVars, strength, manifests, ledgered, training, lines,
                   holding, raised, ends>>

----------------------------------------------------------------------------
(* Training.                                                               *)

SkipTraining ==
    /\ stage = "train" /\ Made(iteration)
    /\ Goto("gate")
    /\ UNCHANGED <<strength, replay, training, lines>>

(* An iteration without metrics is taken for the residue of a crash. *)
Available == {k \in 1..iteration : /\ shards[k] # <<>>
                                   /\ manifests[k] # NoManifest
                                   /\ generated[k] # Absent}

(* Whole iterations, newest first, until the window has its games; each of *)
(* them has Games.                                                         *)
Window == {k \in Available :
             Cardinality({n \in Available : n > k}) * Games < WindowGames}

(* The shards of an iteration are read when it enters the ledger and when  *)
(* it is in the window; one that has entered stays as it was.              *)
Consistent ==
    /\ Available # {}
    /\ \A k \in 1..iteration : ledgered[k] # 0 => k \in Available
    /\ \A k \in Available :
         /\ generated[k] > 0
         /\ ledgered[k] \in {0, generated[k]}
         /\ ledgered[k] = 0 \/ k \in Window =>
              Disjoint(k) /\ generated[k] = Cardinality(Content(k))

TrainingRefused == stage = "train" /\ ~Made(iteration) /\ ~Consistent /\ Refuse

SyncLedger ==
    /\ stage = "train" /\ ~Made(iteration) /\ Consistent
    /\ ledgered' = [k \in Ids |->
                      IF k \in Available THEN generated[k] ELSE ledgered[k]]
    /\ Goto("fit")
    /\ UNCHANGED <<strength, manifests, generated, training, lines>>

SaveCandidate ==
    /\ stage = "fit"
    /\ candidates' = [candidates EXCEPT ![iteration] =
                        [from |-> Learner(iteration), window |-> Window]]
    /\ Goto("save_metrics")
    /\ UNCHANGED <<strength, replay, trained, lines>>

BeginTrained ==
    /\ stage = "save_metrics"
    /\ trained' = [trained EXCEPT ![iteration] = Part]
    /\ Goto("end_saving")
    /\ UNCHANGED <<strength, replay, candidates, lines>>

EndTrained ==
    /\ stage = "end_saving"
    /\ trained' = [trained EXCEPT ![iteration] = 0]
    /\ Goto("gate")
    /\ UNCHANGED <<strength, replay, candidates, lines>>

----------------------------------------------------------------------------
(* The gate.  Its record is the decision; a promotion is first recorded as *)
(* installing, and each later step can be taken again.                     *)

Gated(i) == i % GateEvery = 0 \/ i = Iterations

(* Faulty variant: any record is taken for a finished gate. *)
GateRecorded(i) == records[i].status # "none"

GateComplete(i) == records[i].status = "complete"

SkipGate ==
    /\ stage = "gate" /\ (~Gated(iteration) \/ GateComplete(iteration))
    /\ Goto("report")
    /\ UNCHANGED <<strength, replay, training, lines>>

Judge(passed) ==
    /\ stage = "gate" /\ Gated(iteration) /\ records[iteration] = NoRecord
    /\ records' = [records EXCEPT ![iteration] =
                     [status    |-> IF passed THEN "installing" ELSE "complete",
                      promoted  |-> passed,
                      incumbent |-> currentBest]]
    /\ Goto(IF passed THEN "archive" ELSE "report")
    /\ UNCHANGED <<currentBest, archive, league, replay, training, lines>>

Recover ==
    /\ stage = "gate" /\ Gated(iteration) /\ ~GateComplete(iteration)
    /\ records[iteration].status = "installing"
    /\ Goto("archive")
    /\ UNCHANGED <<strength, replay, training, lines>>

Incumbent == records[iteration].incumbent

(* The best is one of the two the record pins, and if it is the new one    *)
(* already then the old one has been kept.                                 *)
Recoverable ==
    \/ currentBest = Incumbent
    \/ currentBest = iteration /\ Incumbent \in archive

InstallRefused == stage = "archive" /\ ~Recoverable /\ Refuse

ArchiveBest ==
    /\ stage = "archive" /\ Recoverable
    /\ archive' = archive \cup {Incumbent}
    /\ Goto("install")
    /\ UNCHANGED <<currentBest, league, records, replay, training, lines>>

InstallCandidate ==
    /\ stage = "install"
    /\ currentBest' = iteration
    /\ Goto("register")
    /\ UNCHANGED <<archive, league, records, replay, training, lines>>

(* Faulty variant: an entry for each attempt. *)
RegisterAlways ==
    /\ stage = "register"
    /\ league' = Append(league, Incumbent)
    /\ Goto("complete")
    /\ UNCHANGED <<currentBest, archive, records, replay, training, lines>>

Register ==
    /\ stage = "register"
    /\ league' = IF Incumbent \in ToSet(league) THEN league
                 ELSE Append(league, Incumbent)
    /\ Goto("complete")
    /\ UNCHANGED <<currentBest, archive, records, replay, training, lines>>

CompleteRecord ==
    /\ stage = "complete"
    /\ records' = [records EXCEPT ![iteration].status = "complete"]
    /\ Goto("report")
    /\ UNCHANGED <<currentBest, archive, league, replay, training, lines>>

----------------------------------------------------------------------------
(* The line of the iteration, made from the files of its stages.           *)

Readable == generated[iteration] >= 0 /\ trained[iteration] >= 0

ReportRefused == stage = "report" /\ ~Readable /\ Refuse

BeginLine ==
    /\ stage = "report" /\ Readable
    /\ cut' = TRUE
    /\ Goto("append")
    /\ UNCHANGED <<strength, replay, training, progress>>

EndLine ==
    /\ stage = "append"
    /\ cut' = FALSE
    /\ progress' = Append(progress, iteration)
    /\ Proceed(progress')
    /\ UNCHANGED <<shards, queue, admitted, thread, faults, strength, replay,
                   training, running, ends>>

----------------------------------------------------------------------------
Drive ==
    \/ StartUp \/ StartRefused
    \/ SkipGeneration \/ GenerationRefused \/ Generate \/ FindAllGames
    \/ (\E seed \in Seeds : EndGame(seed)) \/ Send \/ AllPlayed \/ AddRaises
    \/ SendClose \/ Closed \/ ExitRaised \/ BeginMetrics \/ EndMetrics
    \/ SkipTraining \/ TrainingRefused \/ SyncLedger \/ SaveCandidate
    \/ BeginTrained \/ EndTrained
    \/ SkipGate \/ (\E passed \in BOOLEAN : Judge(passed)) \/ Recover
    \/ InstallRefused \/ ArchiveBest \/ InstallCandidate \/ Register
    \/ CompleteRecord
    \/ ReportRefused \/ BeginLine \/ EndLine

WriterStep ==
    /\ Write
    /\ UNCHANGED <<strength, replay, training, lines, stage, running, ends>>

Next == Drive \/ WriterStep \/ Crash \/ Interrupt

Safety == Init /\ [][Next]_vars

(* The process goes on, the writer thread with it, and one that ended is   *)
(* started again.                                                          *)
Spec == Safety /\ WF_vars(Drive) /\ WF_vars(WriterStep)

----------------------------------------------------------------------------
(* Properties.                                                             *)

(* The games of an iteration, however many processes it took to make them: *)
(* no game is in two shards, none that the metrics count is missing, and   *)
(* the ledger's clock counts what the shards hold (validate_resume,        *)
(* RustSampleShardWriter, cumulative_generation_metrics).                  *)
CorpusIsExact ==
    \A i \in Ids :
        /\ Disjoint(i)
        /\ generated[i] >= 0 => Content(i) = Seeds /\ generated[i] = Games
        /\ ledgered[i] # 0 => Content(i) = Seeds /\ ledgered[i] = Games

(* The candidate whose promotion was the last one before the gate of i. *)
Champion(i) == CHOOSE c \in Checkpoints :
    /\ c = 0 \/ (c < i /\ records[c].promoted)
    /\ \A k \in 1..i - 1 : records[k].promoted => k <= c

Installing == {i \in Ids : records[i].status = "installing"}

(* A promotion happens once and whole, however often it was interrupted:   *)
(* the best is the last candidate that won its gate, each best that was    *)
(* replaced is kept, and the league lists exactly those, once each and in  *)
(* order (_finish_promotion_intent).                                       *)
LeagueIsComplete ==
    LET Replaced(S) ==
          {records[k].incumbent : k \in {n \in S : records[n].promoted}}
    IN  /\ \A i \in Ids : records[i].promoted => records[i].incumbent = Champion(i)
        /\ currentBest \in {Absent, Champion(Iterations + 1)}
              \cup {Champion(i) : i \in Installing}
        /\ Replaced(Ids \ Installing) \subseteq ToSet(league)
        /\ ToSet(league) \subseteq Replaced(Ids) \cap archive
        /\ \A k, n \in DOMAIN league : k < n => league[k] < league[n]
        /\ \A i \in Installing : currentBest = Champion(i) \/ Champion(i) \in archive

(* Every candidate goes on from the one before it, on whole iterations and *)
(* the newest among them, whatever died on the way, except for one whose   *)
(* metrics were never written, and which it does not see                   *)
(* (discover_iterations).                                                  *)
CandidatesDescend ==
    \A i \in Ids : Made(i) =>
        /\ candidates[i].from = i - 1
        /\ \A k \in candidates[i].window : k <= i /\ Content(k) = Seeds
        /\ i \in candidates[i].window \/ generated[i] = Absent

(* The games of an iteration are all played by the candidate before it,    *)
(* against the best the gates before it have left and those it replaced:   *)
(* a promotion that died half way is finished before anyone plays          *)
(* (run_iteration, ensure_run_manifest).                                   *)
PoolFollowsGates ==
    \A i \in Ids : manifests[i] # NoManifest =>
        /\ manifests[i].learner = i - 1
        /\ manifests[i].best = Champion(i)
        /\ manifests[i].pool =
              {records[k].incumbent : k \in {n \in 1..i - 1 : records[n].promoted}}

Finished == stage = "finished"

(* Where a death leaves a directory that no later process gets through:    *)
(* between the last shard and the metrics of its games, between a candidate*)
(* and its metrics, or inside the write of metrics or of a line.           *)
Stranded ==
    /\ stage = "down"
    /\ \/ cut
       \/ \E i \in Ids : \/ generated[i] = Part
                         \/ generated[i] = Absent /\ Content(i) = Seeds
                         \/ Made(i) /\ trained[i] < 0

(* "Re-running the same command continues where it stopped": the run ends, *)
(* unless it died where it is stranded, and nothing else ever refuses it.  *)
RefusedOnlyIfStranded == refused => Stranded
=============================================================================

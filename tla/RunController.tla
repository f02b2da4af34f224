----------------------------- MODULE RunController -----------------------------
(***************************************************************************)
(* A training run on disk: RunController (games/az_loop/run_controller.py) *)
(* with the lifecycle adapter of Seven Wonders Duel (games/                *)
(* seven_wonders_duel/training_adapter.py, phase_d.py).  Every durable     *)
(* write is a step, and the process may die before and after each of them: *)
(* killed, or because something raised.  Starting it again is the only     *)
(* recovery there is.                                                      *)
(*                                                                         *)
(* Weights are numbered by the training that made them; 0 is the network   *)
(* the seed determines.  Row n is iteration n - 1 of the code, and one     *)
(* iteration generates one game of every games clock.  Writes through a    *)
(* temporary file and os.replace are atomic; a row of the training log and *)
(* an entry of the hall of fame's index are appended in place, and the     *)
(* process may die inside them.                                            *)
(***************************************************************************)
EXTENDS GatePolicy

CONSTANTS
    MaxRows,         (* bound: iterations of a run                         *)
    MaxCrashes,      (* bound: deaths of the process                       *)
    MinBufferGames,  (* games below which an iteration does not train      *)
    AnchorEvery,     (* games between two self-anchor measurements         *)
    AnchorLag        (* games between the learner and its past self        *)

ASSUME ControllerAssumption ==
    /\ MaxRows \in Nat
    /\ MaxCrashes \in Nat
    /\ MinBufferGames \in Nat
    /\ AnchorEvery \in Nat \ {0}
    /\ AnchorLag \in Nat \ {0}

VARIABLES
    \* the run directory
    latest, best,         (* latest.pt and current_best.pt                 *)
    saved,                (* their backups in _recovery/                   *)
    pending,              (* the row the journal names, 0 without a journal*)
    rows,                 (* training_log.jsonl, its complete lines        *)
    torn,                 (* it ends in part of a line                     *)
    counted,              (* iteration_log.count of the run manifest       *)
    buffer,               (* iter_NNNN.jsonl, by the weights that played   *)
    candidate, snapshot,  (* candidate_NNNN.pt and learner_NNNN.pt         *)
    moments,              (* optimizer_state.pt, by the weights it left    *)
    hof,                  (* weights in the hall of fame's index           *)
    hofTorn,              (* hof_index.jsonl ends in part of a line        *)
    anchors,              (* measurements in stagnation.json               *)
    \* the process
    pc, control,          (* control is self.state                         *)
    known,                (* latest_artifact, current_best_artifact and, of
                             the iteration, its generator and candidate    *)
    decision, move,       (* gate decision and transition of the iteration *)
    measured,             (* subject of this iteration's measurement       *)
    \* history
    trainings,            (* every training there has been                 *)
    crashes

roles      == <<latest, best>>
journal    == <<saved, pending>>
ledger     == <<rows, torn, counted>>
artefacts  == <<buffer, candidate, snapshot, moments>>
archives   == <<hof, hofTorn, anchors>>
outcome    == <<decision, move, measured>>
history    == <<trainings, crashes>>
disk       == <<roles, journal, ledger, artefacts, archives>>
vars       == <<disk, pc, control, known, outcome, history>>

NoFile  == -1
RowIds  == 1..MaxRows
File    == Nat \cup {NoFile}
Current == Len(rows) + 1     (* the row the iteration will append *)
Last    == rows[Len(rows)]

StartSteps   == {"initialize", "install_latest_0", "install_best_0",
                 "restore_latest", "restore_best", "drop_buffer",
                 "drop_candidate", "drop_snapshot", "drop_moments",
                 "clear_journal", "verify"}
IterateSteps == {"ready", "back_up_best", "mark", "generate", "train",
                 "save_candidate", "install_latest", "gate", "archive",
                 "finish_entry", "install_best", "reset_learner",
                 "reset_moments", "record", "measure", "append",
                 "finish_row", "count", "commit"}

RowRecord == [latest : Nat, best : Nat, generator : Nat, candidate : File,
              decision : Decisions \cup {"none"}, action : Actions,
              control : Control, measured : File]

Training    == [row : Nat, learner : Nat, moments : File]
Measurement == [row : Nat, games : Nat, subject : Nat, past : Nat]

TypeOK ==
    /\ latest \in File /\ best \in File
    /\ saved \in [latest : File, best : File]
    /\ pending \in 0..MaxRows
    /\ rows \in Seq(RowRecord) /\ Len(rows) <= MaxRows
    /\ torn \in BOOLEAN
    /\ counted \in Nat
    /\ buffer \in [RowIds -> File]
    /\ candidate \in [RowIds -> File]
    /\ snapshot \in [RowIds -> File]
    /\ moments \in File
    /\ hof \subseteq Nat
    /\ hofTorn \in BOOLEAN
    /\ anchors \in Seq(Measurement)
    /\ pc \in StartSteps \cup IterateSteps \cup {"down", "refused"}
    /\ control \in Control
    /\ known \in [latest : File, best : File, bestTrained : BOOLEAN,
                 generator : File, candidate : File]
    /\ decision \in Decisions \cup {"none"}
    /\ move \in Transitions
    /\ measured \in File
    /\ trainings \in Seq(Training)
    /\ crashes \in 0..MaxCrashes

NoRoles == [latest |-> NoFile, best |-> NoFile, bestTrained |-> FALSE,
            generator |-> NoFile, candidate |-> NoFile]
NoMove  == NotScheduledTransition(InitialState)

Init ==
    /\ latest = NoFile /\ best = NoFile
    /\ saved = [latest |-> NoFile, best |-> NoFile]
    /\ pending = 0
    /\ rows = <<>> /\ torn = FALSE /\ counted = 0
    /\ buffer = [r \in RowIds |-> NoFile]
    /\ candidate = [r \in RowIds |-> NoFile]
    /\ snapshot = [r \in RowIds |-> NoFile]
    /\ moments = NoFile
    /\ hof = {} /\ hofTorn = FALSE /\ anchors = <<>>
    /\ pc = "down" /\ control = InitialState /\ known = NoRoles
    /\ decision = "none" /\ move = NoMove /\ measured = NoFile
    /\ trainings = <<>> /\ crashes = 0

----------------------------------------------------------------------------
(* Process start.                                                          *)

(* A line that is not JSON refuses the run.  Snapshots missing from older  *)
(* runs are copied from any file that holds the weights of their row; one  *)
(* that holds others refuses the run.                                      *)
OnDisk == {latest, best} \cup {snapshot[r] : r \in RowIds}
                         \cup {candidate[r] : r \in RowIds}

Backfilled(r) ==
    IF r \in DOMAIN rows /\ snapshot[r] = NoFile /\ rows[r].latest \in OnDisk
    THEN rows[r].latest ELSE snapshot[r]

SnapshotsAgree == \A r \in DOMAIN rows : snapshot[r] \in {NoFile, rows[r].latest}

Start ==
    /\ pc = "down"
    /\ IF ~torn /\ SnapshotsAgree
       THEN /\ snapshot' = [r \in RowIds |-> Backfilled(r)]
            /\ pc' = "initialize"
       ELSE pc' = "refused" /\ UNCHANGED snapshot
    /\ UNCHANGED <<roles, journal, ledger, buffer, candidate, moments,
                   archives, control, known, outcome, history>>

(* No row yet: whatever journal there is belongs to an interrupted first   *)
(* iteration and is dropped, and both roles are installed afresh.          *)
Bootstrap ==
    /\ pc = "initialize" /\ rows = <<>>
    /\ pending' = 0
    /\ pc' = "install_latest_0"
    /\ UNCHANGED <<roles, saved, ledger, artefacts, archives, control, known,
                   outcome, history>>

InstallInitialLatest ==
    /\ pc = "install_latest_0"
    /\ latest' = 0
    /\ pc' = "install_best_0"
    /\ UNCHANGED <<best, journal, ledger, artefacts, archives, control, known,
                   outcome, history>>

InstallInitialBest ==
    /\ pc = "install_best_0"
    /\ best' = 0
    /\ known' = [NoRoles EXCEPT !.latest = 0, !.best = 0]
    /\ control' = InitialState
    /\ pc' = "ready"
    /\ UNCHANGED <<latest, journal, ledger, artefacts, archives, outcome,
                   history>>

(* Faulty variants: the counters start over; a journal that outlived its   *)
(* row is not recognised.                                                  *)
ResumeAfresh ==
    /\ pc = "initialize" /\ rows # <<>>
    /\ control' = [InitialState EXCEPT !.trained = Last.control.trained]
    /\ pc' = CASE pending = 0         -> "verify"
               [] pending = Len(rows) -> "clear_journal"
               [] pending = Current   -> "restore_latest"
               [] OTHER               -> "refused"
    /\ UNCHANGED <<disk, known, outcome, history>>

ResumeWithoutOldJournal ==
    /\ pc = "initialize" /\ rows # <<>>
    /\ control' = Last.control
    /\ pc' = CASE pending = 0       -> "verify"
               [] pending = Current -> "restore_latest"
               [] OTHER             -> "refused"
    /\ UNCHANGED <<disk, known, outcome, history>>

(* _resume and the decision of _reconcile_pending. *)
Resume ==
    /\ pc = "initialize" /\ rows # <<>>
    /\ control' = Last.control
    /\ pc' = CASE pending = 0         -> "verify"
               [] pending = Len(rows) -> "clear_journal"
               [] pending = Current   -> "restore_latest"
               [] OTHER               -> "refused"
    /\ UNCHANGED <<disk, known, outcome, history>>

RestoreLatest ==
    /\ pc = "restore_latest"
    /\ IF saved.latest = NoFile
       THEN pc' = "refused" /\ UNCHANGED latest
       ELSE pc' = "restore_best" /\ latest' = saved.latest
    /\ UNCHANGED <<best, journal, ledger, artefacts, archives, control, known,
                   outcome, history>>

RestoreBest ==
    /\ pc = "restore_best"
    /\ IF saved.best = NoFile
       THEN pc' = "refused" /\ UNCHANGED best
       ELSE pc' = "drop_buffer" /\ best' = saved.best
    /\ UNCHANGED <<latest, journal, ledger, artefacts, archives, control,
                   known, outcome, history>>

(* Faulty variants: a rollback that keeps the games, and one that keeps    *)
(* the optimizer's moments.                                                *)
KeepBuffer ==
    /\ pc = "drop_buffer"
    /\ pc' = "drop_candidate"
    /\ UNCHANGED <<disk, control, known, outcome, history>>

KeepMoments ==
    /\ pc = "drop_moments"
    /\ pc' = "clear_journal"
    /\ UNCHANGED <<disk, control, known, outcome, history>>

(* rollback_iteration: four unlinks. *)
DropBuffer ==
    /\ pc = "drop_buffer"
    /\ buffer' = [buffer EXCEPT ![pending] = NoFile]
    /\ pc' = "drop_candidate"
    /\ UNCHANGED <<roles, journal, ledger, candidate, snapshot, moments,
                   archives, control, known, outcome, history>>

DropCandidate ==
    /\ pc = "drop_candidate"
    /\ candidate' = [candidate EXCEPT ![pending] = NoFile]
    /\ pc' = "drop_snapshot"
    /\ UNCHANGED <<roles, journal, ledger, buffer, snapshot, moments,
                   archives, control, known, outcome, history>>

DropSnapshot ==
    /\ pc = "drop_snapshot"
    /\ snapshot' = [snapshot EXCEPT ![pending] = NoFile]
    /\ pc' = "drop_moments"
    /\ UNCHANGED <<roles, journal, ledger, buffer, candidate, moments,
                   archives, control, known, outcome, history>>

DropMoments ==
    /\ pc = "drop_moments"
    /\ moments' = NoFile
    /\ pc' = "clear_journal"
    /\ UNCHANGED <<roles, journal, ledger, buffer, candidate, snapshot,
                   archives, control, known, outcome, history>>

ClearJournal ==
    /\ pc = "clear_journal"
    /\ pending' = 0
    /\ pc' = "verify"
    /\ UNCHANGED <<roles, saved, ledger, artefacts, archives, control, known,
                   outcome, history>>

(* Both roles must be the ones the last row recorded. *)
Verify ==
    /\ pc = "verify"
    /\ IF latest = Last.latest /\ best = Last.best
       THEN /\ known' = [NoRoles EXCEPT !.latest = latest, !.best = best,
                                        !.bestTrained = control.trained]
            /\ pc' = "ready"
       ELSE pc' = "refused" /\ UNCHANGED known
    /\ UNCHANGED <<disk, control, outcome, history>>

----------------------------------------------------------------------------
(* One iteration.                                                          *)

BackUpLatest ==
    /\ pc = "ready" /\ Len(rows) < MaxRows
    /\ saved' = [saved EXCEPT !.latest = latest]
    /\ pc' = "back_up_best"
    /\ UNCHANGED <<roles, pending, ledger, artefacts, archives, control,
                   known, outcome, history>>

BackUpBest ==
    /\ pc = "back_up_best"
    /\ saved' = [saved EXCEPT !.best = best]
    /\ pc' = "mark"
    /\ UNCHANGED <<roles, pending, ledger, artefacts, archives, control,
                   known, outcome, history>>

Mark ==
    /\ pc = "mark"
    /\ pending' = Current
    /\ pc' = "generate"
    /\ UNCHANGED <<roles, saved, ledger, artefacts, archives, control, known,
                   outcome, history>>

(* The weights at the path the games are played from, and those of the     *)
(* artifact the row will name, taken before anything is installed.         *)
PlayedBy == IF GeneratorSource(control) = "latest" THEN latest ELSE best
RoleArtifact ==
    IF GeneratorSource(control) = "latest" THEN known.latest ELSE known.best

(* generate_iteration raises FileExistsError over a buffer that is there;  *)
(* and if league play is configured and its clock has come,                *)
(* league_assignment reads the hall of fame's index and raises at a line   *)
(* that is not JSON.  Starting again meets the same buffer and line.       *)
Generate ==
    /\ pc = "generate"
    /\ \/ /\ buffer[Current] # NoFile \/ hofTorn
          /\ pc' = "refused" /\ UNCHANGED <<buffer, known>>
       \/ /\ buffer[Current] = NoFile
          /\ buffer' = [buffer EXCEPT ![Current] = PlayedBy]
          /\ known' = [known EXCEPT !.generator = RoleArtifact]
          /\ pc' = "train"
    /\ UNCHANGED <<roles, journal, ledger, candidate, snapshot, moments,
                   archives, control, outcome, history>>

GamesThrough(r) == Cardinality({n \in 1..r : buffer[n] # NoFile})

(* The optimizer state is written before the candidate it belongs to. *)
Train ==
    /\ pc = "train" /\ GamesThrough(Current) >= MinBufferGames
    /\ trainings' = Append(trainings, [row |-> Current, learner |-> latest,
                                       moments |-> moments])
    /\ moments' = Len(trainings')
    /\ pc' = "save_candidate"
    /\ UNCHANGED <<roles, journal, ledger, buffer, candidate, snapshot,
                   archives, control, known, outcome, crashes>>

SkipTraining ==
    /\ pc = "train" /\ GamesThrough(Current) < MinBufferGames
    /\ decision' = "none"
    /\ move' = NotScheduledTransition(control)
    /\ known' = [known EXCEPT !.candidate = NoFile]
    /\ pc' = "record"
    /\ UNCHANGED <<disk, control, measured, history>>

SaveCandidate ==
    /\ pc = "save_candidate"
    /\ candidate' = [candidate EXCEPT ![Current] = Len(trainings)]
    /\ known' = [known EXCEPT !.candidate = Len(trainings)]
    /\ pc' = "install_latest"
    /\ UNCHANGED <<roles, journal, ledger, buffer, snapshot, moments,
                   archives, control, outcome, history>>

InstallLatest ==
    /\ pc = "install_latest"
    /\ latest' = candidate[Current]
    /\ known' = [known EXCEPT !.latest = latest']
    /\ pc' = "gate"
    /\ UNCHANGED <<best, journal, ledger, artefacts, archives, control,
                   outcome, history>>

AfterDecision(t) == CASE t.replaceBest  -> "archive"
                      [] t.resetLearner -> "reset_learner"
                      [] OTHER          -> "record"

Gate ==
    /\ pc = "gate"
    /\ decision' \in IF PromotionScheduled(rows, control)
                     THEN Decisions ELSE {"none"}
    /\ move' = DecideTransition(control, decision', MayStepUp(rows))
    /\ pc' = AfterDecision(move')
    /\ UNCHANGED <<disk, control, known, measured, history>>

(* The outgoing best is archived, unless it was never trained or its       *)
(* digest is in the index already.  HallOfFame.add reads the whole index   *)
(* first, raises at a line that is not JSON, and appends its own in place. *)
(* A run that is started again after the raise is one that died here.      *)
NothingToAdd ==
    /\ pc = "archive"
    /\ known.bestTrained => ~hofTorn /\ best \in hof
    /\ pc' = "install_best"
    /\ UNCHANGED <<hof, hofTorn>>

BeginEntry ==
    /\ pc = "archive"
    /\ known.bestTrained /\ ~hofTorn /\ best \notin hof
    /\ hofTorn' = TRUE
    /\ pc' = "finish_entry"
    /\ UNCHANGED hof

FinishEntry ==
    /\ pc = "finish_entry"
    /\ hofTorn' = FALSE
    /\ hof' = hof \cup {best}
    /\ pc' = "install_best"

EntriesRaise ==
    /\ pc = "archive"
    /\ known.bestTrained /\ hofTorn
    /\ pc' = "refused"
    /\ UNCHANGED <<hof, hofTorn>>

ArchiveBest ==
    /\ NothingToAdd \/ BeginEntry \/ FinishEntry \/ EntriesRaise
    /\ UNCHANGED <<roles, journal, ledger, artefacts, anchors, control, known,
                   outcome, history>>

InstallBest ==
    /\ pc = "install_best"
    /\ best' = latest
    /\ known' = [known EXCEPT !.best = latest, !.bestTrained = TRUE]
    /\ pc' = "record"
    /\ UNCHANGED <<latest, journal, ledger, artefacts, archives, control,
                   outcome, history>>

ResetLearner ==
    /\ pc = "reset_learner"
    /\ latest' = best
    /\ known' = [known EXCEPT !.latest = best]
    /\ pc' = "reset_moments"
    /\ UNCHANGED <<best, journal, ledger, artefacts, archives, control,
                   outcome, history>>

ResetMoments ==
    /\ pc = "reset_moments"
    /\ moments' = NoFile
    /\ pc' = "record"
    /\ UNCHANGED <<roles, journal, ledger, buffer, candidate, snapshot,
                   archives, control, known, outcome, history>>

(* A warmup row is recorded and appended, but never measured. *)
Skipped == known.candidate = NoFile

(* Faulty variant: the raw candidate, which lies about a reset. *)
RecordCandidate ==
    /\ pc = "record"
    /\ snapshot' = [snapshot EXCEPT ![Current] =
                      IF Skipped THEN latest ELSE candidate[Current]]
    /\ pc' = IF Skipped THEN "append" ELSE "measure"
    /\ UNCHANGED <<roles, journal, ledger, buffer, candidate, moments,
                   archives, control, known, outcome, history>>

RecordLearner ==
    /\ pc = "record"
    /\ snapshot' = [snapshot EXCEPT ![Current] = latest]
    /\ pc' = IF Skipped THEN "append" ELSE "measure"
    /\ UNCHANGED <<roles, journal, ledger, buffer, candidate, moments,
                   archives, control, known, outcome, history>>

(* The learner that was in force AnchorLag games ago, by its snapshot. *)
PastRowsBeforeLag ==   \* faulty variant: strictly more than AnchorLag ago
    {n \in 1 .. Current - 1 : /\ buffer[n] # NoFile /\ snapshot[n] # NoFile
                             /\ GamesThrough(n) < GamesThrough(Current) - AnchorLag}

PastRows ==
    {n \in 1 .. Current - 1 : /\ buffer[n] # NoFile /\ snapshot[n] # NoFile
                             /\ GamesThrough(n) <= GamesThrough(Current) - AnchorLag}

MeasurementDue ==
    /\ anchors # <<>> =>
         GamesThrough(Current) - anchors[Len(anchors)].games >= AnchorEvery
    /\ GamesThrough(Current) > AnchorLag
    /\ PastRows # {}

(* stagnation.json is written here, before the row is. *)
Measure ==
    /\ pc = "measure" /\ MeasurementDue
    /\ LET past == CHOOSE n \in PastRows : \A m \in PastRows : m <= n
       IN  anchors' = Append(anchors, [row     |-> Current,
                                       games   |-> GamesThrough(Current),
                                       subject |-> latest,
                                       past    |-> snapshot[past]])
    /\ measured' = latest
    /\ pc' = "append"
    /\ UNCHANGED <<roles, journal, ledger, artefacts, hof, hofTorn, control,
                   known, decision, move, history>>

(* Not due, or it raised: _measure turns a failure into no measurement. *)
MeasureNothing ==
    /\ pc = "measure"
    /\ pc' = "append"
    /\ UNCHANGED <<disk, control, known, outcome, history>>

(* Faulty variant: counted before it is logged. *)
CountThenBeginRow ==
    /\ pc = "append"
    /\ torn' = TRUE
    /\ counted' = counted + 1
    /\ pc' = "finish_row"
    /\ UNCHANGED <<roles, journal, rows, artefacts, archives, control, known,
                   outcome, history>>

BeginRow ==
    /\ pc = "append"
    /\ torn' = TRUE
    /\ pc' = "finish_row"
    /\ UNCHANGED <<roles, journal, rows, counted, artefacts, archives,
                   control, known, outcome, history>>

AppendRow ==
    /\ pc = "finish_row"
    /\ torn' = FALSE
    /\ control' = move.next
    /\ rows' = Append(rows,
                  [latest    |-> known.latest,
                   best      |-> known.best,
                   generator |-> known.generator,
                   candidate |-> known.candidate,
                   decision  |-> decision,
                   action    |-> move.action,
                   control   |-> move.next,
                   measured  |-> measured])
    /\ pc' = "count"
    /\ UNCHANGED <<roles, journal, counted, artefacts, archives, known,
                   outcome, history>>

CountRow ==
    /\ pc = "count"
    /\ counted' = counted + 1
    /\ pc' = "commit"
    /\ UNCHANGED <<roles, journal, rows, torn, artefacts, archives, control,
                   known, outcome, history>>

Commit ==
    /\ pc = "commit"
    /\ pending' = 0
    /\ decision' = "none" /\ move' = NoMove /\ measured' = NoFile
    /\ known' = [known EXCEPT !.generator = NoFile, !.candidate = NoFile]
    /\ pc' = "ready"
    /\ UNCHANGED <<roles, saved, ledger, artefacts, archives, control, history>>

(* The process dies: what it remembers is lost, the files stay. *)
Crash ==
    /\ pc \notin {"down", "refused"}
    /\ crashes < MaxCrashes
    /\ crashes' = crashes + 1
    /\ pc' = "down"
    /\ control' = InitialState /\ known' = NoRoles
    /\ decision' = "none" /\ move' = NoMove /\ measured' = NoFile
    /\ UNCHANGED <<disk, trainings>>

StartUp == \/ Start \/ Bootstrap \/ InstallInitialLatest \/ InstallInitialBest
           \/ Resume \/ RestoreLatest \/ RestoreBest \/ DropBuffer
           \/ DropCandidate \/ DropSnapshot \/ DropMoments \/ ClearJournal
           \/ Verify

Iteration == \/ BackUpLatest \/ BackUpBest \/ Mark \/ Generate \/ Train
             \/ SkipTraining \/ SaveCandidate \/ InstallLatest \/ Gate
             \/ ArchiveBest \/ InstallBest \/ ResetLearner \/ ResetMoments
             \/ RecordLearner \/ Measure \/ MeasureNothing \/ BeginRow
             \/ AppendRow \/ CountRow \/ Commit

Next == StartUp \/ Iteration \/ Crash

Safety == Init /\ [][Next]_vars

(* A process that is up takes its next step, and one that died is started  *)
(* again.                                                                  *)
Spec == Safety /\ WF_vars(StartUp \/ Iteration)

----------------------------------------------------------------------------
(* Properties.                                                             *)

RowBefore(r) == IF r = 1 THEN [latest |-> 0, best |-> 0]
                ELSE [latest |-> rows[r - 1].latest, best |-> rows[r - 1].best]

(* A line that was cut, which nothing repairs. *)
Cut == torn \/ hofTorn

(* A run that has committed a row can be started again and goes on after   *)
(* any death outside the write of a row or of an entry of the hall of fame:*)
(* no start meets a hash that does not match, a journal it cannot place, a *)
(* missing backup or a buffer in the way (_reconcile_pending,              *)
(* _verify_on_disk, generate_iteration).                                   *)
ResumableOnceCommitted == (rows # <<>> /\ ~Cut) => pc # "refused"

(* The journal's promise for the first iteration of a run: interrupting it *)
(* does not brick the run (run_iteration).                                 *)
SurvivesFirstIteration == ~Cut => pc # "refused"

(* Weights of a committed row were trained from the learner of the row     *)
(* before, with optimizer moments of exactly that learner or with none:    *)
(* nothing of an interrupted attempt gets into them (rollback_iteration,   *)
(* on_learner_reset).                                                      *)
CleanLineage ==
    \A r \in DOMAIN rows : rows[r].candidate # NoFile =>
        LET t == trainings[rows[r].candidate]
        IN  /\ t.row = r
            /\ t.learner = RowBefore(r).latest
            /\ t.moments \in {NoFile, t.learner}

(* The games and the snapshot kept for a committed row are those of the    *)
(* weights its digests name, at every moment of every later restart        *)
(* (_sync_learner_checkpoints refuses a run where they are not).           *)
FilesMatchRows ==
    \A r \in DOMAIN rows :
        /\ buffer[r] = rows[r].generator
        /\ snapshot[r] = rows[r].latest

(* Every trained best that was replaced is in the hall of fame, and nothing*)
(* is that was never the protected best of a committed row, however often  *)
(* its replacement was attempted (archive_best before install).            *)
HallOfFameIsComplete ==
    /\ \A r \in DOMAIN rows :
         RowBefore(r).best \notin {0, rows[r].best} => RowBefore(r).best \in hof
    /\ hof \subseteq {rows[r].best : r \in DOMAIN rows} \ {0}

(* A crash between the two writes of append_iteration leaves the row       *)
(* present rather than counted but lost (_PhaseDRunStore).                 *)
CountNeverAhead == counted <= Len(rows)

(* The past self a measurement played was the learner in force AnchorLag   *)
(* games earlier: a reset's rejected candidate is never a reference        *)
(* (anchor_reference).                                                     *)
AnchorsComparePastSelves ==
    \A i \in DOMAIN anchors :
        LET a == anchors[i]
        IN  /\ a.row - AnchorLag \in DOMAIN rows
            /\ a.past = rows[a.row - AnchorLag].latest

(* The measurement kept for an iteration is the one its row reports. *)
MeasurementsMatchRows ==
    \A i \in DOMAIN anchors : anchors[i].row \in DOMAIN rows =>
        rows[anchors[i].row].measured = anchors[i].subject

(* Once a row is committed, the run completes all its iterations whatever  *)
(* interrupts it on the way, unless a death inside an append leaves a line *)
(* that a later start, promotion or league iteration cannot read.          *)
RunCompletes ==
    rows # <<>> ~> (Len(rows) = MaxRows \/ (Cut /\ pc = "refused"))

(* Crashes, journals and retries are invisible in the log: the rows are    *)
(* those of a run in which every iteration happens at once, with weights   *)
(* named by the row that trained them.                                     *)
Named(w) ==
    IF w = 0 THEN 0
    ELSE IF /\ trainings[w].row \in DOMAIN rows
            /\ rows[trainings[w].row].candidate = w
         THEN trainings[w].row ELSE MaxRows + 1

Log == INSTANCE RunLog WITH
         log <- [r \in DOMAIN rows |->
                   [learner   |-> Named(rows[r].latest),
                    best      |-> Named(rows[r].best),
                    generator |-> Named(rows[r].generator),
                    decision  |-> rows[r].decision,
                    action    |-> rows[r].action,
                    control   |-> rows[r].control]]

ImplementsLog == Log!Spec
=============================================================================

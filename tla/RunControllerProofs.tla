-------------------------- MODULE RunControllerProofs --------------------------
(***************************************************************************)
(* What holds of RunController for every value of its constants: a run     *)
(* with a committed row can always be started again, the files kept for a  *)
(* row are those of the row, and the manifest never counts a row that is   *)
(* not there.  The argument is one inductive invariant, IInv: where the    *)
(* process is and what the journal names, and from the two where the       *)
(* weights of the last committed row are to be found.  A second part shows *)
(* what the rows of a run descend from.                                    *)
(***************************************************************************)
EXTENDS MCRunController, GatePolicyProofs, FiniteSetTheorems, SequenceTheorems

----------------------------------------------------------------------------
(* The inductive invariant.                                                *)

(* Stretches of the program, by where the journal stands. *)
Unmarked == {"ready", "back_up_best", "mark"}
Played   == {"train", "save_candidate", "install_latest", "gate", "archive",
             "finish_entry", "install_best", "reset_learner", "reset_moments",
             "record", "measure", "append", "finish_row"}
Marked   == Played \cup {"generate"}
Closing  == {"count", "commit"}
Dropping == {"drop_buffer", "drop_candidate", "drop_snapshot", "drop_moments"}
Undoing  == Dropping \cup {"restore_latest", "restore_best"}

(* The journal names the last row or the next one. *)
StageInv ==
    /\ pending \in {0, Len(rows), Current}
    /\ pc \in Unmarked => pending = 0
    /\ pc \in Marked => pending = Current
    /\ pc \in Closing => rows # <<>> /\ pending = Len(rows)
    /\ pc \in Undoing => rows # <<>> /\ pending = Current
    /\ pc \in {"clear_journal", "verify"} => rows # <<>>
    /\ pc = "clear_journal" => pending # 0
    /\ pc \in {"verify", "install_latest_0", "install_best_0"} => pending = 0
    /\ pc \in {"install_latest_0", "install_best_0"} => rows = <<>>
    /\ pc \in Marked \cup {"back_up_best", "mark"} => Len(rows) < MaxRows
    /\ torn => pc \in {"finish_row", "down", "refused"}

(* The weights of the last row are in place until the journal names the    *)
(* next row; then they are in its backups.                                 *)
RolesInv ==
    /\ rows # <<>> /\ pending # Current =>
         latest = Last.latest /\ best = Last.best
    /\ rows # <<>> /\ pending = Current =>
         saved.latest = Last.latest /\ saved.best = Last.best
    /\ pc \in {"back_up_best", "mark"} => saved.latest = latest
    /\ pc = "mark" => saved.best = best
    /\ pc \in Dropping \cup {"restore_best", "clear_journal"} =>
         latest = Last.latest
    /\ pc \in Dropping \cup {"clear_journal"} => best = Last.best
    /\ pc = "install_best_0" => latest = 0
    /\ pc \in IterateSteps =>
         /\ known.latest = latest /\ latest # NoFile
         /\ known.best = best /\ best # NoFile

(* The games of a row that is still to come are not on disk, unless the    *)
(* journal names that row, and then only once they were played.            *)
FilesInv ==
    /\ FilesMatchRows
    /\ \A r \in RowIds : r > Current => buffer[r] = NoFile
    /\ rows # <<>> /\ Current \in RowIds
         /\ (pending # Current \/ pc \in {"generate", "drop_candidate",
               "drop_snapshot", "drop_moments", "clear_journal"}) =>
         buffer[Current] = NoFile
    /\ pc \in Played =>
         buffer[Current] = known.generator /\ known.generator # NoFile
    /\ pc = "install_latest" => candidate[Current] # NoFile
    /\ pc \in {"measure", "append", "finish_row"} => snapshot[Current] = latest

CountInv ==
    /\ CountNeverAhead
    /\ pc = "count" => counted < Len(rows)

Recoverable == /\ StageInv /\ RolesInv /\ FilesInv /\ CountInv
               /\ ResumableOnceCommitted

IInv == TypeOK /\ Recoverable

----------------------------------------------------------------------------
(* The gate policy stays within its types, and the games clock counts.     *)

LEMMA InitialType == InitialState \in Control /\ NoMove \in Transitions
<1>1. InitialState \in Control
  BY PolicyAssumption DEF InitialState, Control, Sources
<1> QED
  BY <1>1, PolicyType DEF NoMove, NotScheduledTransition, Transition,
     Transitions, Actions

LEMMA ClockType ==
  ASSUME NEW r \in Nat
  PROVE  GamesThrough(r) \in Nat
<1>1. IsFiniteSet(1..r)
  BY FS_Interval
<1>2. IsFiniteSet({n \in 1..r : buffer[n] # NoFile})
  BY <1>1, FS_Subset
<1> QED
  BY <1>2, FS_CardinalityType DEF GamesThrough

----------------------------------------------------------------------------
(* Types.                                                                  *)

LEMMA Files ==
  /\ NoFile \in File /\ NoFile \notin Nat /\ Nat \subseteq File
  /\ \A w \in File : w # NoFile => w \in Nat
BY DEF NoFile, File

LEMMA CurrentType ==
  ASSUME TypeOK
  PROVE  Len(rows) \in Nat /\ Current \in Nat \ {0} /\ Current - 1 = Len(rows)
<1>1. Len(rows) \in Nat
  BY DEF TypeOK
<1> QED
  BY <1>1 DEF Current

LEMMA NextRow ==
  ASSUME TypeOK, Len(rows) < MaxRows
  PROVE  /\ Current \in RowIds
         /\ \A r \in DOMAIN rows : r # Current /\ r \in RowIds
<1>1. rows \in Seq(RowRecord) /\ DOMAIN rows = 1..Len(rows)
  BY DEF TypeOK
<1> QED
  BY <1>1, CurrentType, ControllerAssumption DEF Current, RowIds

(* The row that was committed last.                                        *)
LEMMA LastRow ==
  ASSUME TypeOK, rows # <<>>
  PROVE  /\ Len(rows) \in DOMAIN rows /\ Last = rows[Len(rows)]
         /\ Last.latest \in Nat /\ Last.best \in Nat /\ Last.control \in Control
<1>1. rows \in Seq(RowRecord)
  BY DEF TypeOK
<1>2. Len(rows) \in DOMAIN rows /\ rows[Len(rows)] \in RowRecord
  BY <1>1
<1> QED
  BY <1>2 DEF Last, RowRecord

LEMMA AppendFacts ==
  ASSUME NEW S, NEW q \in Seq(S), NEW e
  PROVE  /\ Len(Append(q, e)) = Len(q) + 1
         /\ DOMAIN Append(q, e) = DOMAIN q \cup {Len(q) + 1}
         /\ Append(q, e)[Len(q) + 1] = e
         /\ \A i \in DOMAIN q : Append(q, e)[i] = q[i]
OBVIOUS

(* While an iteration runs, both roles are installed.                      *)
LEMMA Running ==
  ASSUME IInv, pc \in IterateSteps
  PROVE  /\ latest \in Nat /\ known.latest = latest
         /\ best \in Nat /\ known.best = best
<1>1. latest \in File /\ best \in File
  BY DEF IInv, TypeOK
<1>2. /\ latest # NoFile /\ known.latest = latest
      /\ best # NoFile /\ known.best = best
  BY DEF IInv, Recoverable, RolesInv
<1> QED
  BY <1>1, <1>2, Files

(* A restart finds the snapshots it needs, and copies none.                *)
LEMMA NothingToBackfill ==
  ASSUME IInv
  PROVE  SnapshotsAgree /\ [r \in RowIds |-> Backfilled(r)] = snapshot
<1>1. \A r \in DOMAIN rows : snapshot[r] = rows[r].latest /\ snapshot[r] \in Nat
  <2> TAKE r \in DOMAIN rows
  <2>1. rows[r] \in RowRecord
    BY DEF IInv, TypeOK
  <2>2. snapshot[r] = rows[r].latest
    BY DEF IInv, Recoverable, FilesInv, FilesMatchRows
  <2> QED
    BY <2>1, <2>2 DEF RowRecord
<1>2. \A r \in RowIds : Backfilled(r) = snapshot[r]
  BY <1>1, Files DEF Backfilled
<1>3. snapshot \in [RowIds -> File]
  BY DEF IInv, TypeOK
<1> QED
  BY <1>1, <1>2, <1>3 DEF SnapshotsAgree

LEMMA TypeStep ==
  ASSUME IInv, [Next]_vars
  PROVE  TypeOK'
<1> USE ControllerAssumption, Files DEF vars, roles, journal, ledger,
        artefacts, archives, outcome, history, disk,
          TypeOK, IInv, Recoverable
<1>1. CASE Start
  <2>1. snapshot' = snapshot
    BY <1>1, NothingToBackfill DEF Start
  <2> QED
    BY <1>1, <2>1 DEF Start, StartSteps
<1>2. CASE Bootstrap
  BY <1>2 DEF Bootstrap, StartSteps, IterateSteps
<1>3. CASE InstallInitialLatest
  BY <1>3 DEF InstallInitialLatest, StartSteps, IterateSteps
<1>4. CASE InstallInitialBest
  BY <1>4, InitialType DEF InstallInitialBest, NoRoles, IterateSteps
<1>5. CASE Resume
  BY <1>5, LastRow DEF Resume, StartSteps
<1>6. CASE RestoreLatest
  BY <1>6 DEF RestoreLatest, StartSteps, IterateSteps
<1>7. CASE RestoreBest
  BY <1>7 DEF RestoreBest, StartSteps, IterateSteps
<1>8. CASE DropBuffer
  BY <1>8 DEF DropBuffer, StartSteps, IterateSteps
<1>9. CASE DropCandidate
  BY <1>9 DEF DropCandidate, StartSteps, IterateSteps
<1>10. CASE DropSnapshot
  BY <1>10 DEF DropSnapshot, StartSteps, IterateSteps
<1>11. CASE DropMoments
  BY <1>11 DEF DropMoments, StartSteps, IterateSteps
<1>12. CASE ClearJournal
  BY <1>12 DEF ClearJournal, StartSteps, IterateSteps
<1>13. CASE Verify
  <2>1. known' \in [latest : File, best : File, bestTrained : BOOLEAN,
                    generator : File, candidate : File]
    <3>1. control.trained \in BOOLEAN
      BY DEF Control
    <3>2. /\ latest \in File /\ best \in File
          /\ known \in [latest : File, best : File, bestTrained : BOOLEAN,
                       generator : File, candidate : File]
      BY DEF IInv, TypeOK
    <3> HIDE DEF IInv, Recoverable, TypeOK
    <3>3. known' = known \/ known' = [latest |-> latest, best |-> best,
                                     bestTrained |-> control.trained,
                                     generator |-> NoFile, candidate |-> NoFile]
      BY <1>13 DEF Verify, NoRoles
    <3> QED
      BY <3>1, <3>2, <3>3
  <2>2. pc' \in IterateSteps \cup {"refused"}
    BY <1>13 DEF Verify, IterateSteps
  <2> QED
    BY <1>13, <2>1, <2>2 DEF Verify
<1>14. CASE BackUpLatest
  BY <1>14 DEF BackUpLatest, IterateSteps
<1>15. CASE BackUpBest
  BY <1>15 DEF BackUpBest, IterateSteps
<1>16. CASE Mark
  BY <1>16 DEF Mark, StageInv, Current, IterateSteps
<1>17. CASE Generate
  <2>1. PlayedBy \in File /\ RoleArtifact \in File
    BY DEF PlayedBy, RoleArtifact
  <2>2. buffer' \in [RowIds -> File]
    BY <1>17, <2>1 DEF Generate
  <2>3. known' \in [latest : File, best : File, bestTrained : BOOLEAN,
                    generator : File, candidate : File]
    BY <1>17, <2>1 DEF Generate
  <2>4. pc' \in IterateSteps \cup {"refused"}
    BY <1>17 DEF Generate, IterateSteps
  <2>5. UNCHANGED <<roles, journal, ledger, candidate, snapshot, moments,
                    archives, control, outcome, history>>
    BY <1>17 DEF Generate
  <2> QED
    BY <2>2, <2>3, <2>4, <2>5
<1>18. CASE Train
  <2>1. [row |-> Current, learner |-> latest, moments |-> moments] \in Training
    BY <1>18, Running, CurrentType DEF Train, Training, IterateSteps
  <2>2. trainings' \in Seq(Training) /\ Len(trainings') \in Nat
    BY <1>18, <2>1 DEF Train
  <2> QED
    BY <1>18, <2>2 DEF Train, IterateSteps
<1>19. CASE SkipTraining
  <2>1. move' \in Transitions
    BY <1>19, PolicyType DEF SkipTraining, NotScheduledTransition,
       Transition, Transitions, Actions
  <2> QED
    BY <1>19, <2>1 DEF SkipTraining, IterateSteps
<1>20. CASE SaveCandidate
  <2>1. Len(trainings) \in File
    BY Files
  <2>2. /\ candidate' \in [RowIds -> File]
        /\ known' \in [latest : File, best : File, bestTrained : BOOLEAN,
                      generator : File, candidate : File]
    BY <1>20, <2>1 DEF SaveCandidate
  <2>3. pc' \in IterateSteps
    BY <1>20 DEF SaveCandidate, IterateSteps
  <2> QED
    BY <1>20, <2>2, <2>3 DEF SaveCandidate
<1>21. CASE InstallLatest
  <2>1. latest' \in File
    <3>1. Current \in RowIds
      BY <1>21, CurrentType DEF InstallLatest, RowIds, StageInv, Marked,
         Played, Current
    <3> QED
      BY <1>21, <3>1 DEF InstallLatest
  <2> QED
    BY <1>21, <2>1 DEF InstallLatest, IterateSteps
<1>22. CASE Gate
  <2>1. decision' \in Decisions \cup {"none"}
    BY <1>22 DEF Gate
  <2>2. MayStepUp(rows) \in BOOLEAN
    BY DEF MayStepUp
  <2>3. move' \in Transitions
    BY <1>22, <2>1, <2>2, PolicyType DEF Gate
  <2>4. pc' \in {"archive", "reset_learner", "record"}
    BY <1>22 DEF Gate, AfterDecision
  <2> QED
    BY <1>22, <2>1, <2>3, <2>4 DEF Gate, IterateSteps
<1>23. CASE ArchiveBest
  <2>1. pc \in IterateSteps
    BY <1>23 DEF ArchiveBest, NothingToAdd, BeginEntry, FinishEntry,
       EntriesRaise, IterateSteps
  <2>2. best \in Nat
    BY <2>1, Running
  <2>3. hof' \subseteq Nat /\ hofTorn' \in BOOLEAN
    BY <1>23, <2>2 DEF ArchiveBest, NothingToAdd, BeginEntry, FinishEntry,
       EntriesRaise
  <2>4. pc' \in IterateSteps \cup {"refused"}
    BY <1>23 DEF ArchiveBest, NothingToAdd, BeginEntry, FinishEntry,
       EntriesRaise, IterateSteps
  <2>5. UNCHANGED <<roles, journal, ledger, artefacts, anchors, control, known,
                    outcome, history>>
    BY <1>23 DEF ArchiveBest
  <2> QED
    BY <2>3, <2>4, <2>5
<1>24. CASE InstallBest
  BY <1>24 DEF InstallBest, IterateSteps
<1>25. CASE ResetLearner
  BY <1>25 DEF ResetLearner, IterateSteps
<1>26. CASE ResetMoments
  BY <1>26 DEF ResetMoments, IterateSteps
<1>27. CASE RecordLearner
  BY <1>27 DEF RecordLearner, IterateSteps
<1>28. CASE Measure
  <2>1. GamesThrough(Current) \in Nat
    BY CurrentType, ClockType
  <2>2. PastRows # {} /\ PastRows \in SUBSET (1 .. Current - 1)
    BY <1>28 DEF Measure, MeasurementDue, PastRows
  <2> DEFINE past == CHOOSE n \in PastRows : \A m \in PastRows : m <= n
  <2>3. past \in PastRows
    BY <2>2, CurrentType, Greatest
  <2>4. snapshot[past] \in Nat
    <3>1. snapshot[past] # NoFile /\ past \in RowIds
      BY <2>3, CurrentType DEF PastRows, RowIds
    <3> QED
      BY <3>1, Files
  <2> HIDE DEF past
  <2>5. [row |-> Current, games |-> GamesThrough(Current), subject |-> latest,
         past |-> snapshot[past]] \in Measurement
    BY <1>28, <2>1, <2>4, Running, CurrentType DEF Measure, Measurement,
       IterateSteps
  <2>6. anchors' \in Seq(Measurement)
    BY <1>28, <2>5 DEF Measure, past
  <2> QED
    BY <1>28, <2>6 DEF Measure, IterateSteps
<1>29. CASE MeasureNothing
  BY <1>29 DEF MeasureNothing, IterateSteps
<1>30. CASE BeginRow
  BY <1>30 DEF BeginRow, IterateSteps
<1>31. CASE AppendRow
  <2> DEFINE row == [latest    |-> known.latest,
                     best      |-> known.best,
                     generator |-> known.generator,
                     candidate |-> known.candidate,
                     decision  |-> decision,
                     action    |-> move.action,
                     control   |-> move.next,
                     measured  |-> measured]
  <2>1. row \in RowRecord
    <3>1. known.generator \in Nat
      <4>1. known.generator # NoFile
        BY <1>31 DEF AppendRow, FilesInv, Played
      <4> QED
        BY <4>1, Files
    <3>2. known.latest \in Nat /\ known.best \in Nat
      BY <1>31, Running DEF AppendRow, IterateSteps
    <3>3. move.action \in Actions /\ move.next \in Control
      BY DEF Transitions
    <3> QED
      BY <3>1, <3>2, <3>3 DEF RowRecord
  <2>2. rows' = Append(rows, row) /\ Len(rows) < MaxRows
    BY <1>31 DEF AppendRow, StageInv, Marked, Played
  <2>3. rows' \in Seq(RowRecord) /\ Len(rows') <= MaxRows
    <3> HIDE DEF row
    <3> QED
      BY <2>1, <2>2
  <2>4. control' \in Control
    BY <1>31 DEF AppendRow, Transitions
  <2> QED
    BY <1>31, <2>3, <2>4 DEF AppendRow, IterateSteps
<1>32. CASE CountRow
  BY <1>32 DEF CountRow, IterateSteps
<1>33. CASE Commit
  <2>1. known' \in [latest : File, best : File, bestTrained : BOOLEAN,
                    generator : File, candidate : File]
    BY <1>33 DEF Commit
  <2> QED
    BY <1>33, <2>1, InitialType DEF Commit, IterateSteps
<1>34. CASE Crash
  BY <1>34, InitialType DEF Crash, NoRoles
<1>35. CASE UNCHANGED vars
  BY <1>35
<1> QED
  BY <1>1, <1>2, <1>3, <1>4, <1>5, <1>6, <1>7, <1>8, <1>9, <1>10, <1>11,
     <1>12, <1>13, <1>14, <1>15, <1>16, <1>17, <1>18, <1>19, <1>20, <1>21,
     <1>22, <1>23, <1>24, <1>25, <1>26, <1>27, <1>28, <1>29, <1>30, <1>31,
     <1>32, <1>33, <1>34, <1>35 DEF Next, StartUp, Iteration

(* Each action keeps the invariant.  What an action of the start does not  *)
(* touch it inherits from the state the last process left.                 *)
LEMMA RecoverableStep ==
  ASSUME IInv, [Next]_vars
  PROVE  Recoverable'
<1> USE DEF vars, roles, journal, ledger, artefacts, archives, outcome,
        history, disk,
          IInv, TypeOK, Recoverable, StageInv, RolesInv, FilesInv, CountInv,
          FilesMatchRows, CountNeverAhead, ResumableOnceCommitted, Cut, Current,
          Last, RowIds, NoFile, File, Unmarked, Played, Marked, Closing,
          Dropping, Undoing, IterateSteps
<1>1. CASE Start
  <2>0. SnapshotsAgree /\ snapshot' = snapshot
    BY <1>1, NothingToBackfill DEF Start
  <2>1. StageInv'
    BY <1>1 DEF Start
  <2>2. RolesInv'
    BY <1>1 DEF Start
  <2>3. FilesInv'
    BY <1>1, <2>0 DEF Start
  <2>4. CountInv'
    BY <1>1 DEF Start
  <2>5. ResumableOnceCommitted'
    BY <1>1, <2>0 DEF Start
  <2> QED
    BY <2>1, <2>2, <2>3, <2>4, <2>5
<1>2. CASE Bootstrap
  BY <1>2 DEF Bootstrap
<1>3. CASE InstallInitialLatest
  BY <1>3 DEF InstallInitialLatest
<1>4. CASE InstallInitialBest
  BY <1>4 DEF InstallInitialBest
<1>5. CASE Resume
  BY <1>5 DEF Resume
<1>6. CASE RestoreLatest
  <2>1. saved.latest = Last.latest /\ saved.latest # NoFile
    BY <1>6, LastRow DEF RestoreLatest
  <2>2. pc' = "restore_best" /\ latest' = saved.latest
    BY <1>6, <2>1 DEF RestoreLatest
  <2> QED
    BY <1>6, <2>1, <2>2 DEF RestoreLatest
<1>7. CASE RestoreBest
  <2>1. saved.best = Last.best /\ saved.best # NoFile
    BY <1>7, LastRow DEF RestoreBest
  <2>2. pc' = "drop_buffer" /\ best' = saved.best
    BY <1>7, <2>1 DEF RestoreBest
  <2> QED
    BY <1>7, <2>1, <2>2 DEF RestoreBest
<1>8. CASE DropBuffer
  BY <1>8 DEF DropBuffer
<1>9. CASE DropCandidate
  BY <1>9 DEF DropCandidate
<1>10. CASE DropSnapshot
  BY <1>10 DEF DropSnapshot
<1>11. CASE DropMoments
  BY <1>11 DEF DropMoments
<1>12. CASE ClearJournal
  BY <1>12 DEF ClearJournal
<1>13. CASE Verify
  <2>1. latest = Last.latest /\ best = Last.best
    BY <1>13, CurrentType DEF Verify
  <2>2. latest # NoFile /\ best # NoFile
    BY <1>13, <2>1, LastRow DEF Verify
  <2>3. pc' = "ready" /\ known'.latest = latest /\ known'.best = best
    BY <1>13, <2>1 DEF Verify, NoRoles
  <2> QED
    BY <1>13, <2>1, <2>2, <2>3 DEF Verify
<1>14. CASE BackUpLatest
  BY <1>14 DEF BackUpLatest
<1>15. CASE BackUpBest
  BY <1>15 DEF BackUpBest
<1>16. CASE Mark
  BY <1>16 DEF Mark
<1>17. CASE Generate
  <2>1. PlayedBy = RoleArtifact /\ PlayedBy # NoFile
    BY <1>17, Running DEF Generate, PlayedBy, RoleArtifact
  <2>2. Current \in RowIds /\ \A r \in DOMAIN rows : r # Current /\ r \in RowIds
    BY <1>17, NextRow DEF Generate
  <2>3. CASE pc' = "refused"
    <3>1. /\ pc = "generate" /\ pc' = "refused"
          /\ buffer[Current] # NoFile \/ hofTorn
          /\ UNCHANGED <<disk, known, history>>
      BY <1>17, <2>3 DEF Generate
    <3>2. rows # <<>> => hofTorn
      BY <2>2, <3>1
    <3> QED
      BY <3>1, <3>2
  <2>4. CASE pc' # "refused"
    <3>1. buffer' = [buffer EXCEPT ![Current] = PlayedBy] /\ pc' = "train"
      BY <1>17, <2>4 DEF Generate
    <3>2. /\ known'.generator = PlayedBy
          /\ known'.latest = known.latest /\ known'.best = known.best
      BY <1>17, <2>1, <2>4 DEF Generate
    <3>3. UNCHANGED <<roles, journal, ledger, candidate, snapshot>>
      BY <1>17 DEF Generate
    <3>4. FilesInv'
      <4>1. FilesMatchRows'
        BY <2>2, <3>1, <3>3
      <4>2. buffer'[Current] = PlayedBy
        BY <2>2, <3>1
      <4>3. \A r \in RowIds : r > Current => buffer'[r] = NoFile
        BY <3>1
      <4>4. Current' = Current /\ pending' = Current
        BY <1>17, <3>3 DEF Generate
      <4> HIDE DEF Current
      <4> QED
        BY <2>1, <3>1, <3>2, <4>1, <4>2, <4>3, <4>4
    <3> QED
      BY <1>17, <3>1, <3>2, <3>3, <3>4 DEF Generate
  <2> QED
    BY <2>3, <2>4
<1>18. CASE Train
  BY <1>18 DEF Train
<1>19. CASE SkipTraining
  BY <1>19 DEF SkipTraining
<1>20. CASE SaveCandidate
  BY <1>20 DEF SaveCandidate
<1>21. CASE InstallLatest
  BY <1>21 DEF InstallLatest
<1>22. CASE Gate
  <2>1. pc' \in {"archive", "reset_learner", "record"}
    BY <1>22 DEF Gate, AfterDecision
  <2>2. pc = "gate" /\ UNCHANGED <<disk, known, measured, history>>
    BY <1>22 DEF Gate
  <2> QED
    BY <2>1, <2>2
<1>23. CASE ArchiveBest
  <2>1. /\ pc \in {"archive", "finish_entry"}
        /\ \/ pc' \in {"finish_entry", "install_best"}
           \/ pc' = "refused" /\ hofTorn'
    BY <1>23 DEF ArchiveBest, NothingToAdd, BeginEntry, FinishEntry, EntriesRaise
  <2>2. UNCHANGED <<roles, journal, ledger, artefacts, anchors, control, known,
                    outcome, history>>
    BY <1>23 DEF ArchiveBest
  <2> QED
    BY <2>1, <2>2
<1>24. CASE InstallBest
  BY <1>24 DEF InstallBest
<1>25. CASE ResetLearner
  BY <1>25 DEF ResetLearner
<1>26. CASE ResetMoments
  BY <1>26 DEF ResetMoments
<1>27. CASE RecordLearner
  BY <1>27 DEF RecordLearner
<1>28. CASE Measure
  BY <1>28 DEF Measure
<1>29. CASE MeasureNothing
  BY <1>29 DEF MeasureNothing
<1>30. CASE BeginRow
  BY <1>30 DEF BeginRow
<1>31. CASE AppendRow
  <2>1. /\ Len(rows) < MaxRows /\ pending = Current
        /\ snapshot[Current] = latest /\ buffer[Current] = known.generator
    BY <1>31 DEF AppendRow
  <2>2. /\ Len(rows') = Current /\ DOMAIN rows' = DOMAIN rows \cup {Current}
        /\ \A r \in DOMAIN rows : rows'[r] = rows[r]
        /\ rows'[Current].latest = latest /\ rows'[Current].best = best
        /\ rows'[Current].generator = known.generator
    <3> DEFINE row == [latest    |-> known.latest,
                       best      |-> known.best,
                       generator |-> known.generator,
                       candidate |-> known.candidate,
                       decision  |-> decision,
                       action    |-> move.action,
                       control   |-> move.next,
                       measured  |-> measured]
    <3>1. rows' = Append(rows, row)
      BY <1>31 DEF AppendRow
    <3>2. known.latest = latest /\ known.best = best
      BY <1>31, Running DEF AppendRow
    <3>3. rows \in Seq(RowRecord)
      OBVIOUS
    <3> QED
      <4>1. /\ row.latest = latest /\ row.best = best
            /\ row.generator = known.generator
        BY <3>2
      <4> HIDE DEF row
      <4> QED
        BY <3>1, <3>3, <4>1, AppendFacts
  <2>3. FilesMatchRows'
    <3>1. UNCHANGED <<snapshot, buffer>>
      BY <1>31 DEF AppendRow
    <3> QED
      BY <2>1, <2>2, <3>1
  <2>4. FilesInv'
    BY <1>31, <2>1, <2>2, <2>3 DEF AppendRow
  <2>5. StageInv' /\ RolesInv' /\ CountInv' /\ ResumableOnceCommitted'
    BY <1>31, <2>1, <2>2 DEF AppendRow
  <2> QED
    BY <2>4, <2>5
<1>32. CASE CountRow
  BY <1>32 DEF CountRow
<1>33. CASE Commit
  BY <1>33 DEF Commit
<1>34. CASE Crash
  BY <1>34 DEF Crash
<1>35. CASE UNCHANGED vars
  BY <1>35
<1> QED
  BY <1>1, <1>2, <1>3, <1>4, <1>5, <1>6, <1>7, <1>8, <1>9, <1>10, <1>11,
     <1>12, <1>13, <1>14, <1>15, <1>16, <1>17, <1>18, <1>19, <1>20, <1>21,
     <1>22, <1>23, <1>24, <1>25, <1>26, <1>27, <1>28, <1>29, <1>30, <1>31,
     <1>32, <1>33, <1>34, <1>35 DEF Next, StartUp, Iteration

----------------------------------------------------------------------------
(* The theorems.                                                           *)

LEMMA Initial == Init => IInv
<1> SUFFICES ASSUME Init PROVE IInv
  OBVIOUS
<1> USE ControllerAssumption, Files DEF Init
<1>1. TypeOK
  <2>1. NoRoles \in [latest : File, best : File, bestTrained : BOOLEAN,
                     generator : File, candidate : File]
    BY DEF NoRoles
  <2>2. /\ rows \in Seq(RowRecord) /\ Len(rows) <= MaxRows
        /\ anchors \in Seq(Measurement) /\ trainings \in Seq(Training)
    OBVIOUS
  <2>3. /\ buffer \in [RowIds -> File] /\ candidate \in [RowIds -> File]
        /\ snapshot \in [RowIds -> File]
        /\ saved \in [latest : File, best : File]
    OBVIOUS
  <2>4. 0 \in 0..MaxRows /\ 0 \in 0..MaxCrashes
    OBVIOUS
  <2> QED
    BY <2>1, <2>2, <2>3, <2>4, InitialType DEF TypeOK
<1>2. Recoverable
  BY DEF Recoverable, StageInv, RolesInv, FilesInv, CountInv, FilesMatchRows,
         CountNeverAhead, ResumableOnceCommitted, Cut, Current, IterateSteps, RowIds,
         Unmarked, Played, Marked, Closing, Dropping, Undoing
<1> QED
  BY <1>1, <1>2 DEF IInv

LEMMA Inductive == Safety => []IInv
<1>1. IInv /\ [Next]_vars => IInv'
  BY TypeStep, RecoverableStep DEF IInv
<1> QED
  BY <1>1, Initial, PTL DEF Safety

(* Every variable keeps its type: no write addresses a row beyond MaxRows, *)
(* an installed role is never a missing file, and a measurement always has *)
(* a past self to compare with.                                            *)
THEOREM TypeCorrect == Safety => []TypeOK
<1>1. IInv => TypeOK
  BY DEF IInv
<1> QED
  BY <1>1, Inductive, PTL

(* A run that has committed a row can be started again after any number of *)
(* deaths, whatever the gates decided, unless one died inside the write of *)
(* a row (_reconcile_pending, _verify_on_disk, generate_iteration).        *)
THEOREM Resumable == Safety => []ResumableOnceCommitted
<1>1. IInv => ResumableOnceCommitted
  BY DEF IInv, Recoverable
<1> QED
  BY <1>1, Inductive, PTL

(* The games and the snapshot kept for a committed row are those of the    *)
(* weights the row names (record_learner, rollback_iteration).             *)
THEOREM FilesKept == Safety => []FilesMatchRows
<1>1. IInv => FilesMatchRows
  BY DEF IInv, Recoverable, FilesInv
<1> QED
  BY <1>1, Inductive, PTL

(* The manifest never counts a row that is not in the log                  *)
(* (_PhaseDRunStore.append_iteration).                                     *)
THEOREM CountTrails == Safety => []CountNeverAhead
<1>1. IInv => CountNeverAhead
  BY DEF IInv, Recoverable, CountInv
<1> QED
  BY <1>1, Inductive, PTL

----------------------------------------------------------------------------
(* What a run says of itself is so after any number of deaths: the weights *)
(* of a row descend from those of the row before, a replaced best is in    *)
(* the hall of fame, a measurement compares the learner with the one it    *)
(* claims to.  The invariant follows one iteration from the roles and the  *)
(* state it began with, those of the last committed row, to the row it     *)
(* appends.                                                                *)

(* The inductive invariant.                                                *)

(* What the iteration under way began with: the roles and the state of the *)
(* last committed row.                                                     *)
Prior == RowBefore(Current)
PriorControl == IF rows = <<>> THEN InitialState ELSE Last.control

(* Stretches of the program, by what the iteration has done so far. *)
Untrained == {"ready", "back_up_best", "mark", "generate", "train"}
Saving    == {"save_candidate", "install_latest"}
Applying  == {"archive", "finish_entry", "install_best", "reset_learner",
              "reset_moments"}
Recording == {"record", "measure", "append", "finish_row"}

StateInv ==
    pc \notin {"down", "refused", "initialize", "install_latest_0",
               "install_best_0"} => control = PriorControl

(* The decision, and the state it was taken in. *)
DecisionInv ==
    /\ pc \in Saving \cup Applying \cup {"gate"} => Current >= MinBufferGames
    /\ pc \in Recording =>
         IF Skipped THEN /\ Current < MinBufferGames
                         /\ decision = "none"
                         /\ move = NotScheduledTransition(control)
                    ELSE Current >= MinBufferGames
    /\ pc \in Applying \/ (pc \in Recording /\ ~Skipped) =>
         /\ decision \in IF PromotionScheduled(rows, control)
                         THEN Decisions ELSE {"none"}
         /\ move = DecideTransition(control, decision, MayStepUp(rows))
    /\ pc \in {"archive", "finish_entry", "install_best"} => move.replaceBest
    /\ pc \in {"reset_learner", "reset_moments"} =>
         move.resetLearner /\ ~move.replaceBest

(* How far the decision has been applied to the two roles. *)
PositionInv ==
    /\ pc \in Untrained \cup Saving => latest = Prior.latest
    /\ pc \in Untrained \cup Saving \cup Applying \cup {"gate"} =>
         best = Prior.best
    /\ pc = "install_latest" => candidate[Current] = known.candidate
    /\ pc \in Applying \cup {"install_latest", "gate"} => ~Skipped
    /\ pc \in {"gate", "archive", "finish_entry", "install_best",
               "reset_learner"} => latest = known.candidate
    /\ pc = "reset_moments" => latest = best
    /\ pc \in Recording =>
         /\ best = IF move.replaceBest THEN known.candidate ELSE Prior.best
         /\ latest = IF Skipped THEN Prior.latest
                     ELSE IF move.resetLearner THEN best ELSE known.candidate
    /\ pc \in Played =>
         known.generator = IF GeneratorSource(control) = "latest"
                           THEN Prior.latest ELSE Prior.best

(* Training w is the one of row r: it went on from the learner before it,  *)
(* with the optimizer moments of that learner or with none.                *)
TrainedFor(w, r) ==
    /\ w \in DOMAIN trainings
    /\ trainings[w].row = r
    /\ trainings[w].learner = RowBefore(r).latest
    /\ trainings[w].moments \in {NoFile, trainings[w].learner}

TrainingInv ==
    /\ pc = "save_candidate" => TrainedFor(Len(trainings), Current)
    /\ pc \in Applying \cup Recording \cup {"install_latest", "gate"}
         /\ ~Skipped => TrainedFor(known.candidate, Current)

(* The optimizer state on disk is that of the learner, or there is none,   *)
(* but for an attempt that has not ended: its games are still there.       *)
MomentsInv ==
    /\ rows # <<>> /\ (pending # Current \/ pc \in {"clear_journal", "generate"}) =>
         moments \in {NoFile, Last.latest}
    /\ rows = <<>> /\ MaxRows > 0 /\ buffer[1] = NoFile => moments = NoFile
    /\ pc \in Recording \cup {"train", "gate", "archive", "finish_entry",
                             "install_best"} =>
         moments \in {NoFile, latest}
    /\ pc = "save_candidate" => moments = Len(trainings)
    /\ pc = "install_latest" => moments = known.candidate

(* Whether a best was ever trained is what its number says; a trained one  *)
(* is in the hall of fame before anything replaces it.                     *)
HallInv ==
    /\ pc \in IterateSteps => (known.bestTrained <=> best # 0)
    /\ pc = "finish_entry" => known.bestTrained
    /\ pc = "install_best" \/ (pc \in Recording /\ move.replaceBest) =>
         Prior.best \in hof \cup {0}

ProgressInv == /\ StateInv /\ DecisionInv /\ PositionInv
               /\ TrainingInv /\ MomentsInv /\ HallInv

(* Weights a row may name: the untrained network, or what a row trained. *)
Committed(w) ==
    w = 0 \/ \E k \in DOMAIN rows : w # NoFile /\ rows[k].candidate = w

(* What is so of the committed rows whatever the process does. *)
RowsInv ==
    \A r \in DOMAIN rows :
        /\ rows[r].candidate # NoFile => TrainedFor(rows[r].candidate, r)
        /\ rows[r].control.trained <=> rows[r].best # 0
        /\ Committed(rows[r].latest)
        /\ Committed(rows[r].best)
        /\ Committed(rows[r].generator)

ArchiveInv == HallOfFameIsComplete /\ AnchorsComparePastSelves

RunInv == IInv /\ ProgressInv /\ RowsInv /\ ArchiveInv

----------------------------------------------------------------------------
(* What an iteration begins with.                                          *)

LEMMA PriorFacts ==
  ASSUME TypeOK
  PROVE  /\ rows = <<>> => /\ Prior.latest = 0 /\ Prior.best = 0
                           /\ PriorControl = InitialState
         /\ rows # <<>> => /\ Prior.latest = Last.latest /\ Prior.best = Last.best
                           /\ PriorControl = Last.control
         /\ Prior.latest \in Nat /\ Prior.best \in Nat
         /\ PriorControl \in Control
<1>1. Len(rows) \in Nat /\ (rows = <<>> <=> Len(rows) = 0)
  BY DEF TypeOK
<1>2. CASE rows = <<>>
  BY <1>1, <1>2, InitialType DEF Prior, PriorControl, RowBefore, Current
<1>3. CASE rows # <<>>
  <2>1. RowBefore(Current) = [latest |-> Last.latest, best |-> Last.best]
    BY <1>1, <1>3 DEF RowBefore, Current, Last
  <2> QED
    BY <1>3, <2>1, LastRow DEF Prior, PriorControl
<1> QED
  BY <1>2, <1>3

(* Nothing but AppendRow changes what the rows say.                        *)
LEMMA SameRows ==
  ASSUME rows' = rows
  PROVE  /\ Prior' = Prior /\ PriorControl' = PriorControl
         /\ Current' = Current /\ Last' = Last
         /\ \A r : RowBefore(r)' = RowBefore(r)
         /\ \A w : Committed(w)' <=> Committed(w)
<1>1. Current' = Current /\ Last' = Last /\ \A r : RowBefore(r)' = RowBefore(r)
  BY DEF Current, Last, RowBefore
<1>2. Prior' = Prior /\ PriorControl' = PriorControl
  BY <1>1 DEF Prior, PriorControl
<1>3. \A w : Committed(w)' <=> Committed(w)
  BY DEF Committed
<1> QED
  BY <1>1, <1>2, <1>3

LEMMA SameTrainings ==
  ASSUME rows' = rows, trainings' = trainings
  PROVE  \A w, r : TrainedFor(w, r)' <=> TrainedFor(w, r)
BY SameRows DEF TrainedFor

(* One game of the games clock is one committed iteration.                 *)
LEMMA Clock ==
  ASSUME IInv
  PROVE  /\ \A n \in 1..Len(rows) : GamesThrough(n) = n
         /\ pc \in Played => GamesThrough(Current) = Current
<1>1. Len(rows) \in Nat /\ DOMAIN rows = 1..Len(rows)
  BY DEF IInv, TypeOK
<1>2. \A n \in 1..Len(rows) : buffer[n] # NoFile
  <2> TAKE n \in 1..Len(rows)
  <2>1. rows[n] \in RowRecord
    BY <1>1 DEF IInv, TypeOK
  <2>2. buffer[n] = rows[n].generator
    BY <1>1 DEF IInv, Recoverable, FilesInv, FilesMatchRows
  <2> QED
    BY <2>1, <2>2, Files DEF RowRecord
<1>3. ASSUME NEW k \in Nat, \A n \in 1..k : buffer[n] # NoFile
      PROVE  GamesThrough(k) = k
  <2>1. {n \in 1..k : buffer[n] # NoFile} = 1..k
    BY <1>3
  <2>2. Cardinality(1..k) = k
    BY FS_Interval
  <2> QED
    BY <2>1, <2>2 DEF GamesThrough
<1>4. ASSUME NEW n \in 1..Len(rows) PROVE GamesThrough(n) = n
  BY <1>1, <1>2, <1>3
<1>5. ASSUME pc \in Played PROVE GamesThrough(Current) = Current
  <2>1. buffer[Current] # NoFile
    BY <1>5 DEF IInv, Recoverable, FilesInv
  <2>2. \A n \in 1..Current : n = Current \/ n \in 1..Len(rows)
    BY <1>1 DEF Current
  <2> QED
    BY <1>1, <1>2, <1>3, <2>1, <2>2 DEF Current
<1> QED
  BY <1>4, <1>5

----------------------------------------------------------------------------
(* Steps.                                                                  *)

(* The rows, and what they name, are looked at again only when one of them *)
(* is written.                                                             *)
LEMMA QuietHistory ==
  ASSUME RowsInv, ArchiveInv, UNCHANGED <<rows, trainings, hof, anchors>>
  PROVE  RowsInv' /\ ArchiveInv'
<1>1. RowsInv'
  BY SameRows, SameTrainings DEF RowsInv
<1>2. ArchiveInv'
  BY SameRows DEF ArchiveInv, HallOfFameIsComplete, AnchorsComparePastSelves
<1> QED
  BY <1>1, <1>2

(* The row that is appended is the iteration's.                            *)
LEMMA AppendedRow ==
  ASSUME IInv, AppendRow
  PROVE  /\ rows' # <<>> /\ Len(rows') = Current /\ Current' = Current + 1
         /\ DOMAIN rows' = DOMAIN rows \cup {Current}
         /\ \A r \in DOMAIN rows : rows'[r] = rows[r]
         /\ Last' = rows'[Current]
         /\ LET row == rows'[Current]
            IN  /\ row.latest = latest /\ row.best = best
                /\ row.generator = known.generator
                /\ row.candidate = known.candidate
                /\ row.decision = decision /\ row.action = move.action
                /\ row.control = move.next
<1> DEFINE row == [latest    |-> known.latest,
                   best      |-> known.best,
                   generator |-> known.generator,
                   candidate |-> known.candidate,
                   decision  |-> decision,
                   action    |-> move.action,
                   control   |-> move.next,
                   measured  |-> measured]
<1>1. rows' = Append(rows, row) /\ rows \in Seq(RowRecord)
  BY DEF AppendRow, IInv, TypeOK
<1>2. row.latest = latest /\ row.best = best
  BY Running DEF AppendRow, IterateSteps
<1>3. /\ row.generator = known.generator /\ row.candidate = known.candidate
      /\ row.decision = decision /\ row.action = move.action
      /\ row.control = move.next
  OBVIOUS
<1> HIDE DEF row
<1>4. /\ Len(rows) \in Nat /\ Len(rows') = Len(rows) + 1
      /\ DOMAIN rows' = DOMAIN rows \cup {Len(rows) + 1}
      /\ rows'[Len(rows) + 1] = row
      /\ \A r \in DOMAIN rows : rows'[r] = rows[r]
  BY <1>1, AppendFacts
<1>5. rows' # <<>>
  BY <1>1
<1> QED
  BY <1>2, <1>3, <1>4, <1>5 DEF Current, Last

LEMMA ProgressStep ==
  ASSUME RunInv, [Next]_vars
  PROVE  ProgressInv'
<1> USE Files DEF vars, roles, journal, ledger, artefacts, archives, outcome,
        history, disk, ProgressInv, StateInv, DecisionInv, PositionInv,
        TrainingInv, MomentsInv, HallInv, Untrained, Saving, Applying,
        Recording, Played, IterateSteps, Skipped
<1>0. /\ rows = <<>> => /\ Prior.latest = 0 /\ Prior.best = 0
                        /\ PriorControl = InitialState
      /\ rows # <<>> => /\ Prior.latest = Last.latest /\ Prior.best = Last.best
                        /\ PriorControl = Last.control
      /\ Prior.latest \in Nat /\ Prior.best \in Nat /\ PriorControl \in Control
      /\ StageInv /\ RolesInv /\ FilesInv /\ TypeOK /\ ProgressInv
  BY PriorFacts DEF RunInv, IInv, Recoverable
<1>q. ASSUME rows' = rows
      PROVE  /\ Prior' = Prior /\ PriorControl' = PriorControl
             /\ Current' = Current /\ Last' = Last
             /\ trainings' = trainings =>
                  \A w, r : TrainedFor(w, r)' <=> TrainedFor(w, r)
  BY <1>q, SameRows, SameTrainings
<1>1. CASE Start
  BY <1>0, <1>q, <1>1 DEF Start, StageInv, RolesInv
<1>2. CASE Bootstrap
  BY <1>0, <1>q, <1>2 DEF Bootstrap, StageInv, RolesInv
<1>3. CASE InstallInitialLatest
  BY <1>0, <1>q, <1>3 DEF InstallInitialLatest, StageInv, RolesInv
<1>4. CASE InstallInitialBest
  <2>1. /\ pc' = "ready" /\ best' = 0 /\ rows = <<>> /\ latest = 0
        /\ control' = InitialState /\ pending = 0
        /\ UNCHANGED <<latest, journal, ledger, artefacts, archives, outcome,
                       history>>
    BY <1>0, <1>4 DEF InstallInitialBest, StageInv, RolesInv
  <2>2. known'.bestTrained = FALSE
    BY <1>4 DEF InstallInitialBest, NoRoles
  <2>3. StateInv' /\ DecisionInv' /\ TrainingInv' /\ HallInv'
    BY <1>0, <1>q, <2>1, <2>2
  <2>4. PositionInv' /\ MomentsInv'
    BY <1>0, <1>q, <2>1
  <2> QED
    BY <2>3, <2>4
<1>5. CASE Resume
  BY <1>0, <1>q, <1>5 DEF Resume, StageInv, RolesInv
<1>6. CASE RestoreLatest
  BY <1>0, <1>q, <1>6 DEF RestoreLatest, StageInv, RolesInv
<1>7. CASE RestoreBest
  BY <1>0, <1>q, <1>7 DEF RestoreBest, StageInv, RolesInv
<1>8. CASE DropBuffer
  BY <1>0, <1>q, <1>8 DEF DropBuffer, StageInv, RolesInv,
     Unmarked, Marked, Closing, Dropping, Undoing
<1>9. CASE DropCandidate
  BY <1>0, <1>q, <1>9 DEF DropCandidate, StageInv, RolesInv
<1>10. CASE DropSnapshot
  BY <1>0, <1>q, <1>10 DEF DropSnapshot, StageInv, RolesInv
<1>11. CASE DropMoments
  BY <1>0, <1>q, <1>11 DEF DropMoments, StageInv, RolesInv
<1>12. CASE ClearJournal
  BY <1>0, <1>q, <1>12 DEF ClearJournal, StageInv, RolesInv
<1>13. CASE Verify
  <2>1. CASE pc' = "refused"
    BY <1>0, <1>q, <1>13, <2>1 DEF Verify
  <2>2. CASE pc' # "refused"
    <3>1. /\ pc = "verify" /\ pc' = "ready" /\ rows # <<>> /\ pending = 0
          /\ latest = Last.latest /\ best = Last.best
          /\ UNCHANGED <<disk, control, outcome, history>>
      BY <1>0, <1>13, <2>2 DEF Verify, StageInv
    <3>2. known'.bestTrained = control.trained
      BY <1>13, <2>2 DEF Verify, NoRoles
    <3>3. control.trained <=> best # 0
      <4>1. Last.control.trained <=> Last.best # 0
        BY <3>1, LastRow DEF RunInv, IInv, RowsInv
      <4> QED
        BY <1>0, <3>1, <4>1
    <3>4. pending # Current
      BY <1>0, <3>1, CurrentType
    <3>5. StateInv' /\ DecisionInv' /\ TrainingInv'
      BY <1>0, <1>q, <3>1
    <3>6. HallInv'
      BY <3>1, <3>2, <3>3
    <3>7. PositionInv' /\ MomentsInv'
      BY <1>0, <1>q, <3>1, <3>4
    <3> QED
      BY <3>5, <3>6, <3>7
  <2> QED
    BY <2>1, <2>2
<1>14. CASE BackUpLatest
  BY <1>0, <1>q, <1>14 DEF BackUpLatest, StageInv, RolesInv
<1>15. CASE BackUpBest
  BY <1>0, <1>q, <1>15 DEF BackUpBest, StageInv, RolesInv
<1>16. CASE Mark
  <2>1. /\ pc = "mark" /\ pc' = "generate" /\ pending' = Current /\ pending = 0
        /\ UNCHANGED <<roles, saved, ledger, artefacts, archives, control,
                       known, outcome, history>>
    BY <1>0, <1>16 DEF Mark, StageInv, Unmarked
  <2>2. pending # Current
    BY <1>0, <2>1, CurrentType
  <2>3. StateInv' /\ DecisionInv' /\ TrainingInv' /\ HallInv' /\ PositionInv'
    BY <1>0, <1>q, <2>1
  <2>4. MomentsInv'
    BY <1>0, <1>q, <2>1, <2>2
  <2> QED
    BY <2>3, <2>4
<1>17. CASE Generate
  <2>1. CASE pc' = "refused"
    <3>1. pc = "generate" /\ UNCHANGED <<disk, control, known, outcome, history>>
      BY <1>17, <2>1 DEF Generate
    <3> QED
      BY <1>0, <1>q, <2>1, <3>1
  <2>2. CASE pc' # "refused"
    <3>0. buffer[Current] = NoFile
      BY <1>17, <2>2 DEF Generate
    <3>1. /\ known'.generator = RoleArtifact
          /\ known'.candidate = known.candidate
          /\ known'.bestTrained = known.bestTrained
      BY <1>0, <1>17, <2>2 DEF Generate, TypeOK
    <3>2. /\ pc = "generate" /\ pc' = "train"
          /\ UNCHANGED <<roles, journal, ledger, candidate, snapshot, moments,
                         archives, control, outcome, history>>
      BY <1>17, <2>2 DEF Generate
    <3>3. rows = <<>> => Current = 1 /\ MaxRows > 0
      BY <1>0, <3>2, CurrentType, ControllerAssumption
         DEF Current, StageInv, Marked
    <3>4. moments \in {NoFile, latest}
      BY <1>0, <3>0, <3>2, <3>3
    <3>5. known'.generator = IF GeneratorSource(control) = "latest"
                             THEN Prior.latest ELSE Prior.best
      BY <1>0, <3>1, <3>2, Running DEF RunInv, RoleArtifact
    <3>6. rows = <<>> => moments = NoFile
      BY <1>0, <3>0, <3>2, <3>3
    <3>7. StateInv' /\ DecisionInv' /\ TrainingInv' /\ HallInv'
      BY <1>0, <1>q, <3>1, <3>2
    <3>8. PositionInv'
      BY <1>0, <1>q, <3>2, <3>5
    <3>9. MomentsInv'
      BY <1>0, <1>q, <3>2, <3>4, <3>6 DEF StageInv, Marked
    <3> QED
      BY <3>7, <3>8, <3>9
  <2> QED
    BY <2>1, <2>2
<1>18. CASE Train
  <2>1. /\ pc = "train" /\ pc' = "save_candidate"
        /\ trainings' = Append(trainings, [row |-> Current, learner |-> latest,
                                           moments |-> moments])
        /\ moments' = Len(trainings')
        /\ UNCHANGED <<roles, journal, ledger, buffer, candidate, snapshot,
                       archives, control, known, outcome>>
    BY <1>18 DEF Train
  <2>2. GamesThrough(Current) = Current
    BY <2>1, Clock DEF RunInv
  <2>3. Current >= MinBufferGames
    BY <1>18, <2>2 DEF Train
  <2>4. /\ Len(trainings') = Len(trainings) + 1 /\ Len(trainings) \in Nat
        /\ DOMAIN trainings' = 1..Len(trainings) + 1
        /\ trainings'[Len(trainings) + 1] =
             [row |-> Current, learner |-> latest, moments |-> moments]
    BY <1>0, <2>1 DEF TypeOK
  <2>5. TrainedFor(Len(trainings), Current)'
    <3>1. RowBefore(Current)'.latest = latest /\ Current' = Current
      BY <1>0, <1>q, <2>1, SameRows DEF Prior
    <3>2. moments \in {NoFile, latest}
      BY <1>0, <2>1
    <3> QED
      BY <2>4, <3>1, <3>2 DEF TrainedFor
  <2>6. rows = <<>> => buffer[1] # NoFile
    BY <1>0, <2>1, CurrentType DEF Current, FilesInv
  <2>7. PositionInv' /\ StateInv' /\ HallInv'
    BY <1>0, <1>q, <2>1
  <2>8. DecisionInv' /\ TrainingInv'
    BY <1>0, <1>q, <2>1, <2>3, <2>5
  <2>9. MomentsInv'
    BY <1>0, <1>q, <2>1, <2>6 DEF StageInv, Marked
  <2> QED
    BY <2>7, <2>8, <2>9
<1>19. CASE SkipTraining
  <2>1. /\ pc = "train" /\ pc' = "record" /\ decision' = "none"
        /\ move' = NotScheduledTransition(control)
        /\ known' = [known EXCEPT !.candidate = NoFile]
        /\ UNCHANGED <<disk, control, measured, history>>
    BY <1>19 DEF SkipTraining
  <2>2. Current < MinBufferGames
    <3>1. GamesThrough(Current) = Current
      BY <2>1, Clock DEF RunInv
    <3> QED
      BY <1>19, <3>1 DEF SkipTraining
  <2>3. /\ known'.candidate = NoFile /\ known'.generator = known.generator
        /\ known'.bestTrained = known.bestTrained
    BY <1>0, <2>1 DEF TypeOK
  <2>4. move'.replaceBest = FALSE
    BY <2>1 DEF NotScheduledTransition, Transition
  <2>5. StateInv' /\ MomentsInv' /\ HallInv'
    BY <1>0, <1>q, <2>1, <2>3, <2>4
  <2>6. DecisionInv' /\ TrainingInv'
    BY <1>0, <1>q, <2>1, <2>2, <2>3
  <2>7. PositionInv'
    BY <1>0, <1>q, <2>1, <2>3, <2>4
  <2> QED
    BY <2>5, <2>6, <2>7
<1>20. CASE SaveCandidate
  <2>1. /\ pc = "save_candidate" /\ pc' = "install_latest"
        /\ candidate' = [candidate EXCEPT ![Current] = Len(trainings)]
        /\ known' = [known EXCEPT !.candidate = Len(trainings)]
        /\ UNCHANGED <<roles, journal, ledger, buffer, snapshot, moments,
                       archives, control, outcome, history>>
    BY <1>20 DEF SaveCandidate
  <2>2. /\ known'.candidate = Len(trainings) /\ known'.generator = known.generator
        /\ known'.bestTrained = known.bestTrained
    BY <1>0, <2>1 DEF TypeOK
  <2>3. Current \in RowIds /\ Len(trainings) \in Nat
    BY <1>0, <2>1, NextRow DEF StageInv, Marked, TypeOK
  <2>4. candidate'[Current] = Len(trainings)
    BY <1>0, <2>1, <2>3 DEF TypeOK
  <2>5. StateInv' /\ DecisionInv' /\ HallInv'
    BY <1>0, <1>q, <2>1, <2>2
  <2>6. PositionInv'
    BY <1>0, <1>q, <2>1, <2>2, <2>3, <2>4
  <2>7. TrainingInv' /\ MomentsInv'
    BY <1>0, <1>q, <2>1, <2>2 DEF StageInv, Marked
  <2> QED
    BY <2>5, <2>6, <2>7
<1>21. CASE InstallLatest
  BY <1>0, <1>q, <1>21 DEF InstallLatest, StageInv, RolesInv
<1>22. CASE Gate
  <2>1. /\ pc = "gate" /\ UNCHANGED <<disk, control, known, measured, history>>
        /\ decision' \in IF PromotionScheduled(rows, control)
                          THEN Decisions ELSE {"none"}
        /\ move' = DecideTransition(control, decision', MayStepUp(rows))
        /\ pc' = AfterDecision(move')
    BY <1>22 DEF Gate
  <2>2. /\ decision' \in Decisions \cup {"none"} /\ MayStepUp(rows) \in BOOLEAN
        /\ decision' # "none" => ~IsBootstrapEligible(control)
        /\ control \in Control
    BY <1>0, <2>1 DEF PromotionScheduled, MayStepUp, TypeOK
  <2>3. /\ move'.replaceBest \in BOOLEAN /\ move'.resetLearner \in BOOLEAN
        /\ ~(move'.replaceBest /\ move'.resetLearner)
    BY <2>1, <2>2, RoleMoves
  <2>4. \/ pc' = "archive" /\ move'.replaceBest
        \/ pc' = "reset_learner" /\ move'.resetLearner /\ ~move'.replaceBest
        \/ pc' = "record" /\ ~move'.resetLearner /\ ~move'.replaceBest
    BY <2>1, <2>3 DEF AfterDecision
  <2>5. DecisionInv'
    BY <1>0, <1>q, <2>1, <2>4
  <2>6. StateInv' /\ PositionInv' /\ TrainingInv'
    BY <1>0, <1>q, <2>1, <2>4
  <2>7. MomentsInv' /\ HallInv'
    BY <1>0, <1>q, <2>1, <2>4
  <2> QED
    BY <2>5, <2>6, <2>7
<1>23. CASE ArchiveBest
  <2>1. /\ pc \in {"archive", "finish_entry"}
        /\ pc' \in {"finish_entry", "install_best", "refused"}
        /\ pc' = "finish_entry" => known.bestTrained
        /\ pc' = "install_best" => (known.bestTrained => best \in hof')
        /\ UNCHANGED <<roles, journal, ledger, artefacts, anchors, control,
                       known, outcome, history>>
    BY <1>23 DEF ArchiveBest, NothingToAdd, BeginEntry, FinishEntry, EntriesRaise
  <2>2. best = Prior.best /\ (known.bestTrained <=> best # 0)
    BY <1>0, <2>1
  <2>3. pc' = "install_best" => Prior.best \in hof' \cup {0}
    BY <2>1, <2>2
  <2>4. StateInv' /\ DecisionInv' /\ PositionInv' /\ TrainingInv' /\ MomentsInv'
    BY <1>0, <1>q, <2>1 DEF StageInv
  <2>5. HallInv'
    BY <1>0, <1>q, <2>1, <2>2, <2>3
  <2> QED
    BY <2>4, <2>5
<1>24. CASE InstallBest
  <2>1. /\ pc = "install_best" /\ pc' = "record" /\ best' = latest
        /\ known' = [known EXCEPT !.best = latest, !.bestTrained = TRUE]
        /\ UNCHANGED <<latest, journal, ledger, artefacts, archives, control,
                       outcome, history>>
    BY <1>24 DEF InstallBest
  <2>2. /\ known'.candidate = known.candidate
        /\ known'.generator = known.generator /\ known'.bestTrained = TRUE
    BY <1>0, <2>1 DEF TypeOK
  <2>3. latest \in Nat \ {0}
    <3>1. latest \in DOMAIN trainings
      BY <1>0, <2>1 DEF TrainedFor
    <3> QED
      BY <1>0, <3>1 DEF TypeOK
  <2>4. StateInv' /\ DecisionInv' /\ TrainingInv' /\ MomentsInv'
    BY <1>0, <1>q, <2>1, <2>2
  <2>5. PositionInv'
    BY <1>0, <1>q, <2>1, <2>2
  <2>6. HallInv'
    BY <1>0, <1>q, <2>1, <2>2, <2>3
  <2> QED
    BY <2>4, <2>5, <2>6
<1>25. CASE ResetLearner
  BY <1>0, <1>q, <1>25 DEF ResetLearner, StageInv, RolesInv
<1>26. CASE ResetMoments
  BY <1>0, <1>q, <1>26 DEF ResetMoments, StageInv, RolesInv
<1>27. CASE RecordLearner
  BY <1>0, <1>q, <1>27 DEF RecordLearner, StageInv, RolesInv
<1>28. CASE Measure
  BY <1>0, <1>q, <1>28 DEF Measure, StageInv, RolesInv
<1>29. CASE MeasureNothing
  BY <1>0, <1>q, <1>29 DEF MeasureNothing, StageInv, RolesInv
<1>30. CASE BeginRow
  BY <1>0, <1>q, <1>30 DEF BeginRow, StageInv, RolesInv
<1>31. CASE AppendRow
  <2>1. /\ pc = "finish_row" /\ pc' = "count" /\ control' = move.next
        /\ UNCHANGED <<roles, journal, counted, artefacts, archives, known,
                       outcome, history>>
    BY <1>31 DEF AppendRow
  <2>2. /\ rows' # <<>> /\ Last'.control = move.next /\ Last'.latest = latest
        /\ Current' = Current + 1
    BY <1>31, AppendedRow DEF RunInv
  <2>3. PriorControl' = control'
    BY <2>1, <2>2 DEF PriorControl
  <2>4. pending = Current /\ Current \in Nat
    BY <1>0, <2>1, CurrentType DEF StageInv, Marked
  <2>5. StateInv' /\ DecisionInv' /\ PositionInv' /\ TrainingInv' /\ HallInv'
    BY <1>0, <2>1, <2>3
  <2>6. MomentsInv'
    BY <1>0, <2>1, <2>2, <2>4
  <2> QED
    BY <2>5, <2>6
<1>32. CASE CountRow
  BY <1>0, <1>q, <1>32 DEF CountRow, StageInv, RolesInv
<1>33. CASE Commit
  <2>1. /\ pc = "commit" /\ pc' = "ready"
        /\ known' = [known EXCEPT !.generator = NoFile, !.candidate = NoFile]
        /\ UNCHANGED <<roles, saved, ledger, artefacts, archives, control,
                       history>>
    BY <1>33 DEF Commit
  <2>2. known'.bestTrained = known.bestTrained
    BY <1>0, <2>1 DEF TypeOK
  <2>3. rows # <<>> /\ pending # Current
    BY <1>0, <2>1, CurrentType DEF StageInv, Closing, Current
  <2>4. latest = Last.latest /\ best = Last.best
    BY <1>0, <2>3 DEF RolesInv
  <2>5. StateInv' /\ DecisionInv' /\ TrainingInv' /\ HallInv'
    BY <1>0, <1>q, <2>1, <2>2
  <2>6. PositionInv' /\ MomentsInv'
    BY <1>0, <1>q, <2>1, <2>3, <2>4
  <2> QED
    BY <2>5, <2>6
<1>34. CASE Crash
  BY <1>0, <1>q, <1>34 DEF Crash, StageInv, RolesInv
<1>35. CASE UNCHANGED vars
  BY <1>0, <1>q, <1>35
<1> QED
  BY <1>1, <1>2, <1>3, <1>4, <1>5, <1>6, <1>7, <1>8, <1>9, <1>10, <1>11, <1>12, <1>13, <1>14, <1>15, <1>16, <1>17, <1>18, <1>19, <1>20, <1>21, <1>22, <1>23, <1>24, <1>25, <1>26, <1>27, <1>28, <1>29, <1>30, <1>31, <1>32, <1>33, <1>34, <1>35 DEF Next, StartUp, Iteration

(* The past self of a measurement is the learner of AnchorLag games ago.   *)
LEMMA PastSelf ==
  ASSUME IInv, Measure
  PROVE  /\ Current - AnchorLag \in DOMAIN rows
         /\ anchors' = Append(anchors,
              [row |-> Current, games |-> GamesThrough(Current),
               subject |-> latest, past |-> rows[Current - AnchorLag].latest])
<1>1. /\ Len(rows) \in Nat /\ DOMAIN rows = 1..Len(rows)
      /\ Current = Len(rows) + 1 /\ AnchorLag \in Nat \ {0}
  BY ControllerAssumption DEF IInv, TypeOK, Current
<1>2. GamesThrough(Current) = Current /\ \A n \in 1..Len(rows) : GamesThrough(n) = n
  BY Clock DEF Measure, Played
<1>3. Current > AnchorLag
  BY <1>2 DEF Measure, MeasurementDue
<1> DEFINE lag == Current - AnchorLag
<1>4. lag \in 1..Len(rows)
  BY <1>1, <1>3
<1>5. \A n \in 1..Len(rows) : buffer[n] # NoFile /\ snapshot[n] = rows[n].latest
                              /\ snapshot[n] # NoFile
  <2> TAKE n \in 1..Len(rows)
  <2>1. rows[n] \in RowRecord
    BY <1>1 DEF IInv, TypeOK
  <2>2. buffer[n] = rows[n].generator /\ snapshot[n] = rows[n].latest
    BY <1>1 DEF IInv, Recoverable, FilesInv, FilesMatchRows
  <2> QED
    BY <2>1, <2>2, Files DEF RowRecord
<1>6. PastRows = 1..lag
  <2>1. \A n : n \in PastRows <=> n \in 1..Len(rows) /\ n <= lag
    BY <1>1, <1>2, <1>5 DEF PastRows
  <2> HIDE DEF lag
  <2>2. ASSUME NEW n PROVE n \in PastRows <=> n \in 1..lag
    BY <1>1, <1>4, <2>1
  <2> QED
    BY <2>2
<1>7. (CHOOSE n \in PastRows : \A m \in PastRows : m <= n) = lag
  <2>1. lag \in PastRows /\ \A m \in PastRows : m <= lag
    BY <1>1, <1>4, <1>6
  <2>2. ASSUME NEW n \in PastRows, \A m \in PastRows : m <= n
        PROVE  n = lag
    BY <1>1, <1>4, <1>6, <2>1, <2>2
  <2> HIDE DEF lag
  <2> QED
    BY <2>1, <2>2
<1> QED
  BY <1>1, <1>4, <1>5, <1>7 DEF Measure

(* What the decision has made of the roles when the row is written.        *)
LEMMA Outcome ==
  ASSUME RunInv, pc = "finish_row"
  PROVE  /\ move.next.trained <=> best # 0
         /\ latest \in {Prior.latest, Prior.best, known.candidate}
         /\ best \in {Prior.best, known.candidate}
         /\ Skipped => latest = Prior.latest /\ best = Prior.best
         /\ best # Prior.best => Prior.best \in hof \cup {0}
         /\ known.generator \in {Prior.latest, Prior.best}
         /\ ~Skipped => TrainedFor(known.candidate, Current)
<1>1. /\ pc \in Recording /\ pc \in Played /\ pc \in IterateSteps
      /\ StateInv /\ DecisionInv /\ PositionInv /\ TrainingInv /\ HallInv
  BY DEF RunInv, ProgressInv, Recording, Played, IterateSteps
<1>2. control = PriorControl /\ control \in Control
  BY <1>1, PriorFacts DEF StateInv, RunInv, IInv
<1>3. control.trained <=> Prior.best # 0
  <2>1. CASE rows = <<>>
    BY <1>2, <2>1, PriorFacts DEF RunInv, IInv, InitialState
  <2>2. CASE rows # <<>>
    BY <1>2, <2>2, PriorFacts, LastRow DEF RunInv, IInv, RowsInv
  <2> QED
    BY <2>1, <2>2
<1>4. CASE Skipped
  <2>1. move = NotScheduledTransition(control)
    BY <1>1, <1>4 DEF DecisionInv
  <2>2. move.replaceBest = FALSE /\ move.next = control
    BY <2>1 DEF NotScheduledTransition, Transition
  <2> QED
    BY <1>1, <1>2, <1>3, <1>4, <2>2 DEF PositionInv
<1>5. CASE ~Skipped
  <2>1. /\ decision \in IF PromotionScheduled(rows, control)
                        THEN Decisions ELSE {"none"}
        /\ move = DecideTransition(control, decision, MayStepUp(rows))
    BY <1>1, <1>5 DEF DecisionInv
  <2>2. /\ decision \in Decisions \cup {"none"} /\ MayStepUp(rows) \in BOOLEAN
        /\ decision # "none" => ~IsBootstrapEligible(control)
    BY <2>1 DEF PromotionScheduled, MayStepUp
  <2>3. /\ move.next.trained <=> control.trained \/ move.replaceBest
        /\ move.replaceBest \in BOOLEAN
    BY <1>2, <2>1, <2>2, TrainedMoves, RoleMoves
  <2>4. TrainedFor(known.candidate, Current)
    BY <1>1, <1>5 DEF TrainingInv
  <2>5. known.candidate # 0
    <3>1. known.candidate \in DOMAIN trainings
      BY <2>4 DEF TrainedFor
    <3> QED
      BY <3>1 DEF RunInv, IInv, TypeOK
  <2>6. /\ best = IF move.replaceBest THEN known.candidate ELSE Prior.best
        /\ latest = IF move.resetLearner THEN best ELSE known.candidate
        /\ known.generator \in {Prior.latest, Prior.best}
    BY <1>1, <1>5 DEF PositionInv
  <2>7. move.replaceBest => Prior.best \in hof \cup {0}
    BY <1>1 DEF HallInv
  <2>8. move.next.trained <=> best # 0
    <3>1. CASE move.replaceBest
      BY <2>3, <2>5, <2>6, <3>1
    <3>2. CASE ~move.replaceBest
      BY <1>3, <2>3, <2>6, <3>2
    <3> QED
      BY <3>1, <3>2
  <2> QED
    BY <1>5, <2>4, <2>6, <2>7, <2>8
<1> QED
  BY <1>4, <1>5

(* The roles an iteration begins with are weights of committed rows.       *)
LEMMA PriorCommitted ==
  ASSUME RunInv
  PROVE  Committed(Prior.latest) /\ Committed(Prior.best)
<1>1. CASE rows = <<>>
  BY <1>1, PriorFacts DEF RunInv, IInv, Committed
<1>2. CASE rows # <<>>
  BY <1>2, PriorFacts, LastRow DEF RunInv, IInv, RowsInv
<1> QED
  BY <1>1, <1>2

(* Four actions write what the rows say or what they name.                 *)
LEMMA Writers ==
  ASSUME [Next]_vars
  PROVE  \/ Train \/ ArchiveBest \/ Measure \/ AppendRow
         \/ UNCHANGED <<rows, trainings, hof, anchors>>
<1> USE DEF vars, roles, journal, ledger, artefacts, archives, outcome, history,
        disk
<1>1. CASE StartUp
  BY <1>1 DEF StartUp, Start, Bootstrap, InstallInitialLatest, InstallInitialBest,
              Resume, RestoreLatest, RestoreBest, DropBuffer, DropCandidate,
              DropSnapshot, DropMoments, ClearJournal, Verify
<1>2. CASE Iteration
  BY <1>2 DEF Iteration, BackUpLatest, BackUpBest, Mark, Generate, SkipTraining,
              SaveCandidate, InstallLatest, Gate, InstallBest, ResetLearner,
              ResetMoments, RecordLearner, MeasureNothing, BeginRow,
              CountRow, Commit
<1>3. CASE Crash
  BY <1>3 DEF Crash
<1> QED
  BY <1>1, <1>2, <1>3 DEF Next

LEMMA HistoryStep ==
  ASSUME RunInv, [Next]_vars
  PROVE  RowsInv' /\ ArchiveInv'
<1>1. CASE UNCHANGED <<rows, trainings, hof, anchors>>
  BY <1>1, QuietHistory DEF RunInv
<1>2. CASE Train
  <2>1. /\ trainings' = Append(trainings, [row |-> Current, learner |-> latest,
                                           moments |-> moments])
        /\ UNCHANGED <<rows, hof, anchors>>
    BY <1>2 DEF Train, ledger, archives, roles, journal
  <2>2. \A w \in DOMAIN trainings : w \in DOMAIN trainings' /\ trainings'[w] = trainings[w]
    BY <2>1, AppendFacts DEF RunInv, IInv, TypeOK
  <2>3. \A w, r : TrainedFor(w, r) => TrainedFor(w, r)'
    BY <2>1, <2>2, SameRows DEF TrainedFor
  <2>4. RowsInv'
    BY <2>1, <2>3, SameRows DEF RunInv, RowsInv
  <2>5. ArchiveInv'
    BY <2>1, SameRows DEF RunInv, ArchiveInv, HallOfFameIsComplete,
       AnchorsComparePastSelves
  <2> QED
    BY <2>4, <2>5
<1>3. CASE ArchiveBest
  <2>1. /\ pc \in {"archive", "finish_entry"}
        /\ hof' = hof \/ (pc = "finish_entry" /\ hof' = hof \cup {best})
        /\ UNCHANGED <<rows, trainings, anchors>>
    BY <1>3 DEF ArchiveBest, NothingToAdd, BeginEntry, FinishEntry, EntriesRaise,
       ledger, history
  <2>2. best = Prior.best /\ (pc = "finish_entry" => best # 0)
    BY <2>1 DEF RunInv, ProgressInv, PositionInv, HallInv, Applying, IterateSteps
  <2>3. best # 0 => best \in {rows[r].best : r \in DOMAIN rows}
    <3> SUFFICES ASSUME best # 0 PROVE best \in {rows[r].best : r \in DOMAIN rows}
      OBVIOUS
    <3>1. rows # <<>>
      BY <2>2, PriorFacts DEF RunInv, IInv
    <3>2. best = rows[Len(rows)].best /\ Len(rows) \in DOMAIN rows
      BY <2>2, <3>1, PriorFacts, LastRow DEF RunInv, IInv
    <3> QED
      BY <3>2
  <2>4. RowsInv'
    BY <2>1, SameRows, SameTrainings DEF RunInv, RowsInv
  <2>5. AnchorsComparePastSelves'
    BY <2>1 DEF RunInv, ArchiveInv, AnchorsComparePastSelves
  <2>6. HallOfFameIsComplete'
    <3>1. hof \subseteq hof' /\ hof' \subseteq {rows[r].best : r \in DOMAIN rows} \ {0}
      BY <2>1, <2>2, <2>3 DEF RunInv, ArchiveInv, HallOfFameIsComplete
    <3> QED
      BY <2>1, <3>1, SameRows DEF RunInv, ArchiveInv, HallOfFameIsComplete
  <2> QED
    BY <2>4, <2>5, <2>6 DEF ArchiveInv
<1>4. CASE Measure
  <2>1. /\ Current - AnchorLag \in DOMAIN rows
        /\ anchors' = Append(anchors,
             [row |-> Current, games |-> GamesThrough(Current),
              subject |-> latest, past |-> rows[Current - AnchorLag].latest])
        /\ UNCHANGED <<rows, trainings, hof>>
    BY <1>4, PastSelf DEF RunInv, Measure, ledger, history
  <2>2. RowsInv'
    BY <2>1, SameRows, SameTrainings DEF RunInv, RowsInv
  <2>3. HallOfFameIsComplete'
    BY <2>1, SameRows DEF RunInv, ArchiveInv, HallOfFameIsComplete
  <2>4. AnchorsComparePastSelves'
    <3>1. \A i \in DOMAIN anchors' :
            \/ i \in DOMAIN anchors /\ anchors'[i] = anchors[i]
            \/ anchors'[i].row = Current
               /\ anchors'[i].past = rows[Current - AnchorLag].latest
      BY <2>1, AppendFacts DEF RunInv, IInv, TypeOK
    <3> QED
      BY <2>1, <3>1 DEF RunInv, ArchiveInv, AnchorsComparePastSelves
  <2> QED
    BY <2>2, <2>3, <2>4 DEF ArchiveInv
<1>5. CASE AppendRow
  <2>1. PICK n \in Nat : n = Current
    BY CurrentType DEF RunInv, IInv
  <2> DEFINE row == rows'[n]
  <2>2. /\ DOMAIN rows' = DOMAIN rows \cup {n}
        /\ \A r \in DOMAIN rows : rows'[r] = rows[r]
        /\ row.latest = latest /\ row.best = best
        /\ row.generator = known.generator /\ row.candidate = known.candidate
        /\ row.control = move.next
    BY <1>5, <2>1, AppendedRow DEF RunInv
  <2>3. pc = "finish_row" /\ UNCHANGED <<trainings, hof, anchors>>
    BY <1>5 DEF AppendRow, archives, history
  <2>4. /\ Len(rows) \in Nat /\ DOMAIN rows = 1..Len(rows) /\ n = Len(rows) + 1
        /\ \A r \in DOMAIN rows \cup {n} : r # 1 => r - 1 \in DOMAIN rows
    BY <2>1 DEF RunInv, IInv, TypeOK, Current
  <2>5. /\ \A r \in DOMAIN rows \cup {n} : RowBefore(r)' = RowBefore(r)
        /\ RowBefore(n) = Prior
    BY <2>1, <2>2, <2>4 DEF RowBefore, Prior
  <2>6. \A w, r : r \in DOMAIN rows \cup {n} /\ TrainedFor(w, r) => TrainedFor(w, r)'
    BY <2>3, <2>5 DEF TrainedFor
  <2>7. /\ \A w : Committed(w) => Committed(w)'
        /\ \A w : ~Skipped /\ w = known.candidate => Committed(w)'
    <3>1. \A w : Committed(w) => Committed(w)'
      BY <2>2 DEF Committed
    <3>2. \A w : ~Skipped /\ w = known.candidate => Committed(w)'
      BY <2>2, AppendedRow, <1>5 DEF Committed, Skipped, RunInv
    <3> QED
      BY <3>1, <3>2
  <2> HIDE DEF row
  <2>8. RowsInv'
    <3> DEFINE kept(r) ==
                 /\ rows[r].candidate # NoFile => TrainedFor(rows[r].candidate, r)
                 /\ rows[r].control.trained <=> rows[r].best # 0
                 /\ Committed(rows[r].latest)
                 /\ Committed(rows[r].best)
                 /\ Committed(rows[r].generator)
    <3>1. ASSUME NEW r \in DOMAIN rows
          PROVE  kept(r)'
      <4>1. kept(r) /\ rows'[r] = rows[r]
        BY <2>2 DEF RunInv, RowsInv
      <4> QED
        BY <2>6, <2>7, <4>1
    <3>2. kept(n)'
      <4>1. /\ move.next.trained <=> best # 0
            /\ latest \in {Prior.latest, Prior.best, known.candidate}
            /\ best \in {Prior.best, known.candidate}
            /\ Skipped => latest = Prior.latest /\ best = Prior.best
            /\ known.generator \in {Prior.latest, Prior.best}
            /\ ~Skipped => TrainedFor(known.candidate, n)
        BY <2>1, <2>3, Outcome
      <4>2. ASSUME NEW w \in {Prior.latest, Prior.best}
            PROVE  Committed(w)'
        BY <2>7, PriorCommitted
      <4>3. PICK w : w = known.candidate
        OBVIOUS
      <4>4. ~Skipped => Committed(w)' /\ TrainedFor(w, n)'
        BY <2>6, <2>7, <4>1, <4>3
      <4>5. PICK l, b, g : l = row.latest /\ b = row.best /\ g = row.generator
        OBVIOUS
      <4>6. Committed(l)' /\ Committed(b)' /\ Committed(g)'
        BY <2>2, <4>1, <4>2, <4>3, <4>4, <4>5 DEF row
      <4> QED
        BY <2>2, <4>1, <4>3, <4>4, <4>5, <4>6 DEF row, Skipped
    <3> HIDE DEF kept
    <3>3. (\A r \in DOMAIN rows : kept(r))'
      BY <2>2, <3>1, <3>2
    <3> QED
      BY <3>3 DEF RowsInv, kept
  <2>9. ArchiveInv'
    <3>1. AnchorsComparePastSelves'
      BY <2>2, <2>3 DEF RunInv, ArchiveInv, AnchorsComparePastSelves
    <3>2. HallOfFameIsComplete'
      <4>1. /\ \A r \in DOMAIN rows :
                 RowBefore(r).best \notin {0, rows[r].best} => RowBefore(r).best \in hof
            /\ hof \subseteq {rows[r].best : r \in DOMAIN rows} \ {0}
        BY DEF RunInv, ArchiveInv, HallOfFameIsComplete
      <4>2. best # Prior.best => Prior.best \in hof \cup {0}
        BY <2>3, Outcome
      <4>3. ASSUME NEW r \in DOMAIN rows'
            PROVE  RowBefore(r)'.best \notin {0, rows'[r].best} =>
                     RowBefore(r)'.best \in hof'
        <5>1. CASE r \in DOMAIN rows
          BY <2>2, <2>3, <2>5, <4>1, <5>1
        <5>2. CASE r = n
          BY <2>2, <2>3, <2>5, <4>2, <5>2 DEF row
        <5> QED
          BY <2>2, <5>1, <5>2
      <4>4. hof' \subseteq {rows'[r].best : r \in DOMAIN rows'} \ {0}
        BY <2>2, <2>3, <4>1
      <4> QED
        BY <4>3, <4>4 DEF HallOfFameIsComplete
    <3> QED
      BY <3>1, <3>2 DEF ArchiveInv
  <2> QED
    BY <2>8, <2>9
<1> QED
  BY <1>1, <1>2, <1>3, <1>4, <1>5, Writers

----------------------------------------------------------------------------
(* The theorems.                                                           *)

LEMMA RunInitial == Init => RunInv
<1> SUFFICES ASSUME Init PROVE RunInv
  OBVIOUS
<1>1. IInv
  BY Initial
<1>2. ProgressInv
  BY DEF Init, ProgressInv, StateInv, DecisionInv, PositionInv, TrainingInv,
         MomentsInv, HallInv, Untrained, Saving, Applying, Recording, Played,
         IterateSteps
<1>3. RowsInv /\ ArchiveInv
  BY DEF Init, RowsInv, ArchiveInv, HallOfFameIsComplete,
         AnchorsComparePastSelves
<1> QED
  BY <1>1, <1>2, <1>3 DEF RunInv

LEMMA RunInductive == Safety => []RunInv
<1>1. RunInv /\ IInv' /\ [Next]_vars => RunInv'
  BY ProgressStep, HistoryStep DEF RunInv
<1> QED
  BY <1>1, RunInitial, Inductive, PTL DEF Safety

(* Weights of a committed row were trained from the learner of the row     *)
(* before, with that learner's optimizer moments or with none, however     *)
(* many attempts at the row died (rollback_iteration, on_learner_reset).   *)
THEOREM LineageClean == Safety => []CleanLineage
<1>1. RunInv => CleanLineage
  BY DEF RunInv, RowsInv, TrainedFor, CleanLineage
<1> QED
  BY <1>1, RunInductive, PTL

(* Every trained best that was replaced is in the hall of fame, and nothing*)
(* else is, although it is archived before the row that replaces it is     *)
(* committed (archive_best).                                               *)
THEOREM HallComplete == Safety => []HallOfFameIsComplete
<1>1. RunInv => HallOfFameIsComplete
  BY DEF RunInv, ArchiveInv
<1> QED
  BY <1>1, RunInductive, PTL

(* The past self of a measurement is the learner AnchorLag games back, also*)
(* where a reset threw the trained candidate away (anchor_reference).      *)
THEOREM AnchorsHonest == Safety => []AnchorsComparePastSelves
<1>1. RunInv => AnchorsComparePastSelves
  BY DEF RunInv, ArchiveInv
<1> QED
  BY <1>1, RunInductive, PTL
----------------------------------------------------------------------------
(***************************************************************************)
(* The log of a run on disk is a log of RunLog: whatever dies, and however *)
(* often a row is tried again, the rows that are committed are those of a  *)
(* run in which every iteration happens at once.  Every action but one     *)
(* leaves the log as it is; AppendRow appends the row the last committed   *)
(* one leads to.  Last come the other instances of MCRunController.        *)
(***************************************************************************)

(* The row a committed row is in the log, its weights named by the rows    *)
(* that trained them.                                                      *)
Entry(row) == [learner   |-> Named(row.latest),
               best      |-> Named(row.best),
               generator |-> Named(row.generator),
               decision  |-> row.decision,
               action    |-> row.action,
               control   |-> row.control]

Logged == [r \in DOMAIN rows |-> Entry(rows[r])]

----------------------------------------------------------------------------
(* The policy is the same one in both.                                     *)

LEMMA SameCardinality ==
  ASSUME NEW S
  PROVE  Log!Cardinality(S) = Cardinality(S)
BY DEF Log!Cardinality, Cardinality

LEMMA SameInitial == Log!InitialState = InitialState
BY DEF Log!InitialState, InitialState, Log!FixedOnBest, FixedOnBest

LEMMA SamePolicy ==
  ASSUME NEW s, NEW d, NEW b, NEW q
  PROVE  /\ Log!DecideTransition(s, d, b) = DecideTransition(s, d, b)
         /\ Log!GeneratorSource(s) = GeneratorSource(s)
         /\ Log!PromotionScheduled(q, s) <=> PromotionScheduled(q, s)
         /\ Log!MayStepUp(q) <=> MayStepUp(q)
<1>1. Log!GeneratorSource(s) = GeneratorSource(s)
  BY DEF Log!GeneratorSource, GeneratorSource, Log!FixedOnBest, FixedOnBest
<1>2. Log!PromotionScheduled(q, s) <=> PromotionScheduled(q, s)
  <2> DEFINE count == Cardinality({i \in DOMAIN q : q[i].action # "bootstrap_promote"})
             due == count + 1
  <2>1. Log!PromotionScheduled(q, s) <=>
          /\ ~Log!IsBootstrapEligible(s)
          /\ PromotionEvery > 0 /\ due % PromotionEvery = 0
    BY SameCardinality DEF Log!PromotionScheduled
  <2>2. PromotionScheduled(q, s) <=>
          /\ ~IsBootstrapEligible(s)
          /\ PromotionEvery > 0 /\ due % PromotionEvery = 0
    BY Zenon DEF PromotionScheduled
  <2>3. Log!IsBootstrapEligible(s) <=> IsBootstrapEligible(s)
    BY DEF Log!IsBootstrapEligible, IsBootstrapEligible
  <2> HIDE DEF due
  <2> QED
    BY Zenon, <2>1, <2>2, <2>3
<1>3. Log!MayStepUp(q) <=> MayStepUp(q)
  BY DEF Log!MayStepUp, MayStepUp
<1>4. \A a : Log!GeneratorAfter(a) = GeneratorAfter(a)
  BY DEF Log!GeneratorAfter, GeneratorAfter, Log!FixedOnBest, FixedOnBest
<1>5. \A e : Log!LadderAfter(s, e, b) = LadderAfter(s, e, b)
  BY DEF Log!LadderAfter, LadderAfter
<1>6. Log!AcceptTransition(s, b) = AcceptTransition(s, b)
  BY <1>4, <1>5 DEF Log!AcceptTransition, AcceptTransition, Log!Transition,
     Transition
<1>7. Log!ContinueTransition(s, b) = ContinueTransition(s, b)
  BY <1>4, <1>5 DEF Log!ContinueTransition, ContinueTransition, Log!Transition,
     Transition
<1>8. Log!RejectTransition(s, b) = RejectTransition(s, b)
  BY <1>4, <1>5 DEF Log!RejectTransition, RejectTransition, Log!Transition,
     Transition
<1>9. Log!SuppressedTransition(s) = SuppressedTransition(s)
  BY <1>4, <1>5 DEF Log!SuppressedTransition, SuppressedTransition,
     Log!Transition, Transition
<1>10. Log!BootstrapTransition(s) = BootstrapTransition(s)
  BY <1>4, <1>5 DEF Log!BootstrapTransition, BootstrapTransition,
     Log!Transition, Transition
<1>11. Log!NotScheduledTransition(s) = NotScheduledTransition(s)
  BY DEF Log!NotScheduledTransition, NotScheduledTransition, Log!Transition, Transition
<1> QED
  BY <1>1, <1>2, <1>3, <1>6, <1>7, <1>8, <1>9, <1>10, <1>11
     DEF Log!DecideTransition, DecideTransition, Log!GateTransition,
        GateTransition, Log!IsBootstrapEligible, IsBootstrapEligible

----------------------------------------------------------------------------
(* Names.                                                                  *)

(* A weight that a row trained has that row's name, and keeps it.          *)
LEMMA Names ==
  ASSUME RunInv
  PROVE  /\ Named(0) = 0
         /\ \A k \in DOMAIN rows : rows[k].candidate # NoFile =>
              Named(rows[k].candidate) = k
<1>1. ASSUME NEW k \in DOMAIN rows, rows[k].candidate # NoFile
      PROVE  Named(rows[k].candidate) = k
  <2>1. TrainedFor(rows[k].candidate, k)
    BY <1>1 DEF RunInv, RowsInv
  <2>2. rows[k].candidate # 0 /\ trainings[rows[k].candidate].row = k
    BY <2>1 DEF TrainedFor, RunInv, IInv, TypeOK
  <2> QED
    BY <2>2 DEF Named
<1> QED
  BY <1>1 DEF Named

LEMMA SameNames ==
  ASSUME RunInv, RunInv', NEW w, Committed(w),
         \A r \in DOMAIN rows : r \in DOMAIN rows' /\ rows'[r] = rows[r]
  PROVE  Named(w)' = Named(w)
<1>1. CASE w = 0
  BY <1>1 DEF Named
<1>2. CASE w # 0
  <2>1. PICK k \in DOMAIN rows : w # NoFile /\ rows[k].candidate = w
    BY <1>2 DEF Committed
  <2>2. Named(w) = k
    BY <2>1, Names
  <2>3. k \in DOMAIN rows' /\ rows'[k].candidate = w
    BY <2>1
  <2>4. trainings'[w].row = k
    BY <2>1, <2>3 DEF RunInv, RowsInv, TrainedFor
  <2>5. Named(w)' = k
    BY <1>2, <2>3, <2>4 DEF Named
  <2> QED
    BY <2>2, <2>5
<1> QED
  BY <1>1, <1>2

(* So a committed row stays the row of the log that it is.                 *)
LEMMA SameEntries ==
  ASSUME RunInv, RunInv', NEW r \in DOMAIN rows,
         \A k \in DOMAIN rows : k \in DOMAIN rows' /\ rows'[k] = rows[k]
  PROVE  Logged'[r] = Logged[r]
<1>1. PICK row : row = rows[r]
  OBVIOUS
<1>2. Committed(row.latest) /\ Committed(row.best) /\ Committed(row.generator)
  BY <1>1 DEF RunInv, RowsInv
<1>3. /\ Named(row.latest)' = Named(row.latest)
      /\ Named(row.best)' = Named(row.best)
      /\ Named(row.generator)' = Named(row.generator)
  BY <1>2, SameNames
<1>4. Entry(row)' = Entry(row)
  BY <1>3 DEF Entry
<1>5. Logged[r] = Entry(row) /\ Logged'[r] = Entry(row)'
  BY <1>1 DEF Logged, Entry
<1> QED
  BY <1>4, <1>5

(* Every step but AppendRow leaves the log as it is.                       *)
LEMMA Stutter ==
  ASSUME RunInv, RunInv', UNCHANGED rows
  PROVE  Logged' = Logged
<1>1. \A r \in DOMAIN rows : Logged'[r] = Logged[r]
  BY SameEntries
<1> QED
  BY <1>1 DEF Logged

----------------------------------------------------------------------------
(* The row that is appended.                                               *)

LEMMA LoggedFacts ==
  ASSUME RunInv
  PROVE  /\ Logged \in Seq({Entry(rows[r]) : r \in DOMAIN rows})
         /\ Len(Logged) = Len(rows) /\ DOMAIN Logged = DOMAIN rows
         /\ Log!Previous.learner = Named(Prior.latest)
         /\ Log!Previous.best = Named(Prior.best)
         /\ Log!Previous.control = PriorControl
         /\ LET p == Log!Previous
            IN  p = [learner   |-> p.learner,   best   |-> p.best,
                     generator |-> p.generator, decision |-> p.decision,
                     action    |-> p.action,    control  |-> p.control]
<1>1. Len(rows) \in Nat /\ DOMAIN rows = 1..Len(rows)
  BY DEF RunInv, IInv, TypeOK
<1>2. Logged \in Seq({Entry(rows[r]) : r \in DOMAIN rows})
  BY <1>1 DEF Logged
<1>3. Len(Logged) = Len(rows) /\ DOMAIN Logged = DOMAIN rows
  BY <1>1 DEF Logged
<1>4. Log!Previous = IF Len(Logged) + 1 = 1 THEN Log!Fresh
                     ELSE Logged[Len(Logged) + 1 - 1]
  BY DEF Log!Previous, Log!Before, Logged, Entry
<1>5. CASE rows = <<>>
  <2>1. Log!Previous = Log!Fresh
    BY <1>3, <1>4, <1>5
  <2> QED
    BY <1>2, <1>3, <1>5, <2>1, PriorFacts, Names, SameInitial
       DEF RunInv, IInv, Log!Fresh, Entry
<1>6. CASE rows # <<>>
  <2>1. Log!Previous = Entry(Last)
    <3>1. Len(rows) # 0
      BY <1>6 DEF RunInv, IInv, TypeOK
    <3>2. Log!Previous = Logged[Len(rows)] /\ Len(rows) \in DOMAIN rows
      BY <1>1, <1>3, <1>4, <3>1
    <3> QED
      BY <3>2 DEF Logged, Last
  <2>2. /\ Prior.latest = Last.latest /\ Prior.best = Last.best
        /\ PriorControl = Last.control
    BY <1>6, PriorFacts DEF RunInv, IInv
  <2>3. /\ Entry(Last).learner = Named(Last.latest)
        /\ Entry(Last).best = Named(Last.best)
        /\ Entry(Last).control = Last.control
        /\ LET p == Entry(Last)
           IN  p = [learner   |-> p.learner,   best     |-> p.best,
                    generator |-> p.generator, decision |-> p.decision,
                    action    |-> p.action,    control  |-> p.control]
    BY DEF Entry
  <2> QED
    BY <1>2, <1>3, <2>1, <2>2, <2>3
<1> QED
  BY <1>5, <1>6

(* What the log says of the two actions of RunLog that append.             *)
LEMMA LogWarmup ==
  Log!Warmup <=>
    /\ Len(Logged) < MaxRows
    /\ Len(Logged) + 1 < MinBufferGames
    /\ Logged' = Append(Logged, [Log!Previous EXCEPT
                                   !.generator = Log!Generator(Log!Previous),
                                   !.decision  = "none",
                                   !.action    = "not_scheduled"])
BY DEF Log!Warmup, Logged, Entry

LEMMA LogIterate ==
  ASSUME NEW d
  PROVE  LET t == Log!DecideTransition(Log!Previous.control, d, Log!MayStepUp(Logged))
             kept == IF t.replaceBest THEN Len(Logged) + 1 ELSE Log!Previous.best
         IN  Log!Iterate(d) <=>
               /\ Len(Logged) < MaxRows
               /\ Len(Logged) + 1 >= MinBufferGames
               /\ Logged' = Append(Logged,
                    [learner   |-> IF t.resetLearner THEN kept ELSE Len(Logged) + 1,
                     best      |-> kept,
                     generator |-> Log!Generator(Log!Previous),
                     decision  |-> d,
                     action    |-> t.action,
                     control   |-> t.next])
BY DEF Log!Iterate, Logged, Entry

LEMMA LogSchedule ==
  /\ Log!Ungated <=> /\ ~Log!PromotionScheduled(Logged, Log!Previous.control)
                     /\ Log!Iterate("none")
  /\ Log!Gated <=> /\ Log!PromotionScheduled(Logged, Log!Previous.control)
                   /\ \E d \in Log!Decisions : Log!Iterate(d)
BY DEF Log!Ungated, Log!Gated, Logged, Entry

(* The row on disk when the iteration ends, as a row of the log.           *)
LEMMA AppendedEntry ==
  ASSUME RunInv, RunInv', AppendRow
  PROVE  \E row :
           /\ Logged' = Append(Logged, row)
           /\ row = [learner   |-> row.learner, best     |-> row.best,
                     generator |-> Log!Generator(Log!Previous),
                     decision  |-> decision, action |-> move.action,
                     control   |-> move.next]
           /\ row.best = IF move.replaceBest THEN Len(Logged) + 1
                         ELSE Log!Previous.best
           /\ row.learner = IF Skipped THEN Log!Previous.learner
                            ELSE IF move.resetLearner THEN row.best
                            ELSE Len(Logged) + 1
<1>1. PICK n \in Nat : n = Current
  BY CurrentType DEF RunInv, IInv
<1>2. /\ Len(rows) \in Nat /\ DOMAIN rows = 1..Len(rows)
      /\ n = Len(rows) + 1 /\ n \notin DOMAIN rows
      /\ Len(rows') = n /\ DOMAIN rows' = 1..n
      /\ \A r \in DOMAIN rows : r \in DOMAIN rows' /\ rows'[r] = rows[r]
      /\ n \in DOMAIN rows'
  <2>1. /\ Len(rows) \in Nat /\ DOMAIN rows = 1..Len(rows)
        /\ n = Len(rows) + 1
    BY <1>1 DEF RunInv, IInv, TypeOK, Current
  <2>2. /\ Len(rows') = n /\ DOMAIN rows' = DOMAIN rows \cup {n}
        /\ \A r \in DOMAIN rows : rows'[r] = rows[r]
    BY <1>1, AppendedRow DEF RunInv
  <2> QED
    BY <2>1, <2>2
<1>3. PICK l, b, g, c : l = latest /\ b = best /\ g = known.generator
                        /\ c = known.candidate
  OBVIOUS
<1>4. /\ rows'[n].latest = l /\ rows'[n].best = b /\ rows'[n].generator = g
      /\ rows'[n].candidate = c /\ rows'[n].decision = decision
      /\ rows'[n].action = move.action /\ rows'[n].control = move.next
  BY <1>1, <1>3, AppendedRow DEF RunInv
<1>5. PICK row : row = [learner   |-> Named(l)', best |-> Named(b)',
                        generator |-> Named(g)',
                        decision  |-> decision, action |-> move.action,
                        control   |-> move.next]
  OBVIOUS
<1>6. Logged' = Append(Logged, row)
  <2>1. Logged'[n] = row
    BY <1>2, <1>4, <1>5 DEF Logged, Entry
  <2>2. \A r \in DOMAIN rows : Logged'[r] = Logged[r]
    BY <1>2, SameEntries
  <2>3. Len(Logged) = Len(rows)
    BY LoggedFacts
  <2>4. PICK S : row \in S /\ Logged \in Seq(S) /\ \A r \in 1..n : Logged'[r] \in S
    <3> DEFINE old == {Entry(rows[r]) : r \in DOMAIN rows}
               new == {Logged'[r] : r \in 1..n}
               S == old \cup new
    <3>1. Logged \in Seq(old)
      BY LoggedFacts
    <3> HIDE DEF old
    <3>2. Logged \in Seq(S)
      BY <3>1
    <3> QED
      BY <1>2, <2>1, <3>2
  <2>5. Logged' \in Seq(S) /\ Len(Logged') = n
    <3>1. Logged' = [r \in 1..n |-> Logged'[r]]
      BY <1>2 DEF Logged
    <3> QED
      BY <2>4, <3>1
  <2>6. /\ Append(Logged, row) \in Seq(S) /\ Len(Append(Logged, row)) = n
        /\ Append(Logged, row)[n] = row
        /\ \A r \in DOMAIN rows : Append(Logged, row)[r] = Logged[r]
    BY <1>2, <2>3, <2>4, AppendProperties
  <2>7. \A r \in 1..n : Logged'[r] = Append(Logged, row)[r]
    BY <1>2, <2>1, <2>2, <2>6
  <2> QED
    BY <2>5, <2>6, <2>7, SeqEqual
<1>7. /\ \A w \in {Prior.latest, Prior.best} : Named(w)' = Named(w)
      /\ ~Skipped => Named(c)' = n
  <2>1. ASSUME NEW w \in {Prior.latest, Prior.best} PROVE Named(w)' = Named(w)
    BY <1>2, PriorCommitted, SameNames
  <2>2. ASSUME ~Skipped PROVE Named(c)' = n
    <3>1. c # NoFile
      BY <1>3, <2>2 DEF Skipped
    <3>2. c \in DOMAIN trainings' /\ trainings'[c].row = n
      BY <1>2, <1>4, <3>1 DEF RunInv, RowsInv, TrainedFor
    <3>3. c # 0
      BY <3>2 DEF RunInv, IInv, TypeOK
    <3> QED
      BY <1>2, <1>4, <3>2, <3>3 DEF Named
  <2> QED
    BY <2>1, <2>2
<1>8. /\ pc \in Recording /\ pc \in Played /\ PositionInv /\ StateInv /\ DecisionInv
      /\ control = PriorControl
  BY DEF AppendRow, RunInv, ProgressInv, Recording, Played, StateInv
<1>9. Skipped => move.replaceBest = FALSE
  BY <1>8 DEF DecisionInv, NotScheduledTransition, Transition
<1>10. Named(g)' = Log!Generator(Log!Previous)
  <2>1. g = IF GeneratorSource(PriorControl) = "latest"
            THEN Prior.latest ELSE Prior.best
    BY <1>3, <1>8 DEF PositionInv
  <2>2. Log!Generator(Log!Previous) =
          IF GeneratorSource(PriorControl) = "latest"
          THEN Named(Prior.latest) ELSE Named(Prior.best)
    BY LoggedFacts, SamePolicy DEF Log!Generator
  <2> QED
    BY <1>7, <2>1, <2>2
<1>11. row.best = IF move.replaceBest THEN Len(Logged) + 1 ELSE Log!Previous.best
  <2>1. b = IF move.replaceBest THEN c ELSE Prior.best
    BY <1>3, <1>8 DEF PositionInv
  <2> QED
    BY <1>2, <1>5, <1>7, <1>9, <2>1, LoggedFacts
<1>12. row.learner = IF Skipped THEN Log!Previous.learner
                     ELSE IF move.resetLearner THEN row.best
                     ELSE Len(Logged) + 1
  <2>1. l = IF Skipped THEN Prior.latest
            ELSE IF move.resetLearner THEN b ELSE c
    BY <1>3, <1>8 DEF PositionInv
  <2> QED
    BY <1>2, <1>5, <1>7, <2>1, LoggedFacts
<1> QED
  BY <1>5, <1>6, <1>10, <1>11, <1>12

LEMMA RowsAreLogged ==
  ASSUME RunInv, RunInv', AppendRow
  PROVE  Log!Next
<1>1. PICK row :
        /\ Logged' = Append(Logged, row)
        /\ row = [learner   |-> row.learner, best     |-> row.best,
                  generator |-> Log!Generator(Log!Previous),
                  decision  |-> decision, action |-> move.action,
                  control   |-> move.next]
        /\ row.best = IF move.replaceBest THEN Len(Logged) + 1
                      ELSE Log!Previous.best
        /\ row.learner = IF Skipped THEN Log!Previous.learner
                         ELSE IF move.resetLearner THEN row.best
                         ELSE Len(Logged) + 1
  BY AppendedEntry
<1>2. /\ Len(Logged) < MaxRows /\ Len(Logged) + 1 = Current
      /\ pc \in Recording /\ DecisionInv /\ control = PriorControl
      /\ Log!Previous.control = control
  <2>1. Len(rows) < MaxRows
    BY DEF AppendRow, RunInv, IInv, Recoverable, StageInv, Marked, Played
  <2>2. pc \in Recording /\ DecisionInv /\ control = PriorControl
    BY DEF AppendRow, RunInv, ProgressInv, Recording, StateInv
  <2> QED
    BY <2>1, <2>2, LoggedFacts DEF Current
<1>3. CASE Skipped
  <2>1. /\ Current < MinBufferGames /\ decision = "none"
        /\ move = NotScheduledTransition(control)
    BY <1>2, <1>3 DEF DecisionInv
  <2>2. /\ move.action = "not_scheduled" /\ move.replaceBest = FALSE
        /\ move.next = control
    BY <2>1 DEF NotScheduledTransition, Transition
  <2>3. row = [Log!Previous EXCEPT !.generator = Log!Generator(Log!Previous),
                                   !.decision  = "none",
                                   !.action    = "not_scheduled"]
    <3>1. PICK p, g : p = Log!Previous /\ g = Log!Generator(Log!Previous)
      OBVIOUS
    <3>2. PICK l, b, h, d, a, c :
            p = [learner   |-> l, best     |-> b, generator |-> h,
                 decision  |-> d, action   |-> a, control   |-> c]
      BY <3>1, LoggedFacts
    <3>3. [p EXCEPT !.generator = g, !.decision = "none",
                    !.action = "not_scheduled"]
            = [learner   |-> l, best     |-> b, generator |-> g,
               decision  |-> "none", action |-> "not_scheduled",
               control   |-> c]
      <4>1. PICK q : q = [p EXCEPT !.generator = g, !.decision = "none",
                                   !.action = "not_scheduled"]
        OBVIOUS
      <4>2. p \in [learner : {l}, best : {b}, generator : {h, g},
                   decision : {d, "none"}, action : {a, "not_scheduled"},
                   control : {c}]
        BY <3>2
      <4>3. q \in [learner : {l}, best : {b}, generator : {h, g},
                   decision : {d, "none"}, action : {a, "not_scheduled"},
                   control : {c}]
        BY <4>1, <4>2
      <4>4. q.generator = g /\ q.decision = "none" /\ q.action = "not_scheduled"
        BY <4>1, <4>2
      <4>5. q \in [learner : {l}, best : {b}, generator : {g},
                   decision : {"none"}, action : {"not_scheduled"},
                   control : {c}]
        BY <4>3, <4>4
      <4>6. q = [learner   |-> l, best     |-> b, generator |-> g,
                 decision  |-> "none", action |-> "not_scheduled",
                 control   |-> c]
        BY <4>5
      <4> QED
        BY <4>1, <4>6
    <3>4. row = [learner   |-> l, best     |-> b, generator |-> g,
                 decision  |-> "none", action |-> "not_scheduled",
                 control   |-> c]
      BY <1>1, <1>2, <1>3, <2>1, <2>2, <3>1, <3>2
    <3> QED
      BY <3>1, <3>3, <3>4
  <2> QED
    BY <1>1, <1>2, <2>1, <2>3, LogWarmup DEF Log!Next
<1>4. CASE ~Skipped
  <2>1. /\ Current >= MinBufferGames
        /\ decision \in IF PromotionScheduled(rows, control)
                        THEN Decisions ELSE {"none"}
        /\ move = DecideTransition(control, decision, MayStepUp(rows))
    BY <1>2, <1>4 DEF DecisionInv
  <2>2. MayStepUp(rows) = Log!MayStepUp(Logged)
    BY LoggedFacts DEF MayStepUp, Log!MayStepUp
  <2>3. move = Log!DecideTransition(Log!Previous.control, decision,
                                    Log!MayStepUp(Logged))
    BY <1>2, <2>1, <2>2, SamePolicy
  <2>4. PICK d : d = decision
    OBVIOUS
  <2>5. Log!Iterate(d)
    BY <1>1, <1>2, <1>4, <2>1, <2>3, <2>4, LogIterate
  <2>6. Log!PromotionScheduled(Logged, Log!Previous.control)
          <=> PromotionScheduled(rows, control)
    <3>1. PromotionScheduled(Logged, control) <=> PromotionScheduled(rows, control)
      <4>1. \A r \in DOMAIN rows : Logged[r].action = rows[r].action
        BY DEF Logged, Entry
      <4>2. {r \in DOMAIN Logged : Logged[r].action # "bootstrap_promote"}
              = {r \in DOMAIN rows : rows[r].action # "bootstrap_promote"}
        BY <4>1, LoggedFacts
      <4> QED
        BY <4>2 DEF PromotionScheduled
    <3> QED
      BY <1>2, <3>1, SamePolicy
  <2>7. Log!Decisions = Decisions
    BY DEF Log!Decisions, Decisions
  <2>8. Log!Ungated \/ Log!Gated
    <3>1. CASE PromotionScheduled(rows, control)
      BY <2>1, <2>4, <2>5, <2>6, <2>7, <3>1, LogSchedule
    <3>2. CASE ~PromotionScheduled(rows, control)
      BY <2>1, <2>4, <2>5, <2>6, <2>7, <3>2, LogSchedule
    <3> QED
      BY <3>1, <3>2
  <2> QED
    BY <2>8 DEF Log!Next
<1> QED
  BY <1>3, <1>4

----------------------------------------------------------------------------
(* The theorem.                                                            *)

LEMMA LogInitial == Init => Log!Init
<1> SUFFICES ASSUME Init PROVE Log!Init
  OBVIOUS
<1>1. rows = <<>>
  BY DEF Init
<1>2. Logged = <<>>
  BY <1>1 DEF Logged
<1> QED
  BY <1>2 DEF Log!Init, Logged, Entry

LEMMA LogStep ==
  ASSUME RunInv, RunInv', [Next]_vars
  PROVE  [Log!Next]_Logged
<1>1. CASE AppendRow
  BY <1>1, RowsAreLogged
<1>2. CASE UNCHANGED rows
  BY <1>2, Stutter
<1>3. Train \/ ArchiveBest \/ Measure => UNCHANGED rows
  BY DEF Train, ArchiveBest, Measure, ledger
<1> QED
  BY <1>1, <1>2, <1>3, Writers

(* Deaths, journals, rollbacks and retries are invisible in the log: the   *)
(* rows are those of a run in which every iteration happens at once, with  *)
(* weights named by the row that trained them, for every policy and every  *)
(* number of rows and deaths (RunController.run_iteration, _resume).       *)
THEOREM Refines == Safety => ImplementsLog
<1>1. RunInv /\ RunInv' /\ [Next]_vars => [Log!Next]_Logged
  BY LogStep
<1>2. Log!Spec <=> Log!Init /\ [][Log!Next]_Logged
  BY DEF Log!Spec, Logged, Entry
<1> QED
  BY <1>1, <1>2, LogInitial, RunInductive, PTL DEF Safety, ImplementsLog

----------------------------------------------------------------------------
(* What RunLogProofs proves of a log holds of the rows on disk, and of the *)
(* longer log that MCRunController puts beside the run.                    *)

Recounted == INSTANCE RunLogProofs WITH log <- Logged

Longest == INSTANCE RunLogProofs WITH
             PromotionEvery <- 2, RevertResetAfter <- 2, ProbationResetAfter <- 3,
             Top <- 2, StepUpAfter <- 2, FloorGames <- 4,
             MaxRows <- 16, MinBufferGames <- 2

LEMMA SamePrevious == Recounted!Previous = Log!Previous
BY DEF Recounted!Previous, Log!Previous, Recounted!Before, Log!Before,
   Recounted!Fresh, Log!Fresh, Recounted!InitialState, Log!InitialState,
   Recounted!FixedOnBest, Log!FixedOnBest, Logged, Entry

LEMMA SameDecisions ==
  ASSUME NEW s, NEW d, NEW b
  PROVE  Recounted!DecideTransition(s, d, b) = Log!DecideTransition(s, d, b)
BY DEF Recounted!Transition, Log!Transition, Recounted!GeneratorAfter,
   Log!GeneratorAfter, Recounted!FixedOnBest, Log!FixedOnBest,
   Recounted!LadderAfter, Log!LadderAfter, Recounted!IsBootstrapEligible,
   Log!IsBootstrapEligible, Recounted!BootstrapTransition,
   Log!BootstrapTransition, Recounted!NotScheduledTransition,
   Log!NotScheduledTransition, Recounted!SuppressedTransition,
   Log!SuppressedTransition, Recounted!AcceptTransition, Log!AcceptTransition,
   Recounted!ContinueTransition, Log!ContinueTransition,
   Recounted!RejectTransition, Log!RejectTransition, Recounted!GateTransition,
   Log!GateTransition, Recounted!DecideTransition, Log!DecideTransition

LEMMA SameNext == Recounted!Next <=> Log!Next
<1>1. Recounted!Warmup <=> Log!Warmup
  BY SamePrevious, LogWarmup DEF Recounted!Generator, Log!Generator,
     Recounted!GeneratorSource, Log!GeneratorSource, Recounted!FixedOnBest,
     Log!FixedOnBest, Recounted!Warmup
<1>2. \A d : Recounted!Iterate(d) <=> Log!Iterate(d)
  BY SamePrevious, SameDecisions, LogIterate DEF Recounted!MayStepUp,
     Log!MayStepUp, Recounted!Generator, Log!Generator,
     Recounted!GeneratorSource, Log!GeneratorSource, Recounted!FixedOnBest,
     Log!FixedOnBest, Recounted!Iterate
<1>3. \A s : Recounted!PromotionScheduled(Logged, s)
              <=> Log!PromotionScheduled(Logged, s)
  BY DEF Recounted!PromotionScheduled, Log!PromotionScheduled,
     Recounted!Cardinality, Log!Cardinality, Recounted!IsBootstrapEligible,
     Log!IsBootstrapEligible
<1>4. Recounted!Gated <=> Log!Gated
  BY SamePrevious, <1>2, <1>3, LogSchedule
     DEF Recounted!Decisions, Log!Decisions, Recounted!Gated
<1>5. Recounted!Ungated <=> Log!Ungated
  BY SamePrevious, <1>2, <1>3, LogSchedule DEF Recounted!Ungated
<1> QED
  BY <1>1, <1>4, <1>5 DEF Recounted!Next, Log!Next

LEMMA RecountedSpec == Safety => Recounted!Spec
<1>1. Recounted!Spec <=> Recounted!Init /\ [][Recounted!Next]_Logged
  BY DEF Recounted!Spec
<1>2. Log!Spec <=> Log!Init /\ [][Log!Next]_Logged
  BY DEF Log!Spec, Logged, Entry
<1>3. Recounted!Init <=> Log!Init
  BY DEF Recounted!Init, Log!Init, Logged, Entry
<1> QED
  BY <1>1, <1>2, <1>3, SameNext, Refines, PTL DEF ImplementsLog

LEMMA RecountedAssumption == Recounted!PolicyAssumption
BY PolicyAssumption
   DEF PolicyAssumption, Recounted!PolicyAssumption, Recounted!Modes, Modes,
       Recounted!Policies, Policies

LEMMA SameReadings ==
  /\ Recounted!ResetsAreExact <=> Log!ResetsAreExact
  /\ Recounted!RungsAreEarned <=> Log!RungsAreEarned
  /\ Recounted!GeneratorFollowsGates <=> Log!GeneratorFollowsGates
<1>1. Recounted!ResetsAreExact <=> Log!ResetsAreExact
  BY DEF Recounted!ResetsAreExact, Log!ResetsAreExact, Recounted!Standing,
     Log!Standing, Recounted!SettlesReverts, Log!SettlesReverts,
     Recounted!SettlesProbations, Log!SettlesProbations, Recounted!Cardinality,
     Log!Cardinality, Logged, Entry
<1>2. Recounted!RungsAreEarned <=> Log!RungsAreEarned
  BY DEF Recounted!RungsAreEarned, Log!RungsAreEarned, Recounted!Counted,
     Log!Counted, Recounted!Cardinality, Log!Cardinality, Recounted!Before,
     Log!Before, Recounted!Fresh, Log!Fresh, Recounted!InitialState,
     Log!InitialState, Recounted!FixedOnBest, Log!FixedOnBest, Logged, Entry
<1>3. Recounted!GeneratorFollowsGates <=> Log!GeneratorFollowsGates
  BY DEF Recounted!GeneratorFollowsGates, Log!GeneratorFollowsGates,
     Recounted!Before, Log!Before, Recounted!Fresh, Log!Fresh,
     Recounted!InitialState, Log!InitialState, Recounted!FixedOnBest,
     Log!FixedOnBest, Logged, Entry
<1> QED
  BY <1>1, <1>2, <1>3

(* The rows on disk say of the gates what the rows of the log say: every   *)
(* reset at the count that is configured, every rung paid for, the games   *)
(* of every iteration from the checkpoint that the gates before it chose,  *)
(* whatever crashes and retries lie between the rows.                      *)
THEOREM LogHoldsOnDisk ==
  Safety => [](/\ Log!ResetsAreExact
               /\ Log!RungsAreEarned
               /\ Log!GeneratorFollowsGates)
<1>1. Recounted!Spec => []Recounted!ResetsAreExact
  BY RecountedAssumption, Recounted!ResetsExact
<1>2. Recounted!Spec => []Recounted!RungsAreEarned
  BY RecountedAssumption, Recounted!RungsEarned
<1>3. Recounted!Spec => []Recounted!GeneratorFollowsGates
  BY RecountedAssumption, Recounted!GeneratorFollows
<1> QED
  BY <1>1, <1>2, <1>3, RecountedSpec, SameReadings, PTL

(* What the instances that TLC checks together are instances of.           *)
LEMMA EitherRun == EitherSpec => Safety /\ Longest!Spec
<1>1. EitherInit => Init /\ Longest!Init
  BY DEF EitherInit, Longest!Init
<1>2. [EitherNext]_everything => [Next]_vars
  BY DEF EitherNext, everything, notRun, notLog, notWelcome, notLadder
<1>3. [EitherNext]_everything => [Longest!Next]_log
  <2>1. Longest!Next <=> Longer!Next
    BY DEF Longest!Next, Longer!Next, Longest!Warmup, Longer!Warmup,
       Longest!Ungated, Longer!Ungated, Longest!Gated, Longer!Gated,
       Longest!Iterate, Longer!Iterate, Longest!Previous, Longer!Previous,
       Longest!Before, Longer!Before, Longest!Fresh, Longer!Fresh,
       Longest!Generator, Longer!Generator, Longest!Decisions,
       Longer!Decisions, Longest!InitialState, Longer!InitialState,
       Longest!GeneratorSource, Longer!GeneratorSource,
       Longest!PromotionScheduled, Longer!PromotionScheduled,
       Longest!MayStepUp, Longer!MayStepUp, Longest!Cardinality,
       Longer!Cardinality, Longest!Transition, Longer!Transition,
       Longest!GeneratorAfter, Longer!GeneratorAfter, Longest!FixedOnBest,
       Longer!FixedOnBest, Longest!LadderAfter, Longer!LadderAfter,
       Longest!IsBootstrapEligible, Longer!IsBootstrapEligible,
       Longest!BootstrapTransition, Longer!BootstrapTransition,
       Longest!NotScheduledTransition, Longer!NotScheduledTransition,
       Longest!SuppressedTransition, Longer!SuppressedTransition,
       Longest!AcceptTransition, Longer!AcceptTransition,
       Longest!ContinueTransition, Longer!ContinueTransition,
       Longest!RejectTransition, Longer!RejectTransition,
       Longest!GateTransition, Longer!GateTransition,
       Longest!DecideTransition, Longer!DecideTransition
  <2> QED
    BY <2>1 DEF EitherNext, everything, notRun, notLog, notWelcome, notLadder
<1> QED
  BY <1>1, <1>2, <1>3, PTL DEF EitherSpec, Safety, Longest!Spec

(* The same of the instances that TLC checks together, the run on disk and *)
(* the longer log, whose resets are those of a soft gate.                  *)
THEOREM ResetsExactInBoth ==
    ASSUME Mode = "soft_gate"
    PROVE  EitherSpec => []ResetsAreExact
<1>1. Longest!PolicyAssumption
  BY PolicyAssumption
     DEF PolicyAssumption, Longest!PolicyAssumption, Longest!Modes, Modes,
         Longest!Policies, Policies
<1>2. Longest!Spec => []Longest!ResetsAreExact
  BY <1>1, Longest!ResetsExact
<1>3. Longest!ResetsAreExact <=> Longer!ResetsAreExact
  BY DEF Longest!ResetsAreExact, Longer!ResetsAreExact, Longest!Standing,
     Longer!Standing, Longest!SettlesReverts, Longer!SettlesReverts,
     Longest!SettlesProbations, Longer!SettlesProbations, Longest!Cardinality,
     Longer!Cardinality
<1>4. Log!ResetsAreExact /\ Longer!ResetsAreExact => ResetsAreExact
  BY DEF ResetsAreExact
<1> QED
  BY <1>2, <1>3, <1>4, EitherRun, LogHoldsOnDisk, PTL

----------------------------------------------------------------------------
(* The Welcome To runs that MCRunController puts beside the run.           *)

Whole == INSTANCE WelcomeRunProofs WITH
           Iterations <- 3, Games <- 2, ShardGames <- 2, QueueGames <- 1,
           GateEvery <- 2, WindowGames <- 3, MaxDeaths <- 2, MaxFaults <- 1

Parted == INSTANCE WelcomeRunProofs WITH
            Iterations <- 1, Games <- 4, ShardGames <- 2, QueueGames <- 1,
            GateEvery <- 2, WindowGames <- 4, MaxDeaths <- 2, MaxFaults <- 1

LEMMA SameWelcome ==
  /\ Whole!Init <=> Welcome!Init
  /\ Whole!Next <=> Welcome!Next
  /\ Whole!IInv => /\ Welcome!TypeOK /\ Welcome!CorpusIsExact /\ Welcome!CandidatesDescend
               /\ Welcome!LeagueIsComplete /\ Welcome!PoolFollowsGates
               /\ Welcome!RefusedOnlyIfStranded
<1>1. Whole!Init <=> Welcome!Init
  BY DEF Whole!Init, Welcome!Init, Whole!WriterInit, Welcome!WriterInit,
         Whole!NoWriter, Welcome!NoWriter, Whole!Ids, Welcome!Ids,
         Whole!NoManifest, Welcome!NoManifest, Whole!NoCandidate,
         Welcome!NoCandidate, Whole!NoRecord, Welcome!NoRecord,
         Whole!Absent, Welcome!Absent
<1>2. Whole!Next <=> Welcome!Next
  BY DEF Whole!Seeds, Welcome!Seeds, Whole!Close, Welcome!Close,
         Whole!thread, Welcome!thread, Whole!writerVars,
         Welcome!writerVars, Whole!Content, Welcome!Content,
         Whole!WriterDies, Welcome!WriterDies, Whole!Open, Welcome!Open,
         Whole!MayAdd, Welcome!MayAdd, Whole!HasRoom, Welcome!HasRoom,
         Whole!Discard, Welcome!Discard, Whole!Collect, Welcome!Collect,
         Whole!TakeClose, Welcome!TakeClose, Whole!WriteShard,
         Welcome!WriteShard, Whole!Flush, Welcome!Flush,
         Whole!FlushFails, Welcome!FlushFails, Whole!EndWithShard,
         Welcome!EndWithShard, Whole!EndWithNothing,
         Welcome!EndWithNothing, Whole!EndInError, Welcome!EndInError,
         Whole!EndFails, Welcome!EndFails, Whole!Write, Welcome!Write,
         Whole!strength, Welcome!strength, Whole!replay, Welcome!replay,
         Whole!training, Welcome!training, Whole!lines, Welcome!lines,
         Whole!running, Welcome!running, Whole!ends, Welcome!ends,
         Whole!vars, Welcome!vars, Whole!Absent, Welcome!Absent,
         Whole!Part, Welcome!Part, Whole!Ids, Welcome!Ids,
         Whole!NoManifest, Welcome!NoManifest, Whole!NoCandidate,
         Welcome!NoCandidate, Whole!NoRecord, Welcome!NoRecord,
         Whole!Forget, Welcome!Forget, Whole!Refuse, Welcome!Refuse,
         Whole!Crash, Welcome!Crash, Whole!Goto, Welcome!Goto,
         Whole!Unfinished, Welcome!Unfinished, Whole!Proceed,
         Welcome!Proceed, Whole!StartUp, Welcome!StartUp,
         Whole!StartRefused, Welcome!StartRefused, Whole!Made,
         Welcome!Made, Whole!Learner, Welcome!Learner, Whole!Identity,
         Welcome!Identity, Whole!GenerationComplete,
         Welcome!GenerationComplete, Whole!SkipGeneration,
         Welcome!SkipGeneration, Whole!Disjoint, Welcome!Disjoint,
         Whole!Resumable, Welcome!Resumable, Whole!GenerationRefused,
         Welcome!GenerationRefused, Whole!Generate, Welcome!Generate,
         Whole!FindAllGames, Welcome!FindAllGames, Whole!Pending,
         Welcome!Pending, Whole!EndGame, Welcome!EndGame, Whole!Send,
         Welcome!Send, Whole!EndPlay, Welcome!EndPlay, Whole!AllPlayed,
         Welcome!AllPlayed, Whole!AddRaises, Welcome!AddRaises,
         Whole!Interrupt, Welcome!Interrupt, Whole!SendClose,
         Welcome!SendClose, Whole!Closed, Welcome!Closed,
         Whole!ExitRaised, Welcome!ExitRaised, Whole!BeginMetrics,
         Welcome!BeginMetrics, Whole!EndMetrics, Welcome!EndMetrics,
         Whole!SkipTraining, Welcome!SkipTraining, Whole!Available,
         Welcome!Available, Whole!Window, Welcome!Window,
         Whole!Consistent, Welcome!Consistent, Whole!TrainingRefused,
         Welcome!TrainingRefused, Whole!SyncLedger, Welcome!SyncLedger,
         Whole!SaveCandidate, Welcome!SaveCandidate, Whole!BeginTrained,
         Welcome!BeginTrained, Whole!EndTrained, Welcome!EndTrained,
         Whole!Gated, Welcome!Gated, Whole!GateComplete,
         Welcome!GateComplete, Whole!SkipGate, Welcome!SkipGate,
         Whole!Judge, Welcome!Judge, Whole!Recover, Welcome!Recover,
         Whole!Incumbent, Welcome!Incumbent, Whole!Recoverable,
         Welcome!Recoverable, Whole!InstallRefused,
         Welcome!InstallRefused, Whole!ArchiveBest, Welcome!ArchiveBest,
         Whole!InstallCandidate, Welcome!InstallCandidate,
         Whole!Register, Welcome!Register, Whole!CompleteRecord,
         Welcome!CompleteRecord, Whole!Readable, Welcome!Readable,
         Whole!ReportRefused, Welcome!ReportRefused, Whole!BeginLine,
         Welcome!BeginLine, Whole!EndLine, Welcome!EndLine, Whole!Drive,
         Welcome!Drive, Whole!WriterStep, Welcome!WriterStep,
         Whole!Next, Welcome!Next, Whole!Cardinality,
         Welcome!Cardinality, Whole!ToSet, Welcome!ToSet
<1>3. Whole!TypeOK <=> Welcome!TypeOK
  BY DEF Whole!TypeOK, Welcome!TypeOK, Whole!WriterTypeOK,
         Welcome!WriterTypeOK, Whole!Seeds, Welcome!Seeds, Whole!Close,
         Welcome!Close, Whole!Ids, Welcome!Ids, Whole!Checkpoints,
         Welcome!Checkpoints, Whole!NoManifest, Welcome!NoManifest,
         Whole!NoCandidate, Welcome!NoCandidate, Whole!NoRecord,
         Welcome!NoRecord, Whole!Absent, Welcome!Absent, Whole!Part,
         Welcome!Part
<1>4. Whole!CorpusIsExact <=> Welcome!CorpusIsExact
  BY DEF Whole!CorpusIsExact, Welcome!CorpusIsExact, Whole!Disjoint,
         Welcome!Disjoint, Whole!Content, Welcome!Content, Whole!Seeds,
         Welcome!Seeds, Whole!Ids, Welcome!Ids
<1>5. Whole!CandidatesDescend <=> Welcome!CandidatesDescend
  BY DEF Whole!CandidatesDescend, Welcome!CandidatesDescend, Whole!Made,
         Welcome!Made, Whole!NoCandidate, Welcome!NoCandidate,
         Whole!Content, Welcome!Content, Whole!Seeds, Welcome!Seeds,
         Whole!Ids, Welcome!Ids, Whole!Absent, Welcome!Absent
<1>6. Whole!LeagueIsComplete <=> Welcome!LeagueIsComplete
  BY DEF Whole!LeagueIsComplete, Welcome!LeagueIsComplete,
         Whole!Champion, Welcome!Champion, Whole!Installing,
         Welcome!Installing, Whole!Checkpoints, Welcome!Checkpoints,
         Whole!Ids, Welcome!Ids, Whole!Absent, Welcome!Absent,
         Whole!ToSet, Welcome!ToSet
<1>7. Whole!PoolFollowsGates <=> Welcome!PoolFollowsGates
  BY DEF Whole!PoolFollowsGates, Welcome!PoolFollowsGates,
         Whole!Champion, Welcome!Champion, Whole!Checkpoints,
         Welcome!Checkpoints, Whole!NoManifest, Welcome!NoManifest,
         Whole!Ids, Welcome!Ids, Whole!Absent, Welcome!Absent
<1>8. Whole!RefusedOnlyIfStranded <=> Welcome!RefusedOnlyIfStranded
  BY DEF Whole!RefusedOnlyIfStranded, Welcome!RefusedOnlyIfStranded,
         Whole!Stranded, Welcome!Stranded, Whole!Made, Welcome!Made,
         Whole!NoCandidate, Welcome!NoCandidate, Whole!Content,
         Welcome!Content, Whole!Seeds, Welcome!Seeds, Whole!Ids,
         Welcome!Ids, Whole!Absent, Welcome!Absent, Whole!Part,
         Welcome!Part
<1>9. Whole!Parameters
  BY DEF Whole!Parameters
<1>10. Whole!IInv => /\ Whole!CorpusIsExact /\ Whole!LeagueIsComplete /\ Whole!TypeOK
                 /\ Whole!CandidatesDescend /\ Whole!PoolFollowsGates
                 /\ Whole!RefusedOnlyIfStranded
  BY <1>9, Whole!Shown DEF Whole!IInv
<1> QED
  BY <1>1, <1>2, <1>3, <1>4, <1>5, <1>6, <1>7, <1>8, <1>10

LEMMA SameSharded ==
  /\ Parted!Init <=> Sharded!Init
  /\ Parted!Next <=> Sharded!Next
  /\ Parted!IInv => /\ Sharded!TypeOK /\ Sharded!CorpusIsExact /\ Sharded!CandidatesDescend
                /\ Sharded!LeagueIsComplete /\ Sharded!PoolFollowsGates
                /\ Sharded!RefusedOnlyIfStranded
<1>1. Parted!Init <=> Sharded!Init
  BY DEF Parted!Init, Sharded!Init, Parted!WriterInit,
         Sharded!WriterInit, Parted!NoWriter, Sharded!NoWriter,
         Parted!Ids, Sharded!Ids, Parted!NoManifest, Sharded!NoManifest,
         Parted!NoCandidate, Sharded!NoCandidate, Parted!NoRecord,
         Sharded!NoRecord, Parted!Absent, Sharded!Absent
<1>2. Parted!Next <=> Sharded!Next
  BY DEF Parted!Seeds, Sharded!Seeds, Parted!Close, Sharded!Close,
         Parted!thread, Sharded!thread, Parted!writerVars,
         Sharded!writerVars, Parted!Content, Sharded!Content,
         Parted!WriterDies, Sharded!WriterDies, Parted!Open,
         Sharded!Open, Parted!MayAdd, Sharded!MayAdd, Parted!HasRoom,
         Sharded!HasRoom, Parted!Discard, Sharded!Discard,
         Parted!Collect, Sharded!Collect, Parted!TakeClose,
         Sharded!TakeClose, Parted!WriteShard, Sharded!WriteShard,
         Parted!Flush, Sharded!Flush, Parted!FlushFails,
         Sharded!FlushFails, Parted!EndWithShard, Sharded!EndWithShard,
         Parted!EndWithNothing, Sharded!EndWithNothing,
         Parted!EndInError, Sharded!EndInError, Parted!EndFails,
         Sharded!EndFails, Parted!Write, Sharded!Write, Parted!strength,
         Sharded!strength, Parted!replay, Sharded!replay,
         Parted!training, Sharded!training, Parted!lines, Sharded!lines,
         Parted!running, Sharded!running, Parted!ends, Sharded!ends,
         Parted!vars, Sharded!vars, Parted!Absent, Sharded!Absent,
         Parted!Part, Sharded!Part, Parted!Ids, Sharded!Ids,
         Parted!NoManifest, Sharded!NoManifest, Parted!NoCandidate,
         Sharded!NoCandidate, Parted!NoRecord, Sharded!NoRecord,
         Parted!Forget, Sharded!Forget, Parted!Refuse, Sharded!Refuse,
         Parted!Crash, Sharded!Crash, Parted!Goto, Sharded!Goto,
         Parted!Unfinished, Sharded!Unfinished, Parted!Proceed,
         Sharded!Proceed, Parted!StartUp, Sharded!StartUp,
         Parted!StartRefused, Sharded!StartRefused, Parted!Made,
         Sharded!Made, Parted!Learner, Sharded!Learner, Parted!Identity,
         Sharded!Identity, Parted!GenerationComplete,
         Sharded!GenerationComplete, Parted!SkipGeneration,
         Sharded!SkipGeneration, Parted!Disjoint, Sharded!Disjoint,
         Parted!Resumable, Sharded!Resumable, Parted!GenerationRefused,
         Sharded!GenerationRefused, Parted!Generate, Sharded!Generate,
         Parted!FindAllGames, Sharded!FindAllGames, Parted!Pending,
         Sharded!Pending, Parted!EndGame, Sharded!EndGame, Parted!Send,
         Sharded!Send, Parted!EndPlay, Sharded!EndPlay,
         Parted!AllPlayed, Sharded!AllPlayed, Parted!AddRaises,
         Sharded!AddRaises, Parted!Interrupt, Sharded!Interrupt,
         Parted!SendClose, Sharded!SendClose, Parted!Closed,
         Sharded!Closed, Parted!ExitRaised, Sharded!ExitRaised,
         Parted!BeginMetrics, Sharded!BeginMetrics, Parted!EndMetrics,
         Sharded!EndMetrics, Parted!SkipTraining, Sharded!SkipTraining,
         Parted!Available, Sharded!Available, Parted!Window,
         Sharded!Window, Parted!Consistent, Sharded!Consistent,
         Parted!TrainingRefused, Sharded!TrainingRefused,
         Parted!SyncLedger, Sharded!SyncLedger, Parted!SaveCandidate,
         Sharded!SaveCandidate, Parted!BeginTrained,
         Sharded!BeginTrained, Parted!EndTrained, Sharded!EndTrained,
         Parted!Gated, Sharded!Gated, Parted!GateComplete,
         Sharded!GateComplete, Parted!SkipGate, Sharded!SkipGate,
         Parted!Judge, Sharded!Judge, Parted!Recover, Sharded!Recover,
         Parted!Incumbent, Sharded!Incumbent, Parted!Recoverable,
         Sharded!Recoverable, Parted!InstallRefused,
         Sharded!InstallRefused, Parted!ArchiveBest,
         Sharded!ArchiveBest, Parted!InstallCandidate,
         Sharded!InstallCandidate, Parted!Register, Sharded!Register,
         Parted!CompleteRecord, Sharded!CompleteRecord, Parted!Readable,
         Sharded!Readable, Parted!ReportRefused, Sharded!ReportRefused,
         Parted!BeginLine, Sharded!BeginLine, Parted!EndLine,
         Sharded!EndLine, Parted!Drive, Sharded!Drive,
         Parted!WriterStep, Sharded!WriterStep, Parted!Next,
         Sharded!Next, Parted!Cardinality, Sharded!Cardinality,
         Parted!ToSet, Sharded!ToSet
<1>3. Parted!TypeOK <=> Sharded!TypeOK
  BY DEF Parted!TypeOK, Sharded!TypeOK, Parted!WriterTypeOK,
         Sharded!WriterTypeOK, Parted!Seeds, Sharded!Seeds,
         Parted!Close, Sharded!Close, Parted!Ids, Sharded!Ids,
         Parted!Checkpoints, Sharded!Checkpoints, Parted!NoManifest,
         Sharded!NoManifest, Parted!NoCandidate, Sharded!NoCandidate,
         Parted!NoRecord, Sharded!NoRecord, Parted!Absent,
         Sharded!Absent, Parted!Part, Sharded!Part
<1>4. Parted!CorpusIsExact <=> Sharded!CorpusIsExact
  BY DEF Parted!CorpusIsExact, Sharded!CorpusIsExact, Parted!Disjoint,
         Sharded!Disjoint, Parted!Content, Sharded!Content,
         Parted!Seeds, Sharded!Seeds, Parted!Ids, Sharded!Ids
<1>5. Parted!CandidatesDescend <=> Sharded!CandidatesDescend
  BY DEF Parted!CandidatesDescend, Sharded!CandidatesDescend,
         Parted!Made, Sharded!Made, Parted!NoCandidate,
         Sharded!NoCandidate, Parted!Content, Sharded!Content,
         Parted!Seeds, Sharded!Seeds, Parted!Ids, Sharded!Ids,
         Parted!Absent, Sharded!Absent
<1>6. Parted!LeagueIsComplete <=> Sharded!LeagueIsComplete
  BY DEF Parted!LeagueIsComplete, Sharded!LeagueIsComplete,
         Parted!Champion, Sharded!Champion, Parted!Installing,
         Sharded!Installing, Parted!Checkpoints, Sharded!Checkpoints,
         Parted!Ids, Sharded!Ids, Parted!Absent, Sharded!Absent,
         Parted!ToSet, Sharded!ToSet
<1>7. Parted!PoolFollowsGates <=> Sharded!PoolFollowsGates
  BY DEF Parted!PoolFollowsGates, Sharded!PoolFollowsGates,
         Parted!Champion, Sharded!Champion, Parted!Checkpoints,
         Sharded!Checkpoints, Parted!NoManifest, Sharded!NoManifest,
         Parted!Ids, Sharded!Ids, Parted!Absent, Sharded!Absent
<1>8. Parted!RefusedOnlyIfStranded <=> Sharded!RefusedOnlyIfStranded
  BY DEF Parted!RefusedOnlyIfStranded, Sharded!RefusedOnlyIfStranded,
         Parted!Stranded, Sharded!Stranded, Parted!Made, Sharded!Made,
         Parted!NoCandidate, Sharded!NoCandidate, Parted!Content,
         Sharded!Content, Parted!Seeds, Sharded!Seeds, Parted!Ids,
         Sharded!Ids, Parted!Absent, Sharded!Absent, Parted!Part,
         Sharded!Part
<1>9. Parted!Parameters
  BY DEF Parted!Parameters
<1>10. Parted!IInv => /\ Parted!CorpusIsExact /\ Parted!LeagueIsComplete /\ Parted!TypeOK
                 /\ Parted!CandidatesDescend /\ Parted!PoolFollowsGates
                 /\ Parted!RefusedOnlyIfStranded
  BY <1>9, Parted!Shown DEF Parted!IInv
<1> QED
  BY <1>1, <1>2, <1>3, <1>4, <1>5, <1>6, <1>7, <1>8, <1>10

(* A behaviour is one of a run on disk, and of one of the Welcome To runs. *)
LEMMA WelcomeRuns ==
  /\ EitherSpec => [](which # "sharded" => Whole!IInv)
  /\ EitherSpec => [](which = "sharded" => Parted!IInv)
<1>1. Whole!Parameters /\ Parted!Parameters
  BY DEF Whole!Parameters, Parted!Parameters
<1>2. EitherInit => /\ which # "sharded" => Whole!IInv
                    /\ which = "sharded" => Parted!IInv
  BY <1>1, SameWelcome, SameSharded, Whole!Start, Parted!Start DEF EitherInit
<1>3. ASSUME [EitherNext]_everything, which # "sharded", Whole!IInv
      PROVE  which' # "sharded" /\ Whole!IInv'
  <2>1. which' = which
    BY <1>3 DEF EitherNext, everything, notRun, notLog, notWelcome, notLadder
  <2>2. Welcome!Next \/ UNCHANGED welcome
    BY <1>3 DEF EitherNext, everything, notRun, notLog, notWelcome, notLadder
  <2>3. UNCHANGED welcome => UNCHANGED Whole!vars
    BY DEF welcome, Whole!vars, Whole!writerVars, Whole!thread, Whole!strength,
       Whole!replay, Whole!training, Whole!lines, Whole!running, Whole!ends
  <2> QED
    BY <1>1, <1>3, <2>1, <2>2, <2>3, SameWelcome, Whole!Step
<1>4. ASSUME [EitherNext]_everything, which = "sharded", Parted!IInv
      PROVE  which' = "sharded" /\ Parted!IInv'
  <2>1. which' = which
    BY <1>4 DEF EitherNext, everything, notRun, notLog, notWelcome, notLadder
  <2>2. Sharded!Next \/ UNCHANGED welcome
    BY <1>4 DEF EitherNext, everything, notRun, notLog, notWelcome, notLadder
  <2>3. UNCHANGED welcome => UNCHANGED Parted!vars
    BY DEF welcome, Parted!vars, Parted!writerVars, Parted!thread,
       Parted!strength, Parted!replay, Parted!training, Parted!lines,
       Parted!running, Parted!ends
  <2> QED
    BY <1>1, <1>4, <2>1, <2>2, <2>3, SameSharded, Parted!Step
<1>5. [EitherNext]_everything => which' = which
  BY DEF EitherNext, everything, notRun, notLog, notWelcome, notLadder
<1>6. /\ (which # "sharded" => Whole!IInv) /\ [EitherNext]_everything
      => (which # "sharded" => Whole!IInv)'
  BY <1>3, <1>5
<1>7. /\ (which = "sharded" => Parted!IInv) /\ [EitherNext]_everything
      => (which = "sharded" => Parted!IInv)'
  BY <1>4, <1>5
<1> QED
  BY <1>2, <1>6, <1>7, PTL DEF EitherSpec

(* Nothing that was interrupted gets into the weights of a run, or into a  *)
(* candidate of a Welcome To run (RunController.run_iteration,             *)
(* s2_run.run_iteration).                                                  *)
THEOREM LineageCleanInBoth == EitherSpec => []LineageIsClean
<1>1. /\ CleanLineage
      /\ which # "sharded" => Whole!IInv
      /\ which = "sharded" => Parted!IInv
      => LineageIsClean
  BY SameWelcome, SameSharded DEF LineageIsClean
<1> QED
  BY <1>1, EitherRun, WelcomeRuns, LineageClean, PTL

(* The hall of fame of a run and the league of a Welcome To run hold every *)
(* best that was replaced, and nothing else (archive_best,                 *)
(* s2_promotion._finish_promotion_intent).                                 *)
THEOREM ReplacedBestsKept == EitherSpec => []ReplacedBestsAreKept
<1>1. /\ HallOfFameIsComplete
      /\ which # "sharded" => Whole!IInv
      /\ which = "sharded" => Parted!IInv
      => ReplacedBestsAreKept
  BY SameWelcome, SameSharded DEF ReplacedBestsAreKept
<1> QED
  BY <1>1, EitherRun, WelcomeRuns, HallComplete, PTL

(* Each game of a Welcome To iteration is in one shard, and every file of  *)
(* the run has the values the code gives it (RustSampleShardWriter).       *)
THEOREM GamesOnce == EitherSpec => []EachGameOnce
<1>1. /\ which # "sharded" => Whole!IInv
      /\ which = "sharded" => Parted!IInv
      => EachGameOnce
  BY SameWelcome, SameSharded DEF EachGameOnce
<1> QED
  BY <1>1, WelcomeRuns, PTL

(* A Welcome To run refuses its files only where a death has stranded it:  *)
(* the part of RunsComplete that is not about what must happen             *)
(* (s2_run.main).                                                          *)
THEOREM NothingElseRefused == EitherSpec => []~WelcomeRefusal
<1>1. /\ which # "sharded" => Whole!IInv
      /\ which = "sharded" => Parted!IInv
      => ~WelcomeRefusal
  BY SameWelcome, SameSharded DEF WelcomeRefusal
<1> QED
  BY <1>1, WelcomeRuns, PTL

----------------------------------------------------------------------------
(* The interventions that MCRunController puts beside the run.             *)

Stalled == INSTANCE InterventionsProofs WITH
             Rungs <- 2, MinMeasurements <- 2, Window <- 2, Every <- 1,
             IterationGames <- {1, 2}, MaxGames <- 6, MaxDeaths <- 2,
             MaxFailures <- 1

LEMMA SameLadder ==
  /\ Stalled!Init <=> Ladder!Init
  /\ Stalled!Next <=> Ladder!Next
  /\ Stalled!IInv => /\ Ladder!TypeOK /\ Ladder!InterventionsAreEarned
                     /\ Ladder!ConfigurationFollowsLadder
<1>1. Stalled!Init <=> Ladder!Init
  BY DEF Stalled!Init, Ladder!Init, Stalled!NothingToWrite,
         Ladder!NothingToWrite, Stalled!Fresh, Ladder!Fresh,
         Stalled!NoRung, Ladder!NoRung
<1>2. Stalled!Next <=> Ladder!Next
  BY DEF Stalled!Next, Ladder!Next, Stalled!Restart, Ladder!Restart,
         Stalled!Generate, Ladder!Generate, Stalled!Measure,
         Ladder!Measure, Stalled!MeasureNothing, Ladder!MeasureNothing,
         Stalled!Write, Ladder!Write, Stalled!WriteFails,
         Ladder!WriteFails, Stalled!Commit, Ladder!Commit, Stalled!Die,
         Ladder!Die, Stalled!Due, Ladder!Due, Stalled!Last, Ladder!Last,
         Stalled!Advance, Ladder!Advance, Stalled!Escalate,
         Ladder!Escalate, Stalled!Active, Ladder!Active,
         Stalled!Stagnant, Ladder!Stagnant, Stalled!Now, Ladder!Now,
         Stalled!NothingToWrite, Ladder!NothingToWrite, Stalled!Fresh,
         Ladder!Fresh, Stalled!NoRung, Ladder!NoRung, Stalled!Holding,
         Ladder!Holding, Stalled!Calm, Ladder!Calm
<1>3. Stalled!TypeOK <=> Ladder!TypeOK
  BY DEF Stalled!TypeOK, Ladder!TypeOK, Stalled!Ladder, Ladder!Ladder,
         Stalled!Holding, Ladder!Holding, Stalled!Calm, Ladder!Calm,
         Stalled!NoRung, Ladder!NoRung
<1>4. Stalled!InterventionsAreEarned <=> Ladder!InterventionsAreEarned
  BY DEF Stalled!InterventionsAreEarned, Ladder!InterventionsAreEarned,
         Stalled!Clears, Ladder!Clears, Stalled!Holding, Ladder!Holding,
         Stalled!NoRung, Ladder!NoRung
<1>5. Stalled!ConfigurationFollowsLadder <=> Ladder!ConfigurationFollowsLadder
  BY DEF Stalled!ConfigurationFollowsLadder,
         Ladder!ConfigurationFollowsLadder, Stalled!Active,
         Ladder!Active, Stalled!NoRung, Ladder!NoRung
<1> QED
  BY <1>1, <1>2, <1>3, <1>4, <1>5 DEF Stalled!IInv

(* A behaviour is one of these interventions as well, and of one kind.     *)
LEMMA LadderRun ==
  /\ EitherSpec => []Stalled!IInv
  /\ EitherSpec => [](which \in {"run", "log", "welcome", "sharded", "ladder"})
<1>1. Stalled!Parameters
  BY DEF Stalled!Parameters
<1>2. EitherInit => /\ Stalled!IInv
                    /\ which \in {"run", "log", "welcome", "sharded", "ladder"}
  BY <1>1, SameLadder, Stalled!Start DEF EitherInit
<1>3. ASSUME [EitherNext]_everything, Stalled!IInv
      PROVE  Stalled!IInv'
  <2>1. Ladder!Next \/ UNCHANGED ladder
    BY <1>3 DEF EitherNext, everything, notRun, notLog, notWelcome, notLadder
  <2>2. UNCHANGED ladder => UNCHANGED Stalled!vars
    BY DEF ladder, Stalled!vars
  <2> QED
    BY <1>1, <1>3, <2>1, <2>2, SameLadder, Stalled!Step
<1>4. [EitherNext]_everything => which' = which
  BY DEF EitherNext, everything, notRun, notLog, notWelcome, notLadder
<1>5. Stalled!IInv /\ [EitherNext]_everything => Stalled!IInv'
  BY <1>3
<1>6. /\ which \in {"run", "log", "welcome", "sharded", "ladder"}
      /\ [EitherNext]_everything
      => (which \in {"run", "log", "welcome", "sharded", "ladder"})'
  BY <1>4
<1> QED
  BY <1>2, <1>5, <1>6, PTL DEF EitherSpec

(* Every rung of the gate ladder is paid for with probations, of the run   *)
(* on disk and of the longer log, and every intervention made and          *)
(* withdrawn for what was measured (training_control._ladder_after,        *)
(* stagnation.InterventionLadder.advance).                                 *)
THEOREM RungsEarnedInAll ==
    ASSUME Mode = "soft_gate"
    PROVE  EitherSpec => []RungsAreEarned
<1>1. Longest!PolicyAssumption
  BY PolicyAssumption
     DEF PolicyAssumption, Longest!PolicyAssumption, Longest!Modes, Modes,
         Longest!Policies, Policies
<1>2. Longest!Spec => []Longest!RungsAreEarned
  BY <1>1, Longest!RungsEarned
<1>3. Longest!RungsAreEarned <=> Longer!RungsAreEarned
  BY DEF Longest!RungsAreEarned, Longer!RungsAreEarned, Longest!Counted,
     Longer!Counted, Longest!Cardinality, Longer!Cardinality, Longest!Before,
     Longer!Before, Longest!Fresh, Longer!Fresh, Longest!InitialState,
     Longer!InitialState, Longest!FixedOnBest, Longer!FixedOnBest
<1>4. Log!RungsAreEarned /\ Longer!RungsAreEarned /\ Stalled!IInv => RungsAreEarned
  BY SameLadder DEF RungsAreEarned
<1> QED
  BY <1>2, <1>3, <1>4, EitherRun, LogHoldsOnDisk, LadderRun, PTL

(* The games of an iteration come from whom the gates before it chose, in  *)
(* the run on disk, in the longer log and in a Welcome To run, and are     *)
(* played under the intervention on record (select_generator_source,       *)
(* ensure_run_manifest, restore_intervention).                             *)
THEOREM GeneratorFollowsInAll ==
    ASSUME Mode = "soft_gate"
    PROVE  EitherSpec => []GeneratorFollowsGates
<1>1. Longest!PolicyAssumption
  BY PolicyAssumption
     DEF PolicyAssumption, Longest!PolicyAssumption, Longest!Modes, Modes,
         Longest!Policies, Policies
<1>2. Longest!Spec => []Longest!GeneratorFollowsGates
  BY <1>1, Longest!GeneratorFollows
<1>3. Longest!GeneratorFollowsGates <=> Longer!GeneratorFollowsGates
  BY DEF Longest!GeneratorFollowsGates, Longer!GeneratorFollowsGates,
     Longest!Before, Longer!Before, Longest!Fresh, Longer!Fresh,
     Longest!InitialState, Longer!InitialState, Longest!FixedOnBest,
     Longer!FixedOnBest
<1>4. /\ Log!GeneratorFollowsGates /\ Longer!GeneratorFollowsGates
      /\ Stalled!IInv
      /\ which # "sharded" => Whole!IInv
      /\ which = "sharded" => Parted!IInv
      /\ which \in {"run", "log", "welcome", "sharded", "ladder"}
      => GeneratorFollowsGates
  BY SameLadder, SameWelcome, SameSharded DEF GeneratorFollowsGates
<1> QED
  BY <1>2, <1>3, <1>4, EitherRun, LogHoldsOnDisk, WelcomeRuns, LadderRun, PTL
=============================================================================

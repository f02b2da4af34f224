---------------------------- MODULE WelcomeRunProofs ----------------------------
(***************************************************************************)
(* What every Welcome To run keeps on its disk, whatever the number of its *)
(* iterations, games, deaths and failed writes: each game is in one shard, *)
(* candidates descend from each other, the league has the bests that were  *)
(* replaced, and no file is refused but where a death has stranded the run.*)
(* The inductive invariant, IInv, has a part for the place the process has *)
(* come to, one for the files of the iterations before, at and after it,   *)
(* one for the games on their way to a shard and one for the promotions.   *)
(***************************************************************************)
EXTENDS WelcomeRun, SequenceTheorems, FiniteSetTheorems, TLAPS

Parameters ==
    /\ Iterations \in Nat /\ Games \in Nat \ {0}
    /\ ShardGames \in Nat /\ QueueGames \in Nat
    /\ GateEvery \in Nat \ {0} /\ WindowGames \in Nat \ {0}
    /\ MaxDeaths \in Nat /\ MaxFaults \in Nat

----------------------------------------------------------------------------
(* The inductive invariant.                                                *)

Now == Len(progress) + 1

Idle      == {"down", "finished"}
Playing   == {"play", "send", "close", "await"}
Measuring == {"metrics", "end_metrics"}
Saving    == {"save_metrics", "end_saving"}
Promoting == {"archive", "install", "register", "complete"}
Judged    == {"gate", "report", "append"} \cup Promoting

(* The process works on the first iteration without a line, and outside of *)
(* a generation there is no writer and no game on its way.                 *)
PlaceInv ==
    /\ \A k \in DOMAIN progress : progress[k] = k
    /\ Len(progress) <= Iterations
    /\ IF stage \in Idle THEN iteration = 0 ELSE iteration = Now /\ Now \in Ids
    /\ stage = "finished" => Len(progress) = Iterations
    /\ stage \notin Playing => NoWriter /\ raised = FALSE
    /\ stage \notin Playing \cup Measuring => resumed = {} /\ played = {}
    /\ holding # 0 <=> stage = "send"
    /\ raised => stage \in {"close", "await"}

(* What an iteration has left, by where it is in the order of its files.   *)
Untouched(i) ==
    /\ shards[i] = <<>> /\ manifests[i] = NoManifest /\ generated[i] = Absent
    /\ ledgered[i] = 0 /\ ~Made(i) /\ trained[i] = Absent
    /\ records[i] = NoRecord

Filed(i) ==
    /\ i > Now => Untouched(i)
    /\ i < Now => generated[i] = Games /\ Made(i) /\ trained[i] = 0
                  /\ records[i].status # "installing"
    /\ manifests[i] = NoManifest => shards[i] = <<>>
    /\ Len(shards[i]) <= Cardinality(Content(i))
    /\ generated[i] # Absent => Content(i) = Seeds
    /\ generated[i] >= 0 => generated[i] = Games
    /\ ledgered[i] # 0 => ledgered[i] = Games /\ generated[i] = Games
    /\ Made(i) => Content(i) = Seeds /\ generated[i] # Part
    /\ trained[i] # Absent => Made(i)
    /\ records[i] # NoRecord => Made(i) /\ records[i].status # "none"

AtWork ==
    /\ manifests[iteration] # NoManifest
    /\ stage = "end_metrics" <=> generated[iteration] = Part
    /\ stage \in Playing \cup {"metrics"} => generated[iteration] = Absent
    /\ stage \in Playing \cup Measuring \cup {"fit"} => ~Made(iteration)
    /\ stage \notin Playing => Content(iteration) = Seeds
    /\ stage \in Saving \cup Judged => Made(iteration)
    /\ stage = "append" => Readable

FilesInv ==
    /\ \A i \in Ids : Filed(i)
    /\ stage \notin Idle \cup {"generate"} => AtWork

(* Each game that has been let in is in one place: a shard, the hands of   *)
(* the thread, the channel, or waiting for room in it.  None is lost but   *)
(* after a failure.                                                        *)
Queued == {queue[k] : k \in DOMAIN queue} \ {Close}
Waits  == {holding} \ {0}
Known  == resumed \cup played

GamesInv ==
    /\ \A i \in Ids : Disjoint(i)
    /\ stage \in Measuring \/ (stage \in {"close", "await"} /\ ~raised) =>
         Known = Seeds
    /\ resumed \cap played = {}
    /\ stage \in Playing =>
         LET written == Content(iteration)
         IN  /\ admitted = Known /\ resumed \subseteq written
             /\ index = Len(shards[iteration]) + 1
             /\ written \cap held = {} /\ written \cap Queued = {}
             /\ written \cap Waits = {} /\ held \cap Queued = {}
             /\ held \cap Waits = {} /\ Queued \cap Waits = {}
             /\ written \cup held \cup Queued \cup Waits \subseteq Known
             /\ ~failure =>
                  Known \subseteq written \cup held \cup Queued \cup Waits

WriterInv ==
    /\ \A k, n \in DOMAIN queue : queue[k] = queue[n] => k = n
    /\ \A k \in DOMAIN queue :
         queue[k] = Close => k = Len(queue) /\ stage = "await"
    /\ stage \in Playing =>
         /\ writer = "flushing" => held # {} /\ ~failure
         /\ writer \in {"ending", "gone"} => stage = "await" /\ queue = <<>>
         /\ writer = "gone" <=> reply # "none"
         /\ reply = "ok" => held = {} /\ ~failure

(* The gates: a candidate that won its gate replaced the one that had won  *)
(* the gate before, and only the last one may still be at it.              *)
IsChampion(i, c) ==
    /\ c = 0 \/ (c < i /\ records[c].promoted)
    /\ \A k \in 1..i - 1 : records[k].promoted => k <= c

Replaced(S) == {records[k].incumbent : k \in {n \in S : records[n].promoted}}

League == {league[k] : k \in DOMAIN league}

PromotionInv ==
    /\ \A i \in 1..Iterations + 1 : \E c \in Checkpoints : IsChampion(i, c)
    /\ \A i \in Ids :
         /\ records[i].status = "installing" => records[i].promoted /\ Gated(i)
         /\ records[i].promoted => records[i].incumbent = Champion(i)
    /\ currentBest = Absent => /\ stage = "down"
                               /\ \A i \in Ids : Untouched(i)
    /\ currentBest \in {Absent, Champion(Iterations + 1)}
                       \cup {Champion(i) : i \in Installing}
    /\ \A i \in Installing : currentBest = Champion(i) \/ Champion(i) \in archive
    /\ League \subseteq Replaced(Ids) \cap archive
    /\ Replaced(Ids \ Installing) \subseteq League
    /\ \A k, n \in DOMAIN league : k < n => league[k] < league[n]
    /\ stage \in Promoting =>
         /\ iteration \in Installing
         /\ stage # "archive" => Incumbent \in archive
         /\ stage \in {"register", "complete"} => currentBest = iteration
         /\ stage = "complete" => Incumbent \in League
    /\ stage \in {"report", "append"} => iteration \notin Installing

IInv == /\ TypeOK /\ PlaceInv /\ FilesInv /\ GamesInv /\ WriterInv
        /\ PromotionInv /\ CandidatesDescend /\ PoolFollowsGates
        /\ RefusedOnlyIfStranded

----------------------------------------------------------------------------
(* Every step keeps the types.                                             *)

LEMMA SeedFacts ==
  ASSUME Parameters
  PROVE  /\ IsFiniteSet(Seeds) /\ Cardinality(Seeds) = Games /\ Seeds # {}
         /\ 0 \notin Seeds /\ Close \notin Seeds
         /\ \A S \in SUBSET Seeds : /\ IsFiniteSet(S)
                                  /\ Cardinality(S) \in 0..Games
<1>1. IsFiniteSet(Seeds) /\ Cardinality(Seeds) = Games
  BY FS_Interval DEF Parameters, Seeds
<1>2. \A S \in SUBSET Seeds : IsFiniteSet(S) /\ Cardinality(S) \in 0..Games
  <2> TAKE S \in SUBSET Seeds
  <2>1. IsFiniteSet(S) /\ Cardinality(S) <= Games
    BY <1>1, FS_Subset
  <2>2. Cardinality(S) \in Nat
    BY <2>1, FS_CardinalityType
  <2> QED
    BY <2>1, <2>2 DEF Parameters
<1> QED
  BY <1>1, <1>2 DEF Parameters, Seeds, Close

(* One more shard, of the games the thread holds.                          *)
LEMMA OneShard ==
  ASSUME Parameters, TypeOK, PlaceInv, FilesInv, GamesInv,
         stage \in Playing, held # {}, WriteShard
  PROVE  /\ shards' \in [Ids -> Seq((SUBSET Seeds) \ {{}})]
         /\ \A i \in Ids \ {iteration} : shards'[i] = shards[i]
         /\ shards'[iteration] # <<>>
         /\ Len(shards'[iteration]) = Len(shards[iteration]) + 1
         /\ Content(iteration)' = Content(iteration) \cup held
         /\ Disjoint(iteration)'
         /\ Len(shards'[iteration]) <= Cardinality(Content(iteration)')
         /\ index' = Len(shards'[iteration]) + 1 /\ index' \in 1..Games + 1
         /\ iteration' = iteration
<1> DEFINE Shard == (SUBSET Seeds) \ {{}}
           old   == shards[iteration]
           m     == Len(old)
           new   == [k \in DOMAIN old \cup {index} |->
                       IF k = index THEN held ELSE old[k]]
<1>1. /\ iteration \in Ids /\ old \in Seq(Shard) /\ m \in Nat
      /\ DOMAIN old = 1..m /\ index = m + 1 /\ held \in Shard
  <2>1. iteration \in Ids
    BY DEF PlaceInv, Playing, Idle
  <2>2. old \in Seq(Shard) /\ held \in Shard
    BY <2>1 DEF TypeOK, WriterTypeOK, Ids
  <2> QED
    BY <2>1, <2>2 DEF GamesInv
<1>2. /\ shards' = [shards EXCEPT ![iteration] = new]
      /\ index' = index + 1 /\ iteration' = iteration
  BY DEF WriteShard
<1>3. shards \in [Ids -> Seq(Shard)]
  BY DEF TypeOK, WriterTypeOK, Ids
<1>4. /\ new \in Seq(Shard) /\ Len(new) = m + 1 /\ DOMAIN new = 1..m + 1
      /\ new[m + 1] = held /\ \A k \in 1..m : new[k] = old[k]
  <2>1. DOMAIN old \cup {index} = 1..m + 1
    BY <1>1
  <2>2. \A k \in 1..m : old[k] \in Shard
    BY <1>1
  <2>3. new \in [1..m + 1 -> Shard]
    BY <1>1, <2>1, <2>2
  <2>4. new[m + 1] = held /\ \A k \in 1..m : new[k] = old[k]
    BY <1>1, <2>1
  <2> HIDE DEF new
  <2>5. new \in Seq(Shard) /\ Len(new) = m + 1 /\ DOMAIN new = 1..m + 1
    BY <1>1, <2>3
  <2> QED
    BY <2>4, <2>5
<1>5. /\ shards' \in [Ids -> Seq(Shard)] /\ shards'[iteration] = new
      /\ \A i \in Ids \ {iteration} : shards'[i] = shards[i]
  BY <1>1, <1>2, <1>3, <1>4
<1> HIDE DEF new
<1>6. Content(iteration)' = Content(iteration) \cup held
  BY <1>1, <1>2, <1>4, <1>5 DEF Content
<1>7. Disjoint(iteration)'
  <2>1. \A k \in 1..m : old[k] \cap held = {}
    BY <1>1 DEF GamesInv, Content
  <2>2. \A k, n \in 1..m : k # n => old[k] \cap old[n] = {}
    BY <1>1 DEF GamesInv, Disjoint
  <2>3. \A k, n \in 1..m + 1 : k # n => new[k] \cap new[n] = {}
    BY <1>1, <1>4, <2>1, <2>2
  <2> QED
    BY <1>2, <1>4, <1>5, <2>3 DEF Disjoint
<1>8. m + 1 <= Cardinality(Content(iteration)')
  <2>1. Content(iteration) \in SUBSET Seeds
    BY <1>1 DEF Content
  <2>2. PICK C : C = Content(iteration)
    OBVIOUS
  <2>3. /\ Content(iteration)' = C \cup held /\ C \cap held = {}
        /\ C \in SUBSET Seeds /\ m <= Cardinality(C)
    BY <1>1, <1>6, <2>1, <2>2 DEF GamesInv, FilesInv, Filed
  <2>4. /\ IsFiniteSet(C) /\ IsFiniteSet(held) /\ held # {}
        /\ Cardinality(C) \in Nat /\ Cardinality(held) \in Nat
    BY <1>1, <2>3, SeedFacts
  <2>5. Cardinality(held) # 0
    BY <2>4, FS_EmptySet
  <2>6. Cardinality(C \cup held) = Cardinality(C) + Cardinality(held) - 0
    BY <2>3, <2>4, FS_Union, FS_EmptySet
  <2> QED
    BY <1>1, <2>3, <2>4, <2>5, <2>6
<1>9. m + 1 <= Games
  <2>1. Content(iteration)' \in SUBSET Seeds
    BY <1>1, <1>6 DEF Content
  <2>2. Cardinality(Content(iteration)') \in 0..Games
    BY <2>1, SeedFacts
  <2> QED
    BY <1>1, <1>8, <2>2 DEF Parameters
<1> QED
  BY <1>1, <1>2, <1>4, <1>5, <1>6, <1>7, <1>8, <1>9 DEF Parameters

(* The first iteration without a line, if there is one.                    *)
LEMMA NextIteration ==
  ASSUME Parameters, NEW done \in Seq(Ids), \A k \in DOMAIN done : done[k] = k,
         Len(done) <= Iterations, Proceed(done)
  PROVE  \/ stage' = "finished" /\ iteration' = 0 /\ Len(done) = Iterations
         \/ stage' = "generate" /\ iteration' = Len(done) + 1 /\ Len(done) + 1 \in Ids
<1>1. Len(done) \in Nat /\ DOMAIN done = 1..Len(done)
  OBVIOUS
<1>2. ToSet(done) = 1..Len(done)
  BY <1>1 DEF ToSet
<1>3. Unfinished(done) = Len(done) + 1..Iterations
  BY <1>1, <1>2 DEF Unfinished, Ids, Parameters
<1>4. CASE Len(done) = Iterations
  BY <1>1, <1>3, <1>4 DEF Proceed
<1>5. CASE Len(done) < Iterations
  <2> DEFINE least == CHOOSE i \in Unfinished(done) :
                         \A j \in Unfinished(done) : i <= j
  <2>1. \E i \in Unfinished(done) : \A j \in Unfinished(done) : i <= j
    <3>1. Len(done) + 1 \in Unfinished(done)
      BY <1>1, <1>3, <1>5 DEF Parameters
    <3> QED
      BY <1>1, <1>3, <3>1 DEF Parameters
  <2>2. least \in Unfinished(done) /\ \A j \in Unfinished(done) : least <= j
    BY <2>1
  <2>3. Len(done) + 1 \in Unfinished(done)
    BY <1>1, <1>3, <1>5 DEF Parameters
  <2>4. least = Len(done) + 1
    BY <1>1, <1>3, <2>2, <2>3 DEF Parameters
  <2>5. stage' = "generate" /\ iteration' = least
    BY <2>3 DEF Proceed
  <2> QED
    BY <1>1, <1>5, <2>4, <2>5 DEF Ids, Parameters
<1>6. Len(done) = Iterations \/ Len(done) < Iterations
  <2>1. Len(done) \in Nat /\ Iterations \in Nat
    BY <1>1 DEF Parameters
  <2> QED
    BY <2>1
<1> QED
  BY <1>4, <1>5, <1>6

(* What the line of the iteration leads to.                                *)
LEMMA NewLine ==
  ASSUME Parameters, TypeOK, PlaceInv, EndLine
  PROVE  /\ progress' \in Seq(Ids) /\ Len(progress') = Len(progress) + 1
         /\ \A k \in DOMAIN progress' : progress'[k] = k
         /\ Len(progress') <= Iterations
         /\ \/ stage' = "finished" /\ iteration' = 0 /\ Len(progress') = Iterations
            \/ stage' = "generate" /\ iteration' = Len(progress') + 1
               /\ Len(progress') + 1 \in Ids
<1>1. /\ progress \in Seq(Ids) /\ iteration \in Ids /\ iteration = Len(progress) + 1
      /\ progress' = Append(progress, iteration) /\ Proceed(progress')
  BY DEF EndLine, TypeOK, PlaceInv, Idle, Now
<1>2. /\ progress' \in Seq(Ids) /\ Len(progress') = Len(progress) + 1
      /\ DOMAIN progress' = 1..Len(progress) + 1
      /\ \A k \in 1..Len(progress) : progress'[k] = progress[k]
      /\ progress'[Len(progress) + 1] = iteration
  BY <1>1, AppendProperties
<1>3. \A k \in DOMAIN progress' : progress'[k] = k
  BY <1>1, <1>2 DEF PlaceInv
<1>4. Len(progress') <= Iterations
  BY <1>1, <1>2 DEF Ids, Parameters
<1>5. PICK done : done = progress'
  OBVIOUS
<1>6. \/ stage' = "finished" /\ iteration' = 0 /\ Len(done) = Iterations
      \/ stage' = "generate" /\ iteration' = Len(done) + 1 /\ Len(done) + 1 \in Ids
  BY <1>1, <1>2, <1>3, <1>4, <1>5, NextIteration
<1> QED
  BY <1>2, <1>3, <1>4, <1>5, <1>6

(* The metrics count every game once.                                      *)
LEMMA AllGames ==
  ASSUME Parameters, TypeOK, GamesInv, stage \in Measuring
  PROVE  Cardinality(resumed) + Cardinality(played) = Games
<1>1. /\ resumed \cup played = Seeds /\ resumed \cap played = {}
      /\ resumed \in SUBSET Seeds /\ played \in SUBSET Seeds
  BY DEF GamesInv, Known, TypeOK
<1>2. /\ IsFiniteSet(resumed) /\ IsFiniteSet(played)
      /\ Cardinality(resumed) \in 0..Games /\ Cardinality(played) \in 0..Games
  BY <1>1, SeedFacts
<1>3. Games = Cardinality(resumed) + Cardinality(played) - 0
  BY <1>1, <1>2, SeedFacts, FS_Union, FS_EmptySet
<1> QED
  BY <1>2, <1>3 DEF Parameters

LEMMA IncumbentType ==
  ASSUME TypeOK, PromotionInv, stage \in Promoting
  PROVE  /\ iteration \in Ids /\ records[iteration].status = "installing"
         /\ records[iteration] \in [status : {"installing", "complete"},
                                   promoted : BOOLEAN, incumbent : Checkpoints]
         /\ Incumbent \in Checkpoints
<1>1. iteration \in Ids /\ records[iteration].status = "installing"
  BY DEF PromotionInv, Installing
<1> QED
  BY <1>1 DEF TypeOK, NoRecord, Incumbent

(* The types, part by part.                                                *)
StrengthType ==
    /\ currentBest \in Checkpoints \cup {Absent}
    /\ archive \subseteq Checkpoints
    /\ league \in Seq(Checkpoints)
    /\ records \in [Ids -> {NoRecord} \cup
         [status : {"installing", "complete"}, promoted : BOOLEAN,
          incumbent : Checkpoints]]

ReplayType ==
    /\ manifests \in [Ids -> {NoManifest} \cup
         [learner : Checkpoints, best : Checkpoints, pool : SUBSET Checkpoints]]
    /\ generated \in [Ids -> {Absent, Part} \cup 0..Games]
    /\ ledgered \in [Ids -> 0..Games]

TrainingType ==
    /\ candidates \in [Ids -> {NoCandidate} \cup
         [from : Checkpoints, window : SUBSET Ids]]
    /\ trained \in [Ids -> {Absent, Part, 0}]

LinesType == progress \in Seq(Ids) /\ cut \in BOOLEAN

RunType ==
    /\ stage \in {"generate", "metrics", "train", "fit"}
                 \cup Idle \cup Playing \cup Measuring \cup Saving \cup Judged
    /\ resumed \subseteq Seeds /\ played \subseteq Seeds
    /\ holding \in Seeds \cup {0}
    /\ raised \in BOOLEAN /\ refused \in BOOLEAN
    /\ deaths \in 0..MaxDeaths

LEMMA TypeParts ==
  /\ TypeOK <=> /\ WriterTypeOK /\ StrengthType /\ ReplayType
                /\ TrainingType /\ LinesType /\ RunType
  /\ TypeOK' <=> /\ WriterTypeOK' /\ StrengthType' /\ ReplayType'
                 /\ TrainingType' /\ LinesType' /\ RunType'
BY DEF TypeOK, StrengthType, ReplayType, TrainingType, LinesType, RunType, Idle,
   Playing, Measuring, Saving, Judged, Promoting

LEMMA LearnerType ==
  ASSUME Parameters, TypeOK, PromotionInv, stage # "down", NEW i \in Ids
  PROVE  currentBest \in Checkpoints /\ Learner(i) \in Checkpoints
<1>1. currentBest \in Checkpoints
  BY DEF TypeOK, PromotionInv
<1> QED
  BY <1>1 DEF Learner, Checkpoints, Ids, Parameters

LEMMA IdentityType ==
  ASSUME Parameters, TypeOK, PromotionInv, stage # "down", NEW i \in Ids
  PROVE  Identity(i) \in [learner : Checkpoints, best : Checkpoints,
                         pool : SUBSET Checkpoints]
<1>1. ToSet(league) \ {currentBest} \in SUBSET Checkpoints
  BY DEF ToSet, TypeOK
<1> QED
  BY <1>1, LearnerType DEF Identity

LEMMA TypeStep ==
  ASSUME Parameters, IInv, [Next]_vars
  PROVE  TypeOK'
<1> USE DEF Goto, Forget, Refuse, Idle
<1>1. /\ WriterTypeOK /\ StrengthType /\ ReplayType /\ TrainingType
      /\ LinesType /\ RunType
  BY TypeParts DEF IInv
<1>2. stage \notin Idle => iteration \in Ids
  BY DEF IInv, PlaceInv
<1>3. /\ UNCHANGED strength => StrengthType'
      /\ UNCHANGED replay => ReplayType'
      /\ UNCHANGED training => TrainingType'
      /\ UNCHANGED lines => LinesType'
      /\ UNCHANGED writerVars => WriterTypeOK'
  BY <1>1 DEF strength, replay, training, lines, writerVars, thread,
     StrengthType, ReplayType, TrainingType, LinesType, WriterTypeOK
<1>4. ASSUME UNCHANGED <<running, ends>>,
             stage' \in {"generate", "metrics", "train", "fit"}
                 \cup Idle \cup Playing \cup Measuring \cup Saving \cup Judged
      PROVE  RunType'
  BY <1>1, <1>4 DEF RunType, running, ends
<1>5. ASSUME WriterDies, iteration' \in 0..Iterations, UNCHANGED <<shards, faults>>
      PROVE  WriterTypeOK'
  <2>1. /\ queue' \in Seq(Seeds \cup {Close}) /\ Len(queue') <= QueueGames
        /\ index' \in 1..Games + 1
    BY <1>5 DEF WriterDies, Parameters
  <2> QED
    BY <1>1, <1>5, <2>1 DEF WriterDies, WriterTypeOK
<1>6. ASSUME UNCHANGED <<shards, queue, admitted, thread, faults>>,
             iteration' \in 0..Iterations
      PROVE  WriterTypeOK'
  BY <1>1, <1>6 DEF WriterTypeOK, thread
<1>7. ASSUME Forget, refused' \in BOOLEAN, deaths' \in 0..MaxDeaths,
             UNCHANGED <<shards, faults, strength, replay, training, lines>>
      PROVE  TypeOK'
  <2>1. RunType'
    BY <1>7 DEF RunType
  <2>2. WriterTypeOK'
    BY <1>5, <1>7 DEF Parameters
  <2> QED
    BY <1>3, <1>7, <2>1, <2>2, TypeParts
<1>8. CASE Drive
  <2> USE DEF Measuring, Playing, Saving, Judged, Promoting
  <2>1. CASE StartUp
    <3>1. progress \in Seq(Ids) /\ Proceed(progress)
      BY <1>1, <2>1 DEF StartUp, LinesType
    <3>2. iteration' \in 0..Iterations /\ stage' \in {"finished", "generate"}
      BY <3>1, NextIteration DEF IInv, PlaceInv, Parameters, Ids
    <3>3. StrengthType'
      BY <1>1, <2>1 DEF StartUp, StrengthType, Checkpoints, Parameters
    <3>4. RunType'
      BY <1>1, <2>1, <3>2 DEF StartUp, RunType, running
    <3> QED
      BY <1>3, <1>6, <2>1, <3>2, <3>3, <3>4, TypeParts DEF StartUp
  <2>2. CASE StartRefused \/ GenerationRefused \/ TrainingRefused
             \/ InstallRefused \/ ReportRefused \/ ExitRaised
    <3>1. /\ Forget /\ refused' \in BOOLEAN /\ deaths' = deaths
          /\ UNCHANGED <<shards, faults, strength, replay, training, lines>>
      BY <2>2 DEF StartRefused, GenerationRefused, TrainingRefused,
         InstallRefused, ReportRefused, ExitRaised
    <3> QED
      BY <1>1, <1>7, <3>1 DEF RunType
  <2>3. CASE SkipGeneration \/ FindAllGames \/ SkipTraining \/ SkipGate
             \/ Recover
    <3>1. /\ UNCHANGED <<writerVars, running, ends>>
          /\ UNCHANGED <<strength, replay, training, lines>>
          /\ stage' \in {"train", "gate", "report", "archive"}
      BY <2>3 DEF SkipGeneration, FindAllGames, SkipTraining, SkipGate, Recover
    <3> QED
      BY <1>3, <1>4, <3>1, TypeParts
  <2>4. CASE Generate
    <3>1. Identity(iteration) \in [learner : Checkpoints, best : Checkpoints,
                                  pool : SUBSET Checkpoints]
      BY <1>2, <2>4, IdentityType DEF Generate, IInv
    <3>2. Content(iteration) \in SUBSET Seeds
      BY <1>1, <1>2, <2>4 DEF Content, Generate, WriterTypeOK, Ids
    <3>3. Len(shards[iteration]) + 1 \in 1..Games + 1
      <4>1. /\ Cardinality(Content(iteration)) \in 0..Games
            /\ Len(shards[iteration]) <= Cardinality(Content(iteration))
        BY <1>2, <2>4, <3>2, SeedFacts DEF Generate, IInv, FilesInv, Filed
      <4>2. Len(shards[iteration]) \in Nat
        BY <1>1, <1>2, <2>4 DEF Generate, WriterTypeOK, Ids
      <4> QED
        BY <4>1, <4>2 DEF Parameters
    <3>4. WriterTypeOK'
      BY <1>1, <2>4, <3>2, <3>3 DEF Generate, Open, WriterTypeOK
    <3>5. ReplayType'
      BY <1>1, <1>2, <2>4, <3>1 DEF Generate, ReplayType
    <3>6. RunType'
      BY <1>1, <2>4, <3>2 DEF Generate, RunType, ends
    <3> QED
      BY <1>3, <2>4, <3>4, <3>5, <3>6, TypeParts DEF Generate
  <2>5. ASSUME NEW seed \in Seeds, EndGame(seed) PROVE TypeOK'
    <3>1. WriterTypeOK'
      BY <1>1, <2>5 DEF EndGame, WriterTypeOK, thread
    <3>2. RunType'
      BY <1>1, <2>5 DEF EndGame, RunType, ends
    <3> QED
      BY <1>3, <2>5, <3>1, <3>2, TypeParts DEF EndGame
  <2>6. CASE Send
    <3>1. holding \in Seeds
      BY <1>1, <2>6 DEF Send, IInv, PlaceInv, RunType
    <3>2. queue' \in Seq(Seeds \cup {Close}) /\ Len(queue') <= QueueGames
      BY <1>1, <2>6, <3>1 DEF Send, HasRoom, WriterTypeOK, Parameters
    <3>3. WriterTypeOK'
      BY <1>1, <2>6, <3>2 DEF Send, WriterTypeOK, thread
    <3>4. RunType'
      BY <1>1, <2>6 DEF Send, RunType, ends
    <3> QED
      BY <1>3, <2>6, <3>3, <3>4, TypeParts DEF Send
  <2>7. CASE AllPlayed \/ AddRaises
    <3>1. RunType'
      BY <1>1, <2>7 DEF AllPlayed, AddRaises, EndPlay, RunType
    <3> QED
      BY <1>3, <2>7, <3>1, TypeParts DEF AllPlayed, AddRaises, EndPlay
  <2>8. CASE SendClose
    <3>1. queue' \in Seq(Seeds \cup {Close}) /\ Len(queue') <= QueueGames
      BY <1>1, <2>8 DEF SendClose, HasRoom, WriterTypeOK, Parameters
    <3>2. WriterTypeOK'
      BY <1>1, <2>8, <3>1 DEF SendClose, WriterTypeOK, thread
    <3> QED
      BY <1>3, <1>4, <2>8, <3>2, TypeParts DEF SendClose
  <2>9. CASE Closed
    <3>1. WriterTypeOK'
      BY <1>1, <1>5, <2>9 DEF Closed, WriterTypeOK
    <3> QED
      BY <1>3, <1>4, <2>9, <3>1, TypeParts DEF Closed
  <2>10. CASE BeginMetrics
    <3>1. ReplayType'
      BY <1>1, <1>2, <2>10 DEF BeginMetrics, ReplayType
    <3> QED
      BY <1>3, <1>4, <2>10, <3>1, TypeParts DEF BeginMetrics
  <2>11. CASE EndMetrics
    <3>1. Cardinality(resumed) + Cardinality(played) = Games
      BY <2>11, AllGames DEF EndMetrics, IInv
    <3>2. ReplayType'
      BY <1>1, <1>2, <2>11, <3>1 DEF EndMetrics, ReplayType, Parameters
    <3>3. RunType'
      BY <1>1, <2>11 DEF EndMetrics, RunType, ends
    <3> QED
      BY <1>3, <2>11, <3>2, <3>3, TypeParts DEF EndMetrics
  <2>12. CASE SyncLedger
    <3>1. \A k \in Available : generated[k] \in 0..Games
      BY <1>1, <1>2, <2>12 DEF SyncLedger, Consistent, Available, ReplayType,
         WriterTypeOK, Ids, Absent, Part, Parameters
    <3>2. ReplayType'
      BY <1>1, <2>12, <3>1 DEF SyncLedger, ReplayType
    <3> QED
      BY <1>3, <1>4, <2>12, <3>2, TypeParts DEF SyncLedger
  <2>13. CASE SaveCandidate
    <3>2. Learner(iteration) \in Checkpoints
      BY <1>2, <2>13, LearnerType DEF SaveCandidate, IInv
    <3>3. Window \in SUBSET Ids
      BY <1>2, <2>13 DEF SaveCandidate, Window, Available, Ids, Parameters
    <3>4. TrainingType'
      BY <1>1, <1>2, <2>13, <3>2, <3>3 DEF SaveCandidate, TrainingType
    <3> QED
      BY <1>3, <1>4, <2>13, <3>4, TypeParts DEF SaveCandidate
  <2>14. CASE BeginTrained \/ EndTrained
    <3>1. TrainingType'
      BY <1>1, <1>2, <2>14 DEF BeginTrained, EndTrained, TrainingType
    <3> QED
      BY <1>3, <1>4, <2>14, <3>1, TypeParts DEF BeginTrained, EndTrained
  <2>15. ASSUME NEW passed \in BOOLEAN, Judge(passed) PROVE TypeOK'
    <3>1. currentBest \in Checkpoints
      BY <1>1, <2>15 DEF Judge, StrengthType, IInv, PromotionInv
    <3>2. StrengthType'
      BY <1>1, <1>2, <2>15, <3>1 DEF Judge, StrengthType
    <3> QED
      BY <1>3, <1>4, <2>15, <3>2, TypeParts DEF Judge
  <2>16. CASE ArchiveBest
    <3>1. Incumbent \in Checkpoints
      BY <2>16, IncumbentType DEF ArchiveBest, IInv
    <3>2. StrengthType'
      BY <1>1, <2>16, <3>1 DEF ArchiveBest, StrengthType
    <3> QED
      BY <1>3, <1>4, <2>16, <3>2, TypeParts DEF ArchiveBest
  <2>17. CASE InstallCandidate
    <3>1. StrengthType'
      BY <1>1, <1>2, <2>17 DEF InstallCandidate, StrengthType, Ids,
         Checkpoints,
         Parameters
    <3> QED
      BY <1>3, <1>4, <2>17, <3>1, TypeParts DEF InstallCandidate
  <2>18. CASE Register
    <3>1. Incumbent \in Checkpoints
      BY <2>18, IncumbentType DEF Register, IInv
    <3>2. league' \in Seq(Checkpoints)
      BY <1>1, <2>18, <3>1 DEF Register, StrengthType
    <3>3. StrengthType'
      BY <1>1, <2>18, <3>2 DEF Register, StrengthType
    <3> QED
      BY <1>3, <1>4, <2>18, <3>3, TypeParts DEF Register
  <2>19. CASE CompleteRecord
    <3>1. /\ iteration \in Ids
          /\ records[iteration] \in [status : {"installing", "complete"},
                                    promoted : BOOLEAN, incumbent : Checkpoints]
      BY <2>19, IncumbentType DEF CompleteRecord, IInv
    <3>2. PICK r : r = [records[iteration] EXCEPT !.status = "complete"]
      OBVIOUS
    <3>3. r \in [status : {"installing", "complete"}, promoted : BOOLEAN,
                incumbent : Checkpoints]
      BY <3>1, <3>2
    <3>4. records' = [records EXCEPT ![iteration] = r]
      BY <2>19, <3>2 DEF CompleteRecord
    <3>5. StrengthType'
      BY <1>1, <2>19, <3>1, <3>3, <3>4 DEF CompleteRecord, StrengthType
    <3> QED
      BY <1>3, <1>4, <2>19, <3>5, TypeParts DEF CompleteRecord
  <2>20. CASE BeginLine
    <3>1. LinesType'
      BY <1>1, <2>20 DEF BeginLine, LinesType
    <3> QED
      BY <1>3, <1>4, <2>20, <3>1, TypeParts DEF BeginLine
  <2>21. CASE EndLine
    <3>1. /\ progress' \in Seq(Ids)
          /\ iteration' \in 0..Iterations /\ stage' \in {"finished", "generate"}
      BY <2>21, NewLine DEF IInv, Ids, Parameters
    <3>2. LinesType'
      BY <2>21, <3>1 DEF EndLine, LinesType
    <3> QED
      BY <1>3, <1>4, <1>6, <2>21, <3>1, <3>2, TypeParts DEF EndLine
  <2> QED
    BY <1>8, <2>1, <2>2, <2>3, <2>4, <2>5, <2>6, <2>7, <2>8, <2>9, <2>10,
       <2>11, <2>12, <2>13, <2>14, <2>15, <2>16, <2>17, <2>18, <2>19, <2>20,
       <2>21 DEF Drive
<1>9. CASE WriterStep
  <2>1. UNCHANGED <<strength, replay, training, lines, stage, running, ends>>
    BY <1>9 DEF WriterStep
  <2>2. WriterTypeOK'
    <3>1. CASE Discard \/ Collect \/ TakeClose
      <4>1. /\ queue # <<>> /\ queue' = Tail(queue)
            /\ UNCHANGED <<shards, iteration, admitted, index, failure, reply,
                           faults>>
            /\ writer' \in {"ready", "flushing", "ending"}
            /\ \/ held' = held
               \/ Head(queue) # Close /\ held' = held \cup {Head(queue)}
        BY <3>1 DEF Discard, Collect, TakeClose, thread
      <4>2. Head(queue) \in Seeds \cup {Close}
        BY <1>1, <4>1 DEF WriterTypeOK
      <4>3. queue' \in Seq(Seeds \cup {Close}) /\ Len(queue') <= QueueGames
        BY <1>1, <4>1 DEF WriterTypeOK, Parameters
      <4> QED
        BY <1>1, <4>1, <4>2, <4>3 DEF WriterTypeOK
    <3>2. CASE Flush \/ EndWithShard
      <4>1. /\ WriteShard /\ held # {} /\ stage \in Playing
            /\ writer' \in {"ready", "gone"} /\ reply' \in {reply, "ok"}
        BY <3>2 DEF Flush, EndWithShard, IInv, PlaceInv, WriterInv, NoWriter
      <4>2. /\ shards' \in [Ids -> Seq((SUBSET Seeds) \ {{}})]
            /\ index' \in 1..Games + 1 /\ iteration' = iteration
        BY <4>1, OneShard DEF IInv
      <4> QED
        BY <1>1, <4>1, <4>2 DEF WriteShard, WriterTypeOK, Ids
    <3>3. CASE FlushFails \/ EndWithNothing \/ EndInError \/ EndFails
      <4>1. /\ UNCHANGED <<shards, iteration, queue, admitted, held, index>>
            /\ failure' \in {failure, TRUE} /\ writer' \in {"ready", "gone"}
            /\ reply' \in {reply, "ok", "error"}
            /\ faults' = faults \/ (faults < MaxFaults /\ faults' = faults + 1)
        BY <3>3 DEF FlushFails, EndWithNothing, EndInError, EndFails
      <4>2. faults' \in 0..MaxFaults
        BY <1>1, <4>1 DEF WriterTypeOK, Parameters
      <4> QED
        BY <1>1, <4>1, <4>2 DEF WriterTypeOK
    <3> QED
      BY <1>9, <3>1, <3>2, <3>3 DEF WriterStep, Write
  <2> QED
    BY <1>1, <1>3, <1>4, <2>1, <2>2, TypeParts DEF RunType
<1>10. CASE Crash
  <2>1. /\ Forget /\ refused' \in BOOLEAN
        /\ UNCHANGED <<shards, faults, strength, replay, training, lines>>
    BY <1>10 DEF Crash
  <2>2. deaths' \in 0..MaxDeaths
    BY <1>1, <1>10 DEF Crash, RunType, Parameters
  <2> QED
    BY <1>7, <2>1, <2>2
<1>11. CASE Interrupt
  <2>1. RunType'
    BY <1>1, <1>11 DEF Interrupt, EndPlay, RunType, Playing, Parameters
  <2> QED
    BY <1>3, <1>11, <2>1, TypeParts DEF Interrupt, EndPlay
<1>12. CASE UNCHANGED vars
  BY <1>1, <1>3, <1>4, <1>12, TypeParts DEF vars, RunType
<1> QED
  BY <1>8, <1>9, <1>10, <1>11, <1>12 DEF Next

----------------------------------------------------------------------------
(* The kinds of step there are, by what they do to the process: it ends,   *)
(* it goes on to another file, or it has to do with games on their way.    *)

Ended ==
    /\ Forget
    /\ UNCHANGED <<shards, strength, replay, training, lines>>

Passes ==
    /\ UNCHANGED <<writerVars, running, ends, progress>>
    /\ {stage, stage'} \cap (Idle \cup Playing \cup Measuring) = {}

LEMMA Kinds ==
  ASSUME IInv, [Next]_vars
  PROVE  \/ UNCHANGED vars
         \/ Ended
         \/ Passes
         \/ StartUp \/ Generate \/ (\E seed \in Seeds : EndGame(seed)) \/ Send
         \/ \E error \in BOOLEAN : EndPlay(error) /\ (error \/ Pending = {})
         \/ SendClose \/ Closed \/ BeginMetrics \/ EndMetrics \/ EndLine
         \/ WriterStep /\ stage \in Playing
<1>1. CASE StartRefused \/ GenerationRefused \/ TrainingRefused
           \/ InstallRefused \/ ReportRefused \/ ExitRaised \/ Crash
  BY <1>1 DEF StartRefused, GenerationRefused, TrainingRefused, InstallRefused,
     ReportRefused, ExitRaised, Crash, Refuse, Ended
<1>2. CASE SkipGeneration \/ FindAllGames \/ SkipTraining \/ SkipGate
           \/ Recover \/ BeginLine
  BY <1>2 DEF SkipGeneration, FindAllGames, SkipTraining, SkipGate, Recover,
     BeginLine, Goto, Passes, Idle, Playing, Measuring, lines
<1>3. CASE SyncLedger \/ SaveCandidate \/ BeginTrained \/ EndTrained
  BY <1>3 DEF SyncLedger, SaveCandidate, BeginTrained, EndTrained, Goto,
     Passes,
     Idle, Playing, Measuring, lines
<1>4. ASSUME NEW passed \in BOOLEAN, Judge(passed) PROVE Passes
  BY <1>4 DEF Judge, Goto, Passes, Idle, Playing, Measuring, lines
<1>5. CASE ArchiveBest \/ InstallCandidate \/ Register \/ CompleteRecord
  BY <1>5 DEF ArchiveBest, InstallCandidate, Register, CompleteRecord, Goto,
     Passes, Idle, Playing, Measuring, lines
<1>6. CASE AllPlayed \/ AddRaises \/ Interrupt
  BY <1>6 DEF AllPlayed, AddRaises, Interrupt
<1>7. CASE WriterStep
  BY <1>7 DEF WriterStep, Write, Discard, Collect, TakeClose, Flush,
     FlushFails,
     EndWithShard, EndWithNothing, EndInError, EndFails, IInv, PlaceInv, NoWriter
<1> QED
  BY <1>1, <1>2, <1>3, <1>4, <1>5, <1>6, <1>7 DEF Next, Drive

(* What a step does to the files, when it neither ends the process nor has *)
(* to do with games on their way.                                          *)
LEMMA Works ==
  ASSUME IInv, Next
  PROVE  \/ Ended
         \/ SkipGeneration \/ FindAllGames
         \/ SkipTraining \/ SkipGate \/ Recover \/ BeginLine
         \/ SyncLedger \/ SaveCandidate \/ BeginTrained \/ EndTrained
         \/ (\E passed \in BOOLEAN : Judge(passed)) \/ CompleteRecord
         \/ ArchiveBest \/ InstallCandidate \/ Register
         \/ StartUp \/ Generate \/ (\E seed \in Seeds : EndGame(seed)) \/ Send
         \/ (\E error \in BOOLEAN : EndPlay(error)) \/ SendClose \/ Closed
         \/ BeginMetrics \/ EndMetrics \/ EndLine
         \/ WriterStep /\ stage \in Playing
<1>1. CASE StartRefused \/ GenerationRefused \/ TrainingRefused
           \/ InstallRefused \/ ReportRefused \/ ExitRaised \/ Crash
  BY <1>1 DEF StartRefused, GenerationRefused, TrainingRefused, InstallRefused,
     ReportRefused, ExitRaised, Crash, Refuse, Ended
<1>2. CASE AllPlayed \/ AddRaises \/ Interrupt
  BY <1>2 DEF AllPlayed, AddRaises, Interrupt
<1>3. CASE WriterStep
  BY <1>3 DEF WriterStep, Write, Discard, Collect, TakeClose, Flush,
     FlushFails,
     EndWithShard, EndWithNothing, EndInError, EndFails, IInv, PlaceInv, NoWriter
<1> QED
  BY <1>1, <1>2, <1>3 DEF Next, Drive

LEMMA PlaceStep ==
  ASSUME Parameters, IInv, [Next]_vars
  PROVE  PlaceInv'
<1> USE DEF Idle, Playing, Measuring
<1>1. TypeOK /\ PlaceInv /\ TypeOK'
  BY TypeStep DEF IInv
<1>2. CASE UNCHANGED vars
  BY <1>1, <1>2 DEF vars, PlaceInv, NoWriter, Now, writerVars, thread, lines,
     running
<1>3. CASE Ended
  BY <1>1, <1>3 DEF Ended, Forget, WriterDies, PlaceInv, NoWriter, Now, lines
<1>4. CASE Passes
  BY <1>1, <1>4 DEF Passes, PlaceInv, NoWriter, Now, writerVars, thread,
     running
<1>5. CASE StartUp
  <2>1. /\ progress \in Seq(Ids) /\ Len(progress) <= Iterations
        /\ \A k \in DOMAIN progress : progress[k] = k
        /\ Proceed(progress) /\ progress' = progress
    BY <1>1, <1>5 DEF StartUp, TypeOK, PlaceInv, lines
  <2>2. \/ stage' = "finished" /\ iteration' = 0 /\ Len(progress) = Iterations
        \/ stage' = "generate" /\ iteration' = Now /\ Now \in Ids
    BY <2>1, NextIteration DEF Now
  <2> QED
    BY <1>1, <1>5, <2>1, <2>2 DEF StartUp, PlaceInv, NoWriter, Now, thread,
       running
<1>6. CASE Generate
  BY <1>1, <1>6 DEF Generate, PlaceInv, Now, lines
<1>7. ASSUME NEW seed \in Seeds, EndGame(seed) PROVE PlaceInv'
  BY <1>1, <1>7 DEF EndGame, PlaceInv, Now, lines, Seeds
<1>8. CASE Send
  BY <1>1, <1>8 DEF Send, PlaceInv, Now, lines
<1>9. ASSUME NEW error \in BOOLEAN, EndPlay(error) PROVE PlaceInv'
  BY <1>1, <1>9 DEF EndPlay, PlaceInv, Now, lines, writerVars
<1>10. CASE SendClose
  BY <1>1, <1>10 DEF SendClose, PlaceInv, Now, lines, running
<1>11. CASE Closed
  BY <1>1, <1>11 DEF Closed, WriterDies, NoWriter, PlaceInv, Now, lines,
     running
<1>12. CASE BeginMetrics
  BY <1>1, <1>12 DEF BeginMetrics, Goto, NoWriter, PlaceInv, Now, lines,
     running,
     writerVars, thread
<1>13. CASE EndMetrics
  BY <1>1, <1>13 DEF EndMetrics, NoWriter, PlaceInv, Now, lines, writerVars,
     thread
<1>14. CASE EndLine
  <2>1. /\ \A k \in DOMAIN progress' : progress'[k] = k
        /\ Len(progress') <= Iterations
        /\ \/ stage' = "finished" /\ iteration' = 0 /\ Len(progress') = Iterations
           \/ stage' = "generate" /\ iteration' = Now' /\ Now' \in Ids
    BY <1>1, <1>14, NewLine DEF Now, Ids
  <2> QED
    BY <1>1, <1>14, <2>1 DEF EndLine, NoWriter, PlaceInv, thread, running
<1>15. CASE WriterStep /\ stage \in Playing
  <2>1. /\ UNCHANGED <<progress, stage, iteration, resumed, played, holding,
                       raised>>
    BY <1>15 DEF WriterStep, lines, running, Write, Discard, Collect,
       TakeClose,
       Flush, FlushFails, EndWithShard, EndWithNothing, EndInError, EndFails,
       WriteShard
  <2> QED
    BY <1>1, <1>15, <2>1 DEF PlaceInv, Now
<1> QED
  BY <1>2, <1>3, <1>4, <1>5, <1>6, <1>7, <1>8, <1>9, <1>10, <1>11, <1>12, <1>13,
     <1>14, <1>15, Kinds

----------------------------------------------------------------------------
(* The channel, and the games on their way.                                *)

LEMMA Taken ==
  ASSUME TypeOK, WriterInv, queue # <<>>, queue' = Tail(queue)
  PROVE  /\ Queued' = Queued \ {Head(queue)}
         /\ Head(queue) # Close => Head(queue) \in Queued
         /\ Head(queue) = Close => queue' = <<>>
         /\ \A k, n \in DOMAIN queue' : queue'[k] = queue'[n] => k = n
         /\ \A k \in DOMAIN queue' : queue'[k] = Close =>
                k = Len(queue') /\ \E n \in DOMAIN queue : queue[n] = Close
<1>1. /\ queue \in Seq(Seeds \cup {Close}) /\ DOMAIN queue = 1..Len(queue)
      /\ Len(queue) \in Nat \ {0}
  BY DEF TypeOK, WriterTypeOK
<1>2. /\ Head(queue) = queue[1] /\ Len(queue') = Len(queue) - 1
      /\ DOMAIN queue' = 1..Len(queue) - 1
      /\ \A k \in 1..Len(queue) - 1 : queue'[k] = queue[k + 1]
  BY <1>1
<1>3. \A k \in 2..Len(queue) : queue[k] # queue[1]
  BY <1>1 DEF WriterInv
<1>4. \A k \in 2..Len(queue) : k - 1 \in DOMAIN queue' /\ queue'[k - 1] = queue[k]
  BY <1>1, <1>2
<1>5. Queued' = Queued \ {Head(queue)}
  <2>1. \A x \in Queued' : x \in Queued /\ x # Head(queue)
    BY <1>1, <1>2, <1>3 DEF Queued
  <2>2. \A x \in Queued : x # Head(queue) => x \in Queued'
    <3> SUFFICES ASSUME NEW k \in DOMAIN queue, queue[k] # Close, k # 1
                 PROVE  queue[k] \in Queued'
      BY <1>2 DEF Queued
    <3>1. k - 1 \in DOMAIN queue' /\ queue'[k - 1] = queue[k]
      BY <1>1, <1>4
    <3> QED
      BY <3>1 DEF Queued
  <2> QED
    BY <2>1, <2>2
<1>6. Head(queue) # Close => Head(queue) \in Queued
  BY <1>1, <1>2 DEF Queued
<1>7. ASSUME Head(queue) = Close PROVE queue' = <<>>
  <2>1. Len(queue) = 1
    BY <1>1, <1>2, <1>7 DEF WriterInv
  <2> QED
    BY <1>1, <1>2, <2>1
<1>8. \A k, n \in DOMAIN queue' : queue'[k] = queue'[n] => k = n
  BY <1>1, <1>2 DEF WriterInv
<1>9. \A k \in DOMAIN queue' : queue'[k] = Close =>
         k = Len(queue') /\ \E n \in DOMAIN queue : queue[n] = Close
  <2> SUFFICES ASSUME NEW k \in DOMAIN queue', queue'[k] = Close
               PROVE  k = Len(queue') /\ \E n \in DOMAIN queue : queue[n] = Close
    OBVIOUS
  <2>1. k + 1 \in DOMAIN queue /\ queue[k + 1] = Close
    BY <1>1, <1>2
  <2>2. k + 1 = Len(queue)
    BY <2>1 DEF WriterInv
  <2> QED
    BY <1>1, <1>2, <2>1, <2>2
<1> QED
  BY <1>5, <1>6, <1>7, <1>8, <1>9

LEMMA Put ==
  ASSUME TypeOK, WriterInv, stage # "await", NEW x \in Seeds \cup {Close},
         x \notin Queued, queue' = Append(queue, x)
  PROVE  /\ Queued' = Queued \cup ({x} \ {Close})
         /\ \A k, n \in DOMAIN queue' : queue'[k] = queue'[n] => k = n
         /\ \A k \in DOMAIN queue' : queue'[k] = Close => k = Len(queue') /\ x = Close
<1>1. /\ queue \in Seq(Seeds \cup {Close}) /\ DOMAIN queue = 1..Len(queue)
      /\ Len(queue) \in Nat
  BY DEF TypeOK, WriterTypeOK
<1>2. /\ Len(queue') = Len(queue) + 1 /\ DOMAIN queue' = 1..Len(queue) + 1
      /\ queue'[Len(queue) + 1] = x
      /\ \A k \in 1..Len(queue) : queue'[k] = queue[k]
  BY <1>1, AppendProperties
<1>3. \A k \in 1..Len(queue) : queue[k] # Close
  BY <1>1 DEF WriterInv
<1>4. \A k \in 1..Len(queue) : queue[k] # x
  BY <1>1, <1>3 DEF Queued
<1>5. Queued' = Queued \cup ({x} \ {Close})
  BY <1>1, <1>2, <1>3 DEF Queued
<1>6. \A k, n \in 1..Len(queue) + 1 : queue'[k] = queue'[n] => k = n
  BY <1>1, <1>2, <1>4 DEF WriterInv
<1> QED
  BY <1>1, <1>2, <1>3, <1>5, <1>6

LEMMA WriterInvStep ==
  ASSUME Parameters, IInv, [Next]_vars
  PROVE  WriterInv'
<1> USE DEF Idle, Playing, Measuring
<1>1. TypeOK /\ PlaceInv /\ GamesInv /\ WriterInv /\ TypeOK' /\ PlaceInv'
  BY TypeStep, PlaceStep DEF IInv
<1>2. stage' \notin Playing => WriterInv'
  BY <1>1 DEF PlaceInv, NoWriter, WriterInv
<1>3. CASE UNCHANGED vars
  BY <1>1, <1>3 DEF vars, WriterInv, writerVars, thread
<1>4. CASE Ended \/ Passes \/ StartUp \/ Closed \/ BeginMetrics \/ EndMetrics
           \/ EndLine
  <2>1. stage' \notin Playing
    BY <1>1, <1>4, NextIteration DEF Ended, Forget, Passes, StartUp, Proceed,
       Closed,
       BeginMetrics, Goto, EndMetrics, EndLine
  <2> QED
    BY <1>2, <2>1
<1>5. CASE Generate
  BY <1>1, <1>5 DEF Generate, Open, PlaceInv, NoWriter, WriterInv
<1>6. ASSUME NEW seed \in Seeds, EndGame(seed) PROVE WriterInv'
  BY <1>1, <1>6 DEF EndGame, thread, WriterInv
<1>7. CASE Send
  <2>1. holding \in Seeds /\ holding \notin Queued /\ holding # Close
    BY <1>1, <1>7 DEF Send, TypeOK, PlaceInv, GamesInv, Waits, Close
  <2>2. /\ \A k, n \in DOMAIN queue' : queue'[k] = queue'[n] => k = n
        /\ \A k \in DOMAIN queue' : queue'[k] # Close
    BY <1>1, <1>7, <2>1, Put DEF Send
  <2> QED
    BY <1>1, <1>7, <2>2 DEF Send, thread, WriterInv
<1>8. ASSUME NEW error \in BOOLEAN, EndPlay(error) PROVE WriterInv'
  BY <1>1, <1>8 DEF EndPlay, writerVars, thread, WriterInv
<1>9. CASE SendClose
  <2>1. Close \notin Queued
    BY DEF Queued
  <2>2. /\ \A k, n \in DOMAIN queue' : queue'[k] = queue'[n] => k = n
        /\ \A k \in DOMAIN queue' : queue'[k] = Close => k = Len(queue')
    BY <1>1, <1>9, <2>1, Put DEF SendClose
  <2> QED
    BY <1>1, <1>9, <2>2 DEF SendClose, thread, WriterInv
<1>10. CASE WriterStep /\ stage \in Playing
  <2>1. stage' = stage /\ Write
    BY <1>10 DEF WriterStep
  <2>2. CASE Discard \/ Collect \/ TakeClose
    <3>1. queue # <<>> /\ queue' = Tail(queue)
      BY <2>2 DEF Discard, Collect, TakeClose
    <3>2. /\ Head(queue) = Close => queue' = <<>> /\ stage = "await"
          /\ \A k, n \in DOMAIN queue' : queue'[k] = queue'[n] => k = n
          /\ \A k \in DOMAIN queue' : queue'[k] = Close =>
                k = Len(queue') /\ stage = "await"
      <4>1. Head(queue) = Close => \E n \in DOMAIN queue : queue[n] = Close
        BY <1>1, <3>1 DEF TypeOK, WriterTypeOK
      <4> QED
        BY <1>1, <3>1, <4>1, Taken DEF WriterInv
    <3>3. CASE Discard
      BY <1>1, <1>10, <2>1, <3>2, <3>3 DEF Discard, thread, WriterInv
    <3>4. CASE Collect
      <4>1. held' # {}
        BY <3>4 DEF Collect
      <4> QED
        BY <1>1, <1>10, <2>1, <3>2, <3>4, <4>1 DEF Collect, WriterInv
    <3>5. CASE TakeClose
      BY <1>1, <1>10, <2>1, <3>2, <3>5 DEF TakeClose, WriterInv
    <3> QED
      BY <2>2, <3>3, <3>4, <3>5
  <2>3. CASE Flush \/ FlushFails \/ EndWithShard \/ EndWithNothing
             \/ EndInError \/ EndFails
    BY <1>1, <1>10, <2>1, <2>3 DEF Flush, FlushFails, EndWithShard,
       EndWithNothing, EndInError, EndFails, WriteShard, WriterInv
  <2> QED
    BY <2>1, <2>2, <2>3 DEF Write
<1> QED
  BY <1>3, <1>4, <1>5, <1>6, <1>7, <1>8, <1>9, <1>10, Kinds

LEMMA GamesStep ==
  ASSUME Parameters, IInv, [Next]_vars
  PROVE  GamesInv'
<1> USE DEF Idle, Playing, Measuring
<1>1. /\ TypeOK /\ PlaceInv /\ FilesInv /\ GamesInv /\ WriterInv
      /\ TypeOK' /\ PlaceInv'
  BY TypeStep, PlaceStep DEF IInv
<1>2. ASSUME shards' = shards
      PROVE  \A i \in Ids : Disjoint(i)' /\ Content(i)' = Content(i)
  BY <1>1, <1>2 DEF GamesInv, Disjoint, Content
<1>3. ASSUME shards' = shards, stage' \notin Playing \cup Measuring
      PROVE  GamesInv'
  BY <1>1, <1>2, <1>3 DEF GamesInv, PlaceInv
<1>4. CASE UNCHANGED vars
  BY <1>1, <1>2, <1>4 DEF vars, writerVars, thread, running, GamesInv,
     PlaceInv,
     Known, Queued, Waits
<1>5. CASE Ended \/ Passes \/ StartUp \/ EndMetrics \/ EndLine
  <2>1. shards' = shards /\ stage' \notin Playing \cup Measuring
    BY <1>1, <1>5, NextIteration DEF Ended, Forget, Passes, StartUp, Proceed,
       EndMetrics, EndLine, writerVars
  <2> QED
    BY <1>3, <2>1
<1>6. CASE Generate
  <2>1. /\ shards' = shards /\ iteration' = iteration /\ iteration \in Ids
        /\ stage' = "play" /\ queue' = <<>> /\ held' = {} /\ holding' = 0
        /\ admitted' = Content(iteration) /\ resumed' = Content(iteration)
        /\ played' = {} /\ index' = Len(shards[iteration]) + 1
        /\ raised' = FALSE
    BY <1>1, <1>6 DEF Generate, Open, PlaceInv, NoWriter
  <2>2. /\ Queued' = {} /\ Waits' = {} /\ Known' = Content(iteration)
        /\ Content(iteration)' = Content(iteration)
    BY <1>2, <2>1 DEF Queued, Waits, Known
  <2> QED
    BY <1>2, <2>1, <2>2 DEF GamesInv
<1>7. ASSUME NEW seed \in Seeds, EndGame(seed) PROVE GamesInv'
  <2>1. /\ shards' = shards /\ iteration' = iteration /\ stage' = "send"
        /\ queue' = queue /\ held' = held /\ holding' = seed /\ index' = index
        /\ failure' = failure /\ resumed' = resumed /\ raised' = raised
        /\ admitted' = admitted \cup {seed} /\ played' = played \cup {seed}
        /\ seed \notin Known /\ stage = "play"
    BY <1>7 DEF EndGame, Pending, thread, Known
  <2>2. /\ Queued' = Queued /\ Waits' = {seed} /\ Waits = {}
        /\ Known' = Known \cup {seed} /\ iteration \in Ids
    BY <1>1, <2>1, SeedFacts DEF Queued, Waits, Known, PlaceInv
  <2>3. Content(iteration)' = Content(iteration)
    BY <1>2, <2>1, <2>2
  <2> QED
    BY <1>1, <1>2, <2>1, <2>2, <2>3 DEF GamesInv, Known
<1>8. CASE Send
  <2>1. /\ shards' = shards /\ iteration' = iteration /\ stage' = "play"
        /\ queue' = Append(queue, holding) /\ held' = held /\ holding' = 0
        /\ index' = index /\ failure' = failure /\ raised' = raised
        /\ admitted' = admitted /\ resumed' = resumed /\ played' = played
        /\ stage = "send"
    BY <1>8 DEF Send, thread
  <2>2. /\ holding \in Seeds /\ Waits = {holding} /\ holding # Close
        /\ holding \notin Queued /\ iteration \in Ids
    BY <1>1, <2>1 DEF TypeOK, PlaceInv, GamesInv, Waits, Close
  <2>3. /\ Queued' = Queued \cup {holding} /\ Waits' = {} /\ Known' = Known
    BY <1>1, <2>1, <2>2, Put DEF Waits, Known
  <2>4. Content(iteration)' = Content(iteration)
    BY <1>2, <2>1, <2>2
  <2> QED
    BY <1>1, <1>2, <2>1, <2>2, <2>3, <2>4 DEF GamesInv
<1>9. ASSUME NEW error \in BOOLEAN, EndPlay(error), error \/ Pending = {}
      PROVE  GamesInv'
  <2>1. /\ UNCHANGED <<shards, iteration, queue, held, holding, index, failure,
                       admitted, resumed, played>>
        /\ stage = "play" /\ stage' = "close" /\ raised' = error
    BY <1>9 DEF EndPlay, writerVars, thread
  <2>2. /\ Queued' = Queued /\ Waits' = Waits /\ Known' = Known
        /\ iteration \in Ids /\ Known \in SUBSET Seeds
    BY <1>1, <2>1 DEF Queued, Waits, Known, PlaceInv, TypeOK
  <2>3. Content(iteration)' = Content(iteration)
    BY <1>2, <2>1, <2>2
  <2>4. ~error => Known = Seeds
    BY <1>9, <2>2 DEF Pending, Known
  <2> QED
    BY <1>1, <1>2, <2>1, <2>2, <2>3, <2>4 DEF GamesInv
<1>10. CASE SendClose
  <2>1. /\ UNCHANGED <<shards, iteration, held, holding, index, failure,
                       admitted, resumed, played, raised>>
        /\ stage = "close" /\ stage' = "await" /\ queue' = Append(queue, Close)
    BY <1>10 DEF SendClose, thread, running
  <2>2. Close \notin Queued
    BY DEF Queued
  <2>3. /\ Queued' = Queued /\ Waits' = Waits /\ Known' = Known
        /\ iteration \in Ids
    BY <1>1, <2>1, <2>2, Put DEF Waits, Known, PlaceInv
  <2>4. Content(iteration)' = Content(iteration)
    BY <1>2, <2>1, <2>3
  <2> QED
    BY <1>1, <1>2, <2>1, <2>3, <2>4 DEF GamesInv
<1>11. CASE Closed \/ BeginMetrics
  <2>1. /\ shards' = shards /\ resumed' = resumed /\ played' = played
        /\ stage' \in Measuring /\ Known = Seeds
    BY <1>1, <1>11 DEF Closed, BeginMetrics, Goto, running, writerVars,
       GamesInv
  <2> QED
    BY <1>1, <1>2, <2>1 DEF GamesInv, Known
<1>12. CASE WriterStep /\ stage \in Playing
  <2>1. /\ UNCHANGED <<stage, resumed, played, holding, raised, iteration,
                       admitted>>
        /\ Waits' = Waits /\ Known' = Known /\ Write
    BY <1>12 DEF WriterStep, running, Write, Discard, Collect, TakeClose,
       Flush,
       FlushFails, EndWithShard, EndWithNothing, EndInError, EndFails,
       WriteShard, Known, Waits
  <2>2. iteration \in Ids
    BY <1>1, <1>12 DEF PlaceInv
  <2> DEFINE written == Content(iteration)
  <2>0. /\ admitted = Known /\ resumed \subseteq written
        /\ index = Len(shards[iteration]) + 1
        /\ written \cap held = {} /\ written \cap Queued = {}
        /\ written \cap Waits = {} /\ held \cap Queued = {}
        /\ held \cap Waits = {} /\ Queued \cap Waits = {}
        /\ written \cup held \cup Queued \cup Waits \subseteq Known
        /\ ~failure => Known \subseteq written \cup held \cup Queued \cup Waits
    BY <1>1, <1>12 DEF GamesInv
  <2>7. ASSUME \A i \in Ids : Disjoint(i)',
               index' = Len(shards'[iteration]) + 1,
               resumed \subseteq written',
               written' \cap held' = {}, written' \cap Queued' = {},
               written' \cap Waits = {}, held' \cap Queued' = {},
               held' \cap Waits = {}, Queued' \cap Waits = {},
               written' \cup held' \cup Queued' \cup Waits \subseteq Known,
               ~failure' =>
                 Known \subseteq written' \cup held' \cup Queued' \cup Waits
        PROVE  GamesInv'
    <3>1. resumed' \cap played' = {}
      BY <1>1, <2>1 DEF GamesInv
    <3>2. stage' \in Measuring \/ (stage' \in {"close", "await"} /\ ~raised') =>
            Known' = Seeds
      BY <1>1, <2>1 DEF GamesInv
    <3> QED
      BY <1>12, <2>0, <2>1, <2>7, <3>1, <3>2 DEF GamesInv
  <2>3. CASE Discard \/ Collect \/ TakeClose
    <3>1. /\ queue # <<>> /\ queue' = Tail(queue) /\ shards' = shards
          /\ index' = index /\ failure' = failure
          /\ \/ held' = held /\ Head(queue) # Close /\ failure
             \/ held' = held \cup {Head(queue)} /\ Head(queue) # Close
             \/ held' = held /\ Head(queue) = Close
      BY <2>3 DEF Discard, Collect, TakeClose, thread
    <3>2. /\ Queued' = Queued \ {Head(queue)}
          /\ Head(queue) # Close => Head(queue) \in Queued
      BY <1>1, <3>1, Taken
    <3>3. written' = written /\ Close \notin Queued
      BY <1>2, <2>1, <2>2, <3>1 DEF Queued
    <3> HIDE DEF written
    <3> QED
      BY <1>2, <2>0, <2>2, <2>7, <3>1, <3>2, <3>3
  <2>4. CASE Flush \/ EndWithShard
    <3>1. held # {} /\ WriteShard
      BY <1>1, <1>12, <2>4 DEF Flush, EndWithShard, WriterInv
    <3>2. /\ \A i \in Ids \ {iteration} : shards'[i] = shards[i]
          /\ written' = written \cup held
          /\ Disjoint(iteration)' /\ index' = Len(shards'[iteration]) + 1
      BY <1>1, <1>12, <3>1, OneShard
    <3>3. \A i \in Ids : Disjoint(i)'
      <4>1. \A i \in Ids \ {iteration} : Disjoint(i)'
        BY <1>1, <3>2 DEF GamesInv, Disjoint
      <4>2. PICK n \in Ids : n = iteration /\ n = iteration'
        BY <2>1, <2>2
      <4>3. Disjoint(n)'
        BY <3>2, <4>2 DEF Disjoint
      <4> QED
        BY <4>1, <4>2, <4>3
    <3>4. Queued' = Queued /\ held' = {} /\ failure' = failure
      BY <3>1 DEF WriteShard, Queued
    <3> HIDE DEF written
    <3> QED
      BY <2>0, <2>7, <3>2, <3>3, <3>4
  <2>5. CASE FlushFails \/ EndWithNothing \/ EndInError \/ EndFails
    <3>1. /\ UNCHANGED <<shards, queue, held, index>>
          /\ failure' = failure \/ failure' = TRUE
      BY <2>5 DEF FlushFails, EndWithNothing, EndInError, EndFails
    <3>2. Queued' = Queued /\ written' = written
      BY <1>2, <2>1, <2>2, <3>1 DEF Queued
    <3> HIDE DEF written
    <3> QED
      BY <1>2, <2>0, <2>7, <3>1, <3>2
  <2> QED
    BY <2>1, <2>3, <2>4, <2>5 DEF Write
<1> QED
  BY <1>4, <1>5, <1>6, <1>7, <1>8, <1>9, <1>10, <1>11, <1>12, Kinds

----------------------------------------------------------------------------
(* The files of the iterations.                                            *)

(* What the files of one iteration say of each other, as long as nothing   *)
(* writes them and no line is added.                                       *)
LEMMA Kept ==
  ASSUME NEW i \in Ids, Filed(i), progress' = progress,
         shards'[i] = shards[i], manifests'[i] = manifests[i],
         generated'[i] = generated[i], ledgered'[i] = ledgered[i],
         candidates'[i] = candidates[i], trained'[i] = trained[i],
         records'[i] = records[i]
  PROVE  Filed(i)' /\ Content(i)' = Content(i)
BY DEF Filed, Untouched, Made, Content, Now

LEMMA FileFacts ==
  ASSUME Parameters, TypeOK, NEW i \in Ids, Filed(i)
  PROVE  /\ Content(i) \in SUBSET Seeds
         /\ generated[i] \in {Absent, Part, Games}
         /\ Content(i) = Seeds => shards[i] # <<>> /\ manifests[i] # NoManifest
         /\ GenerationComplete(i) <=> generated[i] = Games
<1>1. Content(i) \in SUBSET Seeds
  BY DEF TypeOK, WriterTypeOK, Content, Ids
<1>2. generated[i] \in {Absent, Part} \cup 0..Games
  BY DEF TypeOK
<1>3. generated[i] \in {Absent, Part, Games}
  BY <1>2 DEF Filed, Parameters
<1>4. Content(i) = Seeds => shards[i] # <<>>
  BY SeedFacts DEF Content
<1> QED
  BY <1>1, <1>3, <1>4 DEF Filed, GenerationComplete, Absent, Part, Parameters

LEMMA FilesStep ==
  ASSUME Parameters, IInv, [Next]_vars
  PROVE  FilesInv'
<1> USE DEF Idle, Playing, Measuring, Saving, Judged, Promoting, Goto
<1>1. /\ TypeOK /\ PlaceInv /\ FilesInv /\ GamesInv /\ WriterInv /\ PromotionInv
      /\ TypeOK' /\ PlaceInv'
  BY TypeStep, PlaceStep DEF IInv
<1>2. stage \notin Idle => iteration \in Ids /\ iteration = Now
  BY <1>1 DEF PlaceInv
<1>3. \A i \in Ids :
        /\ Filed(i) /\ Content(i) \in SUBSET Seeds
        /\ generated[i] \in {Absent, Part, Games}
        /\ Content(i) = Seeds => shards[i] # <<>> /\ manifests[i] # NoManifest
        /\ GenerationComplete(i) <=> generated[i] = Games
  BY <1>1, FileFacts DEF FilesInv
<1>4. ASSUME UNCHANGED <<shards, strength, replay, training, progress>>
      PROVE  /\ \A i \in Ids : Filed(i)' /\ Content(i)' = Content(i)
             /\ stage' \in Idle \cup {"generate"} => FilesInv'
  <2>1. ASSUME NEW i \in Ids PROVE Filed(i)' /\ Content(i)' = Content(i)
    <3>1. Filed(i)
      BY <1>3
    <3>2. /\ progress' = progress
          /\ shards'[i] = shards[i] /\ manifests'[i] = manifests[i]
          /\ generated'[i] = generated[i] /\ ledgered'[i] = ledgered[i]
          /\ candidates'[i] = candidates[i] /\ trained'[i] = trained[i]
          /\ records'[i] = records[i]
      BY <1>4 DEF strength, replay, training
    <3> QED
      BY <3>1, <3>2, Kept
  <2> QED
    BY <2>1 DEF FilesInv
<1>5. ASSUME UNCHANGED <<shards, strength, replay, training, progress>>, AtWork'
      PROVE  FilesInv'
  BY <1>4, <1>5 DEF FilesInv
<1>6. ASSUME NEW n \in Ids, progress' = progress, Filed(n)', AtWork',
             \A i \in Ids \ {n} :
                /\ shards'[i] = shards[i] /\ manifests'[i] = manifests[i]
                /\ generated'[i] = generated[i] /\ ledgered'[i] = ledgered[i]
                /\ candidates'[i] = candidates[i] /\ trained'[i] = trained[i]
                /\ records'[i] = records[i]
      PROVE  FilesInv'
  <2>1. \A i \in Ids \ {n} : Filed(i)'
    BY <1>3, <1>6, Kept
  <2> QED
    BY <1>6, <2>1 DEF FilesInv
<1>7. stage \notin Idle \cup {"generate"} => AtWork
  BY <1>1 DEF FilesInv
<1>8. CASE UNCHANGED vars
  <2>1. UNCHANGED <<shards, strength, replay, training, progress, stage, iteration>>
    BY <1>8 DEF vars, writerVars, lines
  <2>2. stage \notin Idle \cup {"generate"} => AtWork'
    BY <1>2, <1>4, <1>7, <2>1 DEF AtWork, Readable, Made, replay, training
  <2> QED
    BY <1>4, <1>5, <2>1, <2>2
<1>9. CASE Ended
  BY <1>4, <1>9 DEF Ended, Forget, lines
<1>10. CASE StartUp
  <2>1. /\ UNCHANGED <<shards, archive, league, records, replay, training, progress>>
        /\ stage' \in Idle \cup {"generate"}
    BY <1>10 DEF StartUp, Proceed, lines
  <2>2. \A i \in Ids : Filed(i)'
    BY <1>3, <2>1, Kept DEF replay, training
  <2> QED
    BY <2>1, <2>2 DEF FilesInv
<1>11. CASE Generate
  <2>1. PICK n \in Ids : n = iteration /\ n = iteration' /\ n = Now
    BY <1>2, <1>11 DEF Generate
  <2>2. /\ ~GenerationComplete(n) /\ generated[n] # Part /\ Content(n) # Seeds
    BY <1>11, <2>1 DEF Generate, Resumable
  <2>3. generated[n] = Absent /\ ~Made(n)
    BY <1>3, <2>2 DEF Filed
  <2>4. manifests' = [manifests EXCEPT ![n] = Identity(n)] /\ Identity(n) # NoManifest
    <3>1. Identity(n).learner \in Checkpoints
      BY <1>1, <1>11, <2>1, IdentityType DEF Generate
    <3>2. Identity(n).learner # NoManifest.learner
      BY <3>1 DEF NoManifest, Absent, Checkpoints
    <3> QED
      BY <1>11, <2>1, <3>2 DEF Generate
  <2>5. /\ UNCHANGED <<shards, generated, ledgered, candidates, trained, records,
                       progress>>
        /\ stage' = "play"
        /\ manifests'[n] # NoManifest
        /\ \A i \in Ids \ {n} : manifests'[i] = manifests[i]
    <3>1. manifests \in [Ids -> {NoManifest} \cup
             [learner : Checkpoints, best : Checkpoints, pool : SUBSET Checkpoints]]
      BY <1>1 DEF TypeOK
    <3> QED
      BY <1>11, <2>4, <3>1 DEF Generate, strength, training, lines
  <2>6. Filed(n)'
    <3>1. /\ Filed(n) /\ n = Now' /\ Now' \in Int
          /\ Content(n)' = Content(n) /\ (Made(n)' <=> Made(n))
      BY <1>1, <1>3, <2>1, <2>5 DEF Content, Made, Now, Ids, TypeOK
    <3>2. ~(n > Now') /\ ~(n < Now')
      BY <3>1
    <3> QED
      BY <2>5, <3>1, <3>2 DEF Filed
  <2>7. AtWork'
    BY <2>1, <2>3, <2>5 DEF AtWork, Made, Absent, Part
  <2> QED
    BY <1>6, <2>5, <2>6, <2>7
<1>12. CASE \/ (\E seed \in Seeds : EndGame(seed)) \/ Send \/ SendClose
            \/ \E error \in BOOLEAN : EndPlay(error)
  <2>1. /\ UNCHANGED <<shards, strength, replay, training, progress, iteration>>
        /\ stage \in Playing /\ stage' \in Playing
    BY <1>12 DEF EndGame, Send, SendClose, EndPlay, lines, writerVars
  <2>2. AtWork'
    BY <1>7, <2>1 DEF AtWork, Made, replay, training
  <2> QED
    BY <1>5, <2>1, <2>2
<1>13. CASE Closed
  <2>1. /\ UNCHANGED <<shards, strength, replay, training, progress, iteration>>
        /\ stage = "await" /\ stage' = "metrics" /\ reply = "ok" /\ ~raised
    BY <1>13 DEF Closed, lines
  <2>2. /\ held = {} /\ ~failure /\ queue = <<>> /\ Waits = {} /\ Known = Seeds
    BY <1>1, <2>1 DEF WriterInv, PlaceInv, GamesInv, Waits
  <2>3. Queued = {}
    BY <2>2 DEF Queued
  <2>4. Content(iteration) = Seeds
    BY <1>1, <1>2, <1>3, <2>1, <2>2, <2>3 DEF GamesInv
  <2>5. PICK n \in Ids : n = iteration /\ n = iteration'
    BY <1>2, <2>1
  <2>6. Content(n)' = Seeds
    BY <1>4, <2>1, <2>4, <2>5
  <2>7. AtWork'
    BY <1>7, <2>1, <2>5, <2>6 DEF AtWork, Made, Content, replay, training
  <2> QED
    BY <1>5, <2>1, <2>7
<1>14. CASE BeginMetrics \/ EndMetrics
  <2>1. PICK n \in Ids : n = iteration /\ n = iteration'
    BY <1>2, <1>14 DEF BeginMetrics, EndMetrics, writerVars
  <2>2. /\ UNCHANGED <<shards, manifests, ledgered, candidates, trained, records,
                       progress>>
        /\ \/ stage = "metrics" /\ stage' = "end_metrics" /\ generated'[n] = Part
           \/ stage = "end_metrics" /\ stage' = "train" /\ generated'[n] = Games
        /\ \A i \in Ids \ {n} : generated'[i] = generated[i]
    <3>1. CASE BeginMetrics
      BY <1>1, <2>1, <3>1 DEF BeginMetrics, strength, training, lines,
         writerVars, TypeOK
    <3>2. CASE EndMetrics
      BY <1>1, <2>1, <3>2, AllGames DEF EndMetrics, strength, training, lines,
         writerVars, TypeOK
    <3> QED
      BY <1>14, <3>1, <3>2
  <2>3. /\ Filed(n) /\ Content(n)' = Content(n) /\ Content(n) = Seeds /\ ~Made(n)
        /\ manifests[n] # NoManifest /\ generated[n] # Games /\ n = Now
    BY <1>2, <1>3, <1>7, <2>1, <2>2 DEF AtWork, Content, Absent, Part,
       Parameters
  <2>4. Filed(n)'
    BY <2>2, <2>3 DEF Filed, Untouched, Made, Now, Part, Absent, Parameters
  <2>5. AtWork'
    BY <2>1, <2>2, <2>3 DEF AtWork, Made, Part, Content, Parameters
  <2> QED
    BY <1>6, <2>2, <2>4, <2>5
<1>15. CASE SkipGeneration \/ FindAllGames
  <2>1. /\ UNCHANGED <<shards, strength, replay, training, progress, iteration>>
        /\ stage = "generate" /\ stage' = "train"
    BY <1>15 DEF SkipGeneration, FindAllGames, writerVars, lines
  <2>2. PICK n \in Ids : n = iteration /\ n = iteration'
    BY <1>2, <2>1
  <2>3. Content(n) = Seeds /\ generated[n] # Part
    <3>1. CASE SkipGeneration
      BY <1>3, <2>2, <3>1 DEF SkipGeneration, Filed, Absent, Part, Parameters
    <3>2. CASE FindAllGames
      BY <1>3, <2>2, <3>2 DEF FindAllGames, Resumable
    <3> QED
      BY <1>15, <3>1, <3>2
  <2>4. manifests[n] # NoManifest /\ Content(n)' = Seeds
    BY <1>3, <1>4, <2>1, <2>3
  <2>5. AtWork'
    BY <2>1, <2>2, <2>3, <2>4 DEF AtWork, Content, replay
  <2> QED
    BY <1>5, <2>1, <2>5
<1>16. CASE SkipTraining \/ SkipGate \/ Recover \/ BeginLine
  <2>1. /\ UNCHANGED <<shards, strength, replay, training, progress, iteration>>
        /\ stage \in {"train"} \cup Judged /\ stage' \in Judged
        /\ stage = "train" => Made(iteration) /\ stage' = "gate"
        /\ stage' = "append" => Readable
    BY <1>16 DEF SkipTraining, SkipGate, Recover, BeginLine, writerVars, lines
  <2>2. AtWork'
    BY <1>7, <2>1 DEF AtWork, Made, Content, Readable, replay, training
  <2> QED
    BY <1>5, <2>1, <2>2
<1>17. CASE SyncLedger
  <2>1. /\ UNCHANGED <<shards, strength, manifests, generated, training, progress,
                       iteration>>
        /\ stage = "train" /\ stage' = "fit" /\ ~Made(iteration) /\ Consistent
        /\ ledgered' = [k \in Ids |->
                          IF k \in Available THEN generated[k] ELSE ledgered[k]]
    BY <1>17 DEF SyncLedger, writerVars, lines
  <2>2. \A i \in Ids : ledgered'[i] # 0 => ledgered'[i] = Games /\ generated[i] = Games
    <3>1. \A i \in Available : generated[i] > 0
      BY <2>1 DEF Consistent
    <3> QED
      BY <1>3, <2>1, <3>1 DEF Filed, Absent, Part
  <2>3. \A i \in Ids : i > Now => ledgered'[i] = 0
    BY <1>2, <1>3, <2>1 DEF Available, Filed, Untouched, Ids, Parameters
  <2>4. \A i \in Ids : Filed(i)'
    <3>1. ASSUME NEW i \in Ids PROVE Filed(i)'
      <4>1. /\ UNCHANGED <<shards, manifests, generated, candidates, trained, records,
                           progress>>
            /\ Content(i)' = Content(i) /\ (Made(i)' <=> Made(i)) /\ Now' = Now
        BY <2>1 DEF Made, Content, Now, strength, training
      <4>2. i > Now => Untouched(i)'
        BY <1>3, <2>3, <4>1 DEF Filed, Untouched
      <4> QED
        BY <1>3, <2>2, <4>1, <4>2 DEF Filed
    <3> QED
      BY <3>1
  <2>5. AtWork'
    BY <1>7, <2>1 DEF AtWork, Made, Content, training
  <2> QED
    BY <2>4, <2>5 DEF FilesInv
<1>18. CASE SaveCandidate \/ BeginTrained \/ EndTrained
  <2>1. PICK n \in Ids : n = iteration /\ n = iteration'
    BY <1>2, <1>18 DEF SaveCandidate, BeginTrained, EndTrained, writerVars
  <2>2. /\ UNCHANGED <<shards, manifests, generated, ledgered, records, progress>>
        /\ stage \in {"fit"} \cup Saving /\ stage' \in Saving \cup {"gate"}
        /\ \/ trained' = trained /\ candidates'[n] # NoCandidate
           \/ candidates' = candidates /\ stage # "fit"
        /\ \A i \in Ids \ {n} : /\ candidates'[i] = candidates[i]
                                /\ trained'[i] = trained[i]
    <3>1. CASE SaveCandidate
      <4>1. Learner(n) # Absent
        BY <1>1, <2>1, <3>1, LearnerType DEF SaveCandidate, Checkpoints, Absent
      <4>2. candidates' = [candidates EXCEPT ![n] = [from |-> Learner(n), window |-> Window]]
        BY <2>1, <3>1 DEF SaveCandidate
      <4> QED
        BY <1>1, <3>1, <4>1, <4>2 DEF SaveCandidate, strength, replay, lines,
           writerVars, TypeOK, NoCandidate
    <3>2. CASE BeginTrained \/ EndTrained
      BY <1>1, <2>1, <3>2 DEF BeginTrained, EndTrained, strength, replay,
         lines,
         writerVars, TypeOK
    <3> QED
      BY <1>18, <3>1, <3>2
  <2>3. /\ Filed(n) /\ Content(n)' = Content(n) /\ Content(n) = Seeds /\ n = Now
        /\ manifests[n] # NoManifest /\ generated[n] # Part
        /\ stage # "fit" => Made(n)
    BY <1>2, <1>3, <1>7, <2>1, <2>2 DEF AtWork, Content
  <2>4. Filed(n)' /\ Made(n)'
    BY <2>2, <2>3 DEF Filed, Untouched, Made, Now
  <2>5. AtWork'
    BY <2>1, <2>2, <2>3, <2>4 DEF AtWork, Content, Made
  <2> QED
    BY <1>6, <2>2, <2>4, <2>5
<1>19. CASE (\E passed \in BOOLEAN : Judge(passed)) \/ CompleteRecord
  <2>1. PICK n \in Ids : n = iteration /\ n = iteration'
    BY <1>2, <1>19 DEF Judge, CompleteRecord, writerVars
  <2>2. /\ UNCHANGED <<shards, replay, training, progress>>
        /\ stage \in {"gate"} \cup Promoting /\ stage' \in {"archive", "report"}
        /\ records'[n].status # "none"
        /\ \A i \in Ids \ {n} : records'[i] = records[i]
    <3>1. ASSUME NEW passed \in BOOLEAN, Judge(passed) PROVE <2>2
      BY <1>1, <2>1, <3>1 DEF Judge, lines, writerVars, TypeOK
    <3>2. CASE CompleteRecord
      <4>1. PICK r : r = [records[n] EXCEPT !.status = "complete"]
        OBVIOUS
      <4>2. r.status = "complete"
        BY <1>1, <2>1, <3>2, <4>1, IncumbentType DEF CompleteRecord
      <4>3. records' = [records EXCEPT ![n] = r]
        BY <2>1, <3>2, <4>1 DEF CompleteRecord
      <4> QED
        BY <1>1, <3>2, <4>2, <4>3 DEF CompleteRecord, lines, writerVars, TypeOK
    <3> QED
      BY <1>19, <3>1, <3>2
  <2>3. /\ Filed(n) /\ Content(n)' = Content(n) /\ n = Now /\ Made(n)
    BY <1>2, <1>3, <1>7, <2>1, <2>2 DEF AtWork, Content
  <2>4. Filed(n)'
    BY <2>2, <2>3 DEF Filed, Untouched, Made, Now, replay, training
  <2>5. AtWork'
    BY <1>7, <2>1, <2>2, <2>3 DEF AtWork, Made, Content, replay, training
  <2> QED
    BY <1>6, <2>2, <2>4, <2>5 DEF replay, training
<1>20. CASE ArchiveBest \/ InstallCandidate \/ Register
  <2>1. /\ UNCHANGED <<shards, records, replay, training, progress, iteration>>
        /\ stage \in Promoting /\ stage' \in Promoting
    BY <1>20 DEF ArchiveBest, InstallCandidate, Register, writerVars, lines
  <2>2. \A i \in Ids : Filed(i)'
    BY <1>3, <2>1, Kept DEF replay, training
  <2>3. AtWork'
    BY <1>7, <2>1 DEF AtWork, Made, Content, replay, training
  <2> QED
    BY <2>2, <2>3 DEF FilesInv
<1>21. CASE EndLine
  <2>1. /\ UNCHANGED <<shards, strength, replay, training>> /\ stage = "append"
        /\ Len(progress') = Len(progress) + 1 /\ stage' \in Idle \cup {"generate"}
    BY <1>1, <1>21, NewLine DEF EndLine
  <2>2. /\ Made(Now) /\ generated[Now] >= 0 /\ trained[Now] >= 0 /\ Now \in Ids
        /\ records[Now].status # "installing"
    <3>1. iteration \in Ids /\ iteration = Now /\ AtWork
      BY <1>2, <1>7, <2>1
    <3>2. records[iteration].status # "installing"
      BY <1>1, <2>1, <3>1 DEF PromotionInv, Installing
    <3> QED
      BY <2>1, <3>1, <3>2 DEF AtWork, Readable
  <2>3. generated[Now] = Games /\ trained[Now] = 0
    <3>1. trained[Now] \in {Absent, Part, 0}
      BY <1>1, <2>2 DEF TypeOK
    <3>2. generated[Now] \in {Absent, Part, Games}
      BY <1>3, <2>2
    <3> QED
      BY <2>2, <3>1, <3>2 DEF Absent, Part
  <2>4. ASSUME NEW i \in Ids PROVE Filed(i)'
    <3>1. i < Now' => i < Now \/ i = Now
      BY <1>1, <2>1 DEF Now, Ids, TypeOK
    <3>2. i > Now' => i > Now
      BY <1>1, <2>1 DEF Now, Ids, TypeOK
    <3>3. i < Now' => /\ generated[i] = Games /\ Made(i) /\ trained[i] = 0
                      /\ records[i].status # "installing"
      BY <1>3, <2>2, <2>3, <3>1 DEF Filed
    <3>4. i > Now' => Untouched(i)
      BY <1>3, <3>2 DEF Filed
    <3>5. /\ Content(i)' = Content(i) /\ (Made(i)' <=> Made(i))
          /\ (Untouched(i)' <=> Untouched(i))
      BY <2>1 DEF Made, Untouched, Content, strength, replay, training
    <3> QED
      BY <1>3, <2>1, <3>3, <3>4, <3>5 DEF Filed, strength, replay, training
  <2> QED
    BY <2>1, <2>4 DEF FilesInv
<1>22. CASE WriterStep /\ stage \in Playing
  <2>1. PICK n \in Ids : n = iteration /\ n = iteration'
    BY <1>2, <1>22 DEF WriterStep, Write, Discard, Collect, TakeClose, Flush,
       FlushFails, EndWithShard, EndWithNothing, EndInError, EndFails, WriteShard
  <2>2. UNCHANGED <<strength, replay, training, progress, stage>>
    BY <1>22 DEF WriterStep, lines
  <2>3. CASE shards' = shards
    <3>1. AtWork'
      BY <1>7, <1>22, <2>1, <2>2 DEF AtWork, Made, replay, training
    <3> QED
      BY <1>5, <2>2, <2>3, <3>1
  <2>4. CASE held # {} /\ WriteShard
    <3>1. /\ \A i \in Ids \ {n} : shards'[i] = shards[i]
          /\ Len(shards'[n]) <= Cardinality(Content(n)')
      BY <1>1, <1>22, <2>1, <2>4, OneShard
    <3>2. /\ generated[n] = Absent /\ ~Made(n) /\ manifests[n] # NoManifest
          /\ n = Now
      BY <1>2, <1>7, <1>22, <2>1 DEF AtWork
    <3>3. Filed(n)'
      BY <1>3, <2>2, <3>1, <3>2 DEF Filed, Untouched, Made, Now, strength,
         replay,
         training, Absent, Part, Parameters
    <3>4. AtWork'
      BY <1>7, <1>22, <2>1, <2>2 DEF AtWork, Made, replay, training
    <3> QED
      BY <1>6, <2>2, <3>1, <3>3, <3>4 DEF strength, replay, training
  <2> QED
    BY <1>1, <1>22, <2>3, <2>4 DEF WriterStep, Write, Discard, Collect,
       TakeClose,
       Flush, FlushFails, EndWithShard, EndWithNothing, EndInError, EndFails,
       WriterInv
<1>23. Next \/ UNCHANGED vars
  OBVIOUS
<1> QED
  BY <1>8, <1>9, <1>10, <1>11, <1>12, <1>13, <1>14, <1>15, <1>16, <1>17, <1>18,
     <1>19, <1>20, <1>21, <1>22, <1>23, Works

----------------------------------------------------------------------------
(* The promotions.                                                         *)

(* There is one candidate at most whose promotion was the last one.        *)
LEMMA ChampionIs ==
  ASSUME Parameters, NEW i \in 1..Iterations + 1, NEW c \in Checkpoints
  PROVE  /\ IsChampion(i, c) => Champion(i) = c
         /\ IsChampion(i, c)' => Champion(i)' = c
<1>1. c \in Nat /\ i \in Nat
  BY DEF Checkpoints, Parameters
<1>2. ASSUME IsChampion(i, c) PROVE Champion(i) = c
  <2>1. ASSUME NEW d \in Checkpoints, IsChampion(i, d) PROVE d = c
    BY <1>1, <1>2, <2>1 DEF IsChampion, Checkpoints, Parameters
  <2>2. Champion(i) = CHOOSE d \in Checkpoints : IsChampion(i, d)
    BY DEF Champion, IsChampion
  <2> QED
    BY <1>2, <2>1, <2>2
<1>3. ASSUME IsChampion(i, c)' PROVE Champion(i)' = c
  <2>1. ASSUME NEW d \in Checkpoints, IsChampion(i, d)' PROVE d = c
    BY <1>1, <1>3, <2>1 DEF IsChampion, Checkpoints, Parameters
  <2>2. Champion(i)' = CHOOSE d \in Checkpoints : IsChampion(i, d)'
    BY DEF Champion, IsChampion
  <2> QED
    BY <1>3, <2>1, <2>2
<1> QED
  BY <1>2, <1>3

(* It depends on the gates before.                                         *)
LEMMA SameChampion ==
  ASSUME Parameters, NEW i \in 1..Iterations + 1,
         \E c \in Checkpoints : IsChampion(i, c),
         \A k \in 1..i - 1 : records'[k].promoted = records[k].promoted
  PROVE  /\ Champion(i)' = Champion(i)
         /\ \E c \in Checkpoints : IsChampion(i, c)'
<1>1. PICK c \in Checkpoints : IsChampion(i, c)
  OBVIOUS
<1>2. IsChampion(i, c)'
  BY <1>1 DEF IsChampion, Checkpoints, Parameters
<1> QED
  BY <1>1, <1>2, ChampionIs

(* What Champion says where there is one.                                  *)
LEMMA ChampionFacts ==
  ASSUME Parameters, PromotionInv, NEW i \in 1..Iterations + 1
  PROVE  Champion(i) \in Checkpoints /\ IsChampion(i, Champion(i))
<1>1. PICK c \in Checkpoints : IsChampion(i, c)
  BY DEF PromotionInv
<1> QED
  BY <1>1, ChampionIs

(* Only the iteration that the process works on, or will, is at its gate.  *)
LEMMA LastGate ==
  ASSUME Parameters, TypeOK, PlaceInv, FilesInv, PromotionInv
  PROVE  /\ \A i \in Ids : i > Now => records[i] = NoRecord
         /\ \A i \in Ids : records[i].promoted \in BOOLEAN
         /\ \A i \in Installing : i = Now /\ records[i].promoted
         /\ \A i \in Installing : Champion(Iterations + 1) = i
<1>1. \A i \in Ids : i > Now => records[i] = NoRecord
  BY DEF FilesInv, Filed, Untouched
<1>2. ASSUME NEW i \in Ids PROVE records[i].promoted \in BOOLEAN
  <2>1. records[i] = NoRecord
        \/ records[i] \in [status : {"installing", "complete"},
                          promoted : BOOLEAN, incumbent : Checkpoints]
    BY TypeParts DEF StrengthType
  <2>2. CASE records[i] = NoRecord
    BY <2>2 DEF NoRecord
  <2> QED
    BY <2>1, <2>2
<1>3. ASSUME NEW i \in Installing PROVE i = Now /\ records[i].promoted
  <2>1. i \in Ids /\ records[i].status = "installing" /\ Now \in Int
    BY DEF Installing, Now, TypeOK
  <2>2. ~(i > Now) /\ ~(i < Now)
    BY <1>1, <2>1 DEF FilesInv, Filed, NoRecord
  <2> QED
    BY <2>1, <2>2 DEF PromotionInv, Ids
<1>4. ASSUME NEW i \in Installing PROVE Champion(Iterations + 1) = i
  <2>1. i \in Ids /\ i = Now /\ records[i].promoted
    BY <1>3 DEF Installing
  <2>2. IsChampion(Iterations + 1, i)
    BY <1>1, <2>1 DEF IsChampion, NoRecord, Ids, Parameters
  <2> QED
    BY <2>1, <2>2, ChampionIs DEF Ids, Checkpoints, Parameters
<1> QED
  BY <1>1, <1>2, <1>3, <1>4

LEMMA PromotionKept ==
  ASSUME Parameters, PromotionInv, UNCHANGED strength,
         currentBest # Absent \/ (stage' = "down" /\ UNCHANGED <<shards, replay, training>>),
         stage' \in Promoting =>
            /\ iteration' = iteration /\ iteration \in Installing
            /\ stage' \in {stage, "archive"},
         stage' \in {"report", "append"} =>
            iteration' = iteration /\ iteration \notin Installing
  PROVE  PromotionInv'
<1>1. UNCHANGED <<currentBest, archive, league, records>>
  BY DEF strength
<1>2. \A i \in 1..Iterations + 1 : /\ Champion(i)' = Champion(i)
                                   /\ \E c \in Checkpoints : IsChampion(i, c)'
  BY <1>1, SameChampion DEF PromotionInv
<1>3. /\ Installing' = Installing /\ League' = League
      /\ Replaced(Ids)' = Replaced(Ids)
      /\ Replaced(Ids \ Installing)' = Replaced(Ids \ Installing)
  BY <1>1 DEF Installing, League, Replaced
<1>4. \A i \in Ids :
        /\ records'[i].status = "installing" => records'[i].promoted /\ Gated(i)
        /\ records'[i].promoted => records'[i].incumbent = Champion(i)'
  BY <1>1, <1>2 DEF PromotionInv, Ids, Parameters
<1>5. currentBest' = Absent => stage' = "down" /\ \A i \in Ids : Untouched(i)'
  BY <1>1 DEF PromotionInv, Untouched, Made, replay, training
<1>6. currentBest' \in {Absent, Champion(Iterations + 1)'}
                       \cup {Champion(i)' : i \in Installing'}
  BY <1>1, <1>2, <1>3 DEF PromotionInv, Installing, Ids, Parameters
<1>7. \A i \in Installing' : currentBest' = Champion(i)' \/ Champion(i)' \in archive'
  BY <1>1, <1>2, <1>3 DEF PromotionInv, Installing, Ids, Parameters
<1>8. /\ League' \subseteq Replaced(Ids)' \cap archive'
      /\ Replaced(Ids \ Installing)' \subseteq League'
      /\ \A k, n \in DOMAIN league' : k < n => league'[k] < league'[n]
  BY <1>1, <1>3 DEF PromotionInv
<1>9. stage' \in Promoting =>
         /\ iteration' \in Installing'
         /\ stage' # "archive" => Incumbent' \in archive'
         /\ stage' \in {"register", "complete"} => currentBest' = iteration'
         /\ stage' = "complete" => Incumbent' \in League'
  BY <1>1, <1>3 DEF PromotionInv, Promoting, Incumbent
<1>10. stage' \in {"report", "append"} => iteration' \notin Installing'
  BY <1>1, <1>3
<1> QED
  BY <1>2, <1>4, <1>5, <1>6, <1>7, <1>8, <1>9, <1>10 DEF PromotionInv

LEMMA PromotionStep ==
  ASSUME Parameters, IInv, [Next]_vars
  PROVE  PromotionInv'
<1> USE DEF Goto, Promoting
<1>1. /\ TypeOK /\ PlaceInv /\ FilesInv /\ PromotionInv
  BY DEF IInv
<1>2. stage \notin Idle => iteration \in Ids /\ iteration = Now
  BY <1>1 DEF PlaceInv
<1>3. currentBest = Absent => stage = "down"
  BY <1>1 DEF PromotionInv
<1>4. /\ \A i \in Ids : i > Now => records[i] = NoRecord
      /\ \A i \in Ids : records[i].promoted \in BOOLEAN
      /\ \A i \in Installing : i = Now /\ records[i].promoted
      /\ \A i \in Installing : Champion(Iterations + 1) = i
  BY <1>1, LastGate
<1>5. \A i \in 1..Iterations + 1 : Champion(i) \in Checkpoints /\ IsChampion(i, Champion(i))
  BY <1>1, ChampionFacts
<1>6. CASE UNCHANGED vars
  <2>1. /\ UNCHANGED <<strength, shards, replay, training, stage, iteration>>
    BY <1>6 DEF vars, writerVars
  <2> QED
    BY <1>1, <1>3, <2>1, PromotionKept DEF PromotionInv
<1>7. CASE Ended
  BY <1>1, <1>7, PromotionKept DEF Ended, Forget
<1>8. CASE \/ SkipGeneration \/ FindAllGames \/ SkipTraining
           \/ SyncLedger \/ SaveCandidate \/ BeginTrained \/ EndTrained
           \/ Generate \/ (\E seed \in Seeds : EndGame(seed)) \/ Send
           \/ (\E error \in BOOLEAN : EndPlay(error)) \/ SendClose \/ Closed
           \/ BeginMetrics \/ EndMetrics \/ EndLine
           \/ WriterStep /\ stage \in Playing
  <2>1. UNCHANGED strength /\ stage # "down"
        /\ stage' \notin {"report", "append"} \cup Promoting
    <3>1. CASE \/ SkipGeneration \/ FindAllGames \/ SkipTraining
               \/ SyncLedger \/ SaveCandidate \/ BeginTrained \/ EndTrained
      BY <3>1 DEF SkipGeneration, FindAllGames, SkipTraining, SyncLedger,
         SaveCandidate, BeginTrained, EndTrained
    <3>2. CASE \/ Generate \/ (\E seed \in Seeds : EndGame(seed)) \/ Send
               \/ (\E error \in BOOLEAN : EndPlay(error)) \/ SendClose \/ Closed
      BY <3>2 DEF Generate, EndGame, Send, EndPlay, SendClose, Closed
    <3>3. CASE \/ BeginMetrics \/ EndMetrics \/ EndLine
               \/ WriterStep /\ stage \in Playing
      BY <3>3 DEF BeginMetrics, EndMetrics, EndLine, Proceed, WriterStep,
         Playing
    <3> QED
      BY <1>8, <3>1, <3>2, <3>3
  <2> QED
    BY <1>1, <1>3, <2>1, PromotionKept
<1>9. CASE SkipGate \/ Recover \/ BeginLine
  <2>1. /\ UNCHANGED <<strength, iteration>> /\ stage # "down"
        /\ stage' = "archive" => iteration \in Installing
        /\ stage' \in {"archive", "report", "append"}
        /\ stage' \in {"report", "append"} => iteration \notin Installing
    <3>1. iteration \in Ids
      BY <1>2, <1>9 DEF SkipGate, Recover, BeginLine, Idle
    <3>2. CASE SkipGate
      BY <1>1, <3>1, <3>2 DEF SkipGate, GateComplete, writerVars, Installing,
         PromotionInv
    <3>3. CASE Recover
      BY <3>1, <3>3 DEF Recover, writerVars, Installing
    <3>4. CASE BeginLine
      BY <1>1, <3>1, <3>4 DEF BeginLine, writerVars, PromotionInv
    <3> QED
      BY <1>9, <3>2, <3>3, <3>4
  <2> QED
    BY <1>1, <1>3, <2>1, PromotionKept
<1>10. CASE StartUp
  <2>1. /\ UNCHANGED <<archive, league, records>>
        /\ stage' \in {"generate", "finished"}
        /\ currentBest' = IF currentBest = Absent THEN 0 ELSE currentBest
    BY <1>10 DEF StartUp, Proceed
  <2>2. CASE currentBest # Absent
    BY <1>1, <2>1, <2>2, PromotionKept DEF strength
  <2>3. CASE currentBest = Absent
    <3>1. \A i \in Ids : records[i] = NoRecord
      BY <1>1, <2>3 DEF PromotionInv, Untouched
    <3>2. Champion(Iterations + 1) = 0
      <4>1. IsChampion(Iterations + 1, 0)
        BY <3>1 DEF IsChampion, NoRecord, Ids, Parameters
      <4> QED
        BY <4>1, ChampionIs DEF Checkpoints, Parameters
    <3>3. \A i \in 1..Iterations + 1 : /\ Champion(i)' = Champion(i)
                                       /\ \E c \in Checkpoints : IsChampion(i, c)'
      BY <1>1, <2>1, SameChampion DEF PromotionInv
    <3>4. /\ Installing = {} /\ Installing' = {} /\ League' = League
          /\ Replaced(Ids)' = Replaced(Ids)
          /\ Replaced(Ids \ Installing)' = Replaced(Ids \ Installing)
      BY <2>1, <3>1 DEF Installing, League, Replaced, NoRecord
    <3>5. \A i \in Ids : records'[i].status # "installing" /\ ~records'[i].promoted
      BY <2>1, <3>1 DEF NoRecord
    <3>6. /\ League' \subseteq Replaced(Ids)' \cap archive'
          /\ Replaced(Ids \ Installing)' \subseteq League'
          /\ \A k, n \in DOMAIN league' : k < n => league'[k] < league'[n]
      BY <1>1, <2>1, <3>4 DEF PromotionInv
    <3>7. currentBest' = Champion(Iterations + 1)' /\ currentBest' # Absent
      BY <2>1, <2>3, <3>2, <3>3 DEF Absent, Parameters
    <3> QED
      BY <2>1, <3>3, <3>4, <3>5, <3>6, <3>7 DEF PromotionInv
  <2> QED
    BY <2>2, <2>3
<1>11. ASSUME NEW passed \in BOOLEAN, Judge(passed) PROVE PromotionInv'
  <2>1. PICK n \in Ids : n = iteration /\ n = iteration' /\ n = Now /\ n \in Nat
    BY <1>2, <1>11 DEF Judge, Idle, writerVars, Ids
  <2>2. /\ UNCHANGED <<currentBest, archive, league>> /\ currentBest # Absent
        /\ records[n] = NoRecord /\ Gated(n)
        /\ stage' = IF passed THEN "archive" ELSE "report"
        /\ \A i \in Ids \ {n} : records'[i] = records[i]
        /\ records'[n].status = IF passed THEN "installing" ELSE "complete"
        /\ records'[n].promoted = passed /\ records'[n].incumbent = currentBest
    BY <1>1, <1>3, <1>11, <2>1 DEF Judge, TypeOK
  <2>3. Installing = {}
    <3>1. n \notin Installing
      BY <2>2 DEF Installing, NoRecord
    <3> QED
      BY <1>4, <2>1, <3>1
  <2>4. currentBest = Champion(Iterations + 1)
    BY <1>1, <2>2, <2>3 DEF PromotionInv
  <2>5. \A i \in 1..n : /\ Champion(i)' = Champion(i)
                        /\ \E c \in Checkpoints : IsChampion(i, c)'
    <3>1. ASSUME NEW i \in 1..n PROVE /\ Champion(i)' = Champion(i)
                                      /\ \E c \in Checkpoints : IsChampion(i, c)'
      <4>1. i \in 1..Iterations + 1
        BY <2>1 DEF Ids, Parameters
      <4>2. \A k \in 1..i - 1 : records'[k].promoted = records[k].promoted
        BY <2>1, <2>2 DEF Ids, Parameters
      <4> QED
        BY <1>5, <4>1, <4>2, SameChampion
    <3> QED
      BY <3>1
  <2>6. /\ League' = League
        /\ \A k \in Ids : k # n => records'[k] = records[k]
        /\ ~records[n].promoted
    BY <2>2 DEF League, NoRecord
  <2>7. \A k \in Ids : records[k].promoted => k < n
    <3>1. \A k \in Ids : records[k].promoted => ~(k > n) /\ k # n
      BY <1>4, <2>1, <2>2 DEF NoRecord
    <3> QED
      BY <2>1, <3>1 DEF Ids
  <2>8. CASE ~passed
    <3>1. \A i \in 1..Iterations + 1 : /\ Champion(i)' = Champion(i)
                                       /\ \E c \in Checkpoints : IsChampion(i, c)'
      <4>1. \A k \in Ids : records'[k].promoted = records[k].promoted
        BY <2>2, <2>8, <2>6, <1>4
      <4>2. \A i \in 1..Iterations + 1 : 1..i - 1 \subseteq Ids
        BY DEF Ids, Parameters
      <4> QED
        BY <1>5, <4>1, <4>2, SameChampion
    <3>2. Installing' = {}
      BY <2>2, <2>3, <2>8 DEF Installing
    <3>3. /\ Replaced(Ids)' = Replaced(Ids)
          /\ Replaced(Ids \ Installing)' = Replaced(Ids)
      BY <2>2, <2>6, <2>8, <3>2 DEF Replaced
    <3>4. \A i \in Ids :
            /\ records'[i].status = "installing" => records'[i].promoted /\ Gated(i)
            /\ records'[i].promoted => records'[i].incumbent = Champion(i)'
      BY <1>1, <2>2, <2>6, <2>8, <3>1 DEF PromotionInv, Ids, Parameters
    <3>5. /\ League' \subseteq Replaced(Ids)' \cap archive'
          /\ Replaced(Ids \ Installing)' \subseteq League'
          /\ \A k, m \in DOMAIN league' : k < m => league'[k] < league'[m]
      <4>1. Ids \ Installing = Ids
        BY <2>3
      <4>2. League \subseteq Replaced(Ids) \cap archive /\ Replaced(Ids) \subseteq League
        BY <1>1, <4>1 DEF PromotionInv
      <4> QED
        BY <1>1, <2>2, <2>6, <3>3, <4>2 DEF PromotionInv
    <3>6. currentBest' = Champion(Iterations + 1)' /\ currentBest' # Absent
      BY <2>2, <2>4, <3>1 DEF Parameters
    <3> QED
      BY <2>2, <2>8, <3>1, <3>2, <3>4, <3>5, <3>6 DEF PromotionInv
  <2>9. CASE passed
    <3>1. ASSUME NEW i \in n + 1..Iterations + 1 PROVE IsChampion(i, n)'
      <4>1. \A k \in 1..i - 1 : records'[k].promoted => k <= n
        BY <2>1, <2>2, <2>6, <2>7 DEF Ids, Parameters
      <4> QED
        BY <2>1, <2>2, <2>9, <4>1 DEF IsChampion
    <3>2. \A i \in n + 1..Iterations + 1 :
             Champion(i)' = n /\ \E c \in Checkpoints : IsChampion(i, c)'
      <4>1. n \in Checkpoints /\ n + 1..Iterations + 1 \subseteq 1..Iterations + 1
        BY <2>1 DEF Checkpoints, Ids, Parameters
      <4> QED
        BY <3>1, <4>1, ChampionIs
    <3>3. \A i \in 1..Iterations + 1 : \E c \in Checkpoints : IsChampion(i, c)'
      BY <2>1, <2>5, <3>2 DEF Ids, Parameters
    <3>4. currentBest = Champion(n)
      <4>1. IsChampion(n, Champion(Iterations + 1))
        BY <1>5, <2>1, <2>7 DEF IsChampion, Ids, Checkpoints, Parameters
      <4> QED
        BY <1>5, <2>1, <2>4, <4>1, ChampionIs DEF Ids, Parameters
    <3>5. Installing' = {n} /\ currentBest' = Champion(n)' /\ currentBest' # Absent
      <4>1. Installing' = {n}
        BY <2>1, <2>2, <2>3, <2>6, <2>9 DEF Installing
      <4>2. n \in 1..n
        BY <2>1 DEF Ids
      <4> QED
        BY <2>2, <2>5, <3>4, <4>1, <4>2
    <3>6. ASSUME NEW i \in Ids, records'[i].promoted
          PROVE  records'[i].incumbent = Champion(i)'
      <4>1. i \in 1..n
        BY <2>1, <2>6, <2>7, <3>6 DEF Ids
      <4>2. CASE i = n
        BY <2>1, <2>2, <2>5, <3>4, <4>1, <4>2
      <4>3. CASE i # n
        BY <1>1, <2>5, <2>6, <3>6, <4>1, <4>3 DEF PromotionInv
      <4> QED
        BY <4>2, <4>3
    <3>7. \A i \in Ids : records'[i].status = "installing" =>
                            records'[i].promoted /\ Gated(i)
      BY <2>2, <2>3, <2>6, <2>9 DEF Installing
    <3>8. /\ Replaced(Ids) \subseteq Replaced(Ids)'
          /\ Replaced(Ids \ Installing)' \subseteq Replaced(Ids)
      BY <2>6, <3>5 DEF Replaced
    <3>9. /\ League' \subseteq Replaced(Ids)' \cap archive'
          /\ Replaced(Ids \ Installing)' \subseteq League'
          /\ \A k, m \in DOMAIN league' : k < m => league'[k] < league'[m]
      <4>1. Ids \ Installing = Ids
        BY <2>3
      <4>2. League \subseteq Replaced(Ids) \cap archive /\ Replaced(Ids) \subseteq League
        BY <1>1, <4>1 DEF PromotionInv
      <4> QED
        BY <1>1, <2>2, <2>6, <3>8, <4>2 DEF PromotionInv
    <3> QED
      BY <2>1, <2>2, <2>9, <3>3, <3>5, <3>6, <3>7, <3>9 DEF PromotionInv
  <2> QED
    BY <2>8, <2>9
<1>12. CASE ArchiveBest \/ InstallCandidate \/ Register \/ CompleteRecord
  <2>1. PICK n \in Ids : n = iteration /\ n = iteration' /\ n \in Installing
    BY <1>1, <1>2, <1>12 DEF ArchiveBest, InstallCandidate, Register,
       CompleteRecord, PromotionInv, Idle, writerVars
  <2>2. /\ Installing = {n} /\ records[n].promoted
        /\ Champion(Iterations + 1) = n /\ n # Absent
        /\ records[n].incumbent = Champion(n) /\ Gated(n)
        /\ records[n].status = "installing" /\ n \in 1..Iterations + 1
    BY <1>1, <1>4, <2>1 DEF PromotionInv, Installing, Ids, Absent, Parameters
  <2>3. Incumbent = records[n].incumbent
    BY <2>1 DEF Incumbent
  <2>4. /\ \A k \in Ids : records[k].promoted => records[k].incumbent = Champion(k)
        /\ \A k \in Ids : records[k].status = "installing" => records[k].promoted /\ Gated(k)
        /\ currentBest # Absent
        /\ currentBest = n \/ currentBest = Champion(n)
        /\ currentBest = Champion(n) \/ Champion(n) \in archive
        /\ League \subseteq Replaced(Ids) \cap archive
        /\ Replaced(Ids \ {n}) \subseteq League
        /\ \A k, m \in DOMAIN league : k < m => league[k] < league[m]
    <3>1. currentBest # Absent
      BY <1>3, <1>12 DEF ArchiveBest, InstallCandidate, Register,
         CompleteRecord
    <3> QED
      BY <1>1, <2>2, <3>1 DEF PromotionInv
  <2>5. CASE ArchiveBest \/ InstallCandidate \/ Register
    <3>1. /\ UNCHANGED records
          /\ \A i \in 1..Iterations + 1 : /\ Champion(i)' = Champion(i)
                                          /\ \E c \in Checkpoints : IsChampion(i, c)'
      <4>1. UNCHANGED records
        BY <2>5 DEF ArchiveBest, InstallCandidate, Register
      <4> QED
        BY <1>5, <4>1, SameChampion
    <3>2. /\ Installing' = {n} /\ Incumbent' = Champion(n)
          /\ Replaced(Ids)' = Replaced(Ids)
          /\ Replaced(Ids \ Installing)' = Replaced(Ids \ {n})
      BY <2>1, <2>2, <2>3, <3>1 DEF Installing, Incumbent, Replaced
    <3>3. ASSUME currentBest' \in {n, Champion(n)},
                 Champion(n) \in archive',
                 League' \subseteq Replaced(Ids) \cap archive',
                 Replaced(Ids \ {n}) \subseteq League',
                 \A k, m \in DOMAIN league' : k < m => league'[k] < league'[m],
                 stage' \in {"install", "register", "complete"},
                 stage' \in {"register", "complete"} => currentBest' = n,
                 stage' = "complete" => Champion(n) \in League'
          PROVE  PromotionInv'
      <4>1. Champion(n) \in Checkpoints /\ currentBest' # Absent
        BY <1>5, <2>2, <3>3 DEF Checkpoints, Absent, Parameters
      <4>2. currentBest' \in {Absent, Champion(Iterations + 1)'}
                             \cup {Champion(i)' : i \in Installing'}
        BY <2>2, <3>1, <3>2, <3>3 DEF Parameters
      <4>3. \A i \in Installing' : currentBest' = Champion(i)' \/ Champion(i)' \in archive'
        BY <2>2, <3>1, <3>2, <3>3
      <4>4. \A i \in Ids :
              /\ records'[i].status = "installing" => records'[i].promoted /\ Gated(i)
              /\ records'[i].promoted => records'[i].incumbent = Champion(i)'
        BY <2>4, <3>1 DEF Ids, Parameters
      <4> QED
        BY <2>1, <3>1, <3>2, <3>3, <4>1, <4>2, <4>3, <4>4 DEF PromotionInv
    <3>4. CASE ArchiveBest
      <4>1. /\ UNCHANGED <<currentBest, league>> /\ archive' = archive \cup {Champion(n)}
            /\ stage' = "install" /\ League' = League
        BY <2>2, <2>3, <3>4 DEF ArchiveBest, League
      <4> QED
        BY <2>4, <3>3, <4>1
    <3>5. CASE InstallCandidate
      <4>1. /\ UNCHANGED <<archive, league>> /\ currentBest' = n
            /\ stage' = "register" /\ League' = League
        BY <2>1, <3>5 DEF InstallCandidate, League
      <4>2. Champion(n) \in archive
        BY <1>1, <2>2, <2>3, <3>5 DEF InstallCandidate, PromotionInv
      <4> QED
        BY <2>4, <3>3, <4>1, <4>2
    <3>6. CASE Register
      <4>1. /\ UNCHANGED <<archive, currentBest>> /\ stage' = "complete"
            /\ currentBest = n /\ Champion(n) \in archive
        BY <1>1, <2>1, <2>2, <2>3, <3>6 DEF Register, PromotionInv
      <4>2. CASE Champion(n) \in League
        <5>1. league' = league /\ League' = League
          BY <2>2, <2>3, <3>6, <4>2 DEF Register, League, ToSet
        <5> QED
          BY <2>4, <3>3, <4>1, <4>2, <5>1
      <4>3. CASE Champion(n) \notin League
        <5>1. league' = Append(league, Champion(n))
          BY <2>2, <2>3, <3>6, <4>3 DEF Register, League, ToSet
        <5>2. /\ league \in Seq(Checkpoints) /\ Champion(n) \in Checkpoints
              /\ Len(league') = Len(league) + 1 /\ DOMAIN league' = 1..Len(league) + 1
              /\ DOMAIN league = 1..Len(league) /\ Len(league) \in Nat
              /\ league'[Len(league) + 1] = Champion(n)
              /\ \A k \in 1..Len(league) : league'[k] = league[k]
          BY <1>1, <1>5, <2>2, <5>1, AppendProperties DEF TypeOK
        <5>3. League' = League \cup {Champion(n)}
          BY <5>2 DEF League
        <5>4. \A k \in 1..Len(league) : league[k] < Champion(n)
          <6>1. ASSUME NEW k \in 1..Len(league) PROVE league[k] < Champion(n)
            <7>1. league[k] \in League
              BY <5>2, <6>1 DEF League
            <7>2. PICK j \in Ids : records[j].promoted /\ league[k] = records[j].incumbent
              BY <2>4, <7>1 DEF Replaced
            <7>3. league[k] = Champion(j) /\ j # n
              BY <2>4, <4>3, <7>1, <7>2
            <7>4. j < n /\ j \in 1..n - 1 /\ j \in 1..Iterations + 1
              <8>1. n = Now /\ Now \in Int
                BY <1>4, <2>1 DEF Ids
              <8>2. ASSUME j > n PROVE FALSE
                <9>1. records[j] = NoRecord
                  BY <1>4, <7>2, <8>1, <8>2
                <9>2. ~records[j].promoted
                  BY <9>1 DEF NoRecord
                <9> QED
                  BY <7>2, <9>2
              <8> QED
                BY <7>2, <7>3, <8>1, <8>2 DEF Ids, Parameters
            <7>5. Champion(j) \in Nat /\ Champion(j) < j
              BY <1>5, <7>4 DEF IsChampion, Checkpoints, Parameters
            <7>6. Champion(n) \in Nat /\ j <= Champion(n)
              BY <1>5, <2>2, <7>2, <7>4 DEF IsChampion, Checkpoints, Parameters
            <7> QED
              BY <7>3, <7>4, <7>5, <7>6
          <6> QED
            BY <6>1
        <5>5. \A k, m \in DOMAIN league' : k < m => league'[k] < league'[m]
          BY <2>4, <5>2, <5>4
        <5>6. Champion(n) \in Replaced(Ids)
          BY <2>1, <2>2 DEF Replaced
        <5> QED
          BY <2>4, <3>3, <4>1, <5>3, <5>5, <5>6
      <4> QED
        BY <4>2, <4>3
    <3> QED
      BY <2>5, <3>4, <3>5, <3>6
  <2>6. CASE CompleteRecord
    <3>1. PICK r : r = [records[n] EXCEPT !.status = "complete"]
      OBVIOUS
    <3>2. /\ r.status = "complete" /\ r.promoted = records[n].promoted
          /\ r.incumbent = records[n].incumbent
      <4>1. records[n] \in [status : {"installing", "complete"},
                           promoted : BOOLEAN, incumbent : Checkpoints]
        BY <1>1, <2>1, <2>6, IncumbentType DEF CompleteRecord
      <4> QED
        BY <3>1, <4>1
    <3>3. records' = [records EXCEPT ![n] = r]
      BY <2>1, <2>6, <3>1 DEF CompleteRecord
    <3>4. /\ UNCHANGED <<currentBest, archive, league>> /\ stage' = "report"
          /\ records'[n] = r /\ \A k \in Ids \ {n} : records'[k] = records[k]
      BY <1>1, <2>6, <3>3 DEF CompleteRecord, TypeOK
    <3>5. \A k \in Ids : /\ records'[k].promoted = records[k].promoted
                         /\ records'[k].incumbent = records[k].incumbent
      BY <3>2, <3>4
    <3>6. \A i \in 1..Iterations + 1 : /\ Champion(i)' = Champion(i)
                                       /\ \E c \in Checkpoints : IsChampion(i, c)'
      <4>1. \A i \in 1..Iterations + 1 : 1..i - 1 \subseteq Ids
        BY DEF Ids, Parameters
      <4> QED
        BY <1>5, <3>5, <4>1, SameChampion
    <3>7. Installing' = {} /\ League' = League
      <4>1. ASSUME NEW k \in Ids PROVE records'[k].status # "installing"
        <5>1. CASE k = n
          BY <3>2, <3>4, <5>1
        <5>2. CASE k # n
          BY <2>2, <3>4, <5>2 DEF Installing
        <5> QED
          BY <5>1, <5>2
      <4> QED
        BY <3>4, <4>1 DEF Installing, League
    <3>8. Replaced(Ids)' = Replaced(Ids) /\ Replaced(Ids \ Installing)' = Replaced(Ids)
      <4>1. Ids \ Installing' = Ids
        BY <3>7
      <4>2. {k \in Ids : records'[k].promoted} = {k \in Ids : records[k].promoted}
        BY <3>5
      <4>3. Replaced(Ids)' = Replaced(Ids)
        BY <3>5, <4>2 DEF Replaced
      <4>4. Replaced(Ids \ Installing)' = Replaced(Ids)'
        BY <4>1 DEF Replaced
      <4> QED
        BY <4>3, <4>4
    <3>9. currentBest = n /\ Champion(n) \in League
      BY <1>1, <2>1, <2>2, <2>3, <2>6 DEF CompleteRecord, PromotionInv
    <3>10. Replaced(Ids) \subseteq League
      <4>1. Replaced(Ids) \subseteq Replaced(Ids \ {n}) \cup {Champion(n)}
        BY <2>2 DEF Replaced
      <4> QED
        BY <2>4, <3>9, <4>1
    <3>11. \A i \in Ids :
             /\ records'[i].status = "installing" => records'[i].promoted /\ Gated(i)
             /\ records'[i].promoted => records'[i].incumbent = Champion(i)'
      BY <2>4, <3>2, <3>4, <3>5, <3>6 DEF Ids, Parameters
    <3>12. currentBest' = Champion(Iterations + 1)' /\ currentBest' # Absent
      BY <2>2, <3>4, <3>6, <3>9 DEF Parameters
    <3>13. /\ League' \subseteq Replaced(Ids)' \cap archive'
           /\ Replaced(Ids \ Installing)' \subseteq League'
           /\ \A k, m \in DOMAIN league' : k < m => league'[k] < league'[m]
      BY <2>4, <3>4, <3>7, <3>8, <3>10
    <3> QED
      BY <3>4, <3>6, <3>7, <3>11, <3>12, <3>13 DEF PromotionInv
  <2> QED
    BY <1>12, <2>5, <2>6
<1>13. Next \/ UNCHANGED vars
  OBVIOUS
<1> QED
  BY <1>1, <1>6, <1>7, <1>8, <1>9, <1>10, <1>11, <1>12, <1>13, Works DEF IInv

----------------------------------------------------------------------------
(* What a generation finds, the candidates and the refusals.               *)

(* Before its candidate is made, an iteration has no part in the gates: it *)
(* continues from the candidate and the league that the ones before left.  *)
LEMMA AtTheFront ==
  ASSUME Parameters, TypeOK, PlaceInv, FilesInv, PromotionInv,
         currentBest # Absent, NEW n \in Ids, n = Now, ~Made(n)
  PROVE  /\ Learner(n) = n - 1 /\ currentBest = Champion(n)
         /\ League \ {currentBest} = Replaced(1..n - 1)
<1>1. \A k \in Ids : k >= n => ~records[k].promoted
  <2>1. ASSUME NEW k \in Ids, k >= n PROVE ~records[k].promoted
    <3>1. records[k] = NoRecord
      BY <2>1 DEF FilesInv, Filed, Untouched, Ids
    <3> QED
      BY <3>1 DEF NoRecord
  <2> QED
    BY <2>1
<1>2. Installing = {}
  BY <1>1, LastGate DEF Ids
<1>3. n \in 1..Iterations + 1 /\ Iterations + 1 \in 1..Iterations + 1 /\ n \in Nat
  BY DEF Ids, Parameters
<1>4. /\ currentBest = Champion(Iterations + 1)
      /\ currentBest \in Checkpoints /\ IsChampion(Iterations + 1, currentBest)
  BY <1>2, <1>3, ChampionFacts DEF PromotionInv
<1>5. IsChampion(n, currentBest)
  BY <1>1, <1>3, <1>4 DEF IsChampion, Ids, Checkpoints, Parameters
<1>6. currentBest = Champion(n)
  BY <1>3, <1>4, <1>5, ChampionIs
<1>7. Learner(n) = n - 1
  <2>1. CASE n > 1
    <3>1. n - 1 \in Ids /\ n - 1 < Now
      BY <1>3, <2>1 DEF Ids, Parameters
    <3>2. Made(n - 1)
      BY <3>1 DEF FilesInv, Filed
    <3> QED
      BY <2>1, <3>2 DEF Learner
  <2>2. CASE n = 1
    BY <1>4, <1>5, <2>2 DEF Learner, IsChampion, Checkpoints, Parameters
  <2> QED
    BY <1>3, <2>1, <2>2
<1>8. League = Replaced(Ids)
  <2>1. Ids \ Installing = Ids
    BY <1>2
  <2> QED
    BY <2>1 DEF PromotionInv
<1>9. Replaced(Ids) = Replaced(1..n - 1)
  <2>1. {k \in Ids : records[k].promoted} = {k \in 1..n - 1 : records[k].promoted}
    BY <1>1, <1>3 DEF Ids, Parameters
  <2> QED
    BY <2>1 DEF Replaced
<1>10. currentBest \notin Replaced(Ids)
  <2>1. ASSUME NEW j \in Ids, records[j].promoted PROVE records[j].incumbent # currentBest
    <3>1. records[j].incumbent = Champion(j) /\ j \in 1..Iterations + 1
      BY <2>1 DEF PromotionInv, Ids, Parameters
    <3>2. Champion(j) \in Nat /\ Champion(j) < j
      BY <3>1, ChampionFacts DEF IsChampion, Checkpoints, Ids, Parameters
    <3>3. j <= currentBest
      BY <1>4, <2>1 DEF IsChampion, Ids, Parameters
    <3> QED
      BY <1>4, <3>1, <3>2, <3>3 DEF Ids, Checkpoints, Parameters
  <2> QED
    BY <2>1 DEF Replaced
<1> QED
  BY <1>6, <1>7, <1>8, <1>9, <1>10

(* A shard is written once and not removed.                                *)
LEMMA ContentStays ==
  ASSUME Parameters, IInv, [Next]_vars, NEW k \in Ids, Content(k) = Seeds
  PROVE  Content(k)' = Seeds
<1>1. /\ TypeOK /\ PlaceInv /\ FilesInv /\ GamesInv /\ WriterInv /\ TypeOK'
  BY TypeStep DEF IInv
<1>2. CASE shards' = shards
  BY <1>2 DEF Content
<1>3. CASE stage \in Playing /\ held # {} /\ WriteShard
  <2>1. /\ \A i \in Ids \ {iteration} : shards'[i] = shards[i]
        /\ Content(iteration)' = Content(iteration) \cup held
        /\ iteration' = iteration
    BY <1>1, <1>3, OneShard
  <2>2. CASE k # iteration
    BY <2>1, <2>2 DEF Content
  <2>3. CASE k = iteration
    <3>1. k = iteration'
      BY <2>1, <2>3
    <3>2. Content(k)' = Content(k) \cup held
      BY <2>1, <2>3, <3>1 DEF Content
    <3>3. held \subseteq Seeds
      BY <1>1 DEF TypeOK, WriterTypeOK
    <3> QED
      BY <3>2, <3>3
  <2> QED
    BY <2>2, <2>3
<1>4. shards' = shards \/ (stage \in Playing /\ held # {} /\ WriteShard)
  <2>1. CASE UNCHANGED vars \/ Ended
    BY <2>1 DEF vars, writerVars, Ended
  <2>2. CASE \/ SkipGeneration \/ FindAllGames \/ SkipTraining \/ SkipGate
             \/ Recover \/ BeginLine \/ SyncLedger \/ SaveCandidate
             \/ BeginTrained \/ EndTrained \/ CompleteRecord \/ ArchiveBest
             \/ InstallCandidate \/ Register
             \/ \E passed \in BOOLEAN : Judge(passed)
    BY <2>2 DEF SkipGeneration, FindAllGames, SkipTraining, SkipGate, Recover,
       BeginLine, SyncLedger, SaveCandidate, BeginTrained, EndTrained,
       CompleteRecord, ArchiveBest, InstallCandidate, Register, Judge, Goto,
       writerVars
  <2>3. CASE \/ StartUp \/ Generate \/ (\E seed \in Seeds : EndGame(seed)) \/ Send
             \/ (\E error \in BOOLEAN : EndPlay(error)) \/ SendClose \/ Closed
             \/ BeginMetrics \/ EndMetrics \/ EndLine
    BY <2>3 DEF StartUp, Generate, EndGame, Send, EndPlay, SendClose, Closed,
       BeginMetrics, EndMetrics, EndLine, Goto, writerVars
  <2>4. CASE WriterStep /\ stage \in Playing
    BY <1>1, <2>4 DEF WriterStep, Write, Discard, Collect, TakeClose, Flush,
       FlushFails, EndWithShard, EndWithNothing, EndInError, EndFails, WriterInv
  <2> QED
    BY <2>1, <2>2, <2>3, <2>4, Works
<1> QED
  BY <1>2, <1>3, <1>4

LEMMA CandidatesStep ==
  ASSUME Parameters, IInv, [Next]_vars
  PROVE  CandidatesDescend'
<1> USE DEF Idle, Playing, Measuring, Saving, Judged, Promoting, Goto
<1>1. /\ TypeOK /\ PlaceInv /\ FilesInv /\ PromotionInv /\ CandidatesDescend
      /\ \A k \in Ids : Content(k) = Seeds => Content(k)' = Seeds
  BY ContentStays DEF IInv
<1>2. stage \notin Idle => iteration \in Ids /\ iteration = Now
  BY <1>1 DEF PlaceInv
<1>3. ASSUME NEW i \in Ids, candidates'[i] = candidates[i],
             generated'[i] = generated[i] \/ ~Made(i), Made(i)'
      PROVE  /\ candidates'[i].from = i - 1
             /\ \A k \in candidates'[i].window : k <= i /\ Content(k)' = Seeds
             /\ i \in candidates'[i].window \/ generated'[i] = Absent
  <2>1. Made(i) /\ generated'[i] = generated[i]
    BY <1>3 DEF Made
  <2>2. candidates[i].window \in SUBSET Ids
    BY <1>1, <2>1 DEF TypeOK, Made
  <2> QED
    BY <1>1, <1>3, <2>1, <2>2 DEF CandidatesDescend
<1>4. CASE SaveCandidate
  <2>1. PICK n \in Ids : n = iteration /\ n = iteration' /\ n = Now
    BY <1>2, <1>4 DEF SaveCandidate, writerVars
  <2>2. /\ AtWork /\ stage = "fit" /\ UNCHANGED generated /\ currentBest # Absent
        /\ candidates' = [candidates EXCEPT ![n] = [from |-> Learner(n), window |-> Window]]
    BY <1>1, <1>4, <2>1 DEF SaveCandidate, FilesInv, PromotionInv, replay
  <2>3. /\ \A i \in Ids \ {n} : candidates'[i] = candidates[i]
        /\ candidates'[n].from = Learner(n) /\ candidates'[n].window = Window
    BY <1>1, <2>2 DEF TypeOK
  <2>4. ~Made(n) /\ Content(n) = Seeds /\ manifests[n] # NoManifest
    BY <2>1, <2>2 DEF AtWork
  <2>5. Learner(n) = n - 1
    BY <1>1, <2>1, <2>2, <2>4, AtTheFront
  <2>6. \A k \in Window : k \in Ids /\ k <= n /\ Content(k) = Seeds
    BY <1>1, <2>1 DEF Window, Available, FilesInv, Filed, Ids, Parameters
  <2>7. n \in Window \/ generated[n] = Absent
    <3>1. ASSUME generated[n] # Absent PROVE n \in Window
      <4>1. n \in Available
        BY <1>1, <2>1, <2>4, <3>1, FileFacts DEF Available, Ids, FilesInv
      <4>2. {m \in Available : m > n} = {}
        BY <2>1 DEF Available, Ids
      <4> QED
        BY <4>1, <4>2, FS_EmptySet DEF Window, Parameters
    <3> QED
      BY <3>1
  <2>8. \A k \in Window : k <= n /\ Content(k)' = Seeds
    BY <1>1, <2>6
  <2>9. \A i \in Ids \ {n} : Made(i)' =>
          /\ candidates'[i].from = i - 1
          /\ \A k \in candidates'[i].window : k <= i /\ Content(k)' = Seeds
          /\ i \in candidates'[i].window \/ generated'[i] = Absent
    BY <1>3, <2>2, <2>3
  <2> QED
    BY <2>2, <2>3, <2>5, <2>7, <2>8, <2>9 DEF CandidatesDescend
<1>5. CASE BeginMetrics \/ EndMetrics
  <2>1. PICK n \in Ids : n = iteration
    BY <1>2, <1>5 DEF BeginMetrics, EndMetrics
  <2>2. /\ ~Made(n) /\ UNCHANGED training
        /\ \A i \in Ids \ {n} : generated'[i] = generated[i]
    BY <1>1, <1>5, <2>1 DEF BeginMetrics, EndMetrics, FilesInv, AtWork, TypeOK
  <2>3. \A i \in Ids : /\ candidates'[i] = candidates[i]
                       /\ generated'[i] = generated[i] \/ ~Made(i)
    BY <2>2 DEF training
  <2> QED
    BY <1>3, <2>3 DEF CandidatesDescend
<1>6. CASE UNCHANGED <<candidates, generated>>
  <2>1. \A i \in Ids : candidates'[i] = candidates[i] /\ generated'[i] = generated[i]
    BY <1>6
  <2> QED
    BY <1>3, <2>1 DEF CandidatesDescend
<1>7. UNCHANGED <<candidates, generated>> \/ SaveCandidate \/ BeginMetrics \/ EndMetrics
  <2>1. CASE UNCHANGED vars \/ Ended
    BY <2>1 DEF vars, Ended, replay, training
  <2>2. CASE \/ SkipGeneration \/ FindAllGames \/ SkipTraining \/ SkipGate
             \/ Recover \/ BeginLine \/ SyncLedger
             \/ BeginTrained \/ EndTrained \/ CompleteRecord \/ ArchiveBest
             \/ InstallCandidate \/ Register
             \/ \E passed \in BOOLEAN : Judge(passed)
    BY <2>2 DEF SkipGeneration, FindAllGames, SkipTraining, SkipGate, Recover,
       BeginLine, SyncLedger, BeginTrained, EndTrained,
       CompleteRecord, ArchiveBest, InstallCandidate, Register, Judge,
       replay, training
  <2>3. CASE \/ StartUp \/ Generate \/ (\E seed \in Seeds : EndGame(seed)) \/ Send
             \/ (\E error \in BOOLEAN : EndPlay(error)) \/ SendClose \/ Closed
             \/ EndLine
             \/ WriterStep /\ stage \in Playing
    BY <2>3 DEF StartUp, Generate, EndGame, Send, EndPlay, SendClose, Closed,
       EndLine, WriterStep, replay, training
  <2>4. Next \/ UNCHANGED vars
    OBVIOUS
  <2> QED
    BY <2>1, <2>2, <2>3, <2>4, Works
<1> QED
  BY <1>4, <1>5, <1>6, <1>7

LEMMA PoolStep ==
  ASSUME Parameters, IInv, [Next]_vars
  PROVE  PoolFollowsGates'
<1> USE DEF Idle, Playing, Measuring, Saving, Judged, Promoting, Goto
<1>1. /\ TypeOK /\ PlaceInv /\ FilesInv /\ PromotionInv /\ PoolFollowsGates
  BY DEF IInv
<1>2. stage \notin Idle => iteration \in Ids /\ iteration = Now
  BY <1>1 DEF PlaceInv
<1>3. \A i \in Ids : manifests[i] # NoManifest => i <= Now
  BY <1>1 DEF FilesInv, Filed, Untouched, Now, Ids, TypeOK
(* The manifests whose gates before are what they were. *)
<1>4. ASSUME NEW i \in Ids, manifests'[i] = manifests[i], manifests'[i] # NoManifest,
             \A k \in 1..i - 1 : /\ records'[k].promoted = records[k].promoted
                                 /\ records'[k].incumbent = records[k].incumbent
      PROVE  /\ manifests'[i].learner = i - 1 /\ manifests'[i].best = Champion(i)'
             /\ manifests'[i].pool = Replaced(1..i - 1)'
  <2>1. i \in 1..Iterations + 1 /\ Champion(i)' = Champion(i)
    BY <1>1, <1>4, SameChampion DEF PromotionInv, Ids, Parameters
  <2>2. Replaced(1..i - 1)' = Replaced(1..i - 1)
    BY <1>4 DEF Replaced
  <2> QED
    BY <1>1, <1>4, <2>1, <2>2 DEF PoolFollowsGates, Replaced
<1>5. ASSUME \A i \in Ids : manifests'[i] # NoManifest =>
               /\ manifests'[i].learner = i - 1 /\ manifests'[i].best = Champion(i)'
               /\ manifests'[i].pool = Replaced(1..i - 1)'
      PROVE  PoolFollowsGates'
  BY <1>5 DEF PoolFollowsGates, Replaced
<1>6. CASE UNCHANGED <<manifests, records>>
  BY <1>4, <1>5, <1>6
<1>7. CASE Generate
  <2>1. PICK n \in Ids : n = iteration /\ n = Now
    BY <1>2, <1>7 DEF Generate
  <2>2. /\ UNCHANGED <<records, league, currentBest>> /\ currentBest # Absent
        /\ manifests' = [manifests EXCEPT ![n] = Identity(n)]
    BY <1>1, <1>7, <2>1 DEF Generate, PromotionInv, strength
  <2>3. manifests'[n] = Identity(n) /\ \A i \in Ids \ {n} : manifests'[i] = manifests[i]
    BY <1>1, <2>2 DEF TypeOK
  <2>4. ~Made(n)
    BY <1>1, <1>7, <2>1 DEF Generate, FilesInv, Filed
  <2>5. /\ Learner(n) = n - 1 /\ currentBest = Champion(n)
        /\ League \ {currentBest} = Replaced(1..n - 1)
    BY <1>1, <2>1, <2>2, <2>4, AtTheFront
  <2>6. /\ Identity(n).learner = n - 1 /\ Identity(n).best = Champion(n)
        /\ Identity(n).pool = Replaced(1..n - 1)
    BY <2>5 DEF Identity, League, ToSet
  <2>7. Champion(n)' = Champion(n) /\ Replaced(1..n - 1)' = Replaced(1..n - 1)
    BY <1>1, <2>2, SameChampion DEF Replaced, PromotionInv, Ids, Parameters
  <2>8. \A i \in Ids \ {n} : manifests'[i] # NoManifest =>
               /\ manifests'[i].learner = i - 1 /\ manifests'[i].best = Champion(i)'
               /\ manifests'[i].pool = Replaced(1..i - 1)'
    BY <1>4, <2>2, <2>3
  <2> QED
    BY <1>5, <2>3, <2>6, <2>7, <2>8
<1>8. ASSUME NEW passed \in BOOLEAN, Judge(passed) PROVE PoolFollowsGates'
  <2>1. PICK n \in Ids : n = iteration /\ n = Now
    BY <1>2, <1>8 DEF Judge
  <2>2. UNCHANGED manifests /\ \A i \in Ids \ {n} : records'[i] = records[i]
    BY <1>1, <1>8, <2>1 DEF Judge, replay, TypeOK
  <2>3. \A i \in Ids : manifests[i] # NoManifest => 1..i - 1 \subseteq Ids \ {n}
    BY <1>3, <2>1 DEF Ids, Parameters
  <2> QED
    BY <1>4, <1>5, <2>2, <2>3
<1>9. CASE CompleteRecord
  <2>1. PICK n \in Ids : n = iteration
    BY <1>2, <1>9 DEF CompleteRecord
  <2>2. PICK r : r = [records[n] EXCEPT !.status = "complete"]
    OBVIOUS
  <2>3. r.promoted = records[n].promoted /\ r.incumbent = records[n].incumbent
    <3>1. records[n] \in [status : {"installing", "complete"},
                         promoted : BOOLEAN, incumbent : Checkpoints]
      BY <1>1, <1>9, <2>1, IncumbentType DEF CompleteRecord
    <3> QED
      BY <2>2, <3>1
  <2>4. UNCHANGED manifests /\ records' = [records EXCEPT ![n] = r]
    BY <1>9, <2>1, <2>2 DEF CompleteRecord, replay
  <2>5. records'[n] = r /\ \A k \in Ids \ {n} : records'[k] = records[k]
    BY <1>1, <2>4 DEF TypeOK
  <2>6. \A k \in Ids : /\ records'[k].promoted = records[k].promoted
                       /\ records'[k].incumbent = records[k].incumbent
    BY <2>3, <2>5
  <2>7. \A i \in Ids : 1..i - 1 \subseteq Ids
    BY DEF Ids, Parameters
  <2> QED
    BY <1>4, <1>5, <2>4, <2>6, <2>7
<1>10. \/ UNCHANGED <<manifests, records>> \/ Generate \/ CompleteRecord
       \/ \E passed \in BOOLEAN : Judge(passed)
  <2>1. CASE UNCHANGED vars \/ Ended
    BY <2>1 DEF vars, Ended, replay, strength
  <2>2. CASE \/ SkipGeneration \/ FindAllGames \/ SkipTraining \/ SkipGate
             \/ Recover \/ BeginLine \/ SyncLedger \/ SaveCandidate
             \/ BeginTrained \/ EndTrained \/ ArchiveBest
             \/ InstallCandidate \/ Register
    BY <2>2 DEF SkipGeneration, FindAllGames, SkipTraining, SkipGate, Recover,
       BeginLine, SyncLedger, SaveCandidate, BeginTrained, EndTrained,
       ArchiveBest, InstallCandidate, Register, replay, strength
  <2>3. CASE \/ StartUp \/ (\E seed \in Seeds : EndGame(seed)) \/ Send
             \/ (\E error \in BOOLEAN : EndPlay(error)) \/ SendClose \/ Closed
             \/ BeginMetrics \/ EndMetrics
             \/ EndLine
             \/ WriterStep /\ stage \in Playing
    BY <2>3 DEF StartUp, EndGame, Send, EndPlay, SendClose, Closed,
       BeginMetrics,
       EndMetrics, EndLine, WriterStep, replay, strength
  <2>4. Next \/ UNCHANGED vars
    OBVIOUS
  <2> QED
    BY <2>1, <2>2, <2>3, <2>4, Works
<1> QED
  BY <1>6, <1>7, <1>8, <1>9, <1>10

(* What a refused file means, case by case.                                *)
LEMMA WhatIsRefused ==
  ASSUME Parameters, IInv,
         \/ StartRefused \/ GenerationRefused \/ TrainingRefused
         \/ InstallRefused \/ ReportRefused
  PROVE  \/ cut
         \/ \E i \in Ids : \/ generated[i] = Part
                           \/ generated[i] = Absent /\ Content(i) = Seeds
                           \/ Made(i) /\ trained[i] < 0
<1> USE DEF Idle, Playing, Measuring, Saving, Judged, Promoting
<1>1. /\ TypeOK /\ PlaceInv /\ FilesInv /\ GamesInv /\ PromotionInv
      /\ PoolFollowsGates
  BY DEF IInv
<1>2. CASE StartRefused
  BY <1>2 DEF StartRefused
<1>3. ASSUME ~StartRefused
      PROVE  \E i \in Ids : \/ generated[i] = Part
                            \/ generated[i] = Absent /\ Content(i) = Seeds
                            \/ Made(i) /\ trained[i] < 0
  <2>1. PICK n \in Ids : n = iteration /\ n = Now /\ n \in 1..n
    <3>1. stage \notin Idle
      BY <1>3 DEF GenerationRefused, TrainingRefused, InstallRefused,
         ReportRefused
    <3> QED
      BY <1>1, <3>1 DEF PlaceInv, Ids, Parameters
  <2>2. \A k \in Ids :
          /\ Filed(k) /\ generated[k] \in {Absent, Part, Games}
          /\ Content(k) = Seeds => shards[k] # <<>> /\ manifests[k] # NoManifest
          /\ GenerationComplete(k) <=> generated[k] = Games
    BY <1>1, FileFacts DEF FilesInv
  <2>3. currentBest # Absent
    BY <1>1, <1>3 DEF PromotionInv, GenerationRefused, TrainingRefused,
       InstallRefused, ReportRefused
  <2>4. CASE GenerationRefused
    <3>1. ~Resumable(n) /\ ~GenerationComplete(n)
      BY <2>1, <2>4 DEF GenerationRefused
    <3>2. generated[n] \in {Absent, Part}
      BY <2>2, <3>1
    <3>3. CASE Made(n)
      BY <2>2, <3>2, <3>3 DEF Filed
    <3>4. CASE ~Made(n) /\ generated[n] # Part
      <4>1. ToSet(league) \subseteq archive /\ ToSet(league) = League
        BY <1>1 DEF PromotionInv, League, ToSet
      <4>2. Disjoint(n) /\ (manifests[n] = NoManifest => shards[n] = <<>>)
        BY <1>1, <2>2 DEF GamesInv, Filed
      <4>3. manifests[n] # NoManifest /\ manifests[n] # Identity(n)
        BY <3>1, <3>4, <4>1, <4>2 DEF Resumable
      <4>4. /\ Learner(n) = n - 1 /\ currentBest = Champion(n)
            /\ League \ {currentBest} = Replaced(1..n - 1)
        BY <1>1, <2>1, <2>3, <3>4, AtTheFront
      <4>5. /\ manifests[n].learner = Learner(n) /\ manifests[n].best = currentBest
            /\ manifests[n].pool = ToSet(league) \ {currentBest}
        BY <1>1, <4>1, <4>3, <4>4 DEF PoolFollowsGates, Replaced
      <4>6. manifests[n] \in [learner : Checkpoints, best : Checkpoints,
                             pool : SUBSET Checkpoints]
        BY <1>1, <4>3 DEF TypeOK
      <4>7. manifests[n] = Identity(n)
        BY <4>5, <4>6 DEF Identity
      <4> QED
        BY <4>3, <4>7
    <3> QED
      BY <3>3, <3>4
  <2>5. CASE TrainingRefused
    <3>1. /\ ~Made(n) /\ ~Consistent /\ Content(n) = Seeds /\ generated[n] # Part
      BY <1>1, <2>1, <2>5 DEF TrainingRefused, FilesInv, AtWork
    <3>2. ASSUME generated[n] = Games PROVE FALSE
      <4>1. \A k \in 1..n : k \in Ids /\ generated[k] = Games
        BY <2>1, <2>2, <3>2 DEF Filed, Ids, Parameters
      <4>2. \A k \in 1..n : Content(k) = Seeds /\ generated[k] # Absent
        BY <2>2, <4>1 DEF Filed, Absent, Parameters
      <4>3. Available = 1..n
        BY <2>1, <2>2, <4>1, <4>2 DEF Available
      <4>4. \A k \in 1..n :
              /\ generated[k] > 0 /\ ledgered[k] \in {0, generated[k]}
              /\ Disjoint(k) /\ generated[k] = Cardinality(Content(k))
        <5>1. ASSUME NEW k \in 1..n
              PROVE  /\ generated[k] > 0 /\ ledgered[k] \in {0, generated[k]}
                     /\ Disjoint(k) /\ generated[k] = Cardinality(Content(k))
          <6>1. k \in Ids /\ generated[k] = Games /\ Content(k) = Seeds
            BY <4>1, <4>2
          <6>2. ledgered[k] \in {0, Games}
            BY <2>2, <6>1 DEF Filed
          <6> QED
            BY <1>1, <6>1, <6>2, SeedFacts DEF GamesInv, Parameters
        <5> QED
          BY <5>1
      <4>5. Available # {}
        BY <2>1, <4>3
      <4>6. \A k \in 1..iteration : ledgered[k] # 0 => k \in Available
        BY <2>1, <4>3
      <4>7. \A k \in Available :
               /\ generated[k] > 0
               /\ ledgered[k] \in {0, generated[k]}
               /\ ledgered[k] = 0 \/ k \in Window =>
                    Disjoint(k) /\ generated[k] = Cardinality(Content(k))
        BY <4>3, <4>4
      <4>8. Consistent
        BY <4>5, <4>6, <4>7 DEF Consistent
      <4> QED
        BY <3>1, <4>8
    <3> QED
      BY <2>2, <3>1, <3>2
  <2>6. CASE InstallRefused
    <3>1. stage = "archive" /\ ~Recoverable /\ n \in Installing
      BY <1>1, <2>1, <2>6 DEF InstallRefused, PromotionInv
    <3>2. /\ Champion(Iterations + 1) = n /\ \A i \in Installing : i = n
      BY <1>1, <2>1, <3>1, LastGate
    <3>3. Incumbent = Champion(n)
      BY <1>1, <2>1, <3>1 DEF PromotionInv, Installing, Incumbent
    <3>4. /\ currentBest = n \/ currentBest = Champion(n)
          /\ currentBest = Champion(n) \/ Champion(n) \in archive
      BY <1>1, <2>3, <3>1, <3>2 DEF PromotionInv
    <3>5. Recoverable
      BY <2>1, <3>3, <3>4 DEF Recoverable
    <3> QED
      BY <3>1, <3>5
  <2>7. CASE ReportRefused
    <3>1. /\ Made(n) /\ Content(n) = Seeds
          /\ ~(generated[n] >= 0) \/ ~(trained[n] >= 0)
      BY <1>1, <2>1, <2>7 DEF ReportRefused, Readable, FilesInv, AtWork
    <3>2. trained[n] \in {Absent, Part, 0}
      BY <1>1 DEF TypeOK
    <3>3. ~(trained[n] >= 0) => trained[n] < 0
      BY <3>2 DEF Absent, Part
    <3>4. ~(generated[n] >= 0) => generated[n] \in {Absent, Part}
      BY <2>2 DEF Parameters
    <3> QED
      BY <3>1, <3>3, <3>4
  <2> QED
    BY <1>3, <2>4, <2>5, <2>6, <2>7
<1> QED
  BY <1>2, <1>3

LEMMA RefusedStep ==
  ASSUME Parameters, IInv, [Next]_vars
  PROVE  RefusedOnlyIfStranded'
<1>1. refused => Stranded
  BY DEF IInv, RefusedOnlyIfStranded
<1>2. CASE \/ StartRefused \/ GenerationRefused \/ TrainingRefused
           \/ InstallRefused \/ ReportRefused
  <2>1. UNCHANGED <<shards, replay, training, lines>> /\ stage' = "down"
    BY <1>2 DEF StartRefused, GenerationRefused, TrainingRefused,
       InstallRefused, ReportRefused, Refuse, Forget
  <2>2. \/ cut
        \/ \E i \in Ids : \/ generated[i] = Part
                          \/ generated[i] = Absent /\ Content(i) = Seeds
                          \/ Made(i) /\ trained[i] < 0
    BY <1>2, WhatIsRefused
  <2>3. \/ cut'
        \/ \E i \in Ids : \/ generated'[i] = Part
                          \/ generated'[i] = Absent /\ Content(i)' = Seeds
                          \/ Made(i)' /\ trained'[i] < 0
    BY <2>1, <2>2 DEF Content, Made, replay, training, lines
  <2> QED
    BY <2>1, <2>3 DEF RefusedOnlyIfStranded, Stranded
<1>3. CASE UNCHANGED vars
  <2>1. UNCHANGED <<shards, replay, training, lines, stage, refused>>
    BY <1>3 DEF vars, writerVars, ends
  <2>2. Stranded => Stranded'
    BY <2>1 DEF Stranded, Content, Made, replay, training, lines
  <2> QED
    BY <1>1, <2>1, <2>2 DEF RefusedOnlyIfStranded
<1>4. CASE StartUp \/ ExitRaised \/ Crash
  BY <1>4 DEF StartUp, ExitRaised, Crash, RefusedOnlyIfStranded
<1>5. ASSUME stage # "down", refused' = refused PROVE RefusedOnlyIfStranded'
  BY <1>1, <1>5 DEF Stranded, RefusedOnlyIfStranded
<1>6. CASE \/ SkipGeneration \/ FindAllGames \/ SkipTraining \/ SkipGate
           \/ Recover \/ BeginLine \/ SyncLedger \/ SaveCandidate
           \/ BeginTrained \/ EndTrained \/ CompleteRecord \/ ArchiveBest
           \/ InstallCandidate \/ Register
           \/ \E passed \in BOOLEAN : Judge(passed)
  BY <1>5, <1>6 DEF SkipGeneration, FindAllGames, SkipTraining, SkipGate,
     Recover,
     BeginLine, SyncLedger, SaveCandidate, BeginTrained, EndTrained,
     CompleteRecord, ArchiveBest, InstallCandidate, Register, Judge, Goto, ends
<1>7. CASE \/ Generate \/ (\E seed \in Seeds : EndGame(seed)) \/ Send
           \/ AllPlayed \/ AddRaises \/ Interrupt \/ SendClose \/ Closed
           \/ BeginMetrics \/ EndMetrics \/ EndLine
  BY <1>5, <1>7 DEF Generate, EndGame, Send, AllPlayed, AddRaises, Interrupt,
     EndPlay, SendClose, Closed, BeginMetrics, EndMetrics, EndLine, Goto, ends
<1>8. CASE WriterStep
  <2>1. stage # "down"
    BY <1>8 DEF WriterStep, Write, Discard, Collect, TakeClose, Flush,
       FlushFails,
       EndWithShard, EndWithNothing, EndInError, EndFails, IInv, PlaceInv,
       NoWriter, Playing
  <2> QED
    BY <1>5, <1>8, <2>1 DEF WriterStep, ends
<1>9. Next \/ UNCHANGED vars
  OBVIOUS
<1> QED
  BY <1>2, <1>3, <1>4, <1>6, <1>7, <1>8, <1>9 DEF Next, Drive

----------------------------------------------------------------------------
LEMMA Step ==
  ASSUME Parameters, IInv, [Next]_vars
  PROVE  IInv'
BY TypeStep, PlaceStep, FilesStep, GamesStep, WriterInvStep, PromotionStep,
   CandidatesStep, PoolStep, RefusedStep DEF IInv

LEMMA Start ==
  ASSUME Parameters, Init
  PROVE  IInv
<1>1. /\ shards = [i \in Ids |-> <<>>] /\ progress = <<>> /\ league = <<>>
      /\ archive = {} /\ queue = <<>> /\ currentBest = Absent /\ stage = "down"
      /\ iteration = 0 /\ NoWriter /\ raised = FALSE /\ refused = FALSE
      /\ resumed = {} /\ played = {} /\ holding = 0 /\ cut = FALSE
      /\ \A i \in Ids : Untouched(i)
  BY DEF Init, WriterInit, NoWriter, Untouched, Made, Ids
<1>2. TypeOK
  <2>1. WriterTypeOK
    <3>1. /\ shards \in [Ids -> Seq((SUBSET Seeds) \ {{}})]
          /\ queue \in Seq(Seeds \cup {Close}) /\ Len(queue) <= QueueGames
      <4>1. /\ <<>> \in Seq((SUBSET Seeds) \ {{}}) /\ <<>> \in Seq(Seeds \cup {Close})
            /\ Len(<<>>) = 0
        OBVIOUS
      <4> QED
        BY <1>1, <4>1 DEF Parameters
    <3>2. /\ held = {} /\ index = 1 /\ failure = FALSE /\ admitted = {}
          /\ writer = "gone" /\ reply = "none" /\ iteration = 0 /\ faults = 0
      BY DEF Init, WriterInit, NoWriter
    <3> QED
      <4>1. index \in 1..Games + 1 /\ iteration \in 0..Iterations /\ faults \in 0..MaxFaults
        BY <3>2 DEF Parameters
      <4>2. /\ held \subseteq Seeds /\ admitted \subseteq Seeds /\ failure \in BOOLEAN
            /\ writer \in {"gone", "ready", "flushing", "ending"}
            /\ reply \in {"none", "ok", "error"}
        BY <3>2
      <4> QED
        BY <3>1, <4>1, <4>2 DEF WriterTypeOK, Ids
  <2>2. StrengthType /\ LinesType /\ RunType
    <3>1. <<>> \in Seq(Checkpoints) /\ <<>> \in Seq(Ids)
      OBVIOUS
    <3>2. records = [i \in Ids |-> NoRecord] /\ cut = FALSE /\ deaths = 0
      BY DEF Init
    <3>3. RunType
      <4>1. raised \in BOOLEAN /\ refused \in BOOLEAN /\ stage \in Idle
        BY <1>1 DEF Idle
      <4>2. resumed \subseteq Seeds /\ played \subseteq Seeds /\ holding \in {0}
        BY <1>1
      <4>3. deaths \in 0..MaxDeaths
        BY <3>2 DEF Parameters
      <4> QED
        BY <4>1, <4>2, <4>3 DEF RunType
    <3> QED
      BY <1>1, <3>1, <3>2, <3>3 DEF StrengthType, LinesType
  <2>3. ReplayType /\ TrainingType
    BY DEF Init, ReplayType, TrainingType, Parameters
  <2> QED
    BY <2>1, <2>2, <2>3, TypeParts
<1>3. PlaceInv
  BY <1>1 DEF PlaceInv, Idle, Playing, Measuring, Parameters
<1>4. \A i \in Ids : Content(i) = {} /\ ~Made(i)
  BY <1>1 DEF Content, Untouched
<1>5. FilesInv
  <2>1. ASSUME NEW i \in Ids PROVE Filed(i)
    <3>1. Untouched(i) /\ Content(i) = {} /\ ~(i < Now)
      BY <1>1, <1>4 DEF Now, Ids, Parameters
    <3>2. Len(shards[i]) <= Cardinality(Content(i))
      BY <3>1, FS_EmptySet DEF Untouched
    <3> QED
      BY <3>1, <3>2 DEF Filed, Untouched, Absent
  <2> QED
    BY <1>1, <2>1 DEF FilesInv, Idle
<1>6. GamesInv
  BY <1>1 DEF GamesInv, Disjoint, Playing, Measuring
<1>7. WriterInv
  BY <1>1 DEF WriterInv, Playing
<1>8. PromotionInv
  <2>1. \A i \in Ids : records[i].status = "none" /\ ~records[i].promoted
    BY <1>1 DEF Untouched, NoRecord
  <2>2. \A i \in 1..Iterations + 1 : IsChampion(i, 0)
    BY <2>1 DEF IsChampion, Ids, Parameters
  <2>3. Installing = {} /\ League = {} /\ 0 \in Checkpoints
    BY <1>1, <2>1 DEF Installing, League, Checkpoints, Parameters
  <2>4. Replaced(Ids) = {} /\ Replaced(Ids \ Installing) = {}
    BY <2>1 DEF Replaced
  <2> QED
    BY <1>1, <2>1, <2>2, <2>3, <2>4 DEF PromotionInv, Promoting
<1>9. CandidatesDescend /\ PoolFollowsGates /\ RefusedOnlyIfStranded
  BY <1>1, <1>4 DEF CandidatesDescend, PoolFollowsGates, RefusedOnlyIfStranded,
     Untouched
<1> QED
  BY <1>2, <1>3, <1>5, <1>6, <1>7, <1>8, <1>9 DEF IInv

LEMMA Shown ==
  ASSUME Parameters, IInv
  PROVE  CorpusIsExact /\ LeagueIsComplete
<1>1. CorpusIsExact
  <2>1. ASSUME NEW i \in Ids
        PROVE  /\ Disjoint(i)
               /\ generated[i] >= 0 => Content(i) = Seeds /\ generated[i] = Games
               /\ ledgered[i] # 0 => Content(i) = Seeds /\ ledgered[i] = Games
    <3>1. Filed(i) /\ Disjoint(i)
      BY DEF IInv, FilesInv, GamesInv
    <3>2. generated[i] >= 0 => generated[i] # Absent
      BY DEF Absent
    <3>3. generated[i] = Games => generated[i] # Absent
      BY DEF Absent, Parameters
    <3> QED
      BY <3>1, <3>2, <3>3 DEF Filed
  <2> QED
    BY <2>1 DEF CorpusIsExact
<1>2. LeagueIsComplete
  BY DEF IInv, PromotionInv, LeagueIsComplete, League, Replaced, ToSet
<1> QED
  BY <1>1, <1>2

----------------------------------------------------------------------------
(* The theorems.                                                           *)

LEMMA Inductive ==
  ASSUME Parameters
  PROVE  Safety => []IInv
<1>1. Init => IInv
  BY Start
<1>2. IInv /\ [Next]_vars => IInv'
  BY Step
<1> QED
  BY <1>1, <1>2, PTL DEF Safety

(* Every file of the run, and the process and its writer, have the values  *)
(* that the code gives them: the index of a shard is never past the number *)
(* of the games, and the channel never over its room.                      *)
THEOREM TypeCorrect ==
  ASSUME Parameters
  PROVE  Safety => []TypeOK
<1>1. IInv => TypeOK
  BY DEF IInv
<1> QED
  BY <1>1, Inductive, PTL

(* The shards of an iteration hold each of its games once, and the metrics *)
(* and the ledger count what the shards hold, for every size of a shard    *)
(* and of the channel, and however many processes and failed writes it     *)
(* took (RustSampleShardWriter, self_play.validate_resume).                *)
THEOREM CorpusExact ==
  ASSUME Parameters
  PROVE  Safety => []CorpusIsExact
<1>1. IInv => CorpusIsExact
  BY Shown
<1> QED
  BY <1>1, Inductive, PTL

(* A promotion happens once and whole: the league lists every best that    *)
(* was replaced, once and in order, and each is in the archive             *)
(* (s2_promotion._finish_promotion_intent).                                *)
THEOREM LeagueComplete ==
  ASSUME Parameters
  PROVE  Safety => []LeagueIsComplete
<1>1. IInv => LeagueIsComplete
  BY Shown
<1> QED
  BY <1>1, Inductive, PTL

(* Every candidate goes on from the one before it, on whole iterations     *)
(* (s2_run.run_iteration, s2_replay.discover_iterations).                  *)
THEOREM CandidatesDescended ==
  ASSUME Parameters
  PROVE  Safety => []CandidatesDescend
<1>1. IInv => CandidatesDescend
  BY DEF IInv
<1> QED
  BY <1>1, Inductive, PTL

(* The games of an iteration are those of the candidate before it, against *)
(* the best and the league that the gates before it have left              *)
(* (s2_run.run_iteration, self_play.ensure_run_manifest).                  *)
THEOREM PoolFollowed ==
  ASSUME Parameters
  PROVE  Safety => []PoolFollowsGates
<1>1. IInv => PoolFollowsGates
  BY DEF IInv
<1> QED
  BY <1>1, Inductive, PTL

(* A process refuses the run's own files only where a death has left one   *)
(* in part, or between two that belong together: whatever else was         *)
(* interrupted, the same command goes on (s2_run.main).                    *)
THEOREM RefusedWhereStranded ==
  ASSUME Parameters
  PROVE  Safety => []RefusedOnlyIfStranded
<1>1. IInv => RefusedOnlyIfStranded
  BY DEF IInv
<1> QED
  BY <1>1, Inductive, PTL
=============================================================================

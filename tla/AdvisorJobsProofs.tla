-------------------------- MODULE AdvisorJobsProofs --------------------------
(* Theorems about AdvisorJobs, for every set of jobs, keys, clients and    *)
(* annotators, every target, pool size and timeout.                        *)
EXTENDS AdvisorJobs, TLAPS

USE JobsAssumption

(* A saturating age stays in its range.                                    *)
LEMMA OlderType ==
  ASSUME NEW n \in Nat, NEW t \in 0..(n + 1)
  PROVE  Older(t, n) \in 0..(n + 1)
BY DEF Older

(* What a request thread is doing determines the argument it holds.        *)
LEMMA CallShape ==
  ASSUME NEW x \in Calls
  PROVE  /\ x[1] = "start" => x[2] \in Keys
         /\ x[1] \in {"poll", "blocking"} => x[2] \in Jobs
BY DEF Calls, Idle

(* Queues stay sequences.                                                  *)
LEMMA QueueType ==
  ASSUME NEW S, NEW q \in Seq(S), NEW e \in S
  PROVE  /\ Append(q, e) \in Seq(S)
         /\ q # <<>> => Tail(q) \in Seq(S)
OBVIOUS

(* The answers that publishing, settling and annotators build.             *)
LEMMA AnswerType ==
  ASSUME NEW a \in Answer, NEW R \in SUBSET (Concurrent \cup Sequential),
         NEW st \in [Concurrent -> AnnStatuses]
  PROVE  /\ [a EXCEPT !.results = @ \cup R] \in Answer
         /\ [a EXCEPT !.results = @ \cup R, !.states = st] \in Answer
BY DEF Answer

(* _settle decorates an answer that exists: the snapshot is there before   *)
(* the wait, and the local copy is there while annotators run.             *)
SettleInv == \A j \in Jobs :
    /\ pc[j] \in {"waiting", "annotating"} => snap[j] # None
    /\ pc[j] = "annotating" => base[j] # None

(* A step is a worker's, the birth of a job, a pass of the reaper, a stop, *)
(* or leaves alone everything but clocks, calls, answers and annotators.   *)
Vacant(k) == ~(byKey[k] \in registered /\ Active(byKey[k]))
Birth(c, k, j) == \/ StartTerminal(c, k, j) /\ Vacant(k)
                  \/ Submit(c, k, j) /\ Vacant(k)
                  \/ BeginBlocking(c, k, j)
lifeVars == <<registered, byKey, key, streaming, stop, outcome, sims, workerVars>>

LEMMA StepKinds ==
  ASSUME TypeOK, [Next]_vars
  PROVE  \/ \E j \in Jobs : WorkerStep(j)
         \/ \E c \in Clients, k \in Keys, j \in Jobs : Birth(c, k, j)
         \/ Reap /\ UNCHANGED unreaped
         \/ \E j \in Jobs : StopJob(j)
         \/ UNCHANGED lifeVars
<1> USE DEF hostVars, outcome, answerVars, workerVars, annVars, clockVars, lifeVars
<1>1. ASSUME NEW c \in Clients, FinishStart(c)
      PROVE  \/ \E k \in Keys, j \in Jobs : Birth(c, k, j)
             \/ UNCHANGED lifeVars
  <2> DEFINE k == call[c][2]
  <2>1. k \in Keys
    BY <1>1, CallShape DEF FinishStart, TypeOK
  <2>2. \/ Rejoin(c, k)
        \/ \E j \in Jobs : /\ StartTerminal(c, k, j) \/ Submit(c, k, j)
                           /\ Vacant(k)
    BY <1>1 DEF FinishStart, Vacant
  <2>3. CASE Rejoin(c, k)
    BY <2>3 DEF Rejoin
  <2> HIDE DEF k
  <2> QED
    BY <2>1, <2>2, <2>3 DEF Birth
<1>2. CASE Tick
  BY <1>2 DEF Tick
<1>3. CASE Sweep
  BY <1>3 DEF Sweep
<1>4. ASSUME NEW c \in Clients, NEW k \in Keys, BeginStart(c, k)
      PROVE  Reap /\ UNCHANGED unreaped
  BY <1>4 DEF BeginStart
<1>5. ASSUME NEW c \in Clients, NEW j \in Jobs, BeginPoll(c, j)
      PROVE  Reap /\ UNCHANGED unreaped
  BY <1>5 DEF BeginPoll
<1>6. ASSUME NEW c \in Clients, FinishPoll(c) \/ EndBlocking(c) \/ StartRaises(c)
      PROVE  UNCHANGED lifeVars
  BY <1>6 DEF FinishPoll, EndBlocking, StartRaises
<1>7. ASSUME NEW j \in Jobs, NEW c \in Concurrent,
             AnnotatorStep(j, c) \/ DeadlinePasses(j, c)
      PROVE  UNCHANGED lifeVars
  <2>1. CASE StartAnnotator(j, c)
    BY <2>1 DEF StartAnnotator
  <2>2. CASE AnnotatorReturns(j, c)
    BY <2>2 DEF AnnotatorReturns
  <2>3. CASE AnnotatorRaises(j, c)
    BY <2>3 DEF AnnotatorRaises
  <2>4. CASE MergeNothing(j, c)
    BY <2>4 DEF MergeNothing
  <2>5. CASE MergeResult(j, c)
    BY <2>5 DEF MergeResult
  <2>6. CASE DeadlinePasses(j, c)
    BY <2>6 DEF DeadlinePasses
  <2> QED
    BY <1>7, <2>1, <2>2, <2>3, <2>4, <2>5, <2>6 DEF AnnotatorStep
<1>8. CASE UNCHANGED vars
  BY <1>8 DEF vars
<1> HIDE DEF lifeVars
<1>9. ASSUME NEW c \in Clients, NEW k \in Keys, NEW j \in Jobs,
             BeginBlocking(c, k, j)
      PROVE  Birth(c, k, j)
  BY <1>9 DEF Birth
<1> QED
  BY <1>1, <1>2, <1>3, <1>4, <1>5, <1>6, <1>7, <1>8, <1>9 DEF Next, Finish

(* A worker step is the only one that moves a worker's program counter or  *)
(* its local answer, except that a birth parks it at its first step.       *)
LEMMA SnapshotStays ==
  ASSUME TypeOK, SettleInv, [Next]_vars, NEW i \in Jobs, snap[i] # None
  PROVE  snap'[i] # None
<1> USE DEF TypeOK, hostVars, outcome, answerVars, workerVars, annVars, clockVars
<1>1. ASSUME NEW j \in Jobs, NEW a \in Answer, Show(j, a)
      PROVE  snap'[i] # None
  BY <1>1 DEF Show
<1>2. ASSUME NEW j \in Jobs, NEW found \in SUBSET Concurrent, Refresh(j, found),
             annState' \in [Jobs -> [Concurrent -> AnnStatuses]]
      PROVE  snap'[i] # None
  <2> DEFINE a == [snap[j] EXCEPT !.results = @ \cup found,
                                  !.states = annState'[j]]
  <2>1. CASE snap[j] = None
    BY <1>2, <2>1 DEF Refresh
  <2>2. CASE snap[j] # None
    <3>1. a \in Answer
      BY <1>2, <2>2, AnswerType
    <3>2. Show(j, a)
      BY <1>2, <2>2 DEF Refresh
    <3> QED
      BY <1>1, <3>1, <3>2
  <2> QED
    BY <2>1, <2>2
<1>3. ASSUME NEW j \in Jobs, WorkerStep(j) PROVE snap'[i] # None
  <2>1. CASE Advance(j)
    <3>1. PICK n \in Chunk(j) : Show(j, Published(j, n))
      BY <2>1 DEF Advance
    <3>2. Published(j, n) \in Answer
      <4>1. /\ n \in 0..Target
            /\ annRes[j] \in SUBSET (Concurrent \cup Sequential)
            /\ annState[j] \in [Concurrent -> AnnStatuses]
        BY DEF Chunk
      <4> HIDE DEF TypeOK
      <4> QED
        BY <4>1 DEF Published, Answer
    <3> QED
      BY <1>1, <3>1, <3>2
  <2>2. CASE WriteSettled(j)
    <3>1. PICK R \in SUBSET Sequential :
            Show(j, [base[j] EXCEPT !.results = @ \cup R])
      BY <2>2 DEF WriteSettled
    <3>2. [base[j] EXCEPT !.results = @ \cup R] \in Answer
      BY <2>2, AnswerType DEF WriteSettled, SettleInv
    <3> QED
      BY <1>1, <3>1, <3>2
  <2>3. CASE UNCHANGED snap
    BY <2>3
  <2> QED
    BY <1>3, <2>1, <2>2, <2>3
    DEF WorkerStep, PickUp, ViewsRaise, Open, OpenRaises, CheckLoop,
        SearchRaises, BeginSettle, EndWait, Judge, Conclude, Finally
<1>4. ASSUME NEW j \in Jobs, NEW c \in Concurrent,
             AnnotatorStep(j, c) \/ DeadlinePasses(j, c)
      PROVE  snap'[i] # None
  <2>1. CASE AnnotatorRaises(j, c)
    <3>1. annState' \in [Jobs -> [Concurrent -> AnnStatuses]]
      BY <2>1 DEF AnnotatorRaises, AnnStatuses
    <3> QED
      BY <1>2, <2>1, <3>1 DEF AnnotatorRaises
  <2>2. CASE MergeNothing(j, c)
    <3>1. annState' \in [Jobs -> [Concurrent -> AnnStatuses]]
      BY <2>2 DEF MergeNothing, AnnStatuses
    <3> QED
      BY <1>2, <2>2, <3>1 DEF MergeNothing
  <2>3. CASE MergeResult(j, c)
    <3>1. annState' \in [Jobs -> [Concurrent -> AnnStatuses]]
      BY <2>3 DEF MergeResult, AnnStatuses
    <3>2. Refresh(j, {c})
      BY <2>3 DEF MergeResult
    <3> QED
      BY <1>2, <3>1, <3>2
  <2>4. CASE UNCHANGED snap
    BY <2>4
  <2> QED
    BY <1>4, <2>1, <2>2, <2>3, <2>4
    DEF AnnotatorStep, StartAnnotator, AnnotatorReturns, DeadlinePasses
<1>5. ASSUME NEW c \in Clients, NEW k \in Keys, NEW j \in Jobs, Birth(c, k, j)
      PROVE  snap'[i] # None
  <2>1. NoAnswer \in Answer
    BY DEF NoAnswer, Answer, NoStates, AnnStatuses
  <2> QED
    BY <1>5, <2>1 DEF Birth, StartTerminal, Submit, BeginBlocking
<1>6. CASE Reap /\ UNCHANGED unreaped
  BY <1>6 DEF unreaped
<1>7. CASE UNCHANGED snap
  BY <1>7
<1>8. ASSUME NEW c \in Clients, FinishStart(c)
      PROVE  \/ \E k \in Keys, j \in Jobs : Birth(c, k, j)
             \/ UNCHANGED snap
  <2> DEFINE k == call[c][2]
  <2>1. k \in Keys
    BY <1>8, CallShape DEF FinishStart
  <2>2. \/ Rejoin(c, k)
        \/ \E j \in Jobs : /\ StartTerminal(c, k, j) \/ Submit(c, k, j)
                           /\ Vacant(k)
    BY <1>8 DEF FinishStart, Vacant
  <2>3. CASE Rejoin(c, k)
    BY <2>3 DEF Rejoin
  <2> HIDE DEF k
  <2> QED
    BY <2>1, <2>2, <2>3 DEF Birth
<1> QED
  BY <1>3, <1>4, <1>5, <1>6, <1>7, <1>8
  DEF Next, Finish, vars, Tick, Sweep, BeginStart, BeginPoll, FinishPoll,
      EndBlocking, StartRaises, StopJob, Birth

(* Every variable keeps its type: in particular no chunk carries sims_done *)
(* past the target and no age leaves its saturating range.                 *)
THEOREM TypeCorrect == Safety => [](TypeOK /\ SettleInv)
<1> USE DEF TypeOK, hostVars, outcome, answerVars, workerVars, annVars,
            clockVars
<1>1. Init => TypeOK /\ SettleInv
  BY DEF SettleInv, Init, Calls, Idle, NoStates, Statuses, ActiveStatuses, Points,
         AnnStatuses
<1>2. TypeOK /\ SettleInv /\ [Next]_vars => TypeOK'
  <2> SUFFICES ASSUME TypeOK, SettleInv, [Next]_vars PROVE TypeOK'
    OBVIOUS
  <2>1. CASE Tick
    <3>1. age' \in [Jobs -> 0..(Ttl + 1)]
      BY <2>1, OlderType DEF Tick
    <3>2. 0 \in 0..(IdleTimeout + 1)
      OBVIOUS
    <3>3. idle' \in [Jobs -> 0..(IdleTimeout + 1)]
      <4>1. idle' = [j \in Jobs |->
              IF j \in registered /\ Active(j) THEN Older(idle[j], IdleTimeout)
              ELSE 0]
        BY <2>1 DEF Tick
      <4>2. \A j \in Jobs : Older(idle[j], IdleTimeout) \in 0..(IdleTimeout + 1)
        BY OlderType
      <4> QED
        BY <3>2, <4>1, <4>2
    <3> QED
      BY <2>1, <3>1, <3>3 DEF Tick
  <2>2. ASSUME Reap PROVE /\ registered' \subseteq Jobs
                          /\ byKey' \in [Keys -> Jobs \cup {None}]
                          /\ stop' \in [Jobs -> BOOLEAN]
                          /\ error' \in [Jobs -> {"none", "abandoned", "raised"}]
    BY <2>2 DEF Reap
  <2>3. CASE Sweep
    BY <2>2, <2>3 DEF Sweep, unreaped
  <2>4. ASSUME NEW c \in Clients, NEW k \in Keys, BeginStart(c, k)
        PROVE  TypeOK'
    BY <2>2, <2>4 DEF BeginStart, unreaped, Calls
  <2>5. ASSUME NEW c \in Clients, NEW j \in Jobs, BeginPoll(c, j)
        PROVE  TypeOK'
    BY <2>2, <2>5 DEF BeginPoll, unreaped, Calls
  <2>6. ASSUME NEW c \in Clients, NEW k \in Keys, NEW j \in Jobs,
               BeginBlocking(c, k, j)
        PROVE  TypeOK'
    BY <2>6 DEF BeginBlocking, NewJob, Calls, Statuses, ActiveStatuses, Points
  <2>7. ASSUME NEW c \in Clients, FinishStart(c)
        PROVE  TypeOK'
    <3> DEFINE k == call[c][2]
    <3>1. k \in Keys
      BY <2>7, CallShape DEF FinishStart
    <3>2. call' = [call EXCEPT ![c] = Idle] => call' \in [Clients -> Calls]
      BY DEF Calls
    <3>3. CASE Rejoin(c, k)
      BY <3>2, <3>3 DEF Rejoin
    <3>4. ASSUME NEW j \in Jobs, StartTerminal(c, k, j) PROVE TypeOK'
      <4>1. NoAnswer \in Answer
        BY DEF NoAnswer, Answer, NoStates, AnnStatuses
      <4> QED
        BY <3>1, <3>2, <3>4, <4>1 DEF StartTerminal, NewJob, Statuses, Points
    <3>5. ASSUME NEW j \in Jobs, Submit(c, k, j) PROVE TypeOK'
      <4>1. queue' \in Seq(Jobs)
        BY <3>5, QueueType DEF Submit
      <4> QED
        BY <3>1, <3>2, <3>5, <4>1
        DEF Submit, NewJob, Statuses, ActiveStatuses, Points
    <3> QED
      BY <2>7, <3>3, <3>4, <3>5 DEF FinishStart
  <2>8. ASSUME NEW c \in Clients, FinishPoll(c) PROVE TypeOK'
    <3>1. call[c][2] \in Jobs
      BY <2>8, CallShape DEF FinishPoll
    <3>2. idle' \in [Jobs -> 0..(IdleTimeout + 1)]
      BY <2>8, <3>1 DEF FinishPoll
    <3> QED
      BY <2>8, <3>2 DEF FinishPoll, Calls
  <2>9. ASSUME NEW c \in Clients, EndBlocking(c) \/ StartRaises(c) PROVE TypeOK'
    BY <2>9 DEF EndBlocking, StartRaises, Calls
  <2>10. ASSUME NEW j \in Jobs, StopJob(j) PROVE TypeOK'
    BY <2>10 DEF StopJob
  <2>11. ASSUME NEW j \in Jobs, WorkerStep(j) PROVE TypeOK'
    <3> USE DEF Goto, Statuses, ActiveStatuses, Points
    <3>1. CASE PickUp(j)
      <4>1. queue' = queue \/ (queue # <<>> /\ queue' = Tail(queue))
        <5>1. CASE streaming[j]
          BY <3>1, <5>1, Zenon DEF PickUp
        <5>2. CASE ~streaming[j]
          BY <3>1, <5>2, Zenon DEF PickUp
        <5> QED
          BY <5>1, <5>2, Zenon
      <4>2. queue' \in Seq(Jobs)
        <5>1. queue # <<>> => Tail(queue) \in Seq(Jobs)
          BY QueueType
        <5> QED
          BY <4>1, <5>1
      <4>3. /\ pc' \in [Jobs -> Points]
            /\ status' \in [Jobs -> Statuses]
        BY <3>1 DEF PickUp
      <4> QED
        BY <3>1, <4>2, <4>3 DEF PickUp
    <3>2. CASE Open(j)
      <4> DEFINE more == [i \in 1..Len(ConcurrentList) |-> <<j, ConcurrentList[i]>>]
      <4>1. more \in Seq(Jobs \X Concurrent)
        OBVIOUS
      <4>2. annQueue \o more \in Seq(Jobs \X Concurrent)
        BY <4>1
      <4>3. /\ status' \in [Jobs -> Statuses]
            /\ handle' \in [Jobs -> {"none", "open", "closed"}]
            /\ pc' \in [Jobs -> Points]
            /\ UNCHANGED <<hostVars, error, answerVars, queue, base, annRes,
                           expired, clockVars>>
        BY <3>2 DEF Open
      <4>4. CASE UNCHANGED <<annState, ann, annQueue>>
        BY <4>3, <4>4
      <4>5. CASE /\ annState' = [annState EXCEPT ![j] =
                      [c \in Concurrent |-> "running"]]
                 /\ ann' = [ann EXCEPT ![j] = [c \in Concurrent |-> "queued"]]
                 /\ annQueue' = annQueue \o more
        <5>1. annState' \in [Jobs -> [Concurrent -> AnnStatuses]]
          BY <4>5 DEF AnnStatuses
        <5>2. ann' \in [Jobs -> [Concurrent ->
                          {"absent", "queued", "computing", "merging", "done"}]]
          BY <4>5
        <5>3. annQueue' \in Seq(Jobs \X Concurrent)
          BY <4>2, <4>5
        <5> QED
          BY <4>3, <5>1, <5>2, <5>3
      <4> QED
        BY <3>2, <4>4, <4>5 DEF Open
    <3>3. CASE OpenRaises(j)
      <4>1. handle' \in [Jobs -> {"none", "open", "closed"}]
        BY <3>3 DEF OpenRaises
      <4>2. /\ error' \in [Jobs -> {"none", "abandoned", "raised"}]
            /\ status' \in [Jobs -> Statuses]
            /\ pc' \in [Jobs -> Points]
        BY <3>3 DEF OpenRaises, Fail
      <4> QED
        BY <3>3, <4>1, <4>2 DEF OpenRaises
    <3>4. CASE CheckLoop(j)
      BY <3>4 DEF CheckLoop
    <3>5. CASE Advance(j)
      <4>1. \A n \in Chunk(j) : n \in 0..Target /\ Published(j, n) \in Answer
        BY DEF Chunk, Published, Answer
      <4> QED
        <5>1. PICK n \in Chunk(j), more \in BOOLEAN :
                /\ sims' = [sims EXCEPT ![j] = n]
                /\ Show(j, Published(j, n))
                /\ Goto(j, IF n > sims[j] /\ more THEN "loop" ELSE "settling")
          BY <3>5 DEF Advance
        <5>2. pc' \in [Jobs -> Points]
          BY <5>1
        <5>3. sims' \in [Jobs -> 0..Target]
          BY <5>1, <4>1
        <5>4. /\ snap' \in [Jobs -> Answer \cup {None}]
              /\ version' \in [Jobs -> Nat]
              /\ age' \in [Jobs -> 0..(Ttl + 1)]
          BY <5>1, <4>1 DEF Show
        <5> QED
          BY <3>5, <5>2, <5>3, <5>4 DEF Advance
    <3>6. CASE SearchRaises(j)
      BY <3>6 DEF SearchRaises, Fail
    <3>7. CASE BeginSettle(j)
      BY <3>7 DEF BeginSettle
    <3>8. CASE EndWait(j)
      <4>1. base' \in [Jobs -> Answer \cup {None}]
        BY <3>8 DEF EndWait
      <4>2. \E p \in {"judging", "annotating"} : pc' = [pc EXCEPT ![j] = p]
        BY <3>8 DEF EndWait
      <4> QED
        BY <3>8, <4>1, <4>2 DEF EndWait
    <3>9. CASE WriteSettled(j)
      <4>1. PICK R \in SUBSET Sequential :
              Show(j, [base[j] EXCEPT !.results = @ \cup R])
        BY <3>9 DEF WriteSettled
      <4>2. [base[j] EXCEPT !.results = @ \cup R] \in Answer
        BY <3>9, AnswerType DEF WriteSettled, SettleInv
      <4> DEFINE a == [base[j] EXCEPT !.results = @ \cup R]
      <4> HIDE DEF a
      <4>3. a \in Answer /\ Show(j, a)
        BY <4>1, <4>2 DEF a
      <4>4. /\ snap' \in [Jobs -> Answer \cup {None}]
            /\ version' \in [Jobs -> Nat]
            /\ age' \in [Jobs -> 0..(Ttl + 1)]
        BY <4>3 DEF Show
      <4>5. pc' \in [Jobs -> Points] /\ base' \in [Jobs -> Answer \cup {None}]
        BY <3>9 DEF WriteSettled
      <4> QED
        BY <3>9, <4>4, <4>5 DEF WriteSettled
    <3>10. CASE Judge(j)
      BY <3>10 DEF Judge, Verdict
    <3>11. CASE Conclude(j)
      <4>1. /\ status' \in [Jobs -> Statuses]
            /\ pc' \in [Jobs -> Points]
        <5>1. \E x \in {"done", "cancelled"} : status' = [status EXCEPT ![j] = x]
          BY <3>11 DEF Conclude
        <5>2. pc' = [pc EXCEPT ![j] = "closing"]
          BY <3>11 DEF Conclude
        <5> QED
          BY <5>1, <5>2
      <4> QED
        BY <3>11, <4>1 DEF Conclude
    <3>12. CASE Finally(j)
      <4>1. handle' \in [Jobs -> {"none", "open", "closed"}]
        BY <3>12 DEF Finally
      <4>2. age' \in [Jobs -> 0..(Ttl + 1)] /\ pc' \in [Jobs -> Points]
        BY <3>12 DEF Finally
      <4> QED
        BY <3>12, <4>1, <4>2 DEF Finally
    <3>13. CASE ViewsRaise(j)
      BY <3>13 DEF ViewsRaise
    <3> QED
      BY <2>11, <3>1, <3>2, <3>3, <3>4, <3>5, <3>6, <3>7, <3>8, <3>9, <3>10,
         <3>11, <3>12, <3>13 DEF WorkerStep
  <2>12. ASSUME NEW j \in Jobs, NEW c \in Concurrent, AnnotatorStep(j, c)
         PROVE  TypeOK'
    <3>0. ASSUME NEW found \in SUBSET Concurrent, Refresh(j, found),
                 annState' \in [Jobs -> [Concurrent -> AnnStatuses]]
          PROVE  /\ snap' \in [Jobs -> Answer \cup {None}]
                 /\ version' \in [Jobs -> Nat]
                 /\ age' \in [Jobs -> 0..(Ttl + 1)]
      <4>1. CASE snap[j] = None
        BY <3>0, <4>1 DEF Refresh
      <4>2. CASE snap[j] # None
        <5> DEFINE a == [snap[j] EXCEPT !.results = @ \cup found,
                                        !.states = annState'[j]]
        <5>1. a \in Answer
          BY <3>0, <4>2, AnswerType
        <5>2. Show(j, a)
          BY <3>0, <4>2 DEF Refresh
        <5> HIDE DEF a
        <5> QED
          BY <5>1, <5>2 DEF Show
      <4> QED
        BY <4>1, <4>2
    <3>1. CASE StartAnnotator(j, c)
      <4>1. annQueue' \in Seq(Jobs \X Concurrent)
        BY <3>1, QueueType DEF StartAnnotator
      <4> QED
        BY <3>1, <4>1 DEF StartAnnotator
    <3>2. CASE AnnotatorReturns(j, c)
      BY <3>2 DEF AnnotatorReturns
    <3>3. CASE AnnotatorRaises(j, c)
      <4>1. annState' \in [Jobs -> [Concurrent -> AnnStatuses]]
        BY <3>3 DEF AnnotatorRaises, AnnStatuses
      <4>2. /\ snap' \in [Jobs -> Answer \cup {None}]
            /\ version' \in [Jobs -> Nat]
            /\ age' \in [Jobs -> 0..(Ttl + 1)]
        <5>1. {} \in SUBSET Concurrent /\ Refresh(j, {})
          BY <3>3 DEF AnnotatorRaises
        <5> QED
          BY <3>0, <4>1, <5>1
      <4> QED
        BY <3>3, <4>1, <4>2 DEF AnnotatorRaises
    <3>4. CASE MergeNothing(j, c)
      <4>1. annState' \in [Jobs -> [Concurrent -> AnnStatuses]]
        BY <3>4 DEF MergeNothing, AnnStatuses
      <4>2. /\ snap' \in [Jobs -> Answer \cup {None}]
            /\ version' \in [Jobs -> Nat]
            /\ age' \in [Jobs -> 0..(Ttl + 1)]
        <5>1. {} \in SUBSET Concurrent /\ Refresh(j, {})
          BY <3>4 DEF MergeNothing
        <5> QED
          BY <3>0, <4>1, <5>1
      <4> QED
        BY <3>4, <4>1, <4>2 DEF MergeNothing
    <3>5. CASE MergeResult(j, c)
      <4>1. annState' \in [Jobs -> [Concurrent -> AnnStatuses]]
        BY <3>5 DEF MergeResult, AnnStatuses
      <4>2. /\ snap' \in [Jobs -> Answer \cup {None}]
            /\ version' \in [Jobs -> Nat]
            /\ age' \in [Jobs -> 0..(Ttl + 1)]
        <5>1. {c} \in SUBSET Concurrent /\ Refresh(j, {c})
          BY <3>5 DEF MergeResult
        <5> QED
          BY <3>0, <4>1, <5>1
      <4>3. annRes' \in [Jobs -> SUBSET Concurrent]
        <5>1. annRes \in [Jobs -> SUBSET Concurrent]
          OBVIOUS
        <5> HIDE DEF TypeOK
        <5> QED
          BY <3>5, <5>1 DEF MergeResult
      <4>4. ann' \in [Jobs -> [Concurrent ->
                        {"absent", "queued", "computing", "merging", "done"}]]
        BY <3>5 DEF MergeResult
      <4> QED
        BY <3>5, <4>1, <4>2, <4>3, <4>4 DEF MergeResult
    <3> QED
      BY <2>12, <3>1, <3>2, <3>3, <3>4, <3>5 DEF AnnotatorStep
  <2>13. ASSUME NEW j \in Jobs, NEW c \in Concurrent, DeadlinePasses(j, c)
         PROVE  TypeOK'
    BY <2>13 DEF DeadlinePasses
  <2>14. CASE UNCHANGED vars
    BY <2>14 DEF vars
  <2> QED
    BY <2>1, <2>3, <2>4, <2>5, <2>6, <2>7, <2>8, <2>9, <2>10, <2>11, <2>12,
       <2>13, <2>14 DEF Next, Finish
<1>3. TypeOK /\ SettleInv /\ [Next]_vars => SettleInv'
  <2> SUFFICES ASSUME TypeOK, SettleInv, [Next]_vars PROVE SettleInv'
    OBVIOUS
  <2>1. \A i \in Jobs : snap[i] # None => snap'[i] # None
    BY <1>2, SnapshotStays
  <2> USE <2>1 DEF SettleInv
  <2>2. ASSUME NEW j \in Jobs, WorkerStep(j) PROVE SettleInv'
    <3> USE DEF Goto
    <3>1. CASE PickUp(j)
      <4>1. /\ base' = base
            /\ \/ pc' = [pc EXCEPT ![j] = "closing"]
               \/ pc' = [pc EXCEPT ![j] = "opening"]
        BY <3>1 DEF PickUp
      <4>2. \A i \in Jobs : pc'[i] \in {pc[i], "closing", "opening"}
        BY <4>1
      <4> QED
        BY <4>1, <4>2
    <3>2. CASE Open(j)
      BY <3>2 DEF Open
    <3>3. CASE OpenRaises(j)
      BY <3>3 DEF OpenRaises, Fail
    <3>4. CASE CheckLoop(j)
      BY <3>4 DEF CheckLoop
    <3>5. CASE Advance(j)
      BY <3>5 DEF Advance
    <3>6. CASE SearchRaises(j)
      BY <3>6 DEF SearchRaises, Fail
    <3>7. CASE BeginSettle(j)
      BY <3>7 DEF BeginSettle
    <3>8. CASE EndWait(j)
      BY <3>8 DEF EndWait
    <3>9. CASE WriteSettled(j)
      BY <3>9 DEF WriteSettled
    <3>10. CASE Judge(j)
      BY <3>10 DEF Judge, Verdict
    <3>11. CASE Conclude(j)
      BY <3>11 DEF Conclude
    <3>12. CASE Finally(j)
      BY <3>12 DEF Finally
    <3>13. CASE ViewsRaise(j)
      BY <3>13 DEF ViewsRaise
    <3> QED
      BY <2>2, <3>1, <3>2, <3>3, <3>4, <3>5, <3>6, <3>7, <3>8, <3>9, <3>10,
         <3>11, <3>12, <3>13 DEF WorkerStep
  <2>3. ASSUME NEW c \in Clients, NEW k \in Keys, NEW j \in Jobs, Birth(c, k, j)
        PROVE  SettleInv'
    BY <2>3 DEF Birth, StartTerminal, Submit, BeginBlocking
  <2>4. CASE UNCHANGED <<pc, base>>
    BY <2>4
  <2> QED
    BY <2>2, <2>3, <2>4, StepKinds DEF unreaped, lifeVars, StopJob
<1> QED
  BY <1>1, <1>2, <1>3, PTL DEF Safety

-----------------------------------------------------------------------------
(* From submission to verdict a job is active; an active job is in the     *)
(* table, and if it streams its key leads to it.                           *)
Driven == {"queued", "opening", "loop", "advancing", "settling", "waiting",
           "annotating", "judging", "accepting", "cancelling"}

LifeInv == \A j \in Jobs :
    /\ pc[j] \in Driven => Active(j)
    /\ Unborn(j) => j \notin registered /\ pc[j] = "unborn"
    /\ ~Unborn(j) => pc[j] # "unborn" /\ key[j] \in Keys
    /\ Active(j) => /\ j \in registered
                    /\ streaming[j] => byKey[key[j]] = j

(* LifeInv is inductive.                                                   *)
THEOREM LiveJobsInv == Safety => []LifeInv
<1> USE DEF TypeOK, LifeInv, Active, Unborn, ActiveStatuses, Driven
<1>1. Init => LifeInv
  BY DEF Init
<1>2. TypeOK /\ LifeInv /\ [Next]_vars => LifeInv'
  <2> SUFFICES ASSUME TypeOK, LifeInv, [Next]_vars PROVE LifeInv'
    OBVIOUS
  <2>1. ASSUME NEW j \in Jobs, WorkerStep(j) PROVE LifeInv'
    <3> USE DEF Goto, hostVars, outcome
    <3>1. CASE PickUp(j)
      <4>1. /\ UNCHANGED hostVars
            /\ pc[j] = "queued"
            /\ \/ /\ status' = [status EXCEPT ![j] = "cancelled"]
                  /\ pc' = [pc EXCEPT ![j] = "closing"]
               \/ UNCHANGED status /\ pc' = [pc EXCEPT ![j] = "opening"]
        BY <3>1, Zenon DEF PickUp
      <4> QED
        BY <4>1
    <3>2. CASE Open(j)
      BY <3>2 DEF Open
    <3>3. CASE OpenRaises(j)
      BY <3>3 DEF OpenRaises, Fail
    <3>4. CASE CheckLoop(j)
      BY <3>4 DEF CheckLoop
    <3>5. CASE Advance(j)
      <4>1. /\ UNCHANGED <<hostVars, outcome>>
            /\ pc[j] = "advancing"
            /\ \E p \in {"loop", "settling"} : pc' = [pc EXCEPT ![j] = p]
        BY <3>5 DEF Advance
      <4> QED
        BY <4>1
    <3>6. CASE SearchRaises(j)
      BY <3>6 DEF SearchRaises, Fail
    <3>7. CASE BeginSettle(j)
      BY <3>7 DEF BeginSettle
    <3>8. CASE EndWait(j)
      BY <3>8 DEF EndWait
    <3>9. CASE WriteSettled(j)
      BY <3>9 DEF WriteSettled
    <3>10. CASE Judge(j)
      BY <3>10 DEF Judge, Verdict
    <3>11. CASE Conclude(j)
      BY <3>11 DEF Conclude
    <3>12. CASE Finally(j)
      BY <3>12 DEF Finally
    <3>13. CASE ViewsRaise(j)
      BY <3>13 DEF ViewsRaise
    <3> QED
      BY <2>1, <3>1, <3>2, <3>3, <3>4, <3>5, <3>6, <3>7, <3>8, <3>9, <3>10,
         <3>11, <3>12, <3>13 DEF WorkerStep
  <2>2. ASSUME NEW c \in Clients, NEW k \in Keys, NEW j \in Jobs, Birth(c, k, j)
        PROVE  LifeInv'
    <3>1. CASE StartTerminal(c, k, j) /\ Vacant(k)
      BY <3>1 DEF StartTerminal, NewJob, Vacant
    <3>2. CASE Submit(c, k, j) /\ Vacant(k)
      BY <3>2 DEF Submit, NewJob, Vacant
    <3>3. CASE BeginBlocking(c, k, j)
      BY <3>3 DEF BeginBlocking, NewJob
    <3> QED
      BY <2>2, <3>1, <3>2, <3>3 DEF Birth
  <2>3. CASE Reap /\ UNCHANGED unreaped
    BY <2>3 DEF Reap, Outlived, Freed, unreaped, workerVars
  <2>4. ASSUME NEW j \in Jobs, StopJob(j) PROVE LifeInv'
    BY <2>4 DEF StopJob, workerVars, outcome
  <2>5. CASE UNCHANGED lifeVars
    BY <2>5 DEF lifeVars, workerVars, outcome
  <2> QED
    BY <2>1, <2>2, <2>3, <2>4, <2>5, StepKinds
<1> QED
  BY <1>1, <1>2, TypeCorrect, PTL DEF Safety

(* start never spawns a duplicate: a job that can be rejoined stays in the *)
(* table and under its key until it has settled.                           *)
THEOREM LiveJobs == Safety => []LiveJobReachable
<1>1. LifeInv => LiveJobReachable
  BY DEF LifeInv, LiveJobReachable
<1> QED
  BY <1>1, LiveJobsInv, PTL

(* Where the handle is at every step of the worker.                        *)
HandleInv == \A j \in Jobs :
    /\ pc[j] \in {"unborn", "queued", "opening"} => handle[j] = "none"
    /\ pc[j] \in Driven \ {"queued", "opening"} => handle[j] = "open"
    /\ pc[j] = "returned" => handle[j] # "open"

(* Every handle that is opened is closed before its thread leaves the job, *)
(* and none is closed under a running search.                              *)
THEOREM HandlesClosed == Safety => []CloseExactlyOnce
<1> USE DEF TypeOK, LifeInv, HandleInv, Unborn, Driven
<1>1. Init => HandleInv
  BY DEF Init
<1>2. TypeOK /\ LifeInv /\ HandleInv /\ [Next]_vars => HandleInv'
  <2> SUFFICES ASSUME TypeOK, LifeInv, HandleInv, [Next]_vars PROVE HandleInv'
    OBVIOUS
  <2>1. ASSUME NEW j \in Jobs, WorkerStep(j) PROVE HandleInv'
    <3> USE DEF Goto
    <3>1. CASE PickUp(j)
      <4>1. /\ UNCHANGED handle
            /\ pc[j] = "queued"
            /\ \E p \in {"closing", "opening"} : pc' = [pc EXCEPT ![j] = p]
        BY <3>1, Zenon DEF PickUp
      <4> QED
        BY <4>1
    <3>2. CASE Open(j)
      BY <3>2 DEF Open
    <3>3. CASE OpenRaises(j)
      BY <3>3 DEF OpenRaises, Fail
    <3>4. CASE CheckLoop(j)
      BY <3>4 DEF CheckLoop
    <3>5. CASE Advance(j)
      <4>1. /\ UNCHANGED handle
            /\ pc[j] = "advancing"
            /\ \E p \in {"loop", "settling"} : pc' = [pc EXCEPT ![j] = p]
        BY <3>5 DEF Advance
      <4> QED
        BY <4>1
    <3>6. CASE SearchRaises(j)
      BY <3>6 DEF SearchRaises, Fail
    <3>7. CASE BeginSettle(j)
      BY <3>7 DEF BeginSettle
    <3>8. CASE EndWait(j)
      BY <3>8 DEF EndWait
    <3>9. CASE WriteSettled(j)
      BY <3>9 DEF WriteSettled
    <3>10. CASE Judge(j)
      BY <3>10 DEF Judge, Verdict
    <3>11. CASE Conclude(j)
      BY <3>11 DEF Conclude
    <3>12. CASE Finally(j)
      BY <3>12 DEF Finally
    <3>13. CASE ViewsRaise(j)
      BY <3>13 DEF ViewsRaise
    <3> QED
      BY <2>1, <3>1, <3>2, <3>3, <3>4, <3>5, <3>6, <3>7, <3>8, <3>9, <3>10,
         <3>11, <3>12, <3>13 DEF WorkerStep
  <2>2. ASSUME NEW c \in Clients, NEW k \in Keys, NEW j \in Jobs, Birth(c, k, j)
        PROVE  HandleInv'
    BY <2>2 DEF Birth, StartTerminal, Submit, BeginBlocking, NewJob
  <2>3. CASE UNCHANGED <<pc, handle>>
    BY <2>3
  <2> QED
    BY <2>1, <2>2, <2>3, StepKinds DEF unreaped, StopJob, lifeVars, workerVars
<1>3. HandleInv => CloseExactlyOnce
  BY DEF CloseExactlyOnce
<1> QED
  BY <1>1, <1>2, <1>3, TypeCorrect, LiveJobsInv, PTL DEF Safety

(* What a blocking search has to show for itself at every step.            *)
BlockingInv == \A j \in Jobs :
    /\ Unborn(j) => ~streaming[j]
    /\ sims[j] > 0 => snap[j] # None
    /\ ~streaming[j] =>
         /\ ~stop[j] /\ error[j] # "abandoned"
         /\ pc[j] \in Driven \ {"queued", "opening", "loop", "advancing"}
              => snap[j] # None
         /\ pc[j] \in {"closing", "returned"}
              => snap[j] # None \/ error[j] = "raised"

(* BlockingInv is inductive.                                               *)
THEOREM BlockingCallsInv == Safety => []BlockingInv
<1> USE DEF TypeOK, BlockingInv, Driven, Unborn
<1>1. Init => BlockingInv
  BY DEF Init
<1>2. TypeOK /\ SettleInv /\ LifeInv /\ BlockingInv /\ [Next]_vars => BlockingInv'
  <2> SUFFICES ASSUME TypeOK, SettleInv, LifeInv, BlockingInv, [Next]_vars
               PROVE  BlockingInv'
    OBVIOUS
  <2>0. \A i \in Jobs : snap[i] # None => snap'[i] # None
    BY SnapshotStays
  <2>1. ASSUME NEW j \in Jobs, WorkerStep(j) PROVE BlockingInv'
    <3> USE <2>0 DEF Goto, hostVars, outcome, answerVars
    <3>1. CASE PickUp(j)
      <4>1. /\ UNCHANGED <<hostVars, error, answerVars>>
            /\ pc[j] = "queued"
            /\ \/ /\ stop[j]
                  /\ status' = [status EXCEPT ![j] = "cancelled"]
                  /\ pc' = [pc EXCEPT ![j] = "closing"]
               \/ UNCHANGED status /\ pc' = [pc EXCEPT ![j] = "opening"]
        BY <3>1, Zenon DEF PickUp
      <4>2. stop[j] => streaming[j]
        OBVIOUS
      <4> QED
        BY <4>1, <4>2
    <3>2. CASE Open(j)
      BY <3>2 DEF Open
    <3>3. CASE OpenRaises(j)
      BY <3>3 DEF OpenRaises, Fail
    <3>4. CASE CheckLoop(j)
      BY <3>4 DEF CheckLoop
    <3>5. CASE Advance(j)
      <4>1. PICK n \in Chunk(j) :
              /\ Show(j, Published(j, n))
              /\ sims' = [sims EXCEPT ![j] = n]
              /\ \E p \in {"loop", "settling"} : pc' = [pc EXCEPT ![j] = p]
        BY <3>5 DEF Advance
      <4>2. Published(j, n) \in Answer
        BY <4>1 DEF Chunk, Published, Answer
      <4>3. snap'[j] # None
        BY <4>1, <4>2 DEF Show
      <4>4. n \in Nat
        BY DEF Chunk
      <4> QED
        BY <3>5, <4>1, <4>3, <4>4 DEF Advance
    <3>6. CASE SearchRaises(j)
      BY <3>6 DEF SearchRaises, Fail
    <3>7. CASE BeginSettle(j)
      BY <3>7 DEF BeginSettle
    <3>8. CASE EndWait(j)
      <4>1. /\ UNCHANGED <<hostVars, outcome, answerVars>>
            /\ pc[j] = "waiting"
            /\ \E p \in {"judging", "annotating"} : pc' = [pc EXCEPT ![j] = p]
        BY <3>8 DEF EndWait
      <4> QED
        BY <4>1 DEF SettleInv
    <3>9. CASE WriteSettled(j)
      BY <3>9 DEF WriteSettled
    <3>10. CASE Judge(j)
      BY <3>10 DEF Judge, Verdict
    <3>11. CASE Conclude(j)
      BY <3>11 DEF Conclude
    <3>12. CASE Finally(j)
      BY <3>12 DEF Finally
    <3>13. CASE ViewsRaise(j)
      BY <3>13 DEF ViewsRaise
    <3> QED
      BY <2>1, <3>1, <3>2, <3>3, <3>4, <3>5, <3>6, <3>7, <3>8, <3>9, <3>10,
         <3>11, <3>12, <3>13 DEF WorkerStep
  <2>2. ASSUME NEW c \in Clients, NEW k \in Keys, NEW j \in Jobs, Birth(c, k, j)
        PROVE  BlockingInv'
    <3>1. CASE StartTerminal(c, k, j)
      BY <2>0, <3>1 DEF StartTerminal, NewJob
    <3>2. CASE Submit(c, k, j)
      BY <2>0, <3>2 DEF Submit, NewJob, answerVars
    <3>3. CASE BeginBlocking(c, k, j)
      BY <2>0, <3>3 DEF BeginBlocking, NewJob, answerVars, LifeInv
    <3> QED
      BY <2>2, <3>1, <3>2, <3>3 DEF Birth
  <2>3. CASE Reap /\ UNCHANGED unreaped
    BY <2>3 DEF Reap, Abandoned, unreaped, workerVars, answerVars
  <2>4. ASSUME NEW j \in Jobs, StopJob(j) PROVE BlockingInv'
    BY <2>4 DEF StopJob, workerVars, answerVars, outcome
  <2>5. CASE UNCHANGED lifeVars
    BY <2>0, <2>5 DEF lifeVars, workerVars, outcome
  <2> QED
    BY <2>1, <2>2, <2>3, <2>4, <2>5, StepKinds
<1> QED
  BY <1>1, <1>2, TypeCorrect, LiveJobsInv, PTL DEF Safety

(* No other thread stops a blocking search or blames its caller for not    *)
(* polling, and the caller never receives None without an error.           *)
THEOREM BlockingCalls == Safety => []BlockingUndisturbed
<1>1. BlockingInv => BlockingUndisturbed
  BY DEF BlockingInv, BlockingUndisturbed
<1> QED
  BY <1>1, BlockingCallsInv, PTL

-----------------------------------------------------------------------------
(* Seen from outside a worker step either changes nothing or settles.      *)
LEMMA WorkerSettles ==
  ASSUME TypeOK, LifeInv, NEW j \in Jobs, WorkerStep(j)
  PROVE  /\ UNCHANGED <<registered, byKey, key, streaming>>
         /\ \/ \A i \in Jobs : /\ Active(i)' <=> Active(i)
                               /\ Unborn(i)' <=> Unborn(i)
            \/ /\ Active(j) /\ ~Active(j)' /\ ~Unborn(j)'
               /\ \A i \in Jobs \ {j} : status'[i] = status[i]
<1> USE DEF TypeOK, LifeInv, Driven, Active, ActiveStatuses, Unborn, hostVars,
            outcome
<1>1. CASE PickUp(j)
  <2>1. /\ UNCHANGED hostVars
        /\ pc[j] = "queued"
        /\ UNCHANGED status \/ status' = [status EXCEPT ![j] = "cancelled"]
    BY <1>1, Zenon DEF PickUp
  <2> QED
    BY <2>1
<1>2. CASE Open(j)
  BY <1>2 DEF Open
<1>3. CASE OpenRaises(j)
  BY <1>3 DEF OpenRaises, Fail
<1>4. CASE SearchRaises(j)
  BY <1>4 DEF SearchRaises, Fail
<1>5. CASE Conclude(j)
  <2>1. /\ UNCHANGED hostVars
        /\ pc[j] \in {"cancelling", "accepting"}
        /\ \E s \in {"done", "cancelled"} : status' = [status EXCEPT ![j] = s]
    BY <1>5 DEF Conclude
  <2> QED
    BY <2>1
<1>6. CASE UNCHANGED <<hostVars, status>>
  BY <1>6
<1> QED
  BY <1>1, <1>2, <1>3, <1>4, <1>5, <1>6
  DEF WorkerStep, ViewsRaise, CheckLoop, Advance, BeginSettle, EndWait,
      WriteSettled, Judge, Finally

(* The manager with its threads, pools and reaper implements the abstract  *)
(* table of searches.                                                      *)
THEOREM Implementation == Safety => ImplementsTable
<1> USE DEF Table!vars, phaseOf, ownerOf
<1>1. Init => Table!Init
  BY DEF Init, Table!Init, Unborn
<1>2. TypeOK /\ LifeInv /\ BlockingInv /\ [Next]_vars
        => [Table!Next]_(Table!vars)
  <2> SUFFICES ASSUME TypeOK, LifeInv, BlockingInv, [Next]_vars
               PROVE  Table!Next \/ UNCHANGED <<phaseOf, ownerOf>>
    OBVIOUS
  <2>1. ASSUME NEW j \in Jobs, WorkerStep(j)
        PROVE  Table!Settle(j) \/ UNCHANGED <<phaseOf, ownerOf>>
    <3>1. UNCHANGED ownerOf
      BY <2>1, WorkerSettles
    <3>2. CASE \A i \in Jobs : (Active(i)' <=> Active(i)) /\ (Unborn(i)' <=> Unborn(i))
      <4>1. UNCHANGED phaseOf
        BY <2>1, <3>2, WorkerSettles
      <4> QED
        BY <3>1, <4>1
    <3>3. CASE /\ Active(j) /\ ~Active(j)' /\ ~Unborn(j)'
               /\ \A i \in Jobs \ {j} : status'[i] = status[i]
      <4>1. j \in registered /\ registered' = registered /\ ~Unborn(j)
        BY <2>1, <3>3, WorkerSettles
        DEF LifeInv, Active, ActiveStatuses, Unborn
      <4>2. \A i \in Jobs \ {j} : (Active(i)' <=> Active(i)) /\ (Unborn(i)' <=> Unborn(i))
        BY <3>3 DEF Active, Unborn
      <4>3. phaseOf' = [phaseOf EXCEPT ![j] = "settled"]
        BY <3>3, <4>1, <4>2
      <4>4. phaseOf[j] = "live"
        BY <3>3, <4>1
      <4> QED
        BY <3>1, <4>3, <4>4 DEF Table!Settle
    <3> QED
      BY <2>1, <3>2, <3>3, WorkerSettles
  <2>2. ASSUME NEW c \in Clients, NEW k \in Keys, NEW j \in Jobs, Birth(c, k, j)
        PROVE  Table!Create(j, k) \/ Table!CreateSettled(j, k) \/ Table!CreatePrivate(j)
    <3> USE DEF TypeOK, Active, ActiveStatuses, Unborn, NewJob
    <3>1. Vacant(k) => \A i \in Jobs : phaseOf[i] = "live" => ownerOf[i] # k
      BY DEF Vacant, LifeInv
    <3>2. CASE StartTerminal(c, k, j) /\ Vacant(k)
      BY <3>1, <3>2 DEF StartTerminal, Table!CreateSettled
    <3>3. CASE Submit(c, k, j) /\ Vacant(k)
      BY <3>1, <3>3 DEF Submit, Table!Create
    <3>4. CASE BeginBlocking(c, k, j)
      BY <3>4 DEF BeginBlocking, Table!CreatePrivate, BlockingInv
    <3> QED
      BY <2>2, <3>2, <3>3, <3>4 DEF Birth
  <2>3. ASSUME Reap, UNCHANGED unreaped
        PROVE  \/ \E S \in SUBSET Jobs : Table!Forget(S)
               \/ UNCHANGED <<phaseOf, ownerOf>>
    <3>1. UNCHANGED ownerOf
      BY <2>3 DEF unreaped
    <3>2. /\ registered' = registered \ Outlived
          /\ \A i \in Jobs : (Active(i)' <=> Active(i)) /\ (Unborn(i)' <=> Unborn(i))
      BY <2>3 DEF Reap, unreaped, Active, Unborn
    <3>3. \A i \in Outlived : phaseOf[i] = "settled"
      BY DEF Outlived, LifeInv, TypeOK
    <3>4. phaseOf' = [i \in Jobs |-> IF i \in Outlived THEN "forgotten" ELSE phaseOf[i]]
      BY <3>2 DEF Outlived, LifeInv
    <3>5. CASE Outlived = {}
      <4>1. phaseOf' = phaseOf
        BY <3>2, <3>5
      <4> QED
        BY <3>1, <4>1
    <3>6. CASE Outlived # {}
      <4>1. Outlived \in SUBSET Jobs
        BY DEF Outlived, TypeOK
      <4>2. Table!Forget(Outlived)
        BY <3>1, <3>3, <3>4, <3>6 DEF Table!Forget
      <4> HIDE DEF phaseOf, ownerOf
      <4> QED
        BY <4>1, <4>2
    <3> QED
      BY <3>5, <3>6
  <2>4. CASE UNCHANGED <<registered, key, streaming, status>>
    BY <2>4 DEF Active, Unborn
  <2> QED
    BY <2>1, <2>2, <2>3, <2>4, StepKinds
    DEF Table!Next, StopJob, lifeVars, outcome
<1> QED
  BY <1>1, <1>2, TypeCorrect, LiveJobsInv, BlockingCallsInv, PTL
  DEF Safety, ImplementsTable, Table!Safety

-----------------------------------------------------------------------------
(* Before the search of a job is open there is nothing to show.            *)
Early == {"unborn", "queued", "opening"}

(* While its snapshot is decorated by the concurrent annotators alone.     *)
Shown == {"loop", "advancing", "settling", "waiting", "annotating"}

EarlyInv == \A j \in Jobs : pc[j] \in Early =>
    /\ sims[j] = 0 /\ version[j] = 0 /\ snap[j] = None
    /\ annRes[j] = {} /\ annState[j] = NoStates
    /\ \A c \in Concurrent : ann[j][c] = "absent"

QueueInv == \A i \in DOMAIN annQueue : pc[annQueue[i][1]] \notin Early

(* The local copy of _settle is of the tree that is still being shown.     *)
CopyInv == \A j \in Jobs : pc[j] = "annotating" =>
    Sequential # {} /\ base[j].sims = sims[j]

MatchInv == \A j \in Jobs :
    /\ version[j] > 0 => snap[j] # None
    /\ snap[j] # None => snap[j].sims = sims[j]

VisibleInv == \A j \in Jobs :
    /\ snap[j] # None
    /\ Sequential # {} => pc[j] \in Shown
    => annRes[j] \subseteq snap[j].results /\ snap[j].states = annState[j]

AnswerInv == EarlyInv /\ QueueInv /\ CopyInv /\ MatchInv /\ VisibleInv

(* What an answer is made of.                                              *)
LEMMA AnswerParts ==
  ASSUME NEW a \in Answer, NEW R \in SUBSET (Concurrent \cup Sequential),
         NEW st \in [Concurrent -> AnnStatuses]
  PROVE  /\ a # None
         /\ [a EXCEPT !.results = @ \cup R].sims = a.sims
         /\ [a EXCEPT !.results = @ \cup R, !.states = st].sims = a.sims
         /\ [a EXCEPT !.results = @ \cup R, !.states = st].results
              = a.results \cup R
         /\ [a EXCEPT !.results = @ \cup R, !.states = st].states = st
BY DEF Answer

(* _refresh_annotation_state touches the snapshot only if there is one.    *)
LEMMA Refreshed ==
  ASSUME TypeOK, NEW j \in Jobs, NEW found \in SUBSET Concurrent,
         Refresh(j, found),
         annState' \in [Jobs -> [Concurrent -> AnnStatuses]]
  PROVE  /\ \A i \in Jobs \ {j} : snap'[i] = snap[i] /\ version'[i] = version[i]
         /\ snap[j] = None => snap'[j] = None /\ version'[j] = version[j]
         /\ snap[j] # None =>
              /\ snap'[j] # None /\ version'[j] = version[j] + 1
              /\ snap'[j].sims = snap[j].sims
              /\ snap'[j].results = snap[j].results \cup found
              /\ snap'[j].states = annState'[j]
<1>0. snap \in [Jobs -> Answer \cup {None}] /\ version \in [Jobs -> Nat]
  BY DEF TypeOK
<1>1. CASE snap[j] = None
  BY <1>0, <1>1 DEF Refresh
<1>2. CASE snap[j] # None
  <2>1. PICK s, st, a : /\ s = snap[j] /\ st = annState'[j]
                         /\ a = [s EXCEPT !.results = @ \cup found, !.states = st]
    OBVIOUS
  <2>2. /\ s \in Answer /\ st \in [Concurrent -> AnnStatuses]
        /\ found \in SUBSET (Concurrent \cup Sequential)
    BY <1>0, <1>2, <2>1
  <2>3. /\ a # None /\ a.sims = s.sims
        /\ a.results = s.results \cup found /\ a.states = st
    <3> DEFINE b == [s EXCEPT !.results = @ \cup found, !.states = st]
    <3>1. b \in Answer
      BY <2>2, AnswerType
    <3>2. b.sims = s.sims
      BY <2>2, AnswerParts
    <3>3. b.results = s.results \cup found
      BY <2>2, AnswerParts
    <3>4. b.states = st
      BY <2>2, AnswerParts
    <3>5. a = b
      BY <2>1
    <3> QED
      BY <3>1, <3>2, <3>3, <3>4, <3>5
  <2>4. snap' = [snap EXCEPT ![j] = a] /\ version' = [version EXCEPT ![j] = @ + 1]
    BY <1>2, <2>1 DEF Refresh, Show
  <2>5. /\ \A i \in Jobs \ {j} : snap'[i] = snap[i] /\ version'[i] = version[i]
        /\ snap'[j] = a /\ version'[j] = version[j] + 1
    BY <1>0, <2>4
  <2> QED
    BY <1>2, <2>1, <2>3, <2>5
<1> QED
  BY <1>1, <1>2

(* What an annotator's step does to the job it works for; it works for one *)
(* whose search is open.                                                   *)
LEMMA AnnotatorMoves ==
  ASSUME TypeOK, AnswerInv, NEW j \in Jobs, NEW c \in Concurrent,
         AnnotatorStep(j, c)
  PROVE  /\ pc[j] \notin Early
         /\ pc' = pc /\ base' = base /\ sims' = sims /\ status' = status
         /\ \A i \in Jobs \ {j} :
              /\ snap'[i] = snap[i] /\ version'[i] = version[i]
              /\ annRes'[i] = annRes[i] /\ annState'[i] = annState[i]
              /\ ann'[i] = ann[i]
         /\ \/ annQueue' = annQueue
            \/ annQueue # <<>> /\ annQueue' = Tail(annQueue)
         /\ snap[j] = None => snap'[j] = None /\ version'[j] = version[j]
         /\ snap[j] # None =>
              /\ snap'[j] # None /\ snap'[j].sims = snap[j].sims
              /\ \/ /\ snap'[j] = snap[j] /\ version'[j] = version[j]
                    /\ annRes'[j] = annRes[j] /\ annState'[j] = annState[j]
                 \/ /\ version'[j] = version[j] + 1
                    /\ \E R \in SUBSET Concurrent :
                         /\ annRes'[j] = annRes[j] \cup R
                         /\ snap'[j].results = snap[j].results \cup R
                    /\ snap'[j].states = annState'[j]
<1> USE DEF hostVars, outcome, answerVars, workerVars, annVars, clockVars
<1>0. /\ ann \in [Jobs -> [Concurrent ->
                     {"absent", "queued", "computing", "merging", "done"}]]
      /\ annState \in [Jobs -> [Concurrent -> AnnStatuses]]
      /\ annRes \in [Jobs -> SUBSET Concurrent]
      /\ annQueue \in Seq(Jobs \X Concurrent)
  BY DEF TypeOK
<1>a. ann[j][c] # "absent" => pc[j] \notin Early
  BY DEF AnswerInv, EarlyInv
<1>1. CASE StartAnnotator(j, c)
  <2>1. 1 \in DOMAIN annQueue /\ annQueue[1] = <<j, c>>
    BY <1>0, <1>1 DEF StartAnnotator
  <2>2. pc[j] \notin Early
    BY <2>1 DEF AnswerInv, QueueInv
  <2> QED
    BY <1>0, <1>1, <2>2 DEF StartAnnotator
<1>2. CASE AnnotatorReturns(j, c)
  <2>1. /\ ann[j][c] = "computing"
        /\ \E s \in {"done", "merging"} : ann' = [ann EXCEPT ![j][c] = s]
        /\ UNCHANGED <<outcome, answerVars, workerVars, annRes, annState, annQueue>>
    BY <1>2 DEF AnnotatorReturns
  <2>2. \A i \in Jobs \ {j} : ann'[i] = ann[i]
    BY <1>0, <2>1
  <2>3. pc[j] \notin Early
    BY <1>a, <2>1
  <2>4. /\ snap' = snap /\ version' = version /\ annRes' = annRes
        /\ annState' = annState /\ annQueue' = annQueue
        /\ pc' = pc /\ base' = base /\ sims' = sims /\ status' = status
    BY <2>1
  <2> QED
    BY Zenon, <2>2, <2>3, <2>4
<1>3. CASE AnnotatorRaises(j, c)
  <2>1. annState' \in [Jobs -> [Concurrent -> AnnStatuses]]
    BY <1>0, <1>3 DEF AnnotatorRaises, AnnStatuses
  <2>2. Refresh(j, {}) /\ {} \in SUBSET Concurrent
    BY <1>3 DEF AnnotatorRaises
  <2>3. /\ pc[j] \notin Early
        /\ pc' = pc /\ base' = base /\ sims' = sims /\ status' = status
        /\ annQueue' = annQueue
        /\ \A i \in Jobs \ {j} : annRes'[i] = annRes[i]
        /\ annRes'[j] = annRes[j] \cup {}
        /\ \A i \in Jobs \ {j} : annState'[i] = annState[i] /\ ann'[i] = ann[i]
    BY <1>0, <1>a, <1>3 DEF AnnotatorRaises
  <2> QED
    <3> DEFINE R == {}
    <3>1. /\ \A i \in Jobs \ {j} : snap'[i] = snap[i] /\ version'[i] = version[i]
          /\ snap[j] = None => snap'[j] = None /\ version'[j] = version[j]
          /\ snap[j] # None =>
               /\ snap'[j] # None /\ version'[j] = version[j] + 1
               /\ snap'[j].sims = snap[j].sims
               /\ snap'[j].results = snap[j].results \cup R
               /\ snap'[j].states = annState'[j]
      BY <2>1, <2>2, Refreshed
    <3>2. R \in SUBSET Concurrent /\ annRes'[j] = annRes[j] \cup R
      BY <2>2, <2>3
    <3> HIDE DEF R
    <3>3. snap[j] # None =>
            /\ version'[j] = version[j] + 1
            /\ \E Q \in SUBSET Concurrent :
                 /\ annRes'[j] = annRes[j] \cup Q
                 /\ snap'[j].results = snap[j].results \cup Q
            /\ snap'[j].states = annState'[j]
      BY <3>1, <3>2
    <3> QED
      BY Zenon, <2>3, <3>1, <3>3
<1>4. CASE MergeNothing(j, c)
  <2>1. annState' \in [Jobs -> [Concurrent -> AnnStatuses]]
    BY <1>0, <1>4 DEF MergeNothing, AnnStatuses
  <2>2. Refresh(j, {}) /\ {} \in SUBSET Concurrent
    BY <1>4 DEF MergeNothing
  <2>3. /\ pc[j] \notin Early
        /\ pc' = pc /\ base' = base /\ sims' = sims /\ status' = status
        /\ annQueue' = annQueue
        /\ \A i \in Jobs \ {j} : annRes'[i] = annRes[i]
        /\ annRes'[j] = annRes[j] \cup {}
        /\ \A i \in Jobs \ {j} : annState'[i] = annState[i] /\ ann'[i] = ann[i]
    BY <1>0, <1>a, <1>4 DEF MergeNothing
  <2> QED
    <3> DEFINE R == {}
    <3>1. /\ \A i \in Jobs \ {j} : snap'[i] = snap[i] /\ version'[i] = version[i]
          /\ snap[j] = None => snap'[j] = None /\ version'[j] = version[j]
          /\ snap[j] # None =>
               /\ snap'[j] # None /\ version'[j] = version[j] + 1
               /\ snap'[j].sims = snap[j].sims
               /\ snap'[j].results = snap[j].results \cup R
               /\ snap'[j].states = annState'[j]
      BY <2>1, <2>2, Refreshed
    <3>2. R \in SUBSET Concurrent /\ annRes'[j] = annRes[j] \cup R
      BY <2>2, <2>3
    <3> HIDE DEF R
    <3>3. snap[j] # None =>
            /\ version'[j] = version[j] + 1
            /\ \E Q \in SUBSET Concurrent :
                 /\ annRes'[j] = annRes[j] \cup Q
                 /\ snap'[j].results = snap[j].results \cup Q
            /\ snap'[j].states = annState'[j]
      BY <3>1, <3>2
    <3> QED
      BY Zenon, <2>3, <3>1, <3>3
<1>5. CASE MergeResult(j, c)
  <2>1. annState' \in [Jobs -> [Concurrent -> AnnStatuses]]
    BY <1>0, <1>5 DEF MergeResult, AnnStatuses
  <2>2. Refresh(j, {c}) /\ {c} \in SUBSET Concurrent
    BY <1>5 DEF MergeResult
  <2>3. /\ pc[j] \notin Early
        /\ pc' = pc /\ base' = base /\ sims' = sims /\ status' = status
        /\ annQueue' = annQueue
        /\ annRes'[j] = annRes[j] \cup {c}
        /\ \A i \in Jobs \ {j} : /\ annState'[i] = annState[i]
                                 /\ ann'[i] = ann[i] /\ annRes'[i] = annRes[i]
    BY <1>0, <1>a, <1>5 DEF MergeResult
  <2> QED
    <3> DEFINE R == {c}
    <3>1. /\ \A i \in Jobs \ {j} : snap'[i] = snap[i] /\ version'[i] = version[i]
          /\ snap[j] = None => snap'[j] = None /\ version'[j] = version[j]
          /\ snap[j] # None =>
               /\ snap'[j] # None /\ version'[j] = version[j] + 1
               /\ snap'[j].sims = snap[j].sims
               /\ snap'[j].results = snap[j].results \cup R
               /\ snap'[j].states = annState'[j]
      BY <2>1, <2>2, Refreshed
    <3>2. R \in SUBSET Concurrent /\ annRes'[j] = annRes[j] \cup R
      BY <2>2, <2>3
    <3> HIDE DEF R
    <3>3. snap[j] # None =>
            /\ version'[j] = version[j] + 1
            /\ \E Q \in SUBSET Concurrent :
                 /\ annRes'[j] = annRes[j] \cup Q
                 /\ snap'[j].results = snap[j].results \cup Q
            /\ snap'[j].states = annState'[j]
      BY <3>1, <3>2
    <3> QED
      BY Zenon, <2>3, <3>1, <3>3
<1> QED
  BY <1>1, <1>2, <1>3, <1>4, <1>5 DEF AnnotatorStep

(* What a worker's step does to the answer of its job.                     *)
answers == <<sims, version, snap, annRes, annState, ann, annQueue>>

Stays(j, p) ==
    /\ UNCHANGED <<answers, base>>
    /\ p \in Early => pc[j] \in Early
    /\ p = "annotating" => pc[j] = "annotating"
    /\ p \in Shown => pc[j] \in Shown \/ snap[j] = None

Opens(j, p) ==
    /\ UNCHANGED <<sims, version, snap, annRes, base>>
    /\ pc[j] \in Early /\ p = "loop"
    /\ annState' = [annState EXCEPT ![j] = [c \in Concurrent |-> "running"]]
    /\ ann' = [ann EXCEPT ![j] = [c \in Concurrent |-> "queued"]]
    /\ annQueue' = annQueue \o
         [i \in 1..Len(ConcurrentList) |-> <<j, ConcurrentList[i]>>]

Publishes(j, p) ==
    /\ UNCHANGED <<annRes, annState, ann, annQueue, base>>
    /\ pc[j] = "advancing" /\ p \in {"loop", "settling"}
    /\ \E n \in Chunk(j) :
         /\ sims' = [sims EXCEPT ![j] = n]
         /\ snap' = [snap EXCEPT ![j] = Published(j, n)]
         /\ version' = [version EXCEPT ![j] = @ + 1]

Copies(j, p) ==
    /\ UNCHANGED answers
    /\ pc[j] = "waiting" /\ p = "annotating" /\ Sequential # {}
    /\ base' = [base EXCEPT ![j] = snap[j]]

Decorates(j, p) ==
    /\ UNCHANGED <<sims, annRes, annState, ann, annQueue>>
    /\ pc[j] = "annotating" /\ p = "judging"
    /\ \E R \in SUBSET Sequential :
         snap' = [snap EXCEPT ![j] = [base[j] EXCEPT !.results = @ \cup R]]
    /\ version' = [version EXCEPT ![j] = @ + 1]
    /\ base' = [base EXCEPT ![j] = None]

LEMMA WorkerMoves ==
  ASSUME TypeOK, SettleInv, AnswerInv, NEW j \in Jobs, WorkerStep(j)
  PROVE  \E p \in Points :
           /\ pc' = [pc EXCEPT ![j] = p]
           /\ \/ Stays(j, p) \/ Opens(j, p) \/ Publishes(j, p)
              \/ Copies(j, p) \/ Decorates(j, p)
<1> USE DEF Goto, Points, Early, Shown, answers, hostVars, outcome, answerVars,
            workerVars, annVars, clockVars
<1>1. CASE PickUp(j)
  <2>1. /\ UNCHANGED <<answerVars, base, annVars>>
        /\ pc[j] = "queued"
        /\ \E p \in {"closing", "opening"} : pc' = [pc EXCEPT ![j] = p]
    BY <1>1, Zenon DEF PickUp
  <2> QED
    BY <2>1 DEF Stays
<1>2. CASE Open(j)
  BY <1>2 DEF Open, Opens, Stays, AnswerInv, EarlyInv
<1>3. CASE OpenRaises(j)
  BY <1>3 DEF OpenRaises, Fail, Stays
<1>4. CASE CheckLoop(j)
  BY <1>4 DEF CheckLoop, Stays
<1>5. CASE Advance(j)
  BY <1>5 DEF Advance, Show, Publishes
<1>6. CASE SearchRaises(j)
  BY <1>6 DEF SearchRaises, Fail, Stays
<1>7. CASE BeginSettle(j)
  BY <1>7 DEF BeginSettle, Stays
<1>8. CASE EndWait(j)
  BY <1>8 DEF EndWait, Copies, Stays
<1>9. CASE WriteSettled(j)
  BY <1>9 DEF WriteSettled, Show, Decorates
<1>10. CASE Judge(j)
  BY <1>10 DEF Judge, Verdict, Stays
<1>11. CASE Conclude(j)
  BY <1>11 DEF Conclude, Stays
<1>12. CASE Finally(j)
  BY <1>12 DEF Finally, Stays
<1>13. CASE ViewsRaise(j)
  BY <1>13 DEF ViewsRaise, Stays
<1> QED
  BY <1>1, <1>2, <1>3, <1>4, <1>5, <1>6, <1>7, <1>8, <1>9, <1>10, <1>11,
     <1>12, <1>13 DEF WorkerStep

LEMMA AnswerKinds ==
  ASSUME TypeOK, [Next]_vars
  PROVE  \/ \E j \in Jobs : WorkerStep(j)
         \/ \E c \in Clients, k \in Keys, j \in Jobs : Birth(c, k, j)
         \/ \E j \in Jobs, c \in Concurrent : AnnotatorStep(j, c)
         \/ UNCHANGED <<answers, base, pc>>
<1> USE DEF answers, answerVars, workerVars, annVars
<1>1. CASE Reap /\ UNCHANGED unreaped
  BY <1>1 DEF unreaped
<1>2. ASSUME NEW j \in Jobs, StopJob(j) PROVE UNCHANGED <<answers, base, pc>>
  BY <1>2 DEF StopJob
<1>3. ASSUME NEW j \in Jobs, NEW c \in Concurrent, DeadlinePasses(j, c)
      PROVE  UNCHANGED <<answers, base, pc>>
  BY <1>3 DEF DeadlinePasses
<1>4. ASSUME NEW c \in Clients, NEW k \in Keys, Rejoin(c, k)
      PROVE  UNCHANGED <<answers, base, pc>>
  BY <1>4 DEF Rejoin
<1>5. ASSUME NEW c \in Clients, FinishStart(c)
      PROVE  \/ \E k \in Keys, j \in Jobs : Birth(c, k, j)
             \/ UNCHANGED <<answers, base, pc>>
  <2> DEFINE k == call[c][2]
  <2>1. k \in Keys
    BY <1>5, CallShape DEF FinishStart, TypeOK
  <2>2. \/ Rejoin(c, k)
        \/ \E j \in Jobs : /\ StartTerminal(c, k, j) \/ Submit(c, k, j)
                           /\ Vacant(k)
    BY <1>5 DEF FinishStart, Vacant
  <2> HIDE DEF k
  <2> QED
    BY <1>4, <2>1, <2>2 DEF Birth
<1> QED
  BY <1>1, <1>2, <1>3, <1>5
  DEF Next, Finish, vars, Tick, Sweep, BeginStart, BeginPoll, FinishPoll,
      EndBlocking, StartRaises, Birth

(* A job is born with an answer only if there is nothing to search.        *)
LEMMA BirthMoves ==
  ASSUME TypeOK, LifeInv, NEW c \in Clients, NEW k \in Keys, NEW j \in Jobs,
         Birth(c, k, j)
  PROVE  /\ pc[j] = "unborn"
         /\ UNCHANGED <<sims, version, annRes, annState, ann, annQueue, base>>
         /\ \/ pc' = [pc EXCEPT ![j] = "queued"] /\ snap' = snap
            \/ /\ pc' = [pc EXCEPT ![j] = "returned"]
               /\ snap' = [snap EXCEPT ![j] = NoAnswer]
<1> USE DEF NewJob, LifeInv, answerVars, annVars
<1>1. CASE StartTerminal(c, k, j)
  BY <1>1 DEF StartTerminal
<1>2. CASE Submit(c, k, j)
  BY <1>2 DEF Submit
<1>3. CASE BeginBlocking(c, k, j)
  BY <1>3 DEF BeginBlocking
<1> QED
  BY <1>1, <1>2, <1>3 DEF Birth

LEMMA AnswerStep ==
  ASSUME TypeOK, SettleInv, LifeInv, AnswerInv, [Next]_vars
  PROVE  AnswerInv'
<1>0. /\ sims \in [Jobs -> 0..Target] /\ version \in [Jobs -> Nat]
      /\ snap \in [Jobs -> Answer \cup {None}]
      /\ base \in [Jobs -> Answer \cup {None}]
      /\ annRes \in [Jobs -> SUBSET Concurrent]
      /\ annState \in [Jobs -> [Concurrent -> AnnStatuses]]
      /\ annQueue \in Seq(Jobs \X Concurrent)
      /\ ann \in [Jobs -> [Concurrent ->
                     {"absent", "queued", "computing", "merging", "done"}]]
      /\ pc \in [Jobs -> Points]
  BY DEF TypeOK
<1> USE DEF AnswerInv, EarlyInv, CopyInv, MatchInv, VisibleInv
<1>1. ASSUME NEW j \in Jobs, WorkerStep(j) PROVE AnswerInv'
  <2>1. PICK p \in Points :
          /\ pc' = [pc EXCEPT ![j] = p]
          /\ \/ Stays(j, p) \/ Opens(j, p) \/ Publishes(j, p)
             \/ Copies(j, p) \/ Decorates(j, p)
    BY <1>1, WorkerMoves
  <2>2. /\ pc'[j] = p
        /\ \A i \in Jobs \ {j} : pc'[i] = pc[i]
    BY <1>0, <2>1
  <2>3. ASSUME annQueue' = annQueue, p \in Early => pc[j] \in Early
        PROVE  QueueInv'
    <3>1. \A i \in DOMAIN annQueue : annQueue[i][1] \in Jobs
      BY <1>0
    <3> QED
      BY <2>2, <2>3, <3>1 DEF QueueInv
  <2>4. CASE Stays(j, p)
    BY <2>2, <2>3, <2>4 DEF Stays, answers
  <2>5. CASE Opens(j, p)
    <3>1. QueueInv'
      <4>1. /\ Len(annQueue) \in Nat /\ Len(ConcurrentList) \in Nat
            /\ DOMAIN annQueue = 1..Len(annQueue)
            /\ DOMAIN annQueue' = 1..(Len(annQueue) + Len(ConcurrentList))
            /\ \A i \in 1..Len(annQueue) : annQueue'[i] = annQueue[i]
            /\ \A i \in 1..Len(ConcurrentList) :
                 annQueue'[Len(annQueue) + i] = <<j, ConcurrentList[i]>>
        BY <1>0, <2>5 DEF Opens
      <4>2. ASSUME NEW i \in DOMAIN annQueue'
            PROVE  \/ i \in DOMAIN annQueue /\ annQueue'[i] = annQueue[i]
                   \/ annQueue'[i][1] = j
        <5>1. CASE i \in 1..Len(annQueue)
          BY <4>1, <5>1
        <5>2. CASE i \notin 1..Len(annQueue)
          <6>1. i - Len(annQueue) \in 1..Len(ConcurrentList)
            BY <4>1, <5>2
          <6>2. annQueue'[Len(annQueue) + (i - Len(annQueue))]
                  = <<j, ConcurrentList[i - Len(annQueue)]>>
            BY <4>1, <6>1
          <6> QED
            BY <4>1, <6>1, <6>2
        <5> QED
          BY <5>1, <5>2
      <4>3. \A i \in DOMAIN annQueue : annQueue[i][1] \in Jobs
        BY <1>0
      <4>4. p \notin Early
        BY <2>5 DEF Opens, Early
      <4> QED
        BY <2>2, <4>2, <4>3, <4>4 DEF QueueInv
    <3>2. \A i \in Jobs \ {j} : annState'[i] = annState[i] /\ ann'[i] = ann[i]
      BY <1>0, <2>5 DEF Opens
    <3>3. snap[j] = None /\ p \notin Early /\ p # "annotating"
      BY <2>5 DEF Early, Opens
    <3>4. /\ sims' = sims /\ version' = version /\ snap' = snap
          /\ annRes' = annRes /\ base' = base
      BY <2>5 DEF Opens
    <3> QED
      BY <2>2, <3>1, <3>2, <3>3, <3>4
  <2>6. CASE Publishes(j, p)
    <3>1. p \notin Early /\ p # "annotating" /\ p \in Shown
      BY <2>6 DEF Publishes, Early, Shown
    <3>0. PICK n \in Chunk(j) :
            /\ sims' = [sims EXCEPT ![j] = n]
            /\ snap' = [snap EXCEPT ![j] = Published(j, n)]
            /\ version' = [version EXCEPT ![j] = @ + 1]
      BY <2>6 DEF Publishes
    <3>2. PICK a :
            /\ a = Published(j, n)
            /\ sims' = [sims EXCEPT ![j] = n]
            /\ snap' = [snap EXCEPT ![j] = a]
            /\ version' = [version EXCEPT ![j] = @ + 1]
      BY <3>0
    <3>3. a # None /\ a.sims = n /\ a.results = annRes[j] /\ a.states = annState[j]
      <4>1. a \in Answer
        BY <1>0, <3>2 DEF Chunk, Published, Answer
      <4> QED
        BY <3>2, <4>1 DEF Published
    <3>4. /\ sims'[j] = n /\ snap'[j] = a
          /\ \A i \in Jobs \ {j} : /\ sims'[i] = sims[i] /\ snap'[i] = snap[i]
                                   /\ version'[i] = version[i]
      BY <1>0, <3>2
    <3>5. QueueInv'
      BY <2>3, <2>6, <3>1 DEF Publishes
    <3> QED
      BY <2>2, <2>6, <3>1, <3>3, <3>4, <3>5 DEF Publishes
  <2>7. CASE Copies(j, p)
    <3>1. p \notin Early /\ snap[j] # None /\ pc[j] \in Shown
      BY <2>7 DEF Copies, SettleInv, Early, Shown
    <3>2. base'[j] = snap[j] /\ \A i \in Jobs \ {j} : base'[i] = base[i]
      BY <1>0, <2>7 DEF Copies
    <3> QED
      BY <2>2, <2>3, <2>7, <3>1, <3>2 DEF Copies, answers
  <2>8. CASE Decorates(j, p)
    <3>1. p \notin Early /\ p # "annotating" /\ p \notin Shown
      BY <2>8 DEF Decorates, Early, Shown
    <3>0. PICK R \in SUBSET Sequential :
            snap' = [snap EXCEPT ![j] = [base[j] EXCEPT !.results = @ \cup R]]
      BY <2>8 DEF Decorates
    <3>2. PICK b, a :
            /\ b = base[j] /\ a = [b EXCEPT !.results = @ \cup R]
            /\ snap' = [snap EXCEPT ![j] = a]
      BY <3>0
    <3>3. b \in Answer /\ R \in SUBSET (Concurrent \cup Sequential)
      BY <1>0, <2>8, <3>2 DEF Decorates, SettleInv
    <3>4. a \in Answer /\ a.sims = b.sims
      BY <3>2, <3>3 DEF Answer
    <3>5. a # None /\ a.sims = sims[j] /\ Sequential # {}
      BY <2>8, <3>2, <3>4 DEF Decorates
    <3>6. /\ snap'[j] = a
          /\ \A i \in Jobs \ {j} : /\ base'[i] = base[i] /\ snap'[i] = snap[i]
                                   /\ version'[i] = version[i]
      BY <1>0, <2>8, <3>2 DEF Decorates
    <3>7. QueueInv'
      BY <2>3, <2>8, <3>1 DEF Decorates
    <3>8. /\ sims' = sims /\ annRes' = annRes /\ annState' = annState /\ ann' = ann
      BY <2>8 DEF Decorates
    <3> QED
      BY <2>2, <3>1, <3>5, <3>6, <3>7, <3>8
  <2> QED
    BY <2>1, <2>4, <2>5, <2>6, <2>7, <2>8
<1>2. ASSUME NEW c \in Clients, NEW k \in Keys, NEW j \in Jobs, Birth(c, k, j)
      PROVE  AnswerInv'
  <2>1. /\ pc[j] = "unborn"
        /\ UNCHANGED <<sims, version, annRes, annState, ann, annQueue, base>>
        /\ \/ pc' = [pc EXCEPT ![j] = "queued"] /\ snap' = snap
           \/ /\ pc' = [pc EXCEPT ![j] = "returned"]
              /\ snap' = [snap EXCEPT ![j] = NoAnswer]
    BY <1>2, BirthMoves
  <2>2. /\ \A i \in Jobs \ {j} : pc'[i] = pc[i] /\ snap'[i] = snap[i]
        /\ \/ pc'[j] = "queued" /\ snap'[j] = snap[j]
           \/ pc'[j] = "returned" /\ snap'[j] = NoAnswer
    BY <1>0, <2>1
  <2>3. /\ sims[j] = 0 /\ version[j] = 0 /\ snap[j] = None
        /\ annRes[j] = {} /\ annState[j] = NoStates
        /\ \A d \in Concurrent : ann[j][d] = "absent"
    BY <2>1 DEF Early
  <2>4. /\ NoAnswer # None /\ NoAnswer.sims = 0 /\ NoAnswer.results = {}
        /\ NoAnswer.states = NoStates
    BY DEF NoAnswer, Answer, NoStates, AnnStatuses
  <2>5. \A i \in DOMAIN annQueue : annQueue[i][1] \in Jobs
    BY <1>0
  <2>6. QueueInv'
    BY <2>1, <2>2, <2>5 DEF QueueInv, Early
  <2> QED
    BY <2>1, <2>2, <2>3, <2>4, <2>6 DEF Early
<1>3. ASSUME NEW j \in Jobs, NEW c \in Concurrent, AnnotatorStep(j, c)
      PROVE  AnswerInv'
  <2>1. /\ pc[j] \notin Early
        /\ pc' = pc /\ base' = base /\ sims' = sims
        /\ \A i \in Jobs \ {j} :
             /\ snap'[i] = snap[i] /\ version'[i] = version[i]
             /\ annRes'[i] = annRes[i] /\ annState'[i] = annState[i]
             /\ ann'[i] = ann[i]
        /\ \/ annQueue' = annQueue
           \/ annQueue # <<>> /\ annQueue' = Tail(annQueue)
        /\ snap[j] = None => snap'[j] = None /\ version'[j] = version[j]
        /\ snap[j] # None =>
             /\ snap'[j] # None /\ snap'[j].sims = snap[j].sims
             /\ \/ /\ snap'[j] = snap[j] /\ version'[j] = version[j]
                   /\ annRes'[j] = annRes[j] /\ annState'[j] = annState[j]
                \/ /\ \E R \in SUBSET Concurrent :
                        /\ annRes'[j] = annRes[j] \cup R
                        /\ snap'[j].results = snap[j].results \cup R
                   /\ snap'[j].states = annState'[j]
    BY <1>3, AnnotatorMoves
  <2>2. QueueInv'
    <3>1. CASE annQueue # <<>> /\ annQueue' = Tail(annQueue)
      <4>1. /\ Len(annQueue) \in Nat \ {0} /\ DOMAIN annQueue = 1..Len(annQueue)
            /\ DOMAIN annQueue' = 1..Len(annQueue) - 1
            /\ \A i \in DOMAIN annQueue' : annQueue'[i] = annQueue[i + 1]
        BY <1>0, <3>1
      <4> QED
        BY <2>1, <4>1 DEF QueueInv
    <3> QED
      BY <2>1, <3>1 DEF QueueInv
  <2> QED
    BY <2>1, <2>2
<1>4. CASE UNCHANGED <<answers, base, pc>>
  BY <1>4 DEF answers, QueueInv
<1> QED
  BY <1>1, <1>2, <1>3, <1>4, AnswerKinds

(* AnswerInv is inductive.                                                 *)
LEMMA AnswersInv == Safety => []AnswerInv
<1>1. Init => AnswerInv
  BY DEF Init, AnswerInv, EarlyInv, QueueInv, CopyInv, MatchInv, VisibleInv,
         NoStates
<1>2. TypeOK /\ SettleInv /\ LifeInv /\ AnswerInv /\ [Next]_vars => AnswerInv'
  BY AnswerStep
<1> QED
  BY <1>1, <1>2, TypeCorrect, LiveJobsInv, PTL DEF Safety

(* A client reads an answer of one piece: the tree that sims_done counts,  *)
(* and beside it what the concurrent annotators have found so far, however *)
(* publishes, settles and annotators interleave.                           *)
THEOREM WholeResponses == Safety => []ResponseIsWhole
<1>1. AnswerInv => ResponseIsWhole
  <2> SUFFICES ASSUME AnswerInv PROVE ResponseIsWhole
    OBVIOUS
  <2>1. AnswerMatchesProgress
    BY DEF AnswerMatchesProgress, AnswerInv, MatchInv
  <2>2. AnnotationsVisible
    BY DEF AnnotationsVisible, AnswerInv, MatchInv, VisibleInv, Shown
  <2> QED
    BY <2>1, <2>2 DEF ResponseIsWhole
<1> QED
  BY <1>1, AnswersInv, PTL

LEMMA SharperStep ==
  ASSUME TypeOK, SettleInv, LifeInv, AnswerInv, [Next]_vars, NEW i \in Jobs
  PROVE  /\ snap[i] # None => snap'[i] # None /\ snap'[i].sims >= snap[i].sims
         /\ ~Unborn(i) /\ snap'[i] # snap[i] => version'[i] > version[i]
<1>0. /\ sims \in [Jobs -> 0..Target] /\ version \in [Jobs -> Nat]
      /\ snap \in [Jobs -> Answer \cup {None}]
  BY DEF TypeOK
<1>1. /\ snap[i] # None => snap[i].sims = sims[i] /\ sims[i] \in Nat
      /\ version[i] \in Nat
  BY <1>0 DEF AnswerInv, MatchInv
<1>2. snap[i] # None => snap'[i] # None /\ snap'[i].sims = sims'[i]
  BY AnswerStep, SnapshotStays DEF AnswerInv, MatchInv
<1>3. ASSUME NEW j \in Jobs, WorkerStep(j)
      PROVE  /\ snap[i] # None => sims'[i] >= sims[i]
             /\ snap'[i] # snap[i] => version'[i] > version[i]
  <2>1. PICK p \in Points : \/ Stays(j, p) \/ Opens(j, p) \/ Publishes(j, p)
                            \/ Copies(j, p) \/ Decorates(j, p)
    BY <1>3, WorkerMoves
  <2>2. CASE Publishes(j, p)
    BY <1>0, <1>1, <2>2 DEF Publishes, Chunk
  <2>3. CASE Decorates(j, p)
    BY <1>0, <1>1, <2>3 DEF Decorates
  <2>4. CASE sims' = sims /\ snap' = snap
    BY <1>1, <2>4
  <2> QED
    BY <2>1, <2>2, <2>3, <2>4 DEF Stays, Opens, Copies, answers
<1>4. ASSUME NEW c \in Clients, NEW k \in Keys, NEW j \in Jobs, Birth(c, k, j)
      PROVE  /\ snap[i] # None => sims'[i] >= sims[i]
             /\ ~Unborn(i) => snap'[i] = snap[i]
  <2>1. Unborn(j)
    BY <1>4 DEF Birth, StartTerminal, Submit, BeginBlocking, NewJob
  <2>2. sims' = sims /\ (snap' = snap \/ snap' = [snap EXCEPT ![j] = NoAnswer])
    BY <1>4, BirthMoves
  <2> QED
    BY <1>0, <1>1, <2>1, <2>2
<1>5. ASSUME NEW j \in Jobs, NEW c \in Concurrent, AnnotatorStep(j, c)
      PROVE  /\ snap[i] # None => sims'[i] >= sims[i]
             /\ snap'[i] # snap[i] => version'[i] > version[i]
  BY <1>1, <1>5, AnnotatorMoves
<1>6. CASE UNCHANGED <<answers, base, pc>>
  BY <1>1, <1>6 DEF answers
<1> QED
  BY <1>1, <1>2, <1>3, <1>4, <1>5, <1>6, AnswerKinds

(* Recommendations sharpen: no thread, however old the snapshot it began   *)
(* from, replaces an answer by one of a smaller tree, and no change of the *)
(* answer goes without a new version.                                      *)
THEOREM Sharpening == Safety => AnswersOnlySharpen
<1>1. TypeOK /\ SettleInv /\ LifeInv /\ AnswerInv /\ [Next]_vars
        => [\A j \in Jobs :
              /\ snap[j] # None =>
                   snap'[j] # None /\ snap'[j].sims >= snap[j].sims
              /\ ~Unborn(j) /\ snap'[j] # snap[j] =>
                   version'[j] > version[j]]_vars
  BY SharperStep
<1> QED
  BY <1>1, AnswersInv, TypeCorrect, LiveJobsInv, PTL
  DEF Safety, AnswersOnlySharpen
=============================================================================

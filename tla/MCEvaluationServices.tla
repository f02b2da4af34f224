------------------------- MODULE MCEvaluationServices -------------------------
(***************************************************************************)
(* Instances of the four evaluation services, and of the table of turn     *)
(* solvers in front of the fifth network, for TLC.  A behaviour is one     *)
(* of one of them, which is chosen at its start; services share the        *)
(* variables whose names they share, and the others stay as they are.      *)
(* Each property holds of all of them.  What tells the services apart has  *)
(* bounds of its own: the remote one is checked with two calls of a thread *)
(* and one update, and with one call and more updates than slots.          *)
(***************************************************************************)
EXTENDS EvaluationRows

CONSTANTS c1, c2, MaxPending

ASSUME MaxPendingAssumption == MaxPending \in Nat /\ MaxPending >= MaxBatch

VARIABLES
    which, queue, closed, closer, caller, round, size, got, server, batch,
    done, late,                                                \* coalescing
    pendingRows, settled, answer, carry, stopping,             \* batching
    future,                                                    \* all others
    table, popped, doomed, emitted, nextWeights, served, stopEvent,
    requested, applied, promised, floor, version,              \* inference
    responses, dispatcher, dispatchStop, trainer, weightQueue, acks, \* remote
    file, loaded, entries, timers, fired, request, told, built, lost \* cache

Calls(first, second) == [c \in Callers |-> IF c = c1 THEN first ELSE second]
TwoEach == Calls(2, 2)
One == {c1}
CallsOfOne(n) == [c \in One |-> n]

Coalescing == INSTANCE CoalescingEvaluator
Batching   == INSTANCE BatchingEvaluator
Local      == INSTANCE LocalInference WITH
                  MaxRows <- 1, MaxCalls <- Calls(1, 1), MaxUpdates <- 1
Remote     == INSTANCE RemoteInference WITH
                  Callers <- One, MaxRows <- 1, MaxCalls <- CallsOfOne(2),
                  MaxUpdates <- 1, WeightSlots <- 1
Updated    == INSTANCE RemoteInference WITH
                  Callers <- One, MaxRows <- 1, MaxCalls <- CallsOfOne(1),
                  MaxUpdates <- 2, WeightSlots <- 1

Cache      == INSTANCE TurnCache WITH
                  Tables <- Callers, Steps <- 2, MaxEntries <- 2, MaxPositions <- 2,
                  MaxTurns <- 2, MaxFiles <- 2, MaxBuilds <- 3

shared        == <<queue, closed, closer, caller, round, size, got, server, batch>>
coalescing    == <<done, late>>
batching      == <<pendingRows, settled, answer, carry, stopping>>
inference     == <<table, popped, doomed, emitted, nextWeights, served, stopEvent,
                   requested, applied, promised, floor, version>>
remote        == <<responses, dispatcher, dispatchStop, trainer, weightQueue, acks>>
cache         == <<file, loaded, entries, timers, fired, request, told, built, lost>>
notCoalescing == <<which, future, batching, inference, remote, cache>>
notBatching   == <<which, coalescing, inference, remote, cache>>
notLocal      == <<which, coalescing, batching, remote, cache>>
notRemote     == <<which, coalescing, batching, cache>>
notCache      == <<which, shared, coalescing, batching, future, inference, remote>>
everything    == <<shared, coalescing, notCoalescing>>

(* The variables a service does not have. *)
NoCoalescing == done = <<>> /\ late = {}
NoBatching   == pendingRows = 0 /\ settled = 0 /\ answer = Error /\ carry = <<>>
                /\ stopping = FALSE
NoInference  == table = {} /\ popped = <<>> /\ doomed = {} /\ emitted = 0
                /\ nextWeights = 0 /\ served = 0 /\ stopEvent = FALSE /\ requested = 0
                /\ applied = 0 /\ promised = 0 /\ floor = <<>> /\ version = <<>>
NoRemote     == responses = <<>> /\ dispatcher = "gone" /\ dispatchStop = TRUE
                /\ trainer = "free" /\ weightQueue = <<>> /\ acks = <<>>
NoCache      == file = 0 /\ loaded = <<>> /\ entries = <<>> /\ timers = {} /\ fired = {}
                /\ request = <<>> /\ told = <<>> /\ built = 0 /\ lost = FALSE
NoService    == queue = <<>> /\ closed = FALSE /\ closer = "open" /\ caller = <<>>
                /\ round = <<>> /\ size = <<>> /\ got = <<>> /\ server = "gone"
                /\ batch = <<>> /\ future = <<>>

ServicesInit ==
    \/ which = "cache" /\ Cache!Init /\ NoService
       /\ NoCoalescing /\ NoBatching /\ NoInference /\ NoRemote
    \/ /\ NoCache
       /\ \/ /\ which = "coalescing" /\ Coalescing!Init
             /\ NoBatching /\ future = <<>> /\ NoInference /\ NoRemote
          \/ which = "batching" /\ Batching!Init /\ NoCoalescing /\ NoInference /\ NoRemote
          \/ which = "local"    /\ Local!Init   /\ NoCoalescing /\ NoBatching /\ NoRemote
          \/ which = "remote"   /\ Remote!Init  /\ NoCoalescing /\ NoBatching
          \/ which = "updated"  /\ Updated!Init /\ NoCoalescing /\ NoBatching

Step(w, others, A) == which = w /\ A /\ UNCHANGED others

Either(ofCoalescing, ofBatching, ofLocal, ofRemote, ofUpdated, ofCache) ==
    \/ Step("coalescing", notCoalescing, ofCoalescing)
    \/ Step("batching", notBatching, ofBatching)
    \/ Step("local", notLocal, ofLocal)
    \/ Step("remote", notRemote, ofRemote)
    \/ Step("updated", notRemote, ofUpdated)
    \/ Step("cache", notCache, ofCache)

ServicesNext ==
    Either(Coalescing!Next, Batching!Next, Local!Next, Remote!Next, Updated!Next,
           Cache!Next)

(* The fairness of each service: a behaviour is one of one service, so     *)
(* conditions of different services can be joined.                         *)
ServeStep == Either(Coalescing!Serve, Batching!Serve, Local!Serve,
                    Remote!Serve, Updated!Serve, FALSE)
FinishStep == Either(Coalescing!Finish, Batching!Finish, Local!Finish,
                     Remote!Finish, Updated!Finish, FALSE)
ProceedStep(c) == Either(Coalescing!Proceed(c), Batching!Proceed(c), Local!Continue(c),
                         c = c1 /\ Remote!Proceed(c1), c = c1 /\ Updated!Proceed(c1),
                         FALSE)
AnswerStep == Either(FALSE, FALSE, FALSE, Remote!Answers, Updated!Answers, FALSE)
TrainStep  == Either(FALSE, FALSE, FALSE, Remote!Train, Updated!Train, FALSE)

ServicesSpec ==
    /\ ServicesInit /\ [][ServicesNext]_everything
    /\ WF_everything(ServeStep) /\ WF_everything(FinishStep)
    /\ \A c \in Callers : WF_everything(ProceedStep(c))
    /\ WF_everything(AnswerStep) /\ WF_everything(TrainStep)

-----------------------------------------------------------------------------
(* Properties.                                                             *)

(* The types of each service, and the bounds of its batches and queues.    *)
ServicesTypeOK ==
    CASE which = "coalescing" -> Coalescing!TypeOK
      [] which = "batching"   -> Batching!TypeOK
      [] which = "local"      -> Local!TypeOK
      [] which = "remote"     -> Remote!TypeOK
      [] which = "updated"    -> Updated!TypeOK
      [] which = "cache"      -> Cache!TypeOK

(* What each service must not forget: the coalescing one a request that    *)
(* was made before it was closed, the batching one a row that counts       *)
(* against its limit, the inference services the entry of a call that has  *)
(* ended, by its answer, a timeout, a refusal or a stop, and the table of  *)
(* turn solvers an entry whose time is over.                               *)
NothingIsForgotten ==
    CASE which = "coalescing" -> Coalescing!EndsAfterServing
      [] which = "batching"   -> Batching!RowsAccounted
      [] which = "local"      -> Local!NoEntryLeaks
      [] which = "remote"     -> Remote!NoEntryLeaks
      [] which = "updated"    -> Updated!NoEntryLeaks
      [] which = "cache"      -> Cache!EntriesHaveTheirTimers

(* Once the client of an inference service has been stopped, nobody is     *)
(* left to be ended by his timeout alone.                                  *)
StopEndsEveryCall ==
    CASE which = "local"   -> Local!StopEndsEveryCall
      [] which = "remote"  -> Remote!StopEndsEveryCall
      [] which = "updated" -> Updated!StopEndsEveryCall
      [] OTHER             -> TRUE

(* What wait_for_version has confirmed holds for every call that begins    *)
(* later: its answer is computed under those weights or newer ones.  A     *)
(* checkpoint that was on disk when the turn solver was asked counts as    *)
(* confirmed.                                                              *)
BarrierHolds ==
    CASE which = "local"   -> Local!BarrierHolds
      [] which = "remote"  -> Remote!BarrierHolds
      [] which = "updated" -> Updated!BarrierHolds
      [] which = "cache"   -> Cache!AnswersAreCurrent
      [] OTHER             -> TRUE

(* Each service does what the abstract one promises its callers.           *)
PhaseIn(c) ==
    CASE which = "coalescing" -> Coalescing!Phase(c)
      [] which = "batching"   -> Batching!Phase(c)
      [] which = "local"      -> Local!Phase(c)
      [] which = "remote"     -> Remote!Phase(c)
      [] which = "updated"    -> Updated!Phase(c)

Abstract == INSTANCE EvaluationService WITH
    phase <- [c \in Callers |-> IF c \in DOMAIN caller THEN PhaseIn(c) ELSE "none"],
    open  <- ~closed

ServicesImplementTheirPromise == Abstract!Spec

(* Every call returns, a call that waits for room in the batching service  *)
(* included.  Nobody answers a caller who had passed the test of closed    *)
(* before the coalescing service was closed and enqueued after it; a       *)
(* batcher whose network raised, or a server that was stopped, leaves its  *)
(* callers to their timeouts.                                              *)
Excused(c) ==
    \/ which = "coalescing" /\ c \in late
    \/ which \in {"local", "remote", "updated"} /\ server = "crashed"
    \/ which \in {"remote", "updated"} /\ stopEvent

Busy(c) == c \in DOMAIN caller /\ caller[c] # "idle"

CallersReturn == \A c \in Callers : []<>(~Busy(c) \/ Excused(c))

(* The newest weights are served in the end, however many updates were     *)
(* dropped from a full queue or replaced, unless the batcher is down or    *)
(* told to stop.                                                           *)
NewestIsServed == []<>(served = requested \/ stopEvent \/ server = "crashed")
=============================================================================

--------------------------- MODULE InferenceRequests ---------------------------
(***************************************************************************)
(* What the two backends of games/kingdomino/inference_service.py share:   *)
(* the table of requests that wait (RequestRouter), the callers            *)
(* (InferenceClient), and the loop that evaluates batches and changes      *)
(* weights between them (BatchEvaluator).  LocalInference and              *)
(* RemoteInference carry the requests and answers between the two.         *)
(*                                                                         *)
(* Request ids are unique, so a request is known by its caller and call.   *)
(* Weights are known by their version.                                     *)
(***************************************************************************)
EXTENDS EvaluationRows

CONSTANT MaxUpdates   (* bound: weight updates of the trainer              *)

VARIABLES
    \* the client and its callers
    caller,
    round,        (* calls each one has made                               *)
    size,         (* rows of the latest                                    *)
    got,          (* and its outcome                                       *)
    future,       (* _PendingRequest of the latest: result or cancelled    *)
    table,        (* _table: the calls that wait for a result              *)
    popped,       (* a result taken out of the table, to be handed over    *)
    doomed,       (* the same of cancel_all                                *)
    closed,
    closer,       (* the thread that calls stop                            *)
    \* the batcher
    queue,        (* requests, oldest first                                *)
    server,
    batch,
    emitted,      (* requests of the batch that have been emitted          *)
    nextWeights,  (* _pending_weights, 0 for None                          *)
    served,       (* model_version: the weights that are loaded            *)
    stopEvent,
    \* the trainer
    requested,    (* versions it has asked for                             *)
    applied,      (* _applied_version, as far as it knows                  *)
    \* history
    promised,     (* the last version wait_for_version has confirmed       *)
    floor,        (* promised as the latest call of each thread began      *)
    version       (* the version its answer was computed under             *)

calls     == <<round, size, floor>>
routing   == <<table, popped, doomed>>
evaluator == <<server, batch, emitted, served, nextWeights>>
weights   == <<requested, applied, promised>>
clients   == <<caller, calls, got, future, version>>
common    == <<clients, routing, closed, closer, queue, evaluator, stopEvent, weights>>

Unset == [ok |-> FALSE, rows |-> <<Row("none", 0, 0)>>]

Ids == Callers \X Nat
IdOf(request) == <<request.by, Head(request.rows).call>>
Current(c) == <<c, round[c]>>

Versions == 0..MaxUpdates

RequestsTypeOK ==
    /\ caller \in [Callers -> {"idle", "registered", "submitting", "waiting", "giving up"}]
    /\ \A c \in Callers : round[c] \in 0..MaxCalls[c] /\ size \in [Callers -> 0..MaxRows]
    /\ got \in [Callers -> Outcomes] /\ future \in [Callers -> Outcomes \cup {Unset}]
    /\ table \subseteq Ids /\ doomed \subseteq Ids
    /\ popped \in Seq([id : Ids, rows : Seq(Rows), version : Versions])
    /\ closed \in BOOLEAN
    /\ closer \in {"open", "cancelling", "waking", "stopping", "closed"}
    /\ queue \in Seq(Requests)
    /\ server \in {"top", "poll", "get", "forward", "emitting", "gone", "crashed"}
    /\ batch \in Seq(Requests) /\ emitted \in 0..Len(batch)
    /\ {requested, applied, served, promised, nextWeights} \subseteq Versions
    /\ stopEvent \in BOOLEAN
    /\ floor \in [Callers -> Versions] /\ version \in [Callers -> Versions]

RequestsInit ==
    /\ caller = [c \in Callers |-> "idle"]
    /\ round = [c \in Callers |-> 0] /\ size = [c \in Callers |-> 0]
    /\ got = [c \in Callers |-> Error] /\ future = [c \in Callers |-> Unset]
    /\ table = {} /\ popped = <<>> /\ doomed = {}
    /\ closed = FALSE /\ closer = "open"
    /\ queue = <<>> /\ server = "top" /\ batch = <<>> /\ emitted = 0
    /\ nextWeights = 0 /\ served = 0 /\ stopEvent = FALSE
    /\ requested = 0 /\ applied = 0 /\ promised = 0
    /\ floor = [c \in Callers |-> 0] /\ version = [c \in Callers |-> 0]

-----------------------------------------------------------------------------
(* infer and infer_batch, in the game threads.                             *)

Goes(c, p) == caller' = [caller EXCEPT ![c] = p]

Register(c) ==
    /\ caller[c] = "idle" /\ round[c] < MaxCalls[c]
    /\ round' = [round EXCEPT ![c] = @ + 1]
    /\ \E n \in 1..MaxRows : size' = [size EXCEPT ![c] = n]
    /\ floor' = [floor EXCEPT ![c] = promised]
    /\ table' = table \cup {<<c, round'[c]>>}
    /\ future' = [future EXCEPT ![c] = Unset]
    /\ got' = [got EXCEPT ![c] = Error]
    /\ version' = [version EXCEPT ![c] = 0]
    /\ Goes(c, "registered")
    /\ UNCHANGED <<popped, doomed, closed, closer, queue, evaluator, stopEvent, weights>>

(* Faulty variant: submit does not look whether the service is closed.     *)
CheckNothing(c) ==
    /\ caller[c] = "registered" /\ Goes(c, "submitting")
    /\ UNCHANGED <<calls, got, future, version, routing, closed, closer, queue, evaluator,
                   stopEvent, weights>>

(* submit refuses a closed service, and the entry is taken back. *)
Check(c) ==
    /\ caller[c] = "registered"
    /\ Goes(c, IF closed THEN "idle" ELSE "submitting")
    /\ table' = IF closed THEN table \ {Current(c)} ELSE table
    /\ UNCHANGED <<calls, got, future, version, popped, doomed, closed, closer, queue,
                   evaluator, stopEvent, weights>>

Submit(c) ==
    /\ caller[c] = "submitting"
    /\ queue' = Append(queue, Request(c, RowsOf(c, round[c], size[c])))
    /\ Goes(c, "waiting")
    /\ UNCHANGED <<calls, got, future, version, routing, closed, closer, evaluator,
                   stopEvent, weights>>

(* A cancelled call raises. *)
Return(c) ==
    /\ caller[c] = "waiting" /\ future[c] # Unset
    /\ got' = [got EXCEPT ![c] = future[c]]
    /\ Goes(c, "idle")
    /\ UNCHANGED <<calls, future, version, routing, closed, closer, queue, evaluator,
                   stopEvent, weights>>

TimeOut(c) ==
    /\ caller[c] = "waiting" /\ future[c] = Unset
    /\ Goes(c, "giving up")
    /\ UNCHANGED <<calls, got, future, version, routing, closed, closer, queue,
                   evaluator, stopEvent, weights>>

(* Faulty variant: the entry of a call that timed out stays.               *)
GiveUpOnly(c) ==
    /\ caller[c] = "giving up"
    /\ Goes(c, "idle")
    /\ UNCHANGED <<calls, got, future, version, routing, closed, closer, queue, evaluator,
                   stopEvent, weights>>

(* The answer may have come meanwhile. *)
GiveUp(c) ==
    /\ caller[c] = "giving up"
    /\ table' = table \ {Current(c)}
    /\ Goes(c, "idle")
    /\ UNCHANGED <<calls, got, future, version, popped, doomed, closed, closer, queue,
                   evaluator, stopEvent, weights>>

Continue(c) == Check(c) \/ Submit(c) \/ Return(c) \/ GiveUp(c)
Call(c) == Register(c) \/ TimeOut(c) \/ Continue(c)

-----------------------------------------------------------------------------
(* RequestRouter: complete takes the entry out of the table under its lock *)
(* and hands the result over afterwards; so does cancel_all.               *)

Pop(id, rows, v) ==
    /\ popped = <<>>
    /\ table' = table \ {id}
    /\ popped' = IF id \in table THEN <<[id |-> id, rows |-> rows, version |-> v]>>
                 ELSE <<>>

(* A call that has given up meanwhile has left its future behind. *)
HandOver ==
    /\ popped # <<>>
    /\ popped' = <<>>
    /\ \E c \in Callers :
         /\ popped[1].id[1] = c
         /\ IF popped[1].id = Current(c)
            THEN /\ future' = [future EXCEPT ![c] = Result(popped[1].rows)]
                 /\ version' = [version EXCEPT ![c] = popped[1].version]
            ELSE UNCHANGED <<future, version>>
    /\ UNCHANGED <<caller, calls, got, table, doomed, closed, closer, queue, evaluator,
                   stopEvent, weights>>

(* stop *)
Close ==
    /\ closer = "open"
    /\ closed' = TRUE /\ closer' = "cancelling"
    /\ UNCHANGED <<clients, routing, queue, evaluator, stopEvent, weights>>

CancelAll ==
    /\ closer = "cancelling" /\ closer' = "waking"
    /\ doomed' = table /\ table' = {}
    /\ UNCHANGED <<clients, popped, closed, queue, evaluator, stopEvent, weights>>

WakeAll ==
    /\ closer = "waking" /\ closer' = "stopping"
    /\ future' = [c \in Callers |-> IF Current(c) \in doomed THEN Error ELSE future[c]]
    /\ doomed' = {}
    /\ UNCHANGED <<caller, calls, got, version, table, popped, closed, queue, evaluator,
                   stopEvent, weights>>

Closing == CancelAll \/ WakeAll

-----------------------------------------------------------------------------
(* BatchEvaluator.run.  next is where a pull begins.                       *)

elsewhere == <<clients, closed, closer, stopEvent, requested, promised>>

(* A request, and whether there is room and time for another one. *)
Get(next) ==
    /\ server = "get" /\ queue # <<>>
    /\ queue' = Tail(queue)
    /\ batch' = Append(batch, Head(queue))
    /\ server' \in IF RowCount(batch') < MaxBatch THEN {next, "forward"} ELSE {"forward"}
    /\ UNCHANGED <<elsewhere, routing, applied, emitted, served, nextWeights>>

GetNothing ==
    /\ server = "get" /\ queue = <<>>
    /\ server' = IF batch = <<>> THEN "top" ELSE "forward"
    /\ UNCHANGED <<elsewhere, routing, applied, queue, batch, emitted, served, nextWeights>>

Forward ==
    /\ server = "forward" /\ server' = "emitting"
    /\ UNCHANGED <<elsewhere, routing, applied, queue, batch, emitted, served, nextWeights>>

(* The network raises, or an assertion about its output: the loop ends.    *)
ForwardRaises ==
    /\ server = "forward" /\ server' = "crashed"
    /\ batch' = <<>>
    /\ UNCHANGED <<elsewhere, routing, applied, queue, emitted, served, nextWeights>>

(* The next result of the batch; after the last one the loop goes on.      *)
Emits ==
    /\ server = "emitting" /\ emitted' = emitted + 1
    /\ server' = IF emitted' < Len(batch) THEN "emitting" ELSE "top"
Emitted(k) == Slice(Joined(batch), batch, k)

Evaluate(next) == Get(next) \/ GetNothing \/ Forward \/ ForwardRaises

(* wait_for_version returns True; it may return False at any time.         *)
Confirm ==
    /\ promised < applied /\ applied = requested
    /\ promised' = applied
    /\ UNCHANGED <<clients, routing, closed, closer, queue, evaluator, stopEvent,
                   requested, applied>>

-----------------------------------------------------------------------------
(* Properties of both backends.                                            *)

(* A caller gets the answers to its own rows or an error, whatever answers *)
(* to calls that gave up still come.  A call that has not been accepted    *)
(* yet counts as refused.                                                  *)
Phase(c) ==
    PhaseOf(caller[c] \notin {"idle", "registered"}, c, round[c], size[c], got[c])

(* The table holds no entry of a call that has ended, whether by its       *)
(* answer, by a timeout, by a refusal or by stop.                          *)
NoEntryLeaks ==
    \A id \in table : \E c \in Callers : id = Current(c) /\ caller[c] # "idle"

(* Once stop has woken the callers, nobody is left to be ended by his      *)
(* timeout alone: those that registered before were cancelled, and those   *)
(* that register later find the service closed.                            *)
StopEndsEveryCall ==
    closer \in {"stopping", "closed"} => \A c \in Callers :
        caller[c] \in {"submitting", "waiting"} =>
            \/ future[c] # Unset
            \/ popped # <<>> /\ popped[1].id = Current(c)

(* What wait_for_version has confirmed holds for every call that begins    *)
(* later: its answer is computed under those weights or newer ones.        *)
BarrierHolds == \A c \in Callers : got[c].ok => version[c] >= floor[c]
=============================================================================

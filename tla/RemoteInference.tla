---------------------------- MODULE RemoteInference ----------------------------
(***************************************************************************)
(* RemoteInferenceServer and RemoteInferenceWorkerClient                   *)
(* (games/kingdomino/inference_service.py): the batcher is a process, and  *)
(* so is the worker the callers are threads of.  Requests, answers,        *)
(* weights and their acknowledgements cross over queues; a dispatcher      *)
(* thread of the worker completes the calls.                               *)
(*                                                                         *)
(* One worker: each has a table, a dispatcher and a queue of answers of    *)
(* its own, and requests of all of them look alike to the server.          *)
(***************************************************************************)
EXTENDS InferenceRequests

CONSTANT WeightSlots    (* maxsize of the weight queue                     *)

VARIABLES
    responses,    (* answers on their way to the worker                    *)
    dispatcher,
    dispatchStop, (* the worker's own stop event                           *)
    trainer,      (* how far update_weights is                             *)
    weightQueue,
    acks          (* versions the server has loaded                        *)

channels == <<responses, dispatcher, dispatchStop, trainer, weightQueue, acks>>
vars     == <<common, channels>>

TypeOK ==
    /\ RequestsTypeOK
    /\ responses \in Seq([id : Ids, rows : Seq(Rows), version : Versions])
    /\ dispatcher \in {"running", "gone"} /\ dispatchStop \in BOOLEAN
    /\ trainer \in {"free", "full", "putting"}
    /\ weightQueue \in Seq(Versions) /\ Len(weightQueue) <= WeightSlots
    /\ acks \in Seq(Versions)

Init ==
    /\ RequestsInit
    /\ responses = <<>> /\ dispatcher = "running" /\ dispatchStop = FALSE
    /\ trainer = "free" /\ weightQueue = <<>> /\ acks = <<>>

-----------------------------------------------------------------------------
(* The trainer: update_weights.  Only it puts weights into the queue.      *)

training == <<clients, routing, closed, closer, queue, evaluator, stopEvent,
              promised, responses, dispatcher, dispatchStop, acks>>

BeginUpdate ==
    /\ trainer = "free" /\ requested < MaxUpdates
    /\ requested' = requested + 1
    /\ trainer' = IF Len(weightQueue) = WeightSlots THEN "full" ELSE "putting"
    /\ UNCHANGED <<training, applied, weightQueue>>

(* Faulty variant: a full queue keeps what it has.                         *)
DropNewest ==
    /\ trainer = "full" /\ trainer' = "free"
    /\ UNCHANGED <<training, requested, applied, weightQueue>>

(* The oldest goes, unless the server has taken it or is about to.         *)
DropOldest ==
    /\ trainer = "full" /\ trainer' = "putting"
    /\ \/ weightQueue # <<>> /\ weightQueue' = Tail(weightQueue)
       \/ UNCHANGED weightQueue
    /\ UNCHANGED <<training, requested, applied>>

PutWeights ==
    /\ trainer = "putting" /\ Len(weightQueue) < WeightSlots
    /\ weightQueue' = Append(weightQueue, requested) /\ trainer' = "free"
    /\ UNCHANGED <<training, requested, applied>>

(* wait_for_version reads acknowledgements until one is new enough. *)
ReadAck ==
    /\ trainer = "free" /\ applied < requested /\ acks # <<>>
    /\ acks' = Tail(acks)
    /\ applied' = IF Head(acks) > applied THEN Head(acks) ELSE applied
    /\ UNCHANGED <<clients, routing, closed, closer, queue, evaluator, stopEvent,
                   requested, promised, responses, dispatcher, dispatchStop, trainer,
                   weightQueue>>

StopServer ==
    /\ ~stopEvent /\ stopEvent' = TRUE
    /\ UNCHANGED <<clients, routing, closed, closer, queue, evaluator, weights, channels>>

(* The process has not ended in time. *)
Terminate ==
    /\ stopEvent /\ server \notin {"gone", "crashed"}
    /\ server' = "gone"
    /\ UNCHANGED <<clients, routing, closed, closer, queue, batch, emitted, served,
                   nextWeights, stopEvent, weights, channels>>

-----------------------------------------------------------------------------
(* The server process.                                                     *)

Top ==
    /\ server = "top"
    /\ batch' = <<>> /\ emitted' = 0
    /\ IF stopEvent
       THEN server' = "gone" /\ UNCHANGED <<served, nextWeights, acks>>
       ELSE /\ server' = "poll"
            /\ IF nextWeights = 0
               THEN UNCHANGED <<served, nextWeights, acks>>
               ELSE /\ served' = nextWeights /\ nextWeights' = 0
                    /\ acks' = Append(acks, nextWeights)
    /\ UNCHANGED <<elsewhere, routing, applied, queue, responses, dispatcher, dispatchStop,
                   trainer, weightQueue>>

(* Faulty variant: an update is acknowledged as it is taken.               *)
PollAndAcknowledge ==
    /\ server = "poll" /\ server' = "get"
    /\ IF weightQueue = <<>>
       THEN UNCHANGED <<weightQueue, nextWeights, acks>>
       ELSE /\ weightQueue' = Tail(weightQueue) /\ nextWeights' = Head(weightQueue)
            /\ acks' = Append(acks, Head(weightQueue))
    /\ UNCHANGED <<elsewhere, routing, applied, queue, batch, emitted, served, responses,
                   dispatcher, dispatchStop, trainer>>

(* Each pull takes one update first: it waits for the end of the batch.    *)
Poll ==
    /\ server = "poll" /\ server' = "get"
    /\ IF weightQueue = <<>>
       THEN UNCHANGED <<weightQueue, nextWeights>>
       ELSE weightQueue' = Tail(weightQueue) /\ nextWeights' = Head(weightQueue)
    /\ UNCHANGED <<elsewhere, routing, applied, queue, batch, emitted, served, responses,
                   dispatcher, dispatchStop, trainer, acks>>

Emit ==
    /\ Emits
    /\ responses' = Append(responses, [id |-> IdOf(batch[emitted']),
                                       rows |-> Emitted(emitted'), version |-> served])
    /\ UNCHANGED <<elsewhere, routing, applied, queue, batch, served, nextWeights,
                   dispatcher, dispatchStop, trainer, weightQueue, acks>>

Serve == Top \/ Poll \/ Emit \/ (Evaluate("poll") /\ UNCHANGED channels)

-----------------------------------------------------------------------------
(* The worker's dispatcher.                                                *)

Dispatch ==
    /\ dispatcher = "running" /\ ~dispatchStop /\ responses # <<>>
    /\ responses' = Tail(responses)
    /\ Pop(Head(responses).id, Head(responses).rows, Head(responses).version)
    /\ UNCHANGED <<clients, doomed, closed, closer, queue, evaluator, stopEvent, weights,
                   dispatcher, dispatchStop, trainer, weightQueue, acks>>

DispatcherEnds ==
    /\ dispatcher = "running" /\ dispatchStop /\ popped = <<>>
    /\ dispatcher' = "gone"
    /\ UNCHANGED <<common, responses, dispatchStop, trainer, weightQueue, acks>>

SetStop ==
    /\ closer = "stopping" /\ closer' = "closed"
    /\ dispatchStop' = TRUE
    /\ UNCHANGED <<clients, routing, closed, queue, evaluator, stopEvent, weights,
                   responses, dispatcher, trainer, weightQueue, acks>>

Answers == Dispatch \/ DispatcherEnds \/ (HandOver /\ UNCHANGED channels)

-----------------------------------------------------------------------------
Worker ==
    \/ \E c \in Callers : Call(c)
    \/ Close \/ Confirm

Proceed(c) == Continue(c) /\ UNCHANGED channels
Finish == (Closing /\ UNCHANGED channels) \/ SetStop
Train == DropOldest \/ PutWeights

Next ==
    \/ Worker /\ UNCHANGED channels
    \/ Finish \/ StopServer \/ Terminate
    \/ BeginUpdate \/ Train \/ ReadAck
    \/ Serve \/ Answers

(* Threads and processes are preemptive, and what is put into a queue      *)
(* arrives.  Nobody has to call, to update weights or to stop anything,    *)
(* and no call has to time out.                                            *)
Spec ==
    /\ Init /\ [][Next]_vars
    /\ WF_vars(Serve) /\ WF_vars(Answers)
    /\ WF_vars(Finish) /\ WF_vars(Train)
    /\ \A c \in Callers : WF_vars(Proceed(c))

=============================================================================

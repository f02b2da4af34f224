---------------------------- MODULE LocalInference ----------------------------
(***************************************************************************)
(* LocalInferenceService (games/kingdomino/inference_service.py): callers, *)
(* trainer and batcher are threads of one process.  The batcher puts its   *)
(* results into the table of requests itself, and the trainer leaves the   *)
(* next weights with it.                                                   *)
(***************************************************************************)
EXTENDS InferenceRequests

vars == common

TypeOK == RequestsTypeOK

Init == RequestsInit

(* update_weights: a later update takes the place of one that waits. *)
UpdateWeights ==
    /\ requested < MaxUpdates
    /\ requested' = requested + 1
    /\ nextWeights' = requested'
    /\ UNCHANGED <<clients, routing, closed, closer, queue, server, batch, emitted,
                   served, stopEvent, applied, promised>>

(* Between two batches: the event that stops the loop, and new weights.    *)
Top ==
    /\ server = "top" /\ popped = <<>>
    /\ batch' = <<>> /\ emitted' = 0
    /\ IF stopEvent
       THEN server' = "gone" /\ UNCHANGED <<served, nextWeights, applied>>
       ELSE /\ server' = "get"
            /\ IF nextWeights = 0
               THEN UNCHANGED <<served, nextWeights, applied>>
               ELSE served' = nextWeights /\ applied' = nextWeights /\ nextWeights' = 0
    /\ UNCHANGED <<elsewhere, routing, queue>>

Emit ==
    /\ Emits
    /\ Pop(IdOf(batch[emitted + 1]), Emitted(emitted + 1), served)
    /\ UNCHANGED <<elsewhere, doomed, applied, queue, batch, served, nextWeights>>

SetStop ==
    /\ closer = "stopping" /\ closer' = "closed"
    /\ stopEvent' = TRUE
    /\ UNCHANGED <<clients, routing, closed, queue, evaluator, weights>>

Serve == Top \/ Evaluate("get") \/ Emit \/ HandOver
Finish == Closing \/ SetStop

Next ==
    \/ \E c \in Callers : Call(c)
    \/ Close \/ Finish
    \/ UpdateWeights \/ Confirm
    \/ Serve

(* Threads are preemptive.  Nobody has to call, to update weights or to    *)
(* stop the service, and no call has to time out.                          *)
Spec ==
    /\ Init /\ [][Next]_vars
    /\ WF_vars(Serve) /\ WF_vars(Finish)
    /\ \A c \in Callers : WF_vars(Continue(c))

=============================================================================

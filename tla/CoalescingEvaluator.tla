-------------------------- MODULE CoalescingEvaluator --------------------------
(***************************************************************************)
(* CoalescingEvaluator (games/seven_wonders_duel/loop_inference.py): game  *)
(* threads call evaluate and block; one service thread takes their         *)
(* requests from a queue, joins them into a batch for the model, and hands *)
(* every caller its slice of the result.                                   *)
(*                                                                         *)
(* Callers use it in a with statement or after start(), so the thread runs *)
(* before the first call.                                                  *)
(***************************************************************************)
EXTENDS EvaluationRows

VARIABLES
    queue,      (* requests, and the end marker None                       *)
    closed,
    closer,     (* the thread that calls close                             *)
    \* the game threads
    caller,     (* where each one is                                       *)
    round,      (* calls it has made                                       *)
    size,       (* rows of the latest                                      *)
    got,        (* and its outcome: rows, or an error                      *)
    done,       (* request.done of the latest                              *)
    \* the service thread
    server,
    batch,
    \* history
    late        (* calls enqueued when the service was closed already      *)

calls   == <<caller, round, size>>
service == <<server, batch>>
vars    == <<queue, closed, closer, calls, got, done, service, late>>

TypeOK ==
    /\ queue \in Seq(Requests \cup {End})
    /\ closed \in BOOLEAN
    /\ closer \in {"open", "closing", "joining", "closed", "gave up"}
    /\ caller \in [Callers -> {"idle", "checked", "waiting"}]
    /\ \A c \in Callers : round[c] \in 0..MaxCalls[c]
    /\ size \in [Callers -> 0..MaxRows]
    /\ got \in [Callers -> Outcomes]
    /\ done \in [Callers -> BOOLEAN]
    /\ server \in {"getting", "gathering", "evaluating", "delivering", "stopped"}
    /\ batch \in Seq(Requests)
    /\ late \subseteq Callers
    /\ \A c \in Callers : caller[c] # "waiting" =>
         c \notin {r.by : r \in Range(queue)}

Init ==
    /\ queue = <<>> /\ closed = FALSE /\ closer = "open"
    /\ caller = [c \in Callers |-> "idle"]
    /\ round = [c \in Callers |-> 0] /\ size = [c \in Callers |-> 0]
    /\ got = [c \in Callers |-> Error] /\ done = [c \in Callers |-> FALSE]
    /\ server = "getting" /\ batch = <<>>
    /\ late = {}

-----------------------------------------------------------------------------
(* evaluate, in the game threads.                                          *)

(* A closed service refuses. *)
Evaluate(c) ==
    /\ caller[c] = "idle" /\ round[c] < MaxCalls[c]
    /\ round' = [round EXCEPT ![c] = @ + 1]
    /\ \E n \in 1..MaxRows : size' = [size EXCEPT ![c] = n]
    /\ done' = [done EXCEPT ![c] = FALSE]
    /\ got' = [got EXCEPT ![c] = Error]
    /\ caller' = [caller EXCEPT ![c] = IF closed THEN "idle" ELSE "checked"]
    /\ UNCHANGED <<queue, closed, closer, service, late>>

(* The service may have been closed since. *)
Enqueue(c) ==
    /\ caller[c] = "checked"
    /\ queue' = Append(queue, Request(c, RowsOf(c, round[c], size[c])))
    /\ caller' = [caller EXCEPT ![c] = "waiting"]
    /\ late' = IF closed THEN late \cup {c} ELSE late \ {c}
    /\ UNCHANGED <<closed, closer, round, size, got, done, service>>

Return(c) ==
    /\ caller[c] = "waiting" /\ done[c]
    /\ caller' = [caller EXCEPT ![c] = "idle"]
    /\ UNCHANGED <<queue, closed, closer, round, size, got, done, service, late>>

-----------------------------------------------------------------------------
(* close.                                                                  *)

Close ==
    /\ closer = "open"
    /\ closed' = TRUE /\ closer' = "closing"
    /\ UNCHANGED <<queue, calls, got, done, service, late>>

PutEnd ==
    /\ closer = "closing"
    /\ queue' = Append(queue, End) /\ closer' = "joining"
    /\ UNCHANGED <<closed, calls, got, done, service, late>>

(* The thread has ended, or the join has timed out and close raises. *)
Join ==
    /\ closer = "joining"
    /\ closer' = IF server = "stopped" THEN "closed" ELSE "gave up"
    /\ UNCHANGED <<queue, closed, calls, got, done, service, late>>

-----------------------------------------------------------------------------
(* The service thread.                                                     *)

Positions == RowCount(batch)

GetFirst ==
    /\ server = "getting" /\ queue # <<>>
    /\ queue' = Tail(queue)
    /\ IF Head(queue) = End
       THEN server' = "stopped" /\ UNCHANGED batch
       ELSE server' = "gathering" /\ batch' = <<Head(queue)>>
    /\ UNCHANGED <<closed, closer, calls, got, done, late>>

(* Faulty variant: the end marker ends the service at once. *)
GatherOrStop ==
    /\ server = "gathering" /\ Positions < MaxBatch /\ queue # <<>>
    /\ queue' = Tail(queue)
    /\ IF Head(queue) = End
       THEN server' = "stopped" /\ batch' = <<>>
       ELSE batch' = Append(batch, Head(queue)) /\ UNCHANGED server
    /\ UNCHANGED <<closed, closer, calls, got, done, late>>

(* The end marker goes back to the end of the queue. *)
Gather ==
    /\ server = "gathering" /\ Positions < MaxBatch /\ queue # <<>>
    /\ IF Head(queue) = End
       THEN /\ queue' = Append(Tail(queue), End)
            /\ server' = "evaluating" /\ UNCHANGED batch
       ELSE /\ queue' = Tail(queue)
            /\ batch' = Append(batch, Head(queue)) /\ UNCHANGED server
    /\ UNCHANGED <<closed, closer, calls, got, done, late>>

(* The batch is full, its time is over, or there is nothing in the queue.  *)
EndGathering ==
    /\ server = "gathering" /\ server' = "evaluating"
    /\ UNCHANGED <<queue, closed, closer, calls, got, done, batch, late>>

Everyone == {r.by : r \in Range(batch)}

Succeed ==
    /\ server = "evaluating" /\ server' = "delivering"
    /\ got' = [c \in Callers |->
         IF c \in Everyone
         THEN Result(Slice(Joined(batch), batch,
                           CHOOSE k \in DOMAIN batch : batch[k].by = c))
         ELSE got[c]]
    /\ UNCHANGED <<queue, closed, closer, calls, done, batch, late>>

(* The model raises, or returns a batch of another length.                 *)
Raise ==
    /\ server = "evaluating" /\ server' = "delivering"
    /\ got' = [c \in Callers |-> IF c \in Everyone THEN Error ELSE got[c]]
    /\ UNCHANGED <<queue, closed, closer, calls, done, batch, late>>

(* Faulty variant: only the request that the batch began with is woken.    *)
SetFirstDone ==
    /\ server = "delivering"
    /\ done' = [done EXCEPT ![Head(batch).by] = TRUE]
    /\ batch' = <<>> /\ server' = "getting"
    /\ UNCHANGED <<queue, closed, closer, calls, got, late>>

(* finally: one request after the other is done. *)
SetDone ==
    /\ server = "delivering"
    /\ done' = [done EXCEPT ![Head(batch).by] = TRUE]
    /\ batch' = Tail(batch)
    /\ server' = IF batch' = <<>> THEN "getting" ELSE "delivering"
    /\ UNCHANGED <<queue, closed, closer, calls, got, late>>

-----------------------------------------------------------------------------
Serve == GetFirst \/ Gather \/ EndGathering \/ Succeed \/ Raise \/ SetDone
Proceed(c) == Enqueue(c) \/ Return(c)
Finish == PutEnd \/ Join

Next == (\E c \in Callers : Evaluate(c) \/ Proceed(c)) \/ Close \/ Finish \/ Serve

(* Threads are preemptive and the model returns or raises.  Nobody has to  *)
(* make a call, or to close the service.                                   *)
Spec ==
    /\ Init /\ [][Next]_vars
    /\ WF_vars(Serve) /\ WF_vars(Finish)
    /\ \A c \in Callers : WF_vars(Proceed(c))

-----------------------------------------------------------------------------
(* Properties.                                                             *)

(* A caller gets the answers to the rows of its own call, in their order   *)
(* and once, or an error; after close has begun, a new call gets an error. *)
Phase(c) == PhaseOf(caller[c] # "idle", c, round[c], size[c], got[c])

(* The service thread ends only when it has served every request that was  *)
(* made before it was closed, those that came in while it filled its last  *)
(* batch included: all that it leaves alone had passed the test of closed  *)
(* before close and were enqueued after it.                                *)
EndsAfterServing ==
    server = "stopped" => \A c \in Callers : caller[c] = "waiting" =>
        done[c] \/ c \in late
=============================================================================

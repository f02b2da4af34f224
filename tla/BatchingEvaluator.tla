--------------------------- MODULE BatchingEvaluator ---------------------------
(***************************************************************************)
(* BatchingEvaluator (games/cantstop/batched_evaluator.py): searches call  *)
(* it from many threads and one thread runs the model.  A call is cut into *)
(* chunks of MaxBatch rows that are asked for one after the other, and     *)
(* rows on their way are limited to MaxPending: callers beyond it wait on  *)
(* a condition.  Everything under that condition's lock is one step.       *)
(***************************************************************************)
EXTENDS EvaluationRows

CONSTANT MaxPending   (* max_pending_rows, at least MaxBatch               *)

VARIABLES
    queue,
    closed,
    closer,       (* the thread that calls close                           *)
    \* the searches
    caller,       (* where each one is; "blocked" waits to be notified     *)
    round,        (* calls it has made                                     *)
    size,         (* rows of the latest                                    *)
    got,          (* and the outcome so far                                *)
    future,       (* of the chunk that is asked for                        *)
    pendingRows,
    \* the inference thread
    server,
    batch,
    settled,      (* requests of the batch whose future is set             *)
    answer,       (* what the model has returned, or its error             *)
    carry,        (* at most one request that did not fit                  *)
    stopping

calls   == <<round, size>>
working == <<batch, answer, carry, stopping>>
vars    == <<queue, closed, closer, caller, calls, got, future, pendingRows,
             server, settled, working>>

Unset == [ok |-> FALSE, rows |-> <<Row("none", 0, 0)>>]

TypeOK ==
    /\ queue \in Seq(Requests \cup {End})
    /\ closed \in BOOLEAN
    /\ closer \in {"open", "closing", "joining", "closed"}
    /\ caller \in [Callers -> {"idle", "entering", "blocked", "waiting"}]
    /\ \A c \in Callers : round[c] \in 0..MaxCalls[c]
    /\ size \in [Callers -> 0..MaxRows]
    /\ got \in [Callers -> Outcomes]
    /\ future \in [Callers -> Outcomes \cup {Unset}]
    /\ pendingRows \in 0..MaxPending
    /\ server \in {"getting", "gathering", "evaluating", "delivering", "stopped"}
    /\ batch \in Seq(Requests) /\ RowCount(batch) <= MaxBatch
    /\ settled \in 0..Len(batch)
    /\ answer \in Outcomes
    /\ carry \in Seq(Requests) /\ Len(carry) <= 1
    /\ stopping \in BOOLEAN

Init ==
    /\ queue = <<>> /\ closed = FALSE /\ closer = "open"
    /\ caller = [c \in Callers |-> "idle"]
    /\ round = [c \in Callers |-> 0] /\ size = [c \in Callers |-> 0]
    /\ got = [c \in Callers |-> Error] /\ future = [c \in Callers |-> Unset]
    /\ pendingRows = 0
    /\ server = "getting" /\ batch = <<>> /\ settled = 0 /\ answer = Error
    /\ carry = <<>> /\ stopping = FALSE

-----------------------------------------------------------------------------
(* evaluate_features, in the searches.                                     *)

Chunk(c, n, start) ==
    SubSeq(RowsOf(c, round'[c], n), start + 1,
           IF start + MaxBatch < n THEN start + MaxBatch ELSE n)

(* The chunk after the first start rows of a call of n rows.               *)
Offer(c, n, start) ==
    LET rows == Chunk(c, n, start)
        Enter(p) == caller' = [caller EXCEPT ![c] = p]
    IN  \/ /\ closed /\ Enter("idle")
           /\ got' = [got EXCEPT ![c] = Error]
           /\ UNCHANGED <<queue, future, pendingRows>>
        \/ /\ ~closed /\ pendingRows + Len(rows) > MaxPending
           /\ Enter("blocked")
           /\ got' = [got EXCEPT ![c] = Result(SubSeq(got[c].rows, 1, start))]
           /\ UNCHANGED <<queue, future, pendingRows>>
        \/ /\ ~closed /\ pendingRows + Len(rows) <= MaxPending
           /\ Enter("waiting")
           /\ got' = [got EXCEPT ![c] = Result(SubSeq(got[c].rows, 1, start))]
           /\ pendingRows' = pendingRows + Len(rows)
           /\ queue' = Append(queue, Request(c, rows))
           /\ future' = [future EXCEPT ![c] = Unset]

Evaluate(c) ==
    /\ caller[c] = "idle" /\ round[c] < MaxCalls[c]
    /\ round' = [round EXCEPT ![c] = @ + 1]
    /\ \E n \in 1..MaxRows : size' = [size EXCEPT ![c] = n] /\ Offer(c, n, 0)
    /\ UNCHANGED <<closed, closer, server, settled, working>>

(* The condition's lock is taken again after a notification, and for the   *)
(* next chunk.                                                             *)
OfferAgain(c) ==
    /\ caller[c] = "entering"
    /\ UNCHANGED <<calls, closed, closer, server, settled, working>>
    /\ Offer(c, size[c], Len(got[c].rows))

(* future.result() raises, or the chunk has been answered. *)
Take(c) ==
    /\ caller[c] = "waiting" /\ future[c] # Unset
    /\ LET all == got[c].rows \o future[c].rows
       IN  IF ~future[c].ok
           THEN /\ got' = [got EXCEPT ![c] = Error]
                /\ caller' = [caller EXCEPT ![c] = "idle"]
           ELSE /\ got' = [got EXCEPT ![c] = Result(all)]
                /\ caller' = [caller EXCEPT ![c] =
                     IF Len(all) < size[c] THEN "entering" ELSE "idle"]
    /\ future' = [future EXCEPT ![c] = Unset]
    /\ UNCHANGED <<queue, closed, closer, calls, pendingRows, server, settled, working>>

-----------------------------------------------------------------------------
(* close.                                                                  *)

Notified == [c \in Callers |-> IF caller[c] = "blocked" THEN "entering" ELSE caller[c]]

Close ==
    /\ closer = "open"
    /\ closed' = TRUE /\ closer' = "closing" /\ caller' = Notified
    /\ UNCHANGED <<queue, calls, got, future, pendingRows, server, settled, working>>

PutEnd ==
    /\ closer = "closing" /\ closer' = "joining"
    /\ queue' = Append(queue, End)
    /\ UNCHANGED <<closed, caller, calls, got, future, pendingRows, server, settled,
                   working>>

Join ==
    /\ closer = "joining" /\ server = "stopped" /\ closer' = "closed"
    /\ UNCHANGED <<queue, closed, caller, calls, got, future, pendingRows, server,
                   settled, working>>

-----------------------------------------------------------------------------
(* _run, in the inference thread.                                          *)

asked == <<closed, closer, caller, calls, got, pendingRows>>

First == IF carry # <<>> THEN carry[1] ELSE queue[1]

Get ==
    /\ server = "getting" /\ carry \o queue # <<>>
    /\ IF First = End
       THEN server' = "stopped" /\ UNCHANGED batch
       ELSE server' = "gathering" /\ batch' = <<First>>
    /\ queue' = IF carry # <<>> THEN queue ELSE Tail(queue)
    /\ carry' = <<>>
    /\ UNCHANGED <<asked, future, settled, answer, stopping>>

Gathers == server = "gathering" /\ RowCount(batch) < MaxBatch /\ queue # <<>>

(* Faulty variant: one row is enough room.                                 *)
FitsInPart(r) == RowCount(batch) < MaxBatch

Fits(r) == RowCount(batch) + Len(r.rows) <= MaxBatch

(* One more request, the one that does not fit any more, or the end.       *)
Gather ==
    /\ Gathers
    /\ queue' = Tail(queue)
    /\ LET r == Head(queue)
       IN  \/ /\ r = End
              /\ stopping' = TRUE /\ server' = "evaluating"
              /\ UNCHANGED <<batch, carry>>
           \/ /\ r # End /\ ~Fits(r)
              /\ carry' = <<r>> /\ server' = "evaluating"
              /\ UNCHANGED <<batch, stopping>>
           \/ /\ r # End /\ Fits(r)
              /\ batch' = Append(batch, r)
              /\ UNCHANGED <<carry, stopping, server>>
    /\ UNCHANGED <<asked, future, settled, answer>>

(* Once its time is over, the thread still takes what is there. *)
EndGathering ==
    /\ server = "gathering" /\ (RowCount(batch) >= MaxBatch \/ queue = <<>>)
    /\ server' = "evaluating"
    /\ UNCHANGED <<asked, queue, future, settled, working>>

(* The model answers; it raises, or its output is not finite or of another *)
(* shape.                                                                  *)
Model ==
    /\ server = "evaluating" /\ server' = "delivering"
    /\ answer' \in {Result(Joined(batch)), Error}
    /\ UNCHANGED <<asked, queue, future, settled, batch, carry, stopping>>

(* set_result or set_exception, of one future after the other. *)
Settle ==
    /\ server = "delivering" /\ settled < Len(batch)
    /\ settled' = settled + 1
    /\ future' = [future EXCEPT ![batch[settled'].by] =
         IF answer.ok THEN Result(Slice(answer.rows, batch, settled')) ELSE Error]
    /\ UNCHANGED <<asked, queue, server, working>>

(* Faulty variant: only a batch that was answered gives its rows back.     *)
ReleaseAnswered ==
    /\ server = "delivering" /\ settled = Len(batch)
    /\ pendingRows' = IF answer.ok THEN pendingRows - RowCount(batch) ELSE pendingRows
    /\ caller' = Notified
    /\ batch' = <<>> /\ settled' = 0 /\ answer' = Error
    /\ server' = IF stopping THEN "stopped" ELSE "getting"
    /\ UNCHANGED <<queue, closed, closer, calls, got, future, carry, stopping>>

(* finally: the batch gives its rows back, and those who wait for room are *)
(* notified.                                                               *)
Release ==
    /\ server = "delivering" /\ settled = Len(batch)
    /\ pendingRows' = pendingRows - RowCount(batch)
    /\ caller' = Notified
    /\ batch' = <<>> /\ settled' = 0 /\ answer' = Error
    /\ server' = IF stopping THEN "stopped" ELSE "getting"
    /\ UNCHANGED <<queue, closed, closer, calls, got, future, carry, stopping>>

-----------------------------------------------------------------------------
Serve == Get \/ Gather \/ EndGathering \/ Model \/ Settle \/ Release
Proceed(c) == OfferAgain(c) \/ Take(c)
Finish == PutEnd \/ Join

Next == (\E c \in Callers : Evaluate(c) \/ Proceed(c)) \/ Close \/ Finish \/ Serve

(* Threads are preemptive, the model returns or raises, and a thread that  *)
(* was notified gets the lock in the end.  Nobody has to make a call, or   *)
(* to close the service.                                                   *)
Spec ==
    /\ Init /\ [][Next]_vars
    /\ WF_vars(Serve) /\ WF_vars(Finish)
    /\ \A c \in Callers : WF_vars(Proceed(c))

-----------------------------------------------------------------------------
(* Properties.                                                             *)

(* A caller gets the answers to its own rows, in their order also across   *)
(* chunks, or an error.                                                    *)
Phase(c) == PhaseOf(caller[c] # "idle", c, round[c], size[c], got[c])

(* The rows that count against the limit are exactly those in the queue,   *)
(* carried over or in the batch: nothing leaks when a batch fails.         *)
RowsAccounted == pendingRows = RowCount(queue) + RowCount(carry) + RowCount(batch)
=============================================================================

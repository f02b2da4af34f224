----------------------------- MODULE EvaluationRows -----------------------------
(***************************************************************************)
(* Rows of evaluation requests, for the services that implement            *)
(* EvaluationService.  A row is known by its caller, that caller's call    *)
(* and its position; the model answers a row with itself, so an answer     *)
(* shows whose it is.                                                      *)
(***************************************************************************)
EXTENDS Integers, Sequences, FiniteSets, Functions

CONSTANTS
    Callers,    (* game threads                                            *)
    MaxBatch,   (* rows the model is called with                           *)
    MaxRows,    (* bound: rows of a call                                   *)
    MaxCalls    (* bound: calls of each thread                             *)

ASSUME RowsAssumption ==
    /\ MaxBatch \in Nat \ {0} /\ MaxRows \in Nat \ {0}
    /\ MaxCalls \in [Callers -> Nat]

(* None is no thread. *)
ASSUME MarkerAssumption == "none" \notin Callers

Rows == [by : Callers, call : Nat, row : 1..MaxRows]

Row(c, k, i) == [by |-> c, call |-> k, row |-> i]
RowsOf(c, k, n) == [i \in 1..n |-> Row(c, k, i)]

(* A request carries the rows of one call of by, or some of them.          *)
Request(c, rows) == [by |-> c, rows |-> rows]
Requests == [by : Callers, rows : Seq(Rows)]

(* The marker None, that ends a queue. *)
End == [by |-> "none", rows |-> <<>>]

Error == [ok |-> FALSE, rows |-> <<>>]
Result(rows) == [ok |-> TRUE, rows |-> rows]
Outcomes == [ok : BOOLEAN, rows : Seq(Rows)]

(* The rows of all the requests of a batch, and how many they are. *)
Joined(requests) ==
    LET rows[k \in 0..Len(requests)] ==
          IF k = 0 THEN <<>> ELSE rows[k - 1] \o requests[k].rows
    IN  rows[Len(requests)]
RowCount(requests) == Len(Joined(requests))

(* Faulty variant: every request gets the head of the results.             *)
SliceOfHead(results, requests, k) == SubSeq(results, 1, Len(requests[k].rows))

(* The part of the results that belongs to the k-th request.               *)
Slice(results, requests, k) ==
    LET offset == RowCount(SubSeq(requests, 1, k - 1))
    IN  SubSeq(results, offset + 1, offset + Len(requests[k].rows))

(* How far a call is, as its caller sees it: got is the outcome of the     *)
(* k-th call, which was about n rows.                                      *)
PhaseOf(busy, c, k, n, got) ==
    IF busy THEN "waiting"
    ELSE IF k = 0 THEN "none"
    ELSE IF ~got.ok THEN "failed"
    ELSE IF got.rows = RowsOf(c, k, n) THEN "answered"
    ELSE "not its own"
=============================================================================

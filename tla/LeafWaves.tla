------------------------------- MODULE LeafWaves -------------------------------
(***************************************************************************)
(* What a caller of play may rely on, whichever scheduler answers it: the  *)
(* evaluator is called batch by batch as the searches alone determine      *)
(* (scheduler.rs, "Thread arrival order is timing, not game state"), and a *)
(* call that succeeds has made all of its evaluator calls.  A scheduler    *)
(* with a pool may break: from then on nothing is promised.                *)
(***************************************************************************)
EXTENDS LeafBatches

VARIABLES
    needs,    (* evaluations that each search of the call asks for         *)
    calls,    (* rows of the evaluator calls so far                        *)
    status

vars == <<needs, calls, status>>

Resting == {"none", "ok", "error", "rejected"}

Init == needs = <<>> /\ calls = <<>> /\ status = "none"

Call ==
    /\ status \in Resting /\ status' = "running"
    /\ needs' \in Seq(0..MaxEvals) /\ calls' = <<>>

Reject ==
    /\ status \in Resting /\ status' = "rejected"
    /\ UNCHANGED <<needs, calls>>

Batch ==
    /\ status = "running" /\ Len(calls) < Len(Geometry(needs))
    /\ calls' = Append(calls, Geometry(needs)[Len(calls) + 1])
    /\ UNCHANGED <<needs, status>>

Succeed ==
    /\ status = "running" /\ calls = Geometry(needs)
    /\ status' = "ok"
    /\ UNCHANGED <<needs, calls>>

Fail ==
    /\ status = "running" /\ status' = "error"
    /\ UNCHANGED <<needs, calls>>

Break ==
    /\ status = "running" /\ status' = "broken"
    /\ needs' = <<>> /\ calls' = <<>>

Discard ==
    /\ status \in Resting /\ status' = "dropped"
    /\ UNCHANGED <<needs, calls>>

Next == Call \/ Reject \/ Batch \/ Succeed \/ Fail \/ Break \/ Discard

Spec == Init /\ [][Next]_vars
=============================================================================

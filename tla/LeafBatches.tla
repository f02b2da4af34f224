------------------------------ MODULE LeafBatches ------------------------------
(***************************************************************************)
(* What the two schedulers of games/welcome_to/welcome_to_rust/src/        *)
(* scheduler.rs share: how a wave of leaf requests is cut into evaluator   *)
(* calls, and how evaluate_chunk routes the answers.                       *)
(*                                                                         *)
(* A request names the row of its search and how many evaluations that     *)
(* search will still ask for: its position, as far as anyone can tell.     *)
(***************************************************************************)
EXTENDS Integers, Sequences, FiniteSets, SequencesExt

CONSTANTS
    MaxBatch,   (* rows of one evaluator call                              *)
    MaxEvals    (* bound: evaluations of one search                        *)

ASSUME BatchAssumption == MaxBatch \in Nat \ {0} /\ MaxEvals \in Nat

(* Pending requests are records with the position they are about in of;    *)
(* they are put in order of their rows, by a stable sort.                  *)
Upto(pending, k) ==
    {j \in DOMAIN pending : \/ pending[j].of.row < pending[k].of.row
                            \/ pending[j].of.row = pending[k].of.row /\ j <= k}
InRowOrder(pending) ==
    [i \in DOMAIN pending |->
        pending[CHOOSE k \in DOMAIN pending : Cardinality(Upto(pending, k)) = i]]

FirstChunk(pending) ==
    SubSeq(pending, 1, IF Len(pending) < MaxBatch THEN Len(pending) ELSE MaxBatch)
OtherChunks(pending) == SubSeq(pending, Len(FirstChunk(pending)) + 1, Len(pending))

(* Faulty variant: answers taken in the order in which they come.          *)
AnsweredInPlace(chunk, k, order) == chunk[order[k]].of

(* The evaluator answers the rows of a chunk in an order of its own: its   *)
(* i-th answer is about row order[i], which its request id says.           *)
Answered(chunk, k, order) ==
    chunk[order[CHOOSE i \in DOMAIN order : order[i] = k]].of

Orders(chunk) == SetToSeqs(DOMAIN chunk)

-----------------------------------------------------------------------------
(* The evaluator calls of a play whose search r asks for need[r]           *)
(* evaluations: wave k holds every search that asks k times or more, in    *)
(* order of rows and cut into chunks.                                      *)
WaveRows(need, k) == SetToSortSeq({r \in DOMAIN need : need[r] >= k}, <)

Chunks(s) ==
    [i \in 1..((Len(s) + MaxBatch - 1) \div MaxBatch) |->
        SubSeq(s, (i - 1) * MaxBatch + 1,
               IF i * MaxBatch < Len(s) THEN i * MaxBatch ELSE Len(s))]

Geometry(need) == FlattenSeq([k \in 1..MaxEvals |-> Chunks(WaveRows(need, k))])
=============================================================================

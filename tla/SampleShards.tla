----------------------------- MODULE SampleShards -----------------------------
(***************************************************************************)
(* RustSampleShardWriter (welcome_to_rust/src/samples.rs): the games of an *)
(* iteration go through a bounded channel to a thread that writes them in  *)
(* shards, each through a temporary file and a rename.  A game is its      *)
(* seed.  The channel holds games and, at its end, the request to close.   *)
(***************************************************************************)
EXTENDS Integers, Sequences, FiniteSets

CONSTANTS
    Iterations,   (* iterations of a run                                   *)
    Games,        (* games of an iteration                                 *)
    ShardGames,   (* games of a full shard                                 *)
    QueueGames,   (* room of the channel                                   *)
    MaxFaults     (* bound: writes of a shard that fail                    *)

VARIABLES
    shards,       (* the .wts files of each iteration, by index            *)
    iteration,    (* the one whose prefix is being written, 0 for none     *)
    queue,        (* the channel                                           *)
    held,         (* games the thread holds for its next shard             *)
    index,        (* next_shard                                            *)
    failure,      (* the flag the thread shares with its producer          *)
    admitted,     (* seeds the producer has let in, or found in shards     *)
    writer,       (* where the thread is                                   *)
    reply,        (* its answer to close                                   *)
    faults

Seeds == 1..Games
Close == 0

thread     == <<held, index, failure, writer, reply>>
writerVars == <<shards, iteration, queue, admitted, thread, faults>>

WriterTypeOK ==
    /\ shards \in [1..Iterations -> Seq((SUBSET Seeds) \ {{}})]
    /\ iteration \in 0..Iterations
    /\ queue \in Seq(Seeds \cup {Close}) /\ Len(queue) <= QueueGames
    /\ held \subseteq Seeds
    /\ index \in 1..Games + 1
    /\ failure \in BOOLEAN
    /\ admitted \subseteq Seeds
    /\ writer \in {"gone", "ready", "flushing", "ending"}
    /\ reply \in {"none", "ok", "error"}
    /\ faults \in 0..MaxFaults

NoWriter ==
    /\ queue = <<>> /\ held = {} /\ index = 1 /\ failure = FALSE
    /\ admitted = {} /\ writer = "gone" /\ reply = "none"

WriterInit ==
    /\ shards = [i \in 1..Iterations |-> <<>>]
    /\ iteration = 0 /\ NoWriter /\ faults = 0

Content(i) == UNION {shards[i][k] : k \in DOMAIN shards[i]}

(* The thread dies with its process, and with it what it had not written.  *)
WriterDies ==
    /\ queue' = <<>> /\ held' = {} /\ index' = 1 /\ failure' = FALSE
    /\ admitted' = {} /\ writer' = "gone" /\ reply' = "none"

(* Faulty variant: numbering starts over. *)
OpenAtZero(i) ==
    /\ admitted' = Content(i)
    /\ index' = 1
    /\ writer' = "ready"
    /\ UNCHANGED <<queue, held, failure, reply>>

(* new: numbering goes on after the last shard there is. *)
Open(i) ==
    /\ admitted' = Content(i)
    /\ index' = Len(shards[i]) + 1
    /\ writer' = "ready"
    /\ UNCHANGED <<queue, held, failure, reply>>

(* add looks at the flag and at the seed, and then waits for room. *)
MayAdd(seed) == ~failure /\ seed \notin admitted
HasRoom      == Len(queue) < QueueGames

(* A game that arrives after a failure is dropped: its producer learns of  *)
(* the failure from its next call, close at the latest.                    *)
Discard ==
    /\ writer = "ready" /\ queue # <<>> /\ Head(queue) # Close /\ failure
    /\ queue' = Tail(queue)
    /\ UNCHANGED <<shards, iteration, admitted, thread, faults>>

Collect ==
    /\ writer = "ready" /\ queue # <<>> /\ Head(queue) # Close /\ ~failure
    /\ queue' = Tail(queue)
    /\ held' = held \cup {Head(queue)}
    /\ writer' = IF Cardinality(held') >= ShardGames THEN "flushing" ELSE "ready"
    /\ UNCHANGED <<shards, iteration, admitted, index, failure, reply, faults>>

TakeClose ==
    /\ writer = "ready" /\ queue # <<>> /\ Head(queue) = Close
    /\ queue' = Tail(queue)
    /\ writer' = "ending"
    /\ UNCHANGED <<shards, iteration, admitted, held, index, failure, reply,
                   faults>>

(* A rename replaces the file of that index, if there is one. *)
WriteShard ==
    /\ shards' = [shards EXCEPT ![iteration] =
                    [k \in DOMAIN @ \cup {index} |->
                       IF k = index THEN held ELSE @[k]]]
    /\ held' = {}
    /\ index' = index + 1
    /\ UNCHANGED <<iteration, queue, admitted, failure, faults>>

Flush ==
    /\ writer = "flushing"
    /\ WriteShard
    /\ writer' = "ready"
    /\ UNCHANGED reply

(* The disk is full, say: the temporary file is removed, the games stay. *)
FlushFails ==
    /\ writer = "flushing" /\ faults < MaxFaults
    /\ failure' = TRUE
    /\ faults' = faults + 1
    /\ writer' = "ready"
    /\ UNCHANGED <<shards, iteration, queue, admitted, held, index, reply>>

(* Close answers once the last, shorter shard is written. *)
EndWithShard ==
    /\ writer = "ending" /\ ~failure /\ held # {}
    /\ WriteShard
    /\ writer' = "gone" /\ reply' = "ok"

EndWithNothing ==
    /\ writer = "ending" /\ ~failure /\ held = {}
    /\ writer' = "gone" /\ reply' = "ok"
    /\ UNCHANGED <<shards, iteration, queue, admitted, held, index, failure,
                   faults>>

EndInError ==
    /\ writer = "ending" /\ failure
    /\ writer' = "gone" /\ reply' = "error"
    /\ UNCHANGED <<shards, iteration, queue, admitted, held, index, failure,
                   faults>>

EndFails ==
    /\ writer = "ending" /\ ~failure /\ held # {} /\ faults < MaxFaults
    /\ faults' = faults + 1
    /\ writer' = "gone" /\ reply' = "error"
    /\ UNCHANGED <<shards, iteration, queue, admitted, held, index, failure>>

Write == \/ Discard \/ Collect \/ TakeClose \/ Flush \/ FlushFails
         \/ EndWithShard \/ EndWithNothing \/ EndInError \/ EndFails
=============================================================================

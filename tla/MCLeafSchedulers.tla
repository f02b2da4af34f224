--------------------------- MODULE MCLeafSchedulers ---------------------------
(***************************************************************************)
(* Instances of the two schedulers for TLC.  A behaviour is one of         *)
(* CloudScheduler or one of RustScheduler, which is chosen at its start;   *)
(* the two share the variables whose names they share, and those the other *)
(* alone has keep their first value.  Each property holds of both.         *)
(***************************************************************************)
EXTENDS CloudScheduler

CONSTANTS s1, s2, s3, s4

VARIABLES which, live, threads, left, replies

Rust == INSTANCE RustScheduler

cloudOnly == <<commands, buckets, active, target, arrived, responses, workers,
               panics, abandoned>>
rustOnly  == <<live, threads, left, replies>>

Three == {<<s1, s2, s3>>, <<s4>>}

EitherInit ==
    \/ which = "cloud" /\ Init
       /\ live = 0 /\ threads = <<>> /\ left = <<>> /\ replies = <<>>
    \/ which = "rust" /\ Rust!Init
       /\ commands = [w \in Pool |-> <<>>] /\ buckets = <<>>
       /\ active = {} /\ target = {} /\ arrived = {} /\ responses = Nobody
       /\ wpc = [w \in Pool |-> "ready"] /\ tasks = [w \in Pool |-> <<>>]
       /\ at = [w \in Pool |-> 0] /\ inbox = Nobody
       /\ panics = 0 /\ abandoned = FALSE

EitherNext ==
    /\ UNCHANGED which
    /\ \/ which = "cloud" /\ Next /\ UNCHANGED rustOnly
       \/ which = "rust" /\ Rust!Next /\ UNCHANGED cloudOnly

everything == <<vars, which, rustOnly>>

EitherSpec ==
    /\ EitherInit /\ [][EitherNext]_everything
    /\ WF_everything(which = "cloud" /\ Coordinate /\ UNCHANGED <<which, rustOnly>>)
    /\ \A w \in Pool : WF_everything(
         which = "cloud" /\ WorkerStep(w) /\ UNCHANGED <<which, rustOnly>>)
    /\ WF_everything(which = "rust" /\ Rust!Coordinate /\ UNCHANGED <<which, cloudOnly>>)
    /\ WF_everything(which = "rust" /\ (\E r \in Rust!Rows : Rust!Thread(r))
                    /\ UNCHANGED <<which, cloudOnly>>)

(* The types of either scheduler, and the bounds of what travels.          *)
SchedulersTypeOK == IF which = "cloud" THEN TypeOK ELSE Rust!TypeOK

(* Every answer on its way goes to the search that waits for it, and to no *)
(* other ("routes rows by request id").                                    *)
AnswersAreOwn == IF which = "cloud" THEN OneOwnAnswerEach ELSE Rust!OneOwnReply

(* A call that started its searches gives every slot back: a failing       *)
(* evaluator, an error of a search and a panic included.                   *)
SlotsComeBack == IF which = "cloud" THEN CapacityKept ELSE Rust!SlotsReturned

(* Every call returns, and dropping a pool ends, whatever panicked or was  *)
(* abandoned before: nobody waits for a message that never comes.          *)
CallsReturn == []<>(pc \in {"idle", "dropped"})

(* The batches the evaluator sees are a function of the searches alone,    *)
(* whatever thread runs them and whoever gets to the barrier first         *)
(* ("worker-count-independent", "Stable input order makes batch geometry   *)
(* and response tapes reproducible").                                      *)
EitherWaves == INSTANCE LeafWaves WITH
    needs  <- IF abandoned THEN <<>> ELSE needs,
    calls  <- IF abandoned THEN <<>> ELSE calls,
    status <- IF which = "cloud" THEN Status ELSE Rust!Status

SchedulersImplementWaves == EitherWaves!Spec
=============================================================================

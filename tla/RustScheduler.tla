----------------------------- MODULE RustScheduler -----------------------------
(***************************************************************************)
(* RustScheduler (games/welcome_to/welcome_to_rust/src/scheduler.rs): the  *)
(* older scheduler, which gives every search of a call a thread of its own.*)
(* A thread sends each request with a channel for the reply and blocks on  *)
(* it; the coordinator evaluates once every thread that is left has asked. *)
(* The threads are joined before the call returns.                         *)
(*                                                                         *)
(* A panic of the search is caught in its thread and ends it like an error *)
(* does.  What a search asks for is a function of its seed and of what the *)
(* evaluator answers, so the number of its evaluations, up to its result,  *)
(* its error or its panic, is drawn when the call is made.                 *)
(***************************************************************************)
EXTENDS LeafBatches

CONSTANTS
    Slots,      (* persistent search slots                                 *)
    Requests,   (* the sequences of slots that play may be called with     *)
    MaxPlays    (* bound: calls of play and search                         *)

VARIABLES
    searches,   (* the search in each slot; "taken" while it is None       *)
    slots,      (* the slots of this call, by row                          *)
    needs,      (* evaluations each search asks for in all                 *)
    \* the coordinator
    pc,
    messages,   (* from the threads, oldest first                          *)
    live,       (* threads that have not finished                          *)
    pending,    (* requests of this wave                                   *)
    failed,     (* python_error                                            *)
    finished,   (* what the threads have come back with                    *)
    result,     (* how the last call ended                                 *)
    \* the threads, by row
    threads,
    left,       (* evaluations the search will still ask for               *)
    replies,    (* the reply channel of the thread's request               *)
    \* history
    plays,
    calls       (* the rows of every evaluator call of this play           *)

call    == <<slots, needs>>
wave    == <<live, pending, failed, finished>>
workers == <<threads, left, replies>>
vars    == <<searches, call, pc, messages, wave, result, workers, plays, calls>>

Rows  == DOMAIN slots
Asked == [row : Nat, left : 0..MaxEvals]

Messages == [type : {"request"}, of : Asked] \cup
            [type : {"finished"}, row : Nat, ok : BOOLEAN]

TypeOK ==
    /\ searches \in [Slots -> {"clean", "used", "taken"}]
    /\ slots \in Seq(Slots)
    /\ needs \in Seq(0..MaxEvals) /\ Len(needs) = Len(slots)
    /\ pc \in {"idle", "collecting", "evaluating", "restoring"}
    /\ messages \in Seq(Messages)
    /\ live \in 0..Len(slots)
    /\ pending \in Seq([of : Asked]) /\ Len(pending) <= live
    /\ failed \in BOOLEAN
    /\ finished \subseteq [row : Rows, ok : BOOLEAN]
    /\ result \in {"none", "ok", "error"}
    /\ threads \in [Rows -> {"searching", "waiting", "ended"}]
    /\ left \in [Rows -> 0..MaxEvals]
    /\ replies \in [Rows -> Seq([to : Rows, ok : BOOLEAN, of : Asked])]
    /\ plays \in 0..MaxPlays
    /\ calls \in Seq(Seq(Nat))

Init ==
    /\ searches = [s \in Slots |-> "clean"]
    /\ slots = <<>> /\ needs = <<>>
    /\ pc = "idle" /\ messages = <<>>
    /\ live = 0 /\ pending = <<>> /\ failed = FALSE /\ finished = {}
    /\ result = "none"
    /\ threads = <<>> /\ left = <<>> /\ replies = <<>>
    /\ plays = 0 /\ calls = <<>>

-----------------------------------------------------------------------------
(* Every slot of the call is idle: its searches are taken out, and each    *)
(* gets a thread.                                                          *)
Play(request, need) ==
    /\ pc = "idle" /\ plays < MaxPlays
    /\ \A r \in DOMAIN request : searches[request[r]] # "taken"
    /\ plays' = plays + 1
    /\ searches' = [s \in Slots |->
         IF s \in Range(request) THEN "taken" ELSE searches[s]]
    /\ slots' = request /\ needs' = need
    /\ threads' = [r \in DOMAIN request |-> "searching"]
    /\ left' = need
    /\ replies' = [r \in DOMAIN request |-> <<>>]
    /\ live' = Len(request) /\ pending' = <<>>
    /\ failed' = FALSE /\ finished' = {}
    /\ calls' = <<>> /\ result' = "none"
    /\ pc' = "collecting"
    /\ UNCHANGED messages

Receive ==
    /\ pc = "collecting" /\ Len(pending) < live /\ messages # <<>>
    /\ messages' = Tail(messages)
    /\ LET m == Head(messages) IN
         IF m.type = "request"
         THEN /\ pending' = Append(pending, [of |-> m.of])
              /\ UNCHANGED <<live, finished>>
         ELSE /\ live' = live - 1
              /\ finished' = finished \cup {[row |-> m.row, ok |-> m.ok]}
              /\ UNCHANGED pending
    /\ UNCHANGED <<searches, call, pc, failed, result, workers, plays, calls>>

(* Faulty variant: a wave in the order in which its requests arrived. *)
CloseAsArrived ==
    /\ pc = "collecting" /\ Len(pending) = live
    /\ pc' = IF live = 0 THEN "restoring" ELSE "evaluating"
    /\ UNCHANGED <<searches, call, messages, wave, result, workers, plays, calls>>

(* Everyone who is left has asked. *)
CloseWave ==
    /\ pc = "collecting" /\ Len(pending) = live
    /\ pending' = InRowOrder(pending)
    /\ pc' = IF live = 0 THEN "restoring" ELSE "evaluating"
    /\ UNCHANGED <<searches, call, messages, live, failed, finished, result,
                   workers, plays, calls>>

Chunk == FirstChunk(pending)

(* Each row of the chunk gets its reply; a thread has one request at a     *)
(* time, so a row is there once.                                           *)
Reply(answers) ==
    replies' = [r \in Rows |->
        LET mine == {k \in DOMAIN answers : answers[k].to = r}
        IN  IF mine = {} THEN replies[r]
            ELSE Append(replies[r], answers[CHOOSE k \in mine : TRUE])]

NextChunk ==
    /\ pending' = OtherChunks(pending)
    /\ pc' = IF pending' = <<>> THEN "collecting" ELSE "evaluating"

EvaluateChunk ==
    /\ pc = "evaluating" /\ ~failed
    /\ \E order \in Orders(Chunk) :
         Reply([k \in DOMAIN Chunk |-> [to |-> Chunk[k].of.row, ok |-> TRUE,
                                      of |-> Answered(Chunk, k, order)]])
    /\ calls' = Append(calls, [k \in DOMAIN Chunk |-> Chunk[k].of.row])
    /\ NextChunk
    /\ UNCHANGED <<searches, call, messages, live, failed, finished, result,
                   threads, left, plays>>

(* Faulty variant: the rows of the failing chunk get no reply. *)
EvaluationFailsSilently ==
    /\ pc = "evaluating" /\ ~failed
    /\ failed' = TRUE
    /\ NextChunk
    /\ UNCHANGED <<searches, call, messages, live, finished, result, workers,
                   plays, calls>>

(* forward raises, or its answer does not fit the request. *)
EvaluationFails ==
    /\ pc = "evaluating" /\ ~failed
    /\ failed' = TRUE
    /\ Reply([k \in DOMAIN Chunk |-> [to |-> Chunk[k].of.row, ok |-> FALSE,
                                    of |-> Chunk[k].of]])
    /\ NextChunk
    /\ UNCHANGED <<searches, call, messages, live, finished, result, threads,
                   left, plays, calls>>

(* "global evaluator cancelled" *)
CancelChunk ==
    /\ pc = "evaluating" /\ failed
    /\ Reply([k \in DOMAIN Chunk |-> [to |-> Chunk[k].of.row, ok |-> FALSE,
                                    of |-> Chunk[k].of]])
    /\ NextChunk
    /\ UNCHANGED <<searches, call, messages, live, failed, finished, result,
                   threads, left, plays, calls>>

(* Faulty variant: only searches with a result go back. *)
RestoreSuccessful ==
    /\ pc = "restoring" /\ \A r \in Rows : threads[r] = "ended"
    /\ searches' = [s \in Slots |->
         IF \E f \in finished : slots[f.row] = s /\ f.ok THEN "used" ELSE searches[s]]
    /\ result' = IF failed \/ \E r \in Rows : [row |-> r, ok |-> TRUE] \notin finished
                 THEN "error" ELSE "ok"
    /\ pc' = "idle"
    /\ UNCHANGED <<call, messages, wave, workers, plays, calls>>

(* The threads are joined, and every search goes back to its slot. *)
Restore ==
    /\ pc = "restoring" /\ \A r \in Rows : threads[r] = "ended"
    /\ searches' = [s \in Slots |->
         IF \E f \in finished : slots[f.row] = s THEN "used" ELSE searches[s]]
    /\ result' = IF failed \/ \E r \in Rows : [row |-> r, ok |-> TRUE] \notin finished
                 THEN "error" ELSE "ok"
    /\ pc' = "idle"
    /\ UNCHANGED <<call, messages, wave, workers, plays, calls>>

(* reset of a slot that is not busy; that of all the slots is one after   *)
(* the other.                                                              *)
Reset(s) ==
    /\ pc = "idle" /\ searches[s] = "used"
    /\ searches' = [searches EXCEPT ![s] = "clean"]
    /\ UNCHANGED <<call, pc, messages, wave, result, workers, plays, calls>>

-----------------------------------------------------------------------------
(* The thread of row r. *)

Says(m) == messages' = Append(messages, m)

(* Faulty variant: a search that does not notice its last evaluation. *)
AskForever(r) ==
    /\ threads[r] = "searching"
    /\ left' = [left EXCEPT ![r] = @ - 1]
    /\ Says([type |-> "request", of |-> [row |-> r, left |-> left'[r]]])
    /\ threads' = [threads EXCEPT ![r] = "waiting"]
    /\ UNCHANGED <<searches, call, pc, wave, result, replies, plays, calls>>

Ask(r) ==
    /\ threads[r] = "searching" /\ left[r] > 0
    /\ left' = [left EXCEPT ![r] = @ - 1]
    /\ Says([type |-> "request", of |-> [row |-> r, left |-> left'[r]]])
    /\ threads' = [threads EXCEPT ![r] = "waiting"]
    /\ UNCHANGED <<searches, call, pc, wave, result, replies, plays, calls>>

(* It has its result, or it raises or panics. *)
End(r, ok) ==
    /\ threads[r] = "searching" /\ left[r] = 0
    /\ Says([type |-> "finished", row |-> r, ok |-> ok])
    /\ threads' = [threads EXCEPT ![r] = "ended"]
    /\ UNCHANGED <<searches, call, pc, wave, result, left, replies, plays, calls>>

Taken(r) == replies' = [replies EXCEPT ![r] = Tail(@)]

Resume(r) ==
    /\ threads[r] = "waiting" /\ replies[r] # <<>> /\ Head(replies[r]).ok
    /\ Taken(r)
    /\ threads' = [threads EXCEPT ![r] = "searching"]
    /\ UNCHANGED <<searches, call, pc, messages, wave, result, left, plays, calls>>

(* An error instead of an answer ends the search. *)
GiveUp(r) ==
    /\ threads[r] = "waiting" /\ replies[r] # <<>> /\ ~Head(replies[r]).ok
    /\ Taken(r)
    /\ Says([type |-> "finished", row |-> r, ok |-> FALSE])
    /\ threads' = [threads EXCEPT ![r] = "ended"]
    /\ UNCHANGED <<searches, call, pc, wave, result, left, plays, calls>>

-----------------------------------------------------------------------------
Coordinate == \/ Receive \/ CloseWave \/ EvaluateChunk \/ EvaluationFails
              \/ CancelChunk \/ Restore

Thread(r) == Ask(r) \/ End(r, TRUE) \/ End(r, FALSE) \/ Resume(r) \/ GiveUp(r)

Next ==
    \/ \E request \in Requests :
         \E need \in [DOMAIN request -> 0..MaxEvals] : Play(request, need)
    \/ \E s \in Slots : Reset(s)
    \/ Coordinate
    \/ \E r \in Rows : Thread(r)

Safety == Init /\ [][Next]_vars

(* Threads are preemptive, a search step is finite, and the evaluator      *)
(* returns or raises.  Nobody has to call play.                            *)
Fairness == WF_vars(Coordinate) /\ WF_vars(\E r \in Rows : Thread(r))

Spec == Safety /\ Fairness

-----------------------------------------------------------------------------
(* Properties.                                                             *)

(* At most one reply is on its way to a thread, to one that waits, and an  *)
(* answer is about the position that thread asked for ("routes rows by     *)
(* request id").                                                           *)
OneOwnReply ==
    \A r \in Rows : replies[r] # <<>> =>
        /\ threads[r] = "waiting" /\ Len(replies[r]) = 1
        /\ Head(replies[r]).of = [row |-> r, left |-> left[r]]

(* However a call ends, with failing evaluators and panicking searches,    *)
(* every slot has its search back.                                         *)
SlotsReturned == pc = "idle" => \A s \in Slots : searches[s] # "taken"

(* The status of LeafWaves. *)
Status == IF pc = "idle" THEN result ELSE "running"
=============================================================================

----------------------------- MODULE CloudScheduler -----------------------------
(***************************************************************************)
(* RustCloudScheduler (games/welcome_to/welcome_to_rust/src/scheduler.rs): *)
(* many resumable searches on a fixed pool of worker threads, and one      *)
(* coordinator that gathers their evaluator requests into waves.  Threads  *)
(* talk over channels only: one from all the workers to the coordinator,   *)
(* and one from the coordinator to each worker.                            *)
(*                                                                         *)
(* A search is known by the play call it belongs to, its row, and the      *)
(* number of evaluations it will still ask for: it is a function of its    *)
(* seed and of what the evaluator answers, so that number is drawn when    *)
(* the call is made.  Python calls are exclusive (&mut self).              *)
(***************************************************************************)
EXTENDS LeafBatches

CONSTANTS
    Slots,      (* persistent search slots                                 *)
    Workers,    (* size of the pool: workers are 1..Workers                *)
    Requests,   (* the sequences of slots that play may be called with     *)
    MaxPlays,   (* bound: calls of play                                    *)
    MaxPanics   (* bound: panics of the engine inside a worker             *)

Pool == 1..Workers

ASSUME SchedulerAssumption ==
    /\ Workers \in Nat \ {0}
    /\ MaxPlays \in Nat /\ MaxPanics \in Nat
    /\ Requests \subseteq Seq(Slots)
    /\ \A r \in Requests : r # <<>> /\ IsInjective(r)

VARIABLES
    searches,   (* the search in each slot; "taken" while
                   self.searches[slot] is None                             *)
    messages,   (* workers to coordinator, oldest first                    *)
    commands,   (* coordinator to each worker, oldest first                *)
    \* the coordinator
    pc,
    slots,      (* the slots of this call, by row                          *)
    buckets,    (* tasks for the workers that have not been started yet    *)
    active,     (* workers still owing a Done                              *)
    target,     (* wave_target                                             *)
    arrived,
    pending,    (* requests of this wave                                   *)
    responses,  (* for each worker, the answers of this wave               *)
    finished,   (* searches that have come back, with their results        *)
    failed,     (* python_error                                            *)
    result,     (* how the last call ended                                 *)
    \* the workers
    wpc,
    tasks,      (* the sessions a worker owns, in order                    *)
    at,         (* position of retain_mut in tasks                         *)
    inbox,      (* answers of the pass a worker is in, by row              *)
    \* history
    plays, panics,
    abandoned,  (* a call has returned at once, a worker being gone: nobody
                   collects what the others send for it                    *)
    needs,      (* evaluations each search of this call asks for in all     *)
    calls       (* the rows of every evaluator call of this play           *)

channels    == <<messages, commands>>
call        == <<slots, buckets, needs>>
wave        == <<active, target, arrived, pending, responses>>
outcome     == <<finished, failed, result>>
workers     == <<wpc, tasks, at, inbox>>
history     == <<plays, panics, abandoned>>
vars == <<searches, channels, pc, call, wave, outcome, workers, history, calls>>

Contents == {"clean", "used", "taken"}

(* A search in progress: left is what it will still ask for. *)
Task   == [play : 1..MaxPlays, row : Nat, slot : Slots, left : 0..MaxEvals]
(* The position a search waits for, as the evaluator's answer names it. *)
Asked  == [play : Nat, row : Nat, left : 0..MaxEvals]
AskedBy(t) == [play |-> t.play, row |-> t.row, left |-> t.left]

Answers == [row : Nat, of : Asked]

Messages ==
    [type : {"request"}, worker : Pool, of : Asked] \cup
    [type : {"finished"}, task : Task, ok : BOOLEAN] \cup
    [type : {"barrier", "done", "panicked"}, worker : Pool]

Commands ==
    [type : {"start"}, tasks : Seq(Task)] \cup
    [type : {"responses"}, rows : SUBSET Answers] \cup
    [type : {"cancel", "shutdown"}]

Outcomes == {"none", "ok", "error", "rejected", "not_running"}

TypeOK ==
    /\ searches \in [Slots -> Contents]
    /\ messages \in Seq(Messages)
    /\ commands \in [Pool -> Seq(Commands)]
    /\ pc \in {"idle", "starting", "collecting", "evaluating", "replying",
               "restoring", "dropping", "dropped"}
    /\ slots \in Seq(Slots)
    /\ buckets \in Seq(Seq(Task))
    /\ active \subseteq Pool /\ target \subseteq Pool /\ arrived \subseteq target
    /\ pending \in Seq([worker : Pool, of : Asked])
    /\ responses \in [Pool -> SUBSET Answers]
    /\ finished \subseteq [task : Task, ok : BOOLEAN]
    /\ failed \in BOOLEAN
    /\ result \in [kind : Outcomes, plays : SUBSET Nat]
    /\ wpc \in [Pool -> {"ready", "opening", "resuming", "waiting", "dead",
                     "gone"}]
    /\ tasks \in [Pool -> Seq(Task)]
    /\ at \in [Pool -> Nat]
    /\ inbox \in [Pool -> SUBSET Answers]
    /\ plays \in 0..MaxPlays /\ panics \in 0..MaxPanics /\ abandoned \in BOOLEAN
    /\ needs \in Seq(0..MaxEvals)
    /\ calls \in Seq(Seq(Nat))

Nobody == [w \in Pool |-> {}]

Init ==
    /\ searches = [s \in Slots |-> "clean"]
    /\ messages = <<>> /\ commands = [w \in Pool |-> <<>>]
    /\ pc = "idle" /\ slots = <<>> /\ buckets = <<>> /\ needs = <<>>
    /\ active = {} /\ target = {} /\ arrived = {}
    /\ pending = <<>> /\ responses = Nobody
    /\ finished = {} /\ failed = FALSE
    /\ result = [kind |-> "none", plays |-> {}]
    /\ wpc = [w \in Pool |-> "ready"] /\ tasks = [w \in Pool |-> <<>>]
    /\ at = [w \in Pool |-> 0] /\ inbox = Nobody
    /\ plays = 0 /\ panics = 0 /\ abandoned = FALSE /\ calls = <<>>

-----------------------------------------------------------------------------
(* The coordinator: play.                                                  *)

Rows == DOMAIN slots
WorkerCount(n) == IF n < Workers THEN n ELSE Workers
WorkerOf(row, n) == ((row - 1) % WorkerCount(n)) + 1

(* Row r goes to bucket r modulo the number of workers, in order of rows.  *)
Buckets(request, need, play) ==
    [w \in 1..WorkerCount(Len(request)) |->
        LET mine == {r \in DOMAIN request : WorkerOf(r, Len(request)) = w}
        IN  [k \in 1..Cardinality(mine) |->
                LET r == CHOOSE r \in mine : Cardinality(mine \cap 1..r) = k
                IN  [play |-> play, row |-> r, slot |-> request[r],
                     left |-> need[r]]]]

Return(kind) == result' = [kind |-> kind, plays |-> {}] /\ pc' = "idle"

(* Every slot of the call is idle: their searches are taken out one by one *)
(* and opened as sessions.                                                 *)
Play(request, need) ==
    /\ pc = "idle" /\ plays < MaxPlays
    /\ \A r \in DOMAIN request : searches[request[r]] # "taken"
    /\ plays' = plays + 1
    /\ searches' = [s \in Slots |->
         IF s \in Range(request) THEN "taken" ELSE searches[s]]
    /\ slots' = request /\ needs' = need
    /\ buckets' = Buckets(request, need, plays + 1)
    /\ finished' = {} /\ failed' = FALSE /\ calls' = <<>>
    /\ result' = [kind |-> "none", plays |-> {}]
    /\ pc' = "starting"
    /\ UNCHANGED <<channels, wave, workers, panics, abandoned>>

(* PlaySession::new refuses row k: the call returns at once, with what it  *)
(* has taken out so far.                                                   *)
PlayRejected(request, k) ==
    /\ pc = "idle" /\ plays < MaxPlays
    /\ \A r \in DOMAIN request : searches[request[r]] # "taken"
    /\ plays' = plays + 1
    /\ searches' = [s \in Slots |->
         IF \E r \in 1..k : request[r] = s THEN "taken" ELSE searches[s]]
    /\ Return("rejected")
    /\ UNCHANGED <<channels, call, wave, finished, failed, workers, panics,
                   abandoned, calls>>

(* Start goes to one worker after the other; a worker that is gone makes   *)
(* the call return at once.                                                *)
SendStart ==
    /\ pc = "starting" /\ buckets # <<>>
    /\ LET w == WorkerCount(Len(slots)) - Len(buckets) + 1
       IN  IF wpc[w] \in {"dead", "gone"}
           THEN Return("not_running") /\ abandoned' = TRUE /\ UNCHANGED commands
           ELSE /\ commands' = [commands EXCEPT ![w] =
                     Append(@, [type |-> "start", tasks |-> Head(buckets)])]
                /\ UNCHANGED <<pc, result, abandoned>>
    /\ buckets' = Tail(buckets)
    /\ UNCHANGED <<searches, messages, slots, needs, wave, finished, failed,
                   workers, plays, panics, calls>>

NewWave(members) ==
    /\ active' = members /\ target' = members /\ arrived' = {}
    /\ pending' = <<>> /\ responses' = Nobody

BeginWaves ==
    /\ pc = "starting" /\ buckets = <<>>
    /\ NewWave(1..WorkerCount(Len(slots)))
    /\ pc' = "collecting"
    /\ UNCHANGED <<searches, channels, call, outcome, workers, history, calls>>

Arrive(w) == arrived' = IF w \in target THEN arrived \cup {w} ELSE arrived

(* The next message of a wave that is not complete. *)
Receive ==
    /\ pc = "collecting" /\ arrived # target /\ messages # <<>>
    /\ messages' = Tail(messages)
    /\ LET m == Head(messages) IN
         CASE m.type = "request" ->
                /\ pending' = Append(pending, [worker |-> m.worker, of |-> m.of])
                /\ UNCHANGED <<active, arrived, finished, failed>>
           [] m.type = "finished" ->
                /\ finished' = finished \cup {[task |-> m.task, ok |-> m.ok]}
                /\ UNCHANGED <<active, arrived, pending, failed>>
           [] m.type = "barrier" ->
                /\ Arrive(m.worker)
                /\ UNCHANGED <<active, pending, finished, failed>>
           [] m.type = "done" ->
                /\ Arrive(m.worker)
                /\ active' = active \ {m.worker}
                /\ UNCHANGED <<pending, finished, failed>>
           [] m.type = "panicked" ->
                /\ Arrive(m.worker)
                /\ active' = active \ {m.worker}
                /\ failed' = TRUE
                /\ UNCHANGED <<pending, finished>>
    /\ UNCHANGED <<searches, commands, pc, call, target, responses, result,
                   workers, history, calls>>

(* Faulty variant: a wave in the order in which its requests arrived. *)
CloseAsArrived ==
    /\ pc = "collecting" /\ arrived = target
    /\ pc' = IF failed \/ pending = <<>> THEN "replying" ELSE "evaluating"
    /\ UNCHANGED <<searches, channels, call, wave, outcome, workers, history,
                   calls>>

(* Everyone is at the barrier: the requests are put in order of their rows.*)
CloseWave ==
    /\ pc = "collecting" /\ arrived = target
    /\ pending' = InRowOrder(pending)
    /\ pc' = IF failed \/ pending = <<>> THEN "replying" ELSE "evaluating"
    /\ UNCHANGED <<searches, channels, call, active, target, arrived,
                   responses, outcome, workers, history, calls>>

Chunk == FirstChunk(pending)

(* A request that an abandoned call left behind, of a worker this call has *)
(* no answers for, is an index out of bounds.                              *)
Unroutable == \E k \in DOMAIN Chunk : Chunk[k].worker > WorkerCount(Len(slots))

EvaluateChunk ==
    /\ pc = "evaluating"
    /\ calls' = Append(calls, [k \in DOMAIN Chunk |-> Chunk[k].of.row])
    /\ IF Unroutable
       THEN Return("error") /\ UNCHANGED <<responses, pending>>
       ELSE /\ \E order \in Orders(Chunk) :
                 responses' = [w \in Pool |-> responses[w] \cup
                     {[row |-> Chunk[k].of.row, of |-> Answered(Chunk, k, order)] :
                         k \in {i \in DOMAIN Chunk : Chunk[i].worker = w}}]
            /\ pending' = OtherChunks(pending)
            /\ pc' = IF pending' = <<>> THEN "replying" ELSE "evaluating"
            /\ UNCHANGED result
    /\ UNCHANGED <<searches, channels, call, active, target, arrived, finished,
                   failed, workers, history>>

(* forward raises, or its answer does not fit the request. *)
EvaluationFails ==
    /\ pc = "evaluating"
    /\ failed' = TRUE
    /\ pc' = "replying"
    /\ UNCHANGED <<searches, channels, call, wave, finished, result, workers,
                   history, calls>>

(* Faulty variant: a failed call that does not wait for the workers it has *)
(* cancelled.                                                              *)
ReplyAndLeave ==
    /\ pc = "replying"
    /\ commands' = [w \in Pool |->
         IF w \notin active \/ wpc[w] \in {"dead", "gone"} THEN commands[w]
         ELSE Append(commands[w],
                IF failed THEN [type |-> "cancel"]
                ELSE [type |-> "responses", rows |-> responses[w]])]
    /\ NewWave(active)
    /\ pc' = IF active = {} \/ failed THEN "restoring" ELSE "collecting"
    /\ UNCHANGED <<searches, messages, call, outcome, workers, history, calls>>

Reply ==
    /\ pc = "replying"
    /\ commands' = [w \in Pool |->
         IF w \notin active \/ wpc[w] \in {"dead", "gone"} THEN commands[w]
         ELSE Append(commands[w],
                IF failed THEN [type |-> "cancel"]
                ELSE [type |-> "responses", rows |-> responses[w]])]
    /\ NewWave(active)
    /\ pc' = IF active = {} THEN "restoring" ELSE "collecting"
    /\ UNCHANGED <<searches, messages, call, outcome, workers, history, calls>>

(* What has come back for a row of this call; the last to arrive counts. *)
Back(r) == {f \in finished : f.task.row = r}
Latest(r) == CHOOSE f \in Back(r) : \A g \in Back(r) : g.task.play <= f.task.play

(* A row beyond this call is an index out of bounds. *)
Stray == {f \in finished : f.task.row \notin Rows}

(* Faulty variant: what a panic took is not built anew. *)
RebuiltNever(s) == FALSE

Rebuilt(s) == s \in Range(slots) /\ (failed \/ \E r \in Rows : Back(r) = {})

(* Searches go back to their slots; what a panic took is built anew. *)
Restore ==
    /\ pc = "restoring"
    /\ searches' = [s \in Slots |->
         IF \E f \in finished \ Stray : f.task.slot = s THEN "used"
         ELSE IF searches[s] = "taken" /\ Rebuilt(s) /\ Stray = {} THEN "clean"
         ELSE searches[s]]
    /\ IF failed \/ Stray # {} \/ \E r \in Rows : Back(r) = {} \/ ~Latest(r).ok
       THEN Return("error")
       ELSE /\ result' = [kind  |-> "ok",
                          plays |-> {Latest(r).task.play : r \in Rows}]
            /\ pc' = "idle"
    /\ UNCHANGED <<channels, call, wave, finished, failed, workers, history,
                   calls>>

(* reset of a slot that is not busy; that of all the slots is one after   *)
(* the other, up to the first that is.                                     *)
Reset(s) ==
    /\ pc = "idle" /\ searches[s] = "used"
    /\ searches' = [searches EXCEPT ![s] = "clean"]
    /\ UNCHANGED <<channels, pc, call, wave, outcome, workers, history, calls>>

(* Drop: every worker is told to stop, then joined. *)
Drop ==
    /\ pc = "idle"
    /\ commands' = [w \in Pool |->
         IF wpc[w] = "dead" THEN commands[w]
         ELSE Append(commands[w], [type |-> "shutdown"])]
    /\ pc' = "dropping"
    /\ UNCHANGED <<searches, messages, call, wave, outcome, workers, history,
                   calls>>

Joined ==
    /\ pc = "dropping" /\ \A w \in Pool : wpc[w] \in {"dead", "gone"}
    /\ pc' = "dropped"
    /\ UNCHANGED <<searches, channels, call, wave, outcome, workers, history,
                   calls>>

-----------------------------------------------------------------------------
(* Workers.  A pass of retain_mut advances one session after the other to  *)
(* its next evaluation or to its end.                                      *)

Says(w, m) == messages' = Append(messages, m)
Takes(w) == commands' = [commands EXCEPT ![w] = Tail(@)]
Moves(w, p) == wpc' = [wpc EXCEPT ![w] = p]

Given(w, type) ==
    /\ wpc[w] = IF type = "start" THEN "ready" ELSE "waiting"
    /\ commands[w] # <<>> /\ Head(commands[w]).type = type
    /\ Takes(w)

unworked == <<searches, pc, call, wave, outcome, plays, abandoned, calls>>

Started(w) ==
    /\ Given(w, "start")
    /\ tasks' = [tasks EXCEPT ![w] = Head(commands[w]).tasks]
    /\ at' = [at EXCEPT ![w] = 1]
    /\ Moves(w, "opening")
    /\ UNCHANGED <<unworked, messages, inbox, panics>>

Resumed(w) ==
    /\ Given(w, "responses")
    /\ inbox' = [inbox EXCEPT ![w] = Head(commands[w]).rows]
    /\ at' = [at EXCEPT ![w] = 1]
    /\ Moves(w, "resuming")
    /\ UNCHANGED <<unworked, messages, tasks, panics>>

(* Every suspended session is given up, and its search sent back. *)
Cancelled(w) ==
    /\ Given(w, "cancel")
    /\ messages' = messages \o
         [k \in DOMAIN tasks[w] |->
            [type |-> "finished", task |-> tasks[w][k], ok |-> FALSE]]
    /\ tasks' = [tasks EXCEPT ![w] = <<>>]
    /\ at' = [at EXCEPT ![w] = 1]
    /\ Moves(w, "resuming")
    /\ UNCHANGED <<unworked, inbox, panics>>

(* Faulty variant: only the idle worker knows what a shutdown is. *)
ToldWhenReady(w) ==
    /\ wpc[w] = "ready"
    /\ commands[w] # <<>> /\ Head(commands[w]).type = "shutdown"
    /\ Takes(w)
    /\ tasks' = [tasks EXCEPT ![w] = <<>>]
    /\ Moves(w, "gone")
    /\ UNCHANGED <<unworked, messages, at, inbox, panics>>

Told(w) ==
    /\ wpc[w] \in {"ready", "waiting"}
    /\ commands[w] # <<>> /\ Head(commands[w]).type = "shutdown"
    /\ Takes(w)
    /\ tasks' = [tasks EXCEPT ![w] = <<>>]
    /\ Moves(w, "gone")
    /\ UNCHANGED <<unworked, messages, at, inbox, panics>>

(* A session advances past its answer, which a worker that has just been   *)
(* started does not need yet.                                              *)
InPass(w) == wpc[w] \in {"opening", "resuming"} /\ at[w] <= Len(tasks[w])
Present(w) == tasks[w][at[w]]
Resumable(w) == \/ wpc[w] = "opening"
                \/ \E a \in inbox[w] : a.row = Present(w).row

(* Faulty variant: a search that does not notice its last evaluation.      *)
AskForever(w) ==
    /\ InPass(w) /\ Resumable(w)
    /\ LET t == [Present(w) EXCEPT !.left = @ - 1]
       IN  /\ tasks' = [tasks EXCEPT ![w][at[w]] = t]
           /\ Says(w, [type |-> "request", worker |-> w, of |-> AskedBy(t)])
    /\ at' = [at EXCEPT ![w] = @ + 1]
    /\ UNCHANGED <<unworked, commands, wpc, inbox, panics>>

Ask(w) ==
    /\ InPass(w) /\ Resumable(w) /\ Present(w).left > 0
    /\ LET t == [Present(w) EXCEPT !.left = @ - 1]
       IN  /\ tasks' = [tasks EXCEPT ![w][at[w]] = t]
           /\ Says(w, [type |-> "request", worker |-> w, of |-> AskedBy(t)])
    /\ at' = [at EXCEPT ![w] = @ + 1]
    /\ UNCHANGED <<unworked, commands, wpc, inbox, panics>>

(* A search that asks for nothing more completes, or it raises. *)
End(w, ok) ==
    /\ InPass(w) /\ Resumable(w) /\ Present(w).left = 0
    /\ Says(w, [type |-> "finished", task |-> Present(w), ok |-> ok])
    /\ tasks' = [tasks EXCEPT ![w] = RemoveAt(@, at[w])]
    /\ UNCHANGED <<unworked, commands, wpc, at, inbox, panics>>

EndPass(w) ==
    /\ wpc[w] \in {"opening", "resuming"} /\ at[w] > Len(tasks[w])
    /\ IF tasks[w] = <<>>
       THEN /\ Says(w, [type |-> "done", worker |-> w])
            /\ Moves(w, "ready")
       ELSE /\ Says(w, [type |-> "barrier", worker |-> w])
            /\ Moves(w, "waiting")
    /\ inbox' = [inbox EXCEPT ![w] = {}]
    /\ at' = [at EXCEPT ![w] = 0]
    /\ UNCHANGED <<unworked, commands, tasks, panics>>

(* The unwinding thread drops its sessions and its end of the channel, and *)
(* says so.                                                                *)
Dies(w) ==
    /\ Says(w, [type |-> "panicked", worker |-> w])
    /\ Moves(w, "dead")
    /\ commands' = [commands EXCEPT ![w] = <<>>]
    /\ tasks' = [tasks EXCEPT ![w] = <<>>]
    /\ inbox' = [inbox EXCEPT ![w] = {}]
    /\ at' = [at EXCEPT ![w] = 0]

EnginePanics(w) ==
    /\ InPass(w) /\ panics < MaxPanics
    /\ panics' = panics + 1
    /\ Dies(w)
    /\ UNCHANGED unworked

(* The panics the worker raises itself: a command out of turn, or a session*)
(* left without its answer.                                                *)
Expected(w) == IF wpc[w] = "ready" THEN {"start", "shutdown"}
               ELSE {"responses", "cancel", "shutdown"}

ProtocolPanics(w) ==
    /\ \/ /\ wpc[w] \in {"ready", "waiting"} /\ commands[w] # <<>>
          /\ Head(commands[w]).type \notin Expected(w)
       \/ InPass(w) /\ ~Resumable(w)
    /\ Dies(w)
    /\ UNCHANGED <<unworked, panics>>

-----------------------------------------------------------------------------
Coordinate == \/ SendStart \/ BeginWaves \/ Receive \/ CloseWave
              \/ EvaluateChunk \/ EvaluationFails \/ Reply \/ Restore
              \/ Joined

WorkerStep(w) == \/ Started(w) \/ Resumed(w) \/ Cancelled(w) \/ Told(w)
                 \/ Ask(w) \/ End(w, TRUE) \/ End(w, FALSE) \/ EndPass(w)
                 \/ EnginePanics(w) \/ ProtocolPanics(w)

Next ==
    \/ \E request \in Requests :
         \/ \E need \in [DOMAIN request -> 0..MaxEvals] : Play(request, need)
         \/ \E k \in DOMAIN request : PlayRejected(request, k)
    \/ \E s \in Slots : Reset(s)
    \/ Drop \/ Coordinate
    \/ \E w \in Pool : WorkerStep(w)

Safety == Init /\ [][Next]_vars

(* Threads are preemptive, a search step is finite, and the evaluator      *)
(* returns or raises.  Nobody has to call play, or to drop the scheduler.  *)
Fairness == WF_vars(Coordinate) /\ \A w \in Pool : WF_vars(WorkerStep(w))

Spec == Safety /\ Fairness

-----------------------------------------------------------------------------
(* Properties.                                                             *)

(* The status of LeafWaves; a call that succeeds answers with its own      *)
(* searches.                                                               *)
Status ==
    CASE abandoned -> "broken"
      [] ~abandoned /\ pc \in {"dropping", "dropped"} -> "dropped"
      [] ~abandoned /\ pc = "idle" ->
           IF result.kind = "ok" /\ result.plays # {plays}
           THEN "not its own" ELSE result.kind
      [] OTHER -> "running"

(* The answers on their way to a worker are those its suspended sessions   *)
(* wait for, one each ("routes rows by request id").                       *)
OneOwnAnswerEach == ~abandoned =>
    \A w \in Pool : \A c \in Range(commands[w]) : c.type = "responses" =>
        /\ {a.of : a \in c.rows} = {AskedBy(t) : t \in Range(tasks[w])}
        /\ Cardinality(c.rows) = Len(tasks[w])
        /\ \A a \in c.rows : a.row = a.of.row

(* A call that started its workers gives every slot back, also when the    *)
(* evaluator fails or a worker panics.                                     *)
CapacityKept == ~abandoned /\ pc = "idle" /\ result.kind \in {"ok", "error"} =>
    \A s \in Range(slots) : searches[s] # "taken"

(* Only a worker's panic costs a slot its search, with its counters:       *)
(* "Normal evaluator errors preserve the original trees".  (The root that  *)
(* the search had retained is given up by PlaySession::new all the same.)  *)
(* After an abandoned call this need not be so: what its workers still     *)
(* send can end a later call, and its slots are filled anew, while a       *)
(* worker still holds a search.                                            *)
SearchesOutliveErrors ==
    [][~abandoned => \A s \in Slots : searches[s] = "taken" /\ searches'[s] = "clean" =>
         \E r \in Rows : slots[r] = s /\ wpc[WorkerOf(r, Len(slots))] = "dead"]_vars

(* "Does every scheduler failure wake workers and return capacity? Yes":   *)
(* also a call that finds a worker of an earlier panic gone gives back the *)
(* slots it had taken.                                                     *)
EveryFailureReturnsCapacity ==
    pc = "idle" /\ result.kind \in {"ok", "error", "not_running"} =>
        \A s \in Range(slots) : searches[s] # "taken"
=============================================================================

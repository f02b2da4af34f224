----------------------------- MODULE AdvisorJobs -----------------------------
(***************************************************************************)
(* The advisor host's JobManager (games/advisor/jobs.py): request threads  *)
(* that start, poll, stop and run searches; a bounded pool of search       *)
(* workers; a bounded pool for the annotators that run beside a search;    *)
(* and a sweeper.  Every read or write the code makes outside the lock is  *)
(* a step of its own wherever another thread could tell the difference.    *)
(*                                                                         *)
(* Time is kept as ages: `now - updated_at' is age[j], saturating one past *)
(* the only value it is compared with, so that no clock has to be bounded. *)
(* uuid4 is a choice of an identity never used before: Jobs bounds how     *)
(* many searches a behaviour may create.                                   *)
(***************************************************************************)
EXTENDS Integers, Sequences, FiniteSets

CONSTANTS
    Jobs,              (* job ids                                          *)
    Keys,              (* (state_key, params_key) of a request             *)
    TerminalKeys,      (* keys of positions without a legal action         *)
    Clients,           (* threads of the HTTP server                       *)
    ConcurrentList,    (* annotators that declare concurrent = True, in the
                          adapter's order                                  *)
    Sequential,        (* annotators that run once the search settles      *)
    Target,            (* sims_target of every request, in chunks          *)
    SearchWorkers,     (* size of the search pool                          *)
    AnnotatorWorkers,  (* size of the annotator pool                       *)
    Ttl,               (* ttl_secs, in ticks                               *)
    IdleTimeout,       (* idle_timeout_secs, in ticks; 0 switches it off   *)
    None

Concurrent == {ConcurrentList[i] : i \in DOMAIN ConcurrentList}

AnnStatuses == {"absent", "running", "no_result", "complete", "error"}

(* What a client sees of a RecommendResponse: the tree it describes, the   *)
(* annotators whose results decorate it, and summary["annotation_status"]. *)
Answer == [sims    : 0..Target,
           results : SUBSET (Concurrent \cup Sequential),
           states  : [Concurrent -> AnnStatuses]]

ASSUME JobsAssumption ==
    /\ None \notin Jobs \cup Keys
    /\ None \notin Answer
    /\ TerminalKeys \subseteq Keys
    /\ Target \in Nat \ {0}
    /\ SearchWorkers \in Nat \ {0}
    /\ AnnotatorWorkers \in Nat \ {0}
    /\ Ttl \in Nat
    /\ IdleTimeout \in Nat
    /\ ConcurrentList \in Seq(Concurrent)
    /\ Concurrent \cap Sequential = {}

VARIABLES
    registered,  (* the keys of self._jobs                                 *)
    byKey,       (* self._by_key                                           *)
    \* fields of a SearchJob that clients read
    key, streaming, status, error, sims, version, snap,
    \* fields of a SearchJob that stay inside
    stop,        (* _stop.is_set()                                         *)
    annRes,      (* names in _annotation_results                           *)
    annState,    (* _annotation_states                                     *)
    \* clocks
    age,         (* now - updated_at                                       *)
    idle,        (* now - max(polled_at, started_at)                       *)
    \* threads
    queue,       (* jobs submitted to the search pool, oldest first        *)
    pc,          (* where the thread that drives the job is                *)
    handle,      (* the SearchHandle of the job                            *)
    base,        (* the local `response' of _settle                        *)
    annQueue,    (* tasks submitted to the annotator pool, oldest first    *)
    ann,         (* where each concurrent annotator of a job is            *)
    expired,     (* the annotators whose own deadline has passed           *)
    call         (* what each request thread is doing                      *)

(* Frames: what only request threads and the reaper write, and the rest by *)
(* subject.                                                                *)
hostVars   == <<registered, byKey, key, streaming, stop, call>>
outcome    == <<status, error>>
answerVars == <<sims, version, snap>>
workerVars == <<queue, pc, handle, base>>
annVars    == <<annRes, annState, annQueue, ann, expired>>
clockVars  == <<age, idle>>
vars == <<hostVars, outcome, answerVars, workerVars, annVars, clockVars>>

ActiveStatuses == {"queued", "running"}
Statuses == ActiveStatuses \cup {"unborn", "done", "cancelled", "error"}
Points == {"unborn", "queued", "opening", "loop", "advancing", "settling",
           "waiting", "annotating", "judging", "accepting", "cancelling",
           "closing", "returned", "lost"}
Idle == <<"idle", None>>
Calls == {Idle} \cup ({"start"} \X Keys) \cup ({"poll", "blocking"} \X Jobs)

TypeOK ==
    /\ registered \subseteq Jobs
    /\ byKey \in [Keys -> Jobs \cup {None}]
    /\ key \in [Jobs -> Keys \cup {None}]
    /\ streaming \in [Jobs -> BOOLEAN]
    /\ status \in [Jobs -> Statuses]
    /\ error \in [Jobs -> {"none", "abandoned", "raised"}]
    /\ sims \in [Jobs -> 0..Target]
    /\ version \in [Jobs -> Nat]
    /\ snap \in [Jobs -> Answer \cup {None}]
    /\ stop \in [Jobs -> BOOLEAN]
    /\ annRes \in [Jobs -> SUBSET Concurrent]
    /\ annState \in [Jobs -> [Concurrent -> AnnStatuses]]
    /\ age \in [Jobs -> 0..(Ttl + 1)]
    /\ idle \in [Jobs -> 0..(IdleTimeout + 1)]
    /\ queue \in Seq(Jobs)
    /\ pc \in [Jobs -> Points]
    /\ handle \in [Jobs -> {"none", "open", "closed"}]
    /\ base \in [Jobs -> Answer \cup {None}]
    /\ annQueue \in Seq(Jobs \X Concurrent)
    /\ ann \in [Jobs -> [Concurrent ->
                    {"absent", "queued", "computing", "merging", "done"}]]
    /\ expired \in [Jobs -> SUBSET Concurrent]
    /\ call \in [Clients -> Calls]

NoStates == [c \in Concurrent |-> "absent"]
NoAnswer == [sims |-> 0, results |-> {}, states |-> NoStates]

Init ==
    /\ registered = {}
    /\ byKey = [k \in Keys |-> None]
    /\ key = [j \in Jobs |-> None]
    /\ streaming = [j \in Jobs |-> FALSE]
    /\ status = [j \in Jobs |-> "unborn"]
    /\ error = [j \in Jobs |-> "none"]
    /\ sims = [j \in Jobs |-> 0]
    /\ version = [j \in Jobs |-> 0]
    /\ snap = [j \in Jobs |-> None]
    /\ stop = [j \in Jobs |-> FALSE]
    /\ annRes = [j \in Jobs |-> {}]
    /\ annState = [j \in Jobs |-> NoStates]
    /\ age = [j \in Jobs |-> 0]
    /\ idle = [j \in Jobs |-> 0]
    /\ queue = <<>>
    /\ pc = [j \in Jobs |-> "unborn"]
    /\ handle = [j \in Jobs |-> "none"]
    /\ base = [j \in Jobs |-> None]
    /\ annQueue = <<>>
    /\ ann = [j \in Jobs |-> NoStates]
    /\ expired = [j \in Jobs |-> {}]
    /\ call = [c \in Clients |-> Idle]

-----------------------------------------------------------------------------
(* Clock and reaper.                                                       *)

Active(j) == status[j] \in ActiveStatuses

Older(t, limit) == IF t <= limit THEN t + 1 ELSE t

(* time.time() moves on.  The idle rule never looks at a job that is over, *)
(* so its idle clock stands at 0.                                          *)
Tick ==
    /\ age' = [j \in Jobs |->
         IF j \in registered THEN Older(age[j], Ttl) ELSE age[j]]
    /\ idle' = [j \in Jobs |->
         IF j \in registered /\ Active(j) THEN Older(idle[j], IdleTimeout)
         ELSE 0]
    /\ UNCHANGED <<hostVars, outcome, answerVars, workerVars, annVars>>

(* Faulty variant: the idle rule forgets that a blocking caller waits.     *)
AbandonedAnyJob == {j \in registered :
    Active(j) /\ IdleTimeout > 0 /\ idle[j] > IdleTimeout}

Abandoned == {j \in registered :
    Active(j) /\ streaming[j] /\ IdleTimeout > 0 /\ idle[j] > IdleTimeout}

(* Faulty variants: the ttl applied to running searches too, and to        *)
(* streaming ones only.                                                    *)
OutlivedAny == {j \in registered : age[j] > Ttl}
OutlivedStreaming == {j \in registered :
    ~Active(j) /\ streaming[j] /\ age[j] > Ttl}

Outlived == {j \in registered : ~Active(j) /\ age[j] > Ttl}

(* A key is freed only if it still leads to the dropped job.               *)
FreedForAnyHolder(k) == \E j \in Outlived : key[j] = k
Freed(k) == byKey[k] \in Outlived /\ key[byKey[k]] = k

(* _reap: stop what nobody polls, drop what finished longer than ttl ago.  *)
Reap ==
    /\ error' = [j \in Jobs |->
         IF j \in Abandoned /\ error[j] = "none" THEN "abandoned" ELSE error[j]]
    /\ stop' = [j \in Jobs |-> stop[j] \/ j \in Abandoned]
    /\ registered' = registered \ Outlived
    /\ byKey' = [k \in Keys |-> IF Freed(k) THEN None ELSE byKey[k]]

unreaped == <<key, streaming, status, answerVars, workerVars, annVars, clockVars>>

Sweep == Reap /\ UNCHANGED <<unreaped, call>>

-----------------------------------------------------------------------------
(* Request threads.  `start' and `poll' reap first and take the lock again *)
(* afterwards, so each is two steps.                                       *)

Unborn(j) == status[j] = "unborn"

NewJob(j, k, live, first) ==
    /\ Unborn(j)
    /\ registered' = registered \cup {j}
    /\ key' = [key EXCEPT ![j] = k]
    /\ streaming' = [streaming EXCEPT ![j] = live]
    /\ status' = [status EXCEPT ![j] = first]

BeginStart(c, k) ==
    /\ call[c] = Idle
    /\ Reap
    /\ call' = [call EXCEPT ![c] = <<"start", k>>]
    /\ UNCHANGED unreaped

(* A live job for the same key is handed to the caller as it is.           *)
Rejoin(c, k) ==
    /\ byKey[k] \in registered
    /\ Active(byKey[k])
    /\ call' = [call EXCEPT ![c] = Idle]
    /\ UNCHANGED <<registered, byKey, key, streaming, stop, outcome, answerVars,
                   workerVars, annVars, clockVars>>

(* No legal action: the job is born finished and no worker ever sees it.   *)
StartTerminal(c, k, j) ==
    /\ k \in TerminalKeys
    /\ NewJob(j, k, TRUE, "done")
    /\ byKey' = [byKey EXCEPT ![k] = j]
    /\ snap' = [snap EXCEPT ![j] = NoAnswer]
    /\ pc' = [pc EXCEPT ![j] = "returned"]
    /\ call' = [call EXCEPT ![c] = Idle]
    /\ UNCHANGED <<stop, error, sims, version, queue, handle, base, annVars,
                   clockVars>>

Submit(c, k, j) ==
    /\ k \notin TerminalKeys
    /\ NewJob(j, k, TRUE, "running")
    /\ byKey' = [byKey EXCEPT ![k] = j]
    /\ pc' = [pc EXCEPT ![j] = "queued"]
    /\ queue' = Append(queue, j)
    /\ call' = [call EXCEPT ![c] = Idle]
    /\ UNCHANGED <<stop, error, answerVars, handle, base, annVars, clockVars>>

FinishStart(c) ==
    /\ call[c][1] = "start"
    /\ LET k == call[c][2] IN
         \/ Rejoin(c, k)
         \/ /\ ~(byKey[k] \in registered /\ Active(byKey[k]))
            /\ \E j \in Jobs : StartTerminal(c, k, j) \/ Submit(c, k, j)

(* The adapter raises on the position (action_views, state_key): the client *)
(* gets the error, and nothing has been registered.                        *)
StartRaises(c) ==
    /\ call[c][1] = "start"
    /\ call' = [call EXCEPT ![c] = Idle]
    /\ UNCHANGED <<registered, byKey, key, streaming, stop, outcome, answerVars,
                   workerVars, annVars, clockVars>>

BeginPoll(c, j) ==
    /\ call[c] = Idle
    /\ ~Unborn(j) /\ streaming[j]
    /\ Reap
    /\ call' = [call EXCEPT ![c] = <<"poll", j>>]
    /\ UNCHANGED unreaped

FinishPoll(c) ==
    /\ call[c][1] = "poll"
    /\ LET j == call[c][2] IN
         idle' = IF j \in registered THEN [idle EXCEPT ![j] = 0] ELSE idle
    /\ call' = [call EXCEPT ![c] = Idle]
    /\ UNCHANGED <<registered, byKey, key, streaming, stop, outcome, answerVars,
                   workerVars, annVars, age>>

(* Only the ids of streaming jobs ever leave the manager.                  *)
StopJob(j) ==
    /\ j \in registered /\ streaming[j]
    /\ stop' = [stop EXCEPT ![j] = TRUE]
    /\ UNCHANGED <<registered, byKey, key, streaming, call, outcome, answerVars,
                   workerVars, annVars, clockVars>>

(* run_blocking: the caller's own thread is the worker.                    *)
BeginBlocking(c, k, j) ==
    /\ call[c] = Idle
    /\ k \notin TerminalKeys
    /\ NewJob(j, k, FALSE, "queued")
    /\ pc' = [pc EXCEPT ![j] = "queued"]
    /\ call' = [call EXCEPT ![c] = <<"blocking", j>>]
    /\ UNCHANGED <<byKey, stop, error, answerVars, queue, handle, base, annVars,
                   clockVars>>

EndBlocking(c) ==
    /\ call[c][1] = "blocking"
    /\ pc[call[c][2]] \in {"returned", "lost"}
    /\ call' = [call EXCEPT ![c] = Idle]
    /\ UNCHANGED <<registered, byKey, key, streaming, stop, outcome, answerVars,
                   workerVars, annVars, clockVars>>

-----------------------------------------------------------------------------
(* The worker: _advance_to_target, _publish and _settle.                   *)

Goto(j, p) == pc' = [pc EXCEPT ![j] = p]

(* A new answer becomes visible: snapshot, version and updated_at together.*)
Show(j, answer) ==
    /\ snap' = [snap EXCEPT ![j] = answer]
    /\ version' = [version EXCEPT ![j] = @ + 1]
    /\ age' = [age EXCEPT ![j] = 0]

Busy == {j \in Jobs :
    streaming[j] /\ pc[j] \notin {"unborn", "queued", "returned", "lost"}}

(* The pool hands the oldest submission to a free worker; a blocking       *)
(* caller needs no worker.                                                 *)
PickUp(j) ==
    /\ pc[j] = "queued"
    /\ IF streaming[j]
       THEN /\ Cardinality(Busy) < SearchWorkers
            /\ queue # <<>> /\ Head(queue) = j
            /\ queue' = Tail(queue)
       ELSE UNCHANGED queue
    /\ IF stop[j]
       THEN status' = [status EXCEPT ![j] = "cancelled"] /\ Goto(j, "closing")
       ELSE UNCHANGED status /\ Goto(j, "opening")
    /\ UNCHANGED <<hostVars, error, answerVars, handle, base, annVars,
                   clockVars>>

(* Faulty variants: a raise that leaves without `finally', and one that    *)
(* leaves the status as it was.                                            *)
FailWithoutFinally(j) ==
    /\ error' = [error EXCEPT ![j] = "raised"]
    /\ status' = [status EXCEPT ![j] = "error"]
    /\ Goto(j, "returned")
FailSilently(j) ==
    /\ error' = [error EXCEPT ![j] = "raised"]
    /\ Goto(j, "closing")
    /\ UNCHANGED status

Fail(j) ==
    /\ error' = [error EXCEPT ![j] = "raised"]
    /\ status' = [status EXCEPT ![j] = "error"]
    /\ Goto(j, "closing")

(* action_views (or int of chunk_sims) raises in the worker, before the    *)
(* `try': no except sets a status and no finally runs.  The pool keeps the *)
(* exception in a future nobody reads; a blocking caller gets it raised.   *)
ViewsRaise(j) ==
    /\ pc[j] = "opening"
    /\ Goto(j, "lost")
    /\ UNCHANGED <<hostVars, outcome, answerVars, queue, handle, base, annVars,
                   clockVars>>

(* open_search, then the concurrent annotators are declared running and    *)
(* submitted, unless the request leaves them no budget.  Their steps       *)
(* before the first publish commute with these.                            *)
Open(j) ==
    /\ pc[j] = "opening"
    /\ handle' = [handle EXCEPT ![j] = "open"]
    /\ status' = [status EXCEPT ![j] = "running"]
    /\ \/ /\ annState' = [annState EXCEPT ![j] = [c \in Concurrent |-> "running"]]
          /\ ann' = [ann EXCEPT ![j] = [c \in Concurrent |-> "queued"]]
          /\ annQueue' = annQueue \o
               [i \in 1..Len(ConcurrentList) |-> <<j, ConcurrentList[i]>>]
       \/ UNCHANGED <<annState, ann, annQueue>>
    /\ Goto(j, "loop")
    /\ UNCHANGED <<hostVars, error, answerVars, queue, base, annRes, expired,
                   clockVars>>

(* open_search raises, or adapter.annotators() does once the handle exists. *)
OpenRaises(j) ==
    /\ pc[j] = "opening"
    /\ \E opened \in {"none", "open"} : handle' = [handle EXCEPT ![j] = opened]
    /\ Fail(j)
    /\ UNCHANGED <<hostVars, answerVars, queue, base, annVars, clockVars>>

CheckLoop(j) ==
    /\ pc[j] = "loop"
    /\ Goto(j, IF sims[j] < Target /\ ~stop[j] THEN "advancing" ELSE "settling")
    /\ UNCHANGED <<hostVars, outcome, answerVars, queue, handle, base, annVars,
                   clockVars>>

(* Faulty variants: a response without the annotations, and a chunk not    *)
(* cut to what is left of the target.                                      *)
PublishedBare(j, n) == [sims |-> n, results |-> {}, states |-> annState[j]]
UncutChunk(j) == sims[j]..(Target + 1)

(* _publish re-applies whatever the concurrent annotators have found.      *)
Published(j, n) ==
    [sims |-> n, results |-> annRes[j], states |-> annState[j]]

(* What sims_done may be after one more chunk.                             *)
Chunk(j) == sims[j]..Target

(* handle.advance returns n sims and _publish shows them.  The loop ends   *)
(* without progress, on a partial chunk and on a stop_reason; `more' says  *)
(* that neither of the last two was set.                                   *)
Advance(j) ==
    /\ pc[j] = "advancing"
    /\ \E n \in Chunk(j), more \in BOOLEAN :
         /\ sims' = [sims EXCEPT ![j] = n]
         /\ Show(j, Published(j, n))
         /\ Goto(j, IF n > sims[j] /\ more THEN "loop" ELSE "settling")
    /\ UNCHANGED <<hostVars, outcome, queue, handle, base, annVars, idle>>

(* advance, the ranking or a sequential annotator raises.                  *)
SearchRaises(j) ==
    /\ pc[j] \in {"advancing", "annotating"}
    /\ Fail(j)
    /\ UNCHANGED <<hostVars, answerVars, queue, handle, base, annVars,
                   clockVars>>

BeginSettle(j) ==
    /\ pc[j] = "settling"
    /\ Goto(j, IF snap[j] = None \/ stop[j] THEN "judging" ELSE "waiting")
    /\ UNCHANGED <<hostVars, outcome, answerVars, queue, handle, base, annVars,
                   clockVars>>

(* The wait for the concurrent annotators gives up as soon as one          *)
(* future.result(timeout=0.05) times out, whatever the deadline, so it may *)
(* end in any state.  The snapshot is then read without the lock.          *)
EndWait(j) ==
    /\ pc[j] = "waiting"
    /\ IF Sequential = {}
       THEN UNCHANGED base /\ Goto(j, "judging")
       ELSE base' = [base EXCEPT ![j] = snap[j]] /\ Goto(j, "annotating")
    /\ UNCHANGED <<hostVars, outcome, answerVars, queue, handle, annVars,
                   clockVars>>

(* The sequential annotators that answered before a stop or the deadline   *)
(* decorate the snapshot read above, and the result replaces the present   *)
(* snapshot.                                                               *)
WriteSettled(j) ==
    /\ pc[j] = "annotating"
    /\ \E R \in SUBSET Sequential :
         Show(j, [base[j] EXCEPT !.results = @ \cup R])
    /\ base' = [base EXCEPT ![j] = None]
    /\ Goto(j, "judging")
    /\ UNCHANGED <<hostVars, outcome, sims, queue, handle, annVars, idle>>

(* `"cancelled" if job._stop.is_set() else "done"': read, then assigned.   *)
DoneVerdict(j) == "accepting"
Verdict(j) == IF stop[j] THEN "cancelling" ELSE "accepting"

Judge(j) ==
    /\ pc[j] = "judging"
    /\ Goto(j, Verdict(j))
    /\ UNCHANGED <<hostVars, outcome, answerVars, queue, handle, base, annVars,
                   clockVars>>

Conclude(j) ==
    /\ pc[j] \in {"cancelling", "accepting"}
    /\ status' = [status EXCEPT ![j] =
         IF pc[j] = "accepting" THEN "done" ELSE "cancelled"]
    /\ Goto(j, "closing")
    /\ UNCHANGED <<hostVars, error, answerVars, queue, handle, base, annVars,
                   clockVars>>

(* `finally': the handle is closed if there is one, and updated_at is      *)
(* written last, after the status has been visible for a while.            *)
Finally(j) ==
    /\ pc[j] = "closing"
    /\ handle' = [handle EXCEPT ![j] = IF @ = "open" THEN "closed" ELSE @]
    /\ age' = [age EXCEPT ![j] = 0]
    /\ Goto(j, "returned")
    /\ UNCHANGED <<hostVars, outcome, answerVars, queue, base, annVars, idle>>

-----------------------------------------------------------------------------
(* The annotators that run beside the search.                              *)

AtWork(j, c) == ann[j][c] \in {"computing", "merging"}

StartAnnotator(j, c) ==
    /\ annQueue # <<>> /\ Head(annQueue) = <<j, c>>
    /\ Cardinality({t \in Jobs \X Concurrent : AtWork(t[1], t[2])})
         < AnnotatorWorkers
    /\ annQueue' = Tail(annQueue)
    /\ ann' = [ann EXCEPT ![j][c] = "computing"]
    /\ UNCHANGED <<hostVars, outcome, answerVars, workerVars, annRes, annState,
                   expired, clockVars>>

(* Faulty variant: the lifecycle map is shown in a fresh response.         *)
RefreshFromScratch(j, found) ==
    IF snap[j] = None
    THEN UNCHANGED <<snap, version, age>>
    ELSE Show(j, [sims |-> 0, results |-> found, states |-> annState'[j]])

(* _refresh_annotation_state: show the lifecycle map and, if there is one, *)
(* the new result; nothing before the first publish.                       *)
Refresh(j, found) ==
    IF snap[j] = None
    THEN UNCHANGED <<snap, version, age>>
    ELSE Show(j, [snap[j] EXCEPT !.results = @ \cup found,
                                 !.states = annState'[j]])

(* annotate returns; a stopped job discards the answer.                    *)
AnnotatorReturns(j, c) ==
    /\ ann[j][c] = "computing"
    /\ ann' = [ann EXCEPT ![j][c] = IF stop[j] THEN "done" ELSE "merging"]
    /\ UNCHANGED <<hostVars, outcome, answerVars, workerVars, annRes, annState,
                   annQueue, expired, clockVars>>

AnnotatorRaises(j, c) ==
    /\ ann[j][c] = "computing"
    /\ ann' = [ann EXCEPT ![j][c] = "done"]
    /\ annState' = [annState EXCEPT ![j][c] = "error"]
    /\ Refresh(j, {})
    /\ UNCHANGED <<hostVars, outcome, sims, workerVars, annRes, annQueue,
                   expired, idle>>

MergeNothing(j, c) ==
    /\ ann[j][c] = "merging"
    /\ ann' = [ann EXCEPT ![j][c] = "done"]
    /\ annState' = [annState EXCEPT ![j][c] = "no_result"]
    /\ Refresh(j, {})
    /\ UNCHANGED <<hostVars, outcome, sims, workerVars, annRes, annQueue,
                   expired, idle>>

MergeResult(j, c) ==
    /\ ann[j][c] = "merging"
    /\ ann' = [ann EXCEPT ![j][c] = "done"]
    /\ annRes' = [annRes EXCEPT ![j] = @ \cup {c}]
    /\ annState' = [annState EXCEPT ![j][c] = "complete"]
    /\ Refresh(j, {c})
    /\ UNCHANGED <<hostVars, outcome, sims, workerVars, annQueue, expired,
                   idle>>

(* The budget of annotator c for job j runs out.                           *)
DeadlinePasses(j, c) ==
    /\ ann[j][c] # "absent"
    /\ c \notin expired[j]
    /\ expired' = [expired EXCEPT ![j] = @ \cup {c}]
    /\ UNCHANGED <<hostVars, outcome, answerVars, workerVars, annRes, annState,
                   annQueue, ann, clockVars>>

-----------------------------------------------------------------------------
WorkerStep(j) ==
    \/ PickUp(j) \/ ViewsRaise(j) \/ Open(j) \/ OpenRaises(j) \/ CheckLoop(j)
    \/ Advance(j) \/ SearchRaises(j) \/ BeginSettle(j) \/ EndWait(j)
    \/ WriteSettled(j) \/ Judge(j) \/ Conclude(j) \/ Finally(j)

AnnotatorStep(j, c) ==
    \/ StartAnnotator(j, c) \/ AnnotatorReturns(j, c) \/ AnnotatorRaises(j, c)
    \/ MergeNothing(j, c) \/ MergeResult(j, c)

Finish(c) == FinishStart(c) \/ StartRaises(c) \/ FinishPoll(c) \/ EndBlocking(c)

Next ==
    \/ Tick \/ Sweep
    \/ \E c \in Clients :
         \/ Finish(c)
         \/ \E k \in Keys : BeginStart(c, k)
         \/ \E j \in Jobs : BeginPoll(c, j)
         \/ \E k \in Keys, j \in Jobs : BeginBlocking(c, k, j)
    \/ \E j \in Jobs : StopJob(j) \/ WorkerStep(j)
    \/ \E j \in Jobs, c \in Concurrent : AnnotatorStep(j, c) \/ DeadlinePasses(j, c)

Safety == Init /\ [][Next]_vars

(* Threads are preemptive, advance and annotate are bounded by contract,   *)
(* and the sweeper is a loop around time.sleep: each gets weak fairness.   *)
(* Clients owe nothing once a call is over.                                *)
Fairness ==
    /\ WF_vars(Tick)
    /\ WF_vars(Sweep)
    /\ \A j \in Jobs : WF_vars(WorkerStep(j))
    /\ \A j \in Jobs, c \in Concurrent : WF_vars(AnnotatorStep(j, c))
    /\ \A c \in Clients : WF_vars(Finish(c))

Spec == Safety /\ Fairness

-----------------------------------------------------------------------------
(* Properties.                                                             *)

(* start never spawns a duplicate: a search that can still be rejoined is  *)
(* in the job table, and its key leads to it, through every reap, finished *)
(* predecessor and restart of the same position.                           *)
LiveJobReachable == \A j \in Jobs : Active(j) =>
    /\ j \in registered
    /\ streaming[j] => byKey[key[j]] = j

(* contract.SearchHandle: "The host always calls close exactly once", on   *)
(* the normal, cancelled and raising paths alike: nobody closes a handle   *)
(* that a search still needs, and no thread ends with one open.            *)
CloseExactlyOnce == \A j \in Jobs :
    /\ pc[j] \in {"loop", "advancing", "settling", "waiting", "annotating",
                   "judging", "accepting", "cancelling"} => handle[j] = "open"
    /\ pc[j] = "returned" => handle[j] # "open"

(* run_blocking holds its caller for the whole search, so the reaper never *)
(* touches it, and the caller gets an answer or an error, never None.      *)
BlockingUndisturbed == \A j \in Jobs : ~streaming[j] =>
    /\ ~stop[j] /\ error[j] # "abandoned"
    /\ pc[j] = "returned" => snap[j] # None \/ error[j] = "raised"

(* The response a client reads and the sims_done beside it describe the    *)
(* same tree, whichever of publish, settle and annotators wrote last.      *)
AnswerMatchesProgress == \A j \in Jobs :
    snap[j] # None => snap[j].sims = sims[j]

(* Recommendations sharpen: an answer is never withdrawn nor replaced by   *)
(* one from a smaller tree, even by an annotator or a settle that started  *)
(* from an older snapshot; and a client that redraws when version grows    *)
(* misses none.                                                            *)
AnswersOnlySharpen ==
    [][\A j \in Jobs :
         /\ snap[j] # None => snap'[j] # None /\ snap'[j].sims >= snap[j].sims
         /\ ~Unborn(j) /\ snap'[j] # snap[j] => version'[j] > version[j]]_vars

(* What the concurrent annotators found and how far they are is in the     *)
(* snapshot from the first publish on, however publishes and annotators    *)
(* interleave, until a sequential annotator writes its own copy of it.     *)
AnnotationsVisible == \A j \in Jobs :
    /\ version[j] > 0
    /\ Sequential # {} => pc[j] \in {"loop", "advancing", "settling", "waiting",
                                     "annotating"}
    => /\ annRes[j] \subseteq snap[j].results
       /\ snap[j].states = annState[j]

(* A response is of one piece, in its answer and in what decorates it.     *)
ResponseIsWhole == AnswerMatchesProgress /\ AnnotationsVisible

(* "so a fresh MCTS snapshot cannot erase an early exact solve": a result  *)
(* of a concurrent annotator, once shown, stays.                           *)
ResultsNotErased ==
    [][\A j \in Jobs : snap[j] # None =>
         snap[j].results \cap Concurrent \subseteq snap'[j].results]_vars

(* "Wait only to each worker's declared deadline, staying cancellable":    *)
(* the wait ends when each annotator is done or out of time, or on a stop. *)
WaitsToDeadline ==
    [][\A j \in Jobs : pc[j] = "waiting" /\ pc'[j] # "waiting" =>
         \/ stop[j]
         \/ \A c \in Concurrent : ann[j][c] \in {"absent", "done"} \/ c \in expired[j]]_vars

(* The worker of the search was left by a raise outside its `try': nobody  *)
(* will ever change the status of the job, and what its status says from   *)
(* then on is that the search goes on.                                     *)
Lost(j) == pc[j] = "lost"

(* Every search settles, whatever open_search, advance, the ranking and    *)
(* the annotators raise, whoever stops it and however long it waits in the *)
(* pool.  Only one that loses its thread before the `try' does not.        *)
EverySearchSettles == \A j \in Jobs : Active(j) ~> ~Active(j) \/ Lost(j)

(* A job whose stop is set before its worker passes judgement is never     *)
(* reported done, and in the end reported cancelled or failed, unless it   *)
(* has lost its thread.                                                    *)
StopIsHonoured == \A j \in Jobs :
    stop[j] /\ Active(j) /\ pc[j] \notin {"accepting", "cancelling"}
      ~> status[j] \in {"cancelled", "error"} \/ Lost(j)

(* A job is dropped in the end, so the table does not grow with the number *)
(* of positions a host has seen; except the ones that have lost their      *)
(* thread, which the reaper takes for running.                             *)
FinishedIsForgotten == \A j \in Jobs :
    j \in registered ~> j \notin registered \/ Lost(j)

(* The abstract table of searches this manager implements.                 *)
phaseOf == [j \in Jobs |->
    IF Unborn(j) THEN "unborn" ELSE IF Active(j) THEN "live"
    ELSE IF j \in registered THEN "settled" ELSE "forgotten"]
ownerOf == [j \in Jobs |-> IF streaming[j] THEN key[j] ELSE None]
Table == INSTANCE SearchTable WITH phase <- phaseOf, owner <- ownerOf
ImplementsTable == Table!Safety
=============================================================================

# Verification of boardgame-ai

TLA+ modules translated from the concurrent and crash-prone parts of this repository,
TLC configurations that check them on small instances, and proofs checked by TLAPS.
Paths are relative to `src/`; `PROJECT.json` maps every definition to the lines it models.

Contents: 1 inventory, 2 modules, 3 runs, 4 fairness, 5 proofs, 6 findings,
7 what is not modelled, 8 plan.

## 1. Inventory

The repository trains and serves AlphaZero-style engines for four games: Kingdomino, Seven
Wonders Duel, Can't Stop and Welcome To. Two large programs run them. The *advisor host*
answers browser extensions with searches. The *training loop* generates games, trains a
network, gates it against the best one so far, and must survive being killed at any moment.
Between a search and its network sits an *evaluation layer*: schedulers and services
that gather the positions of many searches into one batch.

```
browser extensions -> HTTP app -> JobManager -> game adapter -> search
                                                                  |
RunController -> lifecycle adapter, or
s2_run driver --------------------------> self-play -------------> search
     |                                                            |
 run directory (latest, best, journal, log)             wave scheduler / evaluation
     |                                                  service / inference process
 live snapshot, reports, advisor hosts (readers)                  |
                                                                network
```

### Advisor host: `games/advisor/jobs.py` (modelled)

- State: the job table, an index from position and parameters to job, one `SearchJob` per
  search (status, progress, snapshot with version, stop flag, annotation results), a pool
  for searches and one for annotators.
- Operations: `start`, `poll`, `stop`, `run_blocking`, the worker (open, advance, publish,
  settle, close), concurrent and sequential annotators, the reaper.
- Interactions: request threads, workers and annotators share the jobs under one lock that
  each of them releases and takes again; the adapter may raise at every call, also at the two
  (`start`, `action_views`) that no handler surrounds.
- Hard: a check separated from its use by an unlock, two clocks, snapshots decorated by
  several threads, pools of fixed size.
- Correct when: no position has two live searches; each handle is closed once; a blocking
  caller is not disturbed; an answer only gets sharper; every search settles, unless its
  worker is lost before the handler; finished jobs are dropped.

### Run controller and its adapter: `games/az_loop/run_controller.py`, `games/seven_wonders_duel/training_adapter.py`, `phase_d.py` (modelled in the main)

- State: `latest.pt`, `current_best.pt`, their backups, the journal, the training log and
  its count in the manifest, games, candidate and snapshot of each iteration, optimizer
  moments, hall of fame, measurements; in memory the generator state.
- Operations: start or resume, reconcile an interrupted iteration, and an iteration of
  some twenty durable writes.
- Interactions: the controller owns roles and journal, the adapter everything else;
  readers in other processes copy the directory while it is written.
- Hard: a crash between any two writes, and again inside the recovery.
- Correct when: a run can be resumed after every death; nothing of an interrupted attempt
  reaches a committed row; the files agree with the rows; the archive is complete.

### Welcome To run: `games/welcome_to/s2_run.py`, `self_play.py`, `s2_replay.py`, `s2_train.py`, `s2_promotion.py`, `s2_league.py`, `welcome_to_rust/src/samples.rs` (modelled in the main)

A second controller, without a journal: each stage of an iteration looks at the disk whether
it is done.

- State: `current_best.pt`, the archive and `league.json`, for each iteration the shards, the
  manifest and the metrics of its games, the candidate, its metrics and its gate record;
  the replay ledger, `progress.jsonl`; in memory the stage, and a writer thread behind a
  bounded channel.
- Operations: generate (also the rest of an interrupted generation), train on a window of
  whole iterations, gate, install a promotion in five durable steps, report; the writer's
  add, flush when full, close.
- Hard: a death between two files of one stage, twice in one promotion, or inside a file
  written in place; a write that fails in a thread the producer only hears of at its next call.
- Correct when: every game is in the corpus once, candidates descend from one another, a
  promotion happens once and whole, and running the same command again completes the run.

### Gate policy: `games/az_loop/training_control.py` (modelled)

- State: which role generates games, counters of reverts and inconclusive gates, the
  ladder of gate sizes.
- Operations: one transition per iteration (bootstrap, none scheduled, accept, continue,
  reject, suppressed).
- Hard: counters that live across rows of other kinds, restarts, caps and floors.
- Correct when: a reset comes exactly at the configured count, a rung is bought once, and
  the games come from the role that the gates chose.

### Welcome To wave schedulers: `games/welcome_to/welcome_to_rust/src/scheduler.rs` (modelled)

- State: persistent searches in slots; `RustCloudScheduler` has a pool of workers that own
  many resumable sessions each, `RustScheduler` one thread for each search of a call;
  channels; one wave of leaf requests.
- Operations: `play`, `reset`, drop; start, collect, evaluate, reply, restore; advance,
  suspend, cancel, finish, panic.
- Hard: a rendezvous per wave of threads that can also finish or panic; an evaluator that
  answers out of order or fails half-way; commands left over from an abandoned call.
- Correct when: batches do not depend on thread order, every search gets its own answers,
  slots come back, and nobody waits for ever.

### Evaluation services of self-play: `games/seven_wonders_duel/loop_inference.py`, `games/cantstop/batched_evaluator.py` (modelled)

- State: a request queue with an end marker, a carried-over request, a count of pending
  rows, a closed flag, the batch in hand.
- Operations: `evaluate` of many game threads, the batching thread, `close`.
- Hard: a request enqueued behind the end marker is never served (`loop_inference.py:87`);
  one failing batch concerns several callers; row accounting when a batch fails.
- Correct when: each caller gets the answer to its own request or an error, exactly once.

### Kingdomino inference service: `games/kingdomino/inference_service.py` (modelled)

- State: request and response queues between processes, the table of waiting requests, a
  weight queue of bounded size, versions asked for, served and acknowledged.
- Operations: submit, route, cancel, evaluate, swap weights, wait for a version, stop; each
  by threads of one process or across processes.
- Hard: a late answer to a cancelled request, a batcher that ends with an exception,
  dropped weight updates, stop against submit.
- Correct when: an answer reaches its request or nobody, a version barrier holds for every
  later call, the newest weights are served in the end, and every caller is released.

### Live snapshot: `games/az_loop/snapshot.py` (modelled)

Waits for the end of an iteration, then copies the run directory while the controller goes
on. Hard: the boundary may be over before the copy is (line 85). Correct when the copy
is a state the controller could resume from; it is not (section 6).

### Game engines: `games/welcome_to/game.py`, `sheet.py`, `plans.py`, `games/seven_wonders_duel/engine.py`, `game.py`, `games/kingdomino/game.py`, `games/cantstop/engine.py` (rules modelled, scoring not)

- State: a phase and whose turn it is; cards, dominoes, tokens and markers and where they
  are; choices an effect has left pending; in Welcome To the private turns of a
  simultaneous turn.
- Operations: the legal actions of a state, `step`, chance events (rolls, reveals,
  reshuffles), the turn boundary.
- Hard: long sequences of legal actions: a choice that an effect makes pending behind an extra turn
  or the end of an Age, a reshuffle in the middle of what is passed on, a reveal that swaps a card
  out of a hidden deal.
- Correct when: nothing is lost or doubled, no legal sequence reaches an illegal position,
  who is to act has an action until the game is over, and it ends.

### Intervention ladder: `games/az_loop/stagnation.py`, `measure_stagnation` in `phase_d.py` (modelled)

Measurements, rung and the clock at which it was applied, in a file; the configuration it changes, in the
process. Hard: the end of the ladder, a restart between measurement and row, a switch of the ladder by the
operator. Correct when each rung follows a full window without recovery, is judged by what was
measured under it, and is the one that the process plays under.

### Games ledger, hall of fame index, game logs: `games_ledger.py`, `hof.py`, `run_log.py` in `games/az_loop`, `games/advisor/game_log.py` (in part)

Append and read back; the ledger caches counts by file size. Hard: a torn last line, a copy
before its index entry. `RunController` keeps which games exist and what is archived.

### Can't Stop turn cache: `games/cantstop/advisor_cache.py`, `advisor_adapter.py` (modelled)

A bounded table of solvers under the adapter's lock, with a timer per entry, and the evaluator
that belongs to the checkpoint on disk. Hard: a timer has fired and waits for the lock while
its entry is replaced; the file is looked at three times while a solver is built. Correct when
no solver is kept or given up at the wrong time, and no answer is older than the checkpoint
that was there when it was asked for.

### Not to be modelled

- Advisor contract, ranking and HTTP app: pure functions of a snapshot and routes to the
  job manager; the contract appears as the adapter of `AdvisorJobs`.
- Kingdomino's own streaming advisor (`games/kingdomino/web_app.py`) and the legacy
  strict-gate lifecycle in `phase_d.py`: predecessors of the host and the controller above.
- Kingdomino training loop: its policy is the one `training_control.py` generalises, and
  its concurrency that of the inference service.
- Gate statistics, Elo, schedules: real-valued arithmetic; a gate is a choice.
- Encoders, tree searches and the Rust copies of the engines: sequential and very large,
  compared with one another by the repository's own equivalence corpora.
- Browser extensions, scripts, audits, cloud set-up: input and output without a protocol.

## 2. Modules

| Module | What it is | Built on |
|---|---|---|
| `SearchTable` | abstract: searches created, settled, forgotten | |
| `AdvisorJobs` | `JobManager`, implements `SearchTable` | |
| `AdvisorJobsProofs` | theorems about `AdvisorJobs` | `AdvisorJobs` |
| `GatePolicy` | the transition of a `GeneratorState` | |
| `RunLog` | abstract: a run as a log of rows | `GatePolicy` |
| `RunController` | controller, adapter and disk, implements `RunLog` | `GatePolicy` |
| `GatePolicyProofs` | what a transition does to each counter | `GatePolicy` |
| `RunLogProofs` | theorems about `RunLog` | `RunLog`, `GatePolicyProofs` |
| `RunControllerProofs` | theorems about `RunController`: files, journal, recovery, what a run's rows descend from, and that it implements `RunLog`; theorems about the instances of `MCRunController` | `MCRunController`, `GatePolicyProofs`, and instances of the other proof modules of the runs |
| `LeafBatches` | how a wave is cut into batches and answers are routed | |
| `LeafWaves` | abstract: what a caller of `play` may rely on | `LeafBatches` |
| `CloudScheduler` | `RustCloudScheduler`, implements `LeafWaves` | `LeafBatches` |
| `RustScheduler` | `RustScheduler`, implements `LeafWaves` | `LeafBatches` |
| `LeafSchedulersProofs` | theorems about both schedulers | `MCLeafSchedulers` |
| `LiveSnapshot` | a process that copies the directory of a run | `RunController` |
| `SampleShards` | the shard writer and its thread | |
| `WelcomeRun` | the Welcome To driver, its stages and its disk | `SampleShards` |
| `WelcomeRunProofs` | theorems about `WelcomeRun` | `WelcomeRun` |
| `Interventions` | the ladder of interventions and its file | |
| `InterventionsProofs` | theorems about `Interventions` | `Interventions` |
| `EvaluationService` | abstract: what a caller of `evaluate` may rely on | |
| `EvaluationRows` | requests, rows, answers and errors | |
| `CoalescingEvaluator` | `loop_inference.py`, implements `EvaluationService` | `EvaluationRows` |
| `BatchingEvaluator` | `batched_evaluator.py`, implements `EvaluationService` | `EvaluationRows` |
| `InferenceRequests` | the router, client and batch loop both backends share | `EvaluationRows` |
| `LocalInference`, `RemoteInference` | threads, or processes and queues; implement `EvaluationService` | `InferenceRequests` |
| `EvaluationServicesProofs` | theorems about the services and the turn cache | `MCEvaluationServices` |
| `WelcomeToGame`, `SevenWondersGame`, `KingdominoGame`, `CantStopGame` | the rules of a game | |
| `MC...` | instances for TLC | |

Several modules hold *faulty variants*, each named as such: an operator beside the real one
that differs the way a plausible bug would. Nothing uses them except the mutation of the
model, which puts the variant in the place of the original and expects TLC to refute the
property it is paired with in `PROJECT.json`.

### AdvisorJobs

What a thread does between two points where another thread could tell the difference is one
action. `start` and `poll` reap under the lock, release it and take it again, so each is
two actions (`BeginStart`/`FinishStart`, `BeginPoll`/`FinishPoll`). `_run_job` is a program
counter per job: `PickUp`, `Open`, `CheckLoop`, `Advance` (one chunk and its publish),
`BeginSettle`, `EndWait`, `WriteSettled`, `Judge`, `Conclude`, `Finally`; `StartRaises`,
`ViewsRaise`, `OpenRaises` and `SearchRaises` are the exception paths. `ViewsRaise` is the raise
before the worker's `try` (`jobs.py:273`): neither the handler nor the `finally` sees it, the thread
ends, and the job stays active for good. The annotators of a request may have no budget and are then
not submitted. The settle is several actions because the code
reads the snapshot outside the lock and writes it later, and the final verdict is two
because the stop flag is read before the status is assigned.

A response is reduced to the size of its tree, the annotators whose results it carries and
the map of their states. Time is kept as ages that saturate one tick past the limit they
are compared with, so the clock needs no bound. A job id is chosen among those never used.

### GatePolicy, RunLog, RunController

`GatePolicy` has no variables: one operator per branch of `gate_transition`, the ladder,
the choice of the generator. `RunLog` runs it without files: each step appends one row.

`RunController` has one action per durable write, in the code's order, and a `Crash`
between any two. Files replaced through `os.replace` are atomic; a row of the training
log is appended in place and takes two steps (`BeginRow`, `AppendRow`) with a torn line in
between, and so does an entry of the hall of fame (`BeginEntry`, `FinishEntry`, after the copy of the
checkpoint, which is put right by the next attempt). A torn entry makes every reader of the index
raise: the next archiving (`EntriesRaise`) and, where league play is configured, the next generation
(`Generate`). The variables are the files (`latest`, `best`, `saved`, `pending`, `rows`,
`torn`, `counted`, `buffer`, `candidate`, `snapshot`, `moments`, `hof`, `hofTorn`, `anchors`), the
volatile part of the process, and two histories. Weights are the number of the training
that made them, so equal digests are equal numbers. The process ends as `refused` where
the code raises in a way that every later start meets again.

The implementation of `RunLog` renames weights to the row that trained them. Training
twice for the same row after a crash is then invisible, and weights of an attempt that never
became a row would be a name no row has.

### LeafBatches, LeafWaves, CloudScheduler, RustScheduler

A search is the number of evaluations it will still ask for. The number is drawn at the
call: the code makes it a function of the seed and of the evaluator's answers. A position
is named by row and remaining number, which is what lets an answer be somebody else's. The
evaluator answers a chunk in any order, with the request's id. `LeafWaves` says that wave
k consists of the searches that ask k times or more, in order of rows, cut at `MaxBatch`.

`CloudScheduler` keeps one channel to the coordinator and one to each worker. A worker's
pass over its sessions is one action per session. A panic ends the worker's thread, which
nothing replaces; a later call that needs it returns at once (`SendStart`) and leaves
commands and messages in the channels, which the model carries into the next call. From
there on `LeafWaves` promises nothing (its status is `broken`), but every call must still
return and a drop must still end.

`RustScheduler` has a thread per row that blocks on its reply, and counts the live ones. It
never breaks, so its obligations hold without that exception. A panic of a search is caught
inside the thread and is an unsuccessful `End`.

### Interventions

The loop around `measure_stagnation`, with an iteration reduced to the games it adds to the clock.
The configuration changes (`Measure`) before the file does (`Write`), and the controller goes on if
the write raises. A death forgets the games of the iteration and the configuration, and keeps the
file; the operator may start the process with the ladder on or off. Whether an anchor match clears the null is
a choice.

### LiveSnapshot

Composes `RunController` with a second process. The copier waits until the journal is
empty, lists the files, and then copies one file per step, in the code's order; between two
of its steps the controller does what it likes, dies included.

### SampleShards, WelcomeRun

`SampleShards` has the producer's calls as operators (`Open`, `MayAdd`, `HasRoom`), the thread as
actions, and the channel between them as a sequence of games that ends with the request to close. A shard
appears by a rename, so whole or not at all; a write fails at most `MaxFaults` times.

`WelcomeRun` puts the driver around it, one action per durable write and per branch of a
stage; what makes a stage raise is an action of its own (`GenerationRefused`,
`TrainingRefused`, `InstallRefused`, `ReportRefused`, `StartRefused`). Manifest, ledger, league, gate
record and checkpoints go through `os.replace` and are one step. The two metrics files and the lines of
`progress.jsonl` are written in place, each in two steps with a partial file between. A checkpoint is
the number of the iteration that made it, so what the code compares by hash is compared
by number. Which opponents a game meets is a function of the league and the best;
the manifest keeps both. There is no step of recovery: a process that starts again goes through the
same stages.

### EvaluationService and the services

The abstract service has two facts: how far each caller's latest call is, and whether the
service is open. A call ends with the answers to its own rows or with an error; one that is made after the
close ends with an error. A row is named by caller, call and position, so an answer can
be somebody else's, an older call's or in the wrong place.

In `CoalescingEvaluator` a caller takes two steps, the test of the closed flag and the
enqueueing, since no lock spans them. In `BatchingEvaluator` what happens under the
condition's lock is one step; waiting on the condition and being woken are steps of their own.
`InferenceRequests` splits a call into registration, the look at the closed flag,
enqueueing and the wait, which may time out at any moment; completing a request is two steps,
the removal from the table and the handing over. `RemoteInference` puts queues and a
dispatcher in between and lets the trainer's replacement of a full weight queue be
three steps, against a server that reads it.

`TurnCache` is an instance of the same run, since it asks the same two questions. A request
holds the adapter's lock from its look at the file until its solver is kept; between its steps the file may
change and timers may fire, but a timer that has fired waits for the lock. A turn is its number, a solver the
positions from where it was built to the end of the turn, weights the version of the file
they were read from. Entries run out in the order in which they were made, at any moment.

### The games

One action per kind of decision and one per chance event. `WelcomeToGame` keeps a deck, a
discard, three stacks and a sheet per player with one street; a turn is a private
turn of each seat and then the boundary, a single step that does all that the code does there.
The dealt City Plans are of four kinds: estates of given sizes, the whole street (`FULL_STREET`), its
ends (`EXTREMITIES`; there are six such boxes on the three streets of the real sheet), and full tracks,
with a roundabout or without (`FIVE_BIS`, `SEVEN_TEMP`, `DECORATIVE`, `COMPLETE_STREET`).
`SevenWondersGame` keeps the hidden deal as the code does: what a search resolves differently is
swapped with what the deal had in its place. `KingdominoGame` counts the dominoes on
a board and leaves open whether one can be placed; `CantStopGame` has the dice as input.
Coins, points and geometry are left open: what can be paid or placed, and who wins on
points, is a choice.

## 3. Runs

Twelve runs. Where components ask the same question, a run covers them together: a
variable `which` says, from the first state on, of which one a behaviour is.

| Run | Instance | States | What it shows |
|---|---|---|---|
| `jobs_dedup` | 2 jobs, 1 position, 2 clients, no annotators, symmetry | 672 k | `LiveJobReachable`: however two clients start, poll, stop and block while the reaper runs, a live search is in the table under its key. `BlockingUndisturbed`. `ImplementsTable` |
| `jobs_live` | 1 job at a time, 2 chunks, 1 terminal position, 1 concurrent and 1 sequential annotator | 214 k | handles closed once on every path; `ResponseIsWhole`: answer and progress in step, annotations visible; answers only sharpen and have a new version each; under fairness every search settles, a stop seen in time is reported, finished jobs are dropped |
| `run_resume` | 4 rows, 2 deaths, warmup of 1 row; or a log of 16 rows, a gate every second one, resets after 2 rejects and 3 probations, a ladder of three rungs; or a Welcome To run of 3 iterations of 2 games with 2 deaths and a failing write; or one iteration of 4 games in shards of 2; or an intervention ladder of 2 rungs over 6 games, verdicts over 2 measurements, windows of 2, 2 deaths and a failing write | 391 k | the run is resumable, lineage and files are clean, the archive is complete, measurements compare past selves, and it implements `RunLog`; once it has a row it completes. Resets, rungs and generator agree with a recount of the rows, for every sequence of decisions; interventions are earned and in force. Of the Welcome To run: `EachGameOnce` (shards, metrics and ledger agree), `LineageIsClean`, `ReplacedBestsAreKept`, opponents that the gates decided, and completion wherever it does not die in one of the places section 6 lists |
| `leaf_waves` | calls of up to 3 rows over 4 slots, batches of 2, 2 evaluations each; a pool of 2 workers with 3 calls and 1 panic, or a thread per search with 2 calls | 594 k | batches, routing, capacity, survival of trees after failures; every call returns, also after one was abandoned |
| `services` | 2 callers with 2 calls of up to 3 rows, batches of 2, 3 pending rows; local inference with 2 callers and an update; remote inference with 2 calls and an update, or with 1 call and 2 updates over a weight queue of 1; a turn cache of 2 entries and 2 positions, 2 tables with 2 turns of 3 positions, 2 checkpoints, 3 solvers | 339 k | the abstract service is implemented by each, nothing stays in a table or a counter, a stop ends every call, a confirmed version answers every later call, callers return, the newest weights are served, every kept turn solver has its timer and none answers for an older checkpoint |
| `games` | see below | 1.03 M | pieces are in one place, positions are legal (types included), what has been seen stays, somebody can always act, and games end |

Runs that end in a violation, each of one property a document or comment states (section 6):
`jobs_wait`, `jobs_erased`, `run_bricked`, `run_remeasured`, `run_snapshot`,
`cloud_capacity`.

Why the bounds are enough. *Jobs*: two jobs are needed for a finished predecessor that holds
the key of a live one, and two clients to start the same position between each other's
steps. Two chunks give a publish before and after an annotator's merge. *Policy*: each
counter reaches its limit, is cleared and reaches it again in sixteen rows, with unscheduled
rows between and the ladder at bottom, top and floor. *Controller*: two deaths allow one
inside the recovery from the other; four rows allow a warmup row, a bootstrap, a gate and
a gate after it, with a best to archive. *Welcome To run*: gates at the second and the third
iteration are two promotions, so the league has two entries, and an ungated iteration before them; a window of
two iterations drops the first; two deaths interrupt a recovery. Four games in shards of two
are two full shards, or after an interrupt a short one with others behind it, over a channel
of one that its producer has to wait for. *Schedulers*: three rows over two workers
give a worker with two sessions and one with one, a wave of two chunks, of which the
last is short; two evaluations give a wave in which some have already finished; three
calls are a panic, a call that finds the worker gone, and a call after that. *Services*:
two callers share a batch, or one is carried over because the other has filled it; three
rows are a call of more than one batch and as many as may be pending, so that the second caller
has to wait; a second call meets what the first left behind; two updates meet in a
queue of one.

*Games*. Welcome To: one player with the advanced rules (roundabouts, bis, every effect) and three
sets of plans, of every kind; solo with its solo card anywhere in the bottom half of the deck,
where it may be the last, so that it and the end of the deck are met in one draw; two players; and two
experts who pass cards on. Streets have two or three
boxes, there are six or seven cards, so that the deck runs out and is reshuffled, and a plan is
completed by both or by one. The plans conflict as they do in the game: a roundabout is spent with the
street or with an end, the ends are spent and the box between them becomes an estate, a spent end stands
beside a house that is not. Seven Wonders Duel: Ages of one, one and four cards; in the
last one card covers two, and one of these another. Its two deals
let the outcome of a reveal come from a sibling that is still covered (of an ordinary back, or of a
guild's), from the cards removed before the Age and from the guilds in the box, and the last reveal
happens while another card lies face up that has the same back. There are four Wonders, of which three may be built; a
military track of three steps and three symbols to win, so that both sudden ends occur; a Wonder
that builds from the discards, one that destroys, one that draws the token in the box, one that plays again.
Kingdomino: twelve dominoes are three rows, the first, a middle and the last, and a discard for each
player. Can't Stop: two faces, three columns, two runners, blocking. A deck is shuffled into
one of two orders only, and Kingdomino starts from one: which card comes next decides
little of what the properties look at, and what does decide (a tableau's hidden cards, the dice) is
a choice in every state.

`CHECK_DEADLOCK FALSE` is set where the system may stop: a run that has its rows or is
refused, a log at its bound, a scheduler or service that is closed or not called again. The
job manager never stops, because its sweeper does not, and in `games` a deadlock would be
a player without a legal action, so both check it.

## 4. Fairness

- `AdvisorJobs`: weak fairness of the clock, the sweeper (a loop around `time.sleep`), each
  job's worker, each annotator and the second half of each request. Threads are preemptive,
  and the contract bounds `advance` and `annotate`. Clients owe nothing else: nobody has to
  poll or stop.
- `RunController`: weak fairness of the process, start included. A process that
  died is started again: running the set-up script anew "RESUMES the run"
  (`setup_cloud_7wd.sh:32`). Deaths are bounded.
- `WelcomeRun`: weak fairness of the driver's process, start included, and of the writer's
  thread. Re-running the command is how the driver's docstring says a run goes on
  (`s2_run.py:38`). Deaths, interrupts and failing writes are bounded.
- `CloudScheduler`, `RustScheduler`: weak fairness of the coordinator and of the workers.
  The evaluator returns or raises. Nobody has to call.
- Services: weak fairness of the service thread or server process, of the one who closes
  it once begun, of each caller inside a call (its timeout counts as a step), of the
  dispatcher and of the trainer inside an update. The model returns or raises. Nobody has
  to call, update or close. A caller of `BatchingEvaluator` who waits for room is
  served under weak fairness only because calls are finite in number: `notify_all`
  promises no order, and callers that never cease could keep one out. `CallersReturn`
  excuses the calls the code leaves to nobody: those enqueued behind the end marker of
  the coalescing service (`late`), and those that only their timeout ends once the batcher has
  raised or its server was stopped.
- Games: the players go on (`GoingOn`), as every driver steps an engine until it is over. Since
  deadlock is checked, that is weak fairness of playing at all; no choice is fair,
  so a game ends however badly it is played. Can't Stop is excepted: players may bust
  for ever.

Gate decisions, evaluator failures, panics and crashes are never fair.

## 5. Proofs

Everything here holds for every value of the constants that the named assumptions allow:
`JobsAssumption`; `PolicyAssumption` and `ControllerAssumption`; `BatchAssumption` and
`SchedulerAssumption`; `RowsAssumption`, `MarkerAssumption` and `MaxPendingAssumption`; for the Welcome To run and
the interventions an operator `Parameters` of their proof modules, a hypothesis of each of
their theorems. They ask for the types of sizes and bounds, for distinct identities, that
resets are configured only in `soft_gate` mode (`ControllerConfig.validate` enforces it), that
a gate, a window, a measurement and a cadence are never of size zero (the parsers and
`phase_d.py:985` do), and that no iteration is without a game.

`AdvisorJobsProofs`, of the job manager:

| Theorem | Statement | Argument |
|---|---|---|
| `TypeCorrect` | `TypeOK` | with `SettleInv`: the snapshot a settle works from is a real answer exactly while the settle is under way |
| `LiveJobs` | `LiveJobReachable` | `LifeInv`: a live search has a thread that drives it, is in the table and is the one its key names; a reap drops only finished jobs, and frees a key only if it leads to a dropped one |
| `HandlesClosed` | `CloseExactlyOnce` | `HandleInv`: the handle at each point of the worker |
| `BlockingCalls` | `BlockingUndisturbed` | `BlockingInv`: only streaming jobs are stopped or abandoned; an answer, once shown, stays (`SnapshotStays`) |
| `Implementation` | `ImplementsTable` | each step is a step of `SearchTable` or leaves its variables alone; `LifeInv` gives `Create` its guard |
| `WholeResponses` | `ResponseIsWhole` | `AnswerInv`: before a search is open it has nothing to show; the copy a settle decorates is of the tree still shown; what the concurrent annotators have found is in the answer, until a settle takes it over |
| `Sharpening` | `AnswersOnlySharpen` | from `AnswerInv`, one step at a time |

`LiveJobReachable` is not inductive: that a job is live says nothing about its pool
queue entry or its worker's position, and the reaper's effect on a key depends on which
job the key names. `LifeInv` ties status, program counter and table together.

The gate policy and the log. `GatePolicyProofs` says of each transition what may become of
every counter; `RunLogProofs` recounts the rows.

| Theorem | Statement |
|---|---|
| `RunLogProofs.TypeCorrect` | the rows of a log are rows |
| `ResetsExact`, `RungsEarned`, `GeneratorFollows` | `ResetsAreExact`, `RungsAreEarned`, `GeneratorFollowsGates` of a log of any length |

The properties count rows (how many rejects has no later row settled?), the policy keeps
counters. `IInv` equates the two for the state after the last row: the reverts and the
inconclusive gates are the cardinalities of the open rows and below their limits
(`TallyInv`); the probations counted towards a rung are those since some row, all played at
the present rung (`LadderInv`); and the source is what the last row with an action did
(`SourceInv`). The arms of `LadderAfter` had to be made disjoint for the proof: where two
guards of a `CASE` hold, TLC takes the first and the language promises neither.

The controller, in `RunControllerProofs`:

| Theorem | Statement |
|---|---|
| `TypeCorrect` | `TypeOK` |
| `Resumable` | `ResumableOnceCommitted` |
| `FilesKept` | `FilesMatchRows` |
| `CountTrails` | `CountNeverAhead` |
| `LineageClean` | `CleanLineage` |
| `HallComplete` | `HallOfFameIsComplete` |
| `AnchorsHonest` | `AnchorsComparePastSelves` |
| `Refines` | `ImplementsLog` |
| `LogHoldsOnDisk` | the three properties of the log, of the rows on disk |

The invariant behind the first four, `IInv`, says where the journal stands at each point of
the program (`StageInv`), where the weights of the last committed row are (`RolesInv`: in
place until the journal names the next row, in the backups from then on), and which
files can exist for the row to come (`FilesInv`). A crash keeps the files and forgets the
program counter, so every conjunct that a restart needs speaks of the journal and the
disk alone. That is why the recovery may itself be interrupted.

`RunInv` adds what those files and rows mean, and follows an iteration from the roles and the
state of the last committed row (`StateInv`, `DecisionInv`, `PositionInv`) to its own: the
training under way went on from the learner of the row before, with its moments or with none
(`TrainingInv`, `MomentsInv`); the outgoing best is in the hall of fame before it is replaced
(`HallInv`); and every role a row names was trained by a row or is the untrained network
(`RowsInv`). `Refines` then needs no
invariant of its own: every step but `AppendRow` leaves the committed rows as they are, and
that one appends the row the policy leads to, with weights named by the row that trained
them. With it, what `RunLogProofs` shows of a log is shown of the rows on disk
(`LogHoldsOnDisk`): `RunLogProofs` is instanced with the rows in the place of `log`.

The Welcome To run, in `WelcomeRunProofs`:

| Theorem | Statement |
|---|---|
| `TypeCorrect`, `CorpusExact` | `TypeOK`, `CorpusIsExact` |
| `LeagueComplete` | `LeagueIsComplete` |
| `CandidatesDescended` | `CandidatesDescend` |
| `PoolFollowed` | `PoolFollowsGates` |
| `RefusedWhereStranded` | `RefusedOnlyIfStranded` |

`IInv` has five parts. `PlaceInv`: the process is at the first iteration without a line.
`FilesInv`: what each iteration has on disk by whether it lies before, at or after that
one (`Filed`), and by the stage for the one at work (`AtWork`). `GamesInv`: each game admitted
is in exactly one of the shards, the thread's hands, the channel and the caller's hands, and
none is missing unless the writer has failed. `WriterInv`: the end of the queue, the
thread's end and its reply. `PromotionInv`: the best is the champion of some gate, the
league what the promotions have replaced, and a promotion half done knows how far it is.
Two conjuncts were found by the proof, no run needed them: that a record is "installing"
only after a won gate of a gated iteration, and that the ledger lists an iteration only with
the count in its metrics. A shard's type was read by TLC and by the prover as different sets
(`SUBSET Seeds \ {{}}` binds as `SUBSET (Seeds \ {{}})`); it is parenthesised now, and the pool in
a manifest is the set of the league's members, which is all that the code compares.

The interventions, in `InterventionsProofs`: `TypeCorrect`, `Earn` (`InterventionsAreEarned`) and
`Configured` (`ConfigurationFollowsLadder`). `IInv` adds that the ladder was never entered after
the last measurement, so where a measurement is due the clock has gone on and each change
of the rung shows in `entered`; that a ladder which holds a rung is as the last move left
it; and that what is about to be written is the ladder's answer to the file as it stands.
A withdrawal is earned because the measurements up to the last move all failed: one that
clears among the last `MinMeasurements` must be younger than that.

The end of `RunControllerProofs` carries these results to the properties of `run_resume`, whose
behaviours are of one of five kinds: `RunLogProofs`, `WelcomeRunProofs` (twice) and
`InterventionsProofs` are instanced with the constants of `MCRunController`, and each instance
is equated with the one there by expanding the definitions of both.

| Theorem | Statement |
|---|---|
| `ResetsExactInBoth`, `RungsEarnedInAll`, `GeneratorFollowsInAll` | `ResetsAreExact`, `RungsAreEarned`, `GeneratorFollowsGates` |
| `LineageCleanInBoth`, `ReplacedBestsKept`, `GamesOnce` | `LineageIsClean`, `ReplacedBestsAreKept`, `EachGameOnce` |
| `NothingElseRefused` | the part of `RunsComplete` that is not about progress |

The first three assume `soft_gate`, without which the longer log's resets would be a
configuration the code refuses; `LogHoldsOnDisk` does not.

The wave schedulers, in `LeafSchedulersProofs`. Its theorems are about `EitherSpec`, the
specification of `leaf_waves`, for any pool, slots, requests, batch size, number of evaluations
and number of panics:

| Theorem | Statement |
|---|---|
| `SchedulersTyped` | `SchedulersTypeOK` |
| `AnswersRouted` | `AnswersAreOwn` |
| `CapacityReturned` | `SlotsComeBack` |
| `ErrorsCostNoSearch` | `SearchesOutliveErrors` |
| `SchedulersInvariant` | the inductive invariant of them all |

`OneAnswerEach` counts answers by a bijection with the sessions, and `RowOrder` says that the sort
of a wave keeps every request: the rank of a request among those not behind it
(`Upto`) numbers them, which is why the models define the order by ranks.

For `RustScheduler`, `RustInv` says that a thread which has not ended is in one of three places:
it searches, it has a message in the channel, or it has a request in the wave or a reply. The
count of live threads is the cardinality of those whose end has not been taken (`ThreadsOver`).

For `CloudScheduler`, `Tidy` is built on two sets: `Out`, the workers the coordinator
waits for, and `Held`, those that wait for it. A worker in neither is silent (`TurnInv`). A
worker that is out has a command, or is in a pass, or has sent its last word, and
nothing of it comes behind that word (`CommandInv`, `MessageInv`). What its sessions have asked
for is on its way, in the wave or answered, and nowhere else
(`RequestInv`): when a wave is complete, the answers are therefore one for each session.
`CoverInv` follows each search: a row of the call is in a bucket, in a command, with its worker, on its
way back or back, unless its worker has died. Hence `Restore` finds all but those.

All of this is claimed only while no call has been abandoned, and the steps of an abandoned
call are shown to keep the types only. This was not caution: `SearchesOutliveErrors` used
to speak of every behaviour, the pool of two in `leaf_waves` could not refute it, and the
proof did not go through. TLC finds the counterexample with three workers, two panics and calls of
three and of two rows: what the workers of the abandoned call still send ends a later
call, whose slots are then filled with new searches while a living worker holds the old ones. The
property is stated with `~abandoned` now.

The services, in `EvaluationServicesProofs`. Its theorems are about `ServicesSpec`, the
specification of `services`:

| Theorem | Statement | Argument |
|---|---|---|
| `ServicesTyped` | `ServicesTypeOK` | for the turn cache: `EvictedFits`, eviction makes the room that the new solver needs, and `FittingAppended` |
| `NothingForgotten` | `NothingIsForgotten` | the places of a call, below |
| `StopEnds` | `StopEndsEveryCall` | `InClients`: a call past its registration and not answered has somebody to end it (`Ends`), by the table of entries or by what was taken out of it; `ClCall`: once `stop` wakes the callers it has emptied the table, and a caller that comes later sees `_closed` |
| `BarrierKept` | `BarrierHolds` | a version goes from the trainer to the batcher and back without being overtaken: what waits in the weight queue is no older than what is served (`Newer`), what is acknowledged was served (`Served`) |
| `ServicesImplement` | `ServicesImplementTheirPromise` | `PromiseKept`: a step changes the phase of one caller the way the abstract one may, or of none |
| `ServicesInductive` | the inductive invariant of them all | |

The properties speak of callers and of answers; the steps move requests through queues, batches and
carried-over requests. `CoInv` and `BaInv` therefore say where the request of each waiting
caller is: in one place, once, with the rows of that caller's latest call (`CoAsked`,
`BaOffered`), and that the end marker has nothing behind it but what came too late (`CoEnd`). A
batch is answered by cutting the joined results by the lengths of the requests before one;
`SliceIsOwn` shows that this returns to each request its own rows, and `JoinedConcat`,
`QueueCounts` and `BatchCounts` that the count of pending rows follows every move.
The two inference services share their client and loop, so what is proved of them is proved once,
for a set of callers `C` (`InAll(C)`); the remote one adds its four channels (`Channels`), and its two
instances are shown to be instances of one with wider bounds (`RemoteIsWide`,
`UpdatedIsWide`). `CaInv` keeps of each solver that its timer runs or has fired, that it is
due when it has, that no two share a table, and of the request under way that nothing is kept
for its table, that it read a checkpoint no older than the one it was asked under, and
that the weights it builds with are no older than that.

The coalescing and batching services are proved for every set of callers, number of calls and
rows, batch size and limit; the local inference service for every set of callers and batch size,
the remote one for every batch size and the one caller `c1`, both with the rows, calls and
updates `MCEvaluationServices` gives them; the turn cache for every set of tables, with the
sizes it is given there.

The rows of a batch and the sizes of a table are recursive functions over a sequence. The
library's induction takes an operator, which the provers here cannot instantiate, but the same
induction can be stated of a set: one that holds the empty sequence, and with each sequence the
longer ones, holds all (`SeqInduction`, from the well-foundedness of the numbers). What the
recursion computes is then a set comprehension away (`JoinedAppend`, `TotalAppend`,
`AmongSifts`). For this `Joined`, `Total` and the filter of the turn cache (`Among`) are
written as recursive functions.

Model-checked only: liveness (`EverySearchSettles`, `StopIsHonoured`,
`FinishedIsForgotten`, `RunsComplete`, `CallsReturn`, `CallersReturn`, `NewestIsServed`,
`GamesEnd`), which is beyond the prover used here; that the schedulers implement
`LeafWaves`, for which the needs of every search would have to be followed through a call; the
safety of the snapshot, whose one property is refuted; and `PiecesInOnePlace` and
`PositionsAreLegal` of the games. These two state for four engines at once where every
card, domino, column and runner is; their invariants are theirs, engine by engine, and nothing
in them interleaves, so the runs, which play whole games, say most of what a proof would.

## 6. Findings

Each is a run in which TLC reaches a state that the code's own text rules out.

- `jobs_wait`: the wait for concurrent annotators gives up after the first 50 ms slice
  (`games/advisor/jobs.py:472`), whatever deadline was declared.
- `jobs_erased`: a sequential annotator writes back an older snapshot and erases a
  concurrent annotator's result (`jobs.py:516`).
- `run_bricked`: a death in the first iteration leaves a buffer that every later start
  refuses (`games/az_loop/run_controller.py:161`).
- `run_remeasured`: a measurement of an interrupted iteration survives the rollback
  (`run_controller.py:507`).
- `run_snapshot`: the next iteration begins while files are copied, and the copy holds a
  checkpoint its own log does not name (`games/az_loop/snapshot.py:94`).
- `cloud_capacity`: the call after a worker's panic keeps its slots for good
  (`games/welcome_to/welcome_to_rust/src/scheduler.rs:701`).

The passing properties say what holds in spite of these: `ResumableOnceCommitted` and
`RunsComplete` exclude the first iteration and the torn lines, `SlotsComeBack` and
`SearchesOutliveErrors` the abandoned
call, `ResponseIsWhole` ends where a sequential annotator writes, and `EverySearchSettles`, `StopIsHonoured`
and `FinishedIsForgotten` except a lost job (`Lost`). The torn lines: half
a line in the training log refuses the run before its journal is looked at
(`games/seven_wonders_duel/phase_d.py:2883`); half a line in the hall of fame's index, which a death in
`hof.py:79` leaves, is met by `entries` (`hof.py:43`) at each later promotion and league. Nothing repairs
either, and no text of the repository denies it.

Four divergences have no run of their own and are modelled as the code does it. The first is in the
Welcome To driver, which says "Re-running the same command continues where it stopped"
(`games/welcome_to/s2_run.py:38`). A death after the last shard of an iteration and before
its metrics contradicts that: the next start finds every game (`self_play.py:2149`) and
returns without writing the metrics; the training then skips the iteration as incomplete
(`s2_replay.py:232`), or has nothing to train on if it is the first; a gate may be played; and the report
raises over the missing file (`s2_run.py:298`), in this start and every later one. The same holds of a
death between a candidate and its metrics (`s2_run.py:309`), inside the write of either
file, and inside a line of `progress.jsonl` (`s2_run.py:358`). `Stranded` names exactly these
places; `RunsComplete` shows that there are no others.

The second: `_pass_unused_cards` in
`games/welcome_to/game.py` says that a player who refused never chose a pair, but a
refusal at the choice of the number comes after the pair was chosen, and the spare card is
passed on all the same.

The third: a comment in `games/az_loop/stagnation.py:263` says that leaving a rung applied "would keep
a recovered run on an intervention nobody chose and nothing needs", so a recovery drops it. But
while the ladder is switched off only the state is kept up to date (`stagnation.py:251`), so a
run that was restarted without the ladder and then with it is `normal` with a rung applied; from
there a good verdict leaves the rung in place (`stagnation.py:255`), and a bad one applies the next without
a window. `InterventionsAreEarned` speaks of windows only for a rung the ladder still holds.

The fourth: the handler of `_advance_to_target` says of exceptions "surfaced to the client, never raised
out" (`games/advisor/jobs.py:319`), but `action_views` and the two conversions of the request
(`jobs.py:273`) come before its `try`. A raise there is raised out, into a future nobody looks at: the job is
active for good, a start of the same position rejoins it, and no reap drops it. (A blocking caller runs the worker on its own
thread and gets the exception; its job stays as well.) `Lost` names this state and nothing else.

## 7. What is not modelled

- Of the job manager: the ranking, the chunk size that adapts to the measured speed (a chunk
  is any number up to what is left), the wording of errors.
- Of the controller: anchor gates against fixed opponents, autosave, heartbeats and the
  statistics of a row, none of which a later step reads; guards against a changed
  configuration.
- Of the intervention ladder: what a rung multiplies, and the slope, which is telemetry.
- Of the schedulers: packing of rows, softmax and value blending, profile counters, which
  subtree a search retains.
- Of the Welcome To run: what playing, fitting and judging compute, the curricula (functions
  of earlier shards that the manifest pins), the stage of paired targets, which is off by
  default, `driver.json` and the replay report of a candidate, which nothing reads back; the
  writer's `flush`, which nothing calls.
- Of the snapshot: skipping files of unchanged size and time, the command line.
- Of the services: statistics, shared-memory packing, start-up; times are choices.
- Of the games: points and coins, where a domino may be placed, the replay of chosen
  boundary outcomes and the redeterminisation a search asks for, and the Rust copies. The four
  modules together with `games` cover what a long game can do to the pieces, not who wins it.
- The encoders, the tree searches and the training and audit programs of the single games make up most
  of the repository's lines. They compute over tensors and trees far beyond a model checker's
  reach and keep no protocol with anyone, so a module of them could only restate
  their formulas.
- A machine that loses power: a completed write stays, as the code assumes.

One hazard was left out of that list: a finished job's status turns inactive before its clock
is refreshed (`jobs.py:329`), which takes a second clock to tell from the reaper's own. Some behaviours are in the models without a property because the repository
states no promise about them: a rejoin of a search that is already being stopped, a job
marked abandoned that finishes all the same, a poll that reaps the very job it is about, a
row that `PlaySession::new` refuses and whose slots stay busy, a result that an abandoned
call left in the scheduler's channel. One more is outside the models: a failed call gives its
searches back without the root they had retained (`search.rs:1174`).

## 8. Plan

Done: the job manager, controller and policy, schedulers, the evaluation services, the
turn cache, the snapshot, the intervention ladder, the Welcome To run, the rules of the games. Left, in order:

- The ledger's cache by file size.
- Of the engines, redeterminisation and the replay of chosen boundaries: the promise is that
  what a seat can see is the same before and after.
- The pairs stage of the Welcome To run, with its own cache of a file.
- Set aside for their size so far: a second clock for the polling time a finished job is
  promised; a search queued behind another; two annotators sharing one thread.

Proofs, in order: that the two schedulers implement `LeafWaves` (the calls of a play as a
function of what its searches need, wave by wave, over the invariant that is proved); the types
and the pieces of `KingdominoGame` and `CantStopGame`.

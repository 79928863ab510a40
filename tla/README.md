# temporal-rs in TLA+

temporal-rs is a Rust SDK for Temporal on top of `temporalio-sdk-core` ("Core"
below). This directory holds a specification of its own logic: how a workflow
function is driven by activations, how its machines are cached and replayed,
and how activities are run, cancelled and reported. Paths are relative to
`src/crates/temporal/src/` unless they say otherwise.

    tlc -workers 2 -config MCWorkflowMachine.cfg MCWorkflowMachine
    tlapm WorkflowMachineProofs.tla

## 1. The system

| Component | State | Operations | Talks to |
|---|---|---|---|
| Workflow context, `workflow.rs` | two sequence counters, `is_replaying`, `current_time`, the sender of the command channel, the cancel receiver | `sleep`, `execute_activity`, `cancelled`, `signal_channel`, `now` | its machine, by an unbounded channel of commands and one oneshot channel per operation |
| Workflow machine, `workflow_machine.rs` | the future, `pending_timers`, `pending_activities`, `outgoing_commands`, `completed`, `result`, the cancel flag | `process_activation`: jobs, drain, poll, drain, completion | the context; the handler of activations |
| Workflow cache, `workflow_machine.rs` | machines by run id, under a tokio mutex | `get_or_create`, `process_activation`, `remove` (no caller) | `handle_workflow_activation` |
| Worker loops, `worker.rs` | the shutdown token, registrations, the cache and the token map (all of which outlive `run()`) | `run`, `run_activity_loop`, `run_workflow_loop`, `shutdown` | Core, by polls and completions |
| Activity execution, `worker.rs`, `activity.rs` | `task_tokens_to_cancels`, one tokio task per attempt | start, cancel, the spawned task's run, removal and completion | Core; handlers, through `ActivityContext` |
| Worker builder, client, errors, prelude | configuration | construction | |
| `temporal-core`, `temporal-macros`, `temporal-testing` | none that changes | wrap Core; generate code; start containers | |

Workflow tasks are handled one at a time, in the workflow loop itself;
activities run concurrently, each in a spawned task that `run()` neither keeps
nor waits for. Both loops and their handlers share one tokio task, so ending
either loop drops the other one wherever it awaits. `run` takes `&mut self`:
nothing else of the Worker, `shutdown` included, can be called until it has
returned or its future was dropped.

What is hard here, and which property answers for it, is the list of hazards in
`PROJECT.json`. In short:

* **Ordering inside an activation.** Resolutions go in first, the future is
  polled once, and starts leave through a channel and two drains. Pending maps,
  channels and Core must agree afterwards.
* **Wake-ups.** The future is polled with a waker that does nothing.
* **Replay, eviction, crash.** A machine may meet a history it has already
  processed, or an activation that was processed and never completed.
* **Leaving `run()`.** By the token, by an error past `CoreWorker::shutdown`, or
  by a dropped future; what was handed out stays out, and the cache and the token
  map wait for the next `run()`.
* **Overlapping attempts.** The server gives attempts up that still run here.
* **Handlers.** They fail, panic (in two ways), wait for a cancel, report late.

What makes each component correct: the machine starts every operation once and
gives the workflow Core's own outcome for it; the cache holds machines that are
where a replay would leave them; the activity side reports each attempt once,
reaches every running handler with its own cancel only, and lets the current
attempt decide; `run()` says Ok only when it has left nothing behind, and takes
nothing on once a shutdown was requested.

## 2. The modules

| Module | Models |
|---|---|
| `DurableCommands` | abstract: what one cached execution promises about the operations its code starts |
| `WorkflowMachine` | one machine, its context and arbitrary workflow code; implements `DurableCommands` |
| `WorkflowMachineProofs` | theorems about it |
| `DurableHistory` | abstract: what a worker promises of the operations of its runs, whatever happens to it; with the theorem that it is at most once |
| `WorkflowCache` | many runs: the cache, `handle_workflow_activation`, Core's replays and evictions, further calls of `run()`, crashes; implements `DurableHistory` |
| `WorkflowCacheProofs` | theorems about it |
| `ActivityTasks` | the activity loop, the spawned tasks, the token map, the server's attempts |
| `ActivityTasksProofs` | theorems about it |
| `WorkerRun` | `run()`, `shutdown()` and both loops: `ActivityTasks` and `WorkflowCache` composed |
| `WorkerRunProofs` | theorems about it, and about the components inside it |
| `MC*` | values of the constants for TLC |

### WorkflowMachine

`pc` walks through `process_activation`: `jobs` (or `evict`, for an activation
that holds a `RemoveFromCache` job), `drain1`, `poll`, `drain2`, `idle`.

| Code | Model |
|---|---|
| `outgoing_commands.clear()`, the entry | `Deliver` |
| `handle_job`: `FireTimer`, `ResolveActivity` with `complete_*` | `HandleResolution` |
| `CancelWorkflow`, `RemoveFromCache` | `HandleCancelWorkflow`, `HandleRemoveFromCache` |
| the other jobs, whose arms only log | `EndOfJobs` at once |
| `process_workflow_commands` | `Drain`, a command a step |
| `if !self.completed` | `FirstDrainDone` |
| `poll_workflow` | the actions of `WorkflowStep`, up to `Park` (Pending) or `Finish` (Ready, or a caught panic) |
| `build_completion` | `BuildCompletion`, with what Core takes from the answer |

An operation is a pair of kind and sequence number. Its oneshot channel is
`slot[op]`: "unborn", "empty", a value, or "dropped" with its sender. Workflow
code is not a program but every program: in a poll it may start operations,
take the results that are there, drop futures it no longer wants, subscribe to
a signal, fail to serialize, park on any set of its receivers that says
Pending, or end. All of the code's errors and panics are one result, `err`.

`budget` is tokio's cooperative budget. oneshot, mpsc and watch receivers
return Pending once it is used up, although they have a value, and rely on
being woken. `poll_workflow` polls with a no-op waker. `Deliver` lets the poll
begin with any part of the budget but the whole, since the worker's task spends
from it before (cache mutex, Core's channels); receivers other than those of
operations are not counted, which is the same as beginning with less.

A signal subscription can be made once per workflow.

### WorkflowCache

Between two awaits `handle_workflow_activation` is a step: `Prepare` (or
`NoHandler`), `Process`, `Complete`. A machine is taken in one step
(`Processed`, `Answer`), and its workflow code is a script of stages, each
starting a set of operations and waiting for all of them. Core and the server
keep `hist`: per completed workflow task, what its activation delivered and
what its completion asked for. A run that Core does not have cached is
replayed from the first task, and each answer is compared.

`RunEnds` drops the handler where it awaits and keeps the cache, `Run` comes
with a new Core that replays from the start, `Crash` loses the cache as well.
`reused` is a history variable: the runs for which `get_or_create` kept a used
machine when a new one was due. A crash does not clear it: the history may by then
hold tasks without commands, the answers of the used machine, which a fresh machine's
replay would not match. `EvictOpen` says whether Core may evict
open runs. The worker never sets the size of Core's cache of workflows
(`temporal-core/src/worker.rs:78-88`), so Core's default decides how often that
happens.

### ActivityTasks

A token is an attempt of an activity. `task[k]` is the place of the task
spawned for it: "running" the handler, "reported" (it has a result), "unmapped"
(its token is taken out of the map), "done", or "dead" (unwound by a panic of
the handler's call). `complete_activity_with_error` is a task that begins at
"unmapped". A handler ends with a value, a retryable error, finally (a
non-retryable error or a caught panic), or by a panic before it returned its
future. Tasks go on when the loop stops, and report to the Core they hold; a
further `run()` polls a Core of its own (`polled` is what that one handed out)
and goes on with the old map. The server lets a completion count only if it is
of the current attempt, which it may have timed out.

### WorkerRun

`phase` is the place in `run()`: "idle" (not called), "looping" or "stopping"
(inside `CoreWorker::shutdown`). The two components are instantiated over the
same `runs`; an activity is a pair of a run and an operation of its script. It
can be started once the history of its run holds its command, and is resolved
for the workflow once the server has a verdict (`Settled`).

| Code | Model |
|---|---|
| `run`: `CoreWorker::new` and the choice of loops | `Run`, `RunFails`, `HasActivities`, `HasWorkflows` |
| a turn of a loop, with its biased select | `ActivityPoll`, `WorkflowPoll`, guarded by `MayPoll` |
| the handler awaited inside the workflow loop | `Handle` |
| spawned tasks, which go on without `run()` | `SpawnedTask` |
| the token seen; the select drops the other loop | `LoopEnds` |
| `core_worker.shutdown().await`, `Ok(())` | `Returns` |
| `result?` of a loop | `PollFails` |
| the caller drops the future | `Dropped` |
| `shutdown()`, possible only outside `run()` | `Shutdown` |

`ActivityTasks`' loop counts as polling until `CoreWorker::shutdown` is over, so
that `polled` is what the Core of this `run()` has out; `MayPoll` keeps it from
polling after the token. The token is the Worker's, so every `run()` watches the
same one (`TokenOfRun`). `asked` is a history variable: `shutdown()` was called on
this Worker. Whether `CoreWorker::shutdown` waits for what is out is
Core's business and left open, except that it returns when nothing is.

## 3. What is checked

| Run | Question | Bounds | States |
|---|---|---|---|
| `machine` | safety of one machine, and the refinement | 2 activities, 1 timer, budget 2, two ways for an activity to end | 469 000 |
| `machine_live` | resolution reaches a poll | 1 activity, 1 timer, all outcomes | 41 000 |
| `cache` | replays, reuse of machines, the refinement | 2 runs with a handler, 1 without; a stage of one operation and a stage of two; open runs evicted; 2 calls of `run()`, any crashes | 927 000 |
| `activities` | safety and liveness of activities | an activity that waits, panics in the call, fails or ends well, one without a handler; 2 attempts, 2 calls of `run()`, any crashes | 119 600 |
| `worker` | `run()` and `shutdown()` over both loops, with liveness | a workflow that calls an activity and sleeps, one without a handler; 2 attempts, ending well or panicking in the call; 2 calls of `run()`, any crashes | 109 600 |

Two activities are what it takes to mistake one sequence number for another, a
timer beside them what it takes to mistake a kind; a budget of 2 can run out
before, at and after any receive of a poll. A stage of two operations can be
resolved in two tasks, which makes tasks without commands; two calls of `run()`,
before or after a crash, allow every way to leave one, and a replay that meets a
machine of the first. Two attempts can overlap,
and a crash or a second `run()` can meet any of their places. The ending
"final" is left to the small runs: the code makes the same result of it as of
"retryable".

**Properties that hold.**

* `PendingMirrorsCore`: between activations the pending maps are exactly what
  Core is running.
* `NoOrphanedAwait`: what the workflow awaits unanswered, the machine can answer.
* `ResultFidelity`: the workflow gets Core's outcome of that very operation, and
  never the end of a dropped channel.
* `LostWakeupOnlyOnBudget`: a future stays parked on something ready only
  through tokio's budget (the signal channel apart, see below).
* `FreshCommands`: starts are sent once, and in order within their kind.
* `EvictionFreezesWorkflow`: nothing is polled or started after an eviction.
* `DurableSpec`: all of it together is an implementation of `DurableCommands`.
* `ResolutionReachesPoll`: a parked future is polled again with its outcome.
* `MachineFollowsHistory`, `NondeterminismOnlyByReuse`: unless a used machine was
  kept for a new start, machines are where a replay would leave them and replays
  match, whatever crash, dropped handler or repeated task came between.
* `HistoryFollowsCode`, `HistorySpec`: histories follow the workflow code and
  implement `DurableHistory`. These hold with reused machines too: their wrong
  answers are stopped by Core's comparison or are empty, so they block a run and
  never start or deliver anything twice.
* `OnceInHistory`, what that comes to: an operation is in the commands of one
  completion and in the jobs of one activation, in that order.
* `MapIsExact`, `CancelIsolated`: a cancel reaches the running handler of its
  attempt and no other; only a panic before the future leaves a token behind.
* `OutcomeIsCurrent`: late reports of earlier attempts decide nothing.
* `EveryStartIsAnswered`: each attempt is reported, but for those of an early
  panic and for handlers that wait for a cancel when their `run()` is over.
* `OkMeansDone`: `run()` returns Ok only with nothing out at its Core, even if
  `CoreWorker::shutdown` does not wait.
* `NoWorkAfterRequest`, `ShutdownEndsRun`: a request outlives every order of
  errors, drops and calls; a later `run()` takes no task, starts no activity
  handler, runs no workflow code, and ends.
* `ClosedAfterActivities`: a workflow ends only after the server's verdict on each
  activity it waited for, and one that counts as completed was completed by its
  last attempt; so too when a second `run()` starts the workflow in a used machine.
* `WorkflowsClose`: end to end, in a worker that stays up runs with a handler
  close, through crashes, panics and lost attempts, beside a run that hangs for
  want of a handler; only a reused machine may prevent it.

**Statements of the source that do not hold.** Each has a run that ends in a
counterexample, and a finding in `PROJECT.json` that quotes the statement.

* `lost_wakeup`: a poll that uses up the budget leaves the workflow parked on a
  channel that has its value.
* `signals`: the channel of a subscription is closed by the next drain.
* `evict_open`: an evicted machine stays in the cache and answers the replay.
* `second_run`: `run()` on the same `Worker` feeds a replay to used machines.
* `early_panic`: a handler that panics in the call is never reported.
* `retry`: retryable errors are reported as non-retryable.
* `shutdown`: `run()` left by an error or dropped never shuts its Core down, and
  `shutdown()` can only come too late.

**Fairness.** *Machine*: `process_activation` is synchronous and a poll of
workflow code returns (weak fairness of `MachineStep` and `WorkflowStep`; code
that loops for ever inside a poll blocks the loop of the real worker as well).
Core activates a workflow that has an operation running, and at some time
resolves each (strong fairness, because the job loop is open only now and
then). Nothing forces a query, a signal or a cancel. *Cache* (only for
`second_run`): the server resolves what it runs, Core serves every run (strong,
since each waits for the loop to be free), and the handler goes on.
*Activities*: tokio runs spawned tasks; handlers end, those in `Waiting` only
once cancelled; Core cancels what it handed out as long as the loop polls. The
loop itself, starts, timeouts and crashes are not fair. *WorkerRun*: both loops
poll while `run()` is in them, and Core gives every run its turn; the server ends
each attempt by a timeout if not by a completion (`start_to_close_timeout` is 60 s
by default, `workflow.rs:353`) and gives up after `MaxAttempts`, as it does under
a `schedule_to_close_timeout`: the server's own retry policy, which is in force
because the options' policy is never sent, has no limit. Nothing makes anyone
call `run()` or keeps it from ending; `WorkflowsClose` assumes that it stays up.

`CHECK_DEADLOCK FALSE` in the configurations: an evicted machine, a worker whose
runs are closed and one whose activities are settled really stop.

## 4. What is proved

By TLAPS, for any values of the constants that satisfy the named assumptions:

*WorkflowMachine* (`MaxSeqAssumption`, `OutcomesAssumption`,
`CoopBudgetAssumption`): all invariants of the run `machine`, the action
property and `Spec => DurableSpec`. None of them is inductive. `PendingMirrorsCore`
speaks of the states between activations, and has to be carried through the
drains, when an operation may be in the channel, in the pending map but not at
Core, or resolved and not yet seen. `IndInv` says where in its life each
operation is (`Lifecycle`), what the program counter implies about channel,
commands and flags (`Control`), that numbers ascend through the commands built
and the channel behind them (`Order`), and what a future may be parked on
(`ParkedUnready`). `Inductive` has a lemma per action; the invariants follow
from `IndInv` in the states they speak of. For the refinement a step of the
poll or the job loop maps to `Issue`, `Resolve` or `Observe`, the building of a
completion to `Commit`, an eviction to `Evict`, and all others to stuttering.

*ActivityTasks* (`ActivityAssumption`, `EndingsAssumption`, `AttemptAssumption`): `TypeOK`,
`MapIsExact`, `CancelIsolated` and `OutcomeIsCurrent`. Strengthened by
`Attempts` (tasks of attempts to come do not exist, the current one is not there
while it is only scheduled, and is done when the activity is settled) and
`Reports` (what a task is about to report is how its handler ended).

*WorkflowCache* (`RegisteredAssumption`, `ScriptAssumption`, `BoundsAssumption`): all
invariants of the run `cache`, and `Spec => HistorySpec`, for any runs, any script
and any number of calls of `run()`. The inductive invariant has two halves.

* What holds of every machine, reused ones included: it has started the first
  stages of the script, whole, and has the results of all but the last of them
  (`MachineOK`); a task starts the stage after those the tasks before it started,
  and delivers what was resolved (`HistoryOK`, `FollowsAt`); Core has fed a run no
  more tasks than there are, and an activation is the one Core waits for
  (`CoreOK`, `ActOK`); a machine is never behind the tasks it was fed, though
  it may be ahead of them, and what it has got beyond them was resolved
  (`AheadOK`); so an answer that Core records is either the next stage, whose
  predecessor the history holds, or empty (`ReplyOK`). This half carries
  `HistoryFollowsCode`, `HistorySpec` and `OnceInHistory`: reuse can stop a run but
  not make it do anything twice.
* What holds unless a used machine was kept for a new start (`SyncOK`): the
  machine is the replay of what Core fed it, and a replay of any history gives
  the answers that the history has. This half carries `MachineFollowsHistory` and
  `NondeterminismOnlyByReuse`.

`ReplaysMatch` says when there is no reuse: `Fresh`, inductive together with `IndInv`
under `OneRunSpec` and without evictions of open runs, has a machine for a run
that is to be started only between `Prepare` and `Complete`. So
`NoNondeterminism`, which the run `evict_open` refutes, holds through any crashes if
each `Worker` is run once and Core evicts closed runs only; TLC agrees with the bounds
of `cache` and three calls of `run()` (`SPECIFICATION OneRunSpec`).

`ReplayOf` is a function defined by recursion over a history. That it is what it
says it is, and that a longer history extends it, is shown without an induction
principle: `LeastElement`, from the library's theorem on well-founded relations,
gives a shortest history without a trace, which one more task extends
(`TraceExists`, `ReplayUnfolds`, `ReplayExtends`). TLC has checked `IndInv` as an
invariant of the run `cache` with the same bounds. For the refinement, a resolution
maps to `Resolve`, a completion that Core records to `Task`, all else to
stuttering; counting the tasks that hold an operation needs the cardinality
theorems (`TimesZero`, `TimesAppend`).

*DurableHistory*: it starts and delivers an operation at most once, and in that order
(`Promise`). Through the refinement that is `OnceInHistory`.

*WorkerRun* (`ActivityOpsAssumption`, and the components' own as `CacheAssumption`
and `TasksAssumption`): `TypeOK`, `OkMeansDone`, `NoWorkAfterRequest`. `OkMeansDone`
rests on `CleanWhenAsked`: when a `run()` is on and the token is cancelled, nothing
is out. It is inductive because the token is cancelled only outside `run()`, `run()`
begins with nothing out, and the biased select looks at the token first.
`NoWorkAfterRequest` rests on `QuietWhenAsked`: once asked the token is cancelled,
and while it is, no activation is in the handler. That too takes all of `run()`'s
exits: a request is possible only outside `run()`, each way to leave it drops the
handler where it awaits, and no later `run()` takes an activation. The spawned tasks go
on after a request; by the types of `ActivityTasks` none of their steps starts a handler.

A behaviour of the Worker is one of each component (`ActivitySide`,
`WorkflowSide`). `WorkflowsCorrect` and `ActivitiesCorrect` use that to carry the
theorems about the components over to the whole. The proof modules of the components
are instances of their own there, `Workflows` and `Tasks`; `SameWorkflows` and
`SameTasks` show that they say the same as `WC` and `AT`. `ClosedAfterActivities` needs
both sides: the last task of a run has delivered everything (`HistoriesOK` of
`WorkflowCache`), what is delivered was resolved, what is resolved of an activity
is settled and a verdict stands (`ResolvedIsSettled`, `VerdictsStand`), and a
completed one is its last attempt's (`OutcomeIsCurrent` of `ActivityTasks`).

Only model-checked: the liveness properties `ResolutionReachesPoll`,
`EveryStartIsAnswered`, `ShutdownEndsRun` and `WorkflowsClose`, since fairness is out
of the prover's reach. All other properties of the passing runs are theorems.

## 5. What is not modelled

* Payloads and their (de)serialization, but for the failure that leaves a gap in
  the sequence numbers; durations; options of activities. `retry_policy` is
  never put into the command (`workflow_machine.rs:288-306`).
* Queries, signals, patches and random seeds: their jobs only log.
* `WorkflowCommand::Complete`: nothing sends it. Local activities and their
  backoff: the machine schedules none.
* Heartbeats: `heartbeat_tx` is never set.
* The arms for `PollError::ShutDown`: Core is shut down only after both loops
  have ended, so no poll can say so.
* Why an activity failed: a resolution `Failed` is passed on as
  `ActivityResult::Failed` whatever its cause (`workflow_machine.rs:177`), a timeout
  included; nothing makes `ActivityResult::TimedOut`, so
  `WorkflowError::ActivityTimedOut` is never seen.
* `is_replaying()`: it reads a field that is never written (`workflow.rs:101`).
* `register_activity`, `register_workflow` between two calls of `run()`: the types
  with a handler are constants.
* Builder, client, errors, macros, test containers: construction, parsing, I/O
  and generated code without state of their own.

## 6. Plan

Done, in this order: the machine with its abstract specification and proofs, the
cache with replay and crashes, the activities with proofs, `run()` over both with
proofs, the abstract history, the proofs about the cache and the composition of all
proofs in the Worker. Next:

1. `WorkflowCache` over `WorkflowMachine`: that a whole `process_activation` of
   the detailed machine is one step of the cache's, for workflow code that follows
   a script; checked by TLC, then as a theorem.
2. Durations and sequence numbers with their widths.

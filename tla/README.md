# Formal model of xflows

xflows is the workflow plugin of the XCore platform: it stores workflow
definitions, creates a run of a workflow for every trigger (IPC, HTTP, inbound
webhook, event, schedule), queues the run, and has one worker execute it step by
step by calling actions of other plugins. This directory holds TLA+ models of
it, checked with TLC, and proofs checked with TLAPS. Paths below are relative to
the repository; `engine.py` is `src/runtime/engine.py`, `workflow.py` is
`src/repositories/workflow.py`.

## The system

| Component | State | Operations | Talks to |
|---|---|---|---|
| Plugin, triggers, worker (`src/main.py`) | worker task, queue client | `on_load`, `on_unload`, `_trigger`, `http_webhook`, `_on_any_event`, `_worker_loop`, IPC actions | store, engine, queue, registry |
| Engine (`engine.py`) | `_resolved` identities; the `WorkflowRun` being executed | `init_run`, `execute_existing`, `cancel_run`, one method per step kind | store, other plugins, event bus |
| Run store (`workflow.py`) | run and step rows, `xflow:run:<id>` in the cache | `save_run`, `get_run`, `list_crashed_runs`, `list_runs` | database, cache |
| Definition store (`workflow.py`) | flow and version rows, cached definitions and lists | `save_`, `get_`, `delete_`, `list_definitions` | database, cache |
| Queue (`src/workers/local_queue.py`, or Redis) | ids of runs, FIFO | `lpush`, `rpop` | plugin |
| Registry, scheduler (`src/services/registry.py`, `scheduler.py`) | scheduler jobs | `register`, `unregister`, `_fire` | definition store, engine |
| Inbound webhooks (`src/services/webhook_auth.py`) | rate windows, used deliveries, secrets | `allow`, `first_use`, `verify`, `ensure`, `rotate` | database, plugin |
| Retry (`src/runtime/retry.py`) | none | `execute_with_retry`, `compute_delay` | other plugins |
| Conditions and templates (`src/runtime/condition.py`) | none | `evaluate_condition`, `render_value` | engine |
| Composites (`src/services/composites.py`) | composites and versions | `create`, `delete`, `expand_composite` | database |
| Outbound webhooks, discovery, event catalogue, AI generation | none that others depend on | | |

Everything runs on one asyncio loop: code between two awaits is atomic, and at
every await anything else may run. What is hard:

- a run is stored in four places (the row, the cached copy, the object of the
  worker, the object a client has read) which are written one after the other,
  so a copy may be older than another and be written back later;
- the process may be killed or unloaded at every await, and what was running is
  found again by its status and resumed by its current step and its snapshot of
  successful steps, which come from the cached copy or from the row;
- the branches of a parallel step and the items of a parallel loop are
  concurrent walks over one shared run object;
- the graph of steps is drawn by users and may be cyclic;
- a definition, its cached copy, the cached list and its scheduler job are
  changed by separate steps of concurrent requests, and so are the secret of a
  webhook and the row of a composite;
- the statements of the saves of several branches interleave, and nothing in the
  database keeps one row per step;
- deliveries of a webhook arrive late, twice, at once or signed with a secret
  that has just been replaced.

What makes each component correct: a run is shown successful only when its work
was done (lifecycle), started work is never forgotten and ends (recovery), a
fork is left only when all its parts were tried and a failure is routed or ends
the run (engine), every walk ends (engine), reads serve what is deployed
(definitions), a delivery is accepted once (webhooks), a call is repeated as the
policy says (retry), a comparison compares like with like (conditions), an
expansion keeps the flow of the composite (composites).

## Modules

| Module | What it models |
|---|---|
| `RunLifecycle` | Trigger, queue, worker, run store with its cache, readers and cancellers, kill, unload and reload, over a chain of action steps |
| `RunContract` | What the row of a run promises: the abstract specification `RunLifecycle` implements |
| `RunLifecycle_proofs` | Theorems about `RunLifecycle` |
| `RunLifecycle_refinement` | The proof that it does |
| `WorkflowEngine` | One run over any graph of steps: routes, branches, loops, cycle detection, timeout, unload, crash and resumption |
| `WorkflowEngine_proofs` | Theorems about `WorkflowEngine` |
| `Deployments` | Requests that deploy, delete, read and list the definitions of a tenant, their caches and jobs |
| `Deployments_proofs` | Theorems about `Deployments` |
| `RunRows` | The statements of concurrent `save_run` calls on the rows of one run, with the deletion of its workflow and a restart |
| `RunRows_proofs` | Theorems about `RunRows` |
| `Webhooks` | Deliveries, rate limit, memory of deliveries, and the requests on the secret |
| `Webhooks_proofs` | Theorems about `Webhooks` |
| `Composites` | Requests that register and delete a composite, and its expansion |
| `Composites_proofs` | Theorems about `Composites` |
| `Retry` | The calls of one step under its retry policy |
| `StepCalls_proofs` | Theorems about `Retry` and `Conditions` |
| `Conditions` | `evaluate_condition`, `_resolve_path` and `render_value` as operators |
| `MC...` | Instances for TLC: model values, graphs, composites, policies and operands; `MCStepCalls` puts `Retry` and `Conditions` together, as a step does that is reached through a condition and called with a rendered payload |

`RunLifecycle` and `RunRows` are two views of `save_run`: the first has the cache
and takes a commit as one step, the second has the statements and no cache.
`WorkflowEngine` has all graphs and one atomic save. The trigger that ends a
delivery in `Webhooks` (`Resolve`) is the one `RunLifecycle` starts with.

Definitions whose name starts with `Bug` are plausible faults of the definition
that follows them. Putting one in its place must make the property it is meant
for fail; this is how each property was tested. Nothing else uses them.

### RunLifecycle

`db`, `cache` and `queue` are the rows, the cached copies and the queue; `mem` is
the `WorkflowRun` object of the worker and `wpc` where the worker is; `trig` and
`client` are where the trigger of each run and each request of a client are.
`db[r].cur` is always 0 because `current_step_id` has no column; the cached copy
has it. `save_run` is two actions, the commit (`Commit`) and the `cache.set`
(`SetCache`, due while `flush` holds), because a crash, a reader or an unload
may come in between. `get_run` is a read and, on a miss, a later fill.

| Action | Code |
|---|---|
| `InitRun`, `CacheNewRun`, `RecordActor`, `CacheActor`, `EnqueueRun` | `init_run` and the rest of `_trigger` (the webhook, event and scheduler triggers do the same) |
| `Ask`, `Fill`, `CancelRun`, `CacheCancelled` | `ipc_get_run` and `cancel_run` |
| `Pop`, `Load`, `Begin`, `Execute` | `_worker_loop`, `_execute_existing`, the start of `_execute` |
| `EnterStep`, `SkipStep`, `StartStep`, `Invoke` | `_run_from_step`, `_dispatch_step`, `_run_action` up to the call |
| `CallSucceeds`, `CallFails`, `SettleStep` | the answer with its event, and the `finally` of `_run_action` |
| `Succeed`, `Announce`, `Fail`, `Finish` | the rest of `_execute` and its events |
| `Timeout`, `Unwind`, `EndCutShort` | an execution that is cancelled where it waits: the `finally` of the step, then the handler of `_execute` |
| `Crash`, `Unload`, `Stop`, `OnLoad`, `ResumeRun`, `StartWorker` | a kill of the process, `on_unload`, `on_load`, `_resume_crashed_runs` |
| `Expire`, `TriggerRaises`, `ClientRaises`, `Abort` | the TTL of the cache; store and queue calls that raise |

Abstractions. A commit is atomic; the statements inside one `save_run` are not
interleaved (`RunRows` has them). Publishing an event is one step, and the worker
waits after it: an unload then finds a run whose success is announced still inside
the `try` and marks it CANCELLED (`Announce`, `Unload`, `EndCutShort`). Between the
answer of an action and the save of its result the event of the step is published,
so a kill may come there too and the step is called again. Redis and the database
survive the process. `Unload` cancels the worker wherever it is: in a step its
`finally` saves first, and when that save raises the run fails instead; whatever
the worker was doing outside `_execute` just ends.

### WorkflowEngine

Every `_run_from_step` in progress is a walker named by its path; `run` is the
one object all of them share, `saved` what the last save stored. `Enter` is the
head of the loop of `_run_from_step` with its save; `Fork` is the start of a
parallel or foreach, `StartItem` an item that got the semaphore, `NextItem` the
next item of a sequential loop, `Join` the end of a fork. `ChildSeen` is the
`visited` list a child copies when it first runs. `Crash` forgets all walkers
and reloads the run from what was saved, with the current step (cache) or
without it (row); `Begin` then resumes it as `_execute` does. Values are left
out: a condition or a switch takes any of its targets, a call answers or fails.
A save is atomic here with the assignment it follows. Only the first step of a
branch, or of the list of a foreach, is started, as in the code.

### Deployments

`db`, `cache`, `list` and `job` are the four places of a definition; `op` holds
the requests under way, between two awaits. `Deploy` is the part of
`registry.register` up to `save_definition` (the scheduler is called before the
save), `Save`, `Put`, `Unlist` the rest; `Delete`, `FillDrop`, `Drop`, `Uncache`,
`Unlist` are `registry.unregister`; `Read`, `Fill` and `List`, `FillList` are the
reads. An empty cached list counts as a miss, as in the code. `Restart` empties
the jobs (they live in the process) and registers nothing, as `sync_scheduler`.

### RunRows

`row` is the row of the run and `rows[s][w]` the row of step `s` that a save of
walker `w` has inserted; `run` is the `WorkflowRun` all walkers share and `save[w]`
the `save_run` under way of each. A save is `Begin` (the select of the version and
`session.get`), one `Look` per step (`scalar_one_or_none`, then an insert or an
update is prepared) and `Commit`, which may be refused by a key or by a row that
is gone. SQLAlchemy's autoflush, on by default, sends what was assigned before the
next select: the status and the context of the run are written as they were in
`Begin`, for the first select of a step follows without a wait, and a later change
of the plain JSON dictionary is not noticed. When something differs from what was
read, that UPDATE takes the row until the commit, and the next save that has one
waits for it (`Take`). `Raise` is an exception that leaves `save_run`: it
ends a branch, turns the save of SUCCESS into one of FAILED, and drops the run
elsewhere.

| Action | Code |
|---|---|
| `Create`, `Execute`, `Fork` | `init_run`, the start of `_execute`, `_run_parallel` |
| `Head`, `StartStep`, `Answer`, `Settle` | `_run_from_step`, `_dispatch_step`, `_run_action` in a branch |
| `Join`, `End` | `gather`, the end of `_execute` and its handler |
| `Delete` | `delete_definition`, with the rows of the workflow's runs |
| `Restart` | a kill, `list_crashed_runs` and `get_run` |

A branch has one action step, over which it may loop; a step row stands for its
status, the context for the set of steps that have a result in it. Transactions
read committed rows and the statements of `delete_definition` are one step. The
saves of the main walker before the fork are one, there being nobody else.

### Webhooks

`hits` and `lru` are `_hits` with the order of its keys, `seen` is `_seen`, `stored`
the row of the secret; secrets are numbered as they are generated. `op` holds the
requests under way between two awaits: a delivery (`Arrive` with `allow`,
`GetSecret`, `Check` with `verify` and `first_use`, `Resolve`), a deployment
(`Deploy`, `Ensure`, `Insert`), a rotation (`Rotate`, `ReadRow`, `Put`), the answer
of either (`Answer`, which shows the secret) and a deletion (`Unregister`,
`Forget`). A sender signs with the secret its owner was shown last, with any time.
`passed`, `accepted`, `shown`, `dead` and `disturbed` are history: they record what
the properties are about and nothing reads them, but for `Sign`, which is the
sender. A delivery comes with either `Header`, the digest alone or after `sha256=`:
`Verify` does not tell them apart, `FirstUse` remembers each by itself. `accepted`
says in which process (`life`) a delivery was accepted, since a restart forgets.
Left out: the sealing of secrets, the size of bodies, the dummy
verification, which has no effect on the state. The purge of a large `_seen` drops
only what `first_use` ignores.

### Composites

`row` is the row of one composite; a registration or a deletion is a select and a
commit. A version is the number `_bump_version` raises. `Expand` is
`expand_composite`: identifiers are sequences of words and the `"_"` that joins
them is concatenation, so that two ways to join to the same name are seen.

### Retry and Conditions

`Retry` is `execute_with_retry` with `compute_delay`: a call ends in an answer, a
soft error with a code, an exception or a cancellation, after any time; `Sleep`
ends when the delay is over or later. Delays are whole numbers of a unit.

`Conditions` is a set of operators. A string is the sequence of its characters and
a path the sequence of its words. `Resolve` is the loop of `_resolve_path`, one `Turn`
after the other. `Text` is `str()`, `Spells` and `Float` are
`float()` on digits, and Python's `==`, `<` and `in` are written out, with the
exception that comparing different types raises. Not in it: the `regex` operator,
signs, fractions, exponents and `nan`.

## Runs

| Run | Checks | Shows |
|---|---|---|
| `cancel_ignored` (violated) | `CancelledStops` | A run cancelled while it is executed goes on calling its actions. |
| `lifecycle_store` | `TypeOK`, `SuccessIsEarned`, `NothingClaimedEarly`, `RunningIsOwned`, `CallsBounded`, `ImplementsContract` | A run of two steps on a shared queue and cache against a concurrent reader or canceller, cache expiry, two kills or unloads and two store calls that raise: stale copies never make a success that was not earned, no started run is forgotten as long as no store call raised, and the row of the run implements RunContract. |
| `lifecycle_local` | `AnnouncementIsTrue`, `CommittedNotRedone`, `EndedNotReopened`, `RunsEnd` | Two runs of two steps on the in-memory queue with two stops and no cache: the events published are true, but for a success whose delivery an unload cut short; a success that was committed is not redone, an ended run stays ended, every started run ends and without a stop so does every accepted one. |
| `engine_graphs` | `NoReentry`, `CyclesHaveCause`, `ForksFinish`, `OthersStillTried`, `EveryWalkerEnds` | All 2197 graphs of three steps over a menu of waits, AI calls with failure routes, loops of both kinds and awaited parallels, most of them cyclic, and four with branches nobody waits for, without stops: every walk of a run, awaited or not, ends, forks nest no deeper than the graph is large, every cycle error has a cause, forks complete, and a branch or item that fails keeps no other from being tried. |
| `engine_shapes` | `TypeOK`, `FailureIsRouted`, `ItemIsOwn`, `EveryRunEnds` | Every kind of step with its routes and failures, sequential and parallel loops, awaited branches, branches in loops and loops in branches, with timeouts and two crashes or unloads; all parallels awaited, and no calls in the bodies of parallel loops. |
| `engine_resumed_loop` (violated) | `ForksFinish` | A crash inside a loop leaves items untried and the run ends successful. |
| `deployments` | `TypeOK`, `CacheIsFresh`, `JobIsCurrent`, `CachesConverge` | Two concurrent requests that deploy, delete, read and list a workflow, with expiry, a restart or a save that raises: undisturbed requests leave caches and jobs right, disturbed ones leave stale copies only until they expire. |
| `run_rows` | `TypeOK`, `SuccessIsWhole`, `DoubledOnlyByOverlap`, `StuckHasCause` | Two branches that loop twice over a step each, the statements of their saves interleaved with each other, with the deletion of the workflow and with a restart: a run stored successful has a row for each step and the results of what its last execution ran, steps are stored twice only by overlapping saves, and a run is stuck only by that or by the deletion. |
| `rows_doubled` (violated) | `OneRowPerStep` | Two branches whose saves overlap both insert the row of a step. |
| `webhooks` | `TypeOK`, `AcceptedOnce`, `RateHeld`, `OldSecretsDie`, `ShownSecretWorks` | Two concurrent requests that deliver, deploy, rotate and unregister, with a delivery that arrives three times, with either header, from clients that displace each other, and a restart: each header of a delivery is accepted once, the rate is held, no more clients are remembered than may be, old secrets die, and the secret shown last works. |
| `composites` | `TypeOK`, `ExpansionKeepsFlow`, `RegistrationsHold` | Two concurrent requests that register, delete and are cut, and the expansions of what is served, with identifiers of one word or two: an expansion keeps the flow and the inputs of its composite, versions are never given twice and the last registration is served. |
| `step_calls` | `RetriesFollowPolicy`, `ComparesLikeWithLike`, `FindsTheValue` | Every order of answers, errors and exceptions under thirty-eight policies; every pair of eighteen operands under every operator but regex; and every path of up to three words in four contexts with dotted keys. |

Bounds. Two steps suffice for a resumption to be before, at and after a
success; two runs for the queue to have an order and the worker to have a run
behind the one it executes; two stops for a recovery to be interrupted itself and
for a run to be queued twice; one client with one request for a read to straddle
any step of the worker. The engine's graphs have four steps at most and loops of
three items; the graphs of three steps over the whole menu contain every way to
close a cycle through a chain, a failure route, a loop or a branch and their
combinations two deep. Two concurrent requests are enough for every stale fill,
which needs one reader and one writer. Two branches with two rounds and one stop
let a save straddle any other and a restart find any rows; `rows_doubled` needs no
stop. In `webhooks` the tolerance and the window are one unit and the clock goes to
two, so that a copy arrives before, at and after each boundary; the guard remembers
one of two clients, so that each displaces the other; three requests of the tenant
are a deployment, a rotation and one that overlaps them. Three
registrations and two deletions of a composite contain one after a deletion and
two that overlap. In `step_calls` a policy allows one or four calls, with delays
below, at and above the cap, and the operands are one of each sort and the pairs
that Python treats in a way of its own (`1` and `true`, `"10"` and `"9"`, lists that
are prefixes of each other). Symmetry is used where the sets are interchangeable
and the run has no liveness property.

Fairness. `RunLifecycle`: the worker, a trigger or request under way, `on_load`
and the end of `on_unload` go on (asyncio resumes every ready task, the calls of
plugins return, the supervisor loads a plugin that went down). Nothing makes a
client ask, a timeout strike or the process stop. `WorkflowEngine`: some walker
goes on while one can. `Deployments`: requests go on and cached entries expire. The
other modules have safety properties only.

## What is proved

All theorems hold for every value of the constants that meets the assumptions
named in the modules.

**`RunLifecycle_proofs`**, from `NStepsAssumption` (a chain has a step),
`NoRunAssumption`, `RedisAssumption`; the sets of runs and clients and the bounds
are arbitrary.

- `TypeCorrect`: `TypeOK`, one step per action.
- `TruthfulAlways`: `NothingClaimedEarly`. `SuccessIsEarned` alone is not
  inductive: a run may be marked successful from a copy that was read long ago,
  so what every copy says has to be known. The invariant says of *each* copy - the
  row, the cached copy, what a client holds, the object of the worker - that the
  steps it shows successful were done, that those before its current step were
  done, and that it is successful only if all were; and of the worker that all
  before its current step is done. It holds in spite of stale copies because `done`
  only grows (`TruthfulGrows`): a copy that was truthful once stays so.
  `TruthfulRow` shows that merging a stale copy into a newer row is truthful too.
- `CallsHaveBound` (`CallsBounded`), from `CallsClaimed`: the calls of a step and what
  may still call it - its trigger, each place in the queue, the recovery, the worker
  and the next start - are together at most one more than the process was stopped. So
  two recoveries that queue a run twice do not break the bound.
- `SuccessEarned` (`SuccessIsEarned`) follows, and `OrderKept`: no step is called
  before every earlier one has succeeded (`CallsFollowOrder`, a part of
  `NothingClaimedEarly`).

**`RunLifecycle_refinement`**: `Refinement`, that is `Spec => ImplementsContract`.
Its invariant is `Phases`, on top of the previous one: a run belongs to its trigger
until it is accepted and only then to the queue, the recovery or the worker
(`TriggerPhase`), and its row shows what the worker is about, unless a client has
just cancelled it (`WorkerPhase`). `PersistPhases` treats every save of the worker,
with its exception; then there is one step per action. On top of `Phases`:

- `RunningHasOwner` (`RunningIsOwned`), from `Custody`: while the plugin boots or is up
  and no store call has failed, a run that is RUNNING in the database is queued, with the
  worker or about to be queued by the recovery. The theorem has no hypothesis.
- `EndedStaysEnded` (`EndedNotReopened`) and `AnnouncementsTrue` (`AnnouncementIsTrue`), for
  deployments without Redis (`~HasRedis`) and without cancellations (`Clients = {}`),
  whatever the store does. `OnePlace` says that a run is with its trigger, once in the
  queue, in the recovery or with the worker; `Sole` that an ended run is in none of
  these, unless the worker is about to announce how it ended. Both hypotheses are
  needed, TLC finds the counterexamples: a cancellation is overwritten by the worker,
  and a queue that outlives the process holds a run twice.
  `AnnouncementIsTrue` has one exception, a success whose event was still being
  delivered when the process was unloaded; the row then says CANCELLED.
- `DoneStaysDone` (`CommittedNotRedone`), under the same hypotheses, whatever the store
  does. `Recorded` says that without a cache the worker's object shows every success
  the row shows, and that its snapshot has those it will come to again. With a cache
  the step is called again (`ResumptionSkips`), and so it is when a cancellation
  writes an old copy back.

**`WorkflowEngine_proofs`**, for any set of definitions over any graph
(`WorkflowsAssumption` only gives the types of the records).

- `TypeCorrect` and `ForksNeverReenter` (`NoReentry`). The invariant `Sound` says of a
  walker that the forks on its path are different steps, all visited, and that a
  walker past the cycle check stands on a visited step that is none of them; so a
  child, which copies what its parent visited, cannot enter them again.
- `CycleErrorsAreExplained` (`CyclesHaveCause`), on any graph, branches nobody waits for
  included. `AllTraced` says of each walker that what it has visited is what its path
  went through or the next step of a fork on its path that was left behind
  (`Detaches`); `Inherits` shows it of a child from its parent. That the second cause
  is real TLC shows (`CyclesAreReal`).
- `Families` says whose children are whose: a walker has visited the forks it left
  descendants in, so it meets none of them again, and a sequential loop has come no
  further than its one child. The theorems below rest on it.
- `FailuresAreAccountedFor`, on any graph: a run is successful only if each step that
  failed has been routed or was where nobody looks (`Unwatched`: in a branch nobody waits
  for, or an item of a parallel loop). `Chained` says that everybody above a walker that
  is waited for is there and waits for it; `AllReported` that a failure nobody has
  handled is being passed on by somebody on its path.
  `WatchedFailuresAreRouted` is `FailureIsRouted` on the graphs without such places
  (`Watched`); on others it fails, which is listed below.
- `UnstoppedForksFinish` (`ForksFinish`), from `Unstopped`: each part of a fork that was
  entered has been tried, is in hand or will be, or a failure cut the fork short. It
  assumes `Awaited`, that no branch or body is just END (`Startable`: there is nothing to
  try in those), and that the run was not stopped, since a resumed run skips the rest
  of a loop (`engine_resumed_loop`).
- `OneLoopKeepsItsItem` (`ItemIsOwn`), from `Items`: on an awaited graph, as long as at
  most one walker waits at a loop, a sequential one, the run holds the item of the
  iteration under way. All loops of a run write the same `loop_item`, so nested,
  concurrent and parallel loops take each other's items. `SingleLoopKeepsItsItem` is the
  same for the definitions of which that is known beforehand: one loop, a sequential
  one, and no parallel steps (`SingleIsOne`).

**`Deployments_proofs`**, for any names and requests, with or without a cache
(`NamesAssumption`: there is a name).

- `TypeCorrect`; `ServesCommitted` from `Committed`: whatever overlaps, fails or is cut,
  the caches hold definitions that were committed (`OnlySavedIsServed`).
- `FreshCaches` (`CacheIsFresh`) and `CurrentJobs` (`JobIsCurrent`) from `AllOrderly`,
  which describes a workflow in the middle of its one request: what the request
  has in hand is still what the database holds, and only the places it has not come
  to yet may be stale. `OthersKeepOrder` shows that requests on other workflows,
  however they overlap, do not matter - also those that fill the common list.

**`RunRows_proofs`**, for any finite set of steps (`StepsAssumption`) and any bounds
(`MainAssumption`: the main walker is none of the branches).

- `TypeCorrect`, from `Phase`: which walkers are awake when, and that a branch that
  may turn to its step again has a round left.
- `DoubledByOverlap` (`DoubledOnlyByOverlap`), from `Orderly`: as long as no two saves
  have overlapped, one walker saves at most, a step has one row at most, and what a
  save has prepared still fits the rows there are - also when they were deleted.
- `SuccessAlwaysWhole` (`SuccessIsWhole`), from `InTurn` (branches save only while the main
  walker waits for them, and it ends only when they are over), `LastSave` (SUCCESS is
  for its last save to write) and `EndingSave` (what that save finds and prepares). Of
  the results it promises those of the steps the last execution ran: what a
  resumption skips may have been stored without its result (`ResultsKept`).
- `StuckOnlyByCause` (`StuckHasCause`), from `InTurn` and `Causes`: what a save missed -
  the version, the row of the run or of a step - the deletion has taken.

**`Webhooks_proofs`**, for any clients, deliveries and requests, any window, tolerance
and limits (`LimitsAssumption`, `NamesAssumption`). All properties of its run:

- `TypeCorrect`: a request generates one secret at most (`Enough` counts those that
  are still to generate theirs), and the guard makes room before it takes a client in.
- `RateIsHeld` (`RateHeld`), from `Remembered`: what the guard holds of a client is the
  tail of the times it was let in, those before have left the window, and each is
  more than a window after the one `MaxHits` before it.
- `OnlyAcceptedOnce` (`AcceptedOnce`), from `Noted`: the memory has the last acceptance of
  each header, and two acceptances of one process are two tolerances apart, which
  within the window are its two ends.
- `OldSecretsAreDead` (`OldSecretsDie`), from `Fresh` and `Checked`: a secret about to be
  stored is new, and what a delivery is checked with was not dead when it arrived.
- `ShownSecretIsStored` (`ShownSecretWorks`), from `Alone`: undisturbed, one request of
  the tenant is under way at most, and where it is says what is stored and shown.

**`Composites_proofs`**, for any composites and requests.

- `TypeCorrect`: the version never exceeds the number of registrations (`Counted`).
- `RegistrationsKept` (`RegistrationsHold`), from `Orderly`: undisturbed, the request
  under way still has the row of the database (`UpToDate`), and the row has the
  highest version given and what was registered last.
- `ExpansionIsFaithful` (`ExpansionKeepsFlow`): identifiers of an instance are distinct
  (`JoinIs`), each is that of one step of the
  composite (`StepOfExpanded`), and one route further from any steps is the same in both
  (`RoutesAgree`). By induction over the number of routes (`SameFlow`) the expansion
  leads through the same steps at any depth: `ExpansionKeepsAnyFlow`, where the run
  looks three routes far. `SharedOnlyByPrefix` says when the identifiers of two instances
  can meet (`InstancesApart`): only if one instance is named by the first words of
  the other. That identifiers are sequences of words and Python's None is
  not is `WordsAssumption`.

**`StepCalls_proofs`**, for any policies and codes that meet `CodesAssumption` and
`PoliciesAssumption`, any operands of the kinds in `ValuesAssumption` and any contexts
whose keys are one word or more (`ContextsAssumption`).

- `TypeCorrect` and `OnlyRetries`: a call is repeated only after an answer that does
  not settle the matter and at most as often as the policy allows
  (`OnlyRetriesWhatItMay`, a part of `RetriesFollowPolicy`). The invariant counts the
  calls by `attempt`, and says that none of those before a repetition settled it.
- `PoliciesAreFollowed` (`RetriesFollowPolicy`) adds the pauses. `Paced` says that each
  call began no earlier than `compute_delay` allows after the one before, and where
  the pause under way ends. `compute_delay` computes each pause afresh and caps it;
  the policy promises each from the one before. `PromisedIs` shows by induction that
  these are the same, from `TwoToIs` (2 ** n doubles) and `DelayGrows` (a capped pause
  may be doubled or grow by the delay and be capped again).
- `PathsAreFollowed` (`FindsTheValue`) is about the loop of `_resolve_path`. A turn takes
  a word or more of the path (`TurnIs`), so nothing is left of it after as many turns as
  it has words (`WalkEnds`). By induction over the turns it stays on a way that the path
  may lead or has found nothing or an attribute (`WalkIsAWay`), and where no key begins
  another there is no other way (`ClearWalk`). The longest key that matches exists
  (`ChosenIs`), and a key that is the whole path is the longest (`WholeKey`).
- `LikeIsComparedWithLike` (`ComparesLikeWithLike`): two sequences part at exactly one
  place, the same from both sides (`PartExists`, `OnePart`), so of two texts or lists that
  may be compared one is less or they are the same (`TextsCompare`, `ListsCompare`), and
  `float()` reads both operands of one sort or neither (`ConvertedIs`).

`StepCalls_proofs` and `Composites_proofs` reason by induction about data. The provers cannot
instantiate the induction theorems of the library, which take a predicate; their
lemma `Induction` is about a set of numbers instead, and follows from
`NatLessThanWellFounded` and `WFMin`.


Some theorems have a hypothesis about the deployment, the graph or the behaviour,
because without it the property fails or is not proved: `AnnouncementIsTrue`,
`EndedNotReopened` and `CommittedNotRedone` (no Redis, no cancellations), `FailureIsRouted`
(`Watched`), `ForksFinish` (`Awaited`, `Startable`, not stopped), `ItemIsOwn` (`Awaited` and
`OneLoop`, or `SingleLoop`). The graphs of `engine_shapes` are wider: there
`FailureIsRouted` and `ItemIsOwn` are also checked on parallel loops whose bodies have no
calls, which no theorem is about.

Only model-checked: all liveness properties (fairness and ENABLED are out of the
prover's reach), and the safety properties outside the hypotheses above.

## Disagreements found

Each of these has a run that TLC must find violated, quoted in `PROJECT.json`:

- `cancel_ignored`: a run cancelled while it is executed goes on.
- `engine_resumed_loop`: a crash inside a loop leaves items untried, and the run
  ends successful.
- `rows_doubled`: overlapping saves of two branches insert a step twice. From then
  on every save of the run raises, so that it stays RUNNING, is resumed at every
  start and fails again (`StuckHasCause` allows exactly this).

Six more are stated as properties in the modules. TLC refutes each of them on the
instance given here; it takes the place of the properties of the run named.

- `ResumptionSkips` (`lifecycle_store`, one run, no clients, one stop): `engine.py:269` says
  that a step which had succeeded before a crash is skipped. When the process dies
  between the commit of `save_run` (`workflow.py:289`) and its `cache.set`, the resumption
  loads the older cached copy and calls the step again.
- `CyclesAreReal` (`engine_graphs`, `Workflows <- Converging`): `engine.py:228-234` lets
  convergent branches visit the same step. The list is copied when the task of a
  branch nobody waits for first runs (`engine.py:235`), after its parent has appended its
  next step; a branch that converges there raises a cycle error nobody sees.
- `IdentityDiesWithRun` (`engine_graphs`, `Workflows <- DetachedForks`): such a branch
  resolves the identity of the run again after `forget_actor`, against `engine.py:60` and
  `146`, and nobody forgets it then.
- `ResultsKept` (`run_rows`, one round): the save of one branch stores the success of
  another without its result, because the context was flushed at its first select
  (`workflow.py:264`). The process dies, the resumption skips that step (`engine.py:273`),
  and the run ends SUCCESS without the result that the step after the fork reads
  (docs/examples.md:111-113).
- `ReplayRefused` (`webhooks`): docs/security.md:20 says that a replay is refused.
  `first_use` remembers the header as it came (`main.py:748`), `verify` strips `sha256=`
  (`webhook_auth.py:71`): a delivery is accepted once with the prefix and once without.
- `InstancesApart` (`composites`): INTEGRATION.md:596 says that the prefix avoids
  collisions. Step `b_a` of instance `x` and step `a` of instance `x_b` are both `x_b_a`.

Others were met while modelling.

Runs and recovery:

- `docs/troubleshooting.md:23` promises that pending runs are resumed after a
  restart; `list_crashed_runs` looks for RUNNING only, hence the `stops = 0` in
  `RunsEnd`.
- `README.md:228` promises an event after every run; the generic handler of
  `_execute` (`engine.py:212-218`) emits none.
- `workflow.success` is published from within the `try` of `_execute` (`engine.py:195`):
  an unload before the event has been delivered makes the run CANCELLED although its
  success was announced (`AnnouncementIsTrue` allows exactly this).
- A reader that fills the cache late can make a run lose its actor.
- The comment at `workflow.py:134-137` says that deleting a workflow removes its
  history; a run under way is inserted again by its next save, without a version.
  `get_run` then builds a `WorkflowRun` without a name, which raises, and so does
  every `list_runs` of the tenant that comes across it.

Engine:

- INTEGRATION.md:392 says, after an example with `"parallel": true`, that the
  current item is `{{ loop_item }}`; all items write one `loop_item` of one run
  (`engine.py:418`) and payloads are rendered after a save, with the item of whoever
  wrote last (`ItemIsOwn` fails as soon as the body of a parallel loop has a call).
- A nested foreach removes the `loop_item` of the outer one (`engine.py:431`).
- A parallel foreach never looks at the exceptions of its items (`engine.py:424`):
  the run ends successful although INTEGRATION.md:551 says it fails.
- Only `branch[0]` of a branch is executed (`engine.py:377`).
- The result of a template step is stored as `steps.<id>.<output_key>`
  (`engine.py:466`); INTEGRATION.md and docs/workflow-dsl.md say
  `steps.<id>.result.<output_key>`, a path that resolves to nothing.
- `timeout_seconds` of a step and `wait_for_event` (`schemas/workflow.py:142,174`) are
  read nowhere.

Definitions, webhooks, composites, conditions:

- INTEGRATION.md:84 and `registry.py:76` say that scheduled workflows are registered
  again after a restart; `sync_scheduler` only logs, and no request but a new
  deployment registers a job.
- A crash or a second request between the two writes of a deployment or deletion
  leaves a job for a workflow that is not there, or none for one that is.
- A delivery counts as used before its run is created (`main.py:748`): if that
  fails, the sender's retry is refused.
- Two rotations that overlap both show a secret, and one of them is dead
  (`ShownSecretWorks` is about requests that came one after the other). A crash
  between the deletion of a workflow and that of its secret leaves the secret for
  the next workflow of that name, whose deployment then shows none.
- A composite that was deleted and is registered again is answered with success
  and never served: nothing sets `is_active` again (`composites.py:44-53`).
- `expand_composite` prefixes an explicit `END`, and does not rename the targets of
  conditions, switches, branches and loops; `SelfContained` names the composites
  for which the expansion is right. INTEGRATION.md:596 says the engine expands
  composites; it never does.
- `"1" == true` holds and `true == "1"` does not (`condition.py:79`: `float("True")`
  fails before the right operand is converted).

## Not modelled, and the plan

Next, in this order:

1. Proofs: `ItemIsOwn` for a loop with branches around it.
2. The version a worker executes a run with when its workflow was deployed again
   meanwhile, once the code or a document says which one it should be.
3. `WorkflowScheduler._fire` and the events of all tenants, as further triggers.

Left out for good: outbound webhooks (fire and forget), discovery and the event
catalogue (listings), AI generation (text), dead letters and the audit log (never
called), HTTP routes and permissions (wrappers; the host authenticates), the
regular expressions of conditions.

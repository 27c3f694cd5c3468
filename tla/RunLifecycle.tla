---------------------------- MODULE RunLifecycle ----------------------------
(***************************************************************************)
(* The life of a run of xflows: a trigger creates it, the queue holds it,  *)
(* the one worker of the process executes it step by step, and the plugin  *)
(* may be killed, unloaded and loaded again at any point in between.       *)
(*                                                                         *)
(* A workflow is a chain of NSteps action steps, each followed on success  *)
(* by the next one and without on_failure; the other kinds of step are the *)
(* business of WorkflowEngine.  What is kept here is every place a run is  *)
(* stored: the row of the database, the copy in the cache, the objects the *)
(* worker and the clients hold, and the order in which they are written.   *)
(*                                                                         *)
(* Definitions named Bug... are faults put in the place of the definition  *)
(* that follows them, to see that the properties notice.                   *)
(***************************************************************************)
EXTENDS Naturals, Sequences, FiniteSets

CONSTANTS
    Runs,        \* run identifiers
    NoRun,       \* what the worker holds between two runs
    Attributed,  \* the runs whose trigger, or deployer, is known
    NSteps,      \* length of the chain
    HasRedis,    \* a cache service with lpush/rpop: shared queue and run cache
    Clients,     \* concurrent readers and cancellers
    MaxStops,    \* bound: kills and unloads of the process
    MaxAsks,     \* bound: requests of the clients
    MaxFaults    \* bound: database or cache calls that raise

ASSUME NoRunAssumption == NoRun \notin Runs
ASSUME AttributedAssumption == Attributed \subseteq Runs
ASSUME NStepsAssumption == NSteps \in Nat \ {0}
ASSUME RedisAssumption == HasRedis \in BOOLEAN
ASSUME BoundsAssumption == MaxStops \in Nat /\ MaxAsks \in Nat /\ MaxFaults \in Nat

Steps == 1..NSteps

\* WorkflowStatus and StepStatus, as far as the engine sets them; "none" where
\* there is no record
Status == {"none", "pending", "running", "success", "failed", "cancelled"}
StepStatus == {"none", "running", "success", "failed"}
Terminal == {"success", "failed", "cancelled"}

\* WorkflowRun: cur is current_step_id (0 for None), actor tells whether the
\* context holds the identifier of who triggered the run
Copy == [status : Status, cur : 0..NSteps, steps : [Steps -> StepStatus], actor : BOOLEAN]
NoCopy == [status |-> "none", cur |-> 0, steps |-> [s \in Steps |-> "none"], actor |-> FALSE]
NewRun(actor) == [NoCopy EXCEPT !.status = "pending", !.actor = actor]

VARIABLES
    db,         \* the rows of FlowRunRecord and FlowStepRecord
    cache,      \* xflow:run:<id>
    queue,      \* xflow:queue:tasks, oldest first
    host,       \* "down", "boot" (in on_load), "up", "stopping" (in on_unload)
    resume,     \* list_crashed_runs() still to be enqueued by on_load
    trig,       \* how far the trigger of each run has come
    client,     \* the request each client has under way
    wpc,        \* where the worker is
    held,       \* the run it has taken
    mem,        \* its WorkflowRun object
    at,         \* current_id of _run_from_step; NSteps + 1 for END
    skip,       \* resumed_success_ids
    flush,      \* a cache.set of the worker is due: commit done, cache not yet
    calls,      \* history: how often each step's action was called
    done,       \* history: the steps whose action answered with success
    announced,  \* history: the final events emitted for each run
    stops, asks, faults     \* how much of each bound is used

dataVars == <<db, cache, queue>>
workerVars == <<wpc, held, mem, at, skip, flush>>
historyVars == <<calls, done, announced>>
boundVars == <<stops, asks, faults>>
vars == <<dataVars, host, resume, trig, client, workerVars, historyVars, boundVars>>

Request == [pc : {"idle", "fill", "got", "flush"}, run : Runs \cup {NoRun}, cancel : BOOLEAN, copy : Copy]
NoRequest == [pc |-> "idle", run |-> NoRun, cancel |-> FALSE, copy |-> NoCopy]
TriggerState == {"none", "created", "named", "recorded", "ready", "accepted", "lost"}
WorkerState == {"poll", "popped", "loaded", "started", "walk", "dispatch", "invoke",
                "calling", "answered", "refused", "succeeded", "announced", "fail", "failed",
                "expiring", "expired", "timedout", "unloading", "unloaded", "cancelled", "stopped"}

(* The worker is in the try of _run_action, whose finally saves the run. *)
InAction == wpc \in {"calling", "answered", "refused"}

(* A run is inside the try of _execute: an exception of the store becomes a
   FAILED run, a cancellation a CANCELLED one.  The announcement is part of it. *)
InTry ==
    \/ InAction \/ wpc \in {"walk", "dispatch", "invoke", "succeeded", "announced", "expiring"}
    \/ wpc \in {"fail", "expired"} /\ flush

WorkerTypeOK ==
    /\ wpc \in WorkerState
    /\ held \in Runs \cup {NoRun}
    /\ wpc \notin {"poll", "stopped"} => held \in Runs
    /\ mem \in Copy
    /\ at \in 1..(NSteps + 1)
    /\ wpc \in {"dispatch", "invoke", "calling", "answered", "refused"} => at \in Steps
    /\ skip \subseteq Steps
    /\ flush \in BOOLEAN
    /\ flush => held \in Runs

TypeOK ==
    /\ db \in [Runs -> Copy]
    /\ cache \in [Runs -> Copy]
    /\ queue \in Seq(Runs)
    /\ host \in {"down", "boot", "up", "stopping"}
    /\ resume \subseteq Runs
    /\ trig \in [Runs -> TriggerState]
    /\ client \in [Clients -> Request]
    /\ \A c \in Clients : client[c].pc # "idle" => client[c].run \in Runs
    /\ WorkerTypeOK
    /\ calls \in [Runs -> [Steps -> Nat]]
    /\ done \in [Runs -> SUBSET Steps]
    /\ announced \in [Runs -> SUBSET {"success", "failed"}]
    /\ stops \in Nat /\ asks \in Nat /\ faults \in Nat

Init ==
    /\ db = [r \in Runs |-> NoCopy]
    /\ cache = [r \in Runs |-> NoCopy]
    /\ queue = <<>>
    /\ host = "up"
    /\ resume = {}
    /\ trig = [r \in Runs |-> "none"]
    /\ client = [c \in Clients |-> NoRequest]
    /\ wpc = "poll" /\ held = NoRun /\ mem = NoCopy /\ at = 1 /\ skip = {} /\ flush = FALSE
    /\ calls = [r \in Runs |-> [s \in Steps |-> 0]]
    /\ done = [r \in Runs |-> {}]
    /\ announced = [r \in Runs |-> {}]
    /\ stops = 0 /\ asks = 0 /\ faults = 0

-----------------------------------------------------------------------------
(* The store.  save_run commits the row, then sets the cache: two steps.   *)

(* What save_run leaves in the database: current_step_id has no column, and
   only the steps the object knows are updated. *)
RowAfter(row, copy) ==
    [copy EXCEPT !.cur = 0,
                 !.steps = [s \in Steps |-> IF copy.steps[s] = "none" THEN row.steps[s]
                                                                      ELSE copy.steps[s]]]

Commit(r, copy) == db' = [db EXCEPT ![r] = RowAfter(@, copy)]

SetCache(r, copy) == cache' = IF HasRedis THEN [cache EXCEPT ![r] = copy] ELSE cache

InCache(r) == cache[r].status # "none"

(* get_run: the cache first, the database otherwise. *)
Stored(r) == IF InCache(r) THEN cache[r] ELSE db[r]

(* RUN_CACHE_TTL runs out. *)
Expire(r) ==
    /\ InCache(r)
    /\ cache' = [cache EXCEPT ![r] = NoCopy]
    /\ UNCHANGED <<db, queue, host, resume, trig, client, workerVars, historyVars, boundVars>>

-----------------------------------------------------------------------------
(* Triggers: _trigger, http_webhook, _on_any_event and _fire all create the
   run, record the actor when there is one, then enqueue. *)

triggerFrame == <<host, resume, client, workerVars, historyVars, stops, asks>>

InitRun(r) ==
    /\ host # "down" /\ trig[r] = "none"
    /\ Commit(r, NewRun(FALSE))
    /\ trig' = [trig EXCEPT ![r] = "created"]
    /\ UNCHANGED <<cache, queue, faults, triggerFrame>>

CacheNewRun(r) ==
    /\ trig[r] = "created"
    /\ SetCache(r, NewRun(FALSE))
    /\ trig' = [trig EXCEPT ![r] = IF r \in Attributed THEN "named" ELSE "ready"]
    /\ UNCHANGED <<db, queue, faults, triggerFrame>>

RecordActor(r) ==
    /\ trig[r] = "named"
    /\ Commit(r, NewRun(TRUE))
    /\ trig' = [trig EXCEPT ![r] = "recorded"]
    /\ UNCHANGED <<cache, queue, faults, triggerFrame>>

CacheActor(r) ==
    /\ trig[r] = "recorded"
    /\ SetCache(r, NewRun(TRUE))
    /\ trig' = [trig EXCEPT ![r] = "ready"]
    /\ UNCHANGED <<db, queue, faults, triggerFrame>>

BugEnqueueTwice(r) ==
    /\ trig[r] = "ready"
    /\ queue' = queue \o <<r, r>>
    /\ trig' = [trig EXCEPT ![r] = "accepted"]
    /\ UNCHANGED <<db, cache, faults, triggerFrame>>

BugEnqueueForgotten(r) ==
    /\ trig[r] = "ready"
    /\ trig' = [trig EXCEPT ![r] = "accepted"]
    /\ UNCHANGED <<dataVars, faults, triggerFrame>>

EnqueueRun(r) ==
    /\ trig[r] = "ready"
    /\ queue' = Append(queue, r)
    /\ trig' = [trig EXCEPT ![r] = "accepted"]
    /\ UNCHANGED <<db, cache, faults, triggerFrame>>

(* A store or queue call raises: the caller gets an error, the row stays. *)
TriggerRaises(r) ==
    /\ faults < MaxFaults
    /\ trig[r] \in {"created", "named", "recorded", "ready"}
    /\ trig' = [trig EXCEPT ![r] = "lost"]
    /\ faults' = faults + 1
    /\ UNCHANGED <<dataVars, triggerFrame>>

Trigger(r) ==
    InitRun(r) \/ CacheNewRun(r) \/ RecordActor(r) \/ CacheActor(r) \/ EnqueueRun(r)

-----------------------------------------------------------------------------
(* Clients: get_run (status, executions) and cancel_run.                   *)

clientFrame == <<queue, host, resume, trig, workerVars, historyVars, stops>>

(* The read of get_run.  A plain read that hits the cache changes nothing. *)
Ask(c, r, cancel) ==
    /\ host = "up" /\ client[c].pc = "idle"
    /\ asks < MaxAsks
    /\ db[r].status # "none"
    /\ cancel \/ (HasRedis /\ ~InCache(r))
    /\ client' = [client EXCEPT ![c] = [pc |-> IF InCache(r) THEN "got" ELSE "fill", run |-> r,
                                        cancel |-> cancel, copy |-> Stored(r)]]
    /\ asks' = asks + 1
    /\ UNCHANGED <<db, cache, faults, clientFrame>>

(* The cache is filled with what was read, however old it is by now. *)
Fill(c) ==
    /\ client[c].pc = "fill"
    /\ SetCache(client[c].run, client[c].copy)
    /\ client' = [client EXCEPT ![c] = IF @.cancel THEN [@ EXCEPT !.pc = "got"] ELSE NoRequest]
    /\ UNCHANGED <<db, asks, faults, clientFrame>>

(* cancel_run marks the copy it read and saves it. *)
CancelRun(c) ==
    /\ client[c].pc = "got"
    /\ LET copy == [client[c].copy EXCEPT !.status = "cancelled"] IN
       /\ Commit(client[c].run, copy)
       /\ client' = [client EXCEPT ![c] = [@ EXCEPT !.pc = "flush", !.copy = copy]]
    /\ UNCHANGED <<cache, asks, faults, clientFrame>>

CacheCancelled(c) ==
    /\ client[c].pc = "flush"
    /\ SetCache(client[c].run, client[c].copy)
    /\ client' = [client EXCEPT ![c] = NoRequest]
    /\ UNCHANGED <<db, asks, faults, clientFrame>>

ClientRaises(c) ==
    /\ faults < MaxFaults
    /\ client[c].pc # "idle"
    /\ client' = [client EXCEPT ![c] = NoRequest]
    /\ faults' = faults + 1
    /\ UNCHANGED <<db, cache, asks, clientFrame>>

Client(c) == Fill(c) \/ CancelRun(c) \/ CacheCancelled(c)

-----------------------------------------------------------------------------
(* The worker: _worker_loop, execute_existing and _execute.                *)

workerFrame == <<host, resume, trig, client, stops, asks>>

Idle(pc) ==
    /\ wpc' = pc
    /\ held' = NoRun /\ mem' = NoCopy /\ at' = 1 /\ skip' = {} /\ flush' = FALSE

(* Where the worker goes when the store raises while it is on its way to pc:
   the handlers of _execute themselves, and what precedes the try, are left
   to the catch-all of _worker_loop, which gives the run up. *)
Handler(pc) ==
    IF pc \in {"loaded", "started", "failed", "timedout", "cancelled"} THEN "poll" ELSE "fail"

(* The store raises on the way to pc, the worker's object being copy. *)
Abort(copy, pc) ==
    /\ faults < MaxFaults
    /\ faults' = faults + 1
    /\ IF Handler(pc) = "poll"
          THEN Idle("poll")
          ELSE wpc' = "fail" /\ mem' = copy /\ flush' = FALSE /\ UNCHANGED <<held, at, skip>>

(* save_run of the worker's object up to the commit, then on to pc with next
   as the current step; or the exception, and nothing is written. *)
Persist(copy, pc, next) ==
    \/ /\ Commit(held, copy)
       /\ mem' = copy /\ flush' = TRUE /\ wpc' = pc /\ at' = next
       /\ UNCHANGED <<held, skip, faults>>
    \/ Abort(copy, pc) /\ UNCHANGED db

(* The cache.set that ends save_run (or get_run, after Load). *)
Flush ==
    /\ flush
    /\ \/ /\ SetCache(held, mem)
          /\ flush' = FALSE
          /\ UNCHANGED <<wpc, held, mem, at, skip, faults>>
       \/ HasRedis /\ Abort(mem, wpc) /\ UNCHANGED cache
    /\ UNCHANGED <<db, queue, historyVars, workerFrame>>

(* rpop *)
Pop ==
    /\ host \in {"up", "stopping"} /\ wpc = "poll" /\ queue # <<>>
    /\ held' = Head(queue) /\ queue' = Tail(queue)
    /\ wpc' = "popped"
    /\ UNCHANGED <<db, cache, mem, at, skip, flush, historyVars, faults, workerFrame>>

(* get_run, with the fill of the cache still to come on a miss. *)
Load ==
    /\ wpc = "popped"
    /\ mem' = Stored(held)
    /\ flush' = ~InCache(held)
    /\ wpc' = "loaded"
    /\ UNCHANGED <<dataVars, held, at, skip, historyVars, faults, workerFrame>>

(* _execute_existing: RUNNING, whatever the status was. *)
Begin ==
    /\ wpc = "loaded" /\ ~flush
    /\ Persist([mem EXCEPT !.status = "running"], "started", at)
    /\ UNCHANGED <<cache, queue, historyVars, workerFrame>>

BugResumedNone(copy) == {}
BugResumedSeen(copy) == {s \in Steps : copy.steps[s] # "none"}

(* resumed_success_ids, frozen when the execution starts. *)
ResumedSuccess(copy) == {s \in Steps : copy.steps[s] = "success"}

BugStartAtCurrent(copy) == copy.cur
BugStartAfterCurrent(copy) == copy.cur + 1

(* current_step_id or definition.start_step_id *)
StartAt(copy) == IF copy.cur = 0 THEN 1 ELSE copy.cur

Execute ==
    /\ wpc = "started" /\ ~flush
    /\ skip' = ResumedSuccess(mem)
    /\ at' = StartAt(mem)
    /\ wpc' = "walk"
    /\ UNCHANGED <<dataVars, held, mem, flush, historyVars, faults, workerFrame>>

(* _run_from_step: the step is recorded as the current one before it runs.
   The test of run.status for CANCELLED reads the worker's own object, which
   nobody but the worker writes: it never holds here. *)
EnterStep ==
    /\ wpc = "walk" /\ ~flush /\ at \in Steps
    /\ Persist([mem EXCEPT !.cur = at], "dispatch", at)
    /\ UNCHANGED <<cache, queue, historyVars, workerFrame>>

SkipStep ==
    /\ wpc = "dispatch" /\ ~flush /\ at \in skip
    /\ at' = at + 1
    /\ wpc' = "walk"
    /\ UNCHANGED <<dataVars, held, mem, skip, flush, historyVars, faults, workerFrame>>

StartStep ==
    /\ wpc = "dispatch" /\ ~flush /\ at \notin skip
    /\ Persist([mem EXCEPT !.steps[at] = "running"], "invoke", at)
    /\ UNCHANGED <<cache, queue, historyVars, workerFrame>>

Invoke ==
    /\ wpc = "invoke" /\ ~flush
    /\ calls' = [calls EXCEPT ![held][at] = @ + 1]
    /\ wpc' = "calling"
    /\ UNCHANGED <<dataVars, held, mem, at, skip, flush, done, announced, faults, workerFrame>>

(* The plugin has answered.  The step is marked in the worker's object and
   its event is emitted, which waits; the save comes after that. *)
Answer(status, pc) ==
    /\ wpc = "calling"
    /\ mem' = [mem EXCEPT !.steps[at] = status]
    /\ wpc' = pc
    /\ UNCHANGED <<dataVars, held, at, skip, flush, calls, announced, faults, workerFrame>>

CallSucceeds ==
    /\ Answer("success", "answered")
    /\ done' = [done EXCEPT ![held] = @ \cup {at}]

CallFails == Answer("failed", "refused") /\ UNCHANGED done

(* The finally of _run_action. *)
SettleStep ==
    /\ \/ wpc = "answered" /\ Persist(mem, "walk", at + 1)
       \/ wpc = "refused" /\ Persist(mem, "fail", at)
    /\ UNCHANGED <<cache, queue, historyVars, workerFrame>>

(* The chain is over: SUCCESS is saved, then announced. *)
Succeed ==
    /\ wpc = "walk" /\ ~flush /\ at = NSteps + 1
    /\ Persist([mem EXCEPT !.status = "success"], "succeeded", at)
    /\ UNCHANGED <<cache, queue, historyVars, workerFrame>>

(* The execution is cancelled where it waits: in the call of a plugin, or in
   the event that follows the answer, the finally saves the run first; a save
   under way is cut short. *)
CutShort(during, after) ==
    /\ \/ InAction /\ wpc' = during
       \/ wpc # "calling" /\ wpc' = after
    /\ flush' = FALSE

(* wait_for cancels the execution when timeout_seconds have passed. *)
Timeout ==
    /\ InAction \/ wpc \in {"walk", "dispatch", "invoke"}
    /\ at \in Steps \/ flush
    /\ CutShort("expiring", "expired")
    /\ UNCHANGED <<dataVars, held, mem, at, skip, historyVars, faults, workerFrame>>

(* The finally of a step that was cut short.  When its save raises, that is
   the exception _execute sees. *)
Unwind ==
    /\ \/ wpc = "expiring" /\ Persist(mem, "expired", at)
       \/ wpc = "unloading" /\ Persist(mem, "unloaded", at)
    /\ UNCHANGED <<cache, queue, historyVars, workerFrame>>

(* except asyncio.TimeoutError, and except asyncio.CancelledError *)
EndCutShort ==
    /\ ~flush
    /\ \/ wpc = "expired" /\ Persist([mem EXCEPT !.status = "failed"], "timedout", at)
       \/ wpc = "unloaded" /\ Persist([mem EXCEPT !.status = "cancelled"], "cancelled", at)
    /\ UNCHANGED <<cache, queue, historyVars, workerFrame>>

(* except Exception: FAILED is saved and no event follows. *)
Fail ==
    /\ wpc = "fail" /\ ~flush
    /\ Persist([mem EXCEPT !.status = "failed"], "failed", at)
    /\ UNCHANGED <<cache, queue, historyVars, workerFrame>>

BugAlwaysSuccess(pc) == {"success"}

(* The final event of an execution, by the way it ended. *)
FinalEvent(pc) ==
    CASE pc = "succeeded" -> {"success"}
      [] pc = "timedout"  -> {"failed"}
      [] OTHER            -> {}

Publish(events) == announced' = [announced EXCEPT ![held] = @ \cup events]

(* workflow.success goes out from within the try. *)
Announce ==
    /\ wpc = "succeeded" /\ ~flush
    /\ Publish(FinalEvent(wpc))
    /\ wpc' = "announced"
    /\ UNCHANGED <<dataVars, held, mem, at, skip, flush, calls, done, faults, workerFrame>>

Finish ==
    /\ wpc \in {"announced", "timedout", "failed"} /\ ~flush
    /\ Publish(FinalEvent(wpc))
    /\ Idle("poll")
    /\ UNCHANGED <<dataVars, calls, done, faults, workerFrame>>

Worker ==
    \/ Flush \/ Pop \/ Load \/ Begin \/ Execute \/ EnterStep \/ SkipStep \/ StartStep
    \/ Invoke \/ CallSucceeds \/ CallFails \/ SettleStep
    \/ Succeed \/ Announce \/ Unwind \/ EndCutShort \/ Fail \/ Finish

-----------------------------------------------------------------------------
(* The process: killed at any point, unloaded, loaded again.               *)

(* What dies with the process: everything but the database, and Redis. *)
Die ==
    /\ host' = "down"
    /\ queue' = IF HasRedis THEN queue ELSE <<>>
    /\ resume' = {}
    /\ trig' = [r \in Runs |-> IF trig[r] \in {"none", "accepted"} THEN trig[r] ELSE "lost"]
    /\ client' = [c \in Clients |-> NoRequest]
    /\ Idle("poll")
    /\ UNCHANGED <<db, cache, historyVars, asks, faults>>

(* An unload that hangs (see Unload) can still be killed. *)
Crash ==
    /\ \/ host \in {"boot", "up"} /\ stops < MaxStops /\ stops' = stops + 1
       \/ host = "stopping" /\ UNCHANGED stops
    /\ Die

(* on_unload cancels the worker's task: inside _execute the run is saved as
   CANCELLED, anywhere else the worker just ends.  When a save on the way
   raises, the handler of exceptions or the catch-all of the worker swallows
   the cancellation and the worker goes on polling. *)
Unload ==
    /\ host = "up" /\ stops < MaxStops
    /\ host' = "stopping" /\ stops' = stops + 1
    /\ \/ InTry /\ CutShort("unloading", "unloaded") /\ UNCHANGED <<held, mem, at, skip>>
       \/ ~InTry /\ Idle("stopped")
    /\ UNCHANGED <<dataVars, resume, trig, client, historyVars, asks, faults>>

(* The awaited task has ended: the plugin is gone. *)
Stop ==
    /\ host = "stopping"
    /\ wpc = "stopped" \/ (wpc = "cancelled" /\ ~flush)
    /\ Die
    /\ UNCHANGED stops

BugCrashedPending == {r \in Runs : db[r].status = "pending"}
BugCrashedAll == {r \in Runs : db[r].status # "none"}

(* list_crashed_runs *)
CrashedRuns == {r \in Runs : db[r].status = "running"}

bootFrame == <<db, cache, trig, client, workerVars, historyVars, boundVars>>

(* on_load, up to the query of _resume_crashed_runs *)
OnLoad ==
    /\ host = "down"
    /\ host' = "boot"
    /\ resume' = CrashedRuns
    /\ UNCHANGED <<queue, bootFrame>>

ResumeRun(r) ==
    /\ host = "boot" /\ r \in resume
    /\ queue' = Append(queue, r)
    /\ resume' = resume \ {r}
    /\ UNCHANGED <<host, bootFrame>>

StartWorker ==
    /\ host = "boot" /\ resume = {}
    /\ host' = "up"
    /\ UNCHANGED <<queue, resume, bootFrame>>

Boot == OnLoad \/ (\E r \in Runs : ResumeRun(r)) \/ StartWorker

-----------------------------------------------------------------------------
(* Every accepted run has been dealt with and nobody asks for anything. *)
Quiet ==
    /\ host = "up" /\ wpc = "poll" /\ queue = <<>>
    /\ \A r \in Runs : trig[r] \in {"accepted", "lost"}
    /\ \A c \in Clients : client[c].pc = "idle"
    /\ UNCHANGED vars

Next ==
    \/ \E r \in Runs : Trigger(r) \/ TriggerRaises(r) \/ Expire(r)
    \/ \E c \in Clients :
          \/ \E r \in Runs, cancel \in BOOLEAN : Ask(c, r, cancel)
          \/ Client(c) \/ ClientRaises(c)
    \/ Worker \/ Timeout
    \/ Crash \/ Unload \/ Stop \/ Boot
    \/ Quiet

(* asyncio runs every ready task again and again; plugin calls return (the
   kernel bounds them); the supervisor loads a plugin that went down. *)
Fairness ==
    /\ WF_vars(Worker)
    /\ \A r \in Runs : WF_vars(Trigger(r) /\ trig[r] # "none")
    /\ \A c \in Clients : WF_vars(Client(c))
    /\ WF_vars(Stop) /\ WF_vars(Boot)

Spec == Init /\ [][Next]_vars /\ Fairness

-----------------------------------------------------------------------------
(* Properties.                                                             *)

(* A run is reported successful - in the database, in the cache or on the
   event bus - only if every step of its workflow really answered with
   success, whatever crashes, stale copies and cancellations came between:
   resuming (engine.py, _execute and _dispatch_step) never leaves a step out. *)
SuccessIsEarned ==
    \A r \in Runs :
        "success" \in {db[r].status, cache[r].status} \cup announced[r] => done[r] = Steps

(* The action of a step is called only after every earlier step of the chain
   has succeeded, also when the run resumes in the middle. *)
CallsFollowOrder ==
    \A r \in Runs, s \in Steps : calls[r][s] > 0 => 1..(s - 1) \subseteq done[r]

(* A step is called once, and once more for each time the process stopped:
   the recovery repeats a step at most once per restart. *)
CallsBounded ==
    \A r \in Runs, s \in Steps : calls[r][s] <= 1 + stops

Owned(r) == held = r \/ \E i \in 1..Len(queue) : queue[i] = r

(* While the plugin is up, a run the database shows RUNNING is being executed
   or is queued for it: the recovery at start-up forgets none, and no path of
   the worker drops one as long as the store answers. *)
RunningIsOwned ==
    host = "up" /\ faults = 0 => \A r \in Runs : db[r].status = "running" => Owned(r)

(* What was published about a run is what the database shows of it, and never
   two outcomes.  The one exception is the code's own: workflow.success goes
   out from within the try of _execute, so an unload that comes before the
   event has been delivered marks the run CANCELLED all the same. *)
AnnouncementIsTrue ==
    \A r \in Runs : \A e \in announced[r] :
        \/ db[r].status = e
        \/ e = "success" /\ db[r].status = "cancelled" /\ stops > 0

(* A success that has reached the database stands: the step is not called
   again and stays marked, although the row does not tell where the run had
   come to.  A success that is still to be saved may be repeated. *)
CommittedNotRedone ==
    [][\A r \in Runs, s \in Steps :
          db[r].steps[s] = "success" =>
              db'[r].steps[s] = "success" /\ calls'[r][s] = calls[r][s]]_vars

(* A step that was SUCCESS before a resumption began is skipped by it
   (_dispatch_step): once the database shows it, it is never called again. *)
ResumptionSkips ==
    \A r \in Runs, s \in Steps, n \in 1..(1 + MaxStops) :
        [](db[r].steps[s] = "success" /\ calls[r][s] = n => [](calls[r][s] = n))

(* A run that has ended is not reopened. *)
EndedNotReopened ==
    [][\A r \in Runs : db[r].status \in Terminal => db'[r].status \in Terminal]_vars

(* No step of a run the database shows CANCELLED is started. *)
CancelledStops ==
    [][\A r \in Runs : db[r].status = "cancelled" => calls'[r] = calls[r]]_vars

(* A run that was started ends, through every restart; one that was accepted
   ends too, unless the process stops before it was started. *)
RunsEnd ==
    \A r \in Runs :
        /\ db[r].status = "running" ~> db[r].status \in Terminal
        /\ trig[r] = "accepted" /\ stops = 0 ~> db[r].status \in Terminal \/ stops > 0

-----------------------------------------------------------------------------
(* Why success is earned: every copy of a run, however old and wherever it
   is, tells the truth about the steps it shows done. *)

(* A copy, when doneSteps is the set of the steps that have been done. *)
Truthful(copy, doneSteps) ==
    /\ \A s \in Steps : copy.steps[s] = "success" => s \in doneSteps
    /\ copy.cur # 0 => 1..(copy.cur - 1) \subseteq doneSteps
    /\ copy.status = "success" => doneSteps = Steps

(* The worker has a copy in hand, is walking the chain with it. *)
Loaded == wpc \notin {"poll", "popped", "stopped"}
Walking == InAction \/ wpc \in {"walk", "dispatch", "invoke", "succeeded", "announced"}

StoreTruthful == \A r \in Runs : Truthful(db[r], done[r]) /\ Truthful(cache[r], done[r])

ClientsTruthful ==
    \A c \in Clients : client[c].pc # "idle" => Truthful(client[c].copy, done[client[c].run])

WorkerTruthful ==
    /\ flush => Loaded
    /\ Loaded => Truthful(mem, done[held])
    /\ Walking => 1..(at - 1) \subseteq done[held] /\ skip \subseteq done[held]
    /\ wpc = "answered" => at \in done[held]
    /\ wpc \in {"succeeded", "announced"} => done[held] = Steps

EventsTruthful == \A r \in Runs : "success" \in announced[r] => done[r] = Steps

(* No copy that the recovery, a reader or a cancellation may bring back
   claims more than what has been done, and the worker has everything before
   its current step behind it. *)
NothingClaimedEarly ==
    StoreTruthful /\ ClientsTruthful /\ WorkerTruthful /\ EventsTruthful /\ CallsFollowOrder

-----------------------------------------------------------------------------
(* The database row of a run, read through every crash, resumption and race,
   behaves as the contract says. *)
Contract == INSTANCE RunContract WITH status <- [r \in Runs |-> db[r].status], done <- done

(* Every step of the component is a step of the contract or changes nothing
   it speaks of. *)
ImplementsContract == Contract!Spec

=============================================================================

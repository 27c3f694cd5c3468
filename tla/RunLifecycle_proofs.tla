------------------------ MODULE RunLifecycle_proofs ------------------------
(* Proofs about RunLifecycle, for any set of runs and clients, any length   *)
(* of chain, with or without Redis and under any number of crashes,         *)
(* requests and faults.                                                     *)
EXTENDS RunLifecycle, FiniteSetTheorems, FunctionTheorems, TLAPS

USE DEF Steps, InAction

(* The absent run is a copy. *)
LEMMA NoCopyType == NoCopy \in Copy
BY NStepsAssumption DEF NoCopy, Copy, Status, StepStatus

(* A new run is a copy. *)
LEMMA NewRunType == \A a \in BOOLEAN : NewRun(a) \in Copy
BY NoCopyType, NStepsAssumption DEF NewRun, NoCopy, Copy, Status, StepStatus

(* What save_run leaves in the database is a copy. *)
LEMMA RowType == \A row, copy \in Copy : RowAfter(row, copy) \in Copy
<1> SUFFICES ASSUME NEW row \in Copy, NEW copy \in Copy
             PROVE  RowAfter(row, copy) \in Copy
  OBVIOUS
<1> DEFINE merged == [s \in Steps |-> IF copy.steps[s] = "none" THEN row.steps[s]
                                                                ELSE copy.steps[s]]
<1>1. merged \in [Steps -> StepStatus]
  BY DEF Copy
<1>2. [copy EXCEPT !.cur = 0, !.steps = merged] \in Copy
  <2>1. 0 \in 0..NSteps
    BY NStepsAssumption
  <2> HIDE DEF merged
  <2> QED BY <1>1, <2>1 DEF Copy
<1> QED BY <1>2 DEF RowAfter

(* The assignments of the engine to its object keep its type. *)
LEMMA UpdateType ==
    ASSUME NEW copy \in Copy
    PROVE  /\ \A st \in Status : [copy EXCEPT !.status = st] \in Copy
           /\ \A cur \in 0..NSteps : [copy EXCEPT !.cur = cur] \in Copy
           /\ \A s \in Steps, st \in StepStatus : [copy EXCEPT !.steps[s] = st] \in Copy
BY DEF Copy

(* A commit keeps the type of the rows. *)
LEMMA CommitType ==
    ASSUME TypeOK, NEW r \in Runs, NEW copy \in Copy, Commit(r, copy)
    PROVE  db' \in [Runs -> Copy]
BY RowType DEF TypeOK, Commit

(* A cache.set keeps the type of the cache. *)
LEMMA SetCacheType ==
    ASSUME TypeOK, NEW r \in Runs, NEW copy \in Copy, SetCache(r, copy)
    PROVE  cache' \in [Runs -> Copy]
BY RedisAssumption DEF TypeOK, SetCache

(* The worker without a run. *)
LEMMA IdleType ==
    ASSUME NEW pc \in {"poll", "stopped"}, Idle(pc)
    PROVE  WorkerTypeOK'
<1>1. 1 \in 1..(NSteps + 1)
  BY NStepsAssumption
<1>2. /\ wpc' = pc /\ held' = NoRun /\ mem' = NoCopy
      /\ at' = 1 /\ skip' = {} /\ flush' = FALSE
  BY DEF Idle
<1> QED BY <1>1, <1>2, NoCopyType DEF WorkerTypeOK, WorkerState

(* The worker after an exception of the store. *)
LEMMA AbortType ==
    ASSUME TypeOK, held \in Runs, NEW copy \in Copy, NEW pc, Abort(copy, pc)
    PROVE  WorkerTypeOK' /\ faults' \in Nat
<1>1. faults' \in Nat
  BY DEF TypeOK, Abort
<1>2. CASE Handler(pc) = "poll"
  BY <1>1, <1>2, IdleType DEF Abort
<1>3. CASE Handler(pc) # "poll"
  BY <1>1, <1>3 DEF TypeOK, WorkerTypeOK, Abort, WorkerState
<1> QED BY <1>2, <1>3

(* The worker after a save_run, or its exception. *)
LEMMA PersistType ==
    ASSUME TypeOK, held \in Runs, NEW copy \in Copy,
           NEW pc \in WorkerState \ {"poll", "stopped"}, NEW next \in 1..(NSteps + 1),
           pc \in {"dispatch", "invoke", "calling", "answered", "refused"} => next \in Steps,
           Persist(copy, pc, next)
    PROVE  WorkerTypeOK' /\ faults' \in Nat /\ db' \in [Runs -> Copy]
<1>1. CASE Commit(held, copy) /\ mem' = copy /\ flush' = TRUE /\ wpc' = pc /\ at' = next
           /\ UNCHANGED <<held, skip, faults>>
  BY <1>1, CommitType DEF TypeOK, WorkerTypeOK
<1>2. CASE Abort(copy, pc) /\ UNCHANGED db
  BY <1>2, AbortType DEF TypeOK
<1> QED BY <1>1, <1>2 DEF Persist

(* Every action keeps the types: one step per action. *)
LEMMA TypeStep == TypeOK /\ [Next]_vars => TypeOK'
<1> SUFFICES ASSUME TypeOK, [Next]_vars PROVE TypeOK'
  OBVIOUS
<1> USE NStepsAssumption
<1>1. ASSUME NEW r \in Runs, Trigger(r) PROVE TypeOK'
  <2>1. CASE InitRun(r)
    BY <2>1, NewRunType, CommitType
      DEF TypeOK, WorkerTypeOK, InitRun, TriggerState, triggerFrame, workerVars, historyVars
  <2>2. CASE CacheNewRun(r)
    BY <2>2, NewRunType, SetCacheType
      DEF TypeOK, WorkerTypeOK, CacheNewRun, TriggerState, triggerFrame, workerVars, historyVars
  <2>3. CASE RecordActor(r)
    BY <2>3, NewRunType, CommitType
      DEF TypeOK, WorkerTypeOK, RecordActor, TriggerState, triggerFrame, workerVars, historyVars
  <2>4. CASE CacheActor(r)
    BY <2>4, NewRunType, SetCacheType
      DEF TypeOK, WorkerTypeOK, CacheActor, TriggerState, triggerFrame, workerVars, historyVars
  <2>5. CASE EnqueueRun(r)
    BY <2>5 DEF TypeOK, WorkerTypeOK, EnqueueRun, TriggerState, triggerFrame, workerVars, historyVars
  <2> QED BY <1>1, <2>1, <2>2, <2>3, <2>4, <2>5 DEF Trigger
<1>2. ASSUME NEW r \in Runs, TriggerRaises(r) PROVE TypeOK'
  BY <1>2
    DEF TypeOK, WorkerTypeOK, TriggerRaises, TriggerState, triggerFrame, workerVars, historyVars,
        dataVars
<1>3. ASSUME NEW r \in Runs, Expire(r) PROVE TypeOK'
  BY <1>3, NoCopyType DEF TypeOK, WorkerTypeOK, Expire, workerVars, historyVars, boundVars
<1>4. ASSUME NEW c \in Clients, NEW r \in Runs, NEW cancel \in BOOLEAN, Ask(c, r, cancel) PROVE TypeOK'
  <2> DEFINE q == [pc |-> IF InCache(r) THEN "got" ELSE "fill", run |-> r,
                   cancel |-> cancel, copy |-> Stored(r)]
  <2>1. q \in Request /\ q.run \in Runs
    BY DEF TypeOK, Stored, Request
  <2>2. client' = [client EXCEPT ![c] = q]
    BY <1>4 DEF Ask
  <2> HIDE DEF q
  <2>3. client' \in [Clients -> Request] /\ \A d \in Clients : client'[d].pc # "idle" => client'[d].run \in Runs
    BY <2>1, <2>2 DEF TypeOK
  <2> QED BY <1>4, <2>3 DEF Ask, TypeOK, WorkerTypeOK, clientFrame, workerVars, historyVars
<1>5. ASSUME NEW c \in Clients, Fill(c) PROVE TypeOK'
  <2>1. client[c] \in Request /\ client[c].run \in Runs
    BY <1>5 DEF TypeOK, Fill
  <2>2. cache' \in [Runs -> Copy]
    BY <1>5, <2>1, SetCacheType DEF TypeOK, Fill, Request
  <2> DEFINE x == IF client[c].cancel THEN [client[c] EXCEPT !.pc = "got"] ELSE NoRequest
  <2>3. x \in Request /\ (x.pc # "idle" => x.run \in Runs)
    BY <2>1, NoCopyType DEF Request, NoRequest
  <2>4. client' = [client EXCEPT ![c] = x]
    BY <1>5 DEF Fill
  <2> HIDE DEF x
  <2>5. client' \in [Clients -> Request] /\ \A d \in Clients : client'[d].pc # "idle" => client'[d].run \in Runs
    BY <2>3, <2>4 DEF TypeOK
  <2> QED BY <1>5, <2>2, <2>5 DEF TypeOK, WorkerTypeOK, clientFrame, workerVars, historyVars, Fill
<1>6. ASSUME NEW c \in Clients, CancelRun(c) PROVE TypeOK'
  <2> DEFINE copy == [client[c].copy EXCEPT !.status = "cancelled"]
  <2>1. client[c].run \in Runs /\ copy \in Copy
    BY <1>6, UpdateType DEF TypeOK, CancelRun, Request, Status
  <2>2. Commit(client[c].run, copy) /\ client' = [client EXCEPT ![c] = [@ EXCEPT !.pc = "flush", !.copy = copy]]
    BY <1>6 DEF CancelRun
  <2> HIDE DEF copy
  <2>3. db' \in [Runs -> Copy]
    BY <2>1, <2>2, CommitType
  <2>4. client'[c] = [client[c] EXCEPT !.pc = "flush", !.copy = copy]
    BY <2>2 DEF TypeOK
  <2>5. client'[c] \in Request /\ client'[c].run = client[c].run
    <3>1. client[c] \in Request
      BY DEF TypeOK
    <3>2. \A q \in Request : [q EXCEPT !.pc = "flush", !.copy = copy] \in Request
                              /\ [q EXCEPT !.pc = "flush", !.copy = copy].run = q.run
      BY <2>1 DEF Request
    <3> QED BY <2>4, <3>1, <3>2
  <2>6. \A d \in Clients : d # c => client'[d] = client[d]
    BY <2>2 DEF TypeOK
  <2>7. client' \in [Clients -> Request]
    BY <2>2, <2>5, <2>6 DEF TypeOK
  <2>8. \A d \in Clients : client'[d].pc # "idle" => client'[d].run \in Runs
    BY <2>1, <2>5, <2>6 DEF TypeOK
  <2> QED BY <1>6, <2>3, <2>7, <2>8 DEF TypeOK, WorkerTypeOK, clientFrame, workerVars, historyVars, CancelRun
<1>7. ASSUME NEW c \in Clients, CacheCancelled(c) PROVE TypeOK'
  BY <1>7, NoCopyType, SetCacheType
    DEF TypeOK, WorkerTypeOK, clientFrame, workerVars, historyVars, CacheCancelled, NoRequest,
        Request
<1>8. ASSUME NEW c \in Clients, ClientRaises(c) PROVE TypeOK'
  BY <1>8, NoCopyType
    DEF TypeOK, WorkerTypeOK, clientFrame, workerVars, historyVars, ClientRaises, NoRequest, Request
<1>9. CASE Flush
  <2>1. held \in Runs
    BY <1>9 DEF Flush, TypeOK, WorkerTypeOK
  <2>2. CASE SetCache(held, mem) /\ flush' = FALSE /\ UNCHANGED <<wpc, held, mem, at, skip, faults>>
    BY <1>9, <2>1, <2>2, SetCacheType DEF Flush, TypeOK, WorkerTypeOK, workerFrame, historyVars
  <2>3. CASE Abort(mem, wpc) /\ UNCHANGED cache
    <3>1. WorkerTypeOK' /\ faults' \in Nat
      BY <2>1, <2>3, AbortType DEF TypeOK, WorkerTypeOK
    <3> QED BY <1>9, <2>3, <3>1 DEF Flush, TypeOK, workerFrame, historyVars
  <2> QED BY <1>9, <2>2, <2>3 DEF Flush
<1>10. CASE Pop
  <2>1. Head(queue) \in Runs /\ Tail(queue) \in Seq(Runs)
    BY <1>10 DEF Pop, TypeOK
  <2> QED BY <1>10, <2>1 DEF Pop, TypeOK, WorkerTypeOK, WorkerState, workerFrame, historyVars
<1>11. CASE Load
  BY <1>11 DEF Load, Stored, TypeOK, WorkerTypeOK, WorkerState, dataVars, workerFrame, historyVars
<1>12. CASE Execute
  <2>1. /\ wpc = "started" /\ wpc' = "walk" /\ skip' = ResumedSuccess(mem) /\ at' = StartAt(mem)
        /\ UNCHANGED <<db, cache, queue, held, mem, flush, calls, done, announced, faults, host, resume, trig, client, stops, asks>>
    BY <1>12 DEF Execute, dataVars, workerFrame, historyVars
  <2>2. ResumedSuccess(mem) \subseteq Steps /\ mem.cur \in 0..NSteps
    BY DEF TypeOK, WorkerTypeOK, ResumedSuccess, Copy
  <2>3. StartAt(mem) \in 1..(NSteps + 1)
    BY <2>2, NStepsAssumption DEF StartAt
  <2>4. WorkerTypeOK'
    BY <2>1, <2>2, <2>3 DEF TypeOK, WorkerTypeOK, WorkerState
  <2> QED BY <2>1, <2>4 DEF TypeOK
<1>13. CASE SkipStep
  BY <1>13 DEF SkipStep, TypeOK, WorkerTypeOK, WorkerState, dataVars, workerFrame, historyVars
<1>14. CASE Invoke
  BY <1>14 DEF Invoke, TypeOK, WorkerTypeOK, WorkerState, dataVars, workerFrame, historyVars
<1>15. CASE Finish
  BY <1>15, IdleType DEF Finish, FinalEvent, Publish, TypeOK, WorkerTypeOK, dataVars, workerFrame, historyVars
<1>16. CASE Begin
  <2>1. held \in Runs /\ [mem EXCEPT !.status = "running"] \in Copy
    BY <1>16, UpdateType DEF TypeOK, WorkerTypeOK, Begin, Status, StepStatus
  <2>2. WorkerTypeOK' /\ faults' \in Nat /\ db' \in [Runs -> Copy]
    BY <1>16, <2>1, PersistType DEF TypeOK, WorkerTypeOK, Begin, WorkerState
  <2> QED BY <1>16, <2>2 DEF TypeOK, Begin, workerFrame, historyVars
<1>17. CASE EnterStep
  <2>0. at \in 0..NSteps
    BY <1>17 DEF EnterStep
  <2>1. held \in Runs /\ [mem EXCEPT !.cur = at] \in Copy
    BY <1>17, <2>0, UpdateType DEF TypeOK, WorkerTypeOK, EnterStep
  <2>2. WorkerTypeOK' /\ faults' \in Nat /\ db' \in [Runs -> Copy]
    BY <1>17, <2>1, PersistType DEF TypeOK, WorkerTypeOK, EnterStep, WorkerState
  <2> QED BY <1>17, <2>2 DEF TypeOK, EnterStep, workerFrame, historyVars
<1>18. CASE StartStep
  <2>1. held \in Runs /\ [mem EXCEPT !.steps[at] = "running"] \in Copy
    BY <1>18, UpdateType DEF TypeOK, WorkerTypeOK, StartStep, Status, StepStatus
  <2>2. WorkerTypeOK' /\ faults' \in Nat /\ db' \in [Runs -> Copy]
    BY <1>18, <2>1, PersistType DEF TypeOK, WorkerTypeOK, StartStep, WorkerState
  <2> QED BY <1>18, <2>2 DEF TypeOK, StartStep, workerFrame, historyVars
<1>19. ASSUME NEW st \in StepStatus, NEW pc \in {"answered", "refused"}, Answer(st, pc)
       PROVE  /\ held \in Runs /\ at \in Steps /\ WorkerTypeOK'
              /\ UNCHANGED <<db, cache, queue, host, resume, trig, client, calls, announced, stops, asks, faults>>
  <2>1. held \in Runs /\ at \in Steps /\ [mem EXCEPT !.steps[at] = st] \in Copy
    BY <1>19, UpdateType DEF TypeOK, WorkerTypeOK, Answer
  <2> QED BY <1>19, <2>1 DEF TypeOK, WorkerTypeOK, WorkerState, Answer, dataVars, workerFrame
<1>20. CASE CallSucceeds \/ CallFails
  <2>1. CASE CallSucceeds
    <3>1. Answer("success", "answered") /\ done' = [done EXCEPT ![held] = @ \cup {at}]
      BY <2>1 DEF CallSucceeds
    <3> QED BY <1>19, <3>1 DEF TypeOK, StepStatus
  <2>2. CASE CallFails
    <3>1. Answer("failed", "refused") /\ UNCHANGED done
      BY <2>2 DEF CallFails
    <3> QED BY <1>19, <3>1 DEF TypeOK, StepStatus
  <2> QED BY <1>20, <2>1, <2>2
<1>30. CASE SettleStep \/ Unwind
  <2>1. held \in Runs /\ mem \in Copy /\ at \in 1..(NSteps + 1)
    BY <1>30 DEF TypeOK, WorkerTypeOK, SettleStep, Unwind
  <2>2. WorkerTypeOK' /\ faults' \in Nat /\ db' \in [Runs -> Copy]
    <3>1. CASE wpc = "answered" /\ Persist(mem, "walk", at + 1)
      <4>1. at + 1 \in 1..(NSteps + 1)
        BY <3>1 DEF TypeOK, WorkerTypeOK
      <4> QED BY <2>1, <3>1, <4>1, PersistType DEF WorkerState
    <3>2. CASE \E pc \in {"fail", "expired", "unloaded"} : Persist(mem, pc, at)
      BY <2>1, <3>2, PersistType DEF WorkerState
    <3> QED BY <1>30, <3>1, <3>2 DEF SettleStep, Unwind
  <2> QED BY <1>30, <2>2 DEF TypeOK, SettleStep, Unwind, workerFrame, historyVars
<1>31. CASE EndCutShort
  <2>1. held \in Runs /\ at \in 1..(NSteps + 1)
        /\ \A st \in {"failed", "cancelled"} : [mem EXCEPT !.status = st] \in Copy
    BY <1>31, UpdateType DEF TypeOK, WorkerTypeOK, EndCutShort, Status
  <2>2. WorkerTypeOK' /\ faults' \in Nat /\ db' \in [Runs -> Copy]
    BY <1>31, <2>1, PersistType DEF EndCutShort, WorkerState
  <2> QED BY <1>31, <2>2 DEF TypeOK, EndCutShort, workerFrame, historyVars
<1>32. CASE Announce
  BY <1>32 DEF Announce, FinalEvent, Publish, TypeOK, WorkerTypeOK, WorkerState, dataVars, workerFrame
<1>21. CASE Succeed
  <2>1. held \in Runs /\ [mem EXCEPT !.status = "success"] \in Copy
    BY <1>21, UpdateType DEF TypeOK, WorkerTypeOK, Succeed, Status, StepStatus
  <2>2. WorkerTypeOK' /\ faults' \in Nat /\ db' \in [Runs -> Copy]
    BY <1>21, <2>1, PersistType DEF TypeOK, WorkerTypeOK, Succeed, WorkerState
  <2> QED BY <1>21, <2>2 DEF TypeOK, Succeed, workerFrame, historyVars
<1>22. CASE Fail
  <2>1. held \in Runs /\ [mem EXCEPT !.status = "failed"] \in Copy
    BY <1>22, UpdateType DEF TypeOK, WorkerTypeOK, Fail, Status, StepStatus
  <2>2. WorkerTypeOK' /\ faults' \in Nat /\ db' \in [Runs -> Copy]
    BY <1>22, <2>1, PersistType DEF TypeOK, WorkerTypeOK, Fail, WorkerState
  <2> QED BY <1>22, <2>2 DEF TypeOK, Fail, workerFrame, historyVars
<1>23. CASE Timeout
  BY <1>23 DEF Timeout, CutShort, TypeOK, WorkerTypeOK, WorkerState, dataVars, workerFrame, historyVars
<1>24. ASSUME Die, UNCHANGED stops \/ stops' = stops + 1 PROVE TypeOK'
  <2>1. queue' \in Seq(Runs)
    BY <1>24 DEF Die, TypeOK
  <2> QED BY <1>24, <2>1, IdleType, NoCopyType DEF Die, TypeOK, TriggerState, NoRequest, Request, historyVars
<1>25. CASE Unload
  <2>1. CASE InTry /\ CutShort("unloading", "unloaded") /\ UNCHANGED <<held, mem, at, skip>>
    <3>1. WorkerTypeOK'
      BY <2>1 DEF InTry, CutShort, TypeOK, WorkerTypeOK, WorkerState
    <3> QED BY <1>25, <3>1 DEF Unload, TypeOK, dataVars, historyVars
  <2>2. CASE Idle("stopped")
    BY <1>25, <2>2, IdleType DEF Unload, TypeOK, dataVars, historyVars
  <2> QED BY <1>25, <2>1, <2>2 DEF Unload
<1>26. CASE Boot
  <2>1. CASE OnLoad
    BY <2>1 DEF OnLoad, CrashedRuns, TypeOK, WorkerTypeOK, bootFrame, workerVars, historyVars, boundVars
  <2>2. ASSUME NEW r \in Runs, ResumeRun(r) PROVE TypeOK'
    <3>1. queue' \in Seq(Runs) /\ resume' \subseteq Runs /\ UNCHANGED <<host, bootFrame>>
      BY <2>2 DEF ResumeRun, TypeOK
    <3> QED BY <3>1 DEF TypeOK, WorkerTypeOK, bootFrame, workerVars, historyVars, boundVars
  <2>3. CASE StartWorker
    BY <2>3 DEF StartWorker, TypeOK, WorkerTypeOK, bootFrame, workerVars, historyVars, boundVars
  <2> QED BY <1>26, <2>1, <2>2, <2>3 DEF Boot
<1>27. CASE UNCHANGED vars
  BY <1>27 DEF TypeOK, WorkerTypeOK, vars, dataVars, workerVars, historyVars, boundVars
<1>28. CASE Worker
  BY <1>28, <1>9, <1>10, <1>11, <1>12, <1>13, <1>14, <1>15, <1>16, <1>17, <1>18, <1>20, <1>21, <1>22,
      <1>30, <1>31, <1>32
    DEF Worker
<1>29. CASE Crash \/ Stop
  BY <1>29, <1>24 DEF Crash, Stop
<1> QED
  BY <1>1, <1>2, <1>3, <1>4, <1>5, <1>6, <1>7, <1>8, <1>23, <1>25, <1>26, <1>27, <1>28, <1>29
  DEF Next, Client, Quiet

(* The types hold at first. *)
LEMMA InitType == Init => TypeOK
<1> SUFFICES ASSUME Init PROVE TypeOK
  OBVIOUS
<1>1. WorkerTypeOK
  <2>1. 1 \in 1..(NSteps + 1)
    BY NStepsAssumption
  <2>2. wpc = "poll" /\ held = NoRun /\ mem = NoCopy /\ at = 1 /\ skip = {} /\ flush = FALSE
    BY DEF Init
  <2> QED BY <2>1, <2>2, NoCopyType DEF WorkerTypeOK, WorkerState
<1>2. queue \in Seq(Runs)
  BY DEF Init
<1> QED BY <1>1, <1>2, NoCopyType DEF Init, TypeOK, TriggerState, NoRequest, Request

(* The types hold in every behaviour of the component. *)
THEOREM TypeCorrect == Spec => []TypeOK
BY InitType, TypeStep, PTL DEF Spec

-----------------------------------------------------------------------------
(* Truthful copies: what the operations on copies keep.                     *)

(* A run that shows nothing done is truthful. *)
LEMMA TruthfulNew ==
    \A d : Truthful(NoCopy, d) /\ \A a \in BOOLEAN : Truthful(NewRun(a), d)
BY DEF Truthful, NoCopy, NewRun

(* A truthful copy stays so when more is done: stale copies do no harm. *)
LEMMA TruthfulGrows ==
    ASSUME NEW d, NEW e \in SUBSET Steps, d \subseteq e, NEW copy, Truthful(copy, d)
    PROVE  Truthful(copy, e)
BY DEF Truthful

(* Merging a truthful copy, however old, into a truthful row. *)
LEMMA TruthfulRow ==
    ASSUME NEW d, NEW row \in Copy, NEW copy \in Copy, Truthful(row, d), Truthful(copy, d)
    PROVE  Truthful(RowAfter(row, copy), d)
<1> DEFINE after == RowAfter(row, copy)
<1>1. after.cur = 0 /\ after.status = copy.status
  BY DEF RowAfter, Copy
<1>2. \A s \in Steps : after.steps[s] \in {copy.steps[s], row.steps[s]}
  BY DEF RowAfter, Copy
<1> QED BY <1>1, <1>2 DEF Truthful

(* What the engine may assign to a truthful copy. *)
LEMMA TruthfulUpdate ==
    ASSUME NEW d, NEW copy \in Copy, Truthful(copy, d)
    PROVE  /\ \A st : (st = "success" => d = Steps) => Truthful([copy EXCEPT !.status = st], d)
           /\ \A cur \in 1..NSteps :
                 1..(cur - 1) \subseteq d => Truthful([copy EXCEPT !.cur = cur], d)
           /\ \A s \in Steps : \A st :
                 (st = "success" => s \in d) => Truthful([copy EXCEPT !.steps[s] = st], d)
BY DEF Truthful, Copy

(* Rows after a commit. *)
LEMMA CommitTruthful ==
    ASSUME TypeOK, NEW r \in Runs, NEW copy \in Copy, Commit(r, copy),
           \A q \in Runs : Truthful(db[q], done'[q]), Truthful(copy, done'[r])
    PROVE  \A q \in Runs : Truthful(db'[q], done'[q])
<1>1. db' = [db EXCEPT ![r] = RowAfter(db[r], copy)]
  BY DEF Commit
<1>2. db \in [Runs -> Copy]
  BY DEF TypeOK
<1>3. Truthful(RowAfter(db[r], copy), done'[r])
  BY <1>2, TruthfulRow
<1> QED BY <1>1, <1>2, <1>3

(* Cached copies after a cache.set. *)
LEMMA SetCacheTruthful ==
    ASSUME TypeOK, NEW r \in Runs, NEW copy, SetCache(r, copy),
           \A q \in Runs : Truthful(cache[q], done'[q]), Truthful(copy, done'[r])
    PROVE  \A q \in Runs : Truthful(cache'[q], done'[q])
BY DEF TypeOK, SetCache

(* The worker without a run. *)
LEMMA IdleTruthful ==
    ASSUME NEW pc \in {"poll", "stopped"}, Idle(pc)
    PROVE  WorkerTruthful'
BY DEF Idle, WorkerTruthful, Loaded, Walking

(* The worker after an exception of the store. *)
LEMMA AbortTruthful ==
    ASSUME NEW copy, NEW pc, Abort(copy, pc), Truthful(copy, done'[held])
    PROVE  WorkerTruthful'
<1>1. CASE Handler(pc) = "poll"
  BY <1>1, IdleTruthful DEF Abort
<1>2. CASE Handler(pc) # "poll"
  BY <1>2 DEF Abort, WorkerTruthful, Loaded, Walking
<1> QED BY <1>1, <1>2

(* The worker and the rows after a save_run, or its exception. *)
LEMMA PersistTruthful ==
    ASSUME TypeOK, held \in Runs, NEW copy \in Copy,
           NEW pc \in WorkerState \ {"poll", "popped", "answered", "stopped"}, NEW next,
           Persist(copy, pc, next),
           \A r \in Runs : Truthful(db[r], done'[r]), Truthful(copy, done'[held]),
           pc \in {"walk", "dispatch", "invoke", "calling", "refused", "succeeded", "announced"} =>
               1..(next - 1) \subseteq done'[held] /\ skip \subseteq done'[held],
           pc \in {"succeeded", "announced"} => done'[held] = Steps
    PROVE  (\A r \in Runs : Truthful(db'[r], done'[r])) /\ WorkerTruthful'
<1>1. CASE Commit(held, copy) /\ mem' = copy /\ flush' = TRUE /\ wpc' = pc /\ at' = next
           /\ UNCHANGED <<held, skip, faults>>
  <2>1. \A r \in Runs : Truthful(db'[r], done'[r])
    BY <1>1, CommitTruthful
  <2>2. WorkerTruthful'
    BY <1>1 DEF WorkerTruthful, Loaded, Walking, WorkerState
  <2> QED BY <2>1, <2>2
<1>2. CASE Abort(copy, pc) /\ UNCHANGED db
  BY <1>2, AbortTruthful
<1> QED BY <1>1, <1>2 DEF Persist

-----------------------------------------------------------------------------
(* The steps of the component keep NothingClaimedEarly.                     *)

IInv == TypeOK /\ NothingClaimedEarly

(* Triggers write a run that has done nothing yet. *)
LEMMA TriggerTruthful ==
    ASSUME IInv, NEW r \in Runs, Trigger(r) \/ TriggerRaises(r) \/ Expire(r)
    PROVE  NothingClaimedEarly'
<1> USE DEF IInv, NothingClaimedEarly
<1>1. UNCHANGED <<client, workerVars, historyVars>>
  BY DEF Trigger, InitRun, CacheNewRun, RecordActor, CacheActor, EnqueueRun, TriggerRaises, Expire, triggerFrame
<1>2. StoreTruthful'
  <2>1. CASE InitRun(r) \/ RecordActor(r)
    BY <2>1, <1>1, CommitTruthful, TruthfulNew, NewRunType
    DEF InitRun, RecordActor, triggerFrame, StoreTruthful, historyVars
  <2>2. CASE CacheNewRun(r) \/ CacheActor(r)
    BY <2>2, <1>1, SetCacheTruthful, TruthfulNew
    DEF CacheNewRun, CacheActor, triggerFrame, StoreTruthful, historyVars
  <2>3. CASE EnqueueRun(r) \/ TriggerRaises(r)
    BY <2>3, <1>1 DEF EnqueueRun, TriggerRaises, dataVars, StoreTruthful, historyVars
  <2>4. CASE Expire(r)
    BY <2>4, <1>1, TruthfulNew DEF TypeOK, Expire, StoreTruthful, historyVars
  <2> QED BY <2>1, <2>2, <2>3, <2>4 DEF Trigger
<1> QED BY <1>1, <1>2
  DEF ClientsTruthful, WorkerTruthful, Loaded, Walking, EventsTruthful, CallsFollowOrder, workerVars, historyVars

(* Clients write back what they read, or the same copy marked CANCELLED. *)
LEMMA ClientTruthful ==
    ASSUME IInv, NEW c \in Clients,
           (\E r \in Runs, cancel \in BOOLEAN : Ask(c, r, cancel)) \/ Client(c) \/ ClientRaises(c)
    PROVE  NothingClaimedEarly'
<1> USE DEF IInv, NothingClaimedEarly
<1>1. UNCHANGED <<workerVars, historyVars>>
  BY DEF Ask, Client, Fill, CancelRun, CacheCancelled, ClientRaises, clientFrame
<1>2. StoreTruthful' /\ ClientsTruthful'
  <2>1. ASSUME NEW r \in Runs, NEW cancel \in BOOLEAN, Ask(c, r, cancel)
        PROVE  StoreTruthful' /\ ClientsTruthful'
    BY <2>1, <1>1 DEF Ask, Stored, clientFrame, historyVars, StoreTruthful, ClientsTruthful, TypeOK
  <2>2. CASE Fill(c) \/ CacheCancelled(c)
    <3>1. client[c].run \in Runs /\ Truthful(client[c].copy, done[client[c].run])
      BY <2>2 DEF Fill, CacheCancelled, ClientsTruthful, TypeOK
    <3>2. StoreTruthful'
      BY <2>2, <3>1, <1>1, SetCacheTruthful DEF Fill, CacheCancelled, StoreTruthful, historyVars
    <3>3. client'[c].pc = "idle"
          \/ (client'[c].run = client[c].run /\ client'[c].copy = client[c].copy)
      BY <2>2 DEF Fill, CacheCancelled, NoRequest, TypeOK, Request
    <3>4. \A d \in Clients : d # c => client'[d] = client[d]
      BY <2>2 DEF Fill, CacheCancelled, TypeOK
    <3>5. ClientsTruthful'
      BY <3>1, <3>3, <3>4, <1>1 DEF ClientsTruthful, historyVars
    <3> QED BY <3>2, <3>5
  <2>3. CASE CancelRun(c)
    <3> DEFINE copy == [client[c].copy EXCEPT !.status = "cancelled"]
    <3>1. client[c].run \in Runs /\ client[c].copy \in Copy /\ copy \in Copy
      BY <2>3, UpdateType DEF CancelRun, TypeOK, Request, Status
    <3>2. Truthful(copy, done[client[c].run])
      BY <2>3, <3>1, TruthfulUpdate DEF CancelRun, ClientsTruthful
    <3>3. Commit(client[c].run, copy)
          /\ client' = [client EXCEPT ![c] = [@ EXCEPT !.pc = "flush", !.copy = copy]]
          /\ UNCHANGED cache
      BY <2>3 DEF CancelRun
    <3> HIDE DEF copy
    <3>4. StoreTruthful'
      BY <3>1, <3>2, <3>3, <1>1, CommitTruthful DEF StoreTruthful, historyVars
    <3>5. client'[c].run = client[c].run /\ client'[c].copy = copy
          /\ \A d \in Clients : d # c => client'[d] = client[d]
      BY <3>3 DEF TypeOK, Request
    <3>6. ClientsTruthful'
      BY <3>2, <3>5, <1>1 DEF ClientsTruthful, historyVars
    <3> QED BY <3>4, <3>6
  <2>4. CASE ClientRaises(c)
    BY <2>4, <1>1 DEF ClientRaises, NoRequest, StoreTruthful, ClientsTruthful, TypeOK, Request, historyVars
  <2> QED BY <2>1, <2>2, <2>3, <2>4 DEF Client
<1> QED BY <1>1, <1>2
  DEF WorkerTruthful, Loaded, Walking, EventsTruthful, CallsFollowOrder, workerVars, historyVars

(* Every step of the worker: one step per action. *)
LEMMA WorkerTruthfulStep ==
    ASSUME IInv, Worker \/ Timeout
    PROVE  NothingClaimedEarly'
<1> USE DEF IInv, NothingClaimedEarly
<1>0. UNCHANGED client /\ cache \in [Runs -> Copy] /\ db \in [Runs -> Copy]
  BY DEF Worker, Flush, Pop, Load, Begin, Execute, EnterStep, SkipStep, StartStep, Invoke, CallSucceeds,
         CallFails, Answer, SettleStep, Succeed, Announce, Unwind, EndCutShort, Fail, Finish, Timeout,
         workerFrame, TypeOK
(* What holds of a step that saves the worker's object and does no step. *)
<1>1. ASSUME NEW copy \in Copy, NEW pc \in WorkerState \ {"poll", "popped", "answered", "stopped"}, NEW next,
             held \in Runs, Persist(copy, pc, next), UNCHANGED <<cache, historyVars>>,
             Truthful(copy, done[held]),
             pc \in {"walk", "dispatch", "invoke", "calling", "refused", "succeeded", "announced"} =>
                 1..(next - 1) \subseteq done[held] /\ skip \subseteq done[held],
             pc \in {"succeeded", "announced"} => done[held] = Steps
      PROVE  NothingClaimedEarly'
  <2>1. (\A r \in Runs : Truthful(db'[r], done'[r])) /\ WorkerTruthful'
    BY <1>1, PersistTruthful DEF StoreTruthful, historyVars
  <2> QED BY <1>0, <1>1, <2>1
    DEF StoreTruthful, ClientsTruthful, EventsTruthful, CallsFollowOrder, historyVars
(* A step that touches neither store nor history. *)
<1>2. ASSUME UNCHANGED <<db, cache, historyVars>>, WorkerTruthful' PROVE NothingClaimedEarly'
  BY <1>0, <1>2 DEF StoreTruthful, ClientsTruthful, EventsTruthful, CallsFollowOrder, historyVars
<1>3. CASE Flush
  <2>1. held \in Runs /\ Loaded /\ Truthful(mem, done[held])
    BY <1>3 DEF Flush, WorkerTruthful, TypeOK, WorkerTypeOK
  <2>2. CASE SetCache(held, mem) /\ flush' = FALSE /\ UNCHANGED <<wpc, held, mem, at, skip, faults>>
    <3>1. \A r \in Runs : Truthful(cache'[r], done'[r])
      BY <1>3, <2>1, <2>2, SetCacheTruthful DEF Flush, StoreTruthful, historyVars
    <3> QED BY <1>0, <1>3, <2>2, <3>1
      DEF Flush, StoreTruthful, ClientsTruthful, WorkerTruthful, Loaded, Walking, EventsTruthful,
          CallsFollowOrder, historyVars
  <2>3. CASE Abort(mem, wpc) /\ UNCHANGED cache
    <3>1. WorkerTruthful'
      BY <1>3, <2>1, <2>3, AbortTruthful DEF Flush, historyVars
    <3> QED BY <1>2, <1>3, <2>3, <3>1 DEF Flush
  <2> QED BY <1>3, <2>2, <2>3 DEF Flush
<1>4. CASE Pop
  BY <1>2, <1>4 DEF Pop, WorkerTruthful, Loaded, Walking
<1>5. CASE Load
  BY <1>2, <1>5
    DEF Load, Stored, dataVars, historyVars, StoreTruthful, WorkerTruthful, Loaded, Walking,
        TypeOK, WorkerTypeOK
<1>6. CASE Begin
  <2>1. mem \in Copy /\ held \in Runs /\ Truthful(mem, done[held])
    BY <1>6 DEF Begin, TypeOK, WorkerTypeOK, WorkerTruthful, Loaded
  <2> QED BY <1>1, <1>6, <2>1, UpdateType, TruthfulUpdate DEF Begin, Status, WorkerState
<1>7. CASE Execute
  <2>1. mem \in Copy /\ held \in Runs /\ Truthful(mem, done[held])
    BY <1>7 DEF Execute, TypeOK, WorkerTypeOK, WorkerTruthful, Loaded
  <2>2. skip' \subseteq done[held] /\ 1..(at' - 1) \subseteq done[held]
    BY <1>7, <2>1 DEF Execute, ResumedSuccess, StartAt, Truthful
  <2>3. wpc' = "walk" /\ UNCHANGED <<db, cache, historyVars, held, mem, flush>>
    BY <1>7 DEF Execute, dataVars
  <2>4. WorkerTruthful'
    BY <2>1, <2>2, <2>3 DEF historyVars, WorkerTruthful, Loaded, Walking
  <2> QED BY <1>2, <2>3, <2>4
<1>8. CASE EnterStep
  <2>1. mem \in Copy /\ held \in Runs /\ Truthful(mem, done[held]) /\ at \in 1..NSteps
        /\ 1..(at - 1) \subseteq done[held] /\ skip \subseteq done[held]
    BY <1>8 DEF EnterStep, TypeOK, WorkerTypeOK, WorkerTruthful, Loaded, Walking
  <2>2. [mem EXCEPT !.cur = at] \in Copy /\ Truthful([mem EXCEPT !.cur = at], done[held])
    <3>1. at \in 0..NSteps
      BY <2>1
    <3> QED BY <2>1, <3>1, UpdateType, TruthfulUpdate
  <2> QED BY <1>1, <1>8, <2>1, <2>2 DEF EnterStep, WorkerState
<1>9. CASE SkipStep
  <2>0. at \in skip /\ at \in Nat /\ 1..(at - 1) \subseteq done[held] /\ skip \subseteq done[held]
    BY <1>9, NStepsAssumption DEF SkipStep, TypeOK, WorkerTypeOK, WorkerTruthful, Walking
  <2>1. 1..at \subseteq done[held]
    BY <2>0
  <2> QED BY <1>2, <1>9, <2>1, NStepsAssumption
    DEF SkipStep, TypeOK, WorkerTypeOK, WorkerTruthful, Loaded, Walking, dataVars, historyVars
<1>10. CASE StartStep
  <2>1. mem \in Copy /\ held \in Runs /\ Truthful(mem, done[held]) /\ at \in Steps
        /\ 1..(at - 1) \subseteq done[held] /\ skip \subseteq done[held]
    BY <1>10 DEF StartStep, TypeOK, WorkerTypeOK, WorkerTruthful, Loaded, Walking
  <2>2. [mem EXCEPT !.steps[at] = "running"] \in Copy
        /\ Truthful([mem EXCEPT !.steps[at] = "running"], done[held])
    BY <2>1, UpdateType, TruthfulUpdate DEF StepStatus
  <2> QED BY <1>1, <1>10, <2>1, <2>2 DEF StartStep, WorkerState
<1>11. CASE Invoke
  <2>1. held \in Runs /\ at \in Steps /\ 1..(at - 1) \subseteq done[held]
    BY <1>11 DEF Invoke, TypeOK, WorkerTypeOK, WorkerTruthful, Walking
  <2>2. CallsFollowOrder'
    BY <1>11, <2>1 DEF Invoke, CallsFollowOrder, TypeOK
  <2> QED BY <1>0, <1>11, <2>2
    DEF Invoke, dataVars, StoreTruthful, ClientsTruthful, WorkerTruthful, Loaded, Walking, EventsTruthful
(* An answer is in the worker's object first. *)
<1>12. CASE CallSucceeds \/ CallFails
  <2>1. mem \in Copy /\ held \in Runs /\ Truthful(mem, done[held]) /\ at \in Steps
        /\ 1..(at - 1) \subseteq done[held] /\ skip \subseteq done[held]
    BY <1>12 DEF CallSucceeds, CallFails, Answer, TypeOK, WorkerTypeOK, WorkerTruthful, Loaded, Walking
  <2>2. CASE CallFails
    <3>1. Truthful([mem EXCEPT !.steps[at] = "failed"], done[held])
      BY <2>1, TruthfulUpdate
    <3>2. /\ mem' = [mem EXCEPT !.steps[at] = "failed"] /\ wpc' = "refused"
          /\ UNCHANGED <<db, cache, historyVars, held, at, skip, flush>>
      BY <2>2 DEF CallFails, Answer, dataVars, historyVars
    <3>3. WorkerTruthful'
      BY <2>1, <3>1, <3>2 DEF WorkerTruthful, Loaded, Walking, historyVars
    <3> QED BY <1>2, <3>2, <3>3
  <2>3. CASE CallSucceeds
    <3> DEFINE copy == [mem EXCEPT !.steps[at] = "success"]
    <3>1. /\ done' = [done EXCEPT ![held] = @ \cup {at}] /\ UNCHANGED <<db, cache, calls, announced>>
          /\ mem' = copy /\ wpc' = "answered" /\ UNCHANGED <<held, at, skip, flush>>
      BY <2>3 DEF CallSucceeds, Answer, dataVars
    <3>2. \A r \in Runs : done[r] \subseteq done'[r] /\ done'[r] \in SUBSET Steps
      BY <2>1, <3>1 DEF TypeOK
    <3>3. at \in done'[held] /\ done[held] \subseteq done'[held]
      BY <2>1, <3>1 DEF TypeOK
    <3>4. Truthful(copy, done'[held])
      <4>1. Truthful(mem, done'[held])
        BY <2>1, <3>2, TruthfulGrows
      <4> QED BY <2>1, <3>3, <4>1, TruthfulUpdate
    <3>5. StoreTruthful'
      BY <3>1, <3>2, TruthfulGrows DEF StoreTruthful
    <3>6. WorkerTruthful'
      <4> HIDE DEF copy
      <4> QED BY <2>1, <3>1, <3>3, <3>4 DEF WorkerTruthful, Loaded, Walking
    <3>7. ClientsTruthful'
      BY <1>0, <3>2, TruthfulGrows DEF ClientsTruthful, TypeOK, Request
    <3>8. EventsTruthful' /\ CallsFollowOrder'
      BY <3>1, <3>2 DEF EventsTruthful, CallsFollowOrder
    <3> QED BY <3>5, <3>6, <3>7, <3>8
  <2> QED BY <1>12, <2>2, <2>3
(* It is saved after that. *)
<1>16. CASE SettleStep \/ Unwind
  <2>1. mem \in Copy /\ held \in Runs /\ Truthful(mem, done[held])
    BY <1>16 DEF SettleStep, Unwind, TypeOK, WorkerTypeOK, WorkerTruthful, Loaded
  <2>2. CASE wpc = "answered" /\ Persist(mem, "walk", at + 1) /\ UNCHANGED <<cache, historyVars>>
    <3>1. at \in Steps /\ at \in done[held] /\ 1..(at - 1) \subseteq done[held] /\ skip \subseteq done[held]
      BY <2>2 DEF TypeOK, WorkerTypeOK, WorkerTruthful, Walking
    <3>2. (at + 1) - 1 = at /\ 1..at = (1..(at - 1)) \cup {at}
      BY <3>1, NStepsAssumption
    <3> QED BY <1>1, <2>1, <2>2, <3>1, <3>2 DEF WorkerState
  <2>3. CASE (\E pc \in {"fail", "expired", "unloaded"} : Persist(mem, pc, at))
             /\ UNCHANGED <<cache, historyVars>>
    BY <1>1, <2>1, <2>3 DEF WorkerState
  <2> QED BY <1>16, <2>2, <2>3 DEF SettleStep, Unwind
<1>17. CASE EndCutShort
  <2>1. mem \in Copy /\ held \in Runs /\ Truthful(mem, done[held])
    BY <1>17 DEF EndCutShort, TypeOK, WorkerTypeOK, WorkerTruthful, Loaded
  <2>2. \A st \in {"failed", "cancelled"} :
           [mem EXCEPT !.status = st] \in Copy /\ Truthful([mem EXCEPT !.status = st], done[held])
    BY <2>1, UpdateType, TruthfulUpdate DEF Status
  <2> QED BY <1>1, <1>17, <2>1, <2>2 DEF EndCutShort, WorkerState
<1>18. CASE Announce
  <2>1. WorkerTruthful'
    BY <1>18 DEF Announce, Publish, WorkerTruthful, Loaded, Walking
  <2>2. EventsTruthful'
    BY <1>18 DEF Announce, Publish, FinalEvent, EventsTruthful, WorkerTruthful, TypeOK
  <2> QED BY <1>0, <1>18, <2>1, <2>2
    DEF Announce, dataVars, StoreTruthful, ClientsTruthful, CallsFollowOrder
<1>13. CASE Succeed
  <2>1. mem \in Copy /\ held \in Runs /\ Truthful(mem, done[held]) /\ at = NSteps + 1
        /\ 1..(at - 1) \subseteq done[held] /\ skip \subseteq done[held] /\ done[held] \subseteq Steps
    BY <1>13 DEF Succeed, TypeOK, WorkerTypeOK, WorkerTruthful, Loaded, Walking
  <2>2. done[held] = Steps
    <3>1. at - 1 = NSteps
      BY <2>1, NStepsAssumption
    <3> QED BY <2>1, <3>1
  <2> QED BY <1>1, <1>13, <2>1, <2>2, UpdateType, TruthfulUpdate DEF Succeed, Status, WorkerState
<1>14. CASE Fail
  <2>1. mem \in Copy /\ held \in Runs /\ Truthful(mem, done[held])
    BY <1>14 DEF Fail, TypeOK, WorkerTypeOK, WorkerTruthful, Loaded
  <2>2. [mem EXCEPT !.status = "failed"] \in Copy
        /\ Truthful([mem EXCEPT !.status = "failed"], done[held])
    BY <2>1, UpdateType, TruthfulUpdate DEF Status
  <2> QED BY <1>1, <1>14, <2>1, <2>2 DEF Fail, WorkerState
<1>19. CASE Timeout
  <2>1. WorkerTruthful'
    BY <1>19 DEF Timeout, CutShort, WorkerTruthful, Loaded, Walking, historyVars
  <2> QED BY <1>2, <1>19, <2>1 DEF Timeout, dataVars
<1>15. CASE Finish
  <2>1. WorkerTruthful'
    BY <1>15, IdleTruthful DEF Finish
  <2>2. EventsTruthful'
    BY <1>15 DEF Finish, FinalEvent, Publish, EventsTruthful, WorkerTruthful, TypeOK
  <2> QED BY <1>0, <1>15, <2>1, <2>2
    DEF Finish, dataVars, StoreTruthful, ClientsTruthful, CallsFollowOrder
<1> QED BY <1>3, <1>4, <1>5, <1>6, <1>7, <1>8, <1>9, <1>10, <1>11, <1>12, <1>13, <1>14, <1>15,
       <1>16, <1>17, <1>18, <1>19
    DEF Worker

(* The process dies, is unloaded, comes back. *)
LEMMA ProcessTruthful ==
    ASSUME IInv, Crash \/ Unload \/ Stop \/ Boot
    PROVE  NothingClaimedEarly'
<1> USE DEF IInv, NothingClaimedEarly
<1>1. CASE Crash \/ Stop
  <2>1. Die
    BY <1>1 DEF Crash, Stop
  <2>2. WorkerTruthful'
    BY <2>1, IdleTruthful DEF Die
  <2> QED BY <2>1, <2>2
    DEF Die, NoRequest, StoreTruthful, ClientsTruthful, EventsTruthful, CallsFollowOrder, historyVars
<1>2. CASE Unload
  <2>1. UNCHANGED <<db, cache, historyVars>> /\ client' = [c \in Clients |-> client[c]]
    BY <1>2 DEF Unload, dataVars, TypeOK
  <2>2. WorkerTruthful'
    <3>1. CASE InTry /\ CutShort("unloading", "unloaded") /\ UNCHANGED <<held, mem, at, skip>>
      BY <2>1, <3>1 DEF InTry, CutShort, WorkerTruthful, Loaded, Walking, historyVars
    <3>2. CASE Idle("stopped")
      BY <3>2, IdleTruthful
    <3> QED BY <1>2, <3>1, <3>2 DEF Unload
  <2> QED BY <2>1, <2>2
    DEF StoreTruthful, ClientsTruthful, EventsTruthful, CallsFollowOrder, historyVars
<1>3. CASE Boot
  <2>1. UNCHANGED bootFrame
    BY <1>3 DEF Boot, OnLoad, ResumeRun, StartWorker
  <2> QED BY <2>1
    DEF bootFrame, StoreTruthful, ClientsTruthful, WorkerTruthful, Loaded, Walking, EventsTruthful,
        CallsFollowOrder, workerVars, historyVars
<1> QED BY <1>1, <1>2, <1>3

(* Nothing is claimed at first. *)
LEMMA InitTruthful == Init => NothingClaimedEarly
BY TruthfulNew
DEF Init, NothingClaimedEarly, StoreTruthful, ClientsTruthful, WorkerTruthful, Loaded, Walking, EventsTruthful,
    CallsFollowOrder, NoRequest

(* Every action keeps the invariant. *)
LEMMA TruthfulStep == IInv /\ [Next]_vars => NothingClaimedEarly'
<1> SUFFICES ASSUME IInv, [Next]_vars PROVE NothingClaimedEarly'
  OBVIOUS
<1>1. CASE UNCHANGED vars
  BY <1>1
    DEF vars, dataVars, workerVars, historyVars, IInv, NothingClaimedEarly, StoreTruthful,
        ClientsTruthful,
     WorkerTruthful, Loaded, Walking, EventsTruthful, CallsFollowOrder
<1> QED BY <1>1, TriggerTruthful, ClientTruthful, WorkerTruthfulStep, ProcessTruthful DEF Next, Quiet

(* No stored copy of a run ever claims a step that was not done: the
   inductive invariant, in every behaviour of the component. *)
THEOREM TruthfulAlways == Spec => []NothingClaimedEarly
<1>1. Init => IInv
  BY InitType, InitTruthful DEF IInv
<1>2. IInv /\ [Next]_vars => IInv'
  BY TypeStep, TruthfulStep DEF IInv
<1>3. IInv => NothingClaimedEarly
  BY DEF IInv
<1> QED BY <1>1, <1>2, <1>3, PTL DEF Spec

(* A run is called successful only when each of its steps has succeeded, in
   every execution, resumption and race of any number of runs. *)
THEOREM SuccessEarned == Spec => []SuccessIsEarned
<1>1. NothingClaimedEarly => SuccessIsEarned
  BY DEF NothingClaimedEarly, StoreTruthful, EventsTruthful, Truthful, SuccessIsEarned
<1> QED BY <1>1, TruthfulAlways, PTL

(* No action is called before all the steps ahead of it have succeeded. *)
THEOREM OrderKept == Spec => []CallsFollowOrder
<1>1. NothingClaimedEarly => CallsFollowOrder
  BY DEF NothingClaimedEarly
<1> QED BY <1>1, TruthfulAlways, PTL

-----------------------------------------------------------------------------
(* How often a step is called.  Each call of a step uses up one claim on it:  *)
(* the run is still to be enqueued by its trigger, stands in the queue, is to *)
(* be resumed, or is being executed and has not come to the step.  Only a     *)
(* restart, for which the process must have stopped, makes another claim.     *)

One(b) == IF b THEN 1 ELSE 0

Occurs(q, r) == Cardinality({i \in 1..Len(q) : q[i] = r})

(* The execution under way is still to call step s of run r. *)
StillCalls(r, s) ==
    /\ held = r
    /\ \/ wpc \in {"popped", "loaded", "started"}
       \/ wpc \in {"walk", "dispatch", "invoke"} /\ at <= s
       \/ wpc \in {"calling", "answered"} /\ at < s

Claims(r, s) ==
    Occurs(queue, r) + One(trig[r] \notin {"accepted", "lost"}) + One(r \in resume)
    + One(StillCalls(r, s)) + One(host \in {"down", "stopping"})

CallsClaimed == \A r \in Runs, s \in Steps : calls[r][s] + Claims(r, s) <= 1 + stops

(* The positions of a run in a queue are finitely many, none in an empty one. *)
LEMMA OccursFinite ==
    ASSUME NEW q \in Seq(Runs), NEW r
    PROVE  /\ IsFiniteSet({i \in 1..Len(q) : q[i] = r})
           /\ Cardinality({i \in 1..Len(q) : q[i] = r}) \in Nat
<1>1. IsFiniteSet(1..Len(q))
  BY FS_Interval
<1>2. IsFiniteSet({i \in 1..Len(q) : q[i] = r})
  BY <1>1, FS_Subset
<1> QED BY <1>2, FS_CardinalityType

LEMMA OccursNat == \A q \in Seq(Runs), r \in Runs : Occurs(q, r) \in Nat
BY OccursFinite DEF Occurs

LEMMA OccursNone == \A r \in Runs : Occurs(<<>>, r) = 0
<1>1. \A r \in Runs : {i \in 1..Len(<<>>) : <<>>[i] = r} = {}
  OBVIOUS
<1> QED BY <1>1, FS_EmptySet DEF Occurs

(* Appending a run adds one position of it. *)
LEMMA OccursAppend ==
    ASSUME NEW q \in Seq(Runs), NEW x \in Runs, NEW r \in Runs
    PROVE  Occurs(Append(q, x), r) = Occurs(q, r) + One(x = r)
<1> DEFINE before == {i \in 1..Len(q) : q[i] = r}
           after == {i \in 1..Len(Append(q, x)) : Append(q, x)[i] = r}
<1>1. IsFiniteSet(before) /\ Cardinality(before) \in Nat
  BY OccursFinite
<1>2. Len(q) + 1 \notin before
  OBVIOUS
<1>3. after = IF x = r THEN before \cup {Len(q) + 1} ELSE before
  OBVIOUS
<1>4. Cardinality(before \cup {Len(q) + 1}) = Cardinality(before) + 1
  BY <1>1, <1>2, FS_AddElement
<1>5. Cardinality(after) = Cardinality(before) + One(x = r)
  <2> HIDE DEF before, after
  <2> QED BY <1>1, <1>3, <1>4 DEF One
<1> QED BY <1>5 DEF Occurs

(* Taking the head of a queue takes one position of it. *)
LEMMA OccursTail ==
    ASSUME NEW q \in Seq(Runs), q # <<>>, NEW r \in Runs
    PROVE  Occurs(q, r) = Occurs(Tail(q), r) + One(Head(q) = r)
<1> DEFINE later == {i \in 1..Len(Tail(q)) : Tail(q)[i] = r}
           rest == {i \in 2..Len(q) : q[i] = r}
           shift == [i \in later |-> i + 1]
<1>0. /\ Tail(q) \in Seq(Runs) /\ Len(q) \in Nat \ {0} /\ Len(Tail(q)) = Len(q) - 1
      /\ \A i \in 1..Len(Tail(q)) : Tail(q)[i] = q[i + 1]
      /\ Head(q) = q[1]
  OBVIOUS
<1>1. IsFiniteSet(later) /\ Cardinality(later) \in Nat
  BY <1>0, OccursFinite
<1>2. shift \in Bijection(later, rest)
  <2>1. shift \in [later -> rest]
    BY <1>0
  <2>2. \A i, j \in later : shift[i] = shift[j] => i = j
    BY <1>0
  <2>3. \A j \in rest : \E i \in later : shift[i] = j
    <3> TAKE j \in rest
    <3>1. j - 1 \in later /\ (j - 1) + 1 = j
      BY <1>0
    <3> QED BY <3>1
  <2> HIDE DEF shift, later, rest
  <2> QED BY <2>1, <2>2, <2>3, Fun_IsBij
<1>3. IsFiniteSet(rest) /\ Cardinality(rest) = Cardinality(later)
  <2>1. ExistsBijection(later, rest)
    BY <1>2, Fun_ExistsBij
  <2> HIDE DEF shift, later, rest
  <2> QED BY <1>1, <2>1, FS_Bijection
<1>4. {i \in 1..Len(q) : q[i] = r} = IF Head(q) = r THEN rest \cup {1} ELSE rest
  BY <1>0
<1>5. Cardinality(rest \cup {1}) = Cardinality(rest) + 1
  <2>1. 1 \notin rest
    OBVIOUS
  <2> QED BY <1>1, <1>3, <2>1, FS_AddElement
<1>6. Occurs(Tail(q), r) = Cardinality(later)
  BY DEF Occurs
<1>7. Occurs(q, r) = Cardinality(IF Head(q) = r THEN rest \cup {1} ELSE rest)
  BY <1>4 DEF Occurs
<1> HIDE DEF shift, later, rest
<1> QED BY <1>1, <1>3, <1>5, <1>6, <1>7 DEF One

LEMMA AccountType ==
    ASSUME TypeOK, NEW r \in Runs, NEW s \in Steps
    PROVE  calls[r][s] \in Nat /\ stops \in Nat /\ Occurs(queue, r) \in Nat
<1>1. calls[r][s] \in Nat
  BY DEF TypeOK
<1>2. queue \in Seq(Runs) /\ stops \in Nat
  BY DEF TypeOK
<1> QED BY <1>1, <1>2, OccursNat

(* A step that adds no claim keeps the account; one that stops the process may *)
(* add one.                                                                    *)
LEMMA ClaimsKept ==
    ASSUME TypeOK, TypeOK', CallsClaimed, NEW d \in {0, 1}, stops' = stops + d,
           \A r \in Runs, s \in Steps :
               calls'[r][s] + Claims(r, s)' <= calls[r][s] + Claims(r, s) + d
    PROVE  CallsClaimed'
<1> SUFFICES ASSUME NEW r \in Runs, NEW s \in Steps
             PROVE  calls'[r][s] + Claims(r, s)' <= 1 + stops'
  BY DEF CallsClaimed
<1>1. calls[r][s] \in Nat /\ stops \in Nat /\ Occurs(queue, r) \in Nat
  BY AccountType
<1>2. Claims(r, s) \in Nat /\ calls'[r][s] + Claims(r, s)' \in Nat
  <2>1. calls'[r][s] \in Nat /\ Occurs(queue', r) \in Nat
    <3>1. calls'[r][s] \in Nat
      <4>1. calls' \in [Runs -> [Steps -> Nat]]
        BY DEF TypeOK
      <4> QED BY <4>1
    <3>2. queue' \in Seq(Runs)
      BY DEF TypeOK
    <3> QED BY <3>1, <3>2, OccursNat
  <2> QED BY <1>1, <2>1 DEF Claims, One
<1>3. calls[r][s] + Claims(r, s) <= 1 + stops
  BY DEF CallsClaimed
<1>4. calls'[r][s] + Claims(r, s)' <= calls[r][s] + Claims(r, s) + d
  OBVIOUS
<1> QED BY <1>1, <1>2, <1>3, <1>4

(* A step that leaves every claim where it is, or gives one up. *)
LEMMA ClaimsFewer ==
    ASSUME TypeOK, TypeOK', CallsClaimed, UNCHANGED <<queue, resume, host, calls, stops>>,
           \A r \in Runs : trig'[r] \notin {"accepted", "lost"} => trig[r] \notin {"accepted", "lost"},
           \A r \in Runs, s \in Steps : StillCalls(r, s)' => StillCalls(r, s)
    PROVE  CallsClaimed'
<1>1. ASSUME NEW r \in Runs, NEW s \in Steps
      PROVE  calls'[r][s] + Claims(r, s)' <= calls[r][s] + Claims(r, s) + 0
  <2>1. calls[r][s] \in Nat /\ Occurs(queue, r) \in Nat
    BY AccountType
  <2> QED BY <2>1 DEF Claims, One
<1>2. stops' = stops + 0 /\ 0 \in {0, 1}
  BY DEF TypeOK
<1> QED BY <1>1, <1>2, ClaimsKept

(* Enqueueing a run, for its trigger or for the recovery: a claim changes hands. *)
LEMMA EnqueueClaims ==
    ASSUME TypeOK, TypeOK', CallsClaimed, UNCHANGED <<calls, stops, host, wpc, held, at>>,
           NEW x \in Runs, queue' = Append(queue, x),
           \/ /\ trig[x] \notin {"accepted", "lost"} /\ trig' = [trig EXCEPT ![x] = "accepted"]
              /\ UNCHANGED resume
           \/ x \in resume /\ resume' = resume \ {x} /\ UNCHANGED trig
    PROVE  CallsClaimed'
<1>1. ASSUME NEW r \in Runs, NEW s \in Steps
      PROVE  calls'[r][s] + Claims(r, s)' <= calls[r][s] + Claims(r, s) + 0
  <2>1. /\ calls[r][s] \in Nat /\ Occurs(queue, r) \in Nat
        /\ queue \in Seq(Runs) /\ trig \in [Runs -> TriggerState]
    BY AccountType DEF TypeOK
  <2>3. Occurs(queue', r) = Occurs(queue, r) + One(x = r)
    BY <2>1, OccursAppend
  <2>2. UNCHANGED StillCalls(r, s)
    BY DEF StillCalls
  <2>4. UNCHANGED <<calls, host>>
    OBVIOUS
  <2>5. CASE x = r
    <3>1. \/ /\ trig[r] \notin {"accepted", "lost"} /\ trig'[r] = "accepted" /\ (r \in resume' <=> r \in resume)
          \/ /\ r \in resume /\ r \notin resume' /\ trig'[r] = trig[r]
      BY <2>1, <2>5
    <3> QED BY <2>1, <2>2, <2>3, <2>4, <2>5, <3>1 DEF Claims, One
  <2>6. CASE x # r
    <3>1. trig'[r] = trig[r] /\ (r \in resume' <=> r \in resume)
      BY <2>1, <2>6
    <3>2. Occurs(queue', r) = Occurs(queue, r)
      BY <2>1, <2>3, <2>6 DEF One
    <3> QED BY <2>1, <2>2, <2>4, <3>1, <3>2 DEF Claims, One
  <2> QED BY <2>5, <2>6
<1>2. stops' = stops + 0 /\ 0 \in {0, 1}
  BY DEF TypeOK
<1> QED BY <1>1, <1>2, ClaimsKept

(* Triggers and clients. *)
LEMMA OutsideClaims ==
    ASSUME TypeOK, TypeOK', CallsClaimed,
           \/ \E r \in Runs : Trigger(r) \/ TriggerRaises(r) \/ Expire(r)
           \/ \E c \in Clients :
                 Client(c) \/ ClientRaises(c) \/ \E r \in Runs, cancel \in BOOLEAN : Ask(c, r, cancel)
    PROVE  CallsClaimed'
<1>1. ASSUME NEW r \in Runs, EnqueueRun(r) PROVE CallsClaimed'
  BY <1>1, EnqueueClaims DEF EnqueueRun, triggerFrame, workerVars, historyVars
<1>2. ASSUME NEW r \in Runs, InitRun(r) \/ CacheNewRun(r) \/ RecordActor(r) \/ CacheActor(r)
                              \/ TriggerRaises(r) \/ Expire(r)
      PROVE  CallsClaimed'
  <2>1. UNCHANGED <<queue, resume, host, calls, stops, wpc, held, at>>
    BY <1>2 DEF InitRun, CacheNewRun, RecordActor, CacheActor, TriggerRaises, Expire, triggerFrame,
                workerVars, historyVars, boundVars, dataVars
  <2>2. \/ UNCHANGED trig
        \/ /\ trig[r] \notin {"accepted", "lost"}
           /\ \E t \in TriggerState : trig' = [trig EXCEPT ![r] = t]
    BY <1>2 DEF InitRun, CacheNewRun, RecordActor, CacheActor, TriggerRaises, Expire, TriggerState
  <2>3. \A q \in Runs : trig'[q] \notin {"accepted", "lost"} => trig[q] \notin {"accepted", "lost"}
    BY <2>2 DEF TypeOK
  <2> QED BY <2>1, <2>3, ClaimsFewer DEF StillCalls
<1>3. ASSUME NEW c \in Clients,
             Client(c) \/ ClientRaises(c) \/ \E r \in Runs, cancel \in BOOLEAN : Ask(c, r, cancel)
      PROVE  CallsClaimed'
  <2>1. UNCHANGED clientFrame
    BY <1>3 DEF Client, Fill, CancelRun, CacheCancelled, ClientRaises, Ask
  <2> QED BY <2>1, ClaimsFewer DEF clientFrame, workerVars, historyVars, StillCalls
<1> QED BY <1>1, <1>2, <1>3 DEF Trigger

(* The worker: one step per action. *)
LEMMA WorkerClaims ==
    ASSUME TypeOK, TypeOK', CallsClaimed, Worker \/ Timeout
    PROVE  CallsClaimed'
<1>0. wpc \in WorkerState /\ at \in 1..(NSteps + 1) /\ NSteps \in Nat /\ NoRun \notin Runs
      /\ stops' = stops + 0
  BY NStepsAssumption, NoRunAssumption
  DEF TypeOK, WorkerTypeOK, Worker, Timeout, Flush, Pop, Load, Begin, Execute, EnterStep, SkipStep, StartStep,
      Invoke, CallSucceeds, CallFails, Answer, SettleStep, Succeed, Announce, Unwind, EndCutShort, Fail,
      Finish, workerFrame
(* A step within the execution of a run, or its end. *)
<1>1. ASSUME UNCHANGED <<queue, calls, workerFrame>>,
             \A r \in Runs, s \in Steps : StillCalls(r, s)' => StillCalls(r, s)
      PROVE  CallsClaimed'
  BY <1>1, ClaimsFewer DEF workerFrame
(* A save under way to pc, or its exception. *)
<1>2. ASSUME NEW copy, NEW pc, NEW next, Persist(copy, pc, next),
             \/ pc \in {"succeeded", "fail", "expired", "timedout", "failed", "unloaded", "cancelled"}
             \/ wpc = "loaded" /\ pc = "started"
             \/ wpc \in {"walk", "dispatch"} /\ pc \in {"dispatch", "invoke"} /\ next = at
             \/ wpc = "answered" /\ pc = "walk" /\ next = at + 1
      PROVE  \A r \in Runs, s \in Steps : StillCalls(r, s)' => StillCalls(r, s)
  <2>1. CASE held' = held /\ wpc' = pc /\ at' = next
    BY <1>0, <1>2, <2>1 DEF StillCalls
  <2>2. CASE wpc' \in {"poll", "fail"}
    BY <2>2 DEF StillCalls
  <2> QED BY <1>2, <2>1, <2>2 DEF Persist, Abort, Idle
<1>3. CASE Flush
  <2>1. UNCHANGED <<wpc, held, at>> \/ wpc' \in {"poll", "fail"}
    BY <1>3 DEF Flush, Abort, Idle
  <2> QED BY <1>1, <1>3, <2>1 DEF Flush, historyVars, StillCalls
<1>4. CASE Load
  BY <1>1, <1>4 DEF Load, dataVars, historyVars, StillCalls
<1>5. CASE Begin
  BY <1>1, <1>2, <1>5 DEF Begin, historyVars
<1>6. CASE Execute
  BY <1>1, <1>6 DEF Execute, dataVars, historyVars, StillCalls
<1>7. CASE EnterStep \/ StartStep
  <2>1. UNCHANGED <<queue, calls, workerFrame>>
    BY <1>7 DEF EnterStep, StartStep, historyVars
  <2> QED BY <1>1, <1>2, <1>7, <2>1 DEF EnterStep, StartStep
<1>8. CASE SkipStep
  BY <1>0, <1>1, <1>8 DEF SkipStep, dataVars, historyVars, StillCalls
<1>9. CASE CallSucceeds \/ CallFails
  <2>1. UNCHANGED <<queue, calls, workerFrame>> /\ wpc' \in {"answered", "refused"} /\ UNCHANGED <<held, at>>
        /\ wpc = "calling"
    BY <1>9 DEF CallSucceeds, CallFails, Answer, dataVars
  <2> QED BY <1>0, <1>1, <2>1 DEF StillCalls
<1>14. CASE SettleStep \/ Unwind \/ EndCutShort
  <2>1. UNCHANGED <<queue, calls, workerFrame>>
    BY <1>14 DEF SettleStep, Unwind, EndCutShort, historyVars
  <2> QED BY <1>1, <1>2, <1>14, <2>1 DEF SettleStep, Unwind, EndCutShort
<1>15. CASE Announce \/ Timeout
  <2>1. UNCHANGED <<queue, calls, workerFrame>> /\ wpc' \in {"announced", "expiring", "expired"}
    BY <1>15 DEF Announce, Timeout, CutShort, dataVars, historyVars
  <2> QED BY <1>1, <2>1 DEF StillCalls
<1>10. CASE Succeed \/ Fail
  <2>1. UNCHANGED <<queue, calls, workerFrame>>
    BY <1>10 DEF Succeed, Fail, historyVars
  <2> QED BY <1>1, <1>2, <1>10, <2>1 DEF Succeed, Fail
<1>11. CASE Finish
  BY <1>1, <1>11 DEF Finish, Idle, dataVars, StillCalls
<1>12. CASE Pop
  <2>1. ASSUME NEW r \in Runs, NEW s \in Steps
        PROVE  calls'[r][s] + Claims(r, s)' <= calls[r][s] + Claims(r, s) + 0
    <3>1. /\ calls[r][s] \in Nat /\ Occurs(queue', r) \in Nat
          /\ Occurs(queue, r) = Occurs(queue', r) + One(held' = r)
      <4>1. queue \in Seq(Runs) /\ queue' \in Seq(Runs)
        BY DEF TypeOK
      <4> QED BY <1>12, <4>1, AccountType, OccursNat, OccursTail DEF Pop
    <3>2. ~StillCalls(r, s) /\ (StillCalls(r, s)' <=> held' = r)
      BY <1>12 DEF Pop, StillCalls
    <3>3. UNCHANGED <<calls, trig, resume, host>>
      BY <1>12 DEF Pop, workerFrame, historyVars
    <3> QED BY <3>1, <3>2, <3>3 DEF Claims, One
  <2> QED BY <1>0, <2>1, ClaimsKept
<1>13. CASE Invoke
  <2>1. ASSUME NEW r \in Runs, NEW s \in Steps
        PROVE  calls'[r][s] + Claims(r, s)' <= calls[r][s] + Claims(r, s) + 0
    <3>1. /\ calls[r][s] \in Nat /\ Occurs(queue, r) \in Nat /\ UNCHANGED <<queue, trig, resume, host>>
          /\ calls'[r][s] = calls[r][s] + One(held = r /\ at = s)
      <4>1. calls \in [Runs -> [Steps -> Nat]]
        BY DEF TypeOK
      <4>2. calls'[r][s] = calls[r][s] + One(held = r /\ at = s)
        <5>1. calls' = [calls EXCEPT ![held] = [calls[held] EXCEPT ![at] = calls[held][at] + 1]]
          BY <1>13 DEF Invoke
        <5>2. held = r => calls'[r] = [calls[r] EXCEPT ![at] = calls[r][at] + 1]
          BY <4>1, <5>1
        <5>3. held # r => calls'[r] = calls[r]
          BY <4>1, <5>1
        <5>4. calls[r] \in [Steps -> Nat]
          BY <4>1
        <5> HIDE DEF Steps
        <5> QED BY <5>2, <5>3, <5>4 DEF One
      <4> QED BY <1>13, <4>2, AccountType DEF Invoke, dataVars, workerFrame
    <3>2. CASE held = r /\ at = s
      <4>1. StillCalls(r, s) /\ ~StillCalls(r, s)'
        BY <1>0, <1>13, <3>2 DEF Invoke, StillCalls
      <4> QED BY <3>1, <3>2, <4>1 DEF Claims, One
    <3>3. CASE ~(held = r /\ at = s)
      <4>1. StillCalls(r, s)' => StillCalls(r, s)
        BY <1>0, <1>13, <3>3 DEF Invoke, StillCalls
      <4> QED BY <3>1, <3>3, <4>1 DEF Claims, One
    <3> QED BY <3>2, <3>3
  <2> QED BY <1>0, <2>1, ClaimsKept
<1> QED BY <1>3, <1>4, <1>5, <1>6, <1>7, <1>8, <1>9, <1>10, <1>11, <1>12, <1>13, <1>14, <1>15
    DEF Worker

(* The process: a stop makes room for the one claim of the recovery. *)
LEMMA ProcessClaims ==
    ASSUME TypeOK, TypeOK', CallsClaimed, Crash \/ Unload \/ Stop \/ Boot
    PROVE  CallsClaimed'
<1>0. NoRun \notin Runs /\ stops \in Nat
  BY NoRunAssumption DEF TypeOK
<1>1. CASE Crash \/ Stop
  <2>1. PICK d \in {0, 1} : stops' = stops + d /\ (d = 0 => host = "stopping")
    <3>1. stops' \in {stops, stops + 1} /\ (stops' = stops => host = "stopping" \/ stops = stops + 1)
      BY <1>1 DEF Crash, Stop, Die
    <3> QED BY <1>0, <3>1
  <2>2. Die
    BY <1>1 DEF Crash, Stop
  <2>3. ASSUME NEW r \in Runs, NEW s \in Steps
        PROVE  calls'[r][s] + Claims(r, s)' <= calls[r][s] + Claims(r, s) + d
    <3>1. calls[r][s] \in Nat /\ Occurs(queue, r) \in Nat /\ UNCHANGED calls
      BY <2>2, AccountType DEF Die, historyVars
    <3>2. Occurs(queue', r) = Occurs(queue, r) \/ Occurs(queue', r) = 0
      BY <2>2, OccursNone DEF Die
    <3>3. ~StillCalls(r, s)' /\ r \notin resume' /\ host' = "down"
      BY <1>0, <2>2 DEF Die, Idle, StillCalls
    <3>4. trig'[r] \notin {"accepted", "lost"} => trig[r] \notin {"accepted", "lost"}
      BY <2>2 DEF Die
    <3> QED BY <2>1, <3>1, <3>2, <3>3, <3>4 DEF Claims, One
  <2> QED BY <2>1, <2>3, ClaimsKept
<1>2. CASE Unload
  <2>1. stops' = stops + 1 /\ host' = "stopping" /\ UNCHANGED <<calls, queue, resume, trig>>
    BY <1>2 DEF Unload, dataVars, historyVars
  <2>2. wpc' \in {"stopped", "unloading", "unloaded"}
    BY <1>2 DEF Unload, CutShort, Idle
  <2>3. ASSUME NEW r \in Runs, NEW s \in Steps
        PROVE  calls'[r][s] + Claims(r, s)' <= calls[r][s] + Claims(r, s) + 1
    <3>1. calls[r][s] \in Nat /\ Occurs(queue, r) \in Nat
      BY AccountType
    <3>2. ~StillCalls(r, s)'
      BY <2>2 DEF StillCalls
    <3> QED BY <2>1, <3>1, <3>2 DEF Claims, One
  <2> QED BY <2>1, <2>3, ClaimsKept
<1>3. CASE OnLoad
  <2>1. UNCHANGED <<calls, queue, trig, wpc, held, at, stops>> /\ host = "down" /\ host' = "boot"
    BY <1>3 DEF OnLoad, bootFrame, workerVars, historyVars, boundVars
  <2>2. ASSUME NEW r \in Runs, NEW s \in Steps
        PROVE  calls'[r][s] + Claims(r, s)' <= calls[r][s] + Claims(r, s) + 0
    <3>1. calls[r][s] \in Nat /\ Occurs(queue, r) \in Nat
      BY AccountType
    <3> QED BY <2>1, <3>1 DEF Claims, One, StillCalls
  <2> QED BY <1>0, <2>1, <2>2, ClaimsKept
<1>4. ASSUME NEW r \in Runs, ResumeRun(r) PROVE CallsClaimed'
  BY <1>4, EnqueueClaims DEF ResumeRun, bootFrame, workerVars, historyVars, boundVars
<1>5. CASE StartWorker
  <2>1. UNCHANGED <<calls, queue, resume, trig, wpc, held, at, stops>> /\ host' = "up"
    BY <1>5 DEF StartWorker, bootFrame, workerVars, historyVars, boundVars
  <2>2. ASSUME NEW r \in Runs, NEW s \in Steps
        PROVE  calls'[r][s] + Claims(r, s)' <= calls[r][s] + Claims(r, s) + 0
    <3>1. calls[r][s] \in Nat /\ Occurs(queue, r) \in Nat
      BY AccountType
    <3> QED BY <2>1, <3>1 DEF Claims, One, StillCalls
  <2> QED BY <1>0, <2>1, <2>2, ClaimsKept
<1> QED BY <1>1, <1>2, <1>3, <1>4, <1>5 DEF Boot

(* Every action keeps the account of the calls. *)
LEMMA ClaimsStep == TypeOK /\ CallsClaimed /\ [Next]_vars => CallsClaimed'
<1> SUFFICES ASSUME TypeOK, CallsClaimed, [Next]_vars PROVE CallsClaimed'
  OBVIOUS
<1>0. TypeOK'
  BY TypeStep
<1>1. CASE UNCHANGED vars
  BY <1>0, <1>1, ClaimsFewer DEF vars, dataVars, workerVars, historyVars, boundVars, StillCalls
<1> QED BY <1>0, <1>1, OutsideClaims, WorkerClaims, ProcessClaims DEF Next, Quiet

(* For any number of runs and steps, any crashes, resumptions and requests,   *)
(* with a queue that is lost or one that outlives the process: the action of  *)
(* a step is called at most once more than the process was stopped.  That is  *)
(* all a restart costs, also when a run was queued twice by two recoveries.   *)
THEOREM CallsHaveBound == Spec => []CallsBounded
<1>1. Init => CallsClaimed
  <2> SUFFICES ASSUME Init, NEW r \in Runs, NEW s \in Steps
               PROVE  calls[r][s] + Claims(r, s) <= 1 + stops
    BY DEF CallsClaimed
  <2>1. Occurs(queue, r) = 0
    BY OccursNone DEF Init
  <2> QED BY <2>1 DEF Init, Claims, One, StillCalls
<1>2. TypeOK /\ CallsClaimed => CallsBounded
  <2> SUFFICES ASSUME TypeOK, CallsClaimed, NEW r \in Runs, NEW s \in Steps
               PROVE  calls[r][s] <= 1 + stops
    BY DEF CallsBounded
  <2>1. calls[r][s] \in Nat /\ stops \in Nat /\ Occurs(queue, r) \in Nat
    BY AccountType
  <2>2. calls[r][s] + Claims(r, s) <= 1 + stops
    BY DEF CallsClaimed
  <2> QED BY <2>1, <2>2 DEF Claims, One
<1> QED BY <1>1, <1>2, ClaimsStep, TypeCorrect, PTL DEF Spec

=============================================================================

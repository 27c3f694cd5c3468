---------------------- MODULE RunLifecycle_refinement ----------------------
(* RunLifecycle implements RunContract: every step of triggers, clients,     *)
(* worker and process is, for the rows of the runs and the work done, a step *)
(* of the contract or none at all.  What that proof knows of the worker also *)
(* says who has a run that is running (Custody).  Without Redis a run is in  *)
(* one place (OnePlace) and has one writer (Sole), so that ended runs stay   *)
(* ended and announcements stay true, and a success that has reached the row *)
(* is not called again (Recorded).                                           *)
EXTENDS RunLifecycle_proofs

USE DEF Steps, InAction

(* Whose turn it is.  A run belongs to its trigger until it is accepted, and *)
(* only then to the queue, the recovery and the worker; what the row shows   *)
(* follows the worker, unless a client has just cancelled the run.           *)
TriggerPhase(r) ==
    /\ trig[r] = "none" <=> db[r].status = "none"
    /\ trig[r] # "accepted" =>
          /\ db[r].status \in {"none", "pending", "cancelled"}
          /\ held # r /\ r \notin resume /\ \A i \in 1..Len(queue) : queue[i] # r

(* The execution is under way, or has just been cut short.                   *)
UnderWay == {"started", "walk", "dispatch", "invoke", "calling", "answered", "refused",
             "expiring", "expired", "unloading"}

WorkerPhase ==
    /\ wpc \in UnderWay => mem.status = "running" /\ db[held].status \in {"running", "cancelled"}
    /\ wpc \in {"succeeded", "announced"} => db[held].status \in {"success", "cancelled"}
    /\ wpc \in {"fail", "unloaded"} => db[held].status \in {"running", "cancelled", "success"}

ClientPhase == \A c \in Clients : client[c].pc # "idle" => db[client[c].run].status # "none"

Phases == (\A r \in Runs : TriggerPhase(r)) /\ WorkerPhase /\ ClientPhase

-----------------------------------------------------------------------------
(* A save takes the status from the saved copy. *)
LEMMA RowStatus ==
    ASSUME NEW row \in Copy, NEW copy \in Copy
    PROVE  RowAfter(row, copy).status = copy.status
BY DEF RowAfter, Copy

(* A commit is a change of status of the contract. *)
LEMMA CommitBecomes ==
    ASSUME TypeOK, NEW r \in Runs, NEW copy \in Copy, Commit(r, copy)
    PROVE  /\ Contract!Become(r, copy.status)
           /\ \A q \in Runs : db'[q].status = IF q = r THEN copy.status ELSE db[q].status
<1>1. db' = [db EXCEPT ![r] = RowAfter(db[r], copy)] /\ db \in [Runs -> Copy]
  BY DEF Commit, TypeOK
<1>2. RowAfter(db[r], copy).status = copy.status
  BY <1>1, RowStatus
<1> QED BY <1>1, <1>2 DEF Contract!Become

(* What leaves rows and work alone is no step of the contract. *)
LEMMA Stutter ==
    ASSUME UNCHANGED <<db, done>>
    PROVE  UNCHANGED Contract!vars
BY DEF Contract!vars

ContractStep == Contract!Next \/ UNCHANGED Contract!vars

(* Every step of a trigger, and the expiry of a cached copy. *)
LEMMA TriggerRefines ==
    ASSUME TypeOK, Phases, NEW r \in Runs, Trigger(r) \/ TriggerRaises(r) \/ Expire(r)
    PROVE  Phases' /\ ContractStep
<1> USE DEF Phases, TriggerPhase
<1>0. /\ db \in [Runs -> Copy] /\ trig \in [Runs -> TriggerState] /\ queue \in Seq(Runs)
      /\ wpc \notin {"poll", "stopped"} => held \in Runs
      /\ \A c \in Clients : client[c].pc # "idle" => client[c].run \in Runs
  BY DEF TypeOK, WorkerTypeOK
<1>1. ASSUME NEW a \in BOOLEAN, Commit(r, NewRun(a)), trig[r] \in {"none", "named"},
             NEW t \in {"created", "recorded"}, trig' = [trig EXCEPT ![r] = t],
             UNCHANGED <<queue, triggerFrame>>
      PROVE  Phases' /\ ContractStep
  <2>1. /\ Contract!Become(r, "pending") /\ UNCHANGED done
        /\ \A q \in Runs : db'[q].status = IF q = r THEN "pending" ELSE db[q].status
    <3>1. NewRun(a) \in Copy /\ NewRun(a).status = "pending"
      BY NewRunType DEF NewRun, NoCopy
    <3>2. UNCHANGED done
      BY <1>1 DEF triggerFrame, historyVars
    <3> QED BY <1>1, <3>1, <3>2, CommitBecomes
  <2>2. held # r /\ db[r].status \in {"none", "pending", "cancelled"}
    BY <1>1
  <2>3. \A q \in Runs : TriggerPhase(q)'
    BY <1>0, <1>1, <2>1, <2>2 DEF triggerFrame, workerVars
  <2>4. WorkerPhase'
    BY <1>0, <1>1, <2>1, <2>2 DEF WorkerPhase, UnderWay, triggerFrame, workerVars
  <2>5. ClientPhase'
    BY <1>0, <1>1, <2>1 DEF ClientPhase, triggerFrame
  <2>6. ContractStep
    <3>1. CASE db[r].status = "none"
      BY <2>1, <3>1 DEF ContractStep, Contract!Next, Contract!Create
    <3>2. CASE db[r].status = "pending"
      BY <2>1, <3>2 DEF ContractStep, Contract!vars
    <3>3. CASE db[r].status = "cancelled"
      BY <2>1, <3>3 DEF ContractStep, Contract!Next, Contract!Revive
    <3> QED BY <2>2, <3>1, <3>2, <3>3
  <2> QED BY <2>3, <2>4, <2>5, <2>6
<1>2. CASE InitRun(r) \/ RecordActor(r)
  BY <1>1, <1>2 DEF InitRun, RecordActor
<1>3. CASE CacheNewRun(r) \/ CacheActor(r) \/ TriggerRaises(r)
  <2>1. /\ trig[r] \notin {"none", "accepted"} /\ UNCHANGED <<db, queue, triggerFrame>>
        /\ \E t \in {"named", "ready", "lost"} : trig' = [trig EXCEPT ![r] = t]
    BY <1>3 DEF CacheNewRun, CacheActor, TriggerRaises, dataVars
  <2>2. Phases'
    BY <1>0, <2>1 DEF WorkerPhase, ClientPhase, triggerFrame, workerVars
  <2> QED BY <2>1, <2>2, Stutter DEF ContractStep, triggerFrame, historyVars
<1>4. CASE EnqueueRun(r)
  <2>1. Phases'
    BY <1>0, <1>4 DEF EnqueueRun, WorkerPhase, ClientPhase, triggerFrame, workerVars
  <2> QED BY <1>4, <2>1, Stutter DEF EnqueueRun, ContractStep, triggerFrame, historyVars
<1>5. CASE Expire(r)
  <2>1. Phases'
    BY <1>5 DEF Expire, WorkerPhase, ClientPhase, workerVars
  <2> QED BY <1>5, <2>1, Stutter DEF Expire, ContractStep, historyVars
<1> QED BY <1>2, <1>3, <1>4, <1>5 DEF Trigger

(* Every step of a client. *)
LEMMA ClientRefines ==
    ASSUME TypeOK, Phases, NEW c \in Clients,
           Client(c) \/ ClientRaises(c) \/ \E r \in Runs, cancel \in BOOLEAN : Ask(c, r, cancel)
    PROVE  Phases' /\ ContractStep
<1> USE DEF Phases, TriggerPhase
<1>0. /\ client \in [Clients -> Request]
      /\ wpc \notin {"poll", "stopped"} => held \in Runs
      /\ \A d \in Clients : client[d].pc # "idle" => client[d].run \in Runs
  BY DEF TypeOK, WorkerTypeOK
<1>1. CASE CancelRun(c)
  <2> DEFINE r == client[c].run
             copy == [client[c].copy EXCEPT !.status = "cancelled"]
  <2>1. r \in Runs /\ copy \in Copy /\ copy.status = "cancelled" /\ db[r].status # "none"
    <3>1. client[c].pc # "idle" /\ client[c].copy \in Copy
      BY <1>0, <1>1 DEF CancelRun, Request
    <3>2. copy \in Copy
      BY <3>1, UpdateType DEF Status
    <3>3. copy.status = "cancelled"
      BY <3>1 DEF Copy
    <3> QED BY <1>0, <3>1, <3>2, <3>3 DEF ClientPhase
  <2>2. /\ Contract!Become(r, "cancelled") /\ UNCHANGED done
        /\ \A q \in Runs : db'[q].status = IF q = r THEN "cancelled" ELSE db[q].status
    <3>1. Commit(r, copy) /\ UNCHANGED done
      BY <1>1 DEF CancelRun, clientFrame, historyVars
    <3> HIDE DEF copy, r
    <3> QED BY <2>1, <3>1, CommitBecomes
  <2>3. UNCHANGED <<clientFrame>> /\ \A d \in Clients : client'[d].run = client[d].run
                                  /\ (client'[d].pc # "idle" => client[d].pc # "idle")
    BY <1>0, <1>1 DEF CancelRun, Request
  <2>4. (\A q \in Runs : TriggerPhase(q)') /\ WorkerPhase' /\ ClientPhase'
    BY <1>0, <2>1, <2>2, <2>3 DEF WorkerPhase, UnderWay, ClientPhase, clientFrame, workerVars
  <2> QED BY <2>1, <2>2, <2>4 DEF ContractStep, Contract!Next, Contract!Cancel
<1>2. CASE Fill(c) \/ CacheCancelled(c) \/ ClientRaises(c) \/ \E r \in Runs, cancel \in BOOLEAN : Ask(c, r, cancel)
  <2>1. UNCHANGED <<db, clientFrame>>
    BY <1>2 DEF Fill, CacheCancelled, ClientRaises, Ask
  <2>2. \A d \in Clients : client'[d].pc # "idle" =>
           \/ client[d].pc # "idle" /\ client'[d].run = client[d].run
           \/ db[client'[d].run].status # "none"
    BY <1>0, <1>2 DEF Fill, CacheCancelled, ClientRaises, Ask, NoRequest, Request
  <2>3. Phases'
    BY <2>1, <2>2 DEF WorkerPhase, ClientPhase, clientFrame, workerVars
  <2> QED BY <2>1, <2>3, Stutter DEF ContractStep, clientFrame, historyVars
<1> QED BY <1>1, <1>2 DEF Client

(* The worker's commit of copy, on the way to pc, or its exception.           *)
LEMMA PersistPhases ==
    ASSUME TypeOK, Phases, held \in Runs, trig[held] = "accepted", NEW copy \in Copy, NEW pc, NEW next,
           Persist(copy, pc, next), UNCHANGED <<queue, resume, trig, client>>, copy.status # "none",
           pc \in UnderWay \cup {"fail", "unloaded"} => copy.status = "running",
           pc = "succeeded" => copy.status = "success", pc # "announced",
           db[held].status \in {"running", "cancelled", "success"} \/ Handler(pc) = "poll"
    PROVE  /\ Phases'
           /\ \/ Contract!Become(held, copy.status)
              \/ UNCHANGED db
<1> USE DEF Phases, TriggerPhase
<1>0. /\ \A c \in Clients : client[c].pc # "idle" => client[c].run \in Runs
      /\ UNCHANGED <<trig, client, resume>>
      /\ NoRun \notin Runs
  BY NoRunAssumption DEF TypeOK
<1>1. CASE Commit(held, copy) /\ mem' = copy /\ flush' = TRUE /\ wpc' = pc /\ at' = next
           /\ UNCHANGED <<held, skip, faults>>
  <2>1. /\ Contract!Become(held, copy.status)
        /\ \A q \in Runs : db'[q].status = IF q = held THEN copy.status ELSE db[q].status
    BY <1>1, CommitBecomes
  <2>2. \A q \in Runs : TriggerPhase(q)'
    BY <1>0, <1>1, <2>1
  <2>3. WorkerPhase' /\ ClientPhase'
    BY <1>0, <1>1, <2>1 DEF WorkerPhase, ClientPhase, UnderWay
  <2> QED BY <2>1, <2>2, <2>3
<1>2. CASE Abort(copy, pc) /\ UNCHANGED db
  <2>1. /\ held' \in {held, NoRun} /\ wpc' \in {"poll", "fail"}
        /\ wpc' = "fail" => held' = held /\ db[held].status \in {"running", "cancelled", "success"}
    BY <1>2 DEF Abort, Idle
  <2>2. (\A q \in Runs : TriggerPhase(q)') /\ ClientPhase'
    BY <1>0, <1>2, <2>1 DEF ClientPhase
  <2>3. WorkerPhase'
    BY <1>2, <2>1 DEF WorkerPhase, UnderWay
  <2> QED BY <1>2, <2>2, <2>3
<1> QED BY <1>1, <1>2 DEF Persist

(* Every step of the worker: one step per action.                             *)
LEMMA WorkerRefines ==
    ASSUME IInv, Phases, Worker \/ Timeout
    PROVE  Phases' /\ ContractStep
<1> USE DEF IInv
<1>0. /\ \A c \in Clients : client[c].pc # "idle" => client[c].run \in Runs
      /\ mem \in Copy /\ wpc \in WorkerState /\ NoRun \notin Runs
      /\ wpc \notin {"poll", "stopped"} => held \in Runs /\ trig[held] = "accepted"
      /\ at \in 1..(NSteps + 1) /\ NSteps \in Nat
      /\ done \in [Runs -> SUBSET Steps] /\ queue \in Seq(Runs)
  BY NoRunAssumption, NStepsAssumption DEF TypeOK, WorkerTypeOK, Phases, TriggerPhase
<1>1. \A st \in Status : [mem EXCEPT !.status = st] \in Copy /\ [mem EXCEPT !.status = st].status = st
  BY <1>0, UpdateType DEF Copy
<1>2. \A s \in Steps, st \in StepStatus :
         [mem EXCEPT !.steps[s] = st] \in Copy /\ [mem EXCEPT !.steps[s] = st].status = mem.status
  BY <1>0, UpdateType DEF Copy
<1>3. \A cur \in 0..NSteps :
         [mem EXCEPT !.cur = cur] \in Copy /\ [mem EXCEPT !.cur = cur].status = mem.status
  BY <1>0, UpdateType DEF Copy
(* Actions that leave rows and work alone. *)
<1>4. ASSUME UNCHANGED <<dataVars, workerFrame, calls, done>>, held' \in {held, NoRun},
             wpc' \notin UnderWay \cup {"succeeded", "announced", "fail", "unloaded"}
      PROVE  Phases' /\ ContractStep
  BY <1>0, <1>4, Stutter
    DEF Phases, TriggerPhase, WorkerPhase, ClientPhase, ContractStep, UnderWay, dataVars, workerFrame
<1>5. ASSUME UNCHANGED <<db, queue, workerFrame, done, held, mem>>,
             \/ wpc' = wpc
             \/ wpc \in UnderWay /\ wpc' \in UnderWay
             \/ wpc = "succeeded" /\ wpc' = "announced"
      PROVE  Phases' /\ ContractStep
  BY <1>0, <1>5, Stutter DEF Phases, TriggerPhase, WorkerPhase, ClientPhase, ContractStep, UnderWay, workerFrame
<1>6. CASE Flush
  <2>1. CASE SetCache(held, mem) /\ UNCHANGED <<wpc, held, mem, at, skip, faults>>
    BY <1>5, <1>6, <2>1 DEF Flush, historyVars
  <2>2. CASE Abort(mem, wpc) /\ UNCHANGED cache
    <3>1. Loaded /\ UNCHANGED <<db, queue, workerFrame, done>>
      BY <1>6 DEF Flush, NothingClaimedEarly, WorkerTruthful, historyVars
    <3>2. /\ held' \in {held, NoRun} /\ wpc' \in {"poll", "fail"}
          /\ wpc' = "fail" => held' = held /\ db[held].status \in {"running", "cancelled", "success"}
      BY <1>0, <2>2, <3>1 DEF Abort, Idle, Handler, Loaded, WorkerState, UnderWay, Phases, WorkerPhase
    <3> QED BY <1>0, <3>1, <3>2, Stutter
      DEF Phases, TriggerPhase, WorkerPhase, ClientPhase, ContractStep, UnderWay, workerFrame
  <2> QED BY <1>6, <2>1, <2>2 DEF Flush
<1>7. CASE Pop
  <2>1. /\ held' \in Runs /\ \A r \in Runs : trig[r] # "accepted" => held' # r
        /\ \A r \in Runs : (\A i \in 1..Len(queue) : queue[i] # r) => \A i \in 1..Len(queue') : queue'[i] # r
    BY <1>0, <1>7 DEF Pop, Phases, TriggerPhase
  <2> QED BY <1>0, <1>7, <2>1, Stutter
    DEF Pop, Phases, TriggerPhase, WorkerPhase, ClientPhase, ContractStep, UnderWay, workerFrame, historyVars
<1>8. CASE Load
  BY <1>4, <1>8 DEF Load, UnderWay, historyVars
<1>9. CASE Finish
  BY <1>4, <1>9 DEF Finish, UnderWay, Idle
<1>10. CASE Execute \/ SkipStep \/ Invoke \/ Timeout \/ Announce
  BY <1>5, <1>10 DEF Execute, SkipStep, Invoke, Timeout, CutShort, Announce, UnderWay, dataVars, historyVars
<1>11. CASE Begin
  <2> DEFINE copy == [mem EXCEPT !.status = "running"]
  <2>1. copy \in Copy /\ copy.status = "running"
    BY <1>1 DEF Status
  <2>2. held \in Runs /\ trig[held] = "accepted" /\ Persist(copy, "started", at) /\ UNCHANGED <<queue, workerFrame, done>>
    BY <1>0, <1>11 DEF Begin, historyVars
  <2> HIDE DEF copy
  <2>3. Phases' /\ (Contract!Become(held, "running") \/ UNCHANGED db)
    BY <2>1, <2>2, PersistPhases DEF workerFrame, Handler, UnderWay
  <2>4. db[held].status # "none"
    BY <2>2 DEF Phases, TriggerPhase
  <2> QED BY <2>2, <2>3, <2>4, Stutter DEF ContractStep, Contract!Next, Contract!Start
<1>12. ASSUME wpc \in UnderWay \ {"expired"}, UNCHANGED <<queue, workerFrame, done>>,
              NEW copy \in Copy, copy.status = mem.status, NEW next,
              NEW pc \in {"walk", "dispatch", "invoke", "fail", "expired", "unloaded"},
              Persist(copy, pc, next)
       PROVE  Phases' /\ ContractStep
  <2>1. mem.status = "running" /\ db[held].status \in {"running", "cancelled"} /\ held \in Runs /\ trig[held] = "accepted"
    BY <1>0, <1>12 DEF Phases, WorkerPhase, UnderWay
  <2>2. Phases' /\ (Contract!Become(held, "running") \/ UNCHANGED db)
    BY <1>12, <2>1, PersistPhases DEF workerFrame, UnderWay
  <2> QED BY <1>12, <2>1, <2>2, Stutter DEF ContractStep, Contract!Next, Contract!Start
<1>13. CASE EnterStep
  <2> DEFINE copy == [mem EXCEPT !.cur = at]
  <2>1. copy \in Copy /\ copy.status = mem.status
    BY <1>0, <1>3, <1>13 DEF EnterStep
  <2>2. Persist(copy, "dispatch", at)
    BY <1>13 DEF EnterStep
  <2>3. wpc = "walk" /\ UNCHANGED <<queue, workerFrame, done>>
    BY <1>13 DEF EnterStep, historyVars
  <2> HIDE DEF copy
  <2> QED BY <1>12, <2>1, <2>2, <2>3 DEF UnderWay
<1>14. CASE StartStep
  <2>1. at \in Steps
    BY <1>14 DEF StartStep, TypeOK, WorkerTypeOK
  <2> QED BY <1>2, <1>12, <1>14, <2>1 DEF StartStep, StepStatus, UnderWay, historyVars
<1>15. CASE CallSucceeds \/ CallFails
  <2>1. /\ at \in Steps /\ held \in Runs /\ trig[held] = "accepted" /\ wpc = "calling"
        /\ mem.status = "running" /\ db[held].status \in {"running", "cancelled"}
        /\ 1..(at - 1) \subseteq done[held]
    BY <1>0, <1>15 DEF CallSucceeds, CallFails, Answer, TypeOK, WorkerTypeOK, Phases, WorkerPhase, UnderWay,
                       NothingClaimedEarly, WorkerTruthful, Walking
  <2>2. /\ UNCHANGED <<db, queue, workerFrame, held>> /\ wpc' \in {"answered", "refused"}
        /\ mem'.status = "running"
    <3>1. \A st \in {"success", "failed"} : [mem EXCEPT !.steps[at] = st].status = "running"
      BY <1>2, <2>1 DEF StepStatus
    <3> QED BY <1>15, <3>1 DEF CallSucceeds, CallFails, Answer, dataVars
  <2>3. Phases'
    BY <1>0, <2>1, <2>2 DEF Phases, TriggerPhase, WorkerPhase, ClientPhase, UnderWay, workerFrame
  <2>4. CASE CallSucceeds
    <3>1. done' = [done EXCEPT ![held] = @ \cup {at}]
      BY <2>4 DEF CallSucceeds
    <3>2. PICK r \in Runs : r = held
      BY <2>1
    <3>3. Contract!DoStep(r)
      <4>1. \E s \in 1..NSteps : /\ 1..(s - 1) \subseteq done[r]
                               /\ done' = [done EXCEPT ![r] = @ \cup {s}]
        BY <2>1, <3>1, <3>2
      <4>2. [q \in Runs |-> db'[q].status] = [q \in Runs |-> db[q].status]
        BY <2>2
      <4> QED BY <2>1, <3>2, <4>1, <4>2 DEF Contract!DoStep
    <3>4. Contract!Next
      BY <3>3 DEF Contract!Next
    <3> QED BY <2>3, <3>4 DEF ContractStep
  <2>5. CASE CallFails
    BY <2>2, <2>3, <2>5, Stutter DEF CallFails, ContractStep
  <2> QED BY <1>15, <2>4, <2>5
<1>18. CASE SettleStep \/ Unwind
  <2>1. UNCHANGED <<queue, workerFrame, done>> /\ wpc \in UnderWay \ {"expired"}
    BY <1>18 DEF SettleStep, Unwind, UnderWay, historyVars
  <2>2. \E pc \in {"walk", "fail", "expired", "unloaded"}, next \in {at, at + 1} : Persist(mem, pc, next)
    BY <1>18 DEF SettleStep, Unwind
  <2> QED BY <1>0, <1>12, <2>1, <2>2
<1>19. CASE EndCutShort
  <2>1. held \in Runs /\ trig[held] = "accepted" /\ UNCHANGED <<queue, workerFrame, done>>
    BY <1>0, <1>19 DEF EndCutShort, historyVars
  <2>2. CASE wpc = "expired" /\ Persist([mem EXCEPT !.status = "failed"], "timedout", at)
    <3> DEFINE copy == [mem EXCEPT !.status = "failed"]
    <3>1. copy \in Copy /\ copy.status = "failed" /\ Persist(copy, "timedout", at)
      BY <1>1, <2>2 DEF Status
    <3>2. db[held].status \in {"running", "cancelled"}
      BY <2>2 DEF Phases, WorkerPhase, UnderWay
    <3> HIDE DEF copy
    <3>3. Phases' /\ (Contract!Become(held, "failed") \/ UNCHANGED db)
      BY <2>1, <3>1, <3>2, PersistPhases DEF workerFrame, UnderWay
    <3> QED BY <2>1, <3>2, <3>3, Stutter DEF ContractStep, Contract!Next, Contract!Fail
  <2>3. CASE Persist([mem EXCEPT !.status = "cancelled"], "cancelled", at)
    <3> DEFINE copy == [mem EXCEPT !.status = "cancelled"]
    <3>1. copy \in Copy /\ copy.status = "cancelled" /\ Persist(copy, "cancelled", at)
      BY <1>1, <2>3 DEF Status
    <3> HIDE DEF copy
    <3>2. Phases' /\ (Contract!Become(held, "cancelled") \/ UNCHANGED db)
      BY <2>1, <3>1, PersistPhases DEF workerFrame, Handler, UnderWay
    <3>3. db[held].status # "none"
      BY <2>1 DEF Phases, TriggerPhase
    <3> QED BY <2>1, <3>2, <3>3, Stutter DEF ContractStep, Contract!Next, Contract!Cancel
  <2> QED BY <1>19, <2>2, <2>3 DEF EndCutShort
<1>16. CASE Succeed
  <2> DEFINE copy == [mem EXCEPT !.status = "success"]
  <2>1. copy \in Copy /\ copy.status = "success"
    BY <1>1 DEF Status
  <2>2. /\ held \in Runs /\ trig[held] = "accepted" /\ Persist(copy, "succeeded", at)
        /\ UNCHANGED <<queue, workerFrame, done>>
        /\ db[held].status \in {"running", "cancelled"} /\ 1..(at - 1) \subseteq done[held] /\ at = NSteps + 1
    BY <1>0, <1>16
    DEF Succeed, historyVars, Phases, WorkerPhase, UnderWay, NothingClaimedEarly, WorkerTruthful, Walking
  <2> HIDE DEF copy
  <2>3. Phases' /\ (Contract!Become(held, "success") \/ UNCHANGED db)
    BY <2>1, <2>2, PersistPhases DEF workerFrame, UnderWay
  <2>4. done[held] = 1..NSteps
    <3>1. at - 1 = NSteps /\ done[held] \subseteq 1..NSteps
      BY <1>0, <2>2
    <3> QED BY <2>2, <3>1
  <2> QED BY <2>2, <2>3, <2>4, Stutter DEF ContractStep, Contract!Next, Contract!Succeed
<1>17. CASE Fail
  <2> DEFINE copy == [mem EXCEPT !.status = "failed"]
  <2>1. copy \in Copy /\ copy.status = "failed"
    BY <1>1 DEF Status
  <2>2. Persist(copy, "failed", at)
    BY <1>17 DEF Fail
  <2>3. /\ held \in Runs /\ trig[held] = "accepted" /\ UNCHANGED <<queue, workerFrame, done>>
        /\ db[held].status \in {"running", "cancelled", "success"}
    BY <1>0, <1>17 DEF Fail, historyVars, Phases, WorkerPhase
  <2> HIDE DEF copy
  <2>4. Phases' /\ (Contract!Become(held, "failed") \/ UNCHANGED db)
    BY <2>1, <2>2, <2>3, PersistPhases DEF workerFrame, UnderWay
  <2> QED BY <2>3, <2>4, Stutter DEF ContractStep, Contract!Next, Contract!Fail
<1> QED BY <1>6, <1>7, <1>8, <1>9, <1>10, <1>11, <1>13, <1>14, <1>15, <1>16, <1>17, <1>18, <1>19 DEF Worker

(* The process dies, is unloaded, comes back.                                 *)
LEMMA ProcessRefines ==
    ASSUME IInv, Phases, Crash \/ Unload \/ Stop \/ Boot
    PROVE  Phases' /\ ContractStep
<1> USE DEF IInv
<1>0. /\ \A c \in Clients : client[c].pc # "idle" => client[c].run \in Runs
      /\ mem \in Copy /\ wpc \in WorkerState /\ NoRun \notin Runs /\ queue \in Seq(Runs)
      /\ wpc \notin {"poll", "stopped"} => held \in Runs /\ trig[held] = "accepted"
      /\ trig \in [Runs -> TriggerState]
  BY NoRunAssumption DEF TypeOK, WorkerTypeOK, Phases, TriggerPhase
<1>1. CASE Die
  <2>1. \A r \in Runs : TriggerPhase(r)'
    BY <1>0, <1>1 DEF Die, Idle, Phases, TriggerPhase
  <2>2. WorkerPhase' /\ ClientPhase'
    BY <1>1 DEF Die, Idle, WorkerPhase, ClientPhase, NoRequest, UnderWay
  <2> QED BY <1>1, <2>1, <2>2, Stutter DEF Die, Phases, ContractStep, historyVars
<1>2. CASE Unload
  <2>1. UNCHANGED <<db, queue, resume, trig, client, done>>
    BY <1>2 DEF Unload, dataVars, historyVars
  <2>2. CASE InTry /\ CutShort("unloading", "unloaded") /\ UNCHANGED <<held, mem, at, skip>>
    <3>1. wpc \in (UnderWay \ {"started", "unloading"}) \cup {"succeeded", "announced", "fail"}
      BY <1>0, <2>2 DEF InTry, UnderWay
    <3>2. /\ wpc' = "unloading" => wpc \in UnderWay
          /\ wpc' \in {"unloading", "unloaded"}
      BY <2>2 DEF CutShort, UnderWay
    <3>3. Phases'
      BY <1>0, <2>1, <2>2, <3>1, <3>2
      DEF Phases, TriggerPhase, WorkerPhase, ClientPhase, UnderWay
    <3> QED BY <2>1, <3>3, Stutter DEF ContractStep
  <2>3. CASE Idle("stopped")
    <3>1. Phases'
      BY <1>0, <2>1, <2>3 DEF Idle, Phases, TriggerPhase, WorkerPhase, ClientPhase, UnderWay
    <3> QED BY <2>1, <2>3, <3>1, Stutter DEF ContractStep
  <2> QED BY <1>2, <2>2, <2>3 DEF Unload
<1>3. CASE Boot
  <2>1. UNCHANGED bootFrame
    BY <1>3 DEF Boot, OnLoad, ResumeRun, StartWorker
  <2>2. \A r \in Runs : TriggerPhase(r)'
    BY <1>0, <1>3, <2>1 DEF Boot, OnLoad, ResumeRun, StartWorker, CrashedRuns, Phases, TriggerPhase,
                            bootFrame, workerVars
  <2>3. WorkerPhase' /\ ClientPhase'
    BY <2>1 DEF bootFrame, workerVars, Phases, WorkerPhase, ClientPhase
  <2> QED BY <2>1, <2>2, <2>3, Stutter DEF bootFrame, historyVars, Phases, ContractStep
<1> QED BY <1>1, <1>2, <1>3 DEF Crash, Stop

(* Every action is a step of the contract or a stutter. *)
LEMMA NextRefines == IInv /\ Phases /\ [Next]_vars => Phases' /\ ContractStep
<1> SUFFICES ASSUME IInv, Phases, [Next]_vars PROVE Phases' /\ ContractStep
  OBVIOUS
<1>1. CASE UNCHANGED vars
  BY <1>1, Stutter
    DEF vars, dataVars, workerVars, historyVars, Phases, TriggerPhase, WorkerPhase, ClientPhase, UnderWay,
        ContractStep
<1> QED BY <1>1, TriggerRefines, ClientRefines, WorkerRefines, ProcessRefines DEF Next, Quiet, IInv

(* The initial states are those of the contract. *)
LEMMA InitRefines == Init => Phases /\ Contract!Init
<1>1. Init => Phases
  BY NoRunAssumption DEF Init, Phases, TriggerPhase, WorkerPhase, ClientPhase, NoCopy, NoRequest, UnderWay
<1>2. Init => Contract!Init
  BY DEF Init, Contract!Init, NoCopy
<1> QED BY <1>1, <1>2

(* For all the crashes, stale copies, resumptions and races of the component, *)
(* the rows of the runs behave as the contract says.                          *)
THEOREM Refinement == Spec => ImplementsContract
<1>1. Init => IInv
  BY InitType, InitTruthful DEF IInv
<1>2. IInv /\ [Next]_vars => IInv'
  BY TypeStep, TruthfulStep DEF IInv
<1>3. Spec => []IInv
  BY <1>1, <1>2, PTL DEF Spec
<1>4. IInv /\ Phases /\ [Next]_vars => Phases' /\ [Contract!Next]_(Contract!vars)
  BY NextRefines DEF ContractStep
<1> QED BY <1>3, <1>4, InitRefines, PTL DEF Spec, ImplementsContract, Contract!Spec

-----------------------------------------------------------------------------
(* Who has a run that is running: the worker, the queue or, while the plugin  *)
(* boots, the recovery - as long as the store has answered every call.        *)

Queued(r) == \E i \in 1..Len(queue) : queue[i] = r

Custody ==
    /\ wpc \in {"poll", "stopped"} \/ host \in {"down", "boot"} => held = NoRun
    /\ wpc \in {"timedout", "failed"} => db[held].status \in {"failed", "cancelled"}
    /\ host # "boot" => resume = {}
    /\ host \in {"boot", "up"} /\ faults = 0 =>
          \A r \in Runs : db[r].status = "running" => Owned(r) \/ r \in resume

(* Appending to the queue takes nobody out of it.                             *)
LEMMA QueuedAppend ==
    ASSUME queue \in Seq(Runs), NEW r \in Runs, queue' \in {queue, Append(queue, r)}
    PROVE  /\ \A q \in Runs : Queued(q) => Queued(q)'
           /\ queue' = Append(queue, r) => Queued(r)'
<1>1. CASE queue' = queue
  BY <1>1 DEF Queued
<1>2. CASE queue' = Append(queue, r)
  <2>1. /\ Len(queue) \in Nat /\ Len(queue') = Len(queue) + 1 /\ queue'[Len(queue) + 1] = r
        /\ \A i \in 1..Len(queue) : queue'[i] = queue[i]
    BY <1>2
  <2> QED BY <2>1 DEF Queued
<1> QED BY <1>1, <1>2

(* What a save of the worker, or its exception, does to worker and rows.      *)
LEMMA PersistEffect ==
    ASSUME TypeOK, held \in Runs, NEW copy \in Copy, NEW pc, NEW next, Persist(copy, pc, next)
    PROVE  \/ /\ \A q \in Runs : db'[q].status = IF q = held THEN copy.status ELSE db[q].status
              /\ wpc' = pc /\ mem' = copy /\ at' = next /\ UNCHANGED <<held, skip, faults>>
           \/ /\ UNCHANGED db /\ faults' = faults + 1
              /\ \/ Handler(pc) = "poll" /\ wpc' = "poll" /\ held' = NoRun
                 \/ Handler(pc) = "fail" /\ wpc' = "fail" /\ UNCHANGED <<held, at, skip>>
BY CommitBecomes DEF Persist, Abort, Handler, Idle

(* Steps that take no run from anyone and start none.                         *)
LEMMA CustodyKept ==
    ASSUME TypeOK, Custody, UNCHANGED <<host, resume, wpc, held>>,
           \A r \in Runs : Queued(r) => Queued(r)',
           \A r \in Runs : db'[r].status = "running" => db[r].status = "running",
           held \in Runs => db'[held].status \in {db[held].status, "cancelled"},
           faults' = 0 => faults = 0
    PROVE  Custody'
BY DEF Custody, Owned, Queued, TypeOK, WorkerTypeOK

(* Triggers and clients.                                                      *)
LEMMA OutsideCustody ==
    ASSUME IInv, Phases, Custody,
           \/ \E r \in Runs : Trigger(r) \/ TriggerRaises(r) \/ Expire(r)
           \/ \E c \in Clients :
                 Client(c) \/ ClientRaises(c) \/ \E r \in Runs, cancel \in BOOLEAN : Ask(c, r, cancel)
    PROVE  Custody'
<1> USE DEF IInv
<1>0. db \in [Runs -> Copy] /\ queue \in Seq(Runs) /\ faults \in Nat
  BY DEF TypeOK
<1>1. ASSUME NEW r \in Runs, Trigger(r) \/ TriggerRaises(r) \/ Expire(r) PROVE Custody'
  <2>1. UNCHANGED <<host, resume, wpc, held>> /\ (faults' = 0 => faults = 0)
    <3>1. UNCHANGED <<host, resume, wpc, held>> /\ faults' \in {faults, faults + 1}
      BY <1>1 DEF Trigger, InitRun, CacheNewRun, RecordActor, CacheActor, EnqueueRun, TriggerRaises,
                  Expire, triggerFrame, workerVars, boundVars
    <3> QED BY <1>0, <3>1
  <2>2. \A q \in Runs : Queued(q) => Queued(q)'
    <3>1. queue' \in {queue, Append(queue, r)}
      BY <1>1 DEF Trigger, InitRun, CacheNewRun, RecordActor, CacheActor, EnqueueRun,
                  TriggerRaises, Expire, dataVars
    <3> QED BY <1>0, <3>1, QueuedAppend
  <2>3. \/ UNCHANGED db
        \/ (\E a \in BOOLEAN : Commit(r, NewRun(a))) /\ trig[r] # "accepted"
    BY <1>1 DEF Trigger, InitRun, CacheNewRun, RecordActor, CacheActor, EnqueueRun, TriggerRaises,
                Expire, dataVars
  <2>4. /\ \A q \in Runs : db'[q].status = "running" => db[q].status = "running"
        /\ held \in Runs => db'[held].status = db[held].status
    <3>1. \A a \in BOOLEAN : NewRun(a).status = "pending"
      BY DEF NewRun, NoCopy
    <3> QED BY <2>3, <3>1, NewRunType, CommitBecomes DEF Phases, TriggerPhase
  <2> QED BY <2>1, <2>2, <2>4, CustodyKept
<1>2. ASSUME NEW c \in Clients,
             Client(c) \/ ClientRaises(c) \/ \E r \in Runs, cancel \in BOOLEAN : Ask(c, r, cancel)
      PROVE  Custody'
  <2>1. UNCHANGED <<host, resume, wpc, held, queue>> /\ (faults' = 0 => faults = 0)
    <3>1. UNCHANGED clientFrame /\ faults' \in {faults, faults + 1}
      BY <1>2 DEF Client, Fill, CancelRun, CacheCancelled, ClientRaises, Ask
    <3> QED BY <1>0, <3>1 DEF clientFrame, workerVars
  <2>2. \A q \in Runs : db'[q].status \in {db[q].status, "cancelled"}
    <3>1. CASE CancelRun(c)
      <4>1. client[c].run \in Runs /\ [client[c].copy EXCEPT !.status = "cancelled"] \in Copy
            /\ [client[c].copy EXCEPT !.status = "cancelled"].status = "cancelled"
        <5>1. client[c].copy \in Copy /\ client[c].run \in Runs
          BY <3>1 DEF CancelRun, TypeOK, Request
        <5>2. [client[c].copy EXCEPT !.status = "cancelled"].status = "cancelled"
          BY <5>1 DEF Copy
        <5> QED BY <5>1, <5>2, UpdateType DEF Status
      <4> QED BY <3>1, <4>1, CommitBecomes DEF CancelRun
    <3>2. CASE ~CancelRun(c)
      BY <1>2, <3>2 DEF Client, Fill, CacheCancelled, ClientRaises, Ask
    <3> QED BY <3>1, <3>2
  <2>3. \A q \in Runs : Queued(q) => Queued(q)'
    BY <2>1 DEF Queued
  <2> QED BY <2>1, <2>2, <2>3, CustodyKept
<1> QED BY <1>1, <1>2

(* Every step of the worker: one step per action.                             *)
LEMMA WorkerCustody ==
    ASSUME IInv, Phases, Custody, Worker \/ Timeout
    PROVE  Custody'
<1> USE DEF IInv
<1>0. /\ mem \in Copy /\ wpc \in WorkerState /\ NoRun \notin Runs /\ queue \in Seq(Runs)
      /\ wpc \notin {"poll", "stopped"} => held \in Runs
      /\ at \in 1..(NSteps + 1) /\ NSteps \in Nat /\ faults \in Nat
  BY NoRunAssumption, NStepsAssumption DEF TypeOK, WorkerTypeOK
(* A save under way to pc, or its exception. *)
<1>1. ASSUME NEW copy \in Copy, NEW pc, NEW next, Persist(copy, pc, next), held \in Runs,
             UNCHANGED <<queue, host, resume>>, pc \notin {"poll", "stopped"},
             pc \in {"timedout", "failed"} => copy.status = "failed"
      PROVE  Custody'
  <2>1. held # NoRun /\ host \notin {"down", "boot"}
    BY <1>0, <1>1 DEF Custody
  <2>2. CASE /\ \A q \in Runs : db'[q].status = IF q = held THEN copy.status ELSE db[q].status
             /\ wpc' = pc /\ UNCHANGED <<held, faults>>
    BY <1>1, <2>1, <2>2 DEF Custody, Owned
  <2>3. CASE UNCHANGED db /\ faults' = faults + 1 /\ wpc' \in {"poll", "fail"}
             /\ (wpc' = "poll" => held' = NoRun)
    <3>1. faults' # 0
      BY <1>0, <2>3
    <3> QED BY <1>1, <2>1, <2>3, <3>1 DEF Custody
  <2> QED BY <1>1, <2>2, <2>3, PersistEffect
<1>2. \A st \in Status : [mem EXCEPT !.status = st] \in Copy /\ [mem EXCEPT !.status = st].status = st
  BY <1>0, UpdateType DEF Copy
<1>3. \A s \in Steps, st \in StepStatus : [mem EXCEPT !.steps[s] = st] \in Copy
  BY <1>0, UpdateType
(* Steps between two places of the same run. *)
<1>4. ASSUME UNCHANGED <<db, queue, host, resume, held, faults>>,
             wpc' = wpc \/ {wpc, wpc'} \cap {"poll", "stopped", "timedout", "failed"} = {}
      PROVE  Custody'
  BY <1>4 DEF Custody, Owned
<1>5. CASE Flush
  <2>1. CASE UNCHANGED <<wpc, held, faults>>
    BY <1>4, <1>5, <2>1 DEF Flush, workerFrame
  <2>2. CASE Abort(mem, wpc)
    <3>1. UNCHANGED <<db, queue, host, resume>> /\ held \in Runs
      BY <1>5 DEF Flush, workerFrame, TypeOK, WorkerTypeOK
    <3>2. faults' # 0 /\ wpc' \in {"poll", "fail"} /\ (wpc' = "poll" => held' = NoRun)
      BY <1>0, <2>2 DEF Abort, Idle
    <3>3. host \notin {"down", "boot"}
      BY <1>0, <3>1 DEF Custody
    <3> QED BY <3>1, <3>2, <3>3 DEF Custody
  <2> QED BY <1>5, <2>1, <2>2 DEF Flush
<1>6. CASE Pop
  <2>1. /\ held' = queue[1] /\ held' \in Runs /\ Len(queue) \in Nat \ {0} /\ Len(queue') = Len(queue) - 1
        /\ \A i \in 1..Len(queue') : queue'[i] = queue[i + 1]
    BY <1>0, <1>6 DEF Pop
  <2>2. \A r \in Runs : Queued(r) => held' = r \/ Queued(r)'
    <3> TAKE r \in Runs
    <3> HAVE Queued(r)
    <3>1. PICK i \in 1..Len(queue) : queue[i] = r
      BY DEF Queued
    <3>2. CASE i = 1
      BY <2>1, <3>1, <3>2
    <3>3. CASE i # 1
      <4>1. i - 1 \in 1..Len(queue') /\ (i - 1) + 1 = i
        BY <2>1, <3>3
      <4> QED BY <2>1, <3>1, <4>1 DEF Queued
    <3> QED BY <3>2, <3>3
  <2>3. held = NoRun /\ UNCHANGED <<db, host, resume, faults>> /\ wpc' = "popped" /\ host \in {"up", "stopping"}
    BY <1>6 DEF Pop, Custody, workerFrame
  <2> QED BY <1>0, <2>2, <2>3 DEF Custody, Owned, Queued
<1>7. CASE Load \/ Execute \/ SkipStep \/ Invoke \/ CallSucceeds \/ CallFails \/ Announce
  BY <1>4, <1>7 DEF Load, Execute, SkipStep, Invoke, CallSucceeds, CallFails, Answer, Announce, dataVars,
                    workerFrame
<1>13. CASE Timeout
  BY <1>4, <1>13 DEF Timeout, CutShort, dataVars, workerFrame
<1>8. CASE Begin
  BY <1>0, <1>1, <1>2, <1>8 DEF Begin, workerFrame, Status
<1>9. CASE EnterStep
  <2>1. [mem EXCEPT !.cur = at] \in Copy
    BY <1>0, <1>9, UpdateType DEF EnterStep
  <2> QED BY <1>0, <1>1, <1>9, <2>1 DEF EnterStep, workerFrame
<1>10. CASE StartStep
  <2>1. at \in Steps /\ held \in Runs /\ UNCHANGED <<queue, host, resume>>
    BY <1>0, <1>10 DEF StartStep, workerFrame, TypeOK, WorkerTypeOK
  <2> DEFINE copy == [mem EXCEPT !.steps[at] = "running"]
  <2>2. Persist(copy, "invoke", at)
    BY <1>10 DEF StartStep
  <2>3. copy \in Copy
    BY <1>3, <2>1 DEF StepStatus
  <2> HIDE DEF copy
  <2> QED BY <1>1, <2>1, <2>2, <2>3
<1>14. CASE SettleStep \/ Unwind
  <2>1. held \in Runs /\ UNCHANGED <<queue, host, resume>>
    BY <1>0, <1>14 DEF SettleStep, Unwind, workerFrame
  <2>2. \E pc \in {"walk", "fail", "expired", "unloaded"}, next \in {at, at + 1} : Persist(mem, pc, next)
    BY <1>14 DEF SettleStep, Unwind
  <2> QED BY <1>0, <1>1, <2>1, <2>2
<1>11. CASE Succeed \/ EndCutShort \/ Fail
  <2>1. held \in Runs /\ UNCHANGED <<queue, host, resume>>
    BY <1>0, <1>11 DEF Succeed, EndCutShort, Fail, workerFrame
  <2>2. CASE \/ Persist([mem EXCEPT !.status = "success"], "succeeded", at)
             \/ Persist([mem EXCEPT !.status = "cancelled"], "cancelled", at)
    BY <1>1, <1>2, <2>1, <2>2 DEF Status
  <2>3. CASE \E pc \in {"timedout", "failed"} : Persist([mem EXCEPT !.status = "failed"], pc, at)
    BY <1>1, <1>2, <2>1, <2>3 DEF Status
  <2> QED BY <1>11, <2>2, <2>3 DEF Succeed, EndCutShort, Fail
<1>12. CASE Finish
  <2>1. db[held].status # "running" /\ held \in Runs
    BY <1>0, <1>12 DEF Finish, Custody, Phases, WorkerPhase
  <2>2. held' = NoRun /\ wpc' = "poll" /\ UNCHANGED <<db, queue, host, resume, faults>>
    BY <1>12 DEF Finish, Idle, dataVars, workerFrame
  <2> QED BY <2>1, <2>2 DEF Custody, Owned
<1> QED BY <1>5, <1>6, <1>7, <1>8, <1>9, <1>10, <1>11, <1>12, <1>13, <1>14 DEF Worker

(* The process dies, is unloaded, comes back.                                 *)
LEMMA ProcessCustody ==
    ASSUME IInv, Phases, Custody, Crash \/ Unload \/ Stop \/ Boot
    PROVE  Custody'
<1> USE DEF IInv
<1>0. queue \in Seq(Runs)
  BY DEF TypeOK
<1>1. CASE Crash \/ Stop
  BY <1>1 DEF Crash, Stop, Die, Idle, Custody
<1>2. CASE Unload
  <2>1. host = "up" /\ host' = "stopping" /\ resume' = {}
    BY <1>2 DEF Unload, Custody
  <2>2. CASE Idle("stopped")
    BY <2>1, <2>2 DEF Idle, Custody
  <2>3. CASE InTry /\ CutShort("unloading", "unloaded")
    BY <2>1, <2>3 DEF CutShort, Custody
  <2> QED BY <1>2, <2>2, <2>3 DEF Unload
<1>3. CASE Boot
  <2>1. UNCHANGED <<db, wpc, held, faults>>
    BY <1>3 DEF Boot, OnLoad, ResumeRun, StartWorker, bootFrame, workerVars, boundVars
  <2>2. CASE OnLoad
    BY <2>1, <2>2 DEF OnLoad, CrashedRuns, Custody
  <2>3. ASSUME NEW r \in Runs, ResumeRun(r) PROVE Custody'
    <3>1. (\A q \in Runs : Queued(q) => Queued(q)') /\ Queued(r)'
      BY <1>0, <2>3, QueuedAppend DEF ResumeRun
    <3> QED BY <2>1, <2>3, <3>1 DEF ResumeRun, Custody, Owned, Queued
  <2>4. CASE StartWorker
    BY <2>1, <2>4 DEF StartWorker, Custody, Owned
  <2> QED BY <1>3, <2>2, <2>3, <2>4 DEF Boot
<1> QED BY <1>1, <1>2, <1>3

(* Every action keeps the runs in custody. *)
LEMMA CustodyStep == IInv /\ Phases /\ Custody /\ [Next]_vars => Custody'
<1> SUFFICES ASSUME IInv, Phases, Custody, [Next]_vars PROVE Custody'
  OBVIOUS
<1>1. CASE UNCHANGED vars
  BY <1>1 DEF vars, dataVars, workerVars, boundVars, Custody, Owned
<1> QED BY <1>1, OutsideCustody, WorkerCustody, ProcessCustody DEF Next, Quiet

(* The invariants of the refinement hold in every behaviour. *)
LEMMA PhasesAlways == Spec => [](IInv /\ Phases)
<1>1. Init => IInv /\ Phases
  BY InitType, InitTruthful, InitRefines DEF IInv
<1>2. IInv /\ Phases /\ [Next]_vars => (IInv /\ Phases)'
  BY TypeStep, TruthfulStep, NextRefines DEF IInv
<1> QED BY <1>1, <1>2, PTL DEF Spec

(* For any number of runs, crashes and resumptions: while the plugin is up and *)
(* the store has answered, no run that the database shows RUNNING is lost: the *)
(* recovery of on_load queues every one, and the worker lets go of a run only  *)
(* when it has saved how it ended.                                             *)
THEOREM RunningHasOwner == Spec => []RunningIsOwned
<1>1. Init => Custody
  BY DEF Init, Custody, NoCopy
<1>2. Custody => RunningIsOwned
  BY DEF Custody, RunningIsOwned
<1> QED BY <1>1, <1>2, CustodyStep, PhasesAlways, PTL DEF Spec

-----------------------------------------------------------------------------
(* Without Redis the queue dies with the process, so a run is in one place    *)
(* only: with its trigger, queued once, to be resumed or with the worker.     *)

OnePlace(r) ==
    /\ \A i, j \in 1..Len(queue) : queue[i] = r /\ queue[j] = r => i = j
    /\ Queued(r) => held # r /\ r \notin resume
    /\ r \in resume => held # r

NothingWaitsDown ==
    host = "down" => queue = <<>> /\ \A r \in Runs : trig[r] \in {"none", "accepted", "lost"}

AllOnePlace == (\A r \in Runs : OnePlace(r)) /\ NothingWaitsDown

(* Steps that move no run. *)
LEMMA PlacesKept ==
    ASSUME TypeOK, AllOnePlace, UNCHANGED <<queue, resume>>, held' \in {held, NoRun}, host' = "down" => host = "down",
           \/ UNCHANGED trig
           \/ host # "down"
    PROVE  AllOnePlace'
<1>1. NoRun \notin Runs
  BY NoRunAssumption
<1> QED BY <1>1 DEF AllOnePlace, OnePlace, NothingWaitsDown, Queued

(* A run that was nowhere is queued. *)
LEMMA PlacesAppend ==
    ASSUME TypeOK, AllOnePlace, NEW x \in Runs, queue' = Append(queue, x), ~Queued(x), held # x, x \notin resume',
           resume' \subseteq resume, UNCHANGED <<held, host>>, host # "down"
    PROVE  AllOnePlace'
<1>1. /\ Len(queue) \in Nat /\ Len(queue') = Len(queue) + 1 /\ queue'[Len(queue) + 1] = x
      /\ \A i \in 1..Len(queue) : queue'[i] = queue[i]
  <2>1. queue \in Seq(Runs)
    BY DEF TypeOK
  <2> QED BY <2>1
<1>2. \A r \in Runs : Queued(r)' => Queued(r) \/ r = x
  BY <1>1 DEF Queued
<1>3. \A r \in Runs : \A i, j \in 1..Len(queue') : queue'[i] = r /\ queue'[j] = r => i = j
  BY <1>1 DEF AllOnePlace, OnePlace, Queued
<1> QED BY <1>2, <1>3 DEF AllOnePlace, OnePlace, NothingWaitsDown

(* Every action leaves every run in one place. *)
LEMMA PlacesStep ==
    ASSUME ~HasRedis, TypeOK, Phases, Custody, AllOnePlace, [Next]_vars
    PROVE  AllOnePlace'
<1> USE DEF Phases, TriggerPhase
<1>0. queue \in Seq(Runs) /\ trig \in [Runs -> TriggerState] /\ NoRun \notin Runs
  BY NoRunAssumption DEF TypeOK
<1>1. ASSUME NEW r \in Runs, EnqueueRun(r) PROVE AllOnePlace'
  <2>1. /\ trig[r] = "ready" /\ queue' = Append(queue, r) /\ UNCHANGED <<host, resume, held>>
    BY <1>1 DEF EnqueueRun, triggerFrame, workerVars
  <2>2. held # r /\ r \notin resume /\ ~Queued(r)
    BY <2>1 DEF Queued
  <2>3. host # "down"
    BY <2>1 DEF AllOnePlace, NothingWaitsDown
  <2> QED BY <2>1, <2>2, <2>3, PlacesAppend
<1>2. ASSUME NEW r \in Runs, InitRun(r) \/ CacheNewRun(r) \/ RecordActor(r) \/ CacheActor(r)
                              \/ TriggerRaises(r) \/ Expire(r)
      PROVE  AllOnePlace'
  <2>1. UNCHANGED <<queue, resume, held, host>>
    BY <1>2 DEF InitRun, CacheNewRun, RecordActor, CacheActor, TriggerRaises, Expire, dataVars, triggerFrame,
                workerVars
  <2>2. UNCHANGED trig \/ host # "down"
    BY <1>2 DEF InitRun, CacheNewRun, RecordActor, CacheActor, TriggerRaises, Expire, AllOnePlace,
                NothingWaitsDown
  <2> QED BY <2>1, <2>2, PlacesKept
<1>3. ASSUME NEW c \in Clients,
             Client(c) \/ ClientRaises(c) \/ \E r \in Runs, cancel \in BOOLEAN : Ask(c, r, cancel)
      PROVE  AllOnePlace'
  <2>1. UNCHANGED clientFrame
    BY <1>3 DEF Client, Fill, CancelRun, CacheCancelled, ClientRaises, Ask
  <2> QED BY <2>1, PlacesKept DEF clientFrame, workerVars
<1>4. CASE Pop
  <2>1. /\ held' = queue[1] /\ held' \in Runs /\ Len(queue) \in Nat \ {0} /\ Len(queue') = Len(queue) - 1
        /\ \A i \in 1..Len(queue') : queue'[i] = queue[i + 1]
    BY <1>0, <1>4 DEF Pop
  <2>2. UNCHANGED <<host, resume>> /\ host # "down"
    BY <1>4 DEF Pop, workerFrame
  <2>3. \A i \in 1..Len(queue') : i + 1 \in 1..Len(queue) /\ i + 1 # 1
    BY <2>1
  <2>4. \A r \in Runs : (Queued(r)' => Queued(r)) /\ (held' = r => Queued(r) /\ ~Queued(r)')
    BY <2>1, <2>3 DEF Queued, AllOnePlace, OnePlace
  <2>5. \A r \in Runs : \A i, j \in 1..Len(queue') : queue'[i] = r /\ queue'[j] = r => i = j
    <3> SUFFICES ASSUME NEW r \in Runs, NEW i \in 1..Len(queue'), NEW j \in 1..Len(queue'),
                        queue'[i] = r, queue'[j] = r
                 PROVE  i = j
      OBVIOUS
    <3>1. i + 1 = j + 1
      BY <2>1, <2>3 DEF AllOnePlace, OnePlace
    <3> QED BY <3>1
  <2> QED BY <2>2, <2>4, <2>5 DEF AllOnePlace, OnePlace, NothingWaitsDown
<1>5. ASSUME Worker \/ Timeout, ~Pop PROVE AllOnePlace'
  <2>1. UNCHANGED <<queue, workerFrame>> /\ held' \in {held, NoRun}
    BY <1>5 DEF Worker, Timeout, Flush, Load, Begin, Execute, EnterStep, SkipStep, StartStep, Invoke,
                CallSucceeds, CallFails, Answer, SettleStep, Succeed, Announce, Unwind, EndCutShort, Fail,
                Finish, Persist, Abort, Idle, dataVars
  <2> QED BY <2>1, PlacesKept DEF workerFrame
<1>6. CASE Crash \/ Stop
  <2>1. Die
    BY <1>6 DEF Crash, Stop
  <2>2. queue' = <<>> /\ resume' = {} /\ \A r \in Runs : trig'[r] \in {"none", "accepted", "lost"}
    BY <2>1 DEF Die
  <2>3. \A i \in 1..Len(queue') : FALSE
    BY <2>2
  <2> QED BY <2>2, <2>3 DEF AllOnePlace, OnePlace, NothingWaitsDown, Queued
<1>7. CASE Unload
  <2>1. UNCHANGED <<queue, resume, trig>> /\ host' = "stopping" /\ held' \in {held, NoRun}
    BY <1>7 DEF Unload, Idle, dataVars
  <2> QED BY <2>1, PlacesKept
<1>8. CASE Boot
  <2>1. UNCHANGED <<held, trig>>
    BY <1>8 DEF Boot, OnLoad, ResumeRun, StartWorker, bootFrame, workerVars
  <2>2. CASE OnLoad
    <3>1. queue' = <<>> /\ held' = NoRun /\ host' = "boot"
      BY <2>1, <2>2 DEF OnLoad, AllOnePlace, NothingWaitsDown, Custody
    <3>2. \A i \in 1..Len(queue') : FALSE
      BY <3>1
    <3> QED BY <1>0, <3>1, <3>2 DEF AllOnePlace, OnePlace, NothingWaitsDown, Queued
  <2>3. ASSUME NEW r \in Runs, ResumeRun(r) PROVE AllOnePlace'
    <3>1. r \in resume /\ queue' = Append(queue, r) /\ resume' = resume \ {r} /\ UNCHANGED host /\ host = "boot"
      BY <2>3 DEF ResumeRun, bootFrame
    <3>2. ~Queued(r) /\ held # r
      BY <3>1 DEF AllOnePlace, OnePlace
    <3> QED BY <2>1, <3>1, <3>2, PlacesAppend
  <2>4. CASE StartWorker
    BY <2>1, <2>4, PlacesKept DEF StartWorker
  <2> QED BY <1>8, <2>2, <2>3, <2>4 DEF Boot
<1>9. CASE UNCHANGED vars
  BY <1>9, PlacesKept DEF vars, dataVars, workerVars
<1> QED BY <1>1, <1>2, <1>3, <1>4, <1>5, <1>6, <1>7, <1>8, <1>9 DEF Next, Trigger, Quiet

LEMMA PlacesAlways ==
    ASSUME ~HasRedis
    PROVE  Spec => [](IInv /\ Phases /\ Custody /\ AllOnePlace)
<1>1. Init => Custody /\ AllOnePlace
  BY DEF Init, Custody, AllOnePlace, OnePlace, NothingWaitsDown, Queued, NoCopy
<1>2. IInv /\ Phases /\ Custody /\ AllOnePlace /\ [Next]_vars => (Custody /\ AllOnePlace)'
  BY PlacesStep, CustodyStep DEF IInv
<1> QED BY <1>1, <1>2, PhasesAlways, PTL DEF Spec

-----------------------------------------------------------------------------
(* And without cancellations a run that has ended is in no place at all, unless *)
(* the worker is about to say how it ended.                                     *)

(* What was published about a run, and what its row shows. *)
Told(r) ==
    \A e \in announced[r] :
        db[r].status = e \/ (e = "success" /\ db[r].status = "cancelled" /\ stops > 0)

Sole(r) ==
    /\ trig[r] # "accepted" => db[r].status \in {"none", "pending"}
    /\ db[r].status \in Terminal =>
          /\ ~Queued(r) /\ r \notin resume
          /\ held = r => wpc \in {"succeeded", "announced", "timedout", "failed", "unloaded", "cancelled"}
    /\ announced[r] # {} /\ held = r => wpc \in {"announced", "unloaded", "cancelled"}
    /\ Told(r)

SoleWorker ==
    /\ wpc \in UnderWay \cup {"fail"} => db[held].status = "running"
    /\ wpc \in {"succeeded", "announced"} => db[held].status = "success"
    /\ wpc \in {"timedout", "failed"} => db[held].status = "failed"
    /\ wpc = "unloaded" => db[held].status \in {"running", "success"}
    /\ wpc \in {"unloading", "unloaded", "cancelled"} => stops > 0

AllSole == (\A r \in Runs : Sole(r)) /\ SoleWorker

(* What no step does to a run that has ended. *)
StaysEnded == \A r \in Runs : db[r].status \in Terminal => db'[r].status \in Terminal

(* Triggers. *)
LEMMA TriggerSole ==
    ASSUME IInv, Phases, Custody, AllOnePlace, AllSole, ~HasRedis,
           NEW r \in Runs, Trigger(r) \/ TriggerRaises(r) \/ Expire(r)
    PROVE  AllSole' /\ StaysEnded
<1> USE DEF IInv, AllSole, AllOnePlace, OnePlace, NothingWaitsDown, Phases, TriggerPhase, Told, UnderWay
<1>0. /\ queue \in Seq(Runs) /\ trig \in [Runs -> TriggerState] /\ db \in [Runs -> Copy]
      /\ wpc \notin {"poll", "stopped"} => held \in Runs
      /\ \A q \in Runs : announced[q] \subseteq {"success", "failed"}
  BY DEF TypeOK, WorkerTypeOK
<1>1. UNCHANGED <<host, resume, held, wpc, announced, stops>>
  BY DEF Trigger, InitRun, CacheNewRun, RecordActor, CacheActor, EnqueueRun, TriggerRaises, Expire,
         triggerFrame, workerVars, historyVars, boundVars
<1>2. ASSUME NEW a \in BOOLEAN, Commit(r, NewRun(a)), trig[r] \in {"none", "named"}, UNCHANGED queue,
             NEW t \in {"created", "recorded"}, trig' = [trig EXCEPT ![r] = t], trig[r] = "none" => host # "down"
      PROVE  AllSole' /\ StaysEnded
  <2>1. \A q \in Runs : db'[q].status = IF q = r THEN "pending" ELSE db[q].status
    <3>1. NewRun(a) \in Copy /\ NewRun(a).status = "pending"
      BY NewRunType DEF NewRun, NoCopy
    <3> QED BY <1>2, <3>1, CommitBecomes
  <2>2. held # r /\ r \notin resume /\ db[r].status \in {"none", "pending"} /\ announced[r] = {}
    BY <1>0, <1>2 DEF Sole
  <2>3. \A q \in Runs : Sole(q)'
    BY <1>0, <1>1, <1>2, <2>1, <2>2 DEF Sole, Queued, Terminal
  <2>4. SoleWorker'
    BY <1>0, <1>1, <1>2, <2>1, <2>2 DEF SoleWorker
  <2> QED BY <2>1, <2>2, <2>3, <2>4 DEF StaysEnded, Terminal
<1>3. CASE InitRun(r) \/ RecordActor(r)
  BY <1>2, <1>3 DEF InitRun, RecordActor, triggerFrame
<1>4. CASE CacheNewRun(r) \/ CacheActor(r) \/ TriggerRaises(r) \/ Expire(r)
  <2>1. UNCHANGED <<db, queue>>
        /\ \/ UNCHANGED trig
           \/ /\ trig[r] \notin {"none", "accepted", "lost"}
              /\ \E t \in TriggerState : trig' = [trig EXCEPT ![r] = t]
    BY <1>4 DEF CacheNewRun, CacheActor, TriggerRaises, Expire, dataVars, TriggerState
  <2>2. \A q \in Runs : trig'[q] # "accepted" => trig[q] # "accepted"
    BY <1>0, <2>1
  <2>3. SoleWorker'
    BY <1>1, <2>1 DEF SoleWorker
  <2> QED BY <1>1, <2>1, <2>2, <2>3 DEF Sole, Queued, StaysEnded
<1>5. CASE EnqueueRun(r)
  <2>1. /\ trig[r] = "ready" /\ queue' = Append(queue, r) /\ UNCHANGED db
        /\ trig' = [trig EXCEPT ![r] = "accepted"]
    BY <1>5 DEF EnqueueRun
  <2>2. db[r].status \in {"none", "pending"}
    BY <2>1 DEF Sole
  <2>3. announced[r] = {}
    BY <1>0, <2>2 DEF Sole
  <2>4. /\ Len(queue) \in Nat /\ Len(queue') = Len(queue) + 1 /\ queue'[Len(queue) + 1] = r
        /\ \A i \in 1..Len(queue) : queue'[i] = queue[i]
    BY <1>0, <2>1
  <2>5. \A q \in Runs : q # r => (Queued(q)' => Queued(q))
    BY <2>4 DEF Queued
  <2>6. \A q \in Runs : Sole(q)'
    BY <1>0, <1>1, <2>1, <2>2, <2>3, <2>5 DEF Sole, Terminal
  <2>7. SoleWorker' /\ StaysEnded
    BY <1>1, <2>1 DEF SoleWorker, StaysEnded
  <2> QED BY <2>6, <2>7
<1> QED BY <1>3, <1>4, <1>5 DEF Trigger

(* A save of the worker, or its exception: the run stays with the worker, and *)
(* its row says what the worker is about.                                     *)
LEMMA PersistSole ==
    ASSUME IInv, Phases, Custody, AllOnePlace, AllSole,
           held \in Runs, NEW copy \in Copy, NEW pc, NEW next, Persist(copy, pc, next),
           UNCHANGED <<queue, resume, trig, announced, host, stops>>, host # "down",
           wpc \in {"loaded", "fail", "unloaded"} \cup (UnderWay \ {"started"}),
           wpc = "unloaded" => pc = "cancelled",
           wpc = "loaded" => pc = "started",
           pc \in {"unloaded", "cancelled"} => stops > 0,
           \/ /\ copy.status = "running"
              /\ pc \in {"started", "walk", "dispatch", "invoke", "fail", "expired", "unloaded"}
           \/ copy.status = "success" /\ pc = "succeeded"
           \/ copy.status = "failed" /\ pc \in {"timedout", "failed"}
           \/ copy.status = "cancelled" /\ pc = "cancelled"
    PROVE  AllSole' /\ StaysEnded
<1> USE DEF IInv, AllSole, AllOnePlace, OnePlace, NothingWaitsDown, Phases, TriggerPhase, UnderWay
<1>1. /\ trig[held] = "accepted" /\ ~Queued(held) /\ held \notin resume
      /\ wpc # "unloaded" => db[held].status \notin Terminal /\ announced[held] = {}
      /\ wpc \notin {"loaded", "unloaded"} => db[held].status = "running"
      /\ wpc = "unloaded" => db[held].status \in {"running", "success"}
      /\ \A r \in Runs : announced[r] \in SUBSET {"success", "failed"}
      /\ NoRun \notin Runs
  BY NoRunAssumption DEF Sole, SoleWorker, TypeOK, Terminal
<1>2. CASE /\ \A q \in Runs : db'[q].status = IF q = held THEN copy.status ELSE db[q].status
           /\ wpc' = pc /\ UNCHANGED held
  <2>1. ASSUME NEW r \in Runs PROVE Sole(r)'
    <3>1. CASE r = held
      <4>1. CASE wpc = "unloaded"
        <5>1. Told(r)'
          BY <1>1, <1>2, <3>1, <4>1 DEF Sole, Told
        <5> QED BY <1>1, <1>2, <3>1, <4>1, <5>1 DEF Sole, Queued, Terminal
      <4>2. CASE wpc # "unloaded"
        BY <1>1, <1>2, <3>1, <4>2 DEF Sole, Told, Queued, Terminal
      <4> QED BY <4>1, <4>2
    <3>2. CASE r # held
      BY <1>1, <1>2, <3>2 DEF Sole, Told, Queued, Terminal
    <3> QED BY <3>1, <3>2
  <2>2. SoleWorker'
    BY <1>2 DEF SoleWorker
  <2>3. StaysEnded
    BY <1>1, <1>2 DEF StaysEnded, Terminal
  <2> QED BY <2>1, <2>2, <2>3
<1>3. CASE /\ UNCHANGED db
           /\ \/ Handler(pc) = "poll" /\ wpc' = "poll" /\ held' = NoRun
              \/ Handler(pc) = "fail" /\ wpc' = "fail" /\ UNCHANGED held
  <2>1. wpc' = "fail" => wpc # "unloaded" /\ announced[held] = {} /\ db[held].status = "running" /\ held' = held
    <3>1. wpc' = "fail" => wpc \notin {"loaded", "unloaded"}
      BY <1>3 DEF Handler
    <3> QED BY <1>1, <1>3, <3>1
  <2>2. ASSUME NEW r \in Runs PROVE Sole(r)'
    BY <1>1, <1>3, <2>1 DEF Sole, Told, Queued, Terminal
  <2>3. SoleWorker'
    BY <1>3, <2>1 DEF SoleWorker
  <2> QED BY <1>3, <2>2, <2>3 DEF StaysEnded
<1> QED BY <1>2, <1>3, PersistEffect

(* The worker: one step per action. *)
LEMMA WorkerSole ==
    ASSUME IInv, Phases, Custody, AllOnePlace, AllSole, ~HasRedis, Worker \/ Timeout
    PROVE  AllSole' /\ StaysEnded
<1> USE DEF IInv, AllSole, AllOnePlace, OnePlace, NothingWaitsDown
<1>0. /\ mem \in Copy /\ wpc \in WorkerState /\ NoRun \notin Runs /\ queue \in Seq(Runs)
      /\ wpc \notin {"poll", "stopped"} => held \in Runs
      /\ at \in 1..(NSteps + 1) /\ NSteps \in Nat /\ announced \in [Runs -> SUBSET {"success", "failed"}]
  BY NoRunAssumption, NStepsAssumption DEF TypeOK, WorkerTypeOK
<1>1. \A st \in Status : [mem EXCEPT !.status = st] \in Copy /\ [mem EXCEPT !.status = st].status = st
  BY <1>0, UpdateType DEF Copy
<1>2. \A s \in Steps, st \in StepStatus :
         [mem EXCEPT !.steps[s] = st] \in Copy /\ [mem EXCEPT !.steps[s] = st].status = mem.status
  BY <1>0, UpdateType DEF Copy
<1>3. wpc \in UnderWay => mem.status = "running"
  BY DEF Phases, WorkerPhase
<1>4. wpc \notin {"poll", "stopped"} => host # "down"
  BY <1>0 DEF Custody
(* A save: what is left to show of it. *)
<1>5. ASSUME NEW copy \in Copy, NEW pc, NEW next, Persist(copy, pc, next),
             UNCHANGED <<queue, workerFrame, announced>>,
             wpc \in {"loaded", "fail", "unloaded"} \cup (UnderWay \ {"started"}),
             wpc = "unloaded" => pc = "cancelled",
             wpc = "loaded" => pc = "started",
             pc \in {"unloaded", "cancelled"} => wpc \in {"unloading", "unloaded"},
             \/ /\ copy.status = "running"
                /\ pc \in {"started", "walk", "dispatch", "invoke", "fail", "expired", "unloaded"}
             \/ copy.status = "success" /\ pc = "succeeded"
             \/ copy.status = "failed" /\ pc \in {"timedout", "failed"}
             \/ copy.status = "cancelled" /\ pc = "cancelled"
      PROVE  AllSole' /\ StaysEnded
  <2>1. held \in Runs /\ host # "down" /\ UNCHANGED <<queue, resume, trig, announced, host, stops>>
    BY <1>0, <1>4, <1>5 DEF workerFrame, UnderWay
  <2>2. pc \in {"unloaded", "cancelled"} => stops > 0
    BY <1>5 DEF SoleWorker
  <2> QED BY <1>5, <2>1, <2>2, PersistSole
(* Steps between two places of the same run. *)
<1>6. ASSUME UNCHANGED <<db, queue, workerFrame, announced, held>>,
             \/ wpc' = wpc
             \/ wpc = "popped" /\ wpc' = "loaded"
             \/ /\ wpc \in UnderWay
                /\ wpc' \in {"walk", "calling", "answered", "refused", "expiring", "expired"}
      PROVE  AllSole' /\ StaysEnded
  BY <1>6 DEF Sole, Told, SoleWorker, StaysEnded, Queued, UnderWay, Terminal, workerFrame
<1>7. CASE Flush
  BY <1>6, <1>7 DEF Flush, historyVars
<1>8. CASE Load \/ Execute \/ SkipStep \/ Invoke \/ CallSucceeds \/ CallFails \/ Timeout
  <2>1. UNCHANGED <<db, queue, workerFrame, announced, held>>
    BY <1>8 DEF Load, Execute, SkipStep, Invoke, CallSucceeds, CallFails, Answer, Timeout, dataVars, historyVars
  <2> QED BY <1>6, <1>8, <2>1
    DEF Load, Execute, SkipStep, Invoke, CallSucceeds, CallFails, Answer, Timeout, CutShort, UnderWay
<1>9. CASE Begin
  BY <1>1, <1>5, <1>9 DEF Begin, historyVars, Status, UnderWay
<1>10. CASE EnterStep
  <2>1. [mem EXCEPT !.cur = at] \in Copy /\ [mem EXCEPT !.cur = at].status = mem.status
    BY <1>0, <1>10, UpdateType DEF EnterStep, Copy
  <2> QED BY <1>3, <1>5, <1>10, <2>1 DEF EnterStep, historyVars, UnderWay
<1>11. CASE StartStep
  <2>1. at \in Steps /\ wpc = "dispatch" /\ UNCHANGED <<queue, workerFrame, announced>>
    BY <1>11 DEF StartStep, historyVars, TypeOK, WorkerTypeOK
  <2> DEFINE copy == [mem EXCEPT !.steps[at] = "running"]
  <2>2. Persist(copy, "invoke", at)
    BY <1>11 DEF StartStep
  <2>3. copy \in Copy /\ copy.status = "running"
    BY <1>2, <1>3, <2>1 DEF StepStatus, UnderWay
  <2> HIDE DEF copy
  <2> QED BY <1>5, <2>1, <2>2, <2>3 DEF UnderWay
<1>15. CASE SettleStep \/ Unwind
  <2>1. wpc \in {"answered", "refused", "expiring", "unloading"} /\ UNCHANGED <<queue, workerFrame, announced>>
    BY <1>15 DEF SettleStep, Unwind, historyVars
  <2>2. \E pc \in {"walk", "fail", "expired", "unloaded"}, next \in {at, at + 1} :
           Persist(mem, pc, next) /\ (pc = "unloaded" => wpc = "unloading")
    BY <1>15 DEF SettleStep, Unwind
  <2> QED BY <1>0, <1>3, <1>5, <2>1, <2>2 DEF UnderWay
<1>12. CASE Succeed \/ Fail \/ EndCutShort
  <2>1. UNCHANGED <<queue, workerFrame, announced>>
    BY <1>12 DEF Succeed, Fail, EndCutShort, historyVars
  <2>2. CASE wpc = "walk" /\ Persist([mem EXCEPT !.status = "success"], "succeeded", at)
    BY <1>1, <1>5, <2>1, <2>2 DEF Status, UnderWay
  <2>3. CASE wpc \in {"fail", "expired"}
             /\ \E pc \in {"timedout", "failed"} : Persist([mem EXCEPT !.status = "failed"], pc, at)
    BY <1>1, <1>5, <2>1, <2>3 DEF Status, UnderWay
  <2>4. CASE wpc = "unloaded" /\ Persist([mem EXCEPT !.status = "cancelled"], "cancelled", at)
    BY <1>1, <1>5, <2>1, <2>4 DEF Status, UnderWay
  <2> QED BY <1>12, <2>2, <2>3, <2>4 DEF Succeed, Fail, EndCutShort
<1>16. CASE Announce
  <2>1. /\ held \in Runs /\ held' = held /\ wpc = "succeeded" /\ wpc' = "announced"
        /\ UNCHANGED <<db, queue, host, resume, trig, stops>>
        /\ announced' = [announced EXCEPT ![held] = @ \cup {"success"}]
    BY <1>0, <1>16 DEF Announce, FinalEvent, Publish, dataVars, workerFrame
  <2>2. db[held].status = "success"
    BY <2>1 DEF SoleWorker
  <2>3. ASSUME NEW r \in Runs PROVE Sole(r)'
    <3>1. CASE r = held
      BY <1>0, <2>1, <2>2, <3>1 DEF Sole, Told, Queued
    <3>2. CASE r # held
      <4>1. announced'[r] = announced[r]
        BY <1>0, <2>1, <3>2
      <4> QED BY <1>0, <2>1, <3>2, <4>1 DEF Sole, Told, Queued
    <3> QED BY <3>1, <3>2
  <2>4. SoleWorker' /\ StaysEnded
    BY <2>1, <2>2 DEF SoleWorker, StaysEnded, UnderWay
  <2> QED BY <2>3, <2>4
<1>13. CASE Pop
  <2>1. /\ held' = queue[1] /\ held' \in Runs /\ Len(queue) \in Nat \ {0} /\ Len(queue') = Len(queue) - 1
        /\ \A i \in 1..Len(queue') : queue'[i] = queue[i + 1]
    BY <1>0, <1>13 DEF Pop
  <2>2. /\ UNCHANGED <<db, host, resume, trig, announced, stops>> /\ held = NoRun /\ wpc' = "popped"
        /\ host # "down"
    BY <1>13 DEF Pop, Custody, workerFrame, historyVars
  <2>3. \A i \in 1..Len(queue') : i + 1 \in 1..Len(queue) /\ i + 1 # 1
    BY <2>1
  <2>4. \A r \in Runs : (Queued(r)' => Queued(r)) /\ (held' = r => Queued(r))
    BY <2>1, <2>3 DEF Queued
  <2>5. \A r \in Runs : announced[r] # {} => db[r].status \in Terminal
    BY <1>0 DEF Sole, Told, Terminal
  <2>6. \A r \in Runs : Sole(r)'
    BY <1>0, <2>2, <2>4, <2>5 DEF Sole, Told, Terminal
  <2> QED BY <2>2, <2>6 DEF SoleWorker, StaysEnded, UnderWay
<1>14. CASE Finish
  <2>1. /\ held \in Runs /\ held' = NoRun /\ wpc' = "poll"
        /\ UNCHANGED <<db, queue, host, resume, trig, stops>>
        /\ announced' = [announced EXCEPT ![held] = @ \cup FinalEvent(wpc)]
    BY <1>0, <1>14 DEF Finish, Publish, Idle, dataVars, workerFrame
  <2>2. \A e \in FinalEvent(wpc) : db[held].status = e
    BY <1>14, <2>1 DEF Finish, FinalEvent, SoleWorker
  <2>3. ASSUME NEW r \in Runs PROVE Sole(r)'
    <3>1. CASE r = held
      <4>1. announced'[r] = announced[r] \cup FinalEvent(wpc)
        BY <1>0, <2>1, <3>1
      <4> QED BY <1>0, <2>1, <2>2, <3>1, <4>1 DEF Sole, Told, Queued
    <3>2. CASE r # held
      <4>1. announced'[r] = announced[r]
        BY <1>0, <2>1, <3>2
      <4> QED BY <1>0, <2>1, <3>2, <4>1 DEF Sole, Told, Queued
    <3> QED BY <3>1, <3>2
  <2>4. SoleWorker' /\ StaysEnded
    BY <2>1 DEF SoleWorker, StaysEnded, UnderWay
  <2> QED BY <2>3, <2>4
<1> QED BY <1>7, <1>8, <1>9, <1>10, <1>11, <1>12, <1>13, <1>14, <1>15, <1>16 DEF Worker

(* The process dies, is unloaded, comes back. *)
LEMMA ProcessSole ==
    ASSUME IInv, Phases, Custody, AllOnePlace, AllSole, ~HasRedis, Crash \/ Unload \/ Stop \/ Boot
    PROVE  AllSole' /\ StaysEnded
<1> USE DEF IInv, AllSole, AllOnePlace, OnePlace, NothingWaitsDown, Told, UnderWay
<1>0. /\ queue \in Seq(Runs) /\ NoRun \notin Runs /\ stops \in Nat
      /\ trig \in [Runs -> TriggerState] /\ \A r \in Runs : announced[r] \subseteq {"success", "failed"}
  BY NoRunAssumption DEF TypeOK
<1>1. CASE Crash \/ Stop
  <2>1. Die
    BY <1>1 DEF Crash, Stop
  <2>0. stops' \in {stops, stops + 1}
    BY <1>1 DEF Crash, Stop
  <2>2. /\ UNCHANGED <<db, announced>> /\ queue' = <<>> /\ resume' = {} /\ held' = NoRun /\ wpc' = "poll"
        /\ \A r \in Runs : /\ trig'[r] \in {"none", "accepted", "lost"}
                           /\ trig'[r] # "accepted" => trig[r] # "accepted"
    BY <1>0, <2>1 DEF Die, Idle, historyVars
  <2>3. \A r \in Runs : ~Queued(r)'
    BY <2>2 DEF Queued
  <2>4. ASSUME NEW r \in Runs PROVE Sole(r)'
    <3>1. trig'[r] # "accepted" => db'[r].status \in {"none", "pending"}
      BY <2>2 DEF Sole
    <3>2. held' # r /\ r \notin resume' /\ Told(r)'
      BY <1>0, <2>0, <2>2 DEF Sole
    <3> QED BY <2>3, <3>1, <3>2 DEF Sole
  <2>5. SoleWorker'
    BY <2>2 DEF SoleWorker
  <2>6. StaysEnded
    BY <2>2 DEF StaysEnded
  <2> QED BY <2>4, <2>5, <2>6
<1>2. CASE Unload
  <2>1. UNCHANGED <<db, queue, resume, trig, announced>> /\ host = "up" /\ host' = "stopping" /\ stops' = stops + 1
    BY <1>2 DEF Unload, dataVars, historyVars
  <2>2. CASE Idle("stopped")
    BY <1>0, <2>1, <2>2 DEF Idle, Sole, SoleWorker, Queued, StaysEnded
  <2>3. CASE InTry /\ CutShort("unloading", "unloaded") /\ UNCHANGED <<held, mem, at, skip>>
    <3>1. /\ held \in Runs
          /\ wpc \in (UnderWay \ {"started", "unloading"}) \cup {"succeeded", "announced", "fail"}
      BY <2>3 DEF InTry, TypeOK, WorkerTypeOK
    <3>2. wpc' \in {"unloading", "unloaded"} /\ (wpc' = "unloading" => wpc \in UnderWay)
      BY <2>3 DEF CutShort
    <3>3. ASSUME NEW r \in Runs PROVE Sole(r)'
      <4>1. held = r /\ db[r].status \in Terminal => wpc \in {"succeeded", "announced"} /\ wpc' = "unloaded"
        BY <2>3, <3>1, <3>2 DEF Sole, Terminal, CutShort
      <4>2. held = r /\ announced[r] # {} => wpc = "announced" /\ wpc' = "unloaded"
        BY <2>3, <3>1, <3>2 DEF Sole, CutShort
      <4> QED BY <1>0, <2>1, <2>3, <4>1, <4>2 DEF Sole, Queued
    <3>4. SoleWorker'
      BY <1>0, <2>1, <2>3, <3>1, <3>2 DEF SoleWorker
    <3> QED BY <2>1, <3>3, <3>4 DEF StaysEnded
  <2> QED BY <1>2, <2>2, <2>3 DEF Unload
<1>3. CASE Boot
  <2>0. UNCHANGED <<db, wpc, held, trig, announced, stops>>
    BY <1>3 DEF Boot, OnLoad, ResumeRun, StartWorker, bootFrame, workerVars, historyVars, boundVars
  <2>1. CASE OnLoad
    <3>1. queue = <<>> /\ queue' = queue /\ held = NoRun /\ resume' = CrashedRuns /\ host' = "boot"
      BY <2>1 DEF OnLoad, SoleWorker, Custody
    <3>2. \A r \in Runs : ~Queued(r)'
      BY <3>1 DEF Queued
    <3>3. \A r \in Runs : Sole(r)'
      BY <1>0, <2>0, <3>1, <3>2 DEF Sole, CrashedRuns, Terminal
    <3> QED BY <2>0, <3>1, <3>3 DEF SoleWorker, StaysEnded
  <2>2. ASSUME NEW x \in Runs, ResumeRun(x) PROVE AllSole' /\ StaysEnded
    <3>1. x \in resume /\ queue' = Append(queue, x) /\ resume' = resume \ {x} /\ host # "down" /\ UNCHANGED host
      BY <2>2 DEF ResumeRun, bootFrame
    <3>2. ~Queued(x) /\ held # x /\ db[x].status \notin Terminal
      BY <3>1 DEF Sole
    <3>3. /\ Len(queue) \in Nat /\ Len(queue') = Len(queue) + 1 /\ queue'[Len(queue) + 1] = x
          /\ \A i \in 1..Len(queue) : queue'[i] = queue[i]
      BY <1>0, <3>1
    <3>4. \A r \in Runs : Queued(r)' => Queued(r) \/ r = x
      BY <3>3 DEF Queued
    <3>5. \A r \in Runs : Sole(r)'
      BY <2>0, <3>1, <3>2, <3>4 DEF Sole
    <3> QED BY <2>0, <3>1, <3>5 DEF SoleWorker, StaysEnded
  <2>3. CASE StartWorker
    BY <2>0, <2>3 DEF StartWorker, Sole, SoleWorker, Queued, StaysEnded
  <2> QED BY <1>3, <2>1, <2>2, <2>3 DEF Boot
<1> QED BY <1>1, <1>2, <1>3

(* Every action keeps every run in its one place. *)
LEMMA SoleStep ==
    ASSUME ~HasRedis, Clients = {}
    PROVE  IInv /\ Phases /\ Custody /\ AllOnePlace /\ AllSole /\ [Next]_vars => AllSole' /\ StaysEnded
<1> SUFFICES ASSUME IInv, Phases, Custody, AllOnePlace, AllSole, [Next]_vars PROVE AllSole' /\ StaysEnded
  OBVIOUS
<1>1. CASE UNCHANGED vars
  BY <1>1 DEF vars, dataVars, workerVars, historyVars, boundVars, AllSole, Sole, Told, SoleWorker, Queued,
              StaysEnded
<1> QED BY <1>1, TriggerSole, WorkerSole, ProcessSole DEF Next, Quiet

LEMMA SoleAlways ==
    ASSUME ~HasRedis, Clients = {}
    PROVE  Spec => [](IInv /\ Phases /\ Custody /\ AllOnePlace /\ AllSole)
<1>1. Init => AllSole
  BY DEF Init, AllSole, Sole, Told, SoleWorker, UnderWay, Queued, NoCopy, Terminal
<1>2. IInv /\ Phases /\ Custody /\ AllOnePlace /\ AllSole /\ [Next]_vars => AllSole'
  BY SoleStep
<1> QED BY <1>1, <1>2, PlacesAlways, PTL DEF Spec

(* Without Redis and without cancellations, the store may fail as it likes:    *)
(* an ended run is not reopened by any recovery or retry of the engine.        *)
THEOREM EndedStaysEnded ==
    ASSUME ~HasRedis, Clients = {}
    PROVE  Spec => EndedNotReopened
<1>1. IInv /\ Phases /\ Custody /\ AllOnePlace /\ AllSole /\ [Next]_vars => [StaysEnded]_vars
  BY SoleStep
<1> QED BY <1>1, SoleAlways, PTL DEF Spec, EndedNotReopened, StaysEnded

(* Under the same conditions, every final event that was published still       *)
(* agrees with what the database shows of the run, but for the success of a    *)
(* run whose process was unloaded before the event had been delivered.         *)
THEOREM AnnouncementsTrue ==
    ASSUME ~HasRedis, Clients = {}
    PROVE  Spec => []AnnouncementIsTrue
<1>1. AllSole => AnnouncementIsTrue
  BY DEF AllSole, Sole, Told, AnnouncementIsTrue
<1> QED BY <1>1, SoleAlways, PTL

-----------------------------------------------------------------------------
(* Without Redis and without cancellations the worker is the only writer of    *)
(* the successes of a run, and reads them from the row: it has at hand every   *)
(* success the row shows, and has all of them behind it or among the steps it  *)
(* skips.  A success it has not saved yet is shown by its object alone.        *)

Won(copy) == {s \in Steps : copy.steps[s] = "success"}

NothingCached == \A r \in Runs : cache[r] = NoCopy

WorkerRecorded ==
    /\ Loaded => Won(db[held]) \subseteq Won(mem)
    /\ wpc \in {"walk", "dispatch", "invoke", "calling", "refused"} => Won(mem) \subseteq skip \cup 1..(at - 1)
    /\ wpc = "answered" => Won(mem) \subseteq skip \cup 1..at
    /\ wpc \in {"invoke", "calling"} => at \notin skip

Recorded == NothingCached /\ WorkerRecorded

(* What no step takes back, nor does again. *)
WonStays == \A r \in Runs : Won(db[r]) \subseteq Won(db'[r]) /\ \A s \in Won(db[r]) : calls'[r][s] = calls[r][s]

(* A save keeps the successes of the row as far as the saved copy shows them or *)
(* does not know their steps, and adds those of the copy.                       *)
LEMMA RowWon ==
    ASSUME NEW row \in Copy, NEW copy \in Copy,
           \A s \in Won(row) : copy.steps[s] \in {"success", "none"}
    PROVE  /\ Won(row) \subseteq Won(RowAfter(row, copy))
           /\ Won(RowAfter(row, copy)) \subseteq Won(row) \cup Won(copy)
BY DEF RowAfter, Copy, Won

(* Triggers write runs the worker does not have. *)
LEMMA TriggerRecords ==
    ASSUME TypeOK, Phases, Recorded, ~HasRedis,
           NEW r \in Runs, Trigger(r) \/ TriggerRaises(r) \/ Expire(r)
    PROVE  Recorded' /\ WonStays
<1>0. db \in [Runs -> Copy]
  BY DEF TypeOK
<1>1. UNCHANGED <<workerVars, calls>> /\ ~InCache(r)
  <2>1. ~InCache(r)
    BY DEF Recorded, NothingCached, InCache, NoCopy
  <2> QED BY <2>1 DEF Trigger, InitRun, CacheNewRun, RecordActor, CacheActor, EnqueueRun, TriggerRaises, Expire,
                      triggerFrame, historyVars
<1>2. UNCHANGED cache
  BY <1>1 DEF SetCache, Trigger, InitRun, CacheNewRun, RecordActor, CacheActor, EnqueueRun, TriggerRaises,
              Expire, dataVars
<1>3. CASE UNCHANGED db
  BY <1>1, <1>2, <1>3 DEF Recorded, NothingCached, WorkerRecorded, WonStays, Loaded, Won, workerVars
<1>4. ASSUME NEW a \in BOOLEAN, Commit(r, NewRun(a)), trig[r] # "accepted" PROVE Recorded' /\ WonStays
  <2>1. db' = [db EXCEPT ![r] = RowAfter(@, NewRun(a))] /\ held # r
    BY <1>4 DEF Commit, Phases, TriggerPhase
  <2>2. NewRun(a) \in Copy /\ \A s \in Steps : NewRun(a).steps[s] = "none"
    BY NewRunType DEF NewRun, NoCopy
  <2>3. Won(db[r]) \subseteq Won(db'[r])
    <3>1. \A s \in Won(db[r]) : NewRun(a).steps[s] \in {"success", "none"}
      BY <2>2 DEF Won
    <3>2. Won(db[r]) \subseteq Won(RowAfter(db[r], NewRun(a)))
      BY <1>0, <2>2, <3>1, RowWon
    <3> QED BY <1>0, <2>1, <3>2
  <2>4. \A q \in Runs : q # r => db'[q] = db[q]
    BY <1>0, <2>1
  <2>5. Loaded => held \in Runs
    BY DEF TypeOK, WorkerTypeOK, Loaded
  <2> QED BY <1>1, <1>2, <2>1, <2>3, <2>4, <2>5 DEF Recorded, NothingCached, WorkerRecorded, WonStays, Loaded, Won, workerVars
<1>5. CASE InitRun(r) \/ RecordActor(r)
  BY <1>4, <1>5 DEF InitRun, RecordActor
<1> QED BY <1>3, <1>5 DEF Trigger, CacheNewRun, CacheActor, EnqueueRun, TriggerRaises, Expire, dataVars

(* The worker's save of copy on the way to pc, or its exception. *)
LEMMA PersistRecords ==
    ASSUME TypeOK, Recorded, held \in Runs, Loaded, NEW copy \in Copy, NEW pc, NEW next,
           Persist(copy, pc, next), UNCHANGED <<cache, calls>>, Won(copy) = Won(mem),
           pc \in {"walk", "dispatch", "invoke"} => Won(mem) \subseteq skip \cup 1..(next - 1),
           pc = "invoke" => next \notin skip, pc \notin {"calling", "answered", "refused"}
    PROVE  Recorded' /\ WonStays
<1>0. db \in [Runs -> Copy]
  BY DEF TypeOK
<1>1. Won(db[held]) \subseteq Won(copy) /\ \A r \in Runs : cache'[r] = NoCopy
  BY DEF Recorded, NothingCached, WorkerRecorded
<1>2. CASE Commit(held, copy) /\ mem' = copy /\ flush' = TRUE /\ wpc' = pc /\ at' = next
           /\ UNCHANGED <<held, skip, faults>>
  <2>1. db' = [db EXCEPT ![held] = RowAfter(@, copy)]
    BY <1>2 DEF Commit
  <2>2. \A s \in Won(db[held]) : copy.steps[s] \in {"success", "none"}
    BY <1>1 DEF Won
  <2>3. Won(db[held]) \subseteq Won(db'[held]) /\ Won(db'[held]) \subseteq Won(copy)
    <3>1. db'[held] = RowAfter(db[held], copy) /\ db[held] \in Copy
      BY <1>0, <2>1
    <3> QED BY <1>1, <2>2, <3>1, RowWon
  <2>4. \A q \in Runs : q # held => db'[q] = db[q]
    BY <1>0, <2>1
  <2>5. WonStays
    BY <2>3, <2>4 DEF WonStays
  <2>6. Won(db'[held']) \subseteq Won(mem') /\ Won(mem') = Won(mem)
    BY <1>2, <2>3
  <2> QED BY <1>1, <1>2, <2>5, <2>6 DEF Recorded, NothingCached, WorkerRecorded
<1>3. CASE Abort(copy, pc) /\ UNCHANGED db
  <2>1. WonStays
    BY <1>3 DEF WonStays
  <2>2. CASE wpc' = "poll"
    BY <1>1, <2>1, <2>2 DEF Recorded, NothingCached, WorkerRecorded, Loaded
  <2>3. CASE wpc' = "fail" /\ mem' = copy /\ held' = held
    BY <1>1, <1>3, <2>1, <2>3 DEF Recorded, NothingCached, WorkerRecorded, Loaded
  <2> QED BY <1>3, <2>2, <2>3 DEF Abort, Idle
<1> QED BY <1>2, <1>3 DEF Persist

(* Every step of the worker: one step per action. *)
LEMMA WorkerRecords ==
    ASSUME TypeOK, Recorded, ~HasRedis, Worker \/ Timeout
    PROVE  Recorded' /\ WonStays
<1>0. /\ mem \in Copy /\ wpc \in WorkerState /\ at \in 1..(NSteps + 1) /\ NSteps \in Nat
      /\ wpc \notin {"poll", "stopped"} => held \in Runs
      /\ wpc \in {"dispatch", "invoke", "calling", "answered", "refused"} => at \in Steps
      /\ db \in [Runs -> Copy] /\ calls \in [Runs -> [Steps -> Nat]]
  BY NStepsAssumption DEF TypeOK, WorkerTypeOK
<1>1. \A st \in Status : [mem EXCEPT !.status = st] \in Copy /\ Won([mem EXCEPT !.status = st]) = Won(mem)
  BY <1>0, UpdateType DEF Copy, Won
(* A save of the object with no success more or less. *)
<1>2. ASSUME NEW copy \in Copy, NEW pc, NEW next, Persist(copy, pc, next),
             UNCHANGED <<cache, historyVars>>, wpc \notin {"poll", "popped", "stopped"}, Won(copy) = Won(mem),
             pc \in {"walk", "dispatch", "invoke"} => Won(mem) \subseteq skip \cup 1..(next - 1),
             pc = "invoke" => next \notin skip, pc \notin {"calling", "answered", "refused"}
      PROVE  Recorded' /\ WonStays
  BY <1>0, <1>2, PersistRecords DEF Loaded, historyVars
(* A step that writes no row. *)
<1>3. ASSUME UNCHANGED <<db, cache, calls>>, WorkerRecorded' PROVE Recorded' /\ WonStays
  BY <1>3 DEF Recorded, NothingCached, WonStays
<1>4. CASE Flush
  <2>1. UNCHANGED <<db, cache, calls, wpc, held, mem, at, skip>>
    BY <1>4 DEF Flush, SetCache, historyVars
  <2> QED BY <1>3, <2>1 DEF Recorded, WorkerRecorded, Loaded
<1>5. CASE Pop
  BY <1>3, <1>5 DEF Pop, historyVars, WorkerRecorded, Loaded
<1>6. CASE Load
  <2>1. UNCHANGED <<db, cache, calls, held>> /\ wpc' = "loaded" /\ mem' = db[held] /\ held \in Runs
    BY <1>0, <1>6 DEF Load, Stored, InCache, NoCopy, Recorded, NothingCached, dataVars, historyVars
  <2> QED BY <1>3, <2>1 DEF WorkerRecorded
<1>7. CASE Begin
  BY <1>1, <1>2, <1>7 DEF Begin, Status
<1>8. CASE Execute
  <2>1. UNCHANGED <<db, cache, calls, held, mem>> /\ wpc = "started" /\ wpc' = "walk" /\ Won(mem) = skip'
    BY <1>8 DEF Execute, ResumedSuccess, Won, dataVars, historyVars
  <2> QED BY <1>3, <2>1 DEF Recorded, WorkerRecorded, Loaded
<1>9. CASE EnterStep
  <2>0. at \in 0..NSteps
    BY <1>9 DEF EnterStep
  <2>1. [mem EXCEPT !.cur = at] \in Copy /\ Won([mem EXCEPT !.cur = at]) = Won(mem)
    <3>1. [mem EXCEPT !.cur = at].steps = mem.steps
      BY <1>0 DEF Copy
    <3> QED BY <1>0, <2>0, <3>1, UpdateType DEF Won
  <2> QED BY <1>2, <1>9, <2>1 DEF EnterStep, Recorded, WorkerRecorded
<1>10. CASE SkipStep
  <2>1. /\ UNCHANGED <<db, cache, calls, held, mem, skip>> /\ wpc = "dispatch" /\ wpc' = "walk"
        /\ at \in skip /\ at' = at + 1
    BY <1>10 DEF SkipStep, dataVars, historyVars
  <2>2. 1..(at - 1) \subseteq 1..(at' - 1)
    BY <1>0, <2>1
  <2> QED BY <1>3, <2>1, <2>2 DEF Recorded, WorkerRecorded, Loaded
<1>11. CASE StartStep
  <2> DEFINE copy == [mem EXCEPT !.steps[at] = "running"]
  <2>1. wpc = "dispatch" /\ at \in Steps /\ at \notin skip /\ Won(mem) \subseteq skip \cup 1..(at - 1)
    BY <1>0, <1>11 DEF StartStep, Recorded, WorkerRecorded
  <2>2. at \notin Won(mem)
    BY <1>0, <2>1
  <2>3. copy \in Copy /\ Won(copy) = Won(mem)
    <3>1. copy.steps = [mem.steps EXCEPT ![at] = "running"] /\ mem.steps \in [Steps -> StepStatus]
      BY <1>0 DEF Copy
    <3>2. copy \in Copy
      BY <1>0, <2>1, UpdateType DEF StepStatus
    <3> HIDE DEF copy
    <3> QED BY <2>1, <2>2, <3>1, <3>2 DEF Won
  <2>4. Persist(copy, "invoke", at) /\ UNCHANGED <<cache, historyVars>>
    BY <1>11 DEF StartStep
  <2> HIDE DEF copy
  <2> QED BY <1>2, <2>1, <2>3, <2>4
<1>12. CASE Invoke
  <2>1. /\ UNCHANGED <<db, cache, held, mem, at, skip>> /\ wpc = "invoke" /\ wpc' = "calling"
        /\ calls' = [calls EXCEPT ![held][at] = @ + 1]
    BY <1>12 DEF Invoke, dataVars
  <2>2. held \in Runs /\ at \in Steps /\ at \notin Won(db[held])
    BY <1>0, <2>1 DEF Recorded, WorkerRecorded, Loaded
  <2>3. WonStays
    BY <1>0, <2>1, <2>2 DEF WonStays, Won
  <2>4. Recorded'
    BY <2>1 DEF Recorded, NothingCached, WorkerRecorded, Loaded
  <2> QED BY <2>3, <2>4
<1>13. ASSUME NEW st \in {"success", "failed"}, NEW pc \in {"answered", "refused"}, Answer(st, pc),
              st = "success" <=> pc = "answered"
       PROVE  Recorded' /\ WonStays
  <2>1. /\ UNCHANGED <<db, cache, calls, held, at, skip>> /\ wpc = "calling" /\ wpc' = pc
        /\ mem' = [mem EXCEPT !.steps[at] = st]
    BY <1>13 DEF Answer, dataVars
  <2>2. at \in Steps /\ Won(mem) \subseteq skip \cup 1..(at - 1) /\ at \notin Won(mem) /\ Loaded /\ Loaded'
    BY <1>0, <1>13, <2>1 DEF Recorded, WorkerRecorded, Loaded
  <2>3. Won(mem) \subseteq Won(mem') /\ Won(mem') \subseteq Won(mem) \cup {at}
    BY <1>0, <2>1, <2>2 DEF Copy, Won
  <2>4. st = "failed" => Won(mem') = Won(mem)
    BY <1>0, <2>1, <2>2 DEF Copy, Won
  <2>5. Won(mem') \subseteq skip \cup 1..at
    BY <1>0, <2>2, <2>3
  <2> QED BY <1>3, <1>13, <2>1, <2>2, <2>3, <2>4, <2>5 DEF Recorded, WorkerRecorded
<1>14. CASE CallSucceeds \/ CallFails
  BY <1>13, <1>14 DEF CallSucceeds, CallFails
<1>15. CASE SettleStep \/ Unwind
  <2>1. UNCHANGED <<cache, historyVars>> /\ wpc \in {"answered", "refused", "expiring", "unloading"}
    BY <1>15 DEF SettleStep, Unwind
  <2>2. CASE wpc = "answered" /\ Persist(mem, "walk", at + 1)
    <3>1. Won(mem) \subseteq skip \cup 1..((at + 1) - 1)
      BY <1>0, <2>2 DEF Recorded, WorkerRecorded
    <3>2. wpc \notin {"poll", "popped", "stopped"}
      BY <2>2
    <3> QED BY <1>0, <1>2, <2>1, <2>2, <3>1, <3>2, SMTT(30)
  <2>3. CASE \E pc \in {"fail", "expired", "unloaded"} : Persist(mem, pc, at)
    BY <1>0, <1>2, <2>1, <2>3
  <2> QED BY <1>15, <2>2, <2>3 DEF SettleStep, Unwind
<1>16. CASE Succeed \/ EndCutShort \/ Fail
  <2>1. \E st \in Status, pc \in {"succeeded", "timedout", "cancelled", "failed"} :
           Persist([mem EXCEPT !.status = st], pc, at)
    BY <1>16 DEF Succeed, EndCutShort, Fail, Status
  <2>2. UNCHANGED <<cache, historyVars>> /\ wpc \notin {"poll", "popped", "stopped"}
    BY <1>16 DEF Succeed, EndCutShort, Fail
  <2> QED BY <1>1, <1>2, <2>1, <2>2
<1>17. CASE Timeout \/ Announce \/ Finish
  <2>1. /\ UNCHANGED <<db, cache, calls>> /\ wpc \notin {"poll", "popped", "stopped"}
        /\ \/ wpc' \in {"expiring", "expired", "announced"} /\ UNCHANGED <<held, mem>>
           \/ wpc' = "poll"
    BY <1>17 DEF Timeout, CutShort, Announce, Finish, Idle, InAction, dataVars, historyVars
  <2> QED BY <1>3, <2>1 DEF Recorded, WorkerRecorded, Loaded
<1> QED BY <1>4, <1>5, <1>6, <1>7, <1>8, <1>9, <1>10, <1>11, <1>12, <1>14, <1>15, <1>16, <1>17 DEF Worker

(* A process that ends, is told to, or starts takes the worker out of its step. *)
LEMMA ProcessRecords ==
    ASSUME Recorded, Crash \/ Unload \/ Stop \/ Boot
    PROVE  Recorded' /\ WonStays
<1>1. UNCHANGED <<db, cache, calls>>
  BY DEF Crash, Unload, Stop, Die, Boot, OnLoad, ResumeRun, StartWorker, bootFrame, dataVars, historyVars
<1>2. \/ wpc' \in {"poll", "stopped"}
      \/ UNCHANGED workerVars
      \/ wpc' \in {"unloading", "unloaded"} /\ UNCHANGED <<held, mem>> /\ Loaded
  BY DEF Crash, Unload, Stop, Die, Idle, Boot, OnLoad, ResumeRun, StartWorker, bootFrame, CutShort, InTry, Loaded
<1> QED BY <1>1, <1>2 DEF Recorded, NothingCached, WorkerRecorded, Loaded, WonStays, workerVars

(* The default deployment - no Redis, so neither a cache nor a queue that       *)
(* outlives the process - and no cancellation: a success the row shows is kept, *)
(* and its step is not called again, through any number of kills, unloads,      *)
(* timeouts and exceptions of the store.  Both hypotheses are needed: a copy    *)
(* from the cache or from a canceller may bring a step back.                    *)
THEOREM DoneStaysDone ==
    ASSUME ~HasRedis, Clients = {}
    PROVE  Spec => CommittedNotRedone
<1>1. Init => Recorded
  BY DEF Init, Recorded, NothingCached, WorkerRecorded, Loaded
<1>2. TypeOK /\ Phases /\ Recorded /\ [Next]_vars => Recorded' /\ WonStays
  <2> SUFFICES ASSUME TypeOK, Phases, Recorded, [Next]_vars PROVE Recorded' /\ WonStays
    OBVIOUS
  <2>1. CASE UNCHANGED vars
    BY <2>1 DEF vars, dataVars, workerVars, historyVars, Recorded, NothingCached, WorkerRecorded, Loaded, WonStays
  <2> QED BY <2>1, TriggerRecords, WorkerRecords, ProcessRecords DEF Next, Quiet
<1>3. TypeOK /\ WonStays =>
         \A r \in Runs, s \in Steps :
            db[r].steps[s] = "success" => db'[r].steps[s] = "success" /\ calls'[r][s] = calls[r][s]
  BY DEF WonStays, Won
<1>4. TypeOK /\ Phases /\ Recorded /\ [Next]_vars =>
         [\A r \in Runs, s \in Steps :
            db[r].steps[s] = "success" => db'[r].steps[s] = "success" /\ calls'[r][s] = calls[r][s]]_vars
  BY <1>2, <1>3
<1>5. IInv => TypeOK
  BY DEF IInv
<1> QED BY <1>1, <1>2, <1>4, <1>5, PhasesAlways, PTL DEF Spec, CommittedNotRedone

=============================================================================

----------------------------- MODULE Deployments -----------------------------
(***************************************************************************)
(* Deploying, deleting and reading the workflow definitions of a tenant.   *)
(*                                                                         *)
(* A definition is in up to four places: the rows of the database, its     *)
(* copy in the cache, the cached list of all definitions, and the job the  *)
(* scheduler holds for it.  Every request goes from one to the next with   *)
(* an await in between, and requests interleave there.                     *)
(*                                                                         *)
(* Definitions named Bug... are faults put in the place of the definition  *)
(* that follows them, to see that the properties notice.                   *)
(***************************************************************************)
EXTENDS Naturals, FiniteSets

CONSTANTS
    Names,        \* workflow names
    Ops,          \* concurrent requests
    HasCache,     \* a cache service is there
    MaxDeploys,   \* bound: definitions deployed
    MaxRequests,  \* bound: other requests
    MaxFaults     \* bound: restarts, and saves that raise

ASSUME NamesAssumption == Names # {}
ASSUME CacheAssumption == HasCache \in BOOLEAN
ASSUME BoundsAssumption == MaxDeploys \in Nat /\ MaxRequests \in Nat /\ MaxFaults \in Nat

\* The kinds of trigger that matter here; "badcron" is a schedule the
\* scheduler cannot parse.  The id tells the versions apart.
Trigger == {"schedule", "badcron", "event", "manual"}
NoDef == [trigger |-> "none", id |-> 0]
Def == [trigger : Trigger, id : 1..MaxDeploys] \cup {NoDef}
Defs == [Names -> Def]
NoDefs == [n \in Names |-> NoDef]

\* only a schedule that can be parsed makes a job
Jobs == [Names -> {d \in Def : d.trigger = "schedule"} \cup {NoDef}]

VARIABLES
    db,         \* the latest version of each flow
    cache,      \* the cached definitions
    list,       \* the cached list; an empty one is as good as none
    job,        \* the definition held by wf_sched_<tenant>_<name>
    op,         \* the requests under way
    saved,      \* history: all definitions that were ever committed
    disturbed,  \* history: names with requests that overlapped, were cut or failed
    deploys, requests, faults   \* how much of each bound is used

vars == <<db, cache, list, job, op, saved, disturbed, deploys, requests, faults>>

\* The request works on name, with def in hand; all is the list it has read.
Op == [pc : {"idle", "save", "put", "unlist", "filldrop", "drop", "uncache", "fill", "filllist"},
       name : Names, def : Def, all : Defs]
IdleOp == [pc |-> "idle", name |-> CHOOSE n \in Names : TRUE, def |-> NoDef, all |-> NoDefs]

TypeOK ==
    /\ db \in Defs /\ cache \in Defs /\ list \in Defs /\ job \in Jobs
    /\ op \in [Ops -> Op]
    /\ saved \subseteq Def
    /\ disturbed \subseteq Names
    /\ deploys \in 0..MaxDeploys /\ requests \in 0..MaxRequests /\ faults \in 0..MaxFaults

Init ==
    /\ db = NoDefs /\ cache = NoDefs /\ list = NoDefs /\ job = NoDefs
    /\ op = [o \in Ops |-> IdleOp]
    /\ saved = {} /\ disturbed = {}
    /\ deploys = 0 /\ requests = 0 /\ faults = 0

-----------------------------------------------------------------------------
Idle(o) == op[o].pc = "idle"
Touches(o, n) == ~Idle(o) /\ (op[o].name = n \/ op[o].pc = "filllist")
Busy(n) == \E o \in Ops : Touches(o, n)

(* A request on the names ns starts. *)
Overlap(ns) == disturbed' = disturbed \cup {n \in ns : Busy(n)}

Start(o, pc, n, d) ==
    Idle(o) /\ op' = [op EXCEPT ![o] = [pc |-> pc, name |-> n, def |-> d, all |-> NoDefs]]
Step(o, from, to) == op[o].pc = from /\ op' = [op EXCEPT ![o].pc = to]
Over(o, from) == op[o].pc = from /\ op' = [op EXCEPT ![o] = IdleOp]

Cached(n) == HasCache /\ cache[n] # NoDef
SetCache(n, d) == cache' = IF HasCache THEN [cache EXCEPT ![n] = d] ELSE cache

-----------------------------------------------------------------------------
(* registry.register: the job first, then save_definition. *)

(* The scheduler drops the old job, whatever it puts in its place. *)
BugJobOf(d) == IF d.trigger \in {"schedule", "badcron"} THEN d ELSE NoDef
JobOf(d) == IF d.trigger = "schedule" THEN d ELSE NoDef

(* Versions are ordered by the time of their creation. *)
NextId == deploys + 1

Deploy(o, n, trigger) ==
    /\ deploys < MaxDeploys
    /\ LET d == [trigger |-> trigger, id |-> NextId] IN
          Start(o, "save", n, d) /\ job' = [job EXCEPT ![n] = JobOf(d)]
    /\ deploys' = deploys + 1
    /\ Overlap({n})
    /\ UNCHANGED <<db, cache, list, saved, requests, faults>>

opFrame == <<disturbed, deploys, requests, faults>>

Save(o) ==
    /\ Step(o, "save", "put")
    /\ db' = [db EXCEPT ![op[o].name] = op[o].def]
    /\ saved' = saved \cup {op[o].def}
    /\ UNCHANGED <<cache, list, job, opFrame>>

SaveRaises(o) ==
    /\ faults < MaxFaults /\ faults' = faults + 1
    /\ Over(o, "save")
    /\ disturbed' = disturbed \cup {op[o].name}
    /\ UNCHANGED <<db, cache, list, job, saved, deploys, requests>>

Put(o) ==
    /\ Step(o, "put", "unlist")
    /\ SetCache(op[o].name, op[o].def)
    /\ UNCHANGED <<db, list, job, saved, opFrame>>

Unlist(o) ==
    /\ Over(o, "unlist")
    /\ list' = NoDefs
    /\ UNCHANGED <<db, cache, job, saved, opFrame>>

-----------------------------------------------------------------------------
(* registry.unregister: get_definition, the job, then delete_definition. *)

Delete(o, n) ==
    /\ requests < MaxRequests /\ requests' = requests + 1
    /\ \/ Cached(n) /\ Start(o, "drop", n, NoDef) /\ job' = [job EXCEPT ![n] = NoDef]
       \/ ~Cached(n) /\ db[n] # NoDef /\ Start(o, "filldrop", n, db[n]) /\ UNCHANGED job
    /\ Overlap({n})
    /\ UNCHANGED <<db, cache, list, saved, deploys, faults>>

BugFillDrop(o) ==
    /\ Step(o, "filldrop", "drop")
    /\ SetCache(op[o].name, op[o].def)
    /\ UNCHANGED <<db, list, job, saved, opFrame>>

FillDrop(o) ==
    /\ Step(o, "filldrop", "drop")
    /\ SetCache(op[o].name, op[o].def)
    /\ job' = [job EXCEPT ![op[o].name] = NoDef]
    /\ UNCHANGED <<db, list, saved, opFrame>>

(* Nothing to delete any more: the cached copies stay. *)
Drop(o) ==
    /\ \/ db[op[o].name] # NoDef /\ Step(o, "drop", "uncache")
       \/ db[op[o].name] = NoDef /\ Over(o, "drop")
    /\ db' = [db EXCEPT ![op[o].name] = NoDef]
    /\ UNCHANGED <<cache, list, job, saved, opFrame>>

BugUncache(o) ==
    /\ Step(o, "uncache", "unlist")
    /\ UNCHANGED <<db, cache, list, job, saved, opFrame>>

Uncache(o) ==
    /\ Step(o, "uncache", "unlist")
    /\ SetCache(op[o].name, NoDef)
    /\ UNCHANGED <<db, list, job, saved, opFrame>>

-----------------------------------------------------------------------------
(* get_definition, for a trigger or the worker, and list_definitions, for an
   event of the tenant or a listing. *)

Read(o, n) ==
    /\ Idle(o) /\ requests < MaxRequests /\ requests' = requests + 1
    /\ \/ (Cached(n) \/ db[n] = NoDef) /\ UNCHANGED op
       \/ ~Cached(n) /\ db[n] # NoDef /\ Start(o, "fill", n, db[n])
    /\ Overlap({n})
    /\ UNCHANGED <<db, cache, list, job, saved, deploys, faults>>

Fill(o) ==
    /\ Over(o, "fill")
    /\ SetCache(op[o].name, op[o].def)
    /\ UNCHANGED <<db, list, job, saved, opFrame>>

List(o) ==
    /\ Idle(o) /\ requests < MaxRequests /\ requests' = requests + 1
    /\ HasCache /\ list = NoDefs
    /\ op' = [op EXCEPT ![o] = [IdleOp EXCEPT !.pc = "filllist", !.all = db]]
    /\ Overlap(Names)
    /\ UNCHANGED <<db, cache, list, job, saved, deploys, faults>>

FillList(o) ==
    /\ Over(o, "filllist")
    /\ list' = op[o].all
    /\ UNCHANGED <<db, cache, job, saved, opFrame>>

-----------------------------------------------------------------------------
(* WORKFLOW_CACHE_TTL runs out. *)
BugExpire == FALSE
Expire ==
    /\ \/ \E n \in Names : Cached(n) /\ SetCache(n, NoDef) /\ UNCHANGED list
       \/ list # NoDefs /\ list' = NoDefs /\ UNCHANGED cache
    /\ UNCHANGED <<db, job, op, saved, opFrame>>

(* The plugin is unloaded, or dies, and is loaded again: the jobs are gone,
   the requests under way are cut, and sync_scheduler registers nothing. *)
Restart ==
    /\ faults < MaxFaults /\ faults' = faults + 1
    /\ job' = NoDefs
    /\ op' = [o \in Ops |-> IdleOp]
    /\ disturbed' = disturbed \cup {n \in Names : Busy(n)}
    /\ UNCHANGED <<db, cache, list, saved, deploys, requests>>

Quiet ==
    /\ \A o \in Ops : Idle(o)
    /\ UNCHANGED vars

Continue(o) ==
    \/ Save(o) \/ Put(o) \/ Unlist(o) \/ FillDrop(o) \/ Drop(o) \/ Uncache(o)
    \/ Fill(o) \/ FillList(o)

Next ==
    \/ \E o \in Ops :
          \/ \E n \in Names : Delete(o, n) \/ Read(o, n) \/ \E t \in Trigger : Deploy(o, n, t)
          \/ List(o) \/ Continue(o) \/ SaveRaises(o)
    \/ Expire \/ Restart \/ Quiet

(* Requests under way go on, cached entries expire. *)
Spec == Init /\ [][Next]_vars /\ (\A o \in Ops : WF_vars(Continue(o))) /\ WF_vars(Expire)

-----------------------------------------------------------------------------
(* Properties.                                                             *)

Calm(n) == n \notin disturbed /\ ~Busy(n)

(* As long as the requests on a workflow came one after the other, the caches
   serve its latest version, and nothing once it is deleted. *)
CacheIsFresh ==
    \A n \in Names : Calm(n) => cache[n] \in {NoDef, db[n]} /\ (list # NoDefs => list[n] = db[n])

(* As long as the requests on a workflow came one after the other, no job
   fires an old version, a deleted workflow or one that is not scheduled. *)
JobIsCurrent ==
    \A n \in Names : Calm(n) => job[n] \in {NoDef, JobOf(db[n])}

(* Whatever overlaps or fails, the caches serve only definitions that have
   been committed as they are. *)
OnlySavedIsServed ==
    \A n \in Names : {cache[n], list[n]} \subseteq saved \cup {NoDef}

(* Stale copies, however they came about, are gone for good in the end. *)
CachesConverge ==
    <>[](\A n \in Names : cache[n] \in {NoDef, db[n]} /\ (list # NoDefs => list[n] = db[n]))

=============================================================================

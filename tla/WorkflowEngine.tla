--------------------------- MODULE WorkflowEngine ---------------------------
(***************************************************************************)
(* One run over a graph of steps: routing, parallel branches, loops, cycle *)
(* detection, timeouts, unloads, crashes and resumption.                   *)
(*                                                                         *)
(* Every _run_from_step in progress is a walker.  The main walker has the  *)
(* path <<>>; the walker of branch or item i of the fork (parallel or      *)
(* foreach step) f met by walker p has the path Append(p, <<f, i>>).       *)
(* Walkers interleave at the awaits of the code and share one WorkflowRun. *)
(* What a step computes is left out: a condition or a switch picks any of  *)
(* its targets, an action or an AI call answers or fails.                  *)
(*                                                                         *)
(* Definitions named Bug... are faults put in the place of the definition  *)
(* that follows them, to see that the properties notice.                   *)
(***************************************************************************)
EXTENDS Naturals, Sequences, FiniteSets

CONSTANTS
    Steps,      \* step identifiers
    Missing,    \* an identifier no step of the definition has
    END,        \* the target that ends a path
    None,       \* an absent identifier
    Workflows,  \* the definitions to execute
    MaxItems,   \* bound: length of the lists of foreach
    MaxStops    \* bound: crashes and unloads

ASSUME NamesAssumption ==
    /\ END \notin Steps /\ None \notin Steps \cup {END}
    /\ Missing \notin Steps \cup {END, None}
ASSUME BoundsAssumption == MaxItems \in Nat /\ MaxStops \in Nat

Kind == {"action", "ai", "condition", "switch", "parallel", "foreach",
         "wait", "transform", "template"}
Target == Steps \cup {END, Missing}

\* next is on_success (END when absent), fail is on_failure, to the targets of
\* a condition or switch, lists the branches of a parallel or the steps of a
\* foreach (as its one list), together is wait_all or parallel, max is
\* max_parallel
StepDef == [kind : Kind, next : Target, fail : Target \cup {None}, to : SUBSET Target,
            lists : Seq(Seq(Target)), items : 0..MaxItems, together : BOOLEAN, max : Nat]

ASSUME WorkflowsAssumption == \A w \in Workflows : w.start \in Steps /\ w.step \in [Steps -> StepDef]

Status == {"pending", "running", "success", "failed", "cancelled"}
StepStatus == {"none", "running", "success", "failed"}
Terminal == {"success", "failed", "cancelled"}

VARIABLES
    wf,         \* the definition
    run,        \* the WorkflowRun object all walkers share; item is loop_item, 0 when absent
    saved,      \* what the last save_run stored
    walkers,    \* path -> walker
    resumed,    \* resumed_success_ids
    resolved,   \* the principal of the run is in _resolved
    entered,    \* history: the forks that have been entered
    tried,      \* history: <<fork, index, step>> for each step a child has dispatched
    failures,   \* history of this execution: <<path, step>> where an exception was raised
    stops       \* how much of MaxStops is used

vars == <<wf, run, saved, walkers, resumed, resolved, entered, tried, failures, stops>>

Run == [status : Status, cur : Target \cup {None}, item : 0..MaxItems, steps : [Steps -> StepStatus]]
NewRun == [status |-> "pending", cur |-> None, item |-> 0, steps |-> [s \in Steps |-> "none"]]

\* seen is visited; trail is history, the steps the path really went through;
\* bg marks the branches nobody waits for
Walker == [pc : {"queued", "head", "dispatch", "render", "calling", "join", "over", "raised"},
           at : Target, seen : SUBSET Target, trail : SUBSET Target, item : 0..MaxItems, bg : BOOLEAN]

Path == Seq(Steps \X (Nat \ {0}))
Main == <<>>
Parent(p) == SubSeq(p, 1, Len(p) - 1)
Leaf(p) == p[Len(p)]
Step(s) == wf.step[s]
Active(p) == walkers[p].pc \notin {"over", "raised"}
Running == Main \in DOMAIN walkers
NoWalkers == [p \in {} |-> {}]

TypeOK ==
    /\ wf \in Workflows
    /\ run \in Run /\ saved \in Run
    /\ DOMAIN walkers \subseteq Path /\ \A p \in DOMAIN walkers : walkers[p] \in Walker
    /\ resumed \subseteq Steps /\ entered \subseteq Steps
    /\ resolved \in BOOLEAN
    /\ \A t \in tried : t[1] \in Steps /\ t[3] \in Steps
    /\ stops \in 0..MaxStops

Init ==
    /\ wf \in Workflows
    /\ run = NewRun /\ saved = NewRun
    /\ walkers = NoWalkers
    /\ resumed = {} /\ resolved = FALSE
    /\ entered = {} /\ tried = {} /\ failures = {}
    /\ stops = 0

-----------------------------------------------------------------------------
(* _execute_existing and the start of _execute: a first execution, or the one
   that follows a crash. *)

Begin ==
    /\ ~Running /\ run.status \in {"pending", "running"}
    /\ run' = [run EXCEPT !.status = "running"] /\ saved' = run'
    /\ resumed' = {s \in Steps : run.steps[s] = "success"}
    /\ walkers' = [p \in {Main} |->
                     [pc |-> "head", at |-> IF run.cur = None THEN wf.start ELSE run.cur,
                      seen |-> {}, trail |-> {}, item |-> 0, bg |-> FALSE]]
    /\ failures' = {}
    /\ UNCHANGED <<wf, resolved, entered, tried, stops>>

-----------------------------------------------------------------------------
(* What a walker does next. *)

Move(p, w) == walkers' = [walkers EXCEPT ![p] = w]
Goto(p, s) == Move(p, [walkers[p] EXCEPT !.pc = "head", !.at = s])
Save(r) == run' = r /\ saved' = r

Throw(p) ==
    /\ Move(p, [walkers[p] EXCEPT !.pc = "raised"])
    /\ failures' = failures \cup {<<p, walkers[p].at>>}

(* on_failure if there is one, else the exception goes on. *)
BugFailTo(p) == Goto(p, Step(walkers[p].at).fail) /\ UNCHANGED failures
BugSwallow(p) ==
    /\ Goto(p, Step(walkers[p].at).next)
    /\ failures' = IF Step(walkers[p].at).fail # None THEN failures ELSE failures \cup {<<p, walkers[p].at>>}
FailTo(p) ==
    IF Step(walkers[p].at).fail # None
       THEN Goto(p, Step(walkers[p].at).fail) /\ UNCHANGED failures
       ELSE Throw(p)

Dispatching(p, kinds) ==
    walkers[p].pc = "dispatch" /\ Step(walkers[p].at).kind \in kinds /\ walkers[p].at \notin resumed

(* What the branch or item p is a part of has reached one of its steps. *)
Tried(p) == tried' = IF p = Main THEN tried ELSE tried \cup {<<Leaf(p)[1], Leaf(p)[2], walkers[p].at>>}

BugCycle(w) == FALSE
Cycle(w) == w.at \in w.seen

-----------------------------------------------------------------------------
(* _run_from_step: the head of its loop. *)

stepFrame == <<wf, resumed, stops>>

Enter(p) ==
    LET w == walkers[p] IN
    /\ w.pc = "head" /\ ~Cycle(w) /\ w.at \in Steps /\ run.status # "cancelled"
    /\ Save([run EXCEPT !.cur = w.at])
    /\ Move(p, [w EXCEPT !.pc = "dispatch", !.seen = @ \cup {w.at}, !.trail = @ \cup {w.at}])
    /\ UNCHANGED <<stepFrame, resolved, entered, tried, failures>>

(* The path has reached END, or the run has been cancelled. *)
Leave(p) ==
    LET w == walkers[p] IN
    /\ w.pc = "head" /\ ~Cycle(w)
    /\ w.at = END \/ run.status = "cancelled"
    /\ Move(p, [w EXCEPT !.pc = "over"])
    /\ UNCHANGED <<stepFrame, run, saved, resolved, entered, tried, failures>>

(* A cycle, or a step the definition does not have. *)
Break(p) ==
    LET w == walkers[p] IN
    /\ w.pc = "head"
    /\ Cycle(w) \/ (w.at = Missing /\ run.status # "cancelled")
    /\ Throw(p)
    /\ UNCHANGED <<stepFrame, run, saved, resolved, entered, tried>>

-----------------------------------------------------------------------------
(* _dispatch_step and the steps that do not fork. *)

SkipResumed(p) ==
    /\ walkers[p].pc = "dispatch" /\ walkers[p].at \in resumed
    /\ Goto(p, Step(walkers[p].at).next)
    /\ UNCHANGED <<stepFrame, run, saved, resolved, entered, tried, failures>>

StartAction(p) ==
    /\ Dispatching(p, {"action"})
    /\ Save([run EXCEPT !.steps[walkers[p].at] = "running"])
    /\ Move(p, [walkers[p] EXCEPT !.pc = "render"])
    /\ Tried(p)
    /\ UNCHANGED <<stepFrame, resolved, entered, failures>>

(* The payload is rendered, once the start is saved; _call then resolves the
   principal. *)
CallAction(p) ==
    /\ walkers[p].pc = "render"
    /\ Move(p, [walkers[p] EXCEPT !.pc = "calling", !.item = run.item])
    /\ resolved' = TRUE
    /\ UNCHANGED <<stepFrame, run, saved, entered, tried, failures>>

CallAI(p) ==
    /\ Dispatching(p, {"ai"})
    /\ Move(p, [walkers[p] EXCEPT !.pc = "calling", !.item = run.item])
    /\ Tried(p)
    /\ UNCHANGED <<stepFrame, run, saved, resolved, entered, failures>>

(* Only actions keep a record among the steps of the run. *)
Recorded(s, result) ==
    IF Step(s).kind = "action" THEN [run EXCEPT !.steps[s] = result] ELSE run

CallSucceeds(p) ==
    /\ walkers[p].pc = "calling"
    /\ Save(Recorded(walkers[p].at, "success"))
    /\ Goto(p, Step(walkers[p].at).next)
    /\ UNCHANGED <<stepFrame, resolved, entered, tried, failures>>

CallFails(p) ==
    /\ walkers[p].pc = "calling"
    /\ IF Step(walkers[p].at).kind = "action" THEN Save(Recorded(walkers[p].at, "failed"))
                                              ELSE UNCHANGED <<run, saved>>
    /\ FailTo(p)
    /\ UNCHANGED <<stepFrame, resolved, entered, tried>>

Choose(p) ==
    /\ Dispatching(p, {"condition", "switch"})
    /\ \E s \in Step(walkers[p].at).to : Goto(p, s)
    /\ Save(run) /\ Tried(p)
    /\ UNCHANGED <<stepFrame, resolved, entered, failures>>

Compute(p) ==
    /\ Dispatching(p, {"transform", "template"})
    /\ Goto(p, Step(walkers[p].at).next)
    /\ Save(run) /\ Tried(p)
    /\ UNCHANGED <<stepFrame, resolved, entered, failures>>

(* An operator on values of the wrong type, an invalid query: no on_failure. *)
ComputeRaises(p) ==
    /\ Dispatching(p, {"condition", "transform"})
    /\ Throw(p) /\ Tried(p)
    /\ UNCHANGED <<stepFrame, run, saved, resolved, entered>>

Wait(p) ==
    /\ Dispatching(p, {"wait"})
    /\ Goto(p, Step(walkers[p].at).next)
    /\ Tried(p)
    /\ UNCHANGED <<stepFrame, run, saved, resolved, entered, failures>>

-----------------------------------------------------------------------------
(* Forks: _run_parallel and _run_foreach.  Only the first step of a branch,
   or of the list of a foreach, is started. *)

List(f, i) == IF Step(f).kind = "parallel" THEN Step(f).lists[i] ELSE Step(f).lists[1]
Parts(f) ==
    IF Step(f).kind = "parallel"
       THEN {i \in 1..Len(Step(f).lists) : Step(f).lists[i] # <<>>}
       ELSE IF Step(f).lists = <<>> \/ Head(Step(f).lists) = <<>> THEN {} ELSE 1..Step(f).items

Child(p, f, i) == Append(p, <<f, i>>)
Children(p) ==
    {q \in DOMAIN walkers : q # Main /\ Parent(q) = p /\ Leaf(q)[1] = walkers[p].at}

(* Walker p becomes w, its children are ws of which the paths gone end. *)
Forked(p, w, ws, gone) ==
    walkers' = [q \in (DOMAIN walkers \ gone) \cup DOMAIN ws |->
                  IF q = p THEN w ELSE IF q \in DOMAIN ws THEN ws[q] ELSE walkers[q]]

BugChildSeenNone(w) == {}
BugChildSeenNext(w) == w.seen \cup {Step(w.at).next}

(* The copy of visited a child makes when it first runs.  Nobody waits for
   the branches of a wait_all = False step: by then their parent has already
   appended its next step. *)
ChildSeen(w) ==
    IF Step(w.at).kind = "parallel" /\ ~Step(w.at).together
       THEN w.seen \cup ({Step(w.at).next} \ {END})
       ELSE w.seen

NewChildren(p, ids, pc, bg) ==
    LET w == walkers[p] IN
    [q \in {Child(p, w.at, i) : i \in ids} |->
        [pc |-> pc, at |-> List(w.at, Leaf(q)[2])[1], seen |-> ChildSeen(w), trail |-> w.trail,
         item |-> 0, bg |-> bg]]

BugLoopItem(i) == 1
LoopItem(i) == i

Fork(p) ==
    LET w == walkers[p]
        d == Step(w.at)
        first == IF Parts(w.at) = {} THEN {} ELSE {1}
    IN
    /\ Dispatching(p, {"parallel", "foreach"})
    /\ \/ /\ d.kind = "parallel" /\ d.together
          /\ Forked(p, [w EXCEPT !.pc = "join"], NewChildren(p, Parts(w.at), "head", w.bg), {})
          /\ UNCHANGED run
       \/ /\ d.kind = "parallel" /\ ~d.together
          /\ Forked(p, [w EXCEPT !.pc = "head", !.at = d.next],
                    NewChildren(p, Parts(w.at), "head", TRUE), {})
          /\ UNCHANGED run
       \/ /\ d.kind = "foreach" /\ d.together
          /\ Forked(p, [w EXCEPT !.pc = "join"], NewChildren(p, Parts(w.at), "queued", w.bg), {})
          /\ UNCHANGED run
       \/ /\ d.kind = "foreach" /\ ~d.together
          /\ Forked(p, [w EXCEPT !.pc = "join"], NewChildren(p, first, "head", w.bg), {})
          /\ run' = IF first = {} THEN run ELSE [run EXCEPT !.item = LoopItem(1)]
    /\ entered' = entered \cup {w.at}
    /\ Tried(p)
    /\ UNCHANGED <<stepFrame, saved, resolved, failures>>

(* An item of a parallel foreach gets the semaphore. *)
Room(p) == Cardinality({q \in Children(p) : Active(q) /\ walkers[q].pc # "queued"}) < Step(walkers[p].at).max

StartItem(q) ==
    /\ walkers[q].pc = "queued" /\ Room(Parent(q))
    /\ run' = [run EXCEPT !.item = LoopItem(Leaf(q)[2])]
    /\ Move(q, [walkers[q] EXCEPT !.pc = "head"])
    /\ UNCHANGED <<stepFrame, saved, resolved, entered, tried, failures>>

Sequential(p) == LET d == Step(walkers[p].at) IN d.kind = "foreach" /\ ~d.together

(* The next item of a sequential foreach, after the last one came to END. *)
NextItem(p) ==
    /\ walkers[p].pc = "join" /\ Sequential(p)
    /\ \E q \in Children(p) :
          LET i == Leaf(q)[2] + 1 IN
          /\ walkers[q].pc = "over" /\ i \in Parts(walkers[p].at)
          /\ run' = [run EXCEPT !.item = LoopItem(i)]
          /\ Forked(p, walkers[p], NewChildren(p, {i}, "head", walkers[p].bg), {q})
    /\ UNCHANGED <<stepFrame, saved, resolved, entered, tried, failures>>

BugGatheredFirst(p) ==
    \/ \E q \in Children(p) : walkers[q].pc = "raised"
    \/ \A q \in Children(p) :
          walkers[q].pc = "over" /\ (Sequential(p) => Leaf(q)[2] + 1 \notin Parts(walkers[p].at))
BugGathered(p) == \A q \in Children(p) : ~Active(q)
BugGatheredOver(p) ==
    \A q \in Children(p) :
        walkers[q].pc = "over" /\ (Sequential(p) => Leaf(q)[2] + 1 \notin Parts(walkers[p].at))

(* Every child has ended and none is left to start. *)
Gathered(p) ==
    /\ \A q \in Children(p) : ~Active(q)
    /\ Sequential(p) => \A q \in Children(p) : walkers[q].pc = "raised" \/ Leaf(q)[2] + 1 \notin Parts(walkers[p].at)

(* What the fork makes of the exceptions of its children: those of a parallel
   foreach are collected and never looked at. *)
Errors(p) ==
    {q \in Children(p) : walkers[q].pc = "raised"
                         /\ (Step(walkers[p].at).kind = "foreach" => Sequential(p))}

Join(p) ==
    LET w == walkers[p]
        d == Step(w.at)
        foreach == d.kind = "foreach"
    IN
    /\ w.pc = "join" /\ Gathered(p)
    /\ \/ /\ Errors(p) = {}
          /\ Forked(p, [w EXCEPT !.pc = "head", !.at = d.next], NoWalkers, Children(p))
          /\ run' = IF foreach THEN [run EXCEPT !.item = 0] ELSE run
       \/ /\ Errors(p) # {} /\ ~foreach /\ d.fail # None
          /\ Forked(p, [w EXCEPT !.pc = "head", !.at = d.fail], NoWalkers, Children(p))
          /\ UNCHANGED run
       \/ /\ Errors(p) # {} /\ (foreach \/ d.fail = None)
          /\ Forked(p, [w EXCEPT !.pc = "raised"], NoWalkers, Children(p))
          /\ UNCHANGED run
    /\ UNCHANGED <<stepFrame, saved, resolved, entered, tried, failures>>

Walk(p) ==
    \/ Enter(p) \/ Leave(p) \/ Break(p) \/ SkipResumed(p)
    \/ StartAction(p) \/ CallAction(p) \/ CallAI(p) \/ CallSucceeds(p) \/ CallFails(p)
    \/ Choose(p) \/ Compute(p) \/ ComputeRaises(p) \/ Wait(p)
    \/ Fork(p) \/ StartItem(p) \/ NextItem(p) \/ Join(p)

-----------------------------------------------------------------------------
(* The end of _execute, and of execute_existing: forget_actor. *)

(* Cancelling the main task cancels what it gathers; the branches nobody
   waits for are tasks of their own. *)
Survivors == {p \in DOMAIN walkers : walkers[p].bg}

EndAs(status) ==
    /\ Save([run EXCEPT !.status = status])
    /\ walkers' = [p \in Survivors |-> walkers[p]]
    /\ resolved' = FALSE
    /\ UNCHANGED <<wf, resumed, entered, tried, failures>>

Finish ==
    /\ Running
    /\ \/ walkers[Main].pc = "over" /\ EndAs("success")
       \/ walkers[Main].pc = "raised" /\ EndAs("failed")
    /\ UNCHANGED stops

(* wait_for gives up: a definition may have a timeout. *)
Timeout ==
    /\ Running /\ Active(Main)
    /\ EndAs("failed")
    /\ UNCHANGED stops

(* on_unload cancels the worker, which is executing this run. *)
Unload ==
    /\ Running /\ stops < MaxStops
    /\ stops' = stops + 1
    /\ EndAs("cancelled")

(* The process dies.  The run will be loaded from the cache, which holds the
   current step, or from the database, which does not. *)
Crash ==
    /\ walkers # NoWalkers /\ stops < MaxStops
    /\ stops' = stops + 1
    /\ \E cur \in {saved.cur, None} : run' = [saved EXCEPT !.cur = cur]
    /\ saved' = run'
    /\ walkers' = NoWalkers
    /\ resolved' = FALSE
    /\ UNCHANGED <<wf, resumed, entered, tried, failures>>

(* Nothing is left to do. *)
Quiet ==
    /\ run.status \in Terminal /\ \A p \in DOMAIN walkers : ~Active(p)
    /\ UNCHANGED vars

Progress == Begin \/ (\E p \in DOMAIN walkers : Walk(p)) \/ Finish

Next == Progress \/ Timeout \/ Unload \/ Crash \/ Quiet

(* asyncio resumes every task that is ready; calls return. *)
Spec == Init /\ [][Next]_vars /\ WF_vars(Progress)

-----------------------------------------------------------------------------
(* Properties.                                                             *)

(* A run is successful only if it tried every item of every loop and every
   branch of every awaited parallel it came to, or an exception cut the fork
   short and was handled further out. *)
ForksFinish ==
    run.status = "success" => \A f \in entered :
        \/ Step(f).kind = "parallel" /\ ~Step(f).together
        \/ (\E x \in failures : \E k \in 1..Len(x[1]) : x[1][k][1] = f)
        \/ \A i \in Parts(f) : <<f, i, List(f, i)[1]>> \in tried

(* An awaited parallel step of x's path has an on_failure. *)
Routed(x) ==
    \E k \in 1..Len(x[1]) : LET d == Step(x[1][k][1]) IN
        d.kind = "parallel" /\ d.together /\ d.fail # None

(* A step that fails and has no on_failure, on itself or on the parallel step
   around it, does not leave the run successful. *)
FailureIsRouted ==
    run.status = "success" => \A x \in failures : Routed(x)

(* The index of the innermost loop around a walker, if any. *)
LoopsAround(p) == {k \in 1..Len(p) : Step(p[k][1]).kind = "foreach"}

(* An action called inside a loop gets the item of its own iteration. *)
ItemIsOwn ==
    \A p \in DOMAIN walkers : walkers[p].pc = "calling" =>
        \A k \in LoopsAround(p) : (\A j \in LoopsAround(p) : j <= k) => walkers[p].item = p[k][2]

(* A failure keeps nothing else from being done: when the walk ends, however
   it ends, every branch of an awaited parallel and every item of a parallel
   loop has had its first step dispatched, or could not even begin with it. *)
OthersStillTried ==
    Running /\ ~Active(Main) => \A f \in entered : Step(f).together =>
        \A i \in Parts(f) :
            \/ <<f, i, List(f, i)[1]>> \in tried
            \/ \E x \in failures : x[1] # Main /\ Leaf(x[1]) = <<f, i>> /\ x[2] = List(f, i)[1]

(* What makes a path cyclic is a step it went through itself: convergent
   branches and iterations may visit the same step (engine.py:228-234).  It
   does not hold of a branch nobody waits for, which inherits the next step of
   its parent. *)
CyclesAreReal ==
    \A p \in DOMAIN walkers : walkers[p].pc = "head" /\ Cycle(walkers[p]) => walkers[p].at \in walkers[p].trail

(* That is the only other cause of a cycle error: the path went through the
   step, or began as a branch nobody waits for whose parent went on to it. *)
CyclesHaveCause ==
    \A p \in DOMAIN walkers : walkers[p].pc = "head" /\ Cycle(walkers[p]) =>
        \/ walkers[p].at \in walkers[p].trail
        \/ \E k \in 1..Len(p) : LET d == Step(p[k][1]) IN
              d.kind = "parallel" /\ ~d.together /\ walkers[p].at = d.next

(* Forks never nest a fork in itself: whatever the graph, no path holds the
   same step twice, so walkers are finitely many. *)
NoReentry ==
    \A p \in DOMAIN walkers : \A j, k \in 1..Len(p) : p[j][1] = p[k][1] => j = k

(* The identity of a run does not outlive it (engine.py:60, 146).  It does not
   hold: a branch nobody waits for that calls an action after the end resolves
   it again, and nobody forgets it. *)
IdentityDiesWithRun ==
    run.status \in Terminal /\ (\A p \in DOMAIN walkers : ~Active(p)) => ~resolved

(* Every run that starts ends, even when its graph is cyclic. *)
EveryRunEnds == run.status = "running" ~> run.status \in Terminal

(* So do the branches nobody waits for. *)
EveryWalkerEnds == <>[](\A p \in DOMAIN walkers : ~Active(p))

=============================================================================
